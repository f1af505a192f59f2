\* Two recipients, every kind of snapshot, a retry.
SPECIFICATION Spec
CONSTANTS
  p1 = p1
  p2 = p2
  None = None
  Id = Id
  Recipient <- TwoRecipients
  MaxAttempts = 3
CHECK_DEADLOCK FALSE
INVARIANTS
  DeliveredToTheOthers
  RepeatedOnlyWhenUpset
PROPERTIES
  RefusalsAreTerminal
  LedgerSpec
SYMMETRY Symmetry
