\* Three management requests while submissions are handled.
SPECIFICATION Spec
CONSTANTS
  e1 = e1
  s1 = s1
  m1 = m1
  m2 = m2
  x1 = x1
  x2 = x2
  a1 = a1
  a2 = a2
  a3 = a3
  r1 = r1
  None = None
  Endpoint <- OneEndpoint
  Slug <- OneSlug
  Email <- TwoEmails
  Site <- TwoSites
  Editor <- ThreeEditors
  Form <- SomeForms
  Request <- OneRequest
INVARIANTS
  SnapshotWasConfigured
  CapEnforced
SYMMETRY Symmetry
