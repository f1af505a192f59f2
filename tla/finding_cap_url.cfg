\* Two edits of one endpoint at a time.
SPECIFICATION ConfigSpec
CONSTANTS
  e1 = e1
  e2 = e2
  s1 = s1
  s2 = s2
  m1 = m1
  m2 = m2
  x1 = x1
  a1 = a1
  a2 = a2
  a3 = a3
  None = None
  Endpoint <- TwoEndpoints
  Slug <- TwoSlugs
  Email <- TwoEmails
  Site <- OneSite
  Editor <- ThreeEditors
  Form <- SomeForms
CHECK_DEADLOCK FALSE
INVARIANTS
  CapHasUrl
