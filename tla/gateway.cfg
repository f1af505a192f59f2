\* One request after another at three installations: behind up to two proxies, with every
\* list and page, and while edits overlap.
SPECIFICATION Spec
CONSTANTS
  hA = hA
  hB = hB
  hNum = hNum
  hU = hU
  c1 = c1
  c2 = c2
  t1 = t1
  a1 = a1
  a2 = a2
  s1 = s1
  s2 = s2
  s3 = s3
  None = None
  Junk = Junk
  Nobody = Nobody
  HostName <- FourNames
  Address <- ThreeAddresses
  Trusted <- OneTrusted
  Text <- Texts
  Editor <- TwoEditors
  Site <- ThreeSites
  Setup <- Setups
CHECK_DEADLOCK FALSE
INVARIANTS
  AdmittedWereListed
  ListedPagesAreServed
  ClientAddressIsTheirs
PROPERTIES
  SavedListsTakeEffect
SYMMETRY Symmetry
