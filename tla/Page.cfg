CONSTANTS
  s1 = s1
  s2 = s2
  Sections = {s1, s2}
  Pages <- TwoSections
  MaxFlight = 2
  MaxChanges = 2
  MaxFails = 1
  MaxReloads = 1
SPECIFICATION FairSpec
INVARIANTS
  TypeOK
  MissingOnlyByFailure
PROPERTIES
  ForwardUnlessOverlapped
  Settles
