CONSTANTS
  c1 = c1
  c2 = c2
  c3 = c3
  p1 = p1
  p2 = p2
  v1 = v1
  v2 = v2
  Calls <- MCCalls
  Paths <- MCPaths
  Contents <- MCContents
  Absent = Absent
  Torn = Torn
  MaxOutages = 1
SPECIFICATION Spec
INVARIANTS
  TypeOK
  NoTornArtifact
  ReturnedIsPublished
  AbortLeavesNothing
PROPERTY WriteOnceSpec
CHECK_DEADLOCK FALSE
SYMMETRY Symmetry
