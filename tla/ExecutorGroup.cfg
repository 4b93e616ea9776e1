SPECIFICATION Spec
CONSTANTS
  Leader = leader
  leader = leader
  h1 = h1
  h2 = h2
  Helpers = {h1}
  Streams = {"stdout"}
  None = None
  Chunk = 2
  Capacity = 1
  MaxWritten = 2
INVARIANT TimeoutTerminatesGroup
CHECK_DEADLOCK FALSE
