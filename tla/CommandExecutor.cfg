SPECIFICATION FairSpec
CONSTANTS
  Leader = leader
  leader = leader
  h1 = h1
  h2 = h2
  Helpers = {h1, h2}
  Streams = {"stdout"}
  None = None
  Chunk = 2
  Capacity = 1
  MaxWritten = 2
INVARIANTS TypeOK SuccessIsUndisturbed PipeHoldersAreOutside LossMeansForce LeaderNeverOutlivesRun
PROPERTY RunEnds
CHECK_DEADLOCK FALSE
