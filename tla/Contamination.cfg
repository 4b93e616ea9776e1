CONSTANTS
  Repositories <- MCRepositories
  Samples <- MCSamples
  Tasks <- MCTasks
  Patches <- MCPatches
  Length <- MCLength
  Num = 4
  Den = 5
  EvaluationRoots = {1, 3}
  SampleRows <- MCSampleRows
  Matchings <- MCMatchings
  BenchmarkSets = {{1, 3}, {2, 4}}
  None = None
SPECIFICATION FairSpec
INVARIANTS
  TypeOK
  FlatForest
  NoLeakage
  BenchmarkExcluded
  GroupsAreComponents
PROPERTY BuildTerminates
CHECK_DEADLOCK FALSE
