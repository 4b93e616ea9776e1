CONSTANTS
  l1 = l1
  l2 = l2
  Launches <- MCLaunches
  NumCases = 2
  Verdicts = {pass, fail}
  None = None
  Runtime = "rootless-podman"
  MaxInputs = 2
  MaxEdits = 2
SPECIFICATION Spec
INVARIANTS
  TypeOK
  OneWriter
  CompleteMeansWhole
  OnlyRestoredInputsEscape
  RestartsNeverCollide
SYMMETRY AlikeLaunches
