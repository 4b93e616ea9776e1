CONSTANTS
  l1 = l1
  l2 = l2
  Launches <- MCLaunches
  NumCases = 1
  Verdicts = {pass, fail}
  None = None
  Runtime = "rootless-podman"
  MaxInputs = 1
  MaxEdits = 0
SPECIFICATION Spec
INVARIANT RunStateNamesOwner
