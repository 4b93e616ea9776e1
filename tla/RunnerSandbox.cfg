CONSTANTS
  l1 = l1
  l2 = l2
  Launches <- MCLaunches
  NumCases = 1
  Verdicts = {pass, fail}
  None = None
  Runtime = "seccomp-chroot"
  MaxInputs = 1
  MaxEdits = 0
SPECIFICATION Spec
INVARIANT StoppedCleansSandbox
