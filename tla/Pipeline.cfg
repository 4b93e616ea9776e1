SPECIFICATION PipelineSpec
CONSTANTS
    Ids = {"i1", "i2"}
    NoId = "none"
    Payloads = {"p1", "p2"}
    TaskRows <- MCTaskRows
    MaxTaskRows = 4
    Leaves <- MCLeaves
    Rollouts = {"r1", "r2"}
    NoRollout = "none"
    Unstated = "unstated"
    TraceRows <- MCTraceRows
    MaxTraceRows <- MCMaxTraceRows
    ReviewedLeaves = {1, 2}
    TrustedLeaves = {1}
    LabeledPartitions = {3}
    TargetPartitions = {1, 2}
    LabeledRows <- MCLabeledRows
    TargetRows <- MCTargetRows
    Languages = {"TypeScript", "JavaScript"}
    MaxLabeled = 2
    MaxTargets = 4
    Supported = {"TypeScript", "JavaScript"}
    TaskLanguages <- MCTaskLanguages
    Bounds <- MCBounds
    ImageDigests = {"d1", "d2"}
    NoImage = "no image"
    Tests = {"f1", "f2", "p1"}
    ToFix = {"f1", "f2"}
    NameOf <- MCNameOf
    Truths <- MCTruths
    MaxStops = 1
    MaxMoves = 2
    Repos = {1, 2, 3}
    MaxAliases = 2
    PilotSamples <- MCPilotSamples
    MaxPilotRows = 3
    MaxPilot = 1
    Launches = {"l1", "l2"}
    Versions = {"given", "other"}
    Given = "given"
    AuthorizedPilots <- MCAuthorizedPilots
    MaxTouches = 2
    MaxSeeds = 2
    Starts = {"s1", "s2"}
    RunLeaves = 2
    MaxEdits = 1
INVARIANTS
    PipelineTypeOK
    EveryTaskRowIsAccounted
    AdmittedExactlyWhenUnanimous
    OneSamplePerHonestRollout
    PassMeansEveryRawRow
    ConclusionsAreEarned
    RecoveryIsSound
    WorksetIsWhole
    VerdictIsTheTasksOwn
    PilotAvoidsEvaluation
    ClaimsWereExecuted
    RunnersTellTruth
    NothingIsStranded
CHECK_DEADLOCK FALSE
