SPECIFICATION SuiteSpec
CONSTANTS
    Parts = {"roster", "table", "bulk", "queueing", "files", "list", "feedback"}
    x = x
    y = y
    Cards <- MCCards
    Providers = {tmdb}
    ShowIds = {1, 2}
    NoId = 0
    Says = {"matched", "fully-ready"}
    PosterMax = 1
    MaxChanges = 1
    show1 = show1
    series1 = series1
    Shows = {show1, show2}
    Matches = {series1, series2}
    Previews <- MCPreviews
    MaxRenders = 2
    MaxRescans = 1
    MaxMoves = 1
    Files <- MCShowFiles
    Slots <- MCSlots
    Runs <- MCRuns
    PartGroups = {}
    NoGroup = 0
    ByName <- MCByName
    Evidence <- MCEvidence
    Tables <- MCTables
    MaxBulkRescans = 1
    Projections <- MCProjections
    Muxable <- MCMuxable
    SweepWorkers = 2
    MaxRowEdits = 1
    MaxChoices = 1
    MaxSubmissions = 1
    MaxSignals = 1
    Scenes <- MCScenes
    Stems = {"e1", "e2"}
    Settings <- MCSettings
    MaxIntrusions = 1
    ListJobs = {j1, j2}
    NoListedJob = NoListedJob
    PreviewedFiles <- MCFilesOf
    RunJobs = {k1, k2}
    NobodyRuns = NobodyRuns
    MaxDirectToasts = 1
CONSTRAINT Bounded
INVARIANTS
    RosterHolds
    TableTellsTheShow
    QueueingHolds
    FilesSurvive
    RevertsRestoreTheTree
    TabsTellTheJobs
    RunsAreTold
PROPERTY
    StagingIsApplied
CHECK_DEADLOCK FALSE
