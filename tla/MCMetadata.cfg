SPECIFICATION SuiteSpec
CONSTANTS
    Parts = {"cache", "client", "requests", "probes", "matching", "titles", "floors", "mux"}
    MaxClears = 1
    MaxClock = 1
    MaxEntries = 2
    Lifetime = 1
    Askers = {a1}
    Readers = {r1, r2}
    Pages = 2
    NoPage = NoPage
    MaxDrops = 2
    MaxReads = 1
    Threads = {t1, t2}
    Nobody = Nobody
    Burst = 1
    RateRetries = 1
    Retries = 2
    MaxTokens = 2
    Probers = {p1, p2}
    Videos = {v}
    CacheMax = 1
    MaxVersions = 2
    MaxCalls = 2
    Folders <- MCFolders
    MaxResults = 2
    Unknown = Unknown
    Threshold = 550
    TieMargin = 20
    AltCandidates = 5
    Listings <- MCListings
    Files <- MCFiles
    Stopwords = {"of", "and"}
    PartNumbers = {"1", "2", "3"}
    Alike = {{"trial", "trials"}, {"1", "2", "3"}}
    Shortened = {{"friend", "friendship"}}
    TitleInitials <- MCTitleInitials
    TableFiles = {f, g, h}
    Tables <- MCTables
    Seasons <- MCSeasons
    ShowNames <- MCShowNames
    ShowInitials <- MCShowInitials
    EpisodeThreshold = 85
    Perfect = TRUE
    en = en
    fr = fr
    Und = Und
    NoLanguage = NoLanguage
    Inputs <- MCInputs
    MaxEdits = 1
CONSTRAINT Bounded
INVARIANTS
    CachesHold
    OldTokenNeverRefuses
    ProbesAreShared
    OrderDoesNotDecide
    TitlesTell
    ConfidenceHolds
PROPERTIES
    CallsEnd
    PlansKeepDefaults
CHECK_DEADLOCK FALSE
