SPECIFICATION SuiteSpec
CONSTANTS
    Parts = {"sessions", "shows", "discovery", "tv", "movies"}
    MaxStarts = 2
    MaxSwitches = 1
    NumFolders = 3
    Shows <- MCBatchShows
    Seasons <- MCBatchSeasons
    BatchLibraries <- MCBatchLibraries
    Answers <- MCAnswers
    MaxEdits = 1
    Trees <- MCTrees
    LibraryRoot = 0
    NoNumber = NoNumber
    VideoLibraries <- MCVideoLibraries
    Root = root
    NoSeasonName = NoSeasonName
    HintOverflowMargin = 0
    MovieLibraries <- MCMovieFolders
    NoMovie = NoMovie
    NoFile = 0
    Threshold = 550
    MaxRematches = 1
    movie1 = movie1
    movie2 = movie2
INVARIANTS
    ScansSettle
    LibraryKept
    RootsFound
    MoviesAccounted
PROPERTY TitlesPlaceFiles
CHECK_DEADLOCK FALSE
