\* Two release folders of one season beside an umbrella folder.
SPECIFICATION SuiteSpec
CONSTANTS
    Parts = {"shows"}
    MaxStarts = 2
    MaxSwitches = 1
    NumFolders = 3
    Shows <- MCBatchShows
    Seasons <- MCBatchSeasons
    BatchLibraries <- MCWholeSeasonLibraries
    Answers <- MCAnswers
    MaxEdits = 0
    Trees <- MCTrees
    LibraryRoot = 0
    NoNumber = NoNumber
    VideoLibraries <- MCVideoLibraries
    Root = root
    NoSeasonName = NoSeasonName
    HintOverflowMargin = 0
    MovieLibraries <- MCMovieFolders
    NoMovie = NoMovie
    NoFile = 0
    Threshold = 550
    MaxRematches = 1
    movie1 = movie1
    movie2 = movie2
INVARIANT AbsorbedFoldersRead
CHECK_DEADLOCK FALSE
