\* As MCEpisodeMapping.cfg, for one property.
CONSTANTS
    a1 = a1
    a2 = a2
    a3 = a3
    b1 = b1
    b2 = b2
    b3 = b3
    a4 = a4
    f1 = f1
    f2 = f2
    f3 = f3
    f4 = f4
    x = x
    y = y
    p1 = p1
    p2 = p2
    g1 = g1
    Files = {f1, f2, f3, f4}
    Slots = {a1, a2}
    Runs <- MCRuns
    Groups = {g1, g2, g3, g4, g5}
    NoGroup = NoGroup
    Seasons = {1, 2}
    SeasonOf <- MCSeasonOf
    NoSlot = NoSlot
    Names = {x, y, p1, p2}
    NoName = NoName
    Library <- MCShows
    Disk <- MCDisks
    Listings <- MCListings
    Siblings <- MCSiblings
    MaxScans = 2
    MaxEdits = 2
SPECIFICATION Spec
CHECK_DEADLOCK FALSE
PROPERTY ManualSurvivesRescan
