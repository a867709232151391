\* Every show of four files of the kinds in the module, one scan.
CONSTANTS
    a1 = a1
    a2 = a2
    a3 = a3
    b1 = b1
    b2 = b2
    b3 = b3
    a4 = a4
    f1 = f1
    f2 = f2
    f3 = f3
    f4 = f4
    x = x
    y = y
    p1 = p1
    p2 = p2
    g1 = g1
    Files = {f1, f2, f3, f4}
    Slots = {a1, a2, a3, a4, b1, b2, b3}
    Runs <- MCRuns
    Groups = {g1, g2, g3, g4, g5}
    NoGroup = NoGroup
    Seasons = {1, 2}
    SeasonOf <- MCSeasonOf
    NoSlot = NoSlot
    Names = {x, y, p1, p2}
    NoName = NoName
    Library <- MCKindsLibrary
    Disk <- MCOneDisk
    Listings <- MCListed
    Siblings = {}
    MaxScans = 1
    MaxEdits = 0
SYMMETRY MCSymmetry
SPECIFICATION Spec
\* A finite number of scans and edits.
CHECK_DEADLOCK FALSE
PROPERTY RescuedSlotsWereFree
PROPERTY TitlesStand
PROPERTY GroupsLoseWhole
