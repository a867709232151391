\* Run Selected at any time (the GUI does not look); two rename jobs of one media.
CONSTANTS
    j1 = j1
    j2 = j2
    f1 = f1
    f2 = f2
    Jobs = {j1, j2}
    Files = {f1}
    MediaOf <- MCSameMedia
    KindOf <- MCAllRename
    DependsOn <- MCNoDependency
    NoJob = NoJob
    NoUndo = NoUndo
    Positions <- MCPositions
    LosableFiles = {}
    MaxCrashes = 1
    GuardSingle = FALSE
SPECIFICATION Spec
INVARIANT RunningHasOwner
