\* Callers obey the single-execution contract; one crash; a rename job and a remux
\* job that waits for it, with two files each; the threads are fair.
CONSTANTS
    j1 = j1
    j2 = j2
    f1 = f1
    f2 = f2
    Jobs = {j1, j2}
    Files = {f1, f2}
    MediaOf <- MCOwnMedia
    KindOf <- MCKindOf
    DependsOn <- MCChain
    NoJob = NoJob
    NoUndo = NoUndo
    Positions <- MCPositions
    LosableFiles = {f1}
    MaxCrashes = 1
    GuardSingle = TRUE
SPECIFICATION FairSpec
INVARIANT ThreadsOwnJobs
INVARIANT UndoTellsTheMoves
PROPERTY ImplementsLifecycle
PROPERTY StopHonoured
PROPERTY PendingProcessed
