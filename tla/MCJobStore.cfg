\* The store with callers that follow the life cycle of a row, four jobs.
CONSTANTS
    j1 = j1
    j2 = j2
    j3 = j3
    j4 = j4
    m1 = m1
    m2 = m2
    m3 = m3
    Jobs = {j1, j2, j3, j4}
    Files = {}
    MediaOf <- MCMediaOf
    KindOf <- MCKindOf
    DependsOn <- MCDependsOn
    NoJob = NoJob
    NoUndo = NoUndo
    Positions <- MCPositions
SPECIFICATION StoreSpec
CONSTRAINT FewEnded
INVARIANT PendingPositionsDistinct
INVARIANT OneQueuedJobPerMedia
PROPERTY SelectionsMoveTogether
