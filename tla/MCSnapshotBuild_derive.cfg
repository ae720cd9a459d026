SPECIFICATION Spec
CONSTANTS
    gone = gone
    Absent = gone
    Content <- MCContent
    MaxUnitBytes = 3
    DocLines = 2
    MaxCallees = 1
    TestWords <- MCTestWords
    PathOrder <- MCPathOrder
    NameOrder <- MCNameOrder
    History <- MCHistory
    MaxCoCommits = 2
    MaxCoFiles = 2
    MaxPartners = 1
    AfterTest <- MCAfterTest
    ShortNames <- MCShortNames
    Tools = {"scip:rust-analyzer", "scip:typescript"}
    MaxEvidence = 1
    Versions <- MCVersions
    FirstTree <- MCFirstTree
    BuiltIn <- MCBuiltIn
    Sensitive <- MCSensitive
    MaxPatched = 1
    MaxFileBytes = 20
    RootIndex <- MCRootIndex
    MaxUpsets = 2
INVARIANTS
    SnapshotNamesItsContent
    IncrementalEqualsFull
    RecordsAreClosed
PROPERTIES
    EditsAreIndexed
