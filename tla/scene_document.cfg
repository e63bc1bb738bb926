SPECIFICATION DocumentSpec
CONSTANTS
    plain = plain
    rover = rover
    v1 = v1
    v2 = v2
    v3 = v3
    Prims = {plain, rover}
    Values = {v1, v2, v3}
    Absent = Absent
    Bare = Bare
    Unparsable = Unparsable
    Lost = Lost
    Nowhere = Nowhere
    UserOps <- EditOps
    ChangeSets <- Spawn
    RemoteOps <- PeerOps
    Texts <- TwoTexts
    RuntimeTexts <- OldRuntime
    OpRing = 2
    MaxGeneration = 4
    MaxReads = 1
INVARIANTS
    UndoRestores
    UnsavedWorkIsDirty
    RuntimeStaysOut
    RuntimeIsKept
PROPERTY
    OpensKeepUnsavedWork
CHECK_DEADLOCK FALSE
