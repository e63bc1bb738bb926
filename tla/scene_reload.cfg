SPECIFICATION Spec
CONSTANTS
    plain = plain
    rover = rover
    v1 = v1
    v2 = v2
    v3 = v3
    Prims = {plain, rover}
    Values = {v1, v2, v3}
    Absent = Absent
    Bare = Bare
    Unparsable = Unparsable
    Lost = Lost
    Nowhere = Nowhere
    UserOps <- BaseOps
    ChangeSets <- None
    RemoteOps <- None
    Texts <- OneText
    RuntimeTexts <- None
    OpRing = 2
    MaxGeneration = 3
    MaxReads = 0
    Referenced <- None
    MaxRestarts = 1
INVARIANT
    ReloadKeepsEdits
CHECK_DEADLOCK FALSE
