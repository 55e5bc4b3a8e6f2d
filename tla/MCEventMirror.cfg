SPECIFICATION Spec
CONSTANTS
    MaxDepth = 3
    MaxEvents = 5
    FailingDepths <- AnyDepthFails
    WritesFail = TRUE
    Swallows = TRUE
    Crashes = TRUE
INVARIANTS
    TypeOK
    MirrorFaithful
    NothingBeforeCommit
