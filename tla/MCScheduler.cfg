SPECIFICATION LiveSpec
CONSTANT MaxInFlight = 3
INVARIANTS
    TypeOK
    NoRoundAfterClose
PROPERTIES
    OnlyRetriesOverlap
    KeepsThinking
