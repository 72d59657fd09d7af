CONSTANTS
    max_count = 2
    Listeners <- MCListeners
SPECIFICATION Spec
INVARIANTS
    TypeOK
    NeverSilent
    CountIsAnswered
    RetriesDoNotMultiply
PROPERTIES
    SenderFinishes
CHECK_DEADLOCK FALSE
