CONSTANT MaxPackets = 3
SPECIFICATION FairSpec
INVARIANTS
    NoRacingAccess
    ReceivesOnOpenSocket
PROPERTIES
    ValuesNeverGoBack
    DestructorReturns
CHECK_DEADLOCK FALSE
