CONSTANTS
    Listeners = {1, 2}
    MaxNested = 1
    Configs <- SomeConfigs
    MaxUpdates = 1
SPECIFICATION Spec
INVARIANTS
    TypeOK
    CountedOnce
    LimitTakenOnce
    BypassedLeftAlone
    RequestBlockedNotChecked
PROPERTIES
    BlockedBeforeHandled
    LimitedIsCounted
CHECK_DEADLOCK FALSE
