CONSTANTS
    Listeners = {1}
    MaxNested = 0
    Configs <- SomeConfigs
    MaxUpdates = 1
SPECIFICATION Spec
INVARIANTS
    StreamBlockedNotChecked
CHECK_DEADLOCK FALSE
