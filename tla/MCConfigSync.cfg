CONSTANTS
    MaxVersion = 3
    MaxFailures = 1
    MaxFetches = 2
SPECIFICATION Spec
INVARIANTS
    TypeOK
    ListsFollowConfig
PROPERTIES
    SeenNeverGoesBack
CHECK_DEADLOCK FALSE
