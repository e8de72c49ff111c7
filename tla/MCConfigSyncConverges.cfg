CONSTANTS
    MaxVersion = 2
    MaxFailures = 2
    MaxFetches = 2
SPECIFICATION FairSpec
PROPERTIES
    ConfigConverges
    ListsConverge
CHECK_DEADLOCK FALSE
