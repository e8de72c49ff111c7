CONSTANTS
    Ips = {ip1, ip2}
    Samples = {s1, s2, s3}
    Missing = Missing
    Threshold = 3
    TimeFrame = 2
    MinBetween = 3
    MaxEntries = 1
    MaxSamples = 2
    MaxTime = 4
    MaxHits = 5
SPECIFICATION Spec
INVARIANT
    EventTellsItsWave
SYMMETRY Symmetry
