CONSTANTS
    Ips = {ip1, ip2}
    Samples = {s1}
    Missing = Missing
    Threshold = 3
    TimeFrame = 2
    MinBetween = 3
    MaxEntries = 1
    MaxSamples = 1
    MaxTime = 6
    MaxHits = 4
SPECIFICATION Spec
INVARIANT
    WaveWithinTimeFrame
SYMMETRY Symmetry
