CONSTANTS
    Ips = {ip1, ip2}
    Samples = {s1}
    Missing = Missing
    Threshold = 2
    TimeFrame = 2
    MinBetween = 3
    MaxEntries = 1
    MaxSamples = 1
    MaxTime = 6
    MaxHits = 7
SPECIFICATION Spec
INVARIANTS
    TypeOK
    ReportedIffWave
    NoWaveMissed
PROPERTY
    ReportsApart
SYMMETRY Symmetry
