CONSTANTS
    m1 = m1
    m2 = m2
    Monitors <- MCMonitors
    Tiers <- MCTiers
    Bucket <- MCBucket
    Period = 1
    Lateness = 1
    Retention = 10
    Start = 5
    End = 16
    MaxChecks = 2
    MaxFaults = 1
SYMMETRY MonitorSymmetry
SPECIFICATION Spec
INVARIANTS TypeOK  LongBucketsSurvive WindowIsSound
