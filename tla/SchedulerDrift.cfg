CONSTANTS
    m1 = m1
    m2 = m2
    Monitors <- MCMonitors
    Intervals <- MCIntervals
    Offset <- MCOffset
    Period <- MCPeriod
    Tick = 1
    MaxProbe = 2
    MaxJob = 0
    Horizon = 4
    MaxFaults = 1
SPECIFICATION Spec
INVARIANTS DriftWithinTick
