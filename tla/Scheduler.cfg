CONSTANTS
    m1 = m1
    m2 = m2
    Monitors <- MCMonitors
    Intervals <- MCIntervals
    Offset <- MCOffset
    Period <- MCPeriod
    Tick = 1
    MaxProbe = 2
    MaxJob = 1
    Horizon = 4
    MaxFaults = 1
SPECIFICATION Spec
INVARIANTS TypeOK MaintenanceAlone 
PROPERTIES NeverEarly JobsArePeriodic
