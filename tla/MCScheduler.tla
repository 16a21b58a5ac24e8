---------------------------- MODULE MCScheduler ----------------------------
(* Small instances of Scheduler.  One unit of time stands for the tick; the   *)
(* monitor m1 has a phase offset on the longer interval and m2 has none.      *)
EXTENDS Scheduler

CONSTANTS m1, m2

MCMonitors == {m1, m2}
MCIntervals == {1, 2}
MCOffset == [m \in MCMonitors |-> [i \in MCIntervals |-> IF m = m1 /\ i = 2 THEN 1 ELSE 0]]

\* Compaction more often than the other jobs, as in the code.
MCPeriod == [purge |-> 3, digest |-> 3, rollup |-> 2]

\* Liveness: equal periods and one interval keep the graph small enough for cycles.
LiveIntervals == {2}
LiveOffset == [m \in MCMonitors |-> [i \in LiveIntervals |-> IF m = m1 THEN 1 ELSE 0]]
LivePeriod == [purge |-> 2, digest |-> 2, rollup |-> 2]
=============================================================================
