----------------------------- MODULE MCRollups -----------------------------
(* Small instances of Rollups.  One unit of time stands for the minute: the   *)
(* minute tier has buckets of 1, the next tier buckets of 5.                  *)
EXTENDS Rollups, TLC

CONSTANTS m1, m2

MCMonitors == {m1, m2}
MCTiers == <<"1m", "5m">>
MCBucket == [t \in {"1m", "5m"} |-> IF t = "1m" THEN 1 ELSE 5]

MonitorSymmetry == Permutations(MCMonitors)
=============================================================================
