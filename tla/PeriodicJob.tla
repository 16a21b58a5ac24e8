---------------------------- MODULE PeriodicJob ----------------------------
(***************************************************************************)
(* What the scheduler promises each of its maintenance jobs (retention     *)
(* purge, daily digests, rollup compaction) and what those jobs are built  *)
(* on: while the process is up, two runs of the job are at least Period    *)
(* apart, and once the period has elapsed the run starts within Lateness.  *)
(* The timer lives in process memory, so a stop forgets it and the first   *)
(* evaluation after a start finds the job due.                             *)
(***************************************************************************)
EXTENDS Integers

CONSTANTS Period, Lateness

VARIABLES
    sinceRun,   \* time since the last run; a job never run counts as just due
    up          \* the process that owns the timer is running

vars == <<sinceRun, up>>

Init == sinceRun = Period /\ up = TRUE

Run ==
    /\ up
    /\ sinceRun >= Period
    /\ sinceRun' = 0
    /\ UNCHANGED up

Wait ==
    /\ up
    /\ sinceRun < Period + Lateness
    /\ sinceRun' = sinceRun + 1
    /\ UNCHANGED up

Stop ==
    /\ up
    /\ up' = FALSE
    /\ sinceRun' = Period

Start ==
    /\ ~up
    /\ up' = TRUE
    /\ sinceRun' = Period

Next == Run \/ Wait \/ Stop \/ Start

Spec == Init /\ [][Next]_vars

=============================================================================
