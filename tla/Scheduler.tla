----------------------------- MODULE Scheduler -----------------------------
(***************************************************************************)
(* The in-process scheduler of pingback/services/scheduler.py: one asyncio *)
(* task that loops for ever over                                           *)
(*                                                                         *)
(*   _tick -> _maybe_purge -> _maybe_send_digests -> _maybe_compact_rollups *)
(*         -> sleep(TICK_INTERVAL_SECONDS)                                 *)
(*                                                                         *)
(* interleaved, at every await, with the request handlers that create,     *)
(* edit and delete monitors, and with process restarts (every deploy is    *)
(* one) that forget all module-level state but not the database.           *)
(*                                                                         *)
(* Time is discrete and relative: `age` is the time since the newest       *)
(* check_results row of a monitor, which is all that `_tick` reads of it.  *)
(* Database queries and the scan take no time; probes, job bodies and the  *)
(* sleep do.  What the jobs do is in Rollups and Digest.                   *)
(***************************************************************************)
EXTENDS Integers, FiniteSets

CONSTANTS
    Monitors,    \* monitor ids; an id is used once (uuid4)
    Intervals,   \* the interval_seconds a plan allows
    Offset,      \* Offset[m][i]: _phase_offset_seconds(m, i)
    Tick,        \* TICK_INTERVAL_SECONDS
    MaxProbe,    \* longest time check_url takes (CHECK_TIMEOUT_SECONDS per phase)
    MaxJob,      \* longest time one maintenance job takes
    Period,      \* Period[j]: _PURGE_INTERVAL_, _DIGEST_TICK_, _ROLLUP_TICK_SECONDS
    Horizon,     \* ages beyond it are not told apart
    MaxFaults    \* bound: crashes and database errors in one behaviour

Jobs == {"purge", "digest", "rollup"}

ASSUME TimeAssumption ==
    /\ Intervals \subseteq Nat \ {0}
    /\ Tick \in Nat \ {0}
    /\ MaxProbe \in Nat
    /\ MaxJob \in Nat
    /\ MaxFaults \in Nat
    /\ Period \in [Jobs -> Nat \ {0}]

\* The offset is a fraction, at most 1, of a tenth of the interval, here in whole
\* units of time and rounded up.
ASSUME OffsetAssumption ==
    /\ Offset \in [Monitors -> [Intervals -> Nat]]
    /\ \A m \in Monitors, i \in Intervals : 10 * Offset[m][i] <= i + 9

\* Saturating ages hides nothing the code can see.
ASSUME HorizonAssumption ==
    /\ Horizon \in Nat
    /\ \A m \in Monitors, i \in Intervals : i + Offset[m][i] < Horizon

VARIABLES
    status,      \* monitors.status, and "absent"/"deleted" for no row
    interval,    \* monitors.interval_seconds, or NoRow
    age,         \* time since the newest check_results row, or Never
    pc,          \* where the loop is
    running,     \* pc is a job and its body is being awaited
    phaseTime,   \* time spent in the current phase
    rows,        \* _tick's `monitors`: the interval each listed row had, or NoRow
    toScan,      \* listed monitors whose get_last_check is still to come
    due,         \* _tick's `due`
    inFlight,    \* number of _run_check coroutines per monitor
    jobAge,      \* time since _last_..._time was set; never set counts as just due
    faults,      \* crashes and database errors so far
    overdue      \* observer: time a monitor has been due and not being probed

database == <<status, interval, age>>
tickVars == <<rows, toScan, due>>
vars == <<status, interval, age, pc, running, phaseTime, rows, toScan, due,
          inFlight, jobAge, faults, overdue>>

Never == -1
NoRow == 0

NoRows == [m \in Monitors |-> NoRow]
Idle == [m \in Monitors |-> 0]

Phases == {"find", "scan", "gather", "sleep", "down"} \union Jobs
Ages == {Never} \union 0..Horizon

TypeOK ==
    /\ status \in [Monitors -> {"absent", "active", "paused", "deleted"}]
    /\ interval \in [Monitors -> Intervals \union {NoRow}]
    /\ age \in [Monitors -> Ages]
    /\ pc \in Phases
    /\ running \in BOOLEAN
    /\ phaseTime \in Nat
    /\ rows \in [Monitors -> Intervals \union {NoRow}]
    /\ toScan \subseteq Monitors
    /\ due \subseteq Monitors
    /\ inFlight \in [Monitors -> 0..1]
    /\ jobAge \in [Jobs -> Nat]
    /\ faults \in 0..MaxFaults
    /\ overdue \in [Monitors -> Nat]

Init ==
    /\ status = [m \in Monitors |-> "absent"]
    /\ interval = [m \in Monitors |-> NoRow]
    /\ age = [m \in Monitors |-> Never]
    /\ pc = "find"
    /\ running = FALSE
    /\ phaseTime = 0
    /\ rows = NoRows
    /\ toScan = {}
    /\ due = {}
    /\ inFlight = [m \in Monitors |-> 0]
    /\ jobAge = Period
    /\ faults = 0
    /\ overdue = [m \in Monitors |-> 0]

-----------------------------------------------------------------------------
(* The due rule. *)

\* `now >= last_check_time + interval + jitter`; no jitter before the first check.
IsDue(m, a, i) == a = Never \/ a >= i + Offset[m][i]

\* The loop's order: a job is followed by the next one, the last by the sleep.
After == [purge |-> "digest", digest |-> "rollup", rollup |-> "sleep"]

-----------------------------------------------------------------------------
(* Request handlers; any of them may run at any await of the loop. *)

Create(m, i) ==
    /\ status[m] = "absent"
    /\ status' = [status EXCEPT ![m] = "active"]
    /\ interval' = [interval EXCEPT ![m] = i]
    /\ UNCHANGED <<age, pc, running, phaseTime, tickVars, inFlight, jobAge, faults, overdue>>

\* A new interval is a new row: it has been overdue for no time yet.
Edit(m, i) ==
    /\ status[m] \in {"active", "paused"}
    /\ interval' = [interval EXCEPT ![m] = i]
    /\ overdue' = [overdue EXCEPT ![m] = 0]
    /\ UNCHANGED <<status, age, pc, running, phaseTime, tickVars, inFlight, jobAge, faults>>

\* check_results go with the monitor (ON DELETE CASCADE).
Delete(m) ==
    /\ status[m] \in {"active", "paused"}
    /\ status' = [status EXCEPT ![m] = "deleted"]
    /\ interval' = [interval EXCEPT ![m] = NoRow]
    /\ age' = [age EXCEPT ![m] = Never]
    /\ overdue' = [overdue EXCEPT ![m] = 0]
    /\ UNCHANGED <<pc, running, phaseTime, tickVars, inFlight, jobAge, faults>>

-----------------------------------------------------------------------------
(* _tick *)

FindActiveMonitors ==
    /\ pc = "find"
    /\ rows' = [m \in Monitors |-> IF status[m] = "active" THEN interval[m] ELSE NoRow]
    /\ toScan' = {m \in Monitors : status[m] = "active"}
    /\ due' = {}
    /\ pc' = "scan"
    /\ UNCHANGED <<database, running, phaseTime, inFlight, jobAge, faults, overdue>>

\* get_last_check reads the table now, the interval is the listed one.
GetLastCheck(m) ==
    /\ pc = "scan"
    /\ m \in toScan
    /\ toScan' = toScan \ {m}
    /\ due' = IF IsDue(m, age[m], rows[m]) THEN due \union {m} ELSE due
    /\ UNCHANGED <<database, pc, running, phaseTime, rows, inFlight, jobAge, faults, overdue>>

\* Variants of Dispatch with a bug: the probes are started but not awaited ...
DispatchUnawaited ==
    /\ pc = "scan"
    /\ toScan = {}
    /\ inFlight' = [m \in Monitors |-> inFlight[m] + (IF m \in due THEN 1 ELSE 0)]
    /\ overdue' = [m \in Monitors |-> IF m \in due THEN 0 ELSE overdue[m]]
    /\ due' = {}
    /\ pc' = "purge"
    /\ UNCHANGED <<database, running, phaseTime, rows, toScan, jobAge, faults>>

\* ... or a tick probes one due monitor only and leaves the others to later ticks.
DispatchOne ==
    /\ pc = "scan"
    /\ toScan = {}
    /\ \E d \in SUBSET due :
        /\ Cardinality(d) <= 1
        /\ d = {} => due = {}
        /\ inFlight' = [m \in Monitors |-> IF m \in d THEN 1 ELSE 0]
        /\ overdue' = [m \in Monitors |-> IF m \in d THEN 0 ELSE overdue[m]]
    /\ due' = {}
    /\ pc' = "gather"
    /\ UNCHANGED <<database, running, phaseTime, rows, toScan, jobAge, faults>>

\* asyncio.gather over the due monitors; with none due there is nothing to await.
Dispatch ==
    /\ pc = "scan"
    /\ toScan = {}
    /\ inFlight' = [m \in Monitors |-> inFlight[m] + (IF m \in due THEN 1 ELSE 0)]
    /\ overdue' = [m \in Monitors |-> IF m \in due THEN 0 ELSE overdue[m]]
    /\ due' = {}
    /\ pc' = "gather"
    /\ UNCHANGED <<database, running, phaseTime, rows, toScan, jobAge, faults>>

\* Variant with a bug: the exception ends the scheduler task.
TickFailsForGood ==
    /\ pc \in {"find", "scan"}
    /\ faults < MaxFaults
    /\ faults' = faults + 1
    /\ pc' = "dead"
    /\ UNCHANGED <<database, running, phaseTime, tickVars, inFlight, jobAge, overdue>>

\* A query of the tick raises: the loop logs it and goes on to the jobs.
TickFails ==
    /\ pc \in {"find", "scan"}
    /\ faults < MaxFaults
    /\ faults' = faults + 1
    /\ toScan' = {}
    /\ due' = {}
    /\ rows' = NoRows
    /\ overdue' = Idle
    /\ pc' = "purge"
    /\ UNCHANGED <<database, running, phaseTime, inFlight, jobAge>>

\* _run_check ends with a row whose checked_at is the time of the save ...
SaveCheckResult(m) ==
    /\ inFlight[m] > 0
    /\ status[m] \in {"active", "paused"}
    /\ inFlight' = [inFlight EXCEPT ![m] = @ - 1]
    /\ age' = [age EXCEPT ![m] = 0]
    /\ UNCHANGED <<status, interval, pc, running, phaseTime, tickVars, jobAge, faults, overdue>>

\* ... or both saves raise, because the monitor is gone (foreign key) ...
SaveOrphan(m) ==
    /\ inFlight[m] > 0
    /\ status[m] = "deleted"
    /\ inFlight' = [inFlight EXCEPT ![m] = @ - 1]
    /\ UNCHANGED <<database, pc, running, phaseTime, tickVars, jobAge, faults, overdue>>

\* ... or because the database refuses the writes.  gather swallows either.
SaveFails(m) ==
    /\ inFlight[m] > 0
    /\ faults < MaxFaults
    /\ faults' = faults + 1
    /\ inFlight' = [inFlight EXCEPT ![m] = @ - 1]
    /\ UNCHANGED <<database, pc, running, phaseTime, tickVars, jobAge, overdue>>

GatherDone ==
    /\ pc = "gather"
    /\ inFlight = Idle
    /\ pc' = "purge"
    /\ phaseTime' = 0
    /\ rows' = NoRows
    /\ UNCHANGED <<database, running, toScan, due, inFlight, jobAge, faults, overdue>>

-----------------------------------------------------------------------------
(* _maybe_purge, _maybe_send_digests, _maybe_compact_rollups and the sleep. *)

SkipJob(j) ==
    /\ pc = j
    /\ ~running
    /\ jobAge[j] < Period[j]
    /\ pc' = After[j]
    /\ UNCHANGED <<database, running, phaseTime, tickVars, inFlight, jobAge, faults, overdue>>

\* Variant with a bug: the job runs without setting its timer.
StartJobUntimed(j) ==
    /\ pc = j
    /\ ~running
    /\ jobAge[j] >= Period[j]
    /\ running' = TRUE
    /\ UNCHANGED <<database, pc, phaseTime, tickVars, inFlight, jobAge, faults, overdue>>

\* The timer is set before the work, so a failing job is not retried early.
StartJob(j) ==
    /\ pc = j
    /\ ~running
    /\ jobAge[j] >= Period[j]
    /\ jobAge' = [jobAge EXCEPT ![j] = 0]
    /\ running' = TRUE
    /\ UNCHANGED <<database, pc, phaseTime, tickVars, inFlight, faults, overdue>>

\* The job returns or raises; the loop treats both the same.
FinishJob(j) ==
    /\ pc = j
    /\ running
    /\ running' = FALSE
    /\ phaseTime' = 0
    /\ pc' = After[j]
    /\ UNCHANGED <<database, tickVars, inFlight, jobAge, faults, overdue>>

\* archive_abandoned_free_accounts, inside the purge: history goes, monitor pauses.
Archive(m) ==
    /\ pc = "purge"
    /\ running
    /\ status[m] = "active"
    /\ status' = [status EXCEPT ![m] = "paused"]
    /\ age' = [age EXCEPT ![m] = Never]
    /\ overdue' = [overdue EXCEPT ![m] = 0]
    /\ UNCHANGED <<interval, pc, running, phaseTime, tickVars, inFlight, jobAge, faults>>

Wake ==
    /\ pc = "sleep"
    /\ phaseTime = Tick
    /\ pc' = "find"
    /\ phaseTime' = 0
    /\ UNCHANGED <<database, running, tickVars, inFlight, jobAge, faults, overdue>>

-----------------------------------------------------------------------------
(* Restarts and time. *)

\* Cancellation of the task on shutdown, or the death of the process.
Crash ==
    /\ pc # "down"
    /\ faults < MaxFaults
    /\ faults' = faults + 1
    /\ pc' = "down"
    /\ running' = FALSE
    /\ phaseTime' = 0
    /\ toScan' = {}
    /\ due' = {}
    /\ inFlight' = Idle
    /\ jobAge' = Period
    /\ overdue' = Idle
    /\ rows' = NoRows
    /\ UNCHANGED database

\* start_scheduler from the lifespan of the new process.
Restart ==
    /\ pc = "down"
    /\ pc' = "find"
    /\ UNCHANGED <<database, running, phaseTime, tickVars, inFlight, jobAge, faults, overdue>>

\* How long the loop may stay in a phase; the phases not named take no time.
PhaseLimit == CASE pc = "gather" /\ inFlight # Idle -> MaxProbe
                [] pc \in Jobs /\ running           -> MaxJob
                [] pc = "sleep"                     -> Tick
                [] OTHER                            -> 0

Older(a) == IF a \in {Never, Horizon} THEN a ELSE a + 1

TimePasses ==
    /\ pc = "down" \/ phaseTime < PhaseLimit
    /\ phaseTime' = IF pc = "down" THEN 0 ELSE phaseTime + 1
    /\ age' = [m \in Monitors |-> Older(age[m])]
    /\ jobAge' = IF pc = "down" THEN jobAge ELSE [j \in Jobs |-> jobAge[j] + 1]
    /\ overdue' = [m \in Monitors |->
         IF /\ pc # "down"
            /\ status[m] = "active"
            /\ inFlight[m] = 0
            /\ IsDue(m, Older(age[m]), interval[m])
         THEN overdue[m] + 1
         ELSE 0]
    /\ UNCHANGED <<status, interval, pc, running, tickVars, inFlight, faults>>

Loop ==
    \/ FindActiveMonitors
    \/ Dispatch
    \/ GatherDone
    \/ Wake
    \/ \E m \in Monitors : GetLastCheck(m)
    \/ \E j \in Jobs : SkipJob(j) \/ StartJob(j) \/ FinishJob(j)

Probes == \E m \in Monitors : SaveCheckResult(m) \/ SaveOrphan(m)

Requests == \E m \in Monitors :
    \/ \E i \in Intervals : Create(m, i) \/ Edit(m, i)
    \/ Delete(m)

Next ==
    \/ Loop
    \/ Probes
    \/ Requests
    \/ \E m \in Monitors : Archive(m) \/ SaveFails(m)
    \/ TickFails
    \/ Crash
    \/ Restart
    \/ TimePasses

Spec == Init /\ [][Next]_vars

\* The event loop runs every coroutine that can run, systemd restarts the process
\* (Restart=always), and time passes.  Requests, archival and faults may never come.
Fairness ==
    /\ WF_vars(Loop)
    /\ \A m \in Monitors : WF_vars(SaveCheckResult(m) \/ SaveOrphan(m))
    /\ WF_vars(Restart)
    /\ WF_vars(TimePasses)

FairSpec == Spec /\ Fairness

-----------------------------------------------------------------------------
(* Properties. *)

\* One turn of the loop takes at most this long.
MaxLoop == MaxProbe + 3 * MaxJob + Tick

\* A result is recorded only for a monitor whose previous result is at least the
\* interval and its offset old: no burst, no second probe while one is under way,
\* although last_check is read long before the row it allows is saved.
\* `rows[m]` is the interval _tick decided with.
NeverEarly == [][\A m \in Monitors :
    inFlight'[m] < inFlight[m] /\ age'[m] = 0
        => rows[m] # NoRow /\ IsDue(m, age[m], rows[m])]_vars

\* Every check_results row belongs to a monitor that exists, although a monitor can
\* be deleted between the dispatch of its probe and the save of the result.
NoOrphanResults == \A m \in Monitors : interval[m] = NoRow => age[m] = Never

\* Purge, archival and compaction never run while a check is in flight: they see
\* no result that is about to be written into a window they have closed, and a
\* monitor they pause is not being probed.
MaintenanceAlone == running => inFlight = Idle

\* No monitor waits longer than one turn of the loop from the moment it is due to
\* the moment its probe starts, whatever requests interleave with the scan.
PromptDispatch == \A m \in Monitors : overdue[m] <= MaxLoop

\* What the comment on TICK_INTERVAL_SECONDS says: the drift is at most one tick.
DriftWithinTick == \A m \in Monitors : overdue[m] <= Tick

\* Each job's timer keeps the promise of PeriodicJob.
PurgeTimer == INSTANCE PeriodicJob WITH
    Period <- Period["purge"], Lateness <- MaxLoop,
    sinceRun <- jobAge["purge"], up <- (pc # "down")
DigestTimer == INSTANCE PeriodicJob WITH
    Period <- Period["digest"], Lateness <- MaxLoop,
    sinceRun <- jobAge["digest"], up <- (pc # "down")
RollupTimer == INSTANCE PeriodicJob WITH
    Period <- Period["rollup"], Lateness <- MaxLoop,
    sinceRun <- jobAge["rollup"], up <- (pc # "down")

\* The purge, the digests and the compaction are each run no more often than their
\* period and no later than one turn of the loop after it, across restarts, skipped
\* evaluations and slow probes.
JobsArePeriodic == PurgeTimer!Spec /\ DigestTimer!Spec /\ RollupTimer!Spec

\* A due monitor does not stay due: it is probed and its row saved, through crashes,
\* failed ticks and lost saves, unless it is deleted or paused first.
DueIsProbed == \A m \in Monitors :
    (status[m] = "active" /\ IsDue(m, age[m], interval[m]))
        ~> ~(status[m] = "active" /\ IsDue(m, age[m], interval[m]))

-----------------------------------------------------------------------------
(* The inductive invariant behind the safety properties. *)

\* Where the loop can be with what it holds, and how long a phase has lasted.
LoopShape ==
    /\ pc # "scan" => toScan = {} /\ due = {}
    /\ running => pc \in Jobs
    /\ pc \in {"find", "scan", "down"} => phaseTime = 0
    /\ pc = "gather" => phaseTime <= MaxProbe
    /\ pc \in Jobs => phaseTime <= IF running THEN MaxJob ELSE 0
    /\ pc = "sleep" => phaseTime <= Tick

\* The local variables of _tick stay true of the table while requests change it.
TickLocals == \A m \in Monitors :
    /\ inFlight[m] > 0 => pc = "gather"
    /\ m \in toScan \union due \/ inFlight[m] > 0 => rows[m] # NoRow
    /\ m \in due \/ inFlight[m] > 0 => IsDue(m, age[m], rows[m])

RowsOfMonitors == \A m \in Monitors :
    /\ (interval[m] = NoRow) <=> (status[m] \in {"absent", "deleted"})
    /\ interval[m] = NoRow => age[m] = Never

\* The most time that can have passed since the last dispatch ...
JobsBefore == [purge |-> 0, digest |-> MaxJob, rollup |-> MaxJob + MaxJob,
               sleep |-> MaxJob + MaxJob + MaxJob]

SinceDispatch == IF pc \in DOMAIN JobsBefore
                 THEN MaxProbe + JobsBefore[pc] + phaseTime
                 ELSE phaseTime

\* ... bounds how long any monitor has been overdue, but during the scan, when the
\* monitors not yet scanned may have waited for a whole turn.
Waiting == \A m \in Monitors :
    /\ overdue[m] > 0 => /\ status[m] = "active"
                         /\ IsDue(m, age[m], interval[m])
                         /\ inFlight[m] = 0
                         /\ pc # "down"
    /\ pc \in {"find", "scan"} => overdue[m] <= MaxLoop
    /\ pc = "scan" /\ m \notin toScan \union due => overdue[m] = 0
    /\ m \in toScan /\ rows[m] # interval[m] => overdue[m] = 0
    /\ pc \notin {"find", "scan"} => overdue[m] <= SinceDispatch

\* The most time since job j was last evaluated, whether it then ran or not.
Evaluated(j) ==
    \/ pc = "sleep"
    \/ pc = j /\ running
    \/ pc = "digest" /\ j = "purge"
    \/ pc = "rollup" /\ j \in {"purge", "digest"}

SinceEvaluated(j) ==
    IF Evaluated(j) THEN JobsBefore[pc] - JobsBefore[j] + phaseTime
    ELSE JobsBefore["sleep"] - JobsBefore[j] + Tick + SinceDispatch

Timers == \A j \in Jobs :
    /\ jobAge[j] <= Period[j] + SinceEvaluated(j)
    /\ pc = "down" => jobAge[j] = Period[j]

IInv ==
    /\ TypeOK
    /\ LoopShape
    /\ TickLocals
    /\ RowsOfMonitors
    /\ Waiting
    /\ Timers

=============================================================================
