------------------------------ MODULE Rollups ------------------------------
(***************************************************************************)
(* The rollup tables of pingback/db/rollups.py: the compaction job of the  *)
(* scheduler, awaiting the database between the monitors it finds, the     *)
(* inserts and the commit, while checks are saved, monitors are deleted,   *)
(* history is purged and archived, and the process restarts.               *)
(*                                                                         *)
(* A check result is the monitor and the time in checked_at, and a rollup  *)
(* row holds the set of results it was aggregated from: the counts and the *)
(* percentiles are functions of that set.  Time is absolute.               *)
(* All code shares one connection, so an uncommitted write is visible at   *)
(* once and becomes durable with the next commit of anyone.                *)
(***************************************************************************)
EXTENDS Integers, Sequences, FiniteSets

CONSTANTS
    Monitors,    \* monitor ids; an id is used once (uuid4)
    Tiers,       \* the keys of _TIER_BUCKET_SECONDS, in order
    Bucket,      \* _TIER_BUCKET_SECONDS
    Period,      \* _ROLLUP_TICK_SECONDS
    Lateness,    \* the most an evaluation is late (PeriodicJob, RollupTimer)
    Retention,   \* history kept by the purge
    Start,       \* when the process first starts
    End,         \* bound: end of time
    MaxChecks,   \* bound: results saved in one behaviour
    MaxFaults    \* bound: restarts in one behaviour

TierSet == {Tiers[k] : k \in 1..Len(Tiers)}
Times == 0..End

ASSUME RollupAssumption ==
    /\ Tiers \in Seq(STRING) /\ Tiers # <<>>
    /\ Bucket \in [TierSet -> Nat \ {0}]
    /\ Period \in Nat \ {0}
    /\ Monitors # {}
    /\ {Lateness, Start, End, Retention, MaxChecks, MaxFaults} \subseteq Nat
    /\ Start <= End
    /\ \A t \in TierSet : Start >= Bucket[t] /\ Retention >= 2 * Bucket[t]
    /\ \A t \in TierSet : Bucket[t] % Bucket[Tiers[1]] = 0

VARIABLES
    now,
    monitors,      \* monitors with a row
    gone,          \* monitors deleted
    pending,       \* results stamped with their checked_at, not inserted yet
    raw,           \* check_results
    rows,          \* check_results_1m, _5m, _1h
    durable,       \* the rollup tables as committed
    last,          \* _LAST_COMPACTED, NoWindow for None
    sinceEval,     \* time since _last_rollup_tick_at
    pc,            \* step the compaction is at
    snap,          \* compact_recent's now
    tier,          \* index of the tier it is at
    ids,           \* monitors of the window still to aggregate
    cur,           \* the monitor and results read, to be inserted
    checks,
    faults,
    aborts,        \* observer: evaluations that an exception or a restart cut short
    outage         \* observer: the process was down for some time

tables == <<raw, rows, durable>>
locals == <<snap, tier, ids, cur>>
counters == <<checks, faults, aborts, outage>>
vars == <<now, monitors, gone, pending, raw, rows, durable, last, sinceEval, pc, snap, tier,
          ids, cur, checks, faults, aborts, outage>>

NoWindow == -1

Results == Monitors \X Times
NoResults == <<CHOOSE m \in Monitors : TRUE, {}>>

TypeOK ==
    /\ now \in Times
    /\ monitors \subseteq Monitors
    /\ gone \subseteq Monitors
    /\ pending \subseteq Results
    /\ raw \subseteq Results
    /\ \A r \in rows \union durable :
        /\ DOMAIN r = {"tier", "monitor", "window", "results"}
        /\ r.tier \in TierSet
        /\ r.monitor \in Monitors
        /\ r.window \in Times
        /\ r.results \subseteq Results
    /\ last \in [TierSet -> Times \union {NoWindow}]
    /\ sinceEval \in 0..(Period + Lateness)
    /\ pc \in {"idle", "tiers", "rows", "insert", "down"}
    /\ snap \in Times
    /\ tier \in 1..(Len(Tiers) + 1)
    /\ ids \subseteq Monitors
    /\ cur[1] \in Monitors /\ cur[2] \subseteq Results
    /\ checks \in 0..MaxChecks
    /\ faults \in 0..MaxFaults
    /\ aborts \in Nat
    /\ outage \in BOOLEAN

Init ==
    /\ now = Start
    /\ monitors = {}
    /\ gone = {}
    /\ pending = {}
    /\ raw = {}
    /\ rows = {}
    /\ durable = {}
    /\ last = [t \in TierSet |-> NoWindow]
    /\ sinceEval = Period
    /\ pc = "idle"
    /\ snap = 0
    /\ tier = 1
    /\ ids = {}
    /\ cur = NoResults
    /\ checks = 0
    /\ faults = 0
    /\ aborts = 0
    /\ outage = FALSE

-----------------------------------------------------------------------------
(* Buckets. *)

\* floor_to_bucket.
Floor(time, b) == (time \div b) * b

\* The results of the half-open bucket [w, w + b).
InBucket(set, w, b) == {r \in set : w <= r[2] /\ r[2] < w + b}

OfMonitor(set, m) == {r \in set : r[1] = m}

\* The bucket of tier t an evaluation at `time` considers.
LastWindow(t, time) == Floor(time - Bucket[t], Bucket[t])

T == Tiers[tier]
W == LastWindow(T, snap)

\* INSERT OR REPLACE on the key (monitor_id, window_start).
Replace(set, row) ==
    {r \in set : <<r.tier, r.monitor, r.window>> # <<row.tier, row.monitor, row.window>>}
        \union {row}

-----------------------------------------------------------------------------
(* Requests and checks.  Each commits, and with it whatever was uncommitted. *)

Create(m) ==
    /\ pc # "down"
    /\ m \notin monitors \union gone
    /\ monitors' = monitors \union {m}
    /\ durable' = rows
    /\ UNCHANGED <<now, gone, pending, raw, rows, last, sinceEval, pc, locals, counters>>

\* Results and rollup rows go with the monitor (ON DELETE CASCADE).
Delete(m) ==
    /\ pc # "down"
    /\ m \in monitors
    /\ monitors' = monitors \ {m}
    /\ gone' = gone \union {m}
    /\ raw' = {r \in raw : r[1] # m}
    /\ rows' = {r \in rows : r.monitor # m}
    /\ durable' = rows'
    /\ UNCHANGED <<now, pending, last, sinceEval, pc, locals, counters>>

\* save_check_result takes the time, then awaits the INSERT.  Checks are saved in the
\* loop's gather phase only (Scheduler, MaintenanceAlone).
StampResult(m) ==
    /\ pc = "idle"
    /\ m \in monitors
    /\ checks < MaxChecks
    /\ <<m, now>> \notin raw \union pending
    /\ checks' = checks + 1
    /\ pending' = pending \union {<<m, now>>}
    /\ UNCHANGED <<now, monitors, gone, tables, last, sinceEval, pc, locals, faults, aborts, outage>>

\* The INSERT; a foreign key error drops the result of a deleted monitor.
SaveResult(r) ==
    /\ r \in pending
    /\ pending' = pending \ {r}
    /\ raw' = IF r[1] \in monitors THEN raw \union {r} ELSE raw
    /\ durable' = rows
    /\ UNCHANGED <<now, monitors, gone, rows, last, sinceEval, pc, locals, counters>>

-----------------------------------------------------------------------------
(* compact_recent and compact_window. *)

\* Variant with a bug: checks of the tick may still be in flight.
EvaluateUnawaited ==
    /\ pc = "idle"
    /\ sinceEval >= Period
    /\ sinceEval' = 0
    /\ snap' = now
    /\ tier' = 1
    /\ pc' = "tiers"
    /\ UNCHANGED <<now, monitors, gone, pending, tables, last, ids, cur, counters>>

\* _maybe_compact_rollups, when the gather of the tick is over and the period elapsed.
Evaluate ==
    /\ pc = "idle"
    /\ pending = {}
    /\ sinceEval >= Period
    /\ sinceEval' = 0
    /\ snap' = now
    /\ tier' = 1
    /\ pc' = "tiers"
    /\ UNCHANGED <<now, monitors, gone, pending, tables, last, ids, cur, counters>>

\* The tier's bucket is fully elapsed and is not the one compacted last.
Pending(t, time) ==
    /\ LastWindow(t, time) + Bucket[t] <= Floor(time, Bucket[Tiers[1]])
    /\ last[t] # LastWindow(t, time)

SkipTier ==
    /\ pc = "tiers"
    /\ tier <= Len(Tiers)
    /\ ~Pending(T, snap)
    /\ tier' = tier + 1
    /\ UNCHANGED <<now, monitors, gone, pending, tables, last, sinceEval, pc, snap, ids, cur, counters>>

\* Variant with a bug: the bucket counts as compacted before its rows are written.
SelectIdsMarks ==
    /\ pc = "tiers"
    /\ tier <= Len(Tiers)
    /\ Pending(T, snap)
    /\ ids' = {m \in monitors : OfMonitor(InBucket(raw, W, Bucket[T]), m) # {}}
    /\ pc' = "rows"
    /\ last' = [last EXCEPT ![T] = W]
    /\ UNCHANGED <<now, monitors, gone, pending, tables, sinceEval, snap, tier, cur, counters>>

\* _distinct_monitor_ids_in_window.
SelectIds ==
    /\ pc = "tiers"
    /\ tier <= Len(Tiers)
    /\ Pending(T, snap)
    /\ ids' = {m \in monitors : OfMonitor(InBucket(raw, W, Bucket[T]), m) # {}}
    /\ pc' = "rows"
    /\ UNCHANGED <<now, monitors, gone, pending, tables, last, sinceEval, snap, tier, cur, counters>>

\* The results of one monitor; none are left if it was deleted since.
SelectRows(m) ==
    /\ pc = "rows"
    /\ m \in ids
    /\ ids' = ids \ {m}
    /\ LET read == OfMonitor(InBucket(raw, W, Bucket[T]), m) IN
       IF read = {} THEN UNCHANGED <<cur, pc>>
       ELSE cur' = <<m, read>> /\ pc' = "insert"
    /\ UNCHANGED <<now, monitors, gone, pending, tables, last, sinceEval, snap, tier, counters>>

InsertRow ==
    /\ pc = "insert"
    /\ cur[1] \in monitors
    /\ rows' = Replace(rows, [tier |-> T, monitor |-> cur[1], window |-> W, results |-> cur[2]])
    /\ cur' = NoResults
    /\ pc' = "rows"
    /\ UNCHANGED <<now, monitors, gone, pending, raw, durable, last, sinceEval, snap, tier, ids,
                   counters>>

\* Variant with a bug: the exception ends the scheduler task.
InsertFailsForGood ==
    /\ pc = "insert"
    /\ cur[1] \notin monitors
    /\ pc' = "dead"
    /\ ids' = {}
    /\ cur' = NoResults
    /\ aborts' = aborts + 1
    /\ UNCHANGED <<now, monitors, gone, pending, tables, last, sinceEval, snap, tier, checks,
                   faults, outage>>

\* The monitor was deleted between the two statements: the foreign key error ends the
\* evaluation, for all monitors and tiers to come, without commit or rollback.
InsertFails ==
    /\ pc = "insert"
    /\ cur[1] \notin monitors
    /\ pc' = "idle"
    /\ ids' = {}
    /\ cur' = NoResults
    /\ aborts' = aborts + 1
    /\ UNCHANGED <<now, monitors, gone, pending, tables, last, sinceEval, snap, tier, checks,
                   faults, outage>>

\* The commit, and the next tier.  (With no row found there is nothing to commit.)
FinishTier ==
    /\ pc = "rows"
    /\ ids = {}
    /\ durable' = rows
    /\ last' = [last EXCEPT ![T] = W]
    /\ tier' = tier + 1
    /\ pc' = "tiers"
    /\ UNCHANGED <<now, monitors, gone, pending, raw, rows, sinceEval, snap, ids, cur, counters>>

FinishEvaluation ==
    /\ pc = "tiers"
    /\ tier > Len(Tiers)
    /\ pc' = "idle"
    /\ tier' = 1
    /\ UNCHANGED <<now, monitors, gone, pending, tables, last, sinceEval, snap, ids, cur, counters>>

-----------------------------------------------------------------------------
(* The daily jobs, restarts and time. *)

\* purge_expired_check_results: the rollups in lockstep with the raw results.
Purge ==
    /\ pc = "idle"
    /\ pending = {}
    /\ LET cutoff == now - Retention IN
       /\ raw' = {r \in raw : r[2] >= cutoff}
       /\ rows' = {r \in rows : r.window >= cutoff}
    /\ durable' = rows'
    /\ UNCHANGED <<now, monitors, gone, pending, last, sinceEval, pc, locals, counters>>

\* archive_abandoned_free_accounts, for the monitors of one account.
Archive(m) ==
    /\ pc = "idle"
    /\ pending = {}
    /\ m \in monitors
    /\ raw' = {r \in raw : r[1] # m}
    /\ rows' = {r \in rows : r.monitor # m}
    /\ durable' = rows'
    /\ UNCHANGED <<now, monitors, gone, pending, last, sinceEval, pc, locals, counters>>

\* What is not committed and what is in memory is lost.
Crash ==
    /\ pc # "down"
    /\ faults < MaxFaults
    /\ faults' = faults + 1
    /\ aborts' = aborts + 1
    /\ pc' = "down"
    /\ rows' = durable
    /\ pending' = {}
    /\ last' = [t \in TierSet |-> NoWindow]
    /\ sinceEval' = Period
    /\ snap' = 0 /\ tier' = 1 /\ ids' = {} /\ cur' = NoResults
    /\ UNCHANGED <<now, monitors, gone, raw, durable, checks, outage>>

Restart ==
    /\ pc = "down"
    /\ pc' = "idle"
    /\ UNCHANGED <<now, monitors, gone, pending, tables, last, sinceEval, locals, counters>>

TimePasses ==
    /\ now < End
    /\ now' = now + 1
    /\ IF pc = "down" THEN outage' = TRUE /\ UNCHANGED sinceEval
       ELSE /\ sinceEval < Period + Lateness
            /\ sinceEval' = sinceEval + 1
            /\ UNCHANGED outage
    /\ UNCHANGED <<monitors, gone, pending, tables, last, pc, locals, checks, faults, aborts>>

Compact ==
    \/ Evaluate
    \/ SkipTier
    \/ SelectIds
    \/ \E m \in Monitors : SelectRows(m)
    \/ InsertRow
    \/ InsertFails
    \/ FinishTier
    \/ FinishEvaluation

Next ==
    \/ \E m \in Monitors : Create(m) \/ Delete(m) \/ StampResult(m) \/ Archive(m)
    \/ \E r \in pending : SaveResult(r)
    \/ Compact
    \/ Purge
    \/ Crash
    \/ Restart
    \/ TimePasses

Spec == Init /\ [][Next]_vars

-----------------------------------------------------------------------------
(* Reading.  get_monitor_window_stats over a rollup tier: the rows whose bucket    *)
(* starts in the trailing window.                                                  *)

\* Variant with a bug: the cutoff is floored to the bucket.
WindowChecksFloored(t, m, window) ==
    UNION {r.results : r \in {s \in rows :
        s.tier = t /\ s.monitor = m /\ s.window >= Floor(now - window, Bucket[t])}}

WindowChecks(t, m, window) ==
    UNION {r.results : r \in {s \in rows :
        s.tier = t /\ s.monitor = m /\ s.window >= now - window}}

-----------------------------------------------------------------------------
(* Properties. *)

\* A rollup row always is the aggregate of exactly the raw results of its bucket that
\* the table holds: no bucket is closed before its last result is in, and purge,
\* archival, deletion and restart keep the four tables in step.
RollupsMatchRaw == \A r \in rows :
    r.results = OfMonitor(InBucket(raw, r.window, Bucket[r.tier]), r.monitor)

\* No rollup row outlives its monitor, even one deleted during the compaction.
NoOrphanRows == \A r \in rows : r.monitor \in monitors

\* Bucket w of tier t has a row for every monitor with results in it.
Compacted(t, w) == \A m \in monitors :
    OfMonitor(InBucket(raw, w, Bucket[t]), m) # {}
        => \E r \in rows : r.tier = t /\ r.monitor = m /\ r.window = w

\* The buckets of tier t within the retention whose successor has elapsed too.
Settled(t) == {w \in Times : /\ w % Bucket[t] = 0
                             /\ w + 2 * Bucket[t] <= now
                             /\ w >= now - Retention}

\* A bucket long enough for one evaluation more than were cut short, and for the time
\* the timer forgets in a restart, is compacted by the time its successor has elapsed.
LongBucketsSurvive ==
    pc = "idle" /\ ~outage => \A t \in TierSet :
        Bucket[t] >= (aborts + 1) * (Period + Lateness) + faults * Lateness
            => \A w \in Settled(t) : Compacted(t, w)

\* What the docstring of compact_recent says: newly-elapsed buckets of each tier are
\* rolled up.
EveryBucketCompacted ==
    pc = "idle" /\ ~outage /\ aborts = 0 => \A t \in TierSet : \A w \in Settled(t) : Compacted(t, w)

\* A dashboard window counts only results of the window, those of whole buckets.
WindowIsSound == \A m \in Monitors, t \in TierSet, window \in Times :
    WindowChecks(t, m, window) \subseteq {r \in OfMonitor(raw, m) : r[2] >= now - window}

=============================================================================
