----------------------------- MODULE Retention -----------------------------
(***************************************************************************)
(* The daily purge of expired history and the archival of abandoned free   *)
(* accounts: _maybe_purge of services/scheduler.py over db/monitors.py.    *)
(*                                                                         *)
(* The scheduler runs both between two ticks, so that no check is saved    *)
(* and nothing compacted meanwhile; but every statement is awaited, and    *)
(* users visit and change their plans in between.  live is what the one    *)
(* connection sees, durable what is committed; a commit commits all.       *)
(* A user's monitors are one, its results the days that have one, and the  *)
(* three rollup tables one set of days that were compacted.                *)
(***************************************************************************)
EXTENDS Integers

CONSTANTS
    Customers,      \* user ids
    Tariffs,        \* plans
    FreeTariff,
    NoCustomer,     \* no user
    HistoryDays,    \* history_days of a plan
    RetentionDays,  \* RETENTION_DAYS
    AbandonedDays,  \* ABANDONED_ACCOUNT_DAYS
    LastDay,        \* bound: end of time
    MaxIncidents    \* bound: plan changes, failures and crashes in one behaviour

ASSUME RetentionAssumption ==
    /\ FreeTariff \in Tariffs
    /\ NoCustomer \notin Customers
    /\ HistoryDays \in [Tariffs -> Nat]
    /\ {RetentionDays, AbandonedDays, LastDay, MaxIncidents} \subseteq Nat

VARIABLES
    day,
    live,       \* users, monitors and results as the connection sees them
    durable,    \* the same as committed
    job,        \* local state of _maybe_purge
    uneven,     \* observer: users whose deletions saw two plans, or did not all run
    returned,   \* observer: users who came or changed plans since the abandoned were listed, if any
    incidents

retentionVars == <<day, live, durable, job, uneven, returned, incidents>>

Days == 0..LastDay

\* seen: COALESCE(last_login_at, created_at); watched: the monitor is active.
Books == [tariff : [Customers -> Tariffs], seen : [Customers -> Days],
          watched : SUBSET Customers, raw : [Customers -> SUBSET Days],
          rolled : [Customers -> SUBSET Days]]

JobStages == {"idle", "purge", "rollups", "list", "erase", "eraseRollups", "pause"}

\* ran: the day of the last run, or -1 in a process that had none yet; tariffs and users
\* are the lists still to be done, tariff and user what is being done.
Job == [at : JobStages, ran : Days \union {-1}, tariffs : SUBSET Tariffs, tariff : Tariffs,
        users : SUBSET Customers, user : Customers \union {NoCustomer}]

IdleSince(run) == [at |-> "idle", ran |-> run, tariffs |-> {}, tariff |-> FreeTariff,
                   users |-> {}, user |-> NoCustomer]

RetentionTypeOK ==
    /\ day \in Days
    /\ live \in Books
    /\ durable \in Books
    /\ job \in Job
    /\ uneven \subseteq Customers
    /\ returned \subseteq Customers
    /\ incidents \in 0..MaxIncidents

\* Every user has a monitor, no results, and was seen on the first day.
RetentionInit ==
    /\ day = 0
    /\ \E tariff \in [Customers -> Tariffs] :
        live = [tariff |-> tariff, seen |-> [u \in Customers |-> 0], watched |-> Customers,
                raw |-> [u \in Customers |-> {}], rolled |-> [u \in Customers |-> {}]]
    /\ durable = live
    /\ job = IdleSince(-1)
    /\ uneven = {}
    /\ returned = {}
    /\ incidents = 0

-----------------------------------------------------------------------------
(* The purge. *)

\* The first day that a run of the given day keeps.
Cutoff(tariff, today) ==
    today - (IF HistoryDays[tariff] < RetentionDays THEN HistoryDays[tariff] ELSE RetentionDays)

\* The days of the set from the cutoff on, for users on the plan; all days for the others.
Unexpired(days, tariff, today) == [u \in Customers |->
    IF live.tariff[u] = tariff THEN {d \in days[u] : d >= Cutoff(tariff, today)} ELSE days[u]]

Observers == <<uneven, returned>>

\* Once a day and after every start; the plans in use are read first.
StartPurge ==
    /\ job.at = "idle"
    /\ job.ran < day
    /\ job' = [job EXCEPT !.at = "purge", !.ran = day,
                          !.tariffs = {live.tariff[u] : u \in Customers}]
    /\ UNCHANGED <<day, live, durable, Observers, incidents>>

\* Variant of PurgeRaw with a bug: the subquery on the owners' plan is missing.
PurgeRawOfAll(tariff) ==
    /\ job.at = "purge"
    /\ tariff \in job.tariffs
    /\ live' = [live EXCEPT !.raw = [u \in Customers |->
                    {d \in @[u] : d >= Cutoff(tariff, job.ran)}]]
    /\ job' = [job EXCEPT !.at = "rollups", !.tariff = tariff]
    /\ UNCHANGED <<day, durable, Observers, incidents>>

\* DELETE FROM check_results, of the owners who are on the plan now.
PurgeRaw(tariff) ==
    /\ job.at = "purge"
    /\ tariff \in job.tariffs
    /\ live' = [live EXCEPT !.raw = Unexpired(@, tariff, job.ran)]
    /\ job' = [job EXCEPT !.at = "rollups", !.tariff = tariff]
    /\ UNCHANGED <<day, durable, Observers, incidents>>

\* Variant of PurgeRollups with a bug: rollups are kept as long as RETENTION_DAYS allows.
PurgeRollupsLate ==
    /\ job.at = "rollups"
    /\ live' = [live EXCEPT !.rolled = [u \in Customers |->
                    {d \in @[u] : d >= job.ran - RetentionDays}]]
    /\ job' = [job EXCEPT !.at = "purge", !.tariffs = @ \ {job.tariff}]
    /\ UNCHANGED <<day, durable, Observers, incidents>>

\* "Keep rollups in lockstep with raw retention."
PurgeRollups ==
    /\ job.at = "rollups"
    /\ live' = [live EXCEPT !.rolled = Unexpired(@, job.tariff, job.ran)]
    /\ job' = [job EXCEPT !.at = "purge", !.tariffs = @ \ {job.tariff}]
    /\ UNCHANGED <<day, durable, Observers, incidents>>

CommitPurge ==
    /\ job.at = "purge"
    /\ job.tariffs = {}
    /\ durable' = live
    /\ job' = [job EXCEPT !.at = "list"]
    /\ UNCHANGED <<day, live, Observers, incidents>>

-----------------------------------------------------------------------------
(* The archival. *)

Abandoned == {u \in Customers :
    live.tariff[u] = FreeTariff /\ live.seen[u] < day - AbandonedDays}

ListAbandoned ==
    /\ job.at = "list"
    /\ job' = IF Abandoned = {} THEN IdleSince(job.ran)
              ELSE [IdleSince(job.ran) EXCEPT !.at = "erase", !.users = Abandoned]
    /\ UNCHANGED <<day, live, durable, Observers, incidents>>

\* The next user of the list: the statements ask neither for the plan nor for the visits.
EraseRaw(u) ==
    /\ job.at = "erase"
    /\ u \in job.users
    /\ live' = [live EXCEPT !.raw[u] = {}]
    /\ job' = [job EXCEPT !.at = "eraseRollups", !.user = u]
    /\ UNCHANGED <<day, durable, Observers, incidents>>

EraseRollups ==
    /\ job.at = "eraseRollups"
    /\ live' = [live EXCEPT !.rolled[job.user] = {}]
    /\ job' = [job EXCEPT !.at = "pause"]
    /\ UNCHANGED <<day, durable, Observers, incidents>>

\* The monitors are paused; the entry in the audit log is left out.
PauseMonitors ==
    /\ job.at = "pause"
    /\ live' = [live EXCEPT !.watched = @ \ {job.user}]
    /\ job' = [job EXCEPT !.at = "erase", !.users = @ \ {job.user}, !.user = NoCustomer]
    /\ UNCHANGED <<day, durable, Observers, incidents>>

CommitArchive ==
    /\ job.at = "erase"
    /\ job.users = {}
    /\ durable' = live
    /\ job' = IdleSince(job.ran)
    /\ returned' = {}
    /\ UNCHANGED <<day, live, uneven, incidents>>

-----------------------------------------------------------------------------
(* What else happens. *)

\* Between two runs: a check of a monitor that is watched is saved ...
SaveResult(u) ==
    /\ job.at = "idle"
    /\ u \in live.watched
    /\ day \notin live.raw[u]
    /\ live' = [live EXCEPT !.raw[u] = @ \union {day}]
    /\ durable' = live'
    /\ UNCHANGED <<day, job, Observers, incidents>>

\* ... and the results of a day that is over are compacted.
Compact(u, d) ==
    /\ job.at = "idle"
    /\ d \in live.raw[u] \ live.rolled[u]
    /\ d < day
    /\ live' = [live EXCEPT !.rolled[u] = @ \union {d}]
    /\ durable' = live'
    /\ UNCHANGED <<day, job, Observers, incidents>>

Erasing == job.at \in {"erase", "eraseRollups", "pause"}

Returns(u) == returned' = IF Erasing THEN returned \union {u} ELSE returned

\* Every authenticated request of the user bumps last_login_at and commits.
UserVisits(u) ==
    /\ live' = [live EXCEPT !.seen[u] = day]
    /\ durable' = live'
    /\ Returns(u)
    /\ UNCHANGED <<day, job, uneven, incidents>>

Incident == incidents < MaxIncidents /\ incidents' = incidents + 1

\* The billing webhook.
SwitchTariff(u, tariff) ==
    /\ Incident
    /\ tariff # live.tariff[u]
    /\ live' = [live EXCEPT !.tariff[u] = tariff]
    /\ uneven' = IF job.at = "rollups" THEN uneven \union {u} ELSE uneven
    /\ Returns(u)
    /\ UNCHANGED <<day, durable, job>>

\* Anybody's commit.
CommitOfOthers ==
    /\ durable # live
    /\ durable' = live
    /\ UNCHANGED <<day, live, job, Observers, incidents>>

\* A statement or a commit raises: the other half of _maybe_purge goes on, in the same
\* open transaction.
JobFails ==
    /\ Incident
    /\ job.at # "idle"
    /\ job' = IF job.at \in {"purge", "rollups"} THEN [IdleSince(job.ran) EXCEPT !.at = "list"]
              ELSE IdleSince(job.ran)
    /\ uneven' = Customers
    /\ returned' = {}
    /\ UNCHANGED <<day, live, durable>>

\* The process dies and is started again: it has not run the job yet.
SchedulerDies ==
    /\ Incident
    /\ live' = durable
    /\ job' = IdleSince(-1)
    /\ uneven' = IF job.at = "idle" THEN uneven ELSE Customers
    /\ returned' = {}
    /\ UNCHANGED <<day, durable>>

DayPasses ==
    /\ day < LastDay
    /\ day' = day + 1
    /\ UNCHANGED <<live, durable, job, Observers, incidents>>

RetentionNext ==
    \/ StartPurge
    \/ \E tariff \in Tariffs : PurgeRaw(tariff)
    \/ PurgeRollups \/ CommitPurge
    \/ ListAbandoned
    \/ \E u \in Customers : EraseRaw(u)
    \/ EraseRollups \/ PauseMonitors \/ CommitArchive
    \/ \E u \in Customers : SaveResult(u) \/ UserVisits(u)
    \/ \E u \in Customers, d \in Days : Compact(u, d)
    \/ \E u \in Customers, tariff \in Tariffs : SwitchTariff(u, tariff)
    \/ CommitOfOthers \/ JobFails \/ SchedulerDies \/ DayPasses

RetentionSpec == RetentionInit /\ [][RetentionNext]_retentionVars

-----------------------------------------------------------------------------
(* Properties. *)

\* The days of u that a step takes away, as results or as rollups.
Dropped(u) == (live.raw[u] \ live'.raw[u]) \union (live.rolled[u] \ live'.rolled[u])

\* History is dropped when the plan that the owner has at that moment no longer covers it,
\* or with the account abandoned: nobody else loses any, but for those who came back or
\* changed their plan after the list was read (and for what a crash takes back).
HistoryKept == [][\A u \in Customers :
    \/ \A d \in Dropped(u) : d < Cutoff(live.tariff[u], job.ran)
    \/ u \in returned
    \/ live.tariff[u] = FreeTariff /\ live.seen[u] < day - AbandonedDays
    \/ incidents' # incidents]_retentionVars

\* "Rollups in lockstep with raw retention": between two runs no rollup is left without
\* its results, except where a plan changed between the two deletions or a failure or a
\* crash came in between.
Lockstep == job.at = "idle" =>
    \A u \in Customers \ uneven, books \in {live, durable} : books.rolled[u] \subseteq books.raw[u]

=============================================================================
