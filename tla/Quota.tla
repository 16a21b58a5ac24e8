------------------------------- MODULE Quota -------------------------------
(***************************************************************************)
(* Monitors under plan limits: create, edit and delete of                  *)
(* routes/monitors.py and routes/dashboard.py over services/plans.py.      *)
(*                                                                         *)
(* A handler takes the plan from the user row it authenticated with, then  *)
(* awaits its own reads and its write, while the billing webhook changes   *)
(* the plan and other requests of the owner do the same.  base is what the *)
(* one connection sees, saved what is committed; a commit commits all.     *)
(* A request turned away ends where it is; intervals are ranked, not       *)
(* counted, and the other columns of a monitor are left out.               *)
(***************************************************************************)
EXTENDS Naturals, FiniteSets

CONSTANTS
    Owners,          \* user ids
    MonitorIds,      \* monitor ids, each drawn once (uuid4)
    Plans,           \* the keys of _PLANS
    FreePlan,
    MaxMonitors,     \* max_monitors of a plan
    MinInterval,     \* min_interval_seconds of a plan
    QuotaRequests,   \* requests that can be under way at once
    Nobody,          \* no user
    NoMonitor,       \* no row in the monitors table
    MaxEvents        \* bound: plan changes, deletions, failures and crashes in one behaviour

ASSUME QuotaAssumption ==
    /\ IsFiniteSet(MonitorIds)
    /\ IsFiniteSet(QuotaRequests)
    /\ FreePlan \in Plans
    /\ MaxMonitors \in [Plans -> Nat \ {0}]
    /\ MinInterval \in [Plans -> Nat]
    /\ Nobody \notin Owners
    /\ MaxEvents \in Nat

VARIABLES
    base,         \* users and monitors as the connection sees them
    saved,        \* users and monitors as committed
    asks,         \* local state of each request
    drawn,        \* monitor ids drawn so far
    held,         \* observer: plans each user has had
    events

quotaVars == <<base, saved, asks, drawn, held, events>>

-----------------------------------------------------------------------------
(* Tables and requests. *)

\* The intervals that matter: those where some plan's floor lies.
Intervals == {MinInterval[p] : p \in Plans}

MonitorRow == [owner : Owners, interval : Intervals]

ASSUME MonitorRowAssumption == NoMonitor \notin MonitorRow

\* users maps a user to the plan, and one that has gone to no plan at all.
Base == [users : [Owners -> SUBSET Plans], monitors : [MonitorIds -> MonitorRow \union {NoMonitor}]]

AskStages == {"idle", "count", "insert", "find", "update", "remove", "commit"}

\* monitor is the id in the path, and meaningless for a creation; edits tells an edit
\* from a deletion.
Ask == [at : AskStages, user : Owners \union {Nobody}, plan : Plans, interval : Intervals,
        monitor : MonitorIds \union {NoMonitor}, edits : BOOLEAN]

NoAsk == [at |-> "idle", user |-> Nobody, plan |-> FreePlan, interval |-> MinInterval[FreePlan],
          monitor |-> NoMonitor, edits |-> FALSE]

QuotaTypeOK ==
    /\ base \in Base
    /\ saved \in Base
    /\ asks \in [QuotaRequests -> Ask]
    /\ \A r \in QuotaRequests : asks[r].at \notin {"idle", "commit"} => asks[r].user \in Owners
    /\ drawn \subseteq MonitorIds
    /\ held \in [Owners -> SUBSET Plans]
    /\ events \in 0..MaxEvents

Exists(m) == base.monitors[m] # NoMonitor

OwnedIn(tables, u) ==
    {m \in MonitorIds : tables.monitors[m] # NoMonitor /\ tables.monitors[m].owner = u}

\* Every user starts on some plan, without monitors.
QuotaInit ==
    /\ \E plan \in [Owners -> Plans] :
        /\ base = [users |-> [u \in Owners |-> {plan[u]}],
                   monitors |-> [m \in MonitorIds |-> NoMonitor]]
        /\ held = [u \in Owners |-> {plan[u]}]
    /\ saved = base
    /\ asks = [r \in QuotaRequests |-> NoAsk]
    /\ drawn = {}
    /\ events = 0

-----------------------------------------------------------------------------
(* Requests. *)

Ends(r) == asks' = [asks EXCEPT ![r] = NoAsk]

GoesTo(r, stage) == asks' = [asks EXCEPT ![r].at = stage]

\* The statement has run, and only the commit and the reply are to come.
Executed(r) == asks' = [asks EXCEPT ![r] = [NoAsk EXCEPT !.at = "commit"]]

\* get_current_user or _get_ui_user: the row as it is now, and a commit for the visit.
Authenticate(r, u, ask) ==
    /\ asks[r].at = "idle"
    /\ \E plan \in base.users[u] :
        asks' = [asks EXCEPT ![r] = [ask EXCEPT !.user = u, !.plan = plan]]
    /\ saved' = base
    /\ UNCHANGED <<base, drawn, held, events>>

AskCreate(r, u, interval) ==
    Authenticate(r, u, [NoAsk EXCEPT !.at = "count", !.interval = interval])

\* An edit or a deletion names a monitor there has been, whoever's it is.
AskEdit(r, u, m, interval) ==
    /\ m \in drawn
    /\ Authenticate(r, u, [NoAsk EXCEPT !.at = "find", !.interval = interval, !.monitor = m,
                                        !.edits = TRUE])

AskDelete(r, u, m) ==
    /\ m \in drawn
    /\ Authenticate(r, u, [NoAsk EXCEPT !.at = "find", !.monitor = m])

IntervalAllowed(ask) == ask.interval >= MinInterval[ask.plan]

\* Variant of QuotaAllowed with a bug: the comparison is off by one.
QuotaAllowedOneMore(ask) == Cardinality(OwnedIn(base, ask.user)) <= MaxMonitors[ask.plan]

QuotaAllowed(ask) == Cardinality(OwnedIn(base, ask.user)) < MaxMonitors[ask.plan]

\* count_user_monitors, ensure_monitor_quota, ensure_interval_allowed.
CountMonitors(r) ==
    /\ asks[r].at = "count"
    /\ IF QuotaAllowed(asks[r]) /\ IntervalAllowed(asks[r]) THEN GoesTo(r, "insert") ELSE Ends(r)
    /\ UNCHANGED <<base, saved, drawn, held, events>>

\* uuid4: which of the ids nobody has seen makes no difference.
FreshId == CHOOSE m \in MonitorIds : m \notin drawn

\* create_monitor up to its commit; the foreign key refuses a user that has gone.
InsertMonitor(r) ==
    /\ asks[r].at = "insert"
    /\ drawn # MonitorIds
    /\ drawn' = drawn \union {FreshId}
    /\ IF base.users[asks[r].user] # {}
       THEN /\ base' = [base EXCEPT !.monitors[FreshId] =
                            [owner |-> asks[r].user, interval |-> asks[r].interval]]
            /\ Executed(r)
       ELSE Ends(r) /\ UNCHANGED base
    /\ UNCHANGED <<saved, held, events>>

\* Variant of FindMonitor with a bug: whose monitor it is is not asked.
FindAnyMonitor(r) ==
    /\ asks[r].at = "find"
    /\ LET ask == asks[r] IN
        IF Exists(ask.monitor) /\ (ask.edits => IntervalAllowed(ask))
        THEN GoesTo(r, IF ask.edits THEN "update" ELSE "remove")
        ELSE Ends(r)
    /\ UNCHANGED <<base, saved, drawn, held, events>>

\* find_monitor_by_id, the owner check and, for an edit, ensure_interval_allowed.
FindMonitor(r) ==
    /\ asks[r].at = "find"
    /\ LET ask == asks[r] IN
        IF /\ Exists(ask.monitor)
           /\ base.monitors[ask.monitor].owner = ask.user
           /\ ask.edits => IntervalAllowed(ask)
        THEN GoesTo(r, IF ask.edits THEN "update" ELSE "remove")
        ELSE Ends(r)
    /\ UNCHANGED <<base, saved, drawn, held, events>>

\* edit_monitor_submit; a monitor that has gone is not noticed.
UpdateMonitor(r) ==
    /\ asks[r].at = "update"
    /\ LET m == asks[r].monitor IN
        base' = IF Exists(m) THEN [base EXCEPT !.monitors[m].interval = asks[r].interval]
                ELSE base
    /\ Executed(r)
    /\ UNCHANGED <<saved, drawn, held, events>>

\* delete_monitor.
RemoveMonitor(r) ==
    /\ asks[r].at = "remove"
    /\ base' = [base EXCEPT !.monitors[asks[r].monitor] = NoMonitor]
    /\ Executed(r)
    /\ UNCHANGED <<saved, drawn, held, events>>

CommitMonitor(r) ==
    /\ asks[r].at = "commit"
    /\ saved' = base
    /\ Ends(r)
    /\ UNCHANGED <<base, drawn, held, events>>

-----------------------------------------------------------------------------
(* What else happens meanwhile. *)

\* One of the bounded events.
Event == events < MaxEvents /\ events' = events + 1

\* The billing webhook; monitors that the new plan would not allow stay as they are.
ChangePlan(u, plan) ==
    /\ Event
    /\ base.users[u] \notin {{}, {plan}}
    /\ base' = [base EXCEPT !.users[u] = {plan}]
    /\ held' = [held EXCEPT ![u] = @ \union {plan}]
    /\ UNCHANGED <<saved, asks, drawn>>

\* An account deletion; the foreign key cascades.
RemoveOwner(u) ==
    /\ Event
    /\ base.users[u] # {}
    /\ base' = [users |-> [base.users EXCEPT ![u] = {}],
                monitors |-> [m \in MonitorIds |->
                    IF m \in OwnedIn(base, u) THEN NoMonitor ELSE base.monitors[m]]]
    /\ UNCHANGED <<saved, asks, drawn, held>>

\* Anybody's commit.
CommitElsewhere ==
    /\ saved # base
    /\ saved' = base
    /\ UNCHANGED <<base, asks, drawn, held, events>>

\* A statement or a commit raises; what was executed stays in the open transaction.
AskFails(r) ==
    /\ asks[r].at # "idle"
    /\ Event
    /\ Ends(r)
    /\ UNCHANGED <<base, saved, drawn, held>>

\* The process dies and is started again.
ProcessDies ==
    /\ Event
    /\ base' = saved
    /\ asks' = [r \in QuotaRequests |-> NoAsk]
    /\ UNCHANGED <<saved, drawn, held>>

Asks(r) ==
    \/ \E u \in Owners, i \in Intervals :
        \/ AskCreate(r, u, i)
        \/ \E m \in MonitorIds : AskEdit(r, u, m, i)
    \/ \E u \in Owners, m \in MonitorIds : AskDelete(r, u, m)

QuotaNext ==
    \/ \E r \in QuotaRequests :
        \/ Asks(r)
        \/ CountMonitors(r)
        \/ InsertMonitor(r)
        \/ FindMonitor(r)
        \/ UpdateMonitor(r)
        \/ RemoveMonitor(r)
        \/ CommitMonitor(r)
        \/ AskFails(r)
    \/ \E u \in Owners, p \in Plans : ChangePlan(u, p)
    \/ \E u \in Owners : RemoveOwner(u)
    \/ CommitElsewhere
    \/ ProcessDies

QuotaSpec == QuotaInit /\ [][QuotaNext]_quotaVars

-----------------------------------------------------------------------------
(* Properties. *)

\* Requests that count before the others insert can exceed the quota, by one each: but
\* not by more, however creations, deletions, plan changes and crashes fall, and by no
\* more than what some plan the owner has had allows.
QuotaBound == \A u \in Owners : \E p \in held[u] : \A tables \in {base, saved} :
    Cardinality(OwnedIn(tables, u)) < MaxMonitors[p] + Cardinality(QuotaRequests)

\* Nobody gets a monitor checked more often than a plan that its owner has had allows,
\* in particular not by another user's edit with a better plan.
FloorHeld == \A m \in MonitorIds, tables \in {base, saved} :
    LET row == tables.monitors[m] IN
        row # NoMonitor => \E p \in held[row.owner] : MinInterval[p] <= row.interval

=============================================================================
