------------------------------ MODULE Billing ------------------------------
(***************************************************************************)
(* The Paddle webhook of pingback/routes/billing.py.  Paddle delivers each *)
(* event at least once, in any order, and may deliver one again while an   *)
(* earlier delivery is still being handled; deliveries run as coroutines   *)
(* that interleave at every database await, and the process may die (or    *)
(* the database refuse a statement) between any two steps.                 *)
(*                                                                         *)
(* A handler is modelled one step per await.  A statement and the commit   *)
(* that follows it are one step: the connection is shared, so what an      *)
(* uncommitted statement wrote is already visible to every other handler.  *)
(* Signature checks and e-mail wording are left out.                       *)
(***************************************************************************)
EXTENDS Integers, Sequences, FiniteSets

CONSTANTS
    Users,        \* rows of the users table
    Customers,    \* Paddle customer ids
    NoUser,       \* custom_data names no user
    NoCustomer,   \* paddle_customer_id IS NULL
    History,      \* what Paddle emits, in order; an event's id is its position
    Slots,        \* webhook requests that can be under way at once
    MaxFaults     \* bound: crashes and failed statements in one behaviour

Types == {"subscription.created", "subscription.updated", "subscription.canceled",
          "transaction.completed"}

Statuses == {"active", "trialing", "past_due", "paused", "canceled"}

ASSUME HistoryAssumption ==
    /\ NoUser \notin Users
    /\ NoCustomer \notin Customers
    /\ MaxFaults \in Nat
    /\ IsFiniteSet(Slots)
    /\ History \in Seq([type : Types, customer : Customers, user : Users \union {NoUser},
                        status : Statuses, scheduledCancel : BOOLEAN])

Events == 1..Len(History)

VARIABLES
    plan,         \* users.plan
    customer,     \* users.paddle_customer_id
    sub,          \* event whose data the row's subscription columns hold, 0 for NULL
    stamped,      \* users.pro_welcome_sent_at IS NOT NULL
    recorded,     \* paddle_events
    pc,           \* step each webhook request is at
    ev,           \* event each request carries, 0 when idle
    row,          \* user row read by _send_pro_welcome_if_needed
    emitted,      \* Paddle: events emitted so far
    acked,        \* Paddle: events answered with 2xx
    faults,
    welcomes,     \* observer: welcome mails that went out, per user
    orderly       \* observer: no delivery so far overtook or overlapped another

users == <<plan, customer, sub, stamped>>
paddle == <<emitted, acked>>
vars == <<plan, customer, sub, stamped, recorded, pc, ev, row, emitted, acked, faults,
          welcomes, orderly>>

Steps == {"idle", "check", "claim", "sync", "welcome", "stamp", "send", "record", "reply"}

\* _PRO_STATUSES
ProStatuses == {"active", "trialing", "past_due", "paused"}

\* The plan an event leaves its customer on.
Grants(e) ==
    \/ History[e].status \in ProStatuses
    \/ History[e].status = "canceled" /\ History[e].scheduledCancel

PlanOf(e) == IF Grants(e) THEN "pro" ELSE "free"

IsSubscription(e) == History[e].type # "transaction.completed"

TypeOK ==
    /\ plan \in [Users -> {"free", "pro"}]
    /\ customer \in [Users -> Customers \union {NoCustomer}]
    /\ sub \in [Users -> Events \union {0}]
    /\ stamped \in [Users -> BOOLEAN]
    /\ recorded \subseteq Events
    /\ pc \in [Slots -> Steps]
    /\ ev \in [Slots -> Events \union {0}]
    /\ row \in [Slots -> Users \union {NoUser}]
    /\ emitted \in 0..Len(History)
    /\ acked \subseteq Events
    /\ faults \in 0..MaxFaults
    /\ welcomes \in [Users -> Nat]
    /\ orderly \in BOOLEAN

Init ==
    /\ plan = [u \in Users |-> "free"]
    /\ customer = [u \in Users |-> NoCustomer]
    /\ sub = [u \in Users |-> 0]
    /\ stamped = [u \in Users |-> FALSE]
    /\ recorded = {}
    /\ pc = [s \in Slots |-> "idle"]
    /\ ev = [s \in Slots |-> 0]
    /\ row = [s \in Slots |-> NoUser]
    /\ emitted = 0
    /\ acked = {}
    /\ faults = 0
    /\ welcomes = [u \in Users |-> 0]
    /\ orderly = TRUE

Goto(s, step) == pc' = [pc EXCEPT ![s] = step]

\* The request ends; its local variables go with it.
End(s) ==
    /\ Goto(s, "idle")
    /\ ev' = [ev EXCEPT ![s] = 0]
    /\ row' = [row EXCEPT ![s] = NoUser]

-----------------------------------------------------------------------------
(* Paddle. *)

Emit ==
    /\ emitted < Len(History)
    /\ emitted' = emitted + 1
    /\ UNCHANGED <<users, recorded, pc, ev, row, acked, faults, welcomes, orderly>>

\* A first delivery, a retry of an event not acknowledged, or a duplicate of one that is.
Deliver(s, e) ==
    /\ pc[s] = "idle"
    /\ e \in 1..emitted
    /\ ev' = [ev EXCEPT ![s] = e]
    /\ Goto(s, "check")
    /\ orderly' = /\ orderly
                  /\ 1..(e - 1) \subseteq acked
                  /\ \A t \in Slots : pc[t] = "idle"
    /\ UNCHANGED <<users, recorded, row, paddle, faults, welcomes>>

-----------------------------------------------------------------------------
(* paddle_webhook and its handlers. *)

\* Variants of CheckProcessed with a bug: the event is recorded on arrival ...
RecordOnArrival(s) ==
    /\ pc[s] = "check"
    /\ Goto(s, CASE ev[s] \in recorded -> "reply"
                 [] ev[s] \notin recorded /\ ~IsSubscription(ev[s]) -> "record"
                 [] ev[s] \notin recorded /\ History[ev[s]].type = "subscription.created" -> "claim"
                 [] OTHER -> "sync")
    /\ recorded' = recorded \union {ev[s]}
    /\ UNCHANGED <<users, ev, row, paddle, faults, welcomes, orderly>>

\* ... or a duplicate is refused instead of acknowledged.
RefuseDuplicate(s) ==
    /\ pc[s] = "check"
    /\ \/ /\ ev[s] \in recorded
          /\ End(s)
       \/ /\ ev[s] \notin recorded
          /\ Goto(s, IF History[ev[s]].type = "subscription.created" THEN "claim" ELSE "sync")
          /\ UNCHANGED <<ev, row>>
    /\ UNCHANGED <<users, recorded, paddle, faults, welcomes, orderly>>

\* _already_processed; a duplicate is answered at once, otherwise the handler is looked up.
CheckProcessed(s) ==
    /\ pc[s] = "check"
    /\ Goto(s, CASE ev[s] \in recorded -> "reply"
                 [] ev[s] \notin recorded /\ ~IsSubscription(ev[s]) -> "record"
                 [] ev[s] \notin recorded /\ History[ev[s]].type = "subscription.created" -> "claim"
                 [] OTHER -> "sync")
    /\ UNCHANGED <<users, recorded, ev, row, paddle, faults, welcomes, orderly>>

\* Variant with a bug: the UPDATE does not ask for a NULL customer.
ClaimAlways(s) ==
    /\ pc[s] = "claim"
    /\ LET e == History[ev[s]] IN
       customer' = [u \in Users |-> IF u = e.user THEN e.customer ELSE customer[u]]
    /\ Goto(s, "sync")
    /\ UNCHANGED <<plan, sub, stamped, recorded, ev, row, paddle, faults, welcomes, orderly>>

\* _claim_customer_for_user: the first customer a user gets is kept.
Claim(s) ==
    /\ pc[s] = "claim"
    /\ LET e == History[ev[s]] IN
       customer' = [u \in Users |->
           IF u = e.user /\ customer[u] \in {NoCustomer, e.customer} THEN e.customer
           ELSE customer[u]]
    /\ Goto(s, "sync")
    /\ UNCHANGED <<plan, sub, stamped, recorded, ev, row, paddle, faults, welcomes, orderly>>

\* Variant with a bug: the downgrade leaves the subscription columns.
SyncKeepsColumns(s) ==
    /\ pc[s] = "sync"
    /\ LET mine == {u \in Users : customer[u] = History[ev[s]].customer} IN
       /\ plan' = [u \in Users |-> IF u \in mine THEN PlanOf(ev[s]) ELSE plan[u]]
       /\ sub' = [u \in Users |-> IF u \in mine /\ Grants(ev[s]) THEN ev[s] ELSE sub[u]]
    /\ Goto(s, IF History[ev[s]].type = "subscription.created" THEN "welcome" ELSE "record")
    /\ UNCHANGED <<customer, stamped, recorded, ev, row, paddle, faults, welcomes, orderly>>

\* _sync_subscription: every row of the customer takes the event's state, whichever
\* event and whichever subscription the row had before.
Sync(s) ==
    /\ pc[s] = "sync"
    /\ LET mine == {u \in Users : customer[u] = History[ev[s]].customer} IN
       /\ plan' = [u \in Users |-> IF u \in mine THEN PlanOf(ev[s]) ELSE plan[u]]
       /\ sub' = [u \in Users |->
              IF u \in mine THEN (IF Grants(ev[s]) THEN ev[s] ELSE 0) ELSE sub[u]]
    /\ Goto(s, IF History[ev[s]].type = "subscription.created" THEN "welcome" ELSE "record")
    /\ UNCHANGED <<customer, stamped, recorded, ev, row, paddle, faults, welcomes, orderly>>

\* Variant with a bug: pro_welcome_sent_at is not looked at.
ReadWelcomeAlways(s) ==
    /\ pc[s] = "welcome"
    /\ \E u \in {v \in Users : customer[v] = History[ev[s]].customer} :
        row' = [row EXCEPT ![s] = u]
    /\ Goto(s, "stamp")
    /\ UNCHANGED <<users, recorded, ev, paddle, faults, welcomes, orderly>>

\* The SELECT of _send_pro_welcome_if_needed: one row of the customer, if any.
ReadWelcome(s) ==
    /\ pc[s] = "welcome"
    /\ LET mine == {u \in Users : customer[u] = History[ev[s]].customer} IN
       \/ /\ \/ History[ev[s]].status \notin ProStatuses
             \/ mine = {}
             \/ \E u \in mine : stamped[u]
          /\ Goto(s, "record")
          /\ UNCHANGED row
       \/ /\ History[ev[s]].status \in ProStatuses
          /\ \E u \in mine :
              /\ ~stamped[u]
              /\ row' = [row EXCEPT ![s] = u]
          /\ Goto(s, "stamp")
    /\ UNCHANGED <<users, recorded, ev, paddle, faults, welcomes, orderly>>

\* The stamp is committed before the mail is sent ...
Stamp(s) ==
    /\ pc[s] = "stamp"
    /\ stamped' = [stamped EXCEPT ![row[s]] = TRUE]
    /\ Goto(s, "send")
    /\ UNCHANGED <<plan, customer, sub, recorded, ev, row, paddle, faults, welcomes, orderly>>

\* ... and a failing send is only logged.
SendWelcome(s) ==
    /\ pc[s] = "send"
    /\ \E delivered \in BOOLEAN :
        welcomes' = IF delivered THEN [welcomes EXCEPT ![row[s]] = @ + 1] ELSE welcomes
    /\ Goto(s, "record")
    /\ UNCHANGED <<users, recorded, ev, row, paddle, faults, orderly>>

\* _record_event (INSERT OR IGNORE), the last write of the request.
RecordEvent(s) ==
    /\ pc[s] = "record"
    /\ recorded' = recorded \union {ev[s]}
    /\ Goto(s, "reply")
    /\ UNCHANGED <<users, ev, row, paddle, faults, welcomes, orderly>>

Reply(s) ==
    /\ pc[s] = "reply"
    /\ acked' = acked \union {ev[s]}
    /\ End(s)
    /\ UNCHANGED <<users, recorded, emitted, faults, welcomes, orderly>>

\* Variant with a bug: the exception is swallowed and the request never ends.
RequestHangs(s) ==
    /\ pc[s] # "idle"
    /\ faults < MaxFaults
    /\ faults' = faults + 1
    /\ Goto(s, "hung")
    /\ UNCHANGED <<users, recorded, ev, row, paddle, welcomes, orderly>>

\* A statement raises: the request answers 500 and Paddle will retry.
RequestFails(s) ==
    /\ pc[s] # "idle"
    /\ faults < MaxFaults
    /\ faults' = faults + 1
    /\ End(s)
    /\ UNCHANGED <<users, recorded, paddle, welcomes, orderly>>

\* The process dies with every request it was handling.
Crash ==
    /\ faults < MaxFaults
    /\ faults' = faults + 1
    /\ pc' = [s \in Slots |-> "idle"]
    /\ ev' = [s \in Slots |-> 0]
    /\ row' = [s \in Slots |-> NoUser]
    /\ UNCHANGED <<users, recorded, paddle, welcomes, orderly>>

Handle(s) ==
    \/ CheckProcessed(s)
    \/ Claim(s)
    \/ Sync(s)
    \/ ReadWelcome(s)
    \/ Stamp(s)
    \/ SendWelcome(s)
    \/ RecordEvent(s)
    \/ Reply(s)

Next ==
    \/ Emit
    \/ \E s \in Slots :
        \/ \E e \in Events : Deliver(s, e)
        \/ Handle(s)
        \/ RequestFails(s)
    \/ Crash

Spec == Init /\ [][Next]_vars

\* The event loop advances every request, and Paddle keeps retrying an event until it
\* is acknowledged, even while duplicates of others occupy the slots now and then.
Fairness ==
    /\ \A s \in Slots : WF_vars(Handle(s))
    /\ \A e \in Events : SF_vars(e \notin acked /\ \E s \in Slots : Deliver(s, e))

FairSpec == Spec /\ Fairness

-----------------------------------------------------------------------------
(* Properties. *)

\* The subscription columns are NULL exactly on the free plan, and a row holds the
\* data of its own customer's events only.
RowsConsistent == \A u \in Users :
    /\ plan[u] = "free" <=> sub[u] = 0
    /\ sub[u] # 0 => customer[u] = History[sub[u]].customer

\* However often Paddle re-emits or retries subscription.created and wherever the
\* process dies, a user gets no more welcome mails than requests can overlap: one, if
\* deliveries come one at a time.
WelcomeBound == \A u \in Users : welcomes[u] <= Cardinality(Slots)

\* What the docstring of _send_pro_welcome_if_needed says.
WelcomeOnce == \A u \in Users : welcomes[u] <= 1

\* The newest subscription event Paddle has emitted for a customer, 0 if none.
Latest(c) ==
    LET its == {e \in 1..emitted : IsSubscription(e) /\ History[e].customer = c}
    IN IF its = {} THEN 0 ELSE CHOOSE e \in its : \A f \in its : f <= e

\* If no delivery overtook or overlapped another, then once all is acknowledged every
\* user is on the plan Paddle's newest event for the customer grants, through crashes,
\* failed statements, lost replies and duplicates.
MirrorsPaddle ==
    orderly /\ acked = 1..emitted /\ (\A s \in Slots : pc[s] = "idle")
        => \A u \in Users : customer[u] # NoCustomer
               => plan[u] = PlanOf(Latest(customer[u]))

\* A claimed customer id is never taken from a user or replaced.
ClaimIsFinal == [][\A u \in Users :
    customer[u] # NoCustomer => customer'[u] = customer[u]]_vars

\* Every event Paddle emits ends up processed and acknowledged.
EveryEventAcked == \A e \in Events : (emitted >= e) ~> (e \in acked /\ e \in recorded)

=============================================================================
