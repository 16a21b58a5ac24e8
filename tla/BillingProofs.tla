--------------------------- MODULE BillingProofs ---------------------------
(***************************************************************************)
(* What any order, overlap, repetition and interruption of deliveries      *)
(* leaves true of the user rows, for every history of events and every     *)
(* number of requests under way.                                           *)
(***************************************************************************)
EXTENDS Billing, FiniteSetTheorems, TLAPS

\* A request carries an event from its delivery to its reply, a subscription event where
\* the handlers ask for one, and a user row from the welcome's SELECT on.
Carrying(s) ==
    /\ pc[s] # "idle" => ev[s] \in Events
    /\ pc[s] \in {"stamp", "send"} => row[s] \in Users

\* The requests that may still send u a welcome mail.
Mailing(u) == {s \in Slots : pc[s] \in {"stamp", "send"} /\ row[s] = u}

\* No mail goes out before the stamp, and after it no request joins those that may send.
Mails(u) ==
    /\ ~stamped[u] => welcomes[u] = 0 /\ \A s \in Slots : row[s] = u => pc[s] # "send"
    /\ welcomes[u] + Cardinality(Mailing(u)) <= Cardinality(Slots)

BillingInv ==
    /\ TypeOK
    /\ \A s \in Slots : Carrying(s)
    /\ RowsConsistent
    /\ \A u \in Users : Mails(u)

-----------------------------------------------------------------------------
(* Lemmas. *)

LEMMA EventFacts ==
    ASSUME NEW e \in Events
    PROVE  /\ e # 0
           /\ History[e].customer \in Customers
           /\ History[e].user \in Users \union {NoUser}
           /\ PlanOf(e) \in {"free", "pro"}
           /\ PlanOf(e) = "pro" <=> Grants(e)
<1>1. e \in 1..Len(History) /\ Len(History) \in Nat
    BY HistoryAssumption DEF Events
<1> DEFINE Emitted == [type : Types, customer : Customers, user : Users \union {NoUser},
                       status : Statuses, scheduledCancel : BOOLEAN]
<1>2. History[e] \in Emitted
    <2>1. History \in Seq(Emitted)
        BY HistoryAssumption
    <2> HIDE DEF Emitted
    <2> QED BY <1>1, <2>1
<1>3. e # 0
    BY <1>1
<1> QED BY <1>2, <1>3 DEF PlanOf

LEMMA MailingFinite ==
    ASSUME NEW u
    PROVE  /\ IsFiniteSet(Mailing(u)) /\ Cardinality(Mailing(u)) \in Nat
           /\ Cardinality(Slots) \in Nat
           /\ Cardinality(Mailing(u)) <= Cardinality(Slots)
<1>1. Mailing(u) \subseteq Slots
    BY DEF Mailing
<1> QED BY <1>1, FS_Subset, FS_CardinalityType, HistoryAssumption

\* Steps after which fewer requests may send, and that send and stamp nothing.
LEMMA FewerMailing ==
    ASSUME BillingInv, NEW u \in Users, UNCHANGED <<welcomes, stamped>>,
           \A s \in Slots : \/ pc'[s] = pc[s] /\ row'[s] = row[s]
                            \/ pc'[s] \notin {"stamp", "send"}
    PROVE  Mails(u)'
<1>1. Mailing(u)' \subseteq Mailing(u)
    BY DEF Mailing
<1>2. Cardinality(Mailing(u)') <= Cardinality(Mailing(u)) /\ Cardinality(Mailing(u)') \in Nat
    BY <1>1, MailingFinite, FS_Subset, FS_CardinalityType
<1>3. welcomes[u] \in Nat /\ welcomes[u] + Cardinality(Mailing(u)) <= Cardinality(Slots)
    BY DEF BillingInv, Mails, TypeOK
<1>4. welcomes[u] + Cardinality(Mailing(u)') <= Cardinality(Slots)
    BY <1>2, <1>3, MailingFinite
<1>5. ~stamped[u] => welcomes[u] = 0 /\ \A s \in Slots : row'[s] = u => pc'[s] # "send"
    BY DEF BillingInv, Mails
<1> QED BY <1>4, <1>5 DEF Mails

\* What is asked of the requests, after a step of one of them.
LEMMA StepCarries ==
    ASSUME BillingInv, NEW s \in Slots, NEW step \in Steps, Goto(s, step), pc[s] # "idle",
           ev' = ev, row' = row,
           step \in {"stamp", "send"} => row[s] \in Users
    PROVE  /\ \A t \in Slots : Carrying(t)'
           /\ pc' \in [Slots -> Steps]
BY DEF BillingInv, Carrying, Goto, TypeOK

LEMMA EndCarries ==
    ASSUME BillingInv, NEW s \in Slots, End(s)
    PROVE  /\ \A t \in Slots : Carrying(t)'
           /\ pc' \in [Slots -> Steps] /\ ev' \in [Slots -> Events \union {0}]
           /\ row' \in [Slots -> Users \union {NoUser}]
           /\ \A t \in Slots : \/ pc'[t] = pc[t] /\ row'[t] = row[t]
                               \/ pc'[t] \notin {"stamp", "send"}
BY DEF BillingInv, Carrying, End, Goto, TypeOK, Steps

-----------------------------------------------------------------------------
(* The steps. *)

LEMMA BillingInvInit == Init => BillingInv
<1> SUFFICES ASSUME Init PROVE BillingInv
    OBVIOUS
<1>1. TypeOK
    BY HistoryAssumption DEF Init, TypeOK, Steps
<1>2. \A s \in Slots : Carrying(s)
    BY DEF Init, Carrying
<1>3. RowsConsistent
    BY DEF Init, RowsConsistent
<1>4. ASSUME NEW u \in Users PROVE Mails(u)
    <2>1. Mailing(u) = {}
        BY DEF Init, Mailing
    <2>2. Cardinality(Mailing(u)) <= Cardinality(Slots) /\ Cardinality(Mailing(u)) \in Nat
        BY MailingFinite
    <2> QED BY <2>2 DEF Init, Mails
<1> QED BY <1>1, <1>2, <1>3, <1>4 DEF BillingInv

LEMMA EmitInv == BillingInv /\ Emit => BillingInv'
<1> SUFFICES ASSUME BillingInv, Emit PROVE BillingInv'
    OBVIOUS
<1> USE DEF Emit, users
<1>1. TypeOK'
    BY HistoryAssumption DEF BillingInv, TypeOK
<1>2. \A s \in Slots : Carrying(s)'
    BY DEF BillingInv, Carrying
<1>3. RowsConsistent'
    BY DEF BillingInv, RowsConsistent
<1>4. \A u \in Users : Mails(u)'
    BY FewerMailing
<1> QED BY <1>1, <1>2, <1>3, <1>4 DEF BillingInv

LEMMA DeliverInv ==
    ASSUME BillingInv, NEW s \in Slots, NEW e \in Events, Deliver(s, e)
    PROVE  BillingInv'
<1> USE DEF Deliver, users, paddle, Goto
<1>1. TypeOK'
    <2>1. pc' \in [Slots -> Steps] /\ ev' \in [Slots -> Events \union {0}]
        BY DEF BillingInv, TypeOK, Steps
    <2>2. orderly' \in BOOLEAN
        OBVIOUS
    <2> QED BY <2>1, <2>2 DEF BillingInv, TypeOK
<1>2. \A t \in Slots : Carrying(t)'
    BY DEF BillingInv, Carrying, TypeOK
<1>3. RowsConsistent'
    BY DEF BillingInv, RowsConsistent
<1>4. \A u \in Users : Mails(u)'
    BY FewerMailing DEF BillingInv, TypeOK
<1> QED BY <1>1, <1>2, <1>3, <1>4 DEF BillingInv

\* Steps that write no user row.
LEMMA QuietInv ==
    ASSUME BillingInv, NEW s \in Slots, CheckProcessed(s) \/ RecordEvent(s) \/ Reply(s) \/ RequestFails(s)
    PROVE  BillingInv'
<1>1. UNCHANGED <<plan, customer, sub, stamped, welcomes, orderly, emitted>>
    BY DEF CheckProcessed, RecordEvent, Reply, RequestFails, users, paddle
<1>2. pc[s] # "idle" /\ ev[s] \in Events
    BY DEF CheckProcessed, RecordEvent, Reply, RequestFails, BillingInv, Carrying
<1>3. recorded' \subseteq Events /\ acked' \subseteq Events
    BY <1>2 DEF CheckProcessed, RecordEvent, Reply, RequestFails, paddle, BillingInv, TypeOK
<1>4. faults' \in 0..MaxFaults
    BY HistoryAssumption DEF CheckProcessed, RecordEvent, Reply, RequestFails, BillingInv, TypeOK
<1> DEFINE Moved == /\ \A t \in Slots : Carrying(t)'
                    /\ pc' \in [Slots -> Steps] /\ ev' \in [Slots -> Events \union {0}]
                    /\ row' \in [Slots -> Users \union {NoUser}]
                    /\ \A t \in Slots : \/ pc'[t] = pc[t] /\ row'[t] = row[t]
                                        \/ pc'[t] \notin {"stamp", "send"}
<1>5. Moved
    <2>1. CASE Reply(s) \/ RequestFails(s)
        BY <2>1, EndCarries DEF Reply, RequestFails
    <2>2. ASSUME NEW step \in {"reply", "record", "claim", "sync"}, Goto(s, step), ev' = ev, row' = row
          PROVE  Moved
        <3>1. step \in Steps /\ step \notin {"stamp", "send"}
            BY DEF Steps
        <3> QED BY <1>2, <2>2, <3>1, StepCarries DEF BillingInv, TypeOK, Goto
    <2>3. CASE CheckProcessed(s) \/ RecordEvent(s)
        BY <2>2, <2>3 DEF CheckProcessed, RecordEvent
    <2> QED BY <2>1, <2>3
<1>6. TypeOK'
    BY <1>1, <1>3, <1>4, <1>5 DEF BillingInv, TypeOK
<1>7. RowsConsistent'
    BY <1>1 DEF BillingInv, RowsConsistent
<1>8. \A u \in Users : Mails(u)'
    BY <1>1, <1>5, FewerMailing
<1> QED BY <1>5, <1>6, <1>7, <1>8 DEF BillingInv

LEMMA ClaimInv ==
    ASSUME BillingInv, NEW s \in Slots, Claim(s)
    PROVE  BillingInv'
<1> DEFINE e == History[ev[s]]
<1>1. /\ pc[s] = "claim" /\ Goto(s, "sync")
      /\ customer' = [u \in Users |->
            IF u = e.user /\ customer[u] \in {NoCustomer, e.customer} THEN e.customer
            ELSE customer[u]]
      /\ UNCHANGED <<plan, sub, stamped, recorded, ev, row, emitted, acked, faults, welcomes, orderly>>
    BY DEF Claim, paddle
<1>2. e.customer \in Customers
    BY <1>1, EventFacts DEF BillingInv, Carrying
<1> HIDE DEF e
<1>3. /\ \A t \in Slots : Carrying(t)'
      /\ pc' \in [Slots -> Steps]
    BY <1>1, StepCarries DEF Steps
<1>4. TypeOK'
    BY <1>1, <1>2, <1>3 DEF BillingInv, TypeOK
<1>5. RowsConsistent'
    <2> SUFFICES ASSUME NEW u \in Users
                 PROVE  sub[u] # 0 => customer'[u] = History[sub[u]].customer
        BY <1>1 DEF BillingInv, RowsConsistent
    <2> SUFFICES ASSUME sub[u] # 0 PROVE customer'[u] = customer[u]
        BY DEF BillingInv, RowsConsistent
    <2>1. sub[u] \in Events
        BY DEF BillingInv, TypeOK
    <2>2. customer[u] \in Customers
        BY <2>1, EventFacts DEF BillingInv, RowsConsistent
    <2> QED BY <1>1, <2>2, HistoryAssumption
<1>6. \A u \in Users : Mails(u)'
    BY <1>1, FewerMailing DEF Goto, BillingInv, TypeOK
<1> QED BY <1>3, <1>4, <1>5, <1>6 DEF BillingInv

LEMMA SyncInv ==
    ASSUME BillingInv, NEW s \in Slots, Sync(s)
    PROVE  BillingInv'
<1> DEFINE e == ev[s]
           mine == {u \in Users : customer[u] = History[e].customer}
<1>1. /\ pc[s] = "sync"
      /\ plan' = [u \in Users |-> IF u \in mine THEN PlanOf(e) ELSE plan[u]]
      /\ sub' = [u \in Users |-> IF u \in mine THEN (IF Grants(e) THEN e ELSE 0) ELSE sub[u]]
      /\ Goto(s, "welcome") \/ Goto(s, "record")
      /\ UNCHANGED <<customer, stamped, recorded, ev, row, emitted, acked, faults, welcomes, orderly>>
    BY DEF Sync, paddle
<1>2. e \in Events /\ e # 0 /\ PlanOf(e) \in {"free", "pro"}
    BY <1>1, EventFacts DEF BillingInv, Carrying
<1>3. PlanOf(e) = "free" <=> ~Grants(e)
    BY DEF PlanOf
<1>4. /\ \A t \in Slots : Carrying(t)'
      /\ pc' \in [Slots -> Steps]
    BY <1>1, StepCarries DEF Steps
<1>5. TypeOK'
    <2>1. plan' \in [Users -> {"free", "pro"}]
        BY <1>1, <1>2 DEF BillingInv, TypeOK
    <2>2. sub' \in [Users -> Events \union {0}]
        BY <1>1, <1>2 DEF BillingInv, TypeOK
    <2> QED BY <1>1, <1>4, <2>1, <2>2 DEF BillingInv, TypeOK
<1>6. RowsConsistent'
    <2> SUFFICES ASSUME NEW u \in Users
                 PROVE  /\ plan'[u] = "free" <=> sub'[u] = 0
                        /\ sub'[u] # 0 => customer[u] = History[sub'[u]].customer
        BY <1>1 DEF RowsConsistent
    <2>1. CASE u \in mine
        <3>1. plan'[u] = PlanOf(e) /\ sub'[u] = IF Grants(e) THEN e ELSE 0
            BY <1>1, <2>1
        <3>2. customer[u] = History[e].customer
            BY <2>1
        <3> QED BY <1>2, <1>3, <3>1, <3>2
    <2>2. CASE u \notin mine
        BY <1>1, <2>2 DEF BillingInv, RowsConsistent
    <2> QED BY <2>1, <2>2
<1>7. \A u \in Users : Mails(u)'
    BY <1>1, FewerMailing DEF Goto, BillingInv, TypeOK
<1> QED BY <1>4, <1>5, <1>6, <1>7 DEF BillingInv

LEMMA ReadWelcomeInv ==
    ASSUME BillingInv, NEW s \in Slots, ReadWelcome(s)
    PROVE  BillingInv'
<1>1. /\ pc[s] = "welcome"
      /\ UNCHANGED <<plan, customer, sub, stamped, recorded, ev, emitted, acked, faults, welcomes,
                     orderly>>
    BY DEF ReadWelcome, users, paddle
<1>2. RowsConsistent'
    BY <1>1 DEF BillingInv, RowsConsistent
<1>3. CASE Goto(s, "record") /\ UNCHANGED row
    <2>1. /\ \A t \in Slots : Carrying(t)'
          /\ pc' \in [Slots -> Steps]
        BY <1>1, <1>3, StepCarries DEF Steps
    <2>2. TypeOK'
        BY <1>1, <1>3, <2>1 DEF BillingInv, TypeOK
    <2>3. \A u \in Users : Mails(u)'
        BY <1>1, <1>3, FewerMailing DEF Goto, BillingInv, TypeOK
    <2> QED BY <1>2, <2>1, <2>2, <2>3 DEF BillingInv
<1>4. ASSUME NEW u \in Users, ~stamped[u], row' = [row EXCEPT ![s] = u], Goto(s, "stamp")
      PROVE  BillingInv'
    <2>1. \A t \in Slots : Carrying(t)'
        BY <1>1, <1>4 DEF BillingInv, Carrying, Goto, TypeOK
    <2>2. TypeOK'
        BY <1>1, <1>4 DEF BillingInv, TypeOK, Goto, Steps
    <2>3. ASSUME NEW v \in Users, v # u PROVE Mails(v)'
        <3>1. Mailing(v)' \subseteq Mailing(v)
            BY <1>1, <1>4, <2>3 DEF Mailing, Goto, BillingInv, TypeOK
        <3>2. Cardinality(Mailing(v)') <= Cardinality(Mailing(v)) /\ Cardinality(Mailing(v)') \in Nat
            BY <3>1, MailingFinite, FS_Subset, FS_CardinalityType
        <3>3. welcomes[v] \in Nat /\ welcomes[v] + Cardinality(Mailing(v)) <= Cardinality(Slots)
            BY DEF BillingInv, Mails, TypeOK
        <3>4. welcomes[v] + Cardinality(Mailing(v)') <= Cardinality(Slots)
            BY <3>2, <3>3, MailingFinite
        <3>5. ~stamped[v] => welcomes[v] = 0 /\ \A t \in Slots : row'[t] = v => pc'[t] # "send"
            BY <1>1, <1>4, <2>3 DEF BillingInv, Mails, Goto, TypeOK
        <3> QED BY <1>1, <3>4, <3>5 DEF Mails
    <2>4. Mails(u)'
        <3>1. welcomes[u] = 0 /\ \A t \in Slots : row[t] = u => pc[t] # "send"
            BY <1>4 DEF BillingInv, Mails
        <3>2. \A t \in Slots : row'[t] = u => pc'[t] # "send"
            BY <1>4, <3>1 DEF BillingInv, TypeOK, Goto
        <3>3. Mailing(u)' \subseteq Slots
            BY DEF Mailing
        <3>4. /\ Cardinality(Mailing(u)') <= Cardinality(Slots)
              /\ Cardinality(Mailing(u)') \in Nat /\ Cardinality(Slots) \in Nat
            BY <3>3, FS_Subset, FS_CardinalityType, HistoryAssumption
        <3>5. welcomes'[u] + Cardinality(Mailing(u)') <= Cardinality(Slots)
            BY <1>1, <3>1, <3>4
        <3> QED BY <1>1, <3>1, <3>2, <3>5 DEF Mails
    <2> QED BY <1>2, <2>1, <2>2, <2>3, <2>4 DEF BillingInv
<1> QED BY <1>3, <1>4 DEF ReadWelcome

LEMMA StampInv ==
    ASSUME BillingInv, NEW s \in Slots, Stamp(s)
    PROVE  BillingInv'
<1>1. /\ pc[s] = "stamp" /\ stamped' = [stamped EXCEPT ![row[s]] = TRUE] /\ Goto(s, "send")
      /\ UNCHANGED <<plan, customer, sub, recorded, ev, row, emitted, acked, faults, welcomes, orderly>>
    BY DEF Stamp, paddle
<1>2. row[s] \in Users
    BY <1>1 DEF BillingInv, Carrying
<1>3. /\ \A t \in Slots : Carrying(t)'
      /\ pc' \in [Slots -> Steps]
    BY <1>1, <1>2, StepCarries DEF Steps
<1>4. TypeOK'
    BY <1>1, <1>2, <1>3 DEF BillingInv, TypeOK
<1>5. RowsConsistent'
    BY <1>1 DEF BillingInv, RowsConsistent
<1>6. ASSUME NEW u \in Users PROVE Mails(u)'
    <2>1. Mailing(u)' = Mailing(u)
        BY <1>1 DEF Mailing, Goto, BillingInv, TypeOK
    <2>2. welcomes'[u] + Cardinality(Mailing(u)') <= Cardinality(Slots)
        BY <1>1, <2>1 DEF BillingInv, Mails
    <2>3. ASSUME ~stamped'[u]
          PROVE  welcomes[u] = 0 /\ \A t \in Slots : row[t] = u => pc'[t] # "send"
        <3>1. u # row[s] /\ ~stamped[u]
            BY <1>1, <1>2, <2>3 DEF BillingInv, TypeOK
        <3> QED BY <1>1, <3>1 DEF BillingInv, Mails, Goto, TypeOK
    <2> QED BY <1>1, <2>2, <2>3 DEF Mails
<1> QED BY <1>3, <1>4, <1>5, <1>6 DEF BillingInv

LEMMA SendWelcomeInv ==
    ASSUME BillingInv, NEW s \in Slots, SendWelcome(s)
    PROVE  BillingInv'
<1>1. /\ pc[s] = "send" /\ Goto(s, "record")
      /\ welcomes' = welcomes \/ welcomes' = [welcomes EXCEPT ![row[s]] = @ + 1]
      /\ UNCHANGED <<plan, customer, sub, stamped, recorded, ev, row, emitted, acked, faults, orderly>>
    BY DEF SendWelcome, users, paddle
<1>2. row[s] \in Users
    BY <1>1 DEF BillingInv, Carrying
<1>3. /\ \A t \in Slots : Carrying(t)'
      /\ pc' \in [Slots -> Steps]
    BY <1>1, StepCarries DEF Steps
<1>4. TypeOK'
    BY <1>1, <1>2, <1>3 DEF BillingInv, TypeOK
<1>5. RowsConsistent'
    BY <1>1 DEF BillingInv, RowsConsistent
<1>6. ASSUME NEW u \in Users PROVE Mails(u)'
    <2>1. CASE welcomes'[u] = welcomes[u]
        <3>1. Mailing(u)' \subseteq Mailing(u)
            BY <1>1 DEF Mailing, Goto, BillingInv, TypeOK
        <3>2. Cardinality(Mailing(u)') <= Cardinality(Mailing(u)) /\ Cardinality(Mailing(u)') \in Nat
            BY <3>1, MailingFinite, FS_Subset, FS_CardinalityType
        <3>3. welcomes[u] \in Nat /\ welcomes[u] + Cardinality(Mailing(u)) <= Cardinality(Slots)
            BY DEF BillingInv, Mails, TypeOK
        <3>4. welcomes'[u] + Cardinality(Mailing(u)') <= Cardinality(Slots)
            BY <2>1, <3>2, <3>3, MailingFinite
        <3>5. ~stamped[u] => welcomes[u] = 0 /\ \A t \in Slots : row[t] = u => pc'[t] # "send"
            BY <1>1 DEF BillingInv, Mails, Goto, TypeOK
        <3> QED BY <1>1, <2>1, <3>4, <3>5 DEF Mails
    <2>2. CASE u = row[s] /\ welcomes'[u] = welcomes[u] + 1
        <3>1. s \in Mailing(u) /\ Mailing(u)' = Mailing(u) \ {s}
            BY <1>1, <2>2 DEF Mailing, Goto, BillingInv, TypeOK
        <3>2. Cardinality(Mailing(u)') = Cardinality(Mailing(u)) - 1
            BY <3>1, MailingFinite, FS_RemoveElement
        <3>3. welcomes[u] \in Nat /\ welcomes[u] + Cardinality(Mailing(u)) <= Cardinality(Slots)
            BY DEF BillingInv, Mails, TypeOK
        <3>4. welcomes'[u] + Cardinality(Mailing(u)') <= Cardinality(Slots)
            BY <2>2, <3>2, <3>3, MailingFinite
        <3>5. stamped[u]
            BY <1>1, <2>2 DEF BillingInv, Mails
        <3> QED BY <1>1, <3>4, <3>5 DEF Mails
    <2> QED BY <1>1, <1>2, <2>1, <2>2 DEF BillingInv, TypeOK
<1> QED BY <1>3, <1>4, <1>5, <1>6 DEF BillingInv

LEMMA CrashInv == BillingInv /\ Crash => BillingInv'
<1> SUFFICES ASSUME BillingInv, Crash PROVE BillingInv'
    OBVIOUS
<1> USE DEF Crash, users, paddle
<1>1. TypeOK'
    <2>1. faults' \in 0..MaxFaults
        BY HistoryAssumption DEF BillingInv, TypeOK
    <2> QED BY <2>1 DEF BillingInv, TypeOK, Steps
<1>2. \A s \in Slots : Carrying(s)'
    BY DEF Carrying
<1>3. RowsConsistent'
    BY DEF BillingInv, RowsConsistent
<1>4. \A u \in Users : Mails(u)'
    BY FewerMailing
<1> QED BY <1>1, <1>2, <1>3, <1>4 DEF BillingInv

LEMMA BillingInvNext == BillingInv /\ [Next]_vars => BillingInv'
<1> SUFFICES ASSUME BillingInv, [Next]_vars PROVE BillingInv'
    OBVIOUS
<1>1. CASE \E s \in Slots : Handle(s) \/ RequestFails(s)
    BY <1>1, QuietInv, ClaimInv, SyncInv, ReadWelcomeInv, StampInv, SendWelcomeInv DEF Handle
<1>2. CASE \E s \in Slots, e \in Events : Deliver(s, e)
    BY <1>2, DeliverInv
<1>3. CASE Emit \/ Crash
    BY <1>3, EmitInv, CrashInv
<1>4. CASE UNCHANGED vars
    <2> USE <1>4 DEF vars
    <2>1. TypeOK'
        BY DEF BillingInv, TypeOK
    <2>2. (\A s \in Slots : Carrying(s)') /\ RowsConsistent'
        BY DEF BillingInv, Carrying, RowsConsistent
    <2>3. \A u \in Users : Mails(u)'
        BY FewerMailing
    <2> QED BY <2>1, <2>2, <2>3 DEF BillingInv
<1> QED BY <1>1, <1>2, <1>3, <1>4 DEF Next

LEMMA BillingInvariance == Spec => []BillingInv
BY BillingInvInit, BillingInvNext, PTL DEF Spec

-----------------------------------------------------------------------------
(* The theorems. *)

\* Type correctness of the user rows, the requests and the observers.
THEOREM BillingTypeCorrect == Spec => []TypeOK
<1>1. BillingInv => TypeOK
    BY DEF BillingInv
<1> QED BY <1>1, BillingInvariance, PTL

\* A user's plan and subscription columns agree, whatever order the events come in.
THEOREM RowsStayConsistent == Spec => []RowsConsistent
<1>1. BillingInv => RowsConsistent
    BY DEF BillingInv
<1> QED BY <1>1, BillingInvariance, PTL

\* A user gets no more welcome mails than webhook requests can overlap.
THEOREM WelcomesAreBounded == Spec => []WelcomeBound
<1>1. BillingInv => WelcomeBound
    <2> SUFFICES ASSUME BillingInv, NEW u \in Users PROVE welcomes[u] <= Cardinality(Slots)
        BY DEF WelcomeBound
    <2>1. welcomes[u] \in Nat /\ welcomes[u] + Cardinality(Mailing(u)) <= Cardinality(Slots)
        BY DEF BillingInv, Mails, TypeOK
    <2> QED BY <2>1, MailingFinite
<1> QED BY <1>1, BillingInvariance, PTL

\* A claimed customer id stays with the user.
THEOREM ClaimsStay == Spec => ClaimIsFinal
<1>1. ASSUME BillingInv, [Next]_vars, NEW u \in Users, customer[u] # NoCustomer
      PROVE  customer'[u] = customer[u]
    <2>1. CASE \E s \in Slots : Claim(s)
        BY <1>1, <2>1 DEF Claim
    <2>2. CASE ~\E s \in Slots : Claim(s)
        BY <1>1, <2>2 DEF Next, Handle, Emit, Deliver, CheckProcessed, Sync, ReadWelcome, Stamp,
            SendWelcome, RecordEvent, Reply, RequestFails, Crash, users, vars
    <2> QED BY <2>1, <2>2
<1>2. BillingInv /\ [Next]_vars =>
        [\A u \in Users : customer[u] # NoCustomer => customer'[u] = customer[u]]_vars
    BY <1>1
<1> QED BY <1>2, BillingInvariance, PTL DEF Spec, ClaimIsFinal

-----------------------------------------------------------------------------
(* Deliveries in order: what MirrorsPaddle needs. *)

\* Event e is about a subscription of customer c.
About(e, c) == IsSubscription(e) /\ History[e].customer = c

\* A customer with a subscription event emitted has a newest one.
Newest == \A c \in Customers : \A f \in 1..emitted : About(f, c) =>
    \E e \in 1..emitted : About(e, c) /\ \A g \in 1..emitted : About(g, c) => g <= e

\* The rows of the event's customer have taken its state.
Applied(e) ==
    \/ e \in recorded
    \/ \E s \in Slots : pc[s] \in {"welcome", "stamp", "send", "record"} /\ ev[s] = e

\* Paddle was answered for recorded events only, and for all that come before one recorded.
AckedFirst ==
    /\ acked \subseteq recorded
    /\ \A e \in recorded : e \in 1..emitted /\ 1..(e - 1) \subseteq acked

\* A request is alone, all that comes before its event is acknowledged, and past the
\* check it is the first to apply it.
InTurn(s) == pc[s] # "idle" =>
    /\ \A t \in Slots : pc[t] # "idle" => t = s
    /\ ev[s] \in 1..emitted /\ 1..(ev[s] - 1) \subseteq acked
    /\ pc[s] \notin {"check", "reply"} => ev[s] \notin recorded
    /\ pc[s] = "reply" => ev[s] \in recorded
    /\ pc[s] \in {"claim", "sync"} => IsSubscription(ev[s])

\* An applied event that the row does not show is not the customer's newest.
Settled(u) == \A e \in Events :
    Applied(e) /\ About(e, customer[u]) /\ plan[u] # PlanOf(e) =>
        \E f \in 1..emitted : f > e /\ About(f, customer[u])

\* A claimed customer has a subscription event.
Known(u) == customer[u] # NoCustomer => \E f \in 1..emitted : About(f, customer[u])

InOrder ==
    /\ AckedFirst
    /\ \A s \in Slots : InTurn(s)
    /\ \A u \in Users : Settled(u) /\ Known(u)

MirrorInv == Newest /\ (orderly => InOrder)

LEMMA EventsAreNumbers == Events \subseteq Nat /\ (BillingInv => emitted \in Nat /\ emitted <= Len(History))
<1>1. Len(History) \in Nat
    BY HistoryAssumption
<1> QED BY <1>1 DEF Events, BillingInv, TypeOK

\* Rows that do not change stay settled while no other subscription event is applied.
LEMMA RowsStand ==
    ASSUME BillingInv, InOrder, UNCHANGED <<plan, customer>>, emitted' \in Nat, emitted <= emitted',
           \A e \in Events : Applied(e)' /\ IsSubscription(e) => Applied(e)
    PROVE  \A u \in Users : Settled(u)' /\ Known(u)'
<1>1. emitted \in Nat /\ 1..emitted \subseteq 1..emitted'
    BY EventsAreNumbers
<1> TAKE u \in Users
<1>2. Settled(u) /\ Known(u)
    BY DEF InOrder
<1>3. Settled(u)'
    <2> SUFFICES ASSUME NEW e \in Events, Applied(e)', About(e, customer[u]), plan[u] # PlanOf(e)
                 PROVE  \E f \in 1..emitted' : f > e /\ About(f, customer[u])
        BY DEF Settled, About
    <2>1. Applied(e)
        BY DEF About
    <2> QED BY <1>1, <1>2, <2>1 DEF Settled
<1>4. Known(u)'
    BY <1>1, <1>2 DEF Known, About
<1> QED BY <1>3, <1>4

\* A request goes on to another step with its event.
LEMMA Advances ==
    ASSUME BillingInv, InOrder, NEW s \in Slots, NEW step \in Steps,
           pc[s] # "idle", step # "idle", Goto(s, step), UNCHANGED <<ev, emitted, acked>>,
           recorded' = recorded \/ recorded' = recorded \union {ev[s]},
           step \notin {"check", "reply"} => ev[s] \notin recorded',
           step = "reply" => ev[s] \in recorded',
           step \in {"claim", "sync"} => IsSubscription(ev[s])
    PROVE  AckedFirst' /\ \A t \in Slots : InTurn(t)'
<1>1. InTurn(s) /\ AckedFirst
    BY DEF InOrder
<1>2. pc' = [pc EXCEPT ![s] = step] /\ pc \in [Slots -> Steps]
    BY DEF Goto, BillingInv, TypeOK
<1>3. AckedFirst'
    BY <1>1 DEF AckedFirst, InTurn
<1>4. ASSUME NEW t \in Slots PROVE InTurn(t)'
    <2>1. CASE t = s
        <3>1. pc'[s] = step
            BY <1>2
        <3>2. \A r \in Slots : pc'[r] # "idle" => r = s
            BY <1>1, <1>2 DEF InTurn
        <3> QED BY <1>1, <2>1, <3>1, <3>2 DEF InTurn, IsSubscription
    <2>2. CASE t # s
        BY <1>1, <1>2, <2>2 DEF InTurn
    <2> QED BY <2>1, <2>2
<1> QED BY <1>3, <1>4

\* A request ends, answered or not.
LEMMA Ends ==
    ASSUME BillingInv, InOrder, NEW s \in Slots, pc[s] # "idle", End(s), UNCHANGED <<recorded, emitted>>,
           \/ acked' = acked
           \/ pc[s] = "reply" /\ acked' = acked \union {ev[s]}
    PROVE  /\ AckedFirst' /\ \A t \in Slots : InTurn(t)'
           /\ \A e \in Events : Applied(e)' => Applied(e)
<1>1. InTurn(s) /\ AckedFirst
    BY DEF InOrder
<1>2. pc' = [pc EXCEPT ![s] = "idle"] /\ pc \in [Slots -> Steps]
    BY DEF End, Goto, BillingInv, TypeOK
<1>3. \A t \in Slots : pc'[t] = "idle"
    BY <1>1, <1>2 DEF InTurn
<1>4. AckedFirst'
    BY <1>1 DEF AckedFirst, InTurn
<1>5. \A t \in Slots : InTurn(t)'
    BY <1>3 DEF InTurn
<1>6. \A e \in Events : Applied(e)' => Applied(e)
    BY <1>3 DEF Applied
<1> QED BY <1>4, <1>5, <1>6

LEMMA MirrorInvInit == Init => MirrorInv
<1> SUFFICES ASSUME Init PROVE MirrorInv
    OBVIOUS
<1>1. 1..emitted = {}
    BY DEF Init
<1>2. Newest
    BY <1>1 DEF Newest
<1>3. AckedFirst /\ \A s \in Slots : InTurn(s)
    BY DEF Init, AckedFirst, InTurn
<1>4. \A u \in Users : Settled(u) /\ Known(u)
    BY DEF Init, Settled, Known, Applied
<1> QED BY <1>2, <1>3, <1>4 DEF MirrorInv, InOrder

LEMMA EmitMirror ==
    ASSUME BillingInv, MirrorInv, Emit
    PROVE  MirrorInv'
<1>1. emitted' = emitted + 1 /\ UNCHANGED <<plan, customer, recorded, pc, ev, acked, orderly>>
    BY DEF Emit, users
<1>2. emitted \in Nat /\ emitted' \in Nat /\ 1..emitted \subseteq 1..emitted'
    BY <1>1, EventsAreNumbers
<1>3. Newest'
    <2> SUFFICES ASSUME NEW c \in Customers, NEW f \in 1..emitted', About(f, c)
                 PROVE  \E e \in 1..emitted' : About(e, c) /\ \A g \in 1..emitted' : About(g, c) => g <= e
        BY DEF Newest, About, IsSubscription
    <2>1. CASE About(emitted', c)
        BY <1>2, <2>1
    <2>2. CASE ~About(emitted', c)
        <3>1. \A g \in 1..emitted' : About(g, c) => g \in 1..emitted
            BY <1>1, <1>2, <2>2
        <3>2. PICK e \in 1..emitted : About(e, c) /\ \A g \in 1..emitted : About(g, c) => g <= e
            BY <3>1 DEF MirrorInv, Newest
        <3> QED BY <1>2, <3>1, <3>2
    <2> QED BY <2>1, <2>2
<1>4. InOrder => InOrder'
    <2> SUFFICES ASSUME InOrder PROVE InOrder'
        OBVIOUS
    <2>1. AckedFirst' /\ \A s \in Slots : InTurn(s)'
        BY <1>1, <1>2 DEF InOrder, AckedFirst, InTurn, IsSubscription
    <2>2. \A u \in Users : Settled(u)' /\ Known(u)'
        BY <1>1, <1>2, RowsStand DEF Applied
    <2> QED BY <2>1, <2>2 DEF InOrder
<1> QED BY <1>1, <1>3, <1>4 DEF MirrorInv

\* The other steps emit nothing.
LEMMA NewestStays == ASSUME Newest, UNCHANGED emitted PROVE Newest'
BY DEF Newest, About, IsSubscription

LEMMA DeliverMirror ==
    ASSUME BillingInv, MirrorInv, NEW s \in Slots, NEW e \in Events, Deliver(s, e)
    PROVE  MirrorInv'
<1>1. /\ e \in 1..emitted /\ ev' = [ev EXCEPT ![s] = e] /\ pc' = [pc EXCEPT ![s] = "check"]
      /\ orderly' => orderly /\ 1..(e - 1) \subseteq acked /\ \A t \in Slots : pc[t] = "idle"
      /\ UNCHANGED <<plan, customer, recorded, emitted, acked>>
    BY DEF Deliver, users, paddle, Goto
<1> SUFFICES ASSUME orderly' PROVE InOrder'
    BY <1>1, NewestStays DEF MirrorInv
<1>2. InOrder
    BY <1>1 DEF MirrorInv
<1>3. pc \in [Slots -> Steps] /\ ev \in [Slots -> Events \union {0}]
    BY DEF BillingInv, TypeOK
<1>4. pc'[s] = "check" /\ ev'[s] = e /\ \A t \in Slots : t # s => pc'[t] = "idle"
    BY <1>1, <1>3
<1>5. \A t \in Slots : InTurn(t)'
    BY <1>1, <1>4 DEF InTurn
<1>6. AckedFirst'
    BY <1>1, <1>2 DEF InOrder, AckedFirst
<1>7. \A u \in Users : Settled(u)' /\ Known(u)'
    <2>1. \A d \in Events : Applied(d)' => Applied(d)
        BY <1>1, <1>4 DEF Applied
    <2> QED BY <1>1, <1>2, <2>1, EventsAreNumbers, RowsStand
<1> QED BY <1>5, <1>6, <1>7 DEF InOrder

\* The steps of a request that touch neither plan nor customer.
LEMMA QuietMirror ==
    ASSUME BillingInv, MirrorInv, NEW s \in Slots,
           CheckProcessed(s) \/ ReadWelcome(s) \/ Stamp(s) \/ SendWelcome(s) \/ RecordEvent(s)
    PROVE  MirrorInv'
<1>1. UNCHANGED <<plan, customer, ev, emitted, acked, orderly>>
    BY DEF CheckProcessed, ReadWelcome, Stamp, SendWelcome, RecordEvent, users, paddle
<1> SUFFICES ASSUME InOrder PROVE InOrder'
    BY <1>1, NewestStays DEF MirrorInv
<1>2. InTurn(s) /\ AckedFirst
    BY DEF InOrder
<1>3. CASE CheckProcessed(s)
    <2>1. PICK step \in {"reply", "record", "claim", "sync"} :
              /\ Goto(s, step) /\ pc[s] = "check" /\ recorded' = recorded
              /\ step = "reply" <=> ev[s] \in recorded
              /\ step \in {"claim", "sync"} <=> ev[s] \notin recorded /\ IsSubscription(ev[s])
        BY <1>3, Zenon DEF CheckProcessed, IsSubscription
    <2>2. AckedFirst' /\ \A t \in Slots : InTurn(t)'
        BY <1>1, <2>1, Advances DEF Steps
    <2>3. pc' = [pc EXCEPT ![s] = step] /\ pc \in [Slots -> Steps]
        BY <2>1 DEF Goto, BillingInv, TypeOK
    <2>4. \A d \in Events : Applied(d)' /\ IsSubscription(d) => Applied(d)
        BY <1>1, <2>1, <2>3 DEF Applied
    <2> QED BY <1>1, <2>2, <2>4, EventsAreNumbers, RowsStand DEF InOrder
<1>4. CASE ReadWelcome(s) \/ Stamp(s) \/ SendWelcome(s) \/ RecordEvent(s)
    <2>1. PICK step \in {"stamp", "send", "record", "reply"} :
              /\ Goto(s, step) /\ pc[s] \in {"welcome", "stamp", "send", "record"}
              /\ step # "reply" => recorded' = recorded
              /\ step = "reply" => recorded' = recorded \union {ev[s]}
        BY <1>4 DEF ReadWelcome, Stamp, SendWelcome, RecordEvent
    <2>2. AckedFirst' /\ \A t \in Slots : InTurn(t)'
        BY <1>1, <1>2, <2>1, Advances DEF Steps, InTurn
    <2>3. pc' = [pc EXCEPT ![s] = step] /\ pc \in [Slots -> Steps]
        BY <2>1 DEF Goto, BillingInv, TypeOK
    <2>4. \A d \in Events : Applied(d)' => Applied(d)
        BY <1>1, <2>1, <2>3 DEF Applied
    <2> QED BY <1>1, <2>2, <2>4, EventsAreNumbers, RowsStand DEF InOrder
<1> QED BY <1>3, <1>4

\* The end of a request, or of all.
LEMMA EndMirror ==
    ASSUME BillingInv, MirrorInv, Crash \/ \E s \in Slots : Reply(s) \/ RequestFails(s)
    PROVE  MirrorInv'
<1>1. UNCHANGED <<plan, customer, recorded, emitted, orderly>>
    BY DEF Crash, Reply, RequestFails, users, paddle
<1> SUFFICES ASSUME InOrder PROVE InOrder'
    BY <1>1, NewestStays DEF MirrorInv
<1>2. CASE Crash
    <2>1. acked' = acked /\ pc' = [t \in Slots |-> "idle"]
        BY <1>2 DEF Crash, paddle
    <2>2. AckedFirst' /\ (\A t \in Slots : InTurn(t)') /\ \A d \in Events : Applied(d)' => Applied(d)
        BY <1>1, <2>1 DEF InOrder, AckedFirst, InTurn, Applied
    <2> QED BY <1>1, <2>2, EventsAreNumbers, RowsStand DEF InOrder
<1>3. CASE \E s \in Slots : Reply(s) \/ RequestFails(s)
    <2>1. PICK s \in Slots : /\ pc[s] # "idle" /\ End(s)
                             /\ \/ acked' = acked
                                \/ pc[s] = "reply" /\ acked' = acked \union {ev[s]}
        BY <1>3, Zenon DEF Reply, RequestFails, paddle
    <2>2. AckedFirst' /\ (\A t \in Slots : InTurn(t)') /\ \A d \in Events : Applied(d)' => Applied(d)
        BY <1>1, <2>1, Ends
    <2> QED BY <1>1, <2>2, EventsAreNumbers, RowsStand DEF InOrder
<1> QED BY <1>2, <1>3

\* What is applied comes before the event of a request that has not applied its own.
LEMMA AppliedBefore ==
    ASSUME BillingInv, InOrder, NEW s \in Slots, pc[s] \in {"claim", "sync"},
           NEW d \in Events, Applied(d)
    PROVE  d < ev[s]
<1>1. InTurn(s) /\ AckedFirst
    BY DEF InOrder
<1>2. ev[s] \in 1..emitted /\ ev[s] \notin recorded
    BY <1>1 DEF InTurn
<1>3. d \in recorded
    BY <1>1 DEF Applied, InTurn
<1>4. d \in 1..emitted /\ 1..(d - 1) \subseteq recorded
    BY <1>1, <1>3 DEF AckedFirst
<1> QED BY <1>2, <1>3, <1>4, EventsAreNumbers

\* A row that has just been bound to a customer awaits the event that bound it.
LEMMA ClaimMirror ==
    ASSUME BillingInv, MirrorInv, NEW s \in Slots, Claim(s)
    PROVE  MirrorInv'
<1> DEFINE e == History[ev[s]]
<1>1. /\ pc[s] = "claim" /\ Goto(s, "sync")
      /\ \A u \in Users : customer'[u] = customer[u] \/ customer'[u] = e.customer
      /\ UNCHANGED <<plan, recorded, ev, emitted, acked, orderly>>
    BY DEF Claim, paddle
<1> SUFFICES ASSUME InOrder PROVE InOrder'
    BY <1>1, NewestStays DEF MirrorInv
<1>2. InTurn(s) /\ AckedFirst
    BY DEF InOrder
<1>3. /\ ev[s] \in 1..emitted /\ ev[s] \notin recorded /\ IsSubscription(ev[s])
    BY <1>1, <1>2 DEF InTurn
<1>4. AckedFirst' /\ \A t \in Slots : InTurn(t)'
    BY <1>1, <1>3, Advances DEF Steps
<1>5. \A d \in Events : Applied(d)' => Applied(d)
    <2>1. pc' = [pc EXCEPT ![s] = "sync"] /\ pc \in [Slots -> Steps]
        BY <1>1 DEF Goto, BillingInv, TypeOK
    <2> QED BY <1>1, <2>1 DEF Applied
<1>6. ASSUME NEW u \in Users PROVE Settled(u)' /\ Known(u)'
    <2>1. CASE customer'[u] = customer[u]
        <3>1. Settled(u) /\ Known(u)
            BY DEF InOrder
        <3> QED BY <1>1, <1>5, <2>1, <3>1 DEF Settled, Known, About, IsSubscription
    <2>2. CASE customer'[u] = e.customer
        <3>1. About(ev[s], e.customer)
            BY <1>3 DEF About
        <3>2. \A d \in Events : Applied(d)' => ev[s] > d
            BY <1>1, <1>3, <1>5, AppliedBefore, EventsAreNumbers
        <3>3. Known(u)'
            BY <1>1, <1>3, <2>2, <3>1 DEF Known, About, IsSubscription
        <3>4. Settled(u)'
            BY <1>1, <1>3, <2>2, <3>1, <3>2 DEF Settled, About, IsSubscription
        <3> QED BY <3>3, <3>4
    <2> QED BY <1>1, <2>1, <2>2
<1> QED BY <1>4, <1>6 DEF InOrder

\* The rows of the customer show the event, the newest one applied.
LEMMA SyncMirror ==
    ASSUME BillingInv, MirrorInv, NEW s \in Slots, Sync(s)
    PROVE  MirrorInv'
<1> DEFINE e == ev[s]
           mine == {u \in Users : customer[u] = History[e].customer}
<1>0. pc[s] = "sync"
    BY DEF Sync
<1>1. /\ plan' = [u \in Users |-> IF u \in mine THEN PlanOf(e) ELSE plan[u]]
      /\ UNCHANGED <<customer, recorded, ev, emitted, acked, orderly>>
    BY DEF Sync, paddle
<1> SUFFICES ASSUME InOrder PROVE InOrder'
    BY <1>1, NewestStays DEF MirrorInv
<1>2. InTurn(s) /\ AckedFirst
    BY DEF InOrder
<1>3. e \in 1..emitted /\ e \notin recorded /\ IsSubscription(e)
    BY <1>0, <1>2 DEF InTurn
<1>4. PICK step \in {"welcome", "record"} : Goto(s, step)
    BY DEF Sync
<1>5. AckedFirst' /\ \A t \in Slots : InTurn(t)'
    BY <1>0, <1>1, <1>3, <1>4, Advances DEF Steps
<1>6. \A d \in Events : Applied(d)' => Applied(d) \/ d = e
    <2>1. pc' = [pc EXCEPT ![s] = step] /\ pc \in [Slots -> Steps]
        BY <1>4 DEF Goto, BillingInv, TypeOK
    <2> QED BY <1>1, <2>1 DEF Applied
<1>7. ASSUME NEW u \in Users PROVE Settled(u)' /\ Known(u)'
    <2>1. Settled(u) /\ Known(u)
        BY DEF InOrder
    <2>2. Known(u)'
        BY <1>1, <2>1 DEF Known, About, IsSubscription
    <2>3. CASE u \in mine
        <3>1. plan'[u] = PlanOf(e) /\ About(e, customer[u])
            BY <1>1, <1>3, <2>3 DEF About
        <3>2. \A d \in Events : Applied(d) => e > d
            BY <1>0, <1>3, AppliedBefore, EventsAreNumbers
        <3> SUFFICES ASSUME NEW d \in Events, Applied(d)', plan'[u] # PlanOf(d)
                     PROVE  \E f \in 1..emitted : f > d /\ About(f, customer[u])
            BY <1>1, <2>2 DEF Settled, About, IsSubscription, PlanOf, Grants
        <3> QED BY <1>3, <1>6, <3>1, <3>2
    <2>4. CASE u \notin mine
        <3>1. plan'[u] = plan[u] /\ ~About(e, customer[u])
            BY <1>1, <2>4 DEF About
        <3> SUFFICES ASSUME NEW d \in Events, Applied(d)', About(d, customer[u]), plan[u] # PlanOf(d)
                     PROVE  \E f \in 1..emitted : f > d /\ About(f, customer[u])
            BY <1>1, <2>2, <3>1 DEF Settled, About, IsSubscription, PlanOf, Grants
        <3> QED BY <1>6, <2>1, <3>1 DEF Settled
    <2> QED BY <2>3, <2>4, <2>2
<1> QED BY <1>5, <1>7 DEF InOrder

LEMMA MirrorInvNext == BillingInv /\ MirrorInv /\ [Next]_vars => MirrorInv'
<1> SUFFICES ASSUME BillingInv, MirrorInv, [Next]_vars PROVE MirrorInv'
    OBVIOUS
<1>1. CASE \E s \in Slots : Handle(s) \/ RequestFails(s)
    BY <1>1, QuietMirror, ClaimMirror, SyncMirror, EndMirror DEF Handle
<1>2. CASE \E s \in Slots : \E e \in Events : Deliver(s, e)
    BY <1>2, DeliverMirror
<1>3. CASE Emit
    BY <1>3, EmitMirror
<1>4. CASE Crash
    BY <1>4, EndMirror
<1>5. CASE UNCHANGED vars
    <2>1. UNCHANGED <<plan, customer, recorded, pc, ev, emitted, acked, orderly>>
        BY <1>5 DEF vars
    <2>2. Newest'
        BY <2>1, NewestStays DEF MirrorInv
    <2>3. InOrder => AckedFirst' /\ \A s \in Slots : InTurn(s)'
        BY <2>1 DEF InOrder, AckedFirst, InTurn, IsSubscription
    <2>4. InOrder => \A u \in Users : Settled(u)' /\ Known(u)'
        BY <2>1, EventsAreNumbers, RowsStand DEF Applied
    <2> QED BY <2>1, <2>2, <2>3, <2>4 DEF MirrorInv, InOrder
<1> QED BY <1>1, <1>2, <1>3, <1>4, <1>5 DEF Next

\* If no delivery overtook or overlapped another, every user ends up on the plan that the
\* newest event of the customer grants, through crashes, failures, lost replies and duplicates.
THEOREM PlansMirrorPaddle == Spec => []MirrorsPaddle
<1>1. ASSUME BillingInv, MirrorInv PROVE MirrorsPaddle
    <2> SUFFICES ASSUME orderly, acked = 1..emitted, NEW u \in Users, customer[u] # NoCustomer
                 PROVE  plan[u] = PlanOf(Latest(customer[u]))
        BY DEF MirrorsPaddle
    <2> DEFINE c == customer[u]
               its == {e \in 1..emitted : IsSubscription(e) /\ History[e].customer = c}
    <2>1. InOrder /\ Newest
        BY <1>1 DEF MirrorInv
    <2>2. AckedFirst /\ Settled(u) /\ Known(u)
        BY <2>1 DEF InOrder
    <2>3. c \in Customers
        BY <1>1 DEF BillingInv, TypeOK
    <2>4. PICK e \in its : \A f \in its : f <= e
        BY <2>1, <2>2, <2>3 DEF Known, Newest, About
    <2>5. Latest(c) \in its /\ \A f \in its : f <= Latest(c)
        BY <2>4 DEF Latest
    <2> DEFINE last == Latest(c)
    <2>6. last \in 1..emitted /\ About(last, c) /\ \A f \in 1..emitted : About(f, c) => f <= last
        BY <2>5 DEF About
    <2> HIDE DEF last
    <2>7. last \in Events /\ Applied(last)
        BY <1>1, <2>2, <2>6, EventsAreNumbers, HistoryAssumption DEF AckedFirst, Applied, Events
    <2>8. ~\E f \in 1..emitted : f > last /\ About(f, c)
        BY <1>1, <2>6, EventsAreNumbers
    <2>9. plan[u] = PlanOf(last)
        BY <2>2, <2>6, <2>7, <2>8 DEF Settled
    <2> QED BY <2>9 DEF last
<1>2. Spec => []MirrorInv
    BY MirrorInvInit, MirrorInvNext, BillingInvariance, PTL DEF Spec
<1> QED BY <1>1, <1>2, BillingInvariance, PTL

=============================================================================
