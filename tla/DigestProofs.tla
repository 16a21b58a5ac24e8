---------------------------- MODULE DigestProofs ----------------------------
(***************************************************************************)
(* One digest a morning, for any users, zones, length of the day, window   *)
(* and period that leave two runs within one day and not within one window.*)
(***************************************************************************)
EXTENDS Digest, TLAPS

(* Arithmetic. *)

LEMMA ModStep ==
    ASSUME NEW a \in Nat, NEW d \in Nat \ {0}
    PROVE  (a + 1) % d = (a % d) + 1 \/ (a % d = d - 1 /\ (a + 1) % d = 0)
<1> DEFINE q == a \div d
           p == (a + 1) \div d
           r == a % d
           s == (a + 1) % d
<1>1. q \in Int /\ p \in Int /\ r \in 0..(d - 1) /\ s \in 0..(d - 1) /\ a = (d * q) + r
    OBVIOUS
<1>2. a + 1 = d * p + s
    OBVIOUS
<1>3. d * q \in Int /\ d * p \in Int
    BY <1>1
<1> HIDE DEF q, p, r, s
<1>4. \A k \in Int : k >= 1 => d * k >= d /\ d * k \in Int
    OBVIOUS
<1>5. CASE p = q
    BY <1>1, <1>2, <1>3, <1>5 DEF r, s
<1>6. CASE p = q + 1
    <2>1. d * p = d * q + d
        BY <1>1, <1>6
    <2> QED BY <1>1, <1>2, <1>3, <2>1 DEF r, s
<1>7. CASE p >= q + 2
    <2>1. d * (p - q - 1) >= d
        BY <1>1, <1>4, <1>7
    <2>2. d * (p - q - 1) = d * p - d * q - d
        BY <1>1
    <2> QED BY <1>1, <1>2, <1>3, <2>1, <2>2
<1>8. CASE p < q
    <2>1. d * (q - p) >= d
        BY <1>1, <1>4, <1>8
    <2>2. d * (q - p) = d * q - d * p
        BY <1>1
    <2> QED BY <1>1, <1>2, <1>3, <2>1, <2>2
<1> QED BY <1>1, <1>5, <1>6, <1>7, <1>8

-----------------------------------------------------------------------------
(* The inductive invariant. *)

Opens == SendAt - Window
Closes == SendAt + Window

\* Whom the run found due is still to come, at hand, served or failed.
RunShape ==
    /\ pc \in {"idle", "down"} => todo = {}
    /\ pc = "down" => listed = {}
    /\ pc \in {"send", "mark"} => user \in listed /\ user \notin todo
    /\ listed = todo \union served \union failed
                     \union (IF pc \in {"send", "mark"} THEN {user} ELSE {})

\* A run that fell into the window the user is in fell into it after it opened.
OnceAWindow(u) ==
    /\ matches[u] \in {0, 1}
    /\ InWindow(u, now) /\ matches[u] # 0 => sinceEval <= LocalTime(u, now) - Opens

\* Who was found due and did not move was in the window then, on this local day.
FoundInWindow(u) == u \in listed \ moved =>
    /\ Opens <= LocalTime(u, now) - sinceEval /\ LocalTime(u, now) - sinceEval <= Closes
    /\ InWindow(u, now) => matches[u] # 0

\* Up to the mail, what made the user due still holds.
StillDue(u) == u \in todo \/ (pc = "send" /\ user = u) =>
    /\ lastSent[u] = NoTime \/ lastSent[u] < now - Opens
    /\ excused[u] \/ mailed[u] = NoTime \/ mailed[u] < now - Opens

\* Without a restart or a move, no run will find who was mailed today due again today.
DoneToday(u) ==
    /\ mailed[u] <= now
    /\ ~excused[u] /\ mailed[u] # NoTime /\ LocalToday(u, now) <= mailed[u] =>
        LocalTime(u, now) > Closes \/ (InWindow(u, now) /\ matches[u] # 0)

DigestInv ==
    /\ TypeOK
    /\ RunShape
    /\ \A u \in Users : OnceAWindow(u) /\ FoundInWindow(u) /\ StillDue(u) /\ DoneToday(u)

-----------------------------------------------------------------------------
(* The local clock. *)

LEMMA Constants ==
    /\ Day \in Nat \ {0} /\ Zones \subseteq Nat /\ NoUser \notin Users
    /\ Period \in Nat /\ Lateness \in Nat /\ Start \in Nat /\ End \in Nat /\ Start <= End
    /\ MaxFaults \in Nat /\ MaxRequests \in Nat
    /\ Opens \in Nat /\ Closes \in Nat /\ Opens <= Closes
    /\ Closes - Opens < Period /\ Closes + Period + Lateness < Day
    /\ SendAt \in Nat /\ Window \in Nat /\ Opens = SendAt - Window /\ Closes = SendAt + Window
<1>1. /\ Day \in Nat /\ SendAt \in Nat /\ Window \in Nat /\ Period \in Nat /\ Lateness \in Nat
      /\ Start \in Nat /\ End \in Nat /\ MaxFaults \in Nat /\ MaxRequests \in Nat
    BY DigestAssumption
<1> QED BY <1>1, DigestAssumption, DayAssumption DEF Opens, Closes

USE Constants

LEMMA ClockType ==
    ASSUME TypeOK, NEW u \in Users
    PROVE  /\ now \in Nat /\ zone[u] \in Nat
           /\ LocalTime(u, now) \in 0..(Day - 1)
           /\ LocalToday(u, now) = now - LocalTime(u, now)
           /\ InWindow(u, now) <=> (Opens <= LocalTime(u, now) /\ LocalTime(u, now) <= Closes)
<1>1. now \in Nat /\ zone[u] \in Nat
    <2>1. now \in Start..End /\ zone \in [Users -> Zones]
        BY DEF TypeOK
    <2>2. zone[u] \in Zones
        BY <2>1, Zenon
    <2>3. zone[u] \in Nat
        BY <2>2, Zenon
    <2>4. now \in Nat
        BY <2>1
    <2> QED BY <2>3, <2>4
<1>2. LocalTime(u, now) \in 0..(Day - 1)
    BY <1>1 DEF LocalTime
<1> QED BY <1>1, <1>2 DEF LocalToday, InWindow

LEMMA ClockStands ==
    ASSUME now' = now, NEW u \in Users, zone'[u] = zone[u]
    PROVE  /\ LocalTime(u, now)' = LocalTime(u, now)
           /\ LocalToday(u, now)' = LocalToday(u, now)
           /\ InWindow(u, now)' <=> InWindow(u, now)
BY DEF LocalTime, LocalToday, InWindow

\* Time goes on, until midnight.
LEMMA ClockTicks ==
    ASSUME TypeOK, now' = now + 1, zone' = zone, NEW u \in Users
    PROVE  /\ \/ LocalTime(u, now)' = LocalTime(u, now) + 1
              \/ LocalTime(u, now) = Day - 1 /\ LocalTime(u, now)' = 0
           /\ LocalToday(u, now)' = now + 1 - LocalTime(u, now)'
           /\ InWindow(u, now)' <=> InWindow(u, now')
           /\ InWindow(u, now)' <=> (Opens <= LocalTime(u, now)' /\ LocalTime(u, now)' <= Closes)
<1>1. now \in Nat /\ zone[u] \in Nat
    BY ClockType
<1>2. \/ (now + zone[u] + 1) % Day = ((now + zone[u]) % Day) + 1
      \/ (now + zone[u]) % Day = Day - 1 /\ (now + zone[u] + 1) % Day = 0
    <2>1. now + zone[u] \in Nat
        BY <1>1
    <2> QED BY <2>1, ModStep
<1>3. now + zone[u] + 1 = now' + zone'[u]
    BY <1>1
<1>4. \/ LocalTime(u, now)' = LocalTime(u, now) + 1
      \/ LocalTime(u, now) = Day - 1 /\ LocalTime(u, now)' = 0
    BY <1>2, <1>3 DEF LocalTime
<1>5. LocalToday(u, now)' = now + 1 - LocalTime(u, now)'
    BY <1>1, <1>3 DEF LocalToday, LocalTime
<1>6. /\ InWindow(u, now)' <=> InWindow(u, now')
      /\ InWindow(u, now)' <=> (Opens <= LocalTime(u, now)' /\ LocalTime(u, now)' <= Closes)
    BY DEF InWindow, LocalTime
<1> QED BY <1>4, <1>5, <1>6

-----------------------------------------------------------------------------
(* The steps. *)

\* What concerns a user whose clock, mails and matches a step leaves alone.
LEMMA RowStands ==
    ASSUME DigestInv, UNCHANGED <<now, sinceEval>>, NEW u \in Users,
           zone'[u] = zone[u], matches'[u] = matches[u], mailed'[u] = mailed[u],
           excused'[u] = excused[u] \/ excused'[u] = TRUE,
           u \in listed' \ moved' => u \in listed \ moved
    PROVE  OnceAWindow(u)' /\ FoundInWindow(u)' /\ DoneToday(u)'
<1>1. OnceAWindow(u) /\ FoundInWindow(u) /\ DoneToday(u)
    BY DEF DigestInv
<1> QED BY <1>1, ClockStands DEF OnceAWindow, FoundInWindow, DoneToday

LEMMA DueStands ==
    ASSUME DigestInv, UNCHANGED now, NEW u \in Users,
           lastSent'[u] = lastSent[u], mailed'[u] = mailed[u],
           excused'[u] = excused[u] \/ excused'[u] = TRUE,
           u \in todo' \/ (pc' = "send" /\ user' = u) => u \in todo \/ (pc = "send" /\ user = u)
    PROVE  StillDue(u)'
<1>1. StillDue(u)
    BY DEF DigestInv
<1> QED BY <1>1 DEF StillDue

LEMMA DigestInvInit == Init => DigestInv
<1> SUFFICES ASSUME Init PROVE DigestInv
    OBVIOUS
<1> USE DEF Init
<1>1. TypeOK
    BY DEF TypeOK
<1>2. RunShape
    BY DEF RunShape
<1>3. ASSUME NEW u \in Users PROVE OnceAWindow(u) /\ FoundInWindow(u) /\ StillDue(u) /\ DoneToday(u)
    BY DEF OnceAWindow, FoundInWindow, StillDue, DoneToday, NoTime
<1> QED BY <1>1, <1>2, <1>3 DEF DigestInv

\* Requests that move nobody, and the ends of a run and of a restart.
LEMMA QuietInv ==
    ASSUME DigestInv,
           \/ \E u \in Users, on \in BOOLEAN : SetEnabled(u, on) \/ SetActive(u, on)
           \/ FinishRun \/ Restart
    PROVE  DigestInv'
<1>1. UNCHANGED <<now, zone, lastSent, sinceEval, todo, user, faults, listed, served, failed, moved,
                  mailed, excused, matches>>
    BY DEF SetEnabled, SetActive, FinishRun, Restart, prefs, observed
<1>2. pc' = pc \/ (pc \in {"stats", "down"} /\ pc' = "idle" /\ todo = {})
    BY DEF SetEnabled, SetActive, FinishRun, Restart, DigestInv, RunShape
<1>3. requests' \in 0..MaxRequests /\ enabled' \in [Users -> BOOLEAN] /\ active' \in [Users -> BOOLEAN]
    BY DEF SetEnabled, SetActive, FinishRun, Restart, prefs, DigestInv, TypeOK
<1>4. TypeOK'
    BY <1>1, <1>2, <1>3 DEF DigestInv, TypeOK
<1>5. RunShape'
    BY <1>1, <1>2 DEF DigestInv, RunShape
<1>6. ASSUME NEW u \in Users PROVE OnceAWindow(u)' /\ FoundInWindow(u)' /\ StillDue(u)' /\ DoneToday(u)'
    BY <1>1, <1>2, RowStands, DueStands
<1> QED BY <1>4, <1>5, <1>6 DEF DigestInv

LEMMA MoveInv ==
    ASSUME DigestInv, NEW v \in Users, NEW z \in Zones, Move(v, z)
    PROVE  DigestInv'
<1>1. /\ zone' = [zone EXCEPT ![v] = z] /\ excused' = [excused EXCEPT ![v] = TRUE]
      /\ matches' = [matches EXCEPT ![v] = 0] /\ moved' = moved \union ({v} \intersect listed)
      /\ requests' = requests + 1 /\ requests < MaxRequests
      /\ UNCHANGED <<now, enabled, active, lastSent, sinceEval, pc, todo, user, faults, listed,
                     served, failed, mailed>>
    BY DEF Move
<1>2. TypeOK
    BY DEF DigestInv
<1>3. TypeOK'
    <2>1. zone' \in [Users -> Zones] /\ excused' \in [Users -> BOOLEAN] /\ matches' \in [Users -> Nat]
        BY <1>1, <1>2 DEF TypeOK
    <2>2. moved' \subseteq listed' /\ requests' \in 0..MaxRequests
        BY <1>1, <1>2 DEF TypeOK
    <2> QED BY <1>1, <1>2, <2>1, <2>2 DEF TypeOK
<1>4. RunShape'
    BY <1>1 DEF DigestInv, RunShape
<1>5. ASSUME NEW u \in Users PROVE OnceAWindow(u)' /\ FoundInWindow(u)' /\ StillDue(u)' /\ DoneToday(u)'
    <2>1. excused'[u] = excused[u] \/ excused'[u] = TRUE
        BY <1>1, <1>2 DEF TypeOK
    <2>2. StillDue(u)'
        BY <1>1, <2>1, DueStands
    <2>3. CASE u = v
        <3>1. excused'[u] = TRUE /\ matches'[u] = 0 /\ u \notin listed' \ moved'
            BY <1>1, <1>2, <2>3 DEF TypeOK
        <3>2. mailed[u] <= now
            BY DEF DigestInv, DoneToday
        <3> QED BY <1>1, <2>2, <3>1, <3>2 DEF OnceAWindow, FoundInWindow, DoneToday
    <2>4. CASE u # v
        <3>1. zone'[u] = zone[u] /\ matches'[u] = matches[u] /\ (u \in listed' \ moved' => u \in listed \ moved)
            BY <1>1, <1>2, <2>4 DEF TypeOK
        <3> QED BY <1>1, <2>1, <2>2, <3>1, RowStands
    <2> QED BY <2>3, <2>4
<1> QED BY <1>3, <1>4, <1>5 DEF DigestInv

\* A user found due was not mailed since midnight, unless excused.
LEMMA EvaluateInv ==
    ASSUME DigestInv, Evaluate
    PROVE  DigestInv'
<1>1. /\ pc = "idle" /\ pc' = "stats" /\ sinceEval >= Period /\ sinceEval' = 0
      /\ todo' = {u \in Users : Due(u, now)} /\ listed' = todo'
      /\ served' = {} /\ failed' = {} /\ moved' = {}
      /\ matches' = [u \in Users |-> IF InWindow(u, now) THEN matches[u] + 1 ELSE matches[u]]
      /\ UNCHANGED <<now, enabled, active, zone, lastSent, user, faults, requests, mailed, excused>>
    BY DEF Evaluate, prefs
<1>2. TypeOK
    BY DEF DigestInv
<1>3. TypeOK'
    <2>1. matches' \in [Users -> Nat]
        BY <1>1, <1>2 DEF TypeOK
    <2> QED BY <1>1, <1>2, <2>1 DEF TypeOK
<1>4. RunShape'
    BY <1>1 DEF RunShape
<1>5. ASSUME NEW u \in Users PROVE OnceAWindow(u)' /\ FoundInWindow(u)' /\ StillDue(u)' /\ DoneToday(u)'
    <2>1. /\ LocalTime(u, now)' = LocalTime(u, now) /\ LocalToday(u, now)' = LocalToday(u, now)
          /\ InWindow(u, now)' <=> InWindow(u, now)
        BY <1>1, ClockStands
    <2>2. matches'[u] = IF InWindow(u, now) THEN matches[u] + 1 ELSE matches[u]
        BY <1>1
    <2>3. OnceAWindow(u) /\ DoneToday(u)
        BY DEF DigestInv
    <2>4. InWindow(u, now) => matches[u] = 0
        <3>1. sinceEval \in Nat
            BY <1>2 DEF TypeOK
        <3> QED BY <1>1, <1>2, <2>3, <3>1, ClockType DEF OnceAWindow
    <2>5. OnceAWindow(u)'
        BY <1>1, <1>2, <2>1, <2>2, <2>3, <2>4, ClockType DEF OnceAWindow
    <2>6. u \in todo' => Due(u, now) /\ InWindow(u, now)
        BY <1>1 DEF Due
    <2>7. FoundInWindow(u)'
        BY <1>1, <1>2, <2>1, <2>2, <2>4, <2>6, ClockType DEF FoundInWindow
    <2>8. DoneToday(u)'
        BY <1>1, <2>1, <2>2, <2>3, <2>4 DEF DoneToday
    <2>9. StillDue(u)'
        <3> SUFFICES ASSUME u \in todo'
                     PROVE  /\ lastSent[u] = NoTime \/ lastSent[u] < now - Opens
                            /\ excused[u] \/ mailed[u] = NoTime \/ mailed[u] < now - Opens
            BY <1>1 DEF StillDue
        <3>1. LocalToday(u, now) \in Int /\ LocalToday(u, now) <= now - Opens
            BY <1>2, <2>6, ClockType
        <3>2. lastSent[u] = NoTime \/ lastSent[u] < now - Opens
            <4>1. lastSent[u] = NoTime \/ (lastSent[u] \in Int /\ lastSent[u] < LocalToday(u, now))
                BY <1>2, <2>6 DEF Due, TypeOK
            <4> QED BY <1>2, <3>1, <4>1, ClockType
        <3>3. excused[u] \/ mailed[u] = NoTime \/ mailed[u] < now - Opens
            <4>1. excused[u] \/ mailed[u] = NoTime \/ ~(LocalToday(u, now) <= mailed[u])
                BY <1>2, <2>3, <2>4, <2>6, ClockType DEF DoneToday
            <4>2. mailed[u] = NoTime \/ mailed[u] \in Int
                BY <1>2 DEF TypeOK
            <4> QED BY <1>2, <3>1, <4>1, <4>2, ClockType
        <3> QED BY <3>2, <3>3
    <2> QED BY <2>5, <2>7, <2>8, <2>9
<1> QED BY <1>3, <1>4, <1>5 DEF DigestInv

LEMMA ReadStatsInv ==
    ASSUME DigestInv, NEW v \in Users, ReadStats(v)
    PROVE  DigestInv'
<1>1. /\ pc = "stats" /\ v \in todo /\ todo' = todo \ {v} /\ user' = v /\ pc' \in {"send", "mark"}
      /\ UNCHANGED <<now, enabled, active, zone, lastSent, sinceEval, faults, requests, listed,
                     served, failed, moved, mailed, excused, matches>>
    BY DEF ReadStats, prefs, observed
<1>2. TypeOK'
    BY <1>1 DEF DigestInv, TypeOK
<1>3. RunShape'
    BY <1>1 DEF DigestInv, RunShape
<1>4. ASSUME NEW u \in Users PROVE OnceAWindow(u)' /\ FoundInWindow(u)' /\ StillDue(u)' /\ DoneToday(u)'
    BY <1>1, RowStands, DueStands
<1> QED BY <1>2, <1>3, <1>4 DEF DigestInv

\* A mail goes out on the day, and in or after the window, in which the user was found due.
LEMMA SendInv ==
    ASSUME DigestInv, Send
    PROVE  DigestInv'
<1>1. /\ pc = "send" /\ pc' = "mark" /\ mailed' = [mailed EXCEPT ![user] = now]
      /\ excused' = [excused EXCEPT ![user] = user \in moved]
      /\ UNCHANGED <<now, enabled, active, zone, lastSent, sinceEval, todo, user, faults, requests,
                     listed, served, failed, moved, matches>>
    BY DEF Send, prefs, observed
<1>2. TypeOK /\ RunShape
    BY DEF DigestInv
<1>3. TypeOK'
    <2>1. mailed' \in [Users -> (Start..End) \union {NoTime}]
        BY <1>1, <1>2 DEF TypeOK
    <2>2. excused' \in [Users -> BOOLEAN]
        <3>1. (user \in moved) \in BOOLEAN
            OBVIOUS
        <3> DEFINE b == user \in moved
        <3>2. b \in BOOLEAN /\ excused' = [excused EXCEPT ![user] = b]
            BY <1>1, <3>1
        <3> HIDE DEF b
        <3> QED BY <1>2, <3>2 DEF TypeOK
    <2> QED BY <1>1, <1>2, <2>1, <2>2 DEF TypeOK
<1>4. RunShape'
    BY <1>1, <1>2 DEF RunShape
<1>5. ASSUME NEW u \in Users PROVE OnceAWindow(u)' /\ FoundInWindow(u)' /\ StillDue(u)' /\ DoneToday(u)'
    <2>1. CASE u # user
        <3>1. mailed'[u] = mailed[u] /\ excused'[u] = excused[u]
            BY <1>1, <1>2, <2>1 DEF TypeOK
        <3> QED BY <1>1, <2>1, <3>1, RowStands, DueStands
    <2>2. CASE u = user
        <3>1. /\ OnceAWindow(u) /\ FoundInWindow(u)
              /\ LocalTime(u, now)' = LocalTime(u, now) /\ (InWindow(u, now)' <=> InWindow(u, now))
            BY <1>1, ClockStands DEF DigestInv
        <3>2. OnceAWindow(u)' /\ FoundInWindow(u)'
            BY <1>1, <3>1 DEF OnceAWindow, FoundInWindow
        <3>3. StillDue(u)'
            BY <1>1, <1>2, <2>2 DEF StillDue, RunShape
        <3>4. mailed'[u] = now /\ now \in Nat
            BY <1>1, <1>2, <2>2, ClockType DEF TypeOK
        <3>5. ~excused'[u] => u \in listed \ moved
            BY <1>1, <1>2, <2>2 DEF TypeOK, RunShape
        <3>6. sinceEval \in Nat
            BY <1>2 DEF TypeOK
        <3>7. u \in listed \ moved => LocalTime(u, now) > Closes \/ (InWindow(u, now) /\ matches[u] # 0)
            BY <1>2, <3>1, <3>6, ClockType DEF FoundInWindow
        <3>8. DoneToday(u)'
            BY <1>1, <3>1, <3>4, <3>5, <3>7 DEF DoneToday
        <3> QED BY <3>2, <3>3, <3>8
    <2> QED BY <2>1, <2>2
<1> QED BY <1>3, <1>4, <1>5 DEF DigestInv

\* The user at hand is done with, marked or not.
LEMMA DoneWithInv ==
    ASSUME DigestInv, Mark \/ StepFails
    PROVE  DigestInv'
<1>1. /\ pc \in {"send", "mark"} /\ pc' = "stats" /\ user' = NoUser
      /\ lastSent' = lastSent \/ lastSent' = [lastSent EXCEPT ![user] = now]
      /\ \/ served' = served \union {user} /\ failed' = failed
         \/ failed' = failed \union {user} /\ served' = served
      /\ UNCHANGED <<now, enabled, active, zone, sinceEval, todo, requests, listed, moved, mailed,
                     excused, matches>>
    BY DEF Mark, StepFails, prefs
<1>2. TypeOK /\ RunShape /\ user \in listed /\ user \notin todo
    BY <1>1 DEF DigestInv, RunShape
<1>3. TypeOK'
    <2>1. lastSent' \in [Users -> (Start..End) \union {NoTime}]
        BY <1>1, <1>2 DEF TypeOK
    <2>2. faults' \in 0..MaxFaults
        BY <1>2 DEF Mark, StepFails, TypeOK
    <2> QED BY <1>1, <1>2, <2>1, <2>2 DEF TypeOK
<1>4. RunShape'
    BY <1>1, <1>2 DEF RunShape
<1>5. ASSUME NEW u \in Users PROVE OnceAWindow(u)' /\ FoundInWindow(u)' /\ StillDue(u)' /\ DoneToday(u)'
    <2>1. OnceAWindow(u)' /\ FoundInWindow(u)' /\ DoneToday(u)'
        BY <1>1, RowStands
    <2>2. StillDue(u)'
        <3> SUFFICES ASSUME u \in todo PROVE StillDue(u)'
            BY <1>1 DEF StillDue
        <3>1. lastSent'[u] = lastSent[u]
            BY <1>1, <1>2 DEF TypeOK
        <3> QED BY <1>1, <3>1, DueStands
    <2> QED BY <2>1, <2>2
<1> QED BY <1>3, <1>4, <1>5 DEF DigestInv

LEMMA CrashInv ==
    ASSUME DigestInv, Crash
    PROVE  DigestInv'
<1>1. /\ pc' = "down" /\ todo' = {} /\ user' = NoUser /\ sinceEval' = Period
      /\ listed' = {} /\ served' = {} /\ failed' = {} /\ moved' = {}
      /\ excused' = [u \in Users |-> TRUE] /\ matches' = [u \in Users |-> 0]
      /\ faults' = faults + 1 /\ faults < MaxFaults
      /\ UNCHANGED <<now, enabled, active, zone, lastSent, requests, mailed>>
    BY DEF Crash, prefs
<1>2. TypeOK'
    BY <1>1 DEF DigestInv, TypeOK
<1>3. RunShape'
    BY <1>1 DEF RunShape
<1>4. ASSUME NEW u \in Users PROVE OnceAWindow(u)' /\ FoundInWindow(u)' /\ StillDue(u)' /\ DoneToday(u)'
    <2>1. mailed[u] <= now
        BY DEF DigestInv, DoneToday
    <2> QED BY <1>1, <2>1 DEF OnceAWindow, FoundInWindow, StillDue, DoneToday
<1> QED BY <1>2, <1>3, <1>4 DEF DigestInv

\* The clocks tick: before midnight what happened today stays so, and at midnight all that
\* was mailed was mailed the day before.
LEMMA TimePassesInv ==
    ASSUME DigestInv, TimePasses
    PROVE  DigestInv'
<1>1. /\ now' = now + 1 /\ now < End
      /\ pc # "down" => sinceEval < Period + Lateness /\ sinceEval' = sinceEval + 1
      /\ pc = "down" => sinceEval' = sinceEval
      /\ matches' = [u \in Users |-> IF ~InWindow(u, now) /\ InWindow(u, now') THEN 0 ELSE matches[u]]
      /\ UNCHANGED <<enabled, active, zone, lastSent, pc, todo, user, faults, requests, listed,
                     served, failed, moved, mailed, excused>>
    BY DEF TimePasses, prefs, observed
<1>2. TypeOK /\ RunShape /\ now \in Start..End /\ sinceEval \in 0..(Period + Lateness)
    BY DEF DigestInv, TypeOK
<1>3. TypeOK'
    <2>1. now' \in Start..End /\ sinceEval' \in 0..(Period + Lateness)
        BY <1>1, <1>2
    <2>2. matches' \in [Users -> Nat]
        BY <1>1, <1>2 DEF TypeOK
    <2> QED BY <1>1, <1>2, <2>1, <2>2 DEF TypeOK
<1>4. RunShape'
    BY <1>1, <1>2 DEF RunShape
<1>5. ASSUME NEW u \in Users PROVE OnceAWindow(u)' /\ FoundInWindow(u)' /\ StillDue(u)' /\ DoneToday(u)'
    <2>1. OnceAWindow(u) /\ FoundInWindow(u) /\ StillDue(u) /\ DoneToday(u)
        BY DEF DigestInv
    <2>2. /\ \/ LocalTime(u, now)' = LocalTime(u, now) + 1
             \/ LocalTime(u, now) = Day - 1 /\ LocalTime(u, now)' = 0
          /\ LocalToday(u, now)' = now + 1 - LocalTime(u, now)'
          /\ InWindow(u, now)' <=> (Opens <= LocalTime(u, now)' /\ LocalTime(u, now)' <= Closes)
          /\ LocalTime(u, now) \in 0..(Day - 1) /\ LocalToday(u, now) = now - LocalTime(u, now)
          /\ InWindow(u, now) <=> (Opens <= LocalTime(u, now) /\ LocalTime(u, now) <= Closes)
        BY <1>1, <1>2, ClockTicks, ClockType
    <2>3. matches'[u] = IF ~InWindow(u, now) /\ InWindow(u, now)' THEN 0 ELSE matches[u]
        BY <1>1, <1>2, ClockTicks
    <2>4. now \in Nat /\ sinceEval \in Nat /\ (u \in listed \ moved => sinceEval' = sinceEval + 1 /\ sinceEval < Period + Lateness)
          /\ sinceEval' <= sinceEval + 1 /\ sinceEval' \in Nat
        BY <1>1, <1>2 DEF RunShape
    <2>5. OnceAWindow(u)'
        BY <2>1, <2>2, <2>3, <2>4 DEF OnceAWindow
    <2>6. FoundInWindow(u)'
        BY <1>1, <2>1, <2>2, <2>3, <2>4 DEF FoundInWindow
    <2>7. StillDue(u)'
        <3>1. lastSent[u] \in Int /\ mailed[u] \in Int
            BY <1>2 DEF TypeOK, NoTime
        <3> QED BY <1>1, <2>1, <2>4, <3>1 DEF StillDue
    <2>8. DoneToday(u)'
        <3>1. mailed[u] \in Int
            BY <1>2 DEF TypeOK, NoTime
        <3> QED BY <1>1, <2>1, <2>2, <2>3, <2>4, <3>1 DEF DoneToday
    <2> QED BY <2>5, <2>6, <2>7, <2>8
<1> QED BY <1>3, <1>4, <1>5 DEF DigestInv

LEMMA DigestInvNext == DigestInv /\ [Next]_vars => DigestInv'
<1> SUFFICES ASSUME DigestInv, [Next]_vars PROVE DigestInv'
    OBVIOUS
<1>1. CASE Run
    BY <1>1, EvaluateInv, ReadStatsInv, SendInv, DoneWithInv, QuietInv DEF Run
<1>2. CASE StepFails
    BY <1>2, DoneWithInv
<1>3. CASE \E u \in Users : (\E on \in BOOLEAN : SetEnabled(u, on) \/ SetActive(u, on))
                            \/ \E z \in Zones : Move(u, z)
    BY <1>3, QuietInv, MoveInv
<1>4. CASE Crash
    BY <1>4, CrashInv
<1>5. CASE Restart
    BY <1>5, QuietInv
<1>6. CASE TimePasses
    BY <1>6, TimePassesInv
<1>7. CASE UNCHANGED vars
    <2>1. UNCHANGED <<now, enabled, active, zone, lastSent, sinceEval, pc, todo, user, faults,
                      requests, listed, served, failed, moved, mailed, excused, matches>>
        BY <1>7 DEF vars
    <2>2. TypeOK' /\ RunShape'
        BY <2>1 DEF DigestInv, TypeOK, RunShape
    <2>3. ASSUME NEW u \in Users
          PROVE OnceAWindow(u)' /\ FoundInWindow(u)' /\ StillDue(u)' /\ DoneToday(u)'
        BY <2>1, RowStands, DueStands
    <2> QED BY <2>2, <2>3 DEF DigestInv
<1> QED BY <1>1, <1>2, <1>3, <1>4, <1>5, <1>6, <1>7 DEF Next

LEMMA DigestInvariance == Spec => []DigestInv
BY DigestInvInit, DigestInvNext, PTL DEF Spec

-----------------------------------------------------------------------------
(* The theorems. *)

\* Type correctness of the preferences, the run and the observers.
THEOREM DigestTypeCorrect == Spec => []TypeOK
<1>1. DigestInv => TypeOK
    BY DEF DigestInv
<1> QED BY <1>1, DigestInvariance, PTL

\* While the process stays up and the user does not move, one run at most falls into a window.
THEOREM OneRunAWindow == Spec => []AtMostOneMatch
<1>1. DigestInv => AtMostOneMatch
    BY DEF DigestInv, OnceAWindow, AtMostOneMatch
<1> QED BY <1>1, DigestInvariance, PTL

\* When a run is over every user it found due was served, or failed by itself.
THEOREM NobodyElsesFailure == Spec => []FailuresStayLocal
<1>1. DigestInv => FailuresStayLocal
    BY DEF DigestInv, RunShape, FailuresStayLocal
<1> QED BY <1>1, DigestInvariance, PTL

\* A second digest within hours takes a lost mark and a restart or a move.
THEOREM OneDigestAMorning == Spec => DigestNotRepeated
<1>1. ASSUME DigestInv, [Next]_vars, NEW u \in Users, Repeats(u)
      PROVE  excused[u] /\ lastSent[u] < mailed[u]
    <2>1. /\ pc = "send" /\ user = u /\ mailed[u] # NoTime /\ now - mailed[u] < Opens
        BY <1>1 DEF Repeats
    <2>2. StillDue(u) /\ TypeOK
        BY <1>1 DEF DigestInv
    <2>3. now \in Nat /\ mailed[u] \in Nat /\ lastSent[u] \in Int /\ NoTime < mailed[u]
        BY <2>1, <2>2 DEF TypeOK, NoTime
    <2> QED BY <2>1, <2>2, <2>3 DEF StillDue
<1>2. DigestInv /\ [Next]_vars =>
        [\A u \in Users : Repeats(u) => excused[u] /\ lastSent[u] < mailed[u]]_vars
    BY <1>1
<1> QED BY <1>2, DigestInvariance, PTL DEF Spec, DigestNotRepeated

=============================================================================
