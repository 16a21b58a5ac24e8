--------------------------- MODULE LimitsProofs ---------------------------
(***************************************************************************)
(* The two limits, for any number of clients, users and requests: how many *)
(* calls an address may make within a window, and how many monitors, and   *)
(* how short an interval, a plan allows.                                   *)
(***************************************************************************)
EXTENDS RateLimiter, Quota, FiniteSetTheorems, TLAPS

\* Every call the list no longer holds is at least a window older than the time t.
Forgotten(k, t) == \A i \in DOMAIN log[k] \ hits[k] : log[k][i] <= t - Window[k]

Monotone(k) == \A i, j \in DOMAIN log[k] : i <= j => log[k][i] <= log[k][j]

\* What a call that has its bucket to itself knows of it.
Alone(r, k) ==
    /\ \A i \in DOMAIN log[k] : log[k][i] <= calls[r].stamp
    /\ Forgotten(k, calls[r].stamp)
    /\ calls[r].at = "store" => calls[r].found = Recent(r, hits[k])
    /\ calls[r].at \in {"test", "append"} => hits[k] = Recent(r, DOMAIN log[k])
    /\ calls[r].at = "append" => ~Full(k)

Orderly(k) ==
    /\ \A r, o \in Requests : Inside(r, k) /\ Inside(o, k) => r = o
    /\ \A r \in Requests : Inside(r, k) => Alone(r, k)
    /\ \A i \in DOMAIN log[k] : log[k][i] <= now
    /\ Forgotten(k, now)
    /\ Monotone(k)
    /\ \A i \in DOMAIN log[k] :
        i + Max[k] \in DOMAIN log[k] => log[k][i + Max[k]] - log[k][i] >= Window[k]

Earned(r) == (calls[r].at = "refused" /\ orderly[Key(r)]) =>
    Cardinality(Recent(r, DOMAIN log[Key(r)])) >= Max[Key(r)]

\* A call carries only entries that its bucket once held.
Held(r) == calls[r].at = "store" => calls[r].found \subseteq DOMAIN log[Key(r)]

LimiterInv ==
    /\ LimiterTypeOK
    /\ \A r \in Requests : calls[r].stamp <= now /\ Held(r)
    /\ \A k \in Keys : orderly[k] => Orderly(k)
    /\ \A r \in Requests : Earned(r)

-----------------------------------------------------------------------------
(* Lemmas. *)

\* A bucket that a step leaves alone stays in order.
LEMMA Frame ==
    ASSUME NEW k, Orderly(k), now' = now,
           hits'[k] = hits[k], log'[k] = log[k],
           \A o \in Requests : Inside(o, k)' => Inside(o, k) /\ calls'[o] = calls[o]
    PROVE  Orderly(k)'
<1>1. \A o \in Requests : Inside(o, k)' => Alone(o, k)'
  BY DEF Orderly, Alone, Forgotten, Recent, Full, Inside, Key
<1>2. QED
  BY <1>1 DEF Orderly, Forgotten, Monotone

\* A refusal stays earned while its request rests and logs only grow.
LEMMA FrameEarned ==
    ASSUME NEW o \in Requests, LimiterTypeOK, LimiterTypeOK', Earned(o),
           calls'[o] = calls[o],
           \A k \in Keys : orderly'[k] => orderly[k],
           \A k \in Keys : \E s \in Seq(0..EndOfTime) : log'[k] = log[k] \o s
    PROVE  Earned(o)'
<1> DEFINE k == Key(o)
<1> SUFFICES ASSUME calls[o].at = "refused", orderly'[k]
             PROVE  Cardinality(Recent(o, DOMAIN log[k])') >= Max[k]
  BY DEF Earned, Key
<1>1. k \in Keys
  BY DEF LimiterTypeOK, Call, Key
<1>2. orderly[k]
  BY <1>1
<1>3. Cardinality(Recent(o, DOMAIN log[k])) >= Max[k]
  BY <1>2 DEF Earned
<1>4. PICK s \in Seq(0..EndOfTime) : log'[k] = log[k] \o s
  BY <1>1
<1>5. /\ log[k] \in Seq(0..EndOfTime)
      /\ log'[k] \in Seq(0..EndOfTime)
      /\ DOMAIN log[k] \subseteq DOMAIN log'[k]
      /\ \A i \in DOMAIN log[k] : log'[k][i] = log[k][i]
  BY <1>1, <1>4 DEF LimiterTypeOK
<1>6. Recent(o, DOMAIN log[k]) \subseteq Recent(o, DOMAIN log[k])'
  BY <1>5 DEF Recent, Key
<1>7. IsFiniteSet(Recent(o, DOMAIN log[k])')
  <2>1. DOMAIN log'[k] = 1..Len(log'[k]) /\ Len(log'[k]) \in Nat
    BY <1>5
  <2>2. IsFiniteSet(DOMAIN log'[k])
    BY <2>1, FS_Interval
  <2>3. Recent(o, DOMAIN log[k])' \subseteq DOMAIN log'[k]
    BY DEF Recent, Key
  <2>4. QED
    BY <2>2, <2>3, FS_Subset
<1>8. /\ Cardinality(Recent(o, DOMAIN log[k])) <= Cardinality(Recent(o, DOMAIN log[k])')
      /\ Cardinality(Recent(o, DOMAIN log[k])) \in Nat
      /\ Cardinality(Recent(o, DOMAIN log[k])') \in Nat
  BY <1>6, <1>7, FS_Subset, FS_CardinalityType
<1>9. Max[k] \in Nat
  BY <1>1, LimiterAssumption
<1>10. QED
  BY <1>3, <1>8, <1>9

\* The type of a request under way.
LEMMA KeyType ==
    ASSUME LimiterTypeOK, NEW r \in Requests, calls[r].at # "idle"
    PROVE  /\ Key(r) \in Keys
           /\ calls[r] \in Call
           /\ calls[r].chain \in Seq(Keys) /\ calls[r].chain # <<>>
           /\ calls[r].stamp \in Nat
           /\ Window[Key(r)] \in Nat \ {0} /\ Max[Key(r)] \in Nat \ {0}
BY LimiterAssumption DEF LimiterTypeOK, Call, Key

LEMMA LogType ==
    ASSUME LimiterTypeOK, NEW k \in Keys
    PROVE  /\ log[k] \in Seq(0..EndOfTime)
           /\ Len(log[k]) \in Nat /\ DOMAIN log[k] = 1..Len(log[k])
           /\ \A i \in DOMAIN log[k] : log[k][i] \in Nat
<1>1. log[k] \in Seq(0..EndOfTime)
  BY DEF LimiterTypeOK
<1>2. EndOfTime \in Nat
  BY LimiterAssumption
<1>3. \A i \in DOMAIN log[k] : log[k][i] \in 0..EndOfTime
  <2> DEFINE S == 0..EndOfTime
             s == log[k]
  <2>1. s \in Seq(S)
    BY <1>1
  <2> HIDE DEF S, s
  <2>2. \A i \in DOMAIN s : s[i] \in S
    BY <2>1
  <2>3. QED
    BY <2>2 DEF S, s
<1>4. QED
  BY <1>1, <1>2, <1>3

-----------------------------------------------------------------------------
(* One lemma per action. *)

LEMMA EnterInv ==
    ASSUME LimiterInv, NEW r \in Requests, NEW chain \in Seq(Keys), chain # <<>>,
           calls[r].at \in {"idle", "clock"}, Enter(r, chain)
    PROVE  LimiterInv'
<1> DEFINE q == [at |-> "filter", chain |-> chain, stamp |-> now, found |-> {}]
           h == Head(chain)
<1>1. /\ LimiterTypeOK
      /\ calls' = [calls EXCEPT ![r] = q]
      /\ orderly' = [orderly EXCEPT ![h] = @ /\ \A o \in Requests \ {r} : ~Inside(o, h)]
      /\ UNCHANGED <<now, hits, restarts, log>>
      /\ h \in Keys
  BY DEF LimiterInv, Enter
<1>2. q \in Call
  BY <1>1 DEF Call, Stages, LimiterTypeOK
<1>3. calls'[r] = q /\ \A o \in Requests : o # r => calls'[o] = calls[o]
  BY <1>1 DEF LimiterTypeOK
<1>4. LimiterTypeOK'
  <2>1. calls' \in [Requests -> Call]
    BY <1>1, <1>2 DEF LimiterTypeOK
  <2>2. orderly' \in [Keys -> BOOLEAN]
    BY <1>1, Zenon DEF LimiterTypeOK
  <2>3. \A o \in Requests : calls'[o].at # "idle" => calls'[o].chain # <<>>
    BY <1>1, <1>3 DEF LimiterTypeOK
  <2>4. QED
    BY <2>1, <2>2, <2>3, <1>1 DEF LimiterTypeOK
<1>5. \A o \in Requests : calls'[o].stamp <= now' /\ Held(o)'
  <2>1. now \in Nat
    BY <1>1 DEF LimiterTypeOK
  <2>2. QED
    BY <1>1, <1>3, <2>1 DEF LimiterInv, Held, Key
<1>6. \A k \in Keys : orderly'[k] => orderly[k]
  BY <1>1, Zenon DEF LimiterTypeOK
<1>7. \A o \in Requests, k \in Keys : o # r => Inside(o, k)' = Inside(o, k)
  BY <1>3 DEF Inside, Key
<1>8. \A k \in Keys : Inside(r, k)' <=> k = h
  BY <1>3 DEF Inside, Key
<1>9. ASSUME NEW k \in Keys, orderly'[k] PROVE Orderly(k)'
  <2>1. Orderly(k)
    BY <1>6, <1>9 DEF LimiterInv
  <2>2. CASE k # h
    <3>1. \A o \in Requests : Inside(o, k)' => Inside(o, k) /\ calls'[o] = calls[o]
      BY <2>2, <1>3, <1>7, <1>8
    <3>2. QED
      BY <3>1, <2>1, <1>1, Frame
  <2>3. CASE k = h
    <3>1. \A o \in Requests : o # r => ~Inside(o, k)
      BY <2>3, <1>1, <1>9 DEF LimiterTypeOK
    <3>2. \A o \in Requests : Inside(o, k)' => o = r
      BY <3>1, <1>7
    <3>3. Alone(r, k)'
      BY <2>1, <1>1, <1>3 DEF Orderly, Alone, Forgotten
    <3>4. QED
      BY <3>2, <3>3, <2>1, <1>1 DEF Orderly, Forgotten, Monotone
  <2>4. QED
    BY <2>2, <2>3
<1>10. ASSUME NEW o \in Requests PROVE Earned(o)'
  <2>1. CASE o = r
    BY <2>1, <1>3 DEF Earned
  <2>2. CASE o # r
    <3>1. \A k \in Keys : \E s \in Seq(0..EndOfTime) : log'[k] = log[k] \o s
      <4>1. \A k \in Keys : log'[k] = log[k] \o <<>>
        BY <1>1 DEF LimiterTypeOK
      <4>2. <<>> \in Seq(0..EndOfTime)
        OBVIOUS
      <4>3. QED
        BY <4>1, <4>2
    <3>2. QED
      BY <3>1, <2>2, <1>1, <1>3, <1>4, <1>6, FrameEarned DEF LimiterInv
  <2>3. QED
    BY <2>1, <2>2
<1>11. QED
  BY <1>4, <1>5, <1>9, <1>10 DEF LimiterInv

\* A step of one call after it took the time: only its own bucket is touched.
LEMMA CallStep ==
    ASSUME LimiterInv, LimiterTypeOK', NEW r \in Requests, NEW k, k = Key(r),
           calls[r].at # "idle",
           \A o \in Requests : o # r => calls'[o] = calls[o],
           calls'[r].stamp <= now, now' = now, orderly' = orderly,
           \A l \in Keys : l # k => hits'[l] = hits[l],
           \A l \in Keys : l # k => log'[l] = log[l],
           \E s \in Seq(0..EndOfTime) : log'[k] = log[k] \o s,
           \A l : Inside(r, l)' => l = k,
           Held(r)',
           (orderly[k] /\ Orderly(k)) => Orderly(k)',
           Earned(r)'
    PROVE  LimiterInv'
<1>1. k \in Keys
  BY KeyType DEF LimiterInv
<1>2. \A o \in Requests : calls'[o].stamp <= now'
  BY DEF LimiterInv
<1>3. ASSUME NEW l \in Keys, orderly'[l] PROVE Orderly(l)'
  <2>1. orderly[l] /\ Orderly(l)
    BY <1>3 DEF LimiterInv
  <2>2. CASE l = k
    BY <2>1, <2>2
  <2>3. CASE l # k
    <3>1. \A o \in Requests : Inside(o, l)' => Inside(o, l) /\ calls'[o] = calls[o]
      BY <2>3 DEF Inside, Key
    <3>2. QED
      BY <3>1, <2>1, <2>3, Frame
  <2>4. QED
    BY <2>2, <2>3
<1>4. \A l \in Keys : \E s \in Seq(0..EndOfTime) : log'[l] = log[l] \o s
  <2> SUFFICES ASSUME NEW l \in Keys PROVE \E s \in Seq(0..EndOfTime) : log'[l] = log[l] \o s
    OBVIOUS
  <2>1. CASE l = k
    BY <2>1
  <2>2. CASE l # k
    <3>1. log[l] \in Seq(0..EndOfTime) /\ log'[l] = log[l]
      BY <2>2 DEF LimiterInv, LimiterTypeOK
    <3>2. log'[l] = log[l] \o <<>> /\ <<>> \in Seq(0..EndOfTime)
      BY <3>1
    <3>3. QED
      BY <3>2
  <2>3. QED
    BY <2>1, <2>2
<1>5. ASSUME NEW o \in Requests PROVE Earned(o)'
  <2>1. CASE o = r
    BY <2>1
  <2>2. CASE o # r
    BY <2>2, <1>4, FrameEarned DEF LimiterInv
  <2>3. QED
    BY <2>1, <2>2
<1>6. ASSUME NEW o \in Requests PROVE Held(o)'
  <2>1. CASE o = r
    BY <2>1
  <2>2. CASE o # r
    <3> SUFFICES ASSUME calls[o].at = "store"
                 PROVE  calls[o].found \subseteq DOMAIN log'[Key(o)]
      BY <2>2 DEF Held, Key
    <3>1. LimiterTypeOK /\ Key(o) \in Keys /\ calls[o].found \subseteq DOMAIN log[Key(o)]
      BY KeyType DEF LimiterInv, Held
    <3>2. PICK s \in Seq(0..EndOfTime) : log'[Key(o)] = log[Key(o)] \o s
      BY <3>1, <1>4
    <3>3. log[Key(o)] \in Seq(0..EndOfTime)
      BY <3>1 DEF LimiterTypeOK
    <3>4. DOMAIN log[Key(o)] \subseteq DOMAIN log'[Key(o)]
      BY <3>2, <3>3
    <3>5. QED
      BY <3>1, <3>4
  <2>3. QED
    BY <2>1, <2>2
<1>7. QED
  BY <1>2, <1>3, <1>5, <1>6 DEF LimiterInv

\* Nothing appended.
LEMMA NoAppend ==
    ASSUME LimiterTypeOK, NEW k \in Keys, log'[k] = log[k]
    PROVE  \E s \in Seq(0..EndOfTime) : log'[k] = log[k] \o s
<1>1. log[k] \in Seq(0..EndOfTime)
  BY DEF LimiterTypeOK
<1>2. log'[k] = log[k] \o <<>> /\ <<>> \in Seq(0..EndOfTime)
  BY <1>1
<1>3. QED
  BY <1>2

\* A step of _record within its bucket that appends nothing.
LEMMA StageStep ==
    ASSUME LimiterInv, NEW r \in Requests, NEW k, k = Key(r), Inside(r, k),
           NEW q \in Call, q.chain = calls[r].chain, q.stamp = calls[r].stamp,
           q.at \notin {"idle", "clock"},
           q.at = "store" => q.found \subseteq DOMAIN log[k],
           calls' = [calls EXCEPT ![r] = q],
           NEW set \in SUBSET (DOMAIN log[k]), hits' = [hits EXCEPT ![k] = set],
           UNCHANGED <<now, restarts, log, orderly>>,
           Alone(r, k) => Alone(r, k)' /\ Forgotten(k, calls[r].stamp)',
           Earned(r)'
    PROVE  LimiterInv'
<1>1. LimiterTypeOK /\ k \in Keys /\ calls[r].at # "idle" /\ calls[r].chain # <<>>
        /\ Window[k] \in Nat
  <2>1. LimiterTypeOK /\ calls[r].at # "idle"
    BY DEF LimiterInv, Inside
  <2>2. QED
    BY <2>1, KeyType
<1>2. calls'[r] = q /\ \A o \in Requests : o # r => calls'[o] = calls[o]
  BY <1>1 DEF LimiterTypeOK
<1>3. LimiterTypeOK'
  <2>1. calls' \in [Requests -> Call]
    BY <1>1 DEF LimiterTypeOK
  <2>2. \A o \in Requests : calls'[o].at # "idle" => calls'[o].chain # <<>>
    BY <1>1, <1>2 DEF LimiterTypeOK
  <2>3. DOMAIN log[k] \subseteq Nat \ {0}
    BY <1>1 DEF LimiterTypeOK
  <2>4. hits' \in [Keys -> SUBSET (Nat \ {0})] /\ \A l \in Keys : hits'[l] \subseteq DOMAIN log[l]
    BY <1>1, <2>3 DEF LimiterTypeOK
  <2>5. QED
    BY <1>1, <2>1, <2>2, <2>4 DEF LimiterTypeOK
<1>4. \A l : Inside(r, l)' => l = k
  BY <1>2 DEF Inside, Key
<1>5. ASSUME Orderly(k) PROVE Orderly(k)'
  <2>1. \A o \in Requests : Inside(o, k)' => o = r
    BY <1>2, <1>5 DEF Orderly, Inside, Key
  <2>2. Alone(r, k)' /\ Forgotten(k, calls[r].stamp)'
    BY <1>5 DEF Orderly
  <2>3. Forgotten(k, now)'
    <3>1. calls[r].stamp \in Nat /\ now \in Nat /\ calls[r].stamp <= now
      BY <1>1 DEF LimiterInv, LimiterTypeOK, Call
    <3>2. \A i \in DOMAIN log[k] : log[k][i] \in Nat
      BY <1>1, LogType
    <3>3. QED
      BY <2>2, <3>1, <3>2, <1>1 DEF Forgotten
  <2>4. QED
    BY <2>1, <2>2, <2>3, <1>5 DEF Orderly, Monotone
<1>6. \E s \in Seq(0..EndOfTime) : log'[k] = log[k] \o s
  BY <1>1, NoAppend
<1>7. calls'[r].stamp <= now
  BY <1>2 DEF LimiterInv
<1>8. \A l \in Keys : l # k => hits'[l] = hits[l] /\ log'[l] = log[l]
  BY <1>1 DEF LimiterTypeOK
<1>9. Held(r)'
  BY <1>2 DEF Held, Key
<1>10. QED
  BY <1>1, <1>2, <1>3, <1>4, <1>5, <1>6, <1>7, <1>8, <1>9, CallStep

LEMMA FilterInv ==
    ASSUME LimiterInv, NEW r \in Requests, NEW k, k = Key(r), Filter(r)
    PROVE  LimiterInv'
<1> DEFINE q == [calls[r] EXCEPT !.at = "store", !.found = Recent(r, hits[k])]
<1>1. /\ LimiterTypeOK
      /\ calls[r].at = "filter"
      /\ calls' = [calls EXCEPT ![r] = q]
      /\ UNCHANGED <<now, hits, restarts, log, orderly>>
  BY DEF LimiterInv, Filter, Key
<1>2. k \in Keys /\ calls[r] \in Call /\ Inside(r, k)
  BY <1>1, KeyType DEF Inside
<1>3. Recent(r, hits[k]) \in SUBSET (Nat \ {0})
  BY <1>1, <1>2 DEF Recent, LimiterTypeOK
<1>4. q \in Call /\ q.at = "store" /\ q.chain = calls[r].chain /\ q.stamp = calls[r].stamp
        /\ q.found = Recent(r, hits[k])
  BY <1>2, <1>3 DEF Call, Stages
<1>5. calls'[r] = q
  BY <1>1 DEF LimiterTypeOK
<1>6. hits[k] \in SUBSET (DOMAIN log[k]) /\ hits' = [hits EXCEPT ![k] = hits[k]]
  BY <1>1, <1>2 DEF LimiterTypeOK
<1>7. q.found \subseteq DOMAIN log[k]
  BY <1>4, <1>6 DEF Recent
<1>8. Alone(r, k) => Alone(r, k)' /\ Forgotten(k, calls[r].stamp)'
  BY <1>1, <1>4, <1>5 DEF Alone, Forgotten, Recent, Key
<1>9. Earned(r)'
  BY <1>4, <1>5 DEF Earned
<1> HIDE DEF q
<1>10. QED
  BY <1>1, <1>2, <1>4, <1>6, <1>8, <1>9, <1>7, StageStep

LEMMA StoreInv ==
    ASSUME LimiterInv, NEW r \in Requests, NEW k, k = Key(r), Store(r)
    PROVE  LimiterInv'
<1> DEFINE q == [calls[r] EXCEPT !.at = "test", !.found = {}]
<1>1. /\ LimiterTypeOK
      /\ calls[r].at = "store"
      /\ calls' = [calls EXCEPT ![r] = q]
      /\ hits' = [hits EXCEPT ![k] = calls[r].found]
      /\ UNCHANGED <<now, restarts, log, orderly>>
  BY DEF LimiterInv, Store
<1>2. k \in Keys /\ calls[r] \in Call /\ Inside(r, k)
  BY <1>1, KeyType DEF Inside
<1>3. q \in Call /\ q.at = "test" /\ q.chain = calls[r].chain /\ q.stamp = calls[r].stamp
  BY <1>2 DEF Call, Stages
<1>4. calls'[r] = q /\ hits'[k] = calls[r].found
  BY <1>1, <1>2 DEF LimiterTypeOK
<1>5. calls[r].found \subseteq DOMAIN log[k]
  BY <1>1 DEF LimiterInv, Held
<1>6. Alone(r, k) => Alone(r, k)' /\ Forgotten(k, calls[r].stamp)'
  <2> SUFFICES ASSUME Alone(r, k) PROVE Alone(r, k)' /\ Forgotten(k, calls[r].stamp)'
    OBVIOUS
  <2>1. /\ calls[r].stamp \in Nat /\ Window[k] \in Nat
        /\ \A i \in DOMAIN log[k] : log[k][i] \in Nat
    BY <1>1, <1>2, KeyType, LogType
  <2>2. hits'[k] = Recent(r, hits[k])
    BY <1>1, <1>4 DEF Alone
  <2>3. Recent(r, hits[k]) = Recent(r, DOMAIN log[k])
    BY <1>1, <1>2, <2>1 DEF Alone, Forgotten, Recent, LimiterTypeOK
  <2>4. hits'[k] = Recent(r, DOMAIN log[k])'
    BY <1>1, <1>3, <1>4, <2>2, <2>3 DEF Recent, Key
  <2>5. Forgotten(k, calls[r].stamp)'
    BY <1>1, <1>3, <1>4, <2>1, <2>2, <2>3 DEF Forgotten, Recent
  <2>6. QED
    BY <1>1, <1>3, <1>4, <2>4, <2>5 DEF Alone
<1>7. Earned(r)'
  BY <1>3, <1>4 DEF Earned
<1> HIDE DEF q
<1>8. QED
  BY <1>1, <1>2, <1>3, <1>5, <1>6, <1>7, StageStep

LEMMA RefuseInv ==
    ASSUME LimiterInv, NEW r \in Requests, NEW k, k = Key(r), Refuse(r)
    PROVE  LimiterInv'
<1> DEFINE q == [calls[r] EXCEPT !.at = "refused"]
<1>1. /\ LimiterTypeOK
      /\ calls[r].at = "test"
      /\ Full(k)
      /\ calls' = [calls EXCEPT ![r] = q]
      /\ UNCHANGED <<now, hits, restarts, log, orderly>>
  BY DEF LimiterInv, Refuse
<1>2. k \in Keys /\ calls[r] \in Call /\ Inside(r, k)
  BY <1>1, KeyType DEF Inside
<1>3. q \in Call /\ q.at = "refused" /\ q.chain = calls[r].chain /\ q.stamp = calls[r].stamp
  BY <1>2 DEF Call, Stages
<1>4. calls'[r] = q
  BY <1>1 DEF LimiterTypeOK
<1>5. hits[k] \in SUBSET (DOMAIN log[k]) /\ hits' = [hits EXCEPT ![k] = hits[k]]
  BY <1>1, <1>2 DEF LimiterTypeOK
<1>6. Alone(r, k) => Alone(r, k)' /\ Forgotten(k, calls[r].stamp)'
  BY <1>1, <1>3, <1>4 DEF Alone, Forgotten
<1>7. Earned(r)'
  <2> SUFFICES ASSUME orderly[k]
               PROVE  Cardinality(Recent(r, DOMAIN log[k])') >= Max[k]
    BY <1>1, <1>3, <1>4 DEF Earned, Key
  <2>1. Alone(r, k)
    BY <1>2 DEF LimiterInv, Orderly
  <2>2. hits[k] = Recent(r, DOMAIN log[k])
    BY <2>1, <1>1 DEF Alone
  <2>3. Recent(r, DOMAIN log[k])' = Recent(r, DOMAIN log[k])
    BY <1>1, <1>3, <1>4 DEF Recent, Key
  <2>4. QED
    BY <1>1, <2>2, <2>3 DEF Full
<1> HIDE DEF q
<1>8. QED
  BY <1>1, <1>2, <1>3, <1>5, <1>6, <1>7, StageStep

LEMMA AdmitInv ==
    ASSUME LimiterInv, NEW r \in Requests, NEW k, k = Key(r), Admit(r)
    PROVE  LimiterInv'
<1> DEFINE q == [calls[r] EXCEPT !.at = "append"]
<1>1. /\ LimiterTypeOK
      /\ calls[r].at = "test"
      /\ ~Full(k)
      /\ calls' = [calls EXCEPT ![r] = q]
      /\ UNCHANGED <<now, hits, restarts, log, orderly>>
  BY DEF LimiterInv, Admit
<1>2. k \in Keys /\ calls[r] \in Call /\ Inside(r, k)
  BY <1>1, KeyType DEF Inside
<1>3. q \in Call /\ q.at = "append" /\ q.chain = calls[r].chain /\ q.stamp = calls[r].stamp
  BY <1>2 DEF Call, Stages
<1>4. calls'[r] = q
  BY <1>1 DEF LimiterTypeOK
<1>5. hits[k] \in SUBSET (DOMAIN log[k]) /\ hits' = [hits EXCEPT ![k] = hits[k]]
  BY <1>1, <1>2 DEF LimiterTypeOK
<1>6. Alone(r, k) => Alone(r, k)' /\ Forgotten(k, calls[r].stamp)'
  BY <1>1, <1>3, <1>4 DEF Alone, Forgotten, Recent, Key, Full
<1>7. Earned(r)'
  BY <1>3, <1>4 DEF Earned
<1> HIDE DEF q
<1>8. QED
  BY <1>1, <1>2, <1>3, <1>5, <1>6, <1>7, StageStep

\* Fewer than m entries of a growing sequence are younger than t - w: then the m-th from
\* the end is not, for otherwise all after it would be too.
LEMMA FewRecent ==
    ASSUME NEW n \in Nat, NEW f, \A i \in 1..n : f[i] \in Nat,
           \A i, j \in 1..n : i <= j => f[i] <= f[j],
           NEW m \in Nat \ {0}, NEW w \in Nat, NEW t \in Nat,
           NEW set, set = {i \in 1..n : f[i] > t - w}, ~(Cardinality(set) >= m),
           NEW i \in 1..n, i + m = n + 1
    PROVE  t - f[i] >= w
<1> SUFFICES ASSUME f[i] > t - w PROVE FALSE
  <2>1. f[i] \in Nat
    OBVIOUS
  <2>2. QED
    BY <2>1
<1>1. i..n \subseteq set
  <2> SUFFICES ASSUME NEW j \in i..n PROVE j \in 1..n /\ f[j] > t - w
    OBVIOUS
  <2>1. j \in 1..n /\ i <= j
    OBVIOUS
  <2>2. f[i] <= f[j] /\ f[i] \in Nat /\ f[j] \in Nat
    BY <2>1
  <2>3. QED
    BY <2>1, <2>2
<1>2. Cardinality(i..n) = m
  <2>1. i \in Int /\ n \in Int /\ ~(i > n) /\ n - i + 1 = m
    OBVIOUS
  <2>2. Cardinality(i..n) = IF i > n THEN 0 ELSE n - i + 1
    BY <2>1, FS_Interval
  <2>3. QED
    BY <2>1, <2>2
<1>3. IsFiniteSet(set)
  <2>1. IsFiniteSet(1..n)
    BY FS_Interval
  <2>2. set \subseteq 1..n
    OBVIOUS
  <2>3. QED
    BY <2>1, <2>2, FS_Subset
<1>4. Cardinality(i..n) <= Cardinality(set) /\ Cardinality(set) \in Nat
  BY <1>1, <1>3, FS_Subset, FS_CardinalityType
<1>5. QED
  BY <1>2, <1>4

\* The accepted call is far enough from the Max-th before it: otherwise that one and
\* all after it are in the list, which would be full.
LEMMA AppendInv ==
    ASSUME LimiterInv, NEW r \in Requests, NEW k, k = Key(r), AppendHit(r),
           NEW n, n = Len(log[k]), NEW t, t = calls[r].stamp
    PROVE  LimiterInv'
<1> DEFINE q == IF Tail(calls[r].chain) = <<>> THEN NoCall
                ELSE [at |-> "clock", chain |-> Tail(calls[r].chain), stamp |-> 0,
                      found |-> {}]
<1>1. /\ LimiterTypeOK
      /\ calls[r].at = "append"
      /\ calls' = [calls EXCEPT ![r] = q]
      /\ log' = [log EXCEPT ![k] = Append(@, t)]
      /\ hits' = [hits EXCEPT ![k] = @ \union {n + 1}]
      /\ UNCHANGED <<now, restarts, orderly>>
  BY DEF LimiterInv, AppendHit
<1>2. /\ k \in Keys /\ calls[r] \in Call /\ Inside(r, k)
      /\ calls[r].chain \in Seq(Keys) /\ calls[r].chain # <<>>
      /\ t \in Nat /\ Window[k] \in Nat \ {0} /\ Max[k] \in Nat \ {0}
      /\ EndOfTime \in Nat
  BY <1>1, KeyType, LimiterAssumption DEF Inside
<1>3. t \in 0..EndOfTime /\ t <= now /\ now \in Nat
  BY <1>1, <1>2 DEF Call, LimiterInv, LimiterTypeOK
<1>4. /\ log[k] \in Seq(0..EndOfTime) /\ n \in Nat /\ DOMAIN log[k] = 1..n
      /\ \A i \in DOMAIN log[k] : log[k][i] \in Nat
  BY <1>1, <1>2, LogType
<1>5. /\ log'[k] = Append(log[k], t) /\ log'[k] \in Seq(0..EndOfTime)
      /\ Len(log'[k]) = n + 1
      /\ DOMAIN log'[k] = 1..(n + 1)
      /\ \A i \in 1..n : log'[k][i] = log[k][i]
      /\ log'[k][n + 1] = t
      /\ \A l \in Keys : l # k => log'[l] = log[l]
  BY <1>1, <1>2, <1>3, <1>4 DEF LimiterTypeOK
<1>6. /\ hits'[k] = hits[k] \union {n + 1} /\ hits[k] \subseteq 1..n
      /\ \A l \in Keys : l # k => hits'[l] = hits[l]
  BY <1>1, <1>2, <1>4 DEF LimiterTypeOK
<1>7. q \in Call /\ q.at \in {"idle", "clock"} /\ (q.at # "idle" => q.chain # <<>>)
        /\ q.stamp = 0
  BY <1>2 DEF Call, Stages, NoCall
<1> HIDE DEF q
<1>8. calls'[r] = q /\ \A o \in Requests : o # r => calls'[o] = calls[o]
  BY <1>1 DEF LimiterTypeOK
<1>9. LimiterTypeOK'
  <2>1. calls' \in [Requests -> Call]
    BY <1>1, <1>7 DEF LimiterTypeOK
  <2>2. \A o \in Requests : calls'[o].at # "idle" => calls'[o].chain # <<>>
    BY <1>1, <1>7, <1>8 DEF LimiterTypeOK
  <2>3. log' \in [Keys -> Seq(0..EndOfTime)]
    BY <1>1, <1>2, <1>3 DEF LimiterTypeOK
  <2>4. hits' \in [Keys -> SUBSET (Nat \ {0})]
    BY <1>1, <1>2, <1>4 DEF LimiterTypeOK
  <2>5. \A l \in Keys : hits'[l] \subseteq DOMAIN log'[l]
    BY <1>1, <1>2, <1>4, <1>5, <1>6 DEF LimiterTypeOK
  <2>6. QED
    BY <2>1, <2>2, <2>3, <2>4, <2>5, <1>1 DEF LimiterTypeOK
<1>10. ASSUME Orderly(k) PROVE Orderly(k)'
  <2>1. \A o \in Requests : ~Inside(o, k)'
    BY <1>2, <1>7, <1>8, <1>10 DEF Orderly, Inside, Key
  <2>2. /\ Alone(r, k)
        /\ \A i \in 1..n : log[k][i] <= t
        /\ hits[k] = Recent(r, 1..n)
        /\ ~Full(k)
    BY <1>1, <1>2, <1>4, <1>10 DEF Orderly, Alone
  <2>3. \A i \in DOMAIN log'[k] : log'[k][i] <= now'
    BY <1>1, <1>3, <1>4, <1>5, <1>10 DEF Orderly
  <2>4. Forgotten(k, now)'
    BY <1>1, <1>4, <1>5, <1>6, <1>10 DEF Orderly, Forgotten
  <2>5. /\ \A i, j \in 1..(n + 1) : i <= j => log'[k][i] <= log'[k][j]
        /\ \A i \in 1..(n + 1) : i + Max[k] \in 1..(n + 1) =>
                log'[k][i + Max[k]] - log'[k][i] >= Window[k]
    <3> DEFINE f == log[k]
               g == log'[k]
    <3>1. /\ \A i, j \in 1..n : i <= j => f[i] <= f[j]
          /\ \A i \in 1..n : i + Max[k] \in 1..n => f[i + Max[k]] - f[i] >= Window[k]
      BY <1>4, <1>10 DEF Orderly, Monotone
    <3>2. hits[k] = {j \in 1..n : f[j] > t - Window[k]}
      BY <2>2 DEF Recent
    <3>3. ~(Cardinality(hits[k]) >= Max[k])
      BY <2>2 DEF Full
    <3>4. \A i \in 1..n : f[i] \in Nat /\ f[i] <= t
      BY <1>4, <2>2
    <3>5. n \in Nat /\ Max[k] \in Nat \ {0} /\ Window[k] \in Nat /\ t \in Nat
      BY <1>2, <1>4
    <3>6. (\A i \in 1..n : g[i] = f[i]) /\ g[n + 1] = t
      BY <1>5
    <3> HIDE DEF f, g
    <3>7. ASSUME NEW i \in 1..n, i + Max[k] = n + 1 PROVE t - f[i] >= Window[k]
      BY <3>1, <3>2, <3>3, <3>4, <3>5, <3>7, FewRecent
    <3>8. ASSUME NEW i \in 1..(n + 1), NEW j \in 1..(n + 1), i <= j
          PROVE  g[i] <= g[j]
      <4>1. CASE j \in 1..n
        <5>1. i \in 1..n /\ f[i] <= f[j]
          BY <4>1, <3>1, <3>5, <3>8
        <5>2. QED
          BY <5>1, <4>1, <3>6
      <4>2. CASE j = n + 1 /\ i \in 1..n
        BY <4>2, <3>4, <3>6
      <4>3. CASE j = n + 1 /\ i = n + 1
        BY <4>3, <3>5, <3>6
      <4>4. QED
        BY <4>1, <4>2, <4>3, <3>5
    <3>9. ASSUME NEW i \in 1..(n + 1), i + Max[k] \in 1..(n + 1)
          PROVE  g[i + Max[k]] - g[i] >= Window[k]
      <4>1. i \in 1..n /\ (i + Max[k] \in 1..n \/ i + Max[k] = n + 1)
        BY <3>5, <3>9
      <4>2. CASE i + Max[k] \in 1..n
        BY <4>1, <4>2, <3>1, <3>6
      <4>3. CASE i + Max[k] = n + 1
        BY <4>1, <4>3, <3>6, <3>7
      <4>4. QED
        BY <4>1, <4>2, <4>3
    <3>10. QED
      BY <3>8, <3>9 DEF g
  <2>7. QED
    BY <2>1, <2>3, <2>4, <2>5, <1>5 DEF Orderly, Monotone
<1>11. \E s \in Seq(0..EndOfTime) : log'[k] = log[k] \o s
  <2>1. <<t>> \in Seq(0..EndOfTime) /\ log'[k] = log[k] \o <<t>>
    BY <1>3, <1>4, <1>5
  <2>2. QED
    BY <2>1
<1>12. Held(r)' /\ Earned(r)' /\ calls'[r].stamp <= now
  BY <1>3, <1>7, <1>8 DEF Held, Earned
<1>13. calls[r].at # "idle" /\ now' = now /\ orderly' = orderly
  BY <1>1
<1>14. \A l : Inside(r, l)' => l = k
  BY <1>7, <1>8 DEF Inside
<1>15. (orderly[k] /\ Orderly(k)) => Orderly(k)'
  BY <1>10
<1>16. \A l \in Keys : l # k => hits'[l] = hits[l]
  BY <1>6
<1>17. \A l \in Keys : l # k => log'[l] = log[l]
  BY <1>5
<1>18. QED
  BY <1>8, <1>9, <1>11, <1>12, <1>13, <1>14, <1>15, <1>16, <1>17, CallStep

LEMMA AnswerInv ==
    ASSUME LimiterInv, NEW r \in Requests, Answer429(r)
    PROVE  LimiterInv'
<1>1. /\ LimiterTypeOK
      /\ calls[r].at = "refused"
      /\ calls' = [calls EXCEPT ![r] = NoCall]
      /\ UNCHANGED <<now, hits, restarts, log, orderly>>
      /\ Key(r) \in Keys /\ EndOfTime \in Nat /\ now \in Nat
  BY KeyType, LimiterAssumption DEF LimiterInv, Answer429, LimiterTypeOK
<1>2. NoCall \in Call
  BY <1>1 DEF NoCall, Call, Stages
<1>3. calls'[r] = NoCall /\ \A o \in Requests : o # r => calls'[o] = calls[o]
  BY <1>1 DEF LimiterTypeOK
<1>4. LimiterTypeOK'
  <2>1. calls' \in [Requests -> Call]
    BY <1>1, <1>2 DEF LimiterTypeOK
  <2>2. \A o \in Requests : calls'[o].at # "idle" => calls'[o].chain # <<>>
    BY <1>1, <1>3 DEF LimiterTypeOK, NoCall
  <2>3. QED
    BY <2>1, <2>2, <1>1 DEF LimiterTypeOK
<1>5. ASSUME NEW l \in Keys, orderly'[l] PROVE Orderly(l)'
  <2>1. Orderly(l)
    BY <1>1, <1>5 DEF LimiterInv
  <2>2. \A o \in Requests : Inside(o, l)' => Inside(o, l) /\ calls'[o] = calls[o]
    BY <1>3 DEF Inside, Key, NoCall
  <2>3. QED
    BY <2>1, <2>2, <1>1, Frame
<1>6. \A l \in Keys : \E s \in Seq(0..EndOfTime) : log'[l] = log[l] \o s
  BY <1>1, NoAppend
<1>7. ASSUME NEW o \in Requests PROVE Earned(o)' /\ Held(o)' /\ calls'[o].stamp <= now'
  <2>1. CASE o = r
    BY <2>1, <1>1, <1>3 DEF Earned, Held, NoCall
  <2>2. CASE o # r
    BY <2>2, <1>1, <1>3, <1>4, <1>6, FrameEarned DEF LimiterInv, Held, Key
  <2>3. QED
    BY <2>1, <2>2
<1>8. QED
  BY <1>4, <1>5, <1>7 DEF LimiterInv

\* Both the first start and every later one.
LEMMA FreshInv ==
    ASSUME NEW clock \in 0..EndOfTime, NEW count \in 0..MaxRestarts,
           now' = clock, restarts' = count,
           hits' = [k \in Keys |-> {}],
           log' = [k \in Keys |-> <<>>],
           orderly' = [k \in Keys |-> TRUE],
           calls' = [r \in Requests |-> NoCall]
    PROVE  LimiterInv'
<1>1. EndOfTime \in Nat
  BY LimiterAssumption
<1>2. NoCall \in Call /\ NoCall.at = "idle" /\ NoCall.stamp = 0
  BY <1>1 DEF NoCall, Call, Stages
<1>3. LimiterTypeOK'
  <2>1. calls' \in [Requests -> Call] /\ \A r \in Requests : calls'[r].at = "idle"
    BY <1>2
  <2>2. log' \in [Keys -> Seq(0..EndOfTime)]
    OBVIOUS
  <2>3. hits' \in [Keys -> SUBSET (Nat \ {0})] /\ \A k \in Keys : hits'[k] \subseteq DOMAIN log'[k]
    OBVIOUS
  <2>4. orderly' \in [Keys -> BOOLEAN]
    BY Zenon
  <2>5. QED
    BY <2>1, <2>2, <2>3, <2>4 DEF LimiterTypeOK
<1>4. ASSUME NEW k \in Keys PROVE Orderly(k)'
  <2>1. \A r \in Requests : ~Inside(r, k)'
    BY <1>2 DEF Inside
  <2>2. DOMAIN log'[k] = {}
    OBVIOUS
  <2>3. QED
    BY <2>1, <2>2 DEF Orderly, Forgotten, Monotone
<1>5. \A r \in Requests : Earned(r)' /\ Held(r)' /\ calls'[r].stamp <= now'
  BY <1>1, <1>2 DEF Earned, Held
<1>6. QED
  BY <1>3, <1>4, <1>5 DEF LimiterInv

LEMMA TickInv ==
    ASSUME LimiterInv, ClockTicks
    PROVE  LimiterInv'
<1>1. /\ LimiterTypeOK
      /\ now' = now + 1 /\ now < EndOfTime
      /\ UNCHANGED <<hits, calls, restarts, log, orderly>>
      /\ EndOfTime \in Nat /\ now \in Nat
  BY LimiterAssumption DEF LimiterInv, ClockTicks, LimiterTypeOK
<1>2. LimiterTypeOK'
  BY <1>1 DEF LimiterTypeOK
<1>3. ASSUME NEW k \in Keys, orderly'[k] PROVE Orderly(k)'
  <2>1. Orderly(k) /\ Window[k] \in Nat
    BY <1>1, <1>3, LimiterAssumption DEF LimiterInv
  <2>2. \A i \in DOMAIN log[k] : log[k][i] \in Nat
    BY <1>1, LogType
  <2>3. Forgotten(k, now)' /\ \A i \in DOMAIN log'[k] : log'[k][i] <= now'
    BY <1>1, <2>1, <2>2 DEF Orderly, Forgotten
  <2>4. \A r \in Requests : Inside(r, k)' => Inside(r, k) /\ Alone(r, k)'
    BY <1>1, <2>1 DEF Orderly, Inside, Key, Alone, Forgotten, Recent, Full
  <2>5. QED
    BY <1>1, <2>1, <2>3, <2>4 DEF Orderly, Monotone
<1>4. ASSUME NEW r \in Requests PROVE Earned(r)' /\ Held(r)' /\ calls'[r].stamp <= now'
  <2>1. calls[r].stamp \in Nat /\ calls[r].stamp <= now /\ Held(r) /\ Earned(r)
    BY <1>1 DEF LimiterInv, LimiterTypeOK, Call
  <2>2. Recent(r, DOMAIN log[Key(r)])' = Recent(r, DOMAIN log[Key(r)])
    BY <1>1 DEF Recent, Key
  <2>3. QED
    BY <1>1, <2>1, <2>2 DEF Earned, Held, Key
<1>5. QED
  BY <1>2, <1>3, <1>4 DEF LimiterInv

-----------------------------------------------------------------------------
(* The theorems. *)

LEMMA LimiterInitInv == LimiterInit => LimiterInv
<1> SUFFICES ASSUME LimiterInit PROVE LimiterInv
  OBVIOUS
<1>1. EndOfTime \in Nat /\ MaxRestarts \in Nat
  BY LimiterAssumption
<1>2. NoCall \in Call /\ NoCall.at = "idle" /\ NoCall.stamp = 0
  BY <1>1 DEF NoCall, Call, Stages
<1>3. LimiterTypeOK
  <2>1. calls \in [Requests -> Call] /\ \A r \in Requests : calls[r].at = "idle"
    BY <1>2 DEF LimiterInit
  <2>2. log \in [Keys -> Seq(0..EndOfTime)]
    BY DEF LimiterInit
  <2>3. hits \in [Keys -> SUBSET (Nat \ {0})] /\ \A k \in Keys : hits[k] \subseteq DOMAIN log[k]
    BY DEF LimiterInit
  <2>4. orderly \in [Keys -> BOOLEAN]
    BY Zenon DEF LimiterInit
  <2>5. now \in 0..EndOfTime /\ restarts \in 0..MaxRestarts
    BY <1>1 DEF LimiterInit
  <2>6. QED
    BY <2>1, <2>2, <2>3, <2>4, <2>5 DEF LimiterTypeOK
<1>4. ASSUME NEW k \in Keys PROVE Orderly(k)
  <2>1. \A r \in Requests : ~Inside(r, k)
    BY <1>2 DEF Inside, LimiterInit
  <2>2. DOMAIN log[k] = {}
    BY DEF LimiterInit
  <2>3. QED
    BY <2>1, <2>2 DEF Orderly, Forgotten, Monotone
<1>5. \A r \in Requests : Earned(r) /\ Held(r) /\ calls[r].stamp <= now
  BY <1>1, <1>2 DEF Earned, Held, LimiterInit
<1>6. QED
  BY <1>3, <1>4, <1>5 DEF LimiterInv

LEMMA LimiterNextInv == LimiterInv /\ [LimiterNext]_limiterVars => LimiterInv'
<1> SUFFICES ASSUME LimiterInv, [LimiterNext]_limiterVars PROVE LimiterInv'
  OBVIOUS
<1>1. ASSUME NEW r \in Requests, NEW chain \in Chains, Arrive(r, chain)
      PROVE  LimiterInv'
  BY <1>1, EnterInv, LimiterAssumption DEF Arrive
<1>2. ASSUME NEW r \in Requests, Record(r)
      PROVE  LimiterInv'
  <2>1. CASE NextBucket(r)
    <3>1. calls[r].at = "clock" /\ Enter(r, calls[r].chain)
      BY <2>1 DEF NextBucket
    <3>2. calls[r].chain \in Seq(Keys) /\ calls[r].chain # <<>>
      BY <3>1, KeyType DEF LimiterInv
    <3>3. QED
      BY <3>1, <3>2, EnterInv
  <2>2. CASE Filter(r)
    BY <2>2, FilterInv
  <2>3. CASE Store(r)
    BY <2>3, StoreInv
  <2>4. CASE Refuse(r)
    BY <2>4, RefuseInv
  <2>5. CASE Admit(r)
    BY <2>5, AdmitInv
  <2>6. CASE AppendHit(r)
    BY <2>6, AppendInv
  <2>7. CASE Answer429(r)
    BY <2>7, AnswerInv
  <2>8. QED
    BY <1>2, <2>1, <2>2, <2>3, <2>4, <2>5, <2>6, <2>7 DEF Record
<1>3. CASE RestartLimiter
  <2>1. now' \in 0..EndOfTime /\ restarts' \in 0..MaxRestarts
    BY <1>3, LimiterAssumption DEF RestartLimiter, LimiterInv, LimiterTypeOK
  <2>2. QED
    BY <2>1, <1>3, FreshInv DEF RestartLimiter
<1>4. CASE ClockTicks
  BY <1>4, TickInv
<1>5. CASE UNCHANGED limiterVars
  BY <1>5 DEF limiterVars, LimiterInv, LimiterTypeOK, Orderly, Alone, Forgotten, Monotone,
              Earned, Held, Recent, Full, Inside, Key
<1>6. QED
  BY <1>1, <1>2, <1>3, <1>4, <1>5 DEF LimiterNext

\* The inductive invariant holds in every state.
LEMMA LimiterInvariant == LimiterSpec => []LimiterInv
<1>1. LimiterInit => LimiterInv
  BY LimiterInitInv
<1>2. LimiterInv /\ [LimiterNext]_limiterVars => LimiterInv'
  BY LimiterNextInv
<1>3. QED
  BY <1>1, <1>2, PTL DEF LimiterSpec

\* The lists, the calls under way and the observers keep their shape; in particular a
\* bucket never holds an entry it did not accept.
THEOREM LimiterTypeCorrect == LimiterSpec => []LimiterTypeOK
<1>1. LimiterInv => LimiterTypeOK
  BY DEF LimiterInv
<1>2. QED
  BY <1>1, LimiterInvariant, PTL

\* Calls that do not overlap are bounded by Max in every window of _record, whatever the
\* limits, the buckets a dependency checks and the restarts.
THEOREM WindowIsBounded == LimiterSpec => []WindowBound
<1>1. LimiterInv => WindowBound
  BY DEF LimiterInv, Orderly, WindowBound
<1>2. QED
  BY <1>1, LimiterInvariant, PTL

\* A 429 always stands for Max accepted calls of the window, under the same proviso.
THEOREM RefusalsEarned == LimiterSpec => []RefusalsAreEarned
<1>1. LimiterInv => RefusalsAreEarned
  BY DEF LimiterInv, Earned, RefusalsAreEarned
<1>2. QED
  BY <1>1, LimiterInvariant, PTL

-----------------------------------------------------------------------------
(* Plan quotas. *)

USE QuotaAssumption, MonitorRowAssumption

-----------------------------------------------------------------------------
(* Types. *)

\* A stage is entered with a user; the rest of a request's state has its type anyway.
LEMMA AskTypes ==
    ASSUME QuotaTypeOK, NEW r \in QuotaRequests
    PROVE  /\ asks[r] \in Ask
           /\ asks[r].at \in AskStages /\ asks[r].plan \in Plans
           /\ asks[r].interval \in Intervals /\ asks[r].edits \in BOOLEAN
           /\ asks[r].user \in Owners \union {Nobody}
           /\ asks[r].monitor \in MonitorIds \union {NoMonitor}
           /\ asks[r].at \notin {"idle", "commit"} => asks[r].user \in Owners
BY DEF QuotaTypeOK, Ask

LEMMA NoAskType == NoAsk \in Ask /\ NoAsk.at = "idle"
BY DEF NoAsk, Ask, AskStages, Intervals

\* Moving a request to another stage keeps its type.
LEMMA GoesToType ==
    ASSUME QuotaTypeOK, NEW r \in QuotaRequests, NEW stage \in AskStages, GoesTo(r, stage),
           stage \in {"idle", "commit"} \/ asks[r].user \in Owners
    PROVE  /\ asks' \in [QuotaRequests -> Ask]
           /\ \A q \in QuotaRequests : asks'[q].at \notin {"idle", "commit"} =>
                asks'[q].user \in Owners
BY DEF QuotaTypeOK, GoesTo, Ask

LEMMA EndsType ==
    ASSUME QuotaTypeOK, NEW r \in QuotaRequests, Ends(r) \/ Executed(r)
    PROVE  /\ asks' \in [QuotaRequests -> Ask]
           /\ \A q \in QuotaRequests : asks'[q].at \notin {"idle", "commit"} =>
                asks'[q].user \in Owners
<1> DEFINE over == [NoAsk EXCEPT !.at = "commit"]
<1>1. over \in Ask /\ over.at = "commit"
    BY NoAskType DEF Ask, AskStages
<1>2. asks' = [asks EXCEPT ![r] = NoAsk] \/ asks' = [asks EXCEPT ![r] = over]
    BY DEF Ends, Executed
<1> HIDE DEF over
<1> QED BY <1>1, <1>2, NoAskType DEF QuotaTypeOK

LEMMA FreshIdIsFresh ==
    ASSUME drawn \subseteq MonitorIds, drawn # MonitorIds
    PROVE  FreshId \in MonitorIds \ drawn
<1>1. \E m \in MonitorIds : m \notin drawn
    OBVIOUS
<1>2. FreshId \in MonitorIds /\ FreshId \notin drawn
    BY <1>1, Zenon DEF FreshId
<1> QED BY <1>2

LEMMA AuthenticateType ==
    ASSUME QuotaTypeOK, NEW r \in QuotaRequests, NEW u \in Owners, NEW ask \in Ask,
           Authenticate(r, u, ask)
    PROVE  QuotaTypeOK'
<1>1. PICK plan \in base.users[u] :
        asks' = [asks EXCEPT ![r] = [ask EXCEPT !.user = u, !.plan = plan]]
    BY DEF Authenticate
<1>2. plan \in Plans
    BY DEF QuotaTypeOK, Base
<1>3. [ask EXCEPT !.user = u, !.plan = plan] \in Ask
      /\ [ask EXCEPT !.user = u, !.plan = plan].user = u
    BY <1>2 DEF Ask
<1>4. asks' \in [QuotaRequests -> Ask]
      /\ \A q \in QuotaRequests : asks'[q].at \notin {"idle", "commit"} => asks'[q].user \in Owners
    BY <1>1, <1>3 DEF QuotaTypeOK
<1> QED BY <1>4 DEF QuotaTypeOK, Authenticate

LEMMA QuotaTypeInit == QuotaInit => QuotaTypeOK
BY NoAskType DEF QuotaInit, QuotaTypeOK, Base, NoAsk

LEMMA QuotaTypeNext == QuotaTypeOK /\ [QuotaNext]_quotaVars => QuotaTypeOK'
<1> SUFFICES ASSUME QuotaTypeOK, [QuotaNext]_quotaVars PROVE QuotaTypeOK'
    OBVIOUS
<1>1. ASSUME NEW r \in QuotaRequests, Asks(r) PROVE QuotaTypeOK'
    <2>1. ASSUME NEW u \in Owners, NEW i \in Intervals, AskCreate(r, u, i) PROVE QuotaTypeOK'
        <3>1. [NoAsk EXCEPT !.at = "count", !.interval = i] \in Ask
            BY NoAskType DEF Ask, AskStages
        <3> QED BY <2>1, <3>1, AuthenticateType DEF AskCreate
    <2>2. ASSUME NEW u \in Owners, NEW i \in Intervals, NEW m \in MonitorIds, AskEdit(r, u, m, i)
          PROVE  QuotaTypeOK'
        <3>1. [NoAsk EXCEPT !.at = "find", !.interval = i, !.monitor = m, !.edits = TRUE] \in Ask
            BY NoAskType DEF Ask, AskStages
        <3> QED BY <2>2, <3>1, AuthenticateType DEF AskEdit
    <2>3. ASSUME NEW u \in Owners, NEW m \in MonitorIds, AskDelete(r, u, m) PROVE QuotaTypeOK'
        <3>1. [NoAsk EXCEPT !.at = "find", !.monitor = m] \in Ask
            BY NoAskType DEF Ask, AskStages
        <3> QED BY <2>3, <3>1, AuthenticateType DEF AskDelete
    <2> QED BY <1>1, <2>1, <2>2, <2>3 DEF Asks
<1>2. ASSUME NEW r \in QuotaRequests, CountMonitors(r) PROVE QuotaTypeOK'
    <2>1. asks[r].user \in Owners
        BY <1>2, AskTypes DEF CountMonitors
    <2>2. GoesTo(r, "insert") \/ Ends(r)
        BY <1>2 DEF CountMonitors
    <2>3. "insert" \in AskStages
        BY DEF AskStages
    <2> QED BY <1>2, <2>1, <2>2, <2>3, GoesToType, EndsType DEF CountMonitors, QuotaTypeOK
<1>3. ASSUME NEW r \in QuotaRequests, InsertMonitor(r) PROVE QuotaTypeOK'
    <2>1. FreshId \in MonitorIds
        BY <1>3, FreshIdIsFresh DEF InsertMonitor, QuotaTypeOK
    <2>2. Executed(r) \/ Ends(r)
        BY <1>3 DEF InsertMonitor
    <2>3. [owner |-> asks[r].user, interval |-> asks[r].interval] \in MonitorRow
        BY <1>3, AskTypes DEF InsertMonitor, MonitorRow
    <2>4. base' \in Base
        BY <1>3, <2>1, <2>3 DEF InsertMonitor, QuotaTypeOK, Base
    <2> QED BY <1>3, <2>1, <2>2, <2>4, EndsType DEF InsertMonitor, QuotaTypeOK
<1>4. ASSUME NEW r \in QuotaRequests, FindMonitor(r) PROVE QuotaTypeOK'
    <2>1. asks[r].user \in Owners
        BY <1>4, AskTypes DEF FindMonitor
    <2>2. GoesTo(r, "update") \/ GoesTo(r, "remove") \/ Ends(r)
        BY <1>4 DEF FindMonitor
    <2>3. "update" \in AskStages /\ "remove" \in AskStages
        BY DEF AskStages
    <2> QED BY <1>4, <2>1, <2>2, <2>3, GoesToType, EndsType DEF FindMonitor, QuotaTypeOK
<1>5. ASSUME NEW r \in QuotaRequests, UpdateMonitor(r) PROVE QuotaTypeOK'
    <2>1. base' \in Base
        <3>1. asks[r].interval \in Intervals
            BY AskTypes
        <3> QED BY <1>5, <3>1 DEF UpdateMonitor, Exists, QuotaTypeOK, Base, MonitorRow
    <2> QED BY <1>5, <2>1, EndsType DEF UpdateMonitor, QuotaTypeOK
<1>6. ASSUME NEW r \in QuotaRequests, RemoveMonitor(r) PROVE QuotaTypeOK'
    <2>1. base' \in Base
        BY <1>6 DEF RemoveMonitor, QuotaTypeOK, Base
    <2> QED BY <1>6, <2>1, EndsType DEF RemoveMonitor, QuotaTypeOK
<1>7. ASSUME NEW r \in QuotaRequests, CommitMonitor(r) PROVE QuotaTypeOK'
    BY <1>7, EndsType DEF CommitMonitor, QuotaTypeOK
<1>8. ASSUME NEW r \in QuotaRequests, AskFails(r) PROVE QuotaTypeOK'
    BY <1>8, EndsType DEF AskFails, Event, QuotaTypeOK
<1>9. ASSUME NEW u \in Owners, NEW p \in Plans, ChangePlan(u, p) PROVE QuotaTypeOK'
    BY <1>9 DEF ChangePlan, Event, QuotaTypeOK, Base
<1>10. ASSUME NEW u \in Owners, RemoveOwner(u) PROVE QuotaTypeOK'
    BY <1>10 DEF RemoveOwner, Event, QuotaTypeOK, Base
<1>11. ASSUME CommitElsewhere PROVE QuotaTypeOK'
    BY <1>11 DEF CommitElsewhere, QuotaTypeOK
<1>12. ASSUME ProcessDies PROVE QuotaTypeOK'
    BY <1>12, NoAskType DEF ProcessDies, Event, QuotaTypeOK
<1>13. ASSUME UNCHANGED quotaVars PROVE QuotaTypeOK'
    BY <1>13 DEF quotaVars, QuotaTypeOK
<1> QED
    BY <1>1, <1>2, <1>3, <1>4, <1>5, <1>6, <1>7, <1>8, <1>9, <1>10, <1>11, <1>12, <1>13
    DEF QuotaNext

\* Tables, requests and ids keep their types, and a request past authentication has a user.
THEOREM QuotaTypeCorrect == QuotaSpec => []QuotaTypeOK
BY QuotaTypeInit, QuotaTypeNext, PTL DEF QuotaSpec

-----------------------------------------------------------------------------
(* Intervals. *)

\* A request's plan is one its user has had, and past the check it allows the interval;
\* what an edit is about to update is the user's monitor, or gone for good: a monitor that
\* exists was drawn, and ids are drawn once.
PlansWereHeld ==
    /\ \A u \in Owners : base.users[u] \subseteq held[u] /\ saved.users[u] \subseteq held[u]
    /\ \A r \in QuotaRequests :
        asks[r].at \notin {"idle", "commit"} => asks[r].plan \in held[asks[r].user]

ChecksStand ==
    \A r \in QuotaRequests :
        /\ asks[r].at \in {"insert", "update"} => MinInterval[asks[r].plan] <= asks[r].interval
        /\ asks[r].at \in {"find", "update"} => asks[r].monitor \in drawn
        /\ asks[r].at = "update" => LET row == base.monitors[asks[r].monitor] IN
            row = NoMonitor \/ row.owner = asks[r].user

RowsWereDrawn ==
    \A m \in MonitorIds \ drawn : base.monitors[m] = NoMonitor /\ saved.monitors[m] = NoMonitor

FloorInv == QuotaTypeOK /\ PlansWereHeld /\ ChecksStand /\ RowsWereDrawn /\ FloorHeld

LEMMA FloorInvInit == QuotaInit => FloorInv
<1> SUFFICES ASSUME QuotaInit PROVE FloorInv
    OBVIOUS
<1>1. PICK plan \in [Owners -> Plans] :
        /\ base = [users |-> [u \in Owners |-> {plan[u]}],
                   monitors |-> [m \in MonitorIds |-> NoMonitor]]
        /\ held = [u \in Owners |-> {plan[u]}]
    BY DEF QuotaInit
<1>2. saved = base /\ \A r \in QuotaRequests : asks[r].at = "idle"
    BY DEF QuotaInit, NoAsk
<1>3. PlansWereHeld
    BY <1>1, <1>2 DEF PlansWereHeld
<1>4. ChecksStand
    BY <1>2 DEF ChecksStand
<1>5. RowsWereDrawn /\ FloorHeld
    BY <1>1, <1>2 DEF RowsWereDrawn, FloorHeld
<1> QED BY <1>3, <1>4, <1>5, QuotaTypeInit DEF FloorInv

\* Nothing of a request that ends, or only has to commit, is relied upon any more.
LEMMA EndsKeepsFloor ==
    ASSUME FloorInv, QuotaTypeOK', NEW r \in QuotaRequests, Ends(r) \/ Executed(r),
           UNCHANGED <<held, drawn>>, base' = base, saved' \in {base, saved}
    PROVE  FloorInv'
<1>1. asks'[r].at \in {"idle", "commit"}
      /\ \A q \in QuotaRequests \ {r} : asks'[q] = asks[q]
    BY DEF Ends, Executed, NoAsk, FloorInv, QuotaTypeOK, Ask
<1>2. PlansWereHeld'
    BY <1>1 DEF FloorInv, PlansWereHeld
<1>3. ChecksStand'
    BY <1>1 DEF FloorInv, ChecksStand
<1>4. RowsWereDrawn'
    BY DEF FloorInv, RowsWereDrawn
<1>5. FloorHeld'
    BY DEF FloorInv, FloorHeld
<1> QED BY <1>2, <1>3, <1>4, <1>5 DEF FloorInv

LEMMA AuthenticateKeepsFloor ==
    ASSUME FloorInv, QuotaTypeOK', NEW r \in QuotaRequests, NEW u \in Owners, NEW ask \in Ask,
           Authenticate(r, u, ask), ask.at \in {"count", "find"},
           ask.at = "find" => ask.monitor \in drawn
    PROVE  FloorInv'
<1>1. PICK plan \in base.users[u] :
        asks' = [asks EXCEPT ![r] = [ask EXCEPT !.user = u, !.plan = plan]]
    BY DEF Authenticate
<1>2. /\ asks'[r].at = ask.at /\ asks'[r].monitor = ask.monitor
      /\ asks'[r].user = u /\ asks'[r].plan = plan
      /\ \A q \in QuotaRequests \ {r} : asks'[q] = asks[q]
    BY <1>1 DEF FloorInv, QuotaTypeOK, Ask
<1>3. UNCHANGED <<base, drawn, held>> /\ saved' = base
    BY DEF Authenticate
<1>4. plan \in held[u]
    BY DEF FloorInv, PlansWereHeld
<1>5. PlansWereHeld'
    BY <1>2, <1>3, <1>4 DEF FloorInv, PlansWereHeld
<1>6. ChecksStand'
    BY <1>2, <1>3 DEF FloorInv, ChecksStand
<1>7. RowsWereDrawn' /\ FloorHeld'
    BY <1>3 DEF FloorInv, RowsWereDrawn, FloorHeld
<1> QED BY <1>5, <1>6, <1>7 DEF FloorInv

\* Deleting monitors and users relies on nothing, and takes nothing relied upon away.
LEMMA FewerRowsKeepFloor ==
    ASSUME FloorInv, QuotaTypeOK', UNCHANGED <<saved, drawn, held>>,
           \A r \in QuotaRequests : asks'[r] = asks[r] \/ asks'[r].at \in {"idle", "commit"},
           \A v \in Owners : base'.users[v] \subseteq base.users[v],
           \A m \in MonitorIds : base'.monitors[m] \in {base.monitors[m], NoMonitor}
    PROVE  FloorInv'
<1>1. PlansWereHeld'
    BY DEF FloorInv, PlansWereHeld
<1>2. ChecksStand'
    <2>1. \A r \in QuotaRequests : asks[r].at = "update" => asks[r].monitor \in MonitorIds
        BY DEF FloorInv, ChecksStand, QuotaTypeOK
    <2> QED BY <2>1 DEF FloorInv, ChecksStand
<1>3. RowsWereDrawn' /\ FloorHeld'
    BY DEF FloorInv, RowsWereDrawn, FloorHeld
<1> QED BY <1>1, <1>2, <1>3 DEF FloorInv

LEMMA FloorInvNext == FloorInv /\ [QuotaNext]_quotaVars => FloorInv'
<1> SUFFICES ASSUME FloorInv, [QuotaNext]_quotaVars PROVE FloorInv'
    OBVIOUS
<1>t. QuotaTypeOK /\ QuotaTypeOK'
    BY QuotaTypeNext DEF FloorInv
<1>1. ASSUME NEW r \in QuotaRequests, Asks(r) PROVE FloorInv'
    <2>1. ASSUME NEW u \in Owners, NEW i \in Intervals, AskCreate(r, u, i) PROVE FloorInv'
        <3> DEFINE ask == [NoAsk EXCEPT !.at = "count", !.interval = i]
        <3>1. ask \in Ask /\ ask.at = "count"
            BY NoAskType DEF Ask, AskStages
        <3>2. Authenticate(r, u, ask)
            BY <2>1 DEF AskCreate
        <3> HIDE DEF ask
        <3> QED BY <1>t, <3>1, <3>2, AuthenticateKeepsFloor
    <2>2. ASSUME NEW u \in Owners, NEW i \in Intervals, NEW m \in MonitorIds, AskEdit(r, u, m, i)
          PROVE  FloorInv'
        <3> DEFINE ask == [NoAsk EXCEPT !.at = "find", !.interval = i, !.monitor = m, !.edits = TRUE]
        <3>1. ask \in Ask /\ ask.at = "find" /\ ask.monitor = m
            BY NoAskType DEF Ask, AskStages
        <3>2. Authenticate(r, u, ask) /\ m \in drawn
            BY <2>2 DEF AskEdit
        <3> HIDE DEF ask
        <3> QED BY <1>t, <3>1, <3>2, AuthenticateKeepsFloor
    <2>3. ASSUME NEW u \in Owners, NEW m \in MonitorIds, AskDelete(r, u, m) PROVE FloorInv'
        <3> DEFINE ask == [NoAsk EXCEPT !.at = "find", !.monitor = m]
        <3>1. ask \in Ask /\ ask.at = "find" /\ ask.monitor = m
            BY NoAskType DEF Ask, AskStages
        <3>2. Authenticate(r, u, ask) /\ m \in drawn
            BY <2>3 DEF AskDelete
        <3> HIDE DEF ask
        <3> QED BY <1>t, <3>1, <3>2, AuthenticateKeepsFloor
    <2> QED BY <1>1, <2>1, <2>2, <2>3 DEF Asks
<1>2. ASSUME NEW r \in QuotaRequests, CountMonitors(r) PROVE FloorInv'
    <2>0. UNCHANGED <<base, saved, drawn, held>>
        BY <1>2 DEF CountMonitors
    <2>1. CASE Ends(r)
        BY <1>t, <2>0, <2>1, EndsKeepsFloor
    <2>2. CASE GoesTo(r, "insert") /\ IntervalAllowed(asks[r])
        <3>1. /\ asks'[r].at = "insert" /\ asks'[r].user = asks[r].user
              /\ asks'[r].plan = asks[r].plan /\ asks'[r].interval = asks[r].interval
              /\ \A q \in QuotaRequests \ {r} : asks'[q] = asks[q]
            BY <1>t, <2>2 DEF GoesTo, QuotaTypeOK, Ask
        <3>2. MinInterval[asks[r].plan] <= asks[r].interval
            BY <1>t, <2>2, AskTypes DEF IntervalAllowed, Intervals
        <3>3. asks[r].plan \in held[asks[r].user]
            BY <1>2 DEF CountMonitors, FloorInv, PlansWereHeld
        <3>4. PlansWereHeld'
            BY <2>0, <3>1, <3>3 DEF FloorInv, PlansWereHeld
        <3>5. ChecksStand'
            BY <2>0, <3>1, <3>2 DEF FloorInv, ChecksStand
        <3>6. RowsWereDrawn' /\ FloorHeld'
            BY <2>0 DEF FloorInv, RowsWereDrawn, FloorHeld
        <3> QED BY <1>t, <3>4, <3>5, <3>6 DEF FloorInv
    <2> QED BY <1>2, <2>1, <2>2 DEF CountMonitors
<1>3. ASSUME NEW r \in QuotaRequests, InsertMonitor(r) PROVE FloorInv'
    <2>1. FreshId \in MonitorIds \ drawn
        BY <1>t, <1>3, FreshIdIsFresh DEF InsertMonitor, QuotaTypeOK
    <2> DEFINE id == FreshId
               row == [owner |-> asks[r].user, interval |-> asks[r].interval]
    <2>2. /\ asks'[r].at \in {"idle", "commit"}
          /\ \A q \in QuotaRequests \ {r} : asks'[q] = asks[q]
        BY <1>t, <1>3 DEF InsertMonitor, Ends, Executed, NoAsk, QuotaTypeOK, Ask
    <2>3. /\ drawn' = drawn \union {id} /\ UNCHANGED <<saved, held>>
          /\ base'.users = base.users
          /\ \A m \in MonitorIds \ {id} : base'.monitors[m] = base.monitors[m]
          /\ base'.monitors[id] \in {row, base.monitors[id]}
        BY <1>t, <1>3, <2>1 DEF InsertMonitor, QuotaTypeOK, Base
    <2>4. /\ asks[r].user \in Owners /\ asks[r].plan \in held[asks[r].user]
          /\ MinInterval[asks[r].plan] <= asks[r].interval
        BY <1>t, <1>3, AskTypes DEF InsertMonitor, FloorInv, PlansWereHeld, ChecksStand
    <2>5. row.owner = asks[r].user /\ row.interval = asks[r].interval /\ id \in MonitorIds \ drawn
        BY <2>1
    <2> HIDE DEF id, row
    <2>6. PlansWereHeld'
        BY <2>2, <2>3 DEF FloorInv, PlansWereHeld
    <2>7. ChecksStand'
        <3> SUFFICES ASSUME NEW q \in QuotaRequests PROVE
                /\ asks'[q].at \in {"insert", "update"} => MinInterval[asks'[q].plan] <= asks'[q].interval
                /\ asks'[q].at \in {"find", "update"} => asks'[q].monitor \in drawn'
                /\ asks'[q].at = "update" => LET old == base'.monitors[asks'[q].monitor] IN
                        old = NoMonitor \/ old.owner = asks'[q].user
            BY DEF ChecksStand
        <3>1. CASE q = r
            BY <2>2, <3>1
        <3>2. CASE q # r
            <4>1. asks'[q] = asks[q]
                BY <2>2, <3>2
            <4>2. asks[q].at \in {"find", "update"} =>
                    asks[q].monitor \in drawn /\ asks[q].monitor \in MonitorIds \ {id}
                BY <1>t, <2>5 DEF FloorInv, ChecksStand, QuotaTypeOK
            <4> QED BY <2>3, <4>1, <4>2 DEF FloorInv, ChecksStand
        <3> QED BY <3>1, <3>2
    <2>8. RowsWereDrawn'
        BY <2>3, <2>5 DEF FloorInv, RowsWereDrawn
    <2>9. FloorHeld'
        <3> SUFFICES ASSUME NEW m \in MonitorIds, NEW tables \in {base', saved'},
                            tables.monitors[m] # NoMonitor
                     PROVE  \E p \in held[tables.monitors[m].owner] :
                                MinInterval[p] <= tables.monitors[m].interval
            BY <2>3 DEF FloorHeld
        <3>1. CASE tables.monitors[m] \in {base.monitors[m], saved.monitors[m]}
            BY <3>1 DEF FloorInv, FloorHeld
        <3>2. CASE tables.monitors[m] = row
            BY <2>4, <2>5, <3>2
        <3>3. base'.monitors[m] \in {row, base.monitors[m]} /\ saved' = saved
            BY <2>3
        <3>4. CASE tables = base'
            BY <3>1, <3>2, <3>3, <3>4
        <3>5. CASE tables = saved'
            BY <3>1, <3>3, <3>5
        <3> QED BY <3>4, <3>5
    <2> QED BY <1>t, <2>6, <2>7, <2>8, <2>9 DEF FloorInv
<1>4. ASSUME NEW r \in QuotaRequests, FindMonitor(r) PROVE FloorInv'
    <2>0. UNCHANGED <<base, saved, drawn, held>>
        BY <1>4 DEF FindMonitor
    <2>1. CASE Ends(r)
        BY <1>t, <2>0, <2>1, EndsKeepsFloor
    <2>2. CASE ~Ends(r)
        <3>1. PICK stage \in {"update", "remove"} :
                /\ GoesTo(r, stage)
                /\ base.monitors[asks[r].monitor].owner = asks[r].user
                /\ stage = "update" => IntervalAllowed(asks[r])
            BY <1>4, <2>2 DEF FindMonitor
        <3>2. /\ asks'[r].at = stage /\ asks'[r].user = asks[r].user
              /\ asks'[r].plan = asks[r].plan /\ asks'[r].interval = asks[r].interval
              /\ asks'[r].monitor = asks[r].monitor
              /\ \A q \in QuotaRequests \ {r} : asks'[q] = asks[q]
            BY <1>t, <3>1 DEF GoesTo, QuotaTypeOK, Ask
        <3>3. stage = "update" => MinInterval[asks[r].plan] <= asks[r].interval
            BY <1>t, <3>1, AskTypes DEF IntervalAllowed, Intervals
        <3>4. asks[r].plan \in held[asks[r].user] /\ asks[r].monitor \in drawn
            BY <1>4 DEF FindMonitor, FloorInv, PlansWereHeld, ChecksStand
        <3>5. PlansWereHeld'
            BY <2>0, <3>2, <3>4 DEF FloorInv, PlansWereHeld
        <3>6. ChecksStand'
            BY <2>0, <3>1, <3>2, <3>3, <3>4 DEF FloorInv, ChecksStand
        <3>7. RowsWereDrawn' /\ FloorHeld'
            BY <2>0 DEF FloorInv, RowsWereDrawn, FloorHeld
        <3> QED BY <1>t, <3>5, <3>6, <3>7 DEF FloorInv
    <2> QED BY <2>1, <2>2
<1>5. ASSUME NEW r \in QuotaRequests, UpdateMonitor(r) PROVE FloorInv'
    <2>1. /\ asks'[r].at \in {"idle", "commit"}
          /\ \A q \in QuotaRequests \ {r} : asks'[q] = asks[q]
        BY <1>t, <1>5 DEF UpdateMonitor, Executed, NoAsk, QuotaTypeOK, Ask
    <2>2. UNCHANGED <<saved, drawn, held>>
        BY <1>5 DEF UpdateMonitor
    <2>3. /\ asks[r].user \in Owners /\ asks[r].plan \in held[asks[r].user]
          /\ MinInterval[asks[r].plan] <= asks[r].interval /\ asks[r].plan \in Plans
        BY <1>t, <1>5, AskTypes DEF UpdateMonitor, FloorInv, PlansWereHeld, ChecksStand
    <2>4. base.monitors[asks[r].monitor] = NoMonitor
          \/ base.monitors[asks[r].monitor].owner = asks[r].user
        BY <1>5 DEF UpdateMonitor, FloorInv, ChecksStand
    <2>5. base'.users = base.users
          /\ \A m \in MonitorIds :
                \/ base'.monitors[m] = base.monitors[m]
                \/ /\ base.monitors[m] # NoMonitor
                   /\ base.monitors[m].owner = asks[r].user
                   /\ base'.monitors[m].owner = asks[r].user
                   /\ base'.monitors[m].interval = asks[r].interval
        BY <1>t, <1>5, <2>4 DEF UpdateMonitor, Exists, QuotaTypeOK, Base, MonitorRow
    <2>6. PlansWereHeld'
        BY <2>1, <2>2, <2>5 DEF FloorInv, PlansWereHeld
    <2>7. ChecksStand'
        <3> SUFFICES ASSUME NEW q \in QuotaRequests, q # r PROVE
                /\ asks'[q].at \in {"insert", "update"} => MinInterval[asks'[q].plan] <= asks'[q].interval
                /\ asks'[q].at \in {"find", "update"} => asks'[q].monitor \in drawn'
                /\ asks'[q].at = "update" => LET old == base'.monitors[asks'[q].monitor] IN
                        old = NoMonitor \/ old.owner = asks'[q].user
            BY <2>1 DEF ChecksStand
        <3>1. asks'[q] = asks[q]
            BY <2>1
        <3>2. asks[q].at = "update" => asks[q].monitor \in MonitorIds
            BY <1>t DEF FloorInv, ChecksStand, QuotaTypeOK
        <3> QED BY <2>2, <2>5, <3>1, <3>2 DEF FloorInv, ChecksStand
    <2>8. RowsWereDrawn'
        BY <2>2, <2>5 DEF FloorInv, RowsWereDrawn
    <2>9. FloorHeld'
        BY <2>2, <2>3, <2>5 DEF FloorInv, FloorHeld
    <2> QED BY <1>t, <2>6, <2>7, <2>8, <2>9 DEF FloorInv
<1>6. ASSUME NEW r \in QuotaRequests, RemoveMonitor(r) PROVE FloorInv'
    <2>1. /\ asks'[r].at \in {"idle", "commit"}
          /\ \A q \in QuotaRequests \ {r} : asks'[q] = asks[q]
        BY <1>t, <1>6 DEF RemoveMonitor, Executed, NoAsk, QuotaTypeOK, Ask
    <2>2. UNCHANGED <<saved, drawn, held>> /\ base'.users = base.users
          /\ \A m \in MonitorIds : base'.monitors[m] \in {base.monitors[m], NoMonitor}
        BY <1>t, <1>6 DEF RemoveMonitor, QuotaTypeOK, Base
    <2> QED BY <1>t, <2>1, <2>2, FewerRowsKeepFloor
<1>7. ASSUME NEW r \in QuotaRequests, CommitMonitor(r) PROVE FloorInv'
    BY <1>t, <1>7, EndsKeepsFloor DEF CommitMonitor
<1>8. ASSUME NEW r \in QuotaRequests, AskFails(r) PROVE FloorInv'
    BY <1>t, <1>8, EndsKeepsFloor DEF AskFails
<1>9. ASSUME NEW u \in Owners, NEW p \in Plans, ChangePlan(u, p) PROVE FloorInv'
    <2>1. /\ UNCHANGED <<saved, asks, drawn>> /\ base'.monitors = base.monitors
          /\ \A v \in Owners : base'.users[v] \in {base.users[v], {p}}
                              /\ (base'.users[v] # base.users[v] => v = u)
          /\ \A v \in Owners : held[v] \subseteq held'[v]
          /\ p \in held'[u]
        BY <1>t, <1>9 DEF ChangePlan, QuotaTypeOK, Base
    <2>2. PlansWereHeld'
        BY <1>t, <2>1 DEF FloorInv, PlansWereHeld, QuotaTypeOK
    <2>3. ChecksStand' /\ RowsWereDrawn'
        BY <2>1 DEF FloorInv, ChecksStand, RowsWereDrawn
    <2>4. FloorHeld'
        <3> SUFFICES ASSUME NEW m \in MonitorIds, NEW tables \in {base, saved},
                            tables.monitors[m] # NoMonitor
                     PROVE  \E q \in held'[tables.monitors[m].owner] :
                                MinInterval[q] <= tables.monitors[m].interval
            BY <2>1 DEF FloorHeld
        <3>1. tables.monitors[m].owner \in Owners
            BY <1>t DEF QuotaTypeOK, Base, MonitorRow
        <3> QED BY <2>1, <3>1 DEF FloorInv, FloorHeld
    <2> QED BY <1>t, <2>2, <2>3, <2>4 DEF FloorInv
<1>10. ASSUME NEW u \in Owners, RemoveOwner(u) PROVE FloorInv'
    <2>1. /\ UNCHANGED <<saved, asks, drawn, held>>
          /\ \A v \in Owners : base'.users[v] \subseteq base.users[v]
          /\ \A m \in MonitorIds : base'.monitors[m] \in {base.monitors[m], NoMonitor}
        BY <1>t, <1>10 DEF RemoveOwner, QuotaTypeOK, Base
    <2> QED BY <1>t, <2>1, FewerRowsKeepFloor
<1>11. ASSUME CommitElsewhere PROVE FloorInv'
    <2>1. UNCHANGED <<base, asks, drawn, held>> /\ saved' = base
        BY <1>11 DEF CommitElsewhere
    <2> QED BY <1>t, <2>1
            DEF FloorInv, PlansWereHeld, ChecksStand, RowsWereDrawn, FloorHeld
<1>12. ASSUME ProcessDies PROVE FloorInv'
    <2>1. UNCHANGED <<saved, drawn, held>> /\ base' = saved
          /\ \A r \in QuotaRequests : asks'[r].at = "idle"
        BY <1>12, NoAskType DEF ProcessDies
    <2> QED BY <1>t, <2>1
            DEF FloorInv, PlansWereHeld, ChecksStand, RowsWereDrawn, FloorHeld
<1>13. ASSUME UNCHANGED quotaVars PROVE FloorInv'
    BY <1>t, <1>13
    DEF quotaVars, FloorInv, PlansWereHeld, ChecksStand, RowsWereDrawn, FloorHeld
<1> QED
    BY <1>1, <1>2, <1>3, <1>4, <1>5, <1>6, <1>7, <1>8, <1>9, <1>10, <1>11, <1>12, <1>13
    DEF QuotaNext

\* Whatever interval a monitor has, some plan of its owner's allowed it.
THEOREM IntervalsWereAllowed == QuotaSpec => []FloorHeld
<1>1. QuotaInit => FloorInv
    BY FloorInvInit
<1>2. FloorInv /\ [QuotaNext]_quotaVars => FloorInv'
    BY FloorInvNext
<1>3. FloorInv => FloorHeld
    BY DEF FloorInv
<1> QED BY <1>1, <1>2, <1>3, PTL DEF QuotaSpec

-----------------------------------------------------------------------------
(* The number of monitors. *)

\* Requests that have been told there is room and have not inserted yet.
Inserting(u) == {r \in QuotaRequests : asks[r].at = "insert" /\ asks[r].user = u}

Limit(p) == MaxMonitors[p] + Cardinality(QuotaRequests)

\* The monitors there are and those on their way fit; what is committed was there once.
BaseRoom(u) == \E p \in held[u] :
    Cardinality(OwnedIn(base, u)) + Cardinality(Inserting(u)) < Limit(p)

SavedRoom(u) == \E p \in held[u] : Cardinality(OwnedIn(saved, u)) < Limit(p)

RoomInv == \A u \in Owners : BaseRoom(u) /\ SavedRoom(u)

LEMMA OwnedFinite ==
    ASSUME NEW tables, NEW u
    PROVE  /\ IsFiniteSet(OwnedIn(tables, u))
           /\ Cardinality(OwnedIn(tables, u)) \in Nat
<1>1. OwnedIn(tables, u) \subseteq MonitorIds
    BY DEF OwnedIn
<1> QED BY <1>1, FS_Subset, FS_CardinalityType

LEMMA InsertingFinite ==
    ASSUME NEW u
    PROVE  /\ IsFiniteSet(Inserting(u)) /\ Cardinality(Inserting(u)) \in Nat
           /\ Cardinality(Inserting(u)) <= Cardinality(QuotaRequests)
<1>1. Inserting(u) \subseteq QuotaRequests
    BY DEF Inserting
<1> QED BY <1>1, FS_Subset, FS_CardinalityType

LEMMA LimitType == \A p \in Plans : Limit(p) \in Nat /\ Limit(p) > Cardinality(QuotaRequests)
<1>1. Cardinality(QuotaRequests) \in Nat
    BY FS_CardinalityType
<1> QED BY <1>1 DEF Limit

\* Fewer monitors, and fewer requests about to insert one, leave at least as much room.
LEMMA LessNeedsLess ==
    ASSUME QuotaTypeOK, NEW u \in Owners, BaseRoom(u), held[u] \subseteq held'[u],
           OwnedIn(base', u) \subseteq OwnedIn(base, u), Inserting(u)' \subseteq Inserting(u)
    PROVE  BaseRoom(u)'
<1>1. PICK p \in held[u] : Cardinality(OwnedIn(base, u)) + Cardinality(Inserting(u)) < Limit(p)
    BY DEF BaseRoom
<1>2. p \in Plans /\ p \in held'[u]
    BY DEF QuotaTypeOK
<1>3. Cardinality(OwnedIn(base', u)) <= Cardinality(OwnedIn(base, u))
      /\ Cardinality(OwnedIn(base', u)) \in Nat /\ Cardinality(OwnedIn(base, u)) \in Nat
    BY OwnedFinite, FS_Subset
<1>4. Cardinality(Inserting(u)') <= Cardinality(Inserting(u))
      /\ Cardinality(Inserting(u)') \in Nat /\ Cardinality(Inserting(u)) \in Nat
    BY InsertingFinite, FS_Subset, FS_CardinalityType
<1>5. Cardinality(OwnedIn(base', u)) + Cardinality(Inserting(u)') < Limit(p)
    BY <1>1, <1>2, <1>3, <1>4, LimitType
<1> QED BY <1>2, <1>5 DEF BaseRoom

\* A commit saves what there is.
LEMMA SavedIsOldOrBase ==
    ASSUME QuotaTypeOK, NEW u \in Owners, BaseRoom(u), SavedRoom(u), held[u] \subseteq held'[u],
           saved' \in {saved, base}
    PROVE  SavedRoom(u)'
<1>1. CASE saved' = saved
    BY <1>1 DEF SavedRoom
<1>2. CASE saved' = base
    <2>1. PICK p \in held[u] :
            Cardinality(OwnedIn(base, u)) + Cardinality(Inserting(u)) < Limit(p)
        BY DEF BaseRoom
    <2>2. p \in Plans
        BY DEF QuotaTypeOK
    <2>3. Cardinality(OwnedIn(base, u)) < Limit(p)
        BY <2>1, <2>2, OwnedFinite, InsertingFinite, LimitType
    <2> QED BY <1>2, <2>3 DEF SavedRoom
<1> QED BY <1>1, <1>2

\* A step that adds no monitor and lets no request through to the insert.
LEMMA RoomStays ==
    ASSUME QuotaTypeOK, RoomInv, \A u \in Owners : held[u] \subseteq held'[u],
           saved' \in {saved, base},
           \A m \in MonitorIds : base'.monitors[m] # NoMonitor =>
                base.monitors[m] # NoMonitor /\ base'.monitors[m].owner = base.monitors[m].owner,
           \A r \in QuotaRequests : asks'[r].at = "insert" => asks'[r] = asks[r]
    PROVE  RoomInv'
<1> SUFFICES ASSUME NEW u \in Owners PROVE BaseRoom(u)' /\ SavedRoom(u)'
    BY DEF RoomInv
<1>1. OwnedIn(base', u) \subseteq OwnedIn(base, u)
    BY DEF OwnedIn
<1>2. Inserting(u)' \subseteq Inserting(u)
    BY DEF Inserting
<1> QED BY <1>1, <1>2, LessNeedsLess, SavedIsOldOrBase DEF RoomInv

\* The request let through counts before it inserts: there is room for it even when
\* every other request is about to insert too.
LEMMA CountKeepsRoom ==
    ASSUME FloorInv, RoomInv, NEW r \in QuotaRequests, asks[r].at = "count",
           GoesTo(r, "insert"), QuotaAllowed(asks[r]), UNCHANGED <<base, saved, held>>
    PROVE  RoomInv'
<1> SUFFICES ASSUME NEW u \in Owners PROVE BaseRoom(u)' /\ SavedRoom(u)'
    BY DEF RoomInv
<1>t. QuotaTypeOK /\ BaseRoom(u) /\ SavedRoom(u)
    BY DEF FloorInv, RoomInv
<1>1. asks'[r].user = asks[r].user /\ \A q \in QuotaRequests \ {r} : asks'[q] = asks[q]
    BY <1>t DEF GoesTo, QuotaTypeOK, Ask
<1>2. CASE asks[r].user = u
    <2>1. asks[r].plan \in held[u] /\ asks[r].plan \in Plans
        BY <1>t, <1>2, AskTypes DEF FloorInv, PlansWereHeld
    <2>2. Cardinality(OwnedIn(base', u)) < MaxMonitors[asks[r].plan]
        BY <1>2 DEF QuotaAllowed
    <2>3. Cardinality(Inserting(u)') <= Cardinality(QuotaRequests)
          /\ Cardinality(Inserting(u)') \in Nat
        <3>1. Inserting(u)' \subseteq QuotaRequests
            BY DEF Inserting
        <3> QED BY <3>1, FS_Subset, FS_CardinalityType
    <2>4. Cardinality(OwnedIn(base', u)) \in Nat /\ Cardinality(QuotaRequests) \in Nat
          /\ MaxMonitors[asks[r].plan] \in Nat
        BY <2>1, OwnedFinite, FS_CardinalityType
    <2>5. Cardinality(OwnedIn(base', u)) + Cardinality(Inserting(u)') < Limit(asks[r].plan)
        BY <2>2, <2>3, <2>4 DEF Limit
    <2> QED BY <1>t, <2>1, <2>5, SavedIsOldOrBase DEF BaseRoom
<1>3. CASE asks[r].user # u
    <2>1. Inserting(u)' \subseteq Inserting(u) /\ OwnedIn(base', u) \subseteq OwnedIn(base, u)
        BY <1>1, <1>3 DEF Inserting
    <2> QED BY <1>t, <2>1, LessNeedsLess, SavedIsOldOrBase
<1> QED BY <1>2, <1>3

\* An insert turns a request on its way into a monitor.
LEMMA InsertKeepsRoom ==
    ASSUME FloorInv, RoomInv, NEW r \in QuotaRequests, InsertMonitor(r)
    PROVE  RoomInv'
<1>t. QuotaTypeOK /\ FreshId \in MonitorIds \ drawn /\ asks[r].at = "insert"
      /\ asks[r].user \in Owners
    BY FreshIdIsFresh, AskTypes DEF FloorInv, InsertMonitor, QuotaTypeOK
<1>1. /\ asks'[r].at \in {"idle", "commit"}
      /\ \A q \in QuotaRequests \ {r} : asks'[q] = asks[q]
    BY <1>t DEF InsertMonitor, Ends, Executed, NoAsk, QuotaTypeOK, Ask
<1>2. UNCHANGED <<saved, held>>
    BY DEF InsertMonitor
<1>3. CASE base' = base
    <2>1. RoomInv'
        BY <1>t, <1>1, <1>2, <1>3, RoomStays
    <2> QED BY <2>1
<1>4. CASE base' = [base EXCEPT !.monitors[FreshId] =
                        [owner |-> asks[r].user, interval |-> asks[r].interval]]
    <2> SUFFICES ASSUME NEW u \in Owners PROVE BaseRoom(u)' /\ SavedRoom(u)'
        BY DEF RoomInv
    <2>1. BaseRoom(u) /\ SavedRoom(u)
        BY DEF RoomInv
    <2>2. /\ \A m \in MonitorIds \ {FreshId} : base'.monitors[m] = base.monitors[m]
          /\ base'.monitors[FreshId].owner = asks[r].user
          /\ base.monitors[FreshId] = NoMonitor
        BY <1>t, <1>4 DEF FloorInv, RowsWereDrawn, QuotaTypeOK, Base
    <2>3. CASE asks[r].user = u
        <3>1. OwnedIn(base', u) \subseteq OwnedIn(base, u) \union {FreshId}
            BY <2>2 DEF OwnedIn
        <3>2. Inserting(u)' \subseteq Inserting(u) \ {r} /\ r \in Inserting(u)
            BY <1>t, <1>1, <2>3 DEF Inserting
        <3>3. Cardinality(OwnedIn(base', u)) <= Cardinality(OwnedIn(base, u)) + 1
            <4>1. /\ IsFiniteSet(OwnedIn(base, u) \union {FreshId})
                  /\ Cardinality(OwnedIn(base, u) \union {FreshId}) \in
                        {Cardinality(OwnedIn(base, u)), Cardinality(OwnedIn(base, u)) + 1}
                BY OwnedFinite, FS_AddElement
            <4>2. Cardinality(OwnedIn(base', u))
                    <= Cardinality(OwnedIn(base, u) \union {FreshId})
                BY <3>1, <4>1, FS_Subset
            <4> QED BY <4>1, <4>2, OwnedFinite
        <3>4. Cardinality(Inserting(u)') <= Cardinality(Inserting(u)) - 1
              /\ Cardinality(Inserting(u)') \in Nat
            <4>1. IsFiniteSet(Inserting(u) \ {r})
                  /\ Cardinality(Inserting(u) \ {r}) = Cardinality(Inserting(u)) - 1
                BY <3>2, InsertingFinite, FS_RemoveElement
            <4>2. Cardinality(Inserting(u)') <= Cardinality(Inserting(u) \ {r})
                  /\ IsFiniteSet(Inserting(u)')
                BY <3>2, <4>1, FS_Subset
            <4> QED BY <4>1, <4>2, FS_CardinalityType
        <3>5. PICK p \in held[u] :
                Cardinality(OwnedIn(base, u)) + Cardinality(Inserting(u)) < Limit(p)
            BY <2>1 DEF BaseRoom
        <3>6. p \in Plans /\ Limit(p) \in Nat /\ p \in held'[u]
            BY <1>t, <1>2, LimitType DEF QuotaTypeOK
        <3>7. Cardinality(OwnedIn(base', u)) + Cardinality(Inserting(u)') < Limit(p)
            BY <3>3, <3>4, <3>5, <3>6, OwnedFinite, InsertingFinite
        <3>8. BaseRoom(u)'
            BY <3>6, <3>7 DEF BaseRoom
        <3> QED BY <1>t, <1>2, <2>1, <3>8, SavedIsOldOrBase
    <2>4. CASE asks[r].user # u
        <3>1. OwnedIn(base', u) \subseteq OwnedIn(base, u)
            BY <2>2, <2>4 DEF OwnedIn
        <3>2. Inserting(u)' \subseteq Inserting(u)
            BY <1>1 DEF Inserting
        <3> QED BY <1>t, <1>2, <2>1, <3>1, <3>2, LessNeedsLess, SavedIsOldOrBase
    <2> QED BY <2>3, <2>4
<1> QED BY <1>3, <1>4 DEF InsertMonitor

LEMMA RoomInvInit == QuotaInit => RoomInv
<1> SUFFICES ASSUME QuotaInit, NEW u \in Owners PROVE BaseRoom(u) /\ SavedRoom(u)
    BY DEF RoomInv
<1>1. PICK plan \in [Owners -> Plans] :
        /\ base = [users |-> [v \in Owners |-> {plan[v]}],
                   monitors |-> [m \in MonitorIds |-> NoMonitor]]
        /\ held = [v \in Owners |-> {plan[v]}]
    BY DEF QuotaInit
<1>2. saved = base /\ \A r \in QuotaRequests : asks[r].at = "idle"
    BY DEF QuotaInit, NoAsk
<1>3. plan[u] \in held[u] /\ Limit(plan[u]) \in Nat /\ Limit(plan[u]) > 0
    <2>1. MaxMonitors[plan[u]] \in Nat \ {0}
        OBVIOUS
    <2> QED BY <1>1, <2>1, FS_CardinalityType DEF Limit
<1>4. OwnedIn(base, u) = {} /\ OwnedIn(saved, u) = {} /\ Inserting(u) = {}
    BY <1>1, <1>2 DEF OwnedIn, Inserting
<1>5. Cardinality(OwnedIn(base, u)) + Cardinality(Inserting(u)) < Limit(plan[u])
      /\ Cardinality(OwnedIn(saved, u)) < Limit(plan[u])
    BY <1>3, <1>4, FS_EmptySet
<1> QED BY <1>3, <1>5 DEF BaseRoom, SavedRoom

\* A restart finds the committed monitors and no request under way.
LEMMA DeathKeepsRoom ==
    ASSUME FloorInv, RoomInv, ProcessDies
    PROVE  RoomInv'
<1> SUFFICES ASSUME NEW u \in Owners PROVE BaseRoom(u)' /\ SavedRoom(u)'
    BY DEF RoomInv
<1>1. UNCHANGED <<saved, held>> /\ base' = saved /\ \A r \in QuotaRequests : asks'[r].at = "idle"
    BY NoAskType DEF ProcessDies
<1>2. PICK p \in held[u] : Cardinality(OwnedIn(saved, u)) < Limit(p)
    BY DEF RoomInv, SavedRoom
<1>3. Cardinality(Inserting(u)') = 0
    <2>1. Inserting(u)' = {}
        BY <1>1 DEF Inserting
    <2> QED BY <2>1, FS_EmptySet
<1>4. Cardinality(OwnedIn(base', u)) + Cardinality(Inserting(u)') < Limit(p) /\ p \in held'[u]
    BY <1>1, <1>2, <1>3, OwnedFinite
<1>5. SavedRoom(u)'
    BY <1>1, <1>2 DEF SavedRoom
<1> QED BY <1>4, <1>5 DEF BaseRoom

LEMMA RoomInvNext == FloorInv /\ RoomInv /\ [QuotaNext]_quotaVars => RoomInv'
<1> SUFFICES ASSUME FloorInv, RoomInv, [QuotaNext]_quotaVars PROVE RoomInv'
    OBVIOUS
<1>t. QuotaTypeOK
    BY DEF FloorInv
<1> DEFINE NoneInserts == \A q \in QuotaRequests : asks'[q].at = "insert" => asks'[q] = asks[q]
<1>e. ASSUME NEW r \in QuotaRequests, Ends(r) \/ Executed(r) PROVE NoneInserts
    BY <1>t, <1>e DEF Ends, Executed, NoAsk, QuotaTypeOK, Ask
<1>s. ASSUME UNCHANGED <<base, held>>, saved' \in {saved, base}, NoneInserts PROVE RoomInv'
    BY <1>t, <1>s, RoomStays
<1>1. ASSUME NEW r \in QuotaRequests, NEW u \in Owners, NEW ask \in Ask,
             Authenticate(r, u, ask), ask.at \in {"count", "find"}
      PROVE  RoomInv'
    <2>1. PICK plan \in base.users[u] :
            asks' = [asks EXCEPT ![r] = [ask EXCEPT !.user = u, !.plan = plan]]
        BY <1>1 DEF Authenticate
    <2>2. NoneInserts
        BY <1>t, <1>1, <2>1 DEF QuotaTypeOK, Ask
    <2> QED BY <1>1, <1>s, <2>2 DEF Authenticate
<1>2. ASSUME NEW r \in QuotaRequests, Asks(r) PROVE RoomInv'
    <2>1. ASSUME NEW u \in Owners, NEW i \in Intervals, AskCreate(r, u, i) PROVE RoomInv'
        <3> DEFINE ask == [NoAsk EXCEPT !.at = "count", !.interval = i]
        <3>1. ask \in Ask /\ ask.at = "count"
            BY NoAskType DEF Ask, AskStages
        <3>2. Authenticate(r, u, ask)
            BY <2>1 DEF AskCreate
        <3> HIDE DEF ask
        <3> QED BY <1>1, <3>1, <3>2
    <2>2. ASSUME NEW u \in Owners, NEW i \in Intervals, NEW m \in MonitorIds, AskEdit(r, u, m, i)
          PROVE  RoomInv'
        <3> DEFINE ask == [NoAsk EXCEPT !.at = "find", !.interval = i, !.monitor = m, !.edits = TRUE]
        <3>1. ask \in Ask /\ ask.at = "find"
            BY NoAskType DEF Ask, AskStages
        <3>2. Authenticate(r, u, ask)
            BY <2>2 DEF AskEdit
        <3> HIDE DEF ask
        <3> QED BY <1>1, <3>1, <3>2
    <2>3. ASSUME NEW u \in Owners, NEW m \in MonitorIds, AskDelete(r, u, m) PROVE RoomInv'
        <3> DEFINE ask == [NoAsk EXCEPT !.at = "find", !.monitor = m]
        <3>1. ask \in Ask /\ ask.at = "find"
            BY NoAskType DEF Ask, AskStages
        <3>2. Authenticate(r, u, ask)
            BY <2>3 DEF AskDelete
        <3> HIDE DEF ask
        <3> QED BY <1>1, <3>1, <3>2
    <2> QED BY <1>2, <2>1, <2>2, <2>3 DEF Asks
<1>3. ASSUME NEW r \in QuotaRequests, CountMonitors(r) PROVE RoomInv'
    <2>1. UNCHANGED <<base, saved, held>> /\ asks[r].at = "count"
        BY <1>3 DEF CountMonitors
    <2>2. CASE Ends(r)
        BY <1>e, <1>s, <2>1, <2>2
    <2>3. CASE GoesTo(r, "insert") /\ QuotaAllowed(asks[r])
        BY <2>1, <2>3, CountKeepsRoom
    <2> QED BY <1>3, <2>2, <2>3 DEF CountMonitors
<1>4. ASSUME NEW r \in QuotaRequests, InsertMonitor(r) PROVE RoomInv'
    BY <1>4, InsertKeepsRoom
<1>5. ASSUME NEW r \in QuotaRequests, FindMonitor(r) PROVE RoomInv'
    <2>1. UNCHANGED <<base, saved, held>>
        BY <1>5 DEF FindMonitor
    <2>2. NoneInserts
        BY <1>t, <1>5, <1>e DEF FindMonitor, GoesTo, QuotaTypeOK, Ask
    <2> QED BY <1>s, <2>1, <2>2
<1>6. ASSUME NEW r \in QuotaRequests, UpdateMonitor(r) PROVE RoomInv'
    <2>1. UNCHANGED <<saved, held>> /\ NoneInserts
        BY <1>6, <1>e DEF UpdateMonitor
    <2>2. \A m \in MonitorIds : base'.monitors[m] # NoMonitor =>
            base.monitors[m] # NoMonitor /\ base'.monitors[m].owner = base.monitors[m].owner
        BY <1>t, <1>6 DEF UpdateMonitor, Exists, QuotaTypeOK, Base, MonitorRow
    <2> QED BY <1>t, <2>1, <2>2, RoomStays
<1>7. ASSUME NEW r \in QuotaRequests, RemoveMonitor(r) PROVE RoomInv'
    <2>1. UNCHANGED <<saved, held>> /\ NoneInserts
        BY <1>7, <1>e DEF RemoveMonitor
    <2>2. \A m \in MonitorIds : base'.monitors[m] # NoMonitor => base'.monitors[m] = base.monitors[m]
        BY <1>t, <1>7 DEF RemoveMonitor, QuotaTypeOK, Base
    <2> QED BY <1>t, <2>1, <2>2, RoomStays
<1>8. ASSUME NEW r \in QuotaRequests, CommitMonitor(r) PROVE RoomInv'
    BY <1>8, <1>e, <1>s DEF CommitMonitor
<1>9. ASSUME NEW r \in QuotaRequests, AskFails(r) PROVE RoomInv'
    BY <1>9, <1>e, <1>s DEF AskFails
<1>10. ASSUME NEW u \in Owners, NEW p \in Plans, ChangePlan(u, p) PROVE RoomInv'
    <2>1. UNCHANGED <<saved, asks>> /\ base'.monitors = base.monitors
          /\ \A v \in Owners : held[v] \subseteq held'[v]
        BY <1>t, <1>10 DEF ChangePlan, QuotaTypeOK, Base
    <2> QED BY <1>t, <2>1, RoomStays
<1>11. ASSUME NEW u \in Owners, RemoveOwner(u) PROVE RoomInv'
    <2>1. UNCHANGED <<saved, asks, held>>
          /\ \A m \in MonitorIds : base'.monitors[m] # NoMonitor => base'.monitors[m] = base.monitors[m]
        BY <1>t, <1>11 DEF RemoveOwner, QuotaTypeOK, Base
    <2> QED BY <1>t, <2>1, RoomStays
<1>12. ASSUME CommitElsewhere PROVE RoomInv'
    BY <1>12, <1>s DEF CommitElsewhere
<1>13. ASSUME ProcessDies PROVE RoomInv'
    BY <1>13, DeathKeepsRoom
<1>14. ASSUME UNCHANGED quotaVars PROVE RoomInv'
    BY <1>14, <1>s DEF quotaVars
<1> QED
    BY <1>2, <1>3, <1>4, <1>5, <1>6, <1>7, <1>8, <1>9, <1>10, <1>11, <1>12, <1>13, <1>14
    DEF QuotaNext

\* The two bounds are one: the larger of the two plans covers both tables.
LEMMA RoomBounds == FloorInv /\ RoomInv => QuotaBound
<1> SUFFICES ASSUME FloorInv, RoomInv, NEW u \in Owners
             PROVE  \E p \in held[u] : \A tables \in {base, saved} :
                        Cardinality(OwnedIn(tables, u)) < Limit(p)
    BY DEF QuotaBound, Limit
<1>1. PICK p \in held[u] : Cardinality(OwnedIn(base, u)) + Cardinality(Inserting(u)) < Limit(p)
    BY DEF RoomInv, BaseRoom
<1>2. PICK q \in held[u] : Cardinality(OwnedIn(saved, u)) < Limit(q)
    BY DEF RoomInv, SavedRoom
<1>3. Limit(p) \in Nat /\ Limit(q) \in Nat
    BY LimitType DEF FloorInv, QuotaTypeOK
<1>4. Cardinality(OwnedIn(base, u)) < Limit(p)
    BY <1>1, <1>3, OwnedFinite, InsertingFinite
<1>5. CASE Limit(p) <= Limit(q)
    BY <1>2, <1>3, <1>4, <1>5, OwnedFinite
<1>6. CASE Limit(q) <= Limit(p)
    BY <1>2, <1>3, <1>4, <1>6, OwnedFinite
<1> QED BY <1>3, <1>5, <1>6

\* However requests, plan changes, deletions and crashes fall, no owner gets more monitors
\* past the quota of a plan they have had than requests can be under way at once, less one.
THEOREM MonitorsAreBounded == QuotaSpec => []QuotaBound
<1>1. QuotaInit => FloorInv /\ RoomInv
    BY FloorInvInit, RoomInvInit
<1>2. FloorInv /\ RoomInv /\ [QuotaNext]_quotaVars => (FloorInv /\ RoomInv)'
    BY FloorInvNext, RoomInvNext
<1>3. FloorInv /\ RoomInv => QuotaBound
    BY RoomBounds
<1> QED BY <1>1, <1>2, <1>3, PTL DEF QuotaSpec
===========================================================================
