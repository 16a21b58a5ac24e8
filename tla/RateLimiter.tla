---------------------------- MODULE RateLimiter ----------------------------
(***************************************************************************)
(* The in-memory sliding-window limiters of pingback/rate_limit.py.        *)
(*                                                                         *)
(* A dependency checks one bucket after the other (address, then e-mail or *)
(* token).  It is a plain function, so each request runs it on a thread of *)
(* its own, and _record is four steps on a list it shares with the others: *)
(* take the time and filter, store, compare, append.  A bucket's list is   *)
(* the set of accepted calls it holds: the n-th call accepted is n, and    *)
(* log[k][n] its time.  Lists live in memory and go with the process.      *)
(***************************************************************************)
EXTENDS Integers, Sequences, FiniteSets

CONSTANTS
    Keys,         \* buckets: a limiter with one of its keys
    Max,          \* max_requests of the bucket's limiter
    Window,       \* window_seconds of the bucket's limiter
    Chains,       \* the buckets a dependency checks, in order
    Requests,     \* requests that can be under way at once
    EndOfTime,    \* bound: end of time
    MaxAccepted,  \* bound: calls accepted on one bucket when a request arrives
    MaxRestarts   \* bound: restarts in one behaviour

ASSUME LimiterAssumption ==
    /\ Max \in [Keys -> Nat \ {0}]
    /\ Window \in [Keys -> Nat \ {0}]
    /\ Chains \subseteq Seq(Keys) \ {<<>>}
    /\ {EndOfTime, MaxAccepted, MaxRestarts} \subseteq Nat

VARIABLES
    now,          \* time.monotonic()
    hits,         \* _hits
    calls,        \* local state of each request's dependency
    restarts,
    log,          \* observer: times of the calls each bucket accepted
    orderly       \* observer: no two calls on the bucket overlapped so far

limiterVars == <<now, hits, calls, restarts, log, orderly>>

Stages == {"idle", "clock", "filter", "store", "test", "append", "refused"}

\* chain: the bucket the call is at, and those to come; found: the filtered list.
Call == [at : Stages, chain : Seq(Keys), stamp : 0..EndOfTime, found : SUBSET (Nat \ {0})]

NoCall == [at |-> "idle", chain |-> <<>>, stamp |-> 0, found |-> {}]

LimiterTypeOK ==
    /\ now \in 0..EndOfTime
    /\ hits \in [Keys -> SUBSET (Nat \ {0})]
    /\ log \in [Keys -> Seq(0..EndOfTime)]
    /\ \A k \in Keys : hits[k] \subseteq DOMAIN log[k]
    /\ calls \in [Requests -> Call]
    /\ \A r \in Requests : calls[r].at # "idle" => calls[r].chain # <<>>
    /\ restarts \in 0..MaxRestarts
    /\ orderly \in [Keys -> BOOLEAN]

LimiterInit ==
    /\ now = 0
    /\ hits = [k \in Keys |-> {}]
    /\ calls = [r \in Requests |-> NoCall]
    /\ restarts = 0
    /\ log = [k \in Keys |-> <<>>]
    /\ orderly = [k \in Keys |-> TRUE]

-----------------------------------------------------------------------------
(* _record. *)

Key(r) == Head(calls[r].chain)

Inside(r, k) == calls[r].at \in {"filter", "store", "test", "append"} /\ Key(r) = k

\* The calls of the list that are younger than the cutoff.
Recent(r, set) == {i \in set : log[Key(r)][i] > calls[r].stamp - Window[Key(r)]}

\* Request r takes the time and starts on the first bucket of chain.
Enter(r, chain) ==
    /\ calls' = [calls EXCEPT ![r] = [at |-> "filter", chain |-> chain, stamp |-> now,
                                      found |-> {}]]
    /\ orderly' = [orderly EXCEPT ![Head(chain)] =
            @ /\ \A o \in Requests \ {r} : ~Inside(o, Head(chain))]
    /\ UNCHANGED <<now, hits, restarts, log>>

Arrive(r, chain) ==
    /\ calls[r].at = "idle"
    /\ \A k \in Keys : Len(log[k]) < MaxAccepted
    /\ Enter(r, chain)

\* The next _record of the same dependency.
NextBucket(r) ==
    /\ calls[r].at = "clock"
    /\ Enter(r, calls[r].chain)

\* Variants of Filter with a bug: an entry of half the window's age is dropped ...
FilterEarly(r) ==
    /\ calls[r].at = "filter"
    /\ calls' = [calls EXCEPT ![r].at = "store",
                              ![r].found = {i \in hits[Key(r)] :
                    2 * (calls[r].stamp - log[Key(r)][i]) < Window[Key(r)]}]
    /\ UNCHANGED <<now, hits, restarts, log, orderly>>

\* ... or one as old as the window is kept.
FilterLate(r) ==
    /\ calls[r].at = "filter"
    /\ calls' = [calls EXCEPT ![r].at = "store",
                              ![r].found = {i \in hits[Key(r)] :
                    log[Key(r)][i] >= calls[r].stamp - Window[Key(r)]}]
    /\ UNCHANGED <<now, hits, restarts, log, orderly>>

Filter(r) ==
    /\ calls[r].at = "filter"
    /\ calls' = [calls EXCEPT ![r].at = "store", ![r].found = Recent(r, hits[Key(r)])]
    /\ UNCHANGED <<now, hits, restarts, log, orderly>>

\* Whatever another thread appended since the filter is lost.
Store(r) ==
    /\ calls[r].at = "store"
    /\ hits' = [hits EXCEPT ![Key(r)] = calls[r].found]
    /\ calls' = [calls EXCEPT ![r].at = "test", ![r].found = {}]
    /\ UNCHANGED <<now, restarts, log, orderly>>

Full(k) == Cardinality(hits[k]) >= Max[k]

\* 429: the buckets before this one have counted the request all the same.
Refuse(r) ==
    /\ calls[r].at = "test"
    /\ Full(Key(r))
    /\ calls' = [calls EXCEPT ![r].at = "refused"]
    /\ UNCHANGED <<now, hits, restarts, log, orderly>>

Admit(r) ==
    /\ calls[r].at = "test"
    /\ ~Full(Key(r))
    /\ calls' = [calls EXCEPT ![r].at = "append"]
    /\ UNCHANGED <<now, hits, restarts, log, orderly>>

\* The call is accepted; the request goes on to the next bucket or to its handler.
AppendHit(r) ==
    /\ calls[r].at = "append"
    /\ LET k == Key(r) IN
        /\ log' = [log EXCEPT ![k] = Append(@, calls[r].stamp)]
        /\ hits' = [hits EXCEPT ![k] = @ \union {Len(log[k]) + 1}]
    /\ calls' = [calls EXCEPT ![r] =
            IF Tail(@.chain) = <<>> THEN NoCall
            ELSE [at |-> "clock", chain |-> Tail(@.chain), stamp |-> 0, found |-> {}]]
    /\ UNCHANGED <<now, restarts, orderly>>

Answer429(r) ==
    /\ calls[r].at = "refused"
    /\ calls' = [calls EXCEPT ![r] = NoCall]
    /\ UNCHANGED <<now, hits, restarts, log, orderly>>

\* The process is started again, with empty lists; what it promised starts afresh.
RestartLimiter ==
    /\ restarts < MaxRestarts
    /\ restarts' = restarts + 1
    /\ hits' = [k \in Keys |-> {}]
    /\ log' = [k \in Keys |-> <<>>]
    /\ orderly' = [k \in Keys |-> TRUE]
    /\ calls' = [r \in Requests |-> NoCall]
    /\ UNCHANGED now

ClockTicks ==
    /\ now < EndOfTime
    /\ now' = now + 1
    /\ UNCHANGED <<hits, calls, restarts, log, orderly>>

Record(r) ==
    \/ NextBucket(r) \/ Filter(r) \/ Store(r) \/ Refuse(r) \/ Admit(r) \/ AppendHit(r)
    \/ Answer429(r)

LimiterNext ==
    \/ \E r \in Requests :
        \/ \E chain \in Chains : Arrive(r, chain)
        \/ Record(r)
    \/ RestartLimiter
    \/ ClockTicks

LimiterSpec == LimiterInit /\ [][LimiterNext]_limiterVars

-----------------------------------------------------------------------------
(* Properties. *)

\* "The per-email bucket caps spam to any one address at 3/hr", and so does every other
\* bucket: of any Max + 1 calls accepted in a row, the last is at least the window
\* younger than the first, provided that no two calls on the bucket ran at once.
WindowBound == \A k \in Keys : orderly[k] =>
    \A i \in DOMAIN log[k] :
        i + Max[k] \in DOMAIN log[k] => log[k][i + Max[k]] - log[k][i] >= Window[k]

\* Under the same proviso nobody is refused before the bucket accepted Max calls in the
\* window that ends with the refused one.
RefusalsAreEarned == \A r \in Requests :
    (calls[r].at = "refused" /\ orderly[Key(r)]) =>
        Cardinality(Recent(r, DOMAIN log[Key(r)])) >= Max[Key(r)]

=============================================================================
