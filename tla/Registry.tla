----------------------------- MODULE Registry -----------------------------
(***************************************************************************)
(* What the tables of accounts and of sessions promise of their ids, as    *)
(* far as a restart can tell: an id is entered once, for one owner that    *)
(* stays, and once its entry is gone, or will never be made, it is void.   *)
(* A commit carries the statements of many requests, so one step may enter *)
(* and remove several at a time.                                           *)
(***************************************************************************)

CONSTANTS
    Keys,
    Values,
    None      \* no entry

VARIABLES
    entry,    \* the committed entries
    used      \* keys entered at some time, or given up

vars == <<entry, used>>

Init ==
    /\ entry \in [Keys -> Values \union {None}]
    /\ used \in SUBSET Keys
    /\ \A k \in Keys : entry[k] # None => k \in used

Entered(k) == k \notin used /\ k \in used' /\ entry'[k] \in Values

Removed(k) == k \in used' /\ entry'[k] = None

Next ==
    /\ used \subseteq used' /\ used' \subseteq Keys
    /\ entry' \in [Keys -> Values \union {None}]
    /\ \A k \in Keys : entry'[k] # entry[k] => Entered(k) \/ Removed(k)

Spec == Init /\ [][Next]_vars

=============================================================================
