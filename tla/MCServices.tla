----------------------------- MODULE MCServices -----------------------------
(* A small instance of each of the five components of Services. *)
EXTENDS Services, TLC

CONSTANTS r1, r2, u1, u2, h1, h2, m1, m2, m3, a, b, c, v1, v2, v3, freePlan, proPlan

\* Rate limiter: /forgot-password, which checks the address of the client, then the e-mail;
\* and the same from other clients, whose own buckets have room and are left out.
MCKeys == {"ip", "email"}
MCMax == [k \in MCKeys |-> IF k = "ip" THEN 1 ELSE 2]
MCWindow == [k \in MCKeys |-> 2]
MCChains == {<<"ip", "email">>, <<"email">>}
MCRequests == {r1, r2}

\* Plans: the paid one has more monitors, shorter intervals and a longer history.
MCUsers == {u1, u2}
MCMonitorIds == {m1, m2, m3}
MCPlans == {freePlan, proPlan}
MCMaxMonitors == [p \in MCPlans |-> IF p = freePlan THEN 1 ELSE 2]
MCMinInterval == [p \in MCPlans |-> IF p = freePlan THEN 2 ELSE 1]
MCHistoryDays == [p \in MCPlans |-> IF p = freePlan THEN 0 ELSE 1]

\* Slugs: two users of the same name, whose first candidate is the same.
MCHolders == {h1, h2}
MCSlugNames == {a, b, c}
MCCandidates == [h \in MCHolders |-> IF h = h1 THEN <<a, b>> ELSE <<a, c>>]
MCLastResort == [h \in MCHolders |-> IF h = h1 THEN b ELSE c]

MCReleases == {v1, v2, v3}

ServicesSymmetry == Permutations(MCRequests) \union Permutations(MCUsers)
=============================================================================
