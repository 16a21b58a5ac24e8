------------------------------ MODULE Services ------------------------------
(***************************************************************************)
(* Five components that share no state: the rate limiter, the plan quotas, *)
(* the status page slugs, the retention and the deployment.  A behaviour   *)
(* is of one of them, chosen at the start, while the others rest: one run  *)
(* explores all five, and their states add up instead of multiplying.      *)
(***************************************************************************)
EXTENDS RateLimiter, Quota, Slugs, Retention, Deploy

VARIABLE part

\* Each part that rests has one initial state.  The users start on the free plan where an
\* upgrade, which is among the events, makes all the difference there is.
Init ==
    /\ part \in {"limiter", "quota", "slugs", "retention", "deploy"}
    /\ LimiterInit /\ QuotaInit /\ SlugsInit /\ RetentionInit /\ DeployInit
    /\ held = [u \in Owners |-> {FreePlan}]
    /\ \E u \in Customers : live.tariff[u] = FreeTariff
    /\ part # "slugs" => enrolled = {}
    /\ part # "retention" => live.tariff = [u \in Customers |-> FreeTariff]

Next ==
    /\ UNCHANGED part
    /\ \/ part = "limiter" /\ LimiterNext
            /\ UNCHANGED <<quotaVars, slugVars, retentionVars, deployVars>>
       \/ part = "quota" /\ QuotaNext
            /\ UNCHANGED <<limiterVars, slugVars, retentionVars, deployVars>>
       \/ part = "slugs" /\ SlugsNext
            /\ UNCHANGED <<limiterVars, quotaVars, retentionVars, deployVars>>
       \/ part = "retention" /\ RetentionNext
            /\ UNCHANGED <<limiterVars, quotaVars, slugVars, deployVars>>
       \/ part = "deploy" /\ DeployNext
            /\ UNCHANGED <<limiterVars, quotaVars, slugVars, retentionVars>>

Spec ==
    Init /\ [][Next]_<<part, limiterVars, quotaVars, slugVars, retentionVars, deployVars>>

\* The part that moves keeps its type: the limiter, the quotas, the slugs, the retention,
\* the releases.
TypeOK ==
    /\ part = "limiter" => LimiterTypeOK
    /\ part = "quota" => QuotaTypeOK
    /\ part = "slugs" => SlugsTypeOK
    /\ part = "retention" => RetentionTypeOK
    /\ part = "deploy" => DeployTypeOK
=============================================================================
