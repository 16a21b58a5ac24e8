------------------------- MODULE OperationsProofs -------------------------
(***************************************************************************)
(* The two procedures that remove things on the operator's behalf.  What   *)
(* the deploy leaves the symlink naming and running, for any number of     *)
(* releases, any KEEP_RELEASES and any sequence of scripts and stops.      *)
(* Then what the purge and the archival may delete, and in step, for any   *)
(* customers, plans, retention periods, and any time and number of         *)
(* incidents.  Last, that composing the five services loses nothing of     *)
(* what is proved of each.                                                 *)
(***************************************************************************)
EXTENDS Services, LimitsProofs, SlugsProofs, TLAPS

-----------------------------------------------------------------------------
(* Deploys. *)

Servable == whole \union excused \union {NoRelease}

\* The script's local state is a record with these fields; what they hold does not matter.
ScriptShape ==
    script = [at |-> script.at, to |-> script.to, from |-> script.from,
              releases |-> script.releases]

\* Until the symlink moves, the script's notion of the former release is true; afterwards
\* it is still what an unhealthy release goes back to, until the pruning starts.
FromIsServable ==
    /\ script.at \in {"unpack", "preflight", "swap"} => script.from = current
    /\ script.at \in {"record", "restart", "poll"} => script.from \in Servable

\* The symlink moves to a directory that was tried, or that the operator answers for.
TargetIsTried == script.at = "swap" => script.to \in Servable

\* From the restart on, the symlink is resolved: pruning spares what runs by sparing
\* what the symlink names.
MasterFollows == script.at \in {"poll", "prune"} => master = current

DeployInv ==
    /\ ScriptShape
    /\ {current, master} \subseteq Servable
    /\ FromIsServable
    /\ TargetIsTried
    /\ MasterFollows

LEMMA DeployInvInit == DeployInit => DeployInv
BY DEF DeployInit, DeployInv, ScriptShape, Servable, FromIsServable, TargetIsTried,
       MasterFollows, NoScript

LEMMA DeployInvNext == DeployInv /\ [DeployNext]_deployVars => DeployInv'
<1> SUFFICES ASSUME DeployInv, [DeployNext]_deployVars PROVE DeployInv'
    OBVIOUS
<1> USE DEF DeployInv, ScriptShape, Servable, FromIsServable, TargetIsTried, MasterFollows
<1>1. ASSUME NEW sha \in Releases, StartRelease(sha) PROVE DeployInv'
    BY <1>1 DEF StartRelease, Starts, Links
<1>2. ASSUME NEW wanted, StartRollback(wanted) PROVE DeployInv'
    <2> DEFINE target == IF wanted \in Present \ {current} THEN wanted ELSE Latest
    <2>1. /\ script.at = "idle"
          /\ script' = [at |-> "swap", to |-> target, from |-> current, releases |-> FALSE]
          /\ excused' = IF target \in whole THEN excused ELSE excused \union {target}
          /\ UNCHANGED <<kept, whole, current, previous, master>>
        BY <1>2 DEF StartRollback, Starts, Links
    <2> HIDE DEF target
    <2> QED BY <2>1
<1>3. ASSUME NEW sha \in Releases, Prune(sha) PROVE DeployInv'
    <2>1. sha # current /\ master = current /\ script.at = "prune"
        BY <1>3 DEF Prune, Doomed
    <2> QED BY <1>3, <2>1 DEF Prune, Links
<1>4. ASSUME Unpack PROVE DeployInv'
    BY <1>4 DEF Unpack, Goes, Links
<1>5. ASSUME Preflight PROVE DeployInv'
    BY <1>5 DEF Preflight, Goes, Links
<1>6. ASSUME SwapLink PROVE DeployInv'
    BY <1>6 DEF SwapLink, Goes
<1>7. ASSUME RecordPrevious PROVE DeployInv'
    BY <1>7 DEF RecordPrevious, Goes
<1>8. ASSUME RestartService PROVE DeployInv'
    BY <1>8 DEF RestartService, Goes, Links
<1>9. ASSUME Healthy PROVE DeployInv'
    BY <1>9 DEF Healthy, NoScript, Links
<1>10. ASSUME Unhealthy PROVE DeployInv'
    BY <1>10 DEF Unhealthy, NoScript
<1>11. ASSUME ReleaseDone PROVE DeployInv'
    BY <1>11 DEF ReleaseDone, NoScript, Links
<1>12. ASSUME ServiceDies PROVE DeployInv'
    BY <1>12 DEF ServiceDies, Links
<1>13. ASSUME ScriptStops PROVE DeployInv'
    <2>1. CASE script.at # "prune"
        <3>1. whole' = whole
            BY <1>13, <2>1 DEF ScriptStops
        <3> QED BY <1>13, <3>1 DEF ScriptStops, NoScript, Links
    <2>2. CASE script.at = "prune"
        <3>1. current \in whole => current \in whole'
            BY <1>13, <2>2 DEF ScriptStops, Doomed
        <3> QED BY <1>13, <2>2, <3>1 DEF ScriptStops, NoScript, Links
    <2> QED BY <2>1, <2>2
<1>14. ASSUME UNCHANGED deployVars PROVE DeployInv'
    BY <1>14 DEF deployVars
<1> QED
    BY <1>1, <1>2, <1>3, <1>4, <1>5, <1>6, <1>7, <1>8, <1>9, <1>10, <1>11, <1>12, <1>13, <1>14
    DEF DeployNext

\* A sequence of distinct directories, without one of them.
LEMMA WithoutFacts ==
    ASSUME kept \in Seq(Releases), \A i, j \in DOMAIN kept : kept[i] = kept[j] => i = j,
           NEW sha, NEW rest, rest = Without(sha)
    PROVE  /\ rest \in Seq(Releases)
           /\ \A i, j \in DOMAIN rest : rest[i] = rest[j] => i = j
           /\ \A x : (\E i \in DOMAIN rest : rest[i] = x) <=> x \in Present \ {sha}
<1>1. CASE sha \notin Present
    BY <1>1 DEF Without, Present
<1>2. CASE sha \in Present
    <2> DEFINE n == Len(kept)
               k == CHOOSE i \in DOMAIN kept : kept[i] = sha
    <2>1. n \in Nat /\ DOMAIN kept = 1..n /\ \A i \in 1..n : kept[i] \in Releases
        OBVIOUS
    <2>2. k \in 1..n /\ kept[k] = sha
        BY <1>2, <2>1 DEF Present
    <2>3. rest = [i \in 1..(n - 1) |-> IF i < k THEN kept[i] ELSE kept[i + 1]]
        BY <1>2 DEF Without
    <2> HIDE DEF k, n
    <2>4. n - 1 \in Nat /\ \A i \in 1..(n - 1) : rest[i] \in Releases
        BY <2>1, <2>2, <2>3
    <2>5. rest \in Seq(Releases)
        <3>1. PICK m \in Nat : m = n - 1
            BY <2>4
        <3>2. rest \in [1..m -> Releases]
            BY <2>3, <2>4, <3>1
        <3> QED BY <3>2
    <2>6. DOMAIN rest = 1..(n - 1) /\ \A i \in 1..(n - 1) : rest[i] = IF i < k THEN kept[i] ELSE kept[i + 1]
        BY <2>3
    <2>7. /\ \A i, j \in 1..(n - 1) : rest[i] = rest[j] => i = j
          /\ \A x : (\E i \in 1..(n - 1) : rest[i] = x) <=> x # kept[k] /\ \E i \in 1..n : kept[i] = x
        <3> DEFINE from(i) == IF i < k THEN i ELSE i + 1
        <3>1. \A i \in 1..(n - 1) : from(i) \in 1..n /\ from(i) # k /\ rest[i] = kept[from(i)]
            BY <2>1, <2>2, <2>6
        <3>2. \A i, j \in 1..(n - 1) : from(i) = from(j) => i = j
            BY <2>1, <2>2
        <3>3. ASSUME NEW j \in 1..n, j # k
              PROVE  \E i \in 1..(n - 1) : from(i) = j
            <4>1. CASE j < k
                <5>1. j \in 1..(n - 1) /\ from(j) = j
                    BY <2>1, <2>2, <4>1
                <5> QED BY <5>1
            <4>2. CASE j > k
                <5>1. j - 1 \in 1..(n - 1) /\ from(j - 1) = j
                    BY <2>1, <2>2, <4>2
                <5> QED BY <5>1
            <4> QED BY <2>1, <2>2, <3>3, <4>1, <4>2
        <3> HIDE DEF from
        <3>4. \A i, j \in 1..(n - 1) : rest[i] = rest[j] => i = j
            BY <2>1, <3>1, <3>2
        <3>5. ASSUME NEW j \in 1..n, kept[j] # kept[k] PROVE \E i \in 1..(n - 1) : rest[i] = kept[j]
            <4>1. PICK i \in 1..(n - 1) : from(i) = j
                BY <3>3, <3>5
            <4> QED BY <3>1, <4>1
        <3>6. ASSUME NEW i \in 1..(n - 1) PROVE rest[i] # kept[k] /\ \E j \in 1..n : kept[j] = rest[i]
            BY <2>1, <2>2, <3>1
        <3> QED BY <3>4, <3>5, <3>6
    <2>8. \A x : x \in Present <=> \E i \in 1..n : kept[i] = x
        BY <2>1 DEF Present
    <2>9. \A i, j \in DOMAIN rest : rest[i] = rest[j] => i = j
        BY <2>6, <2>7
    <2>10. \A x : (\E i \in DOMAIN rest : rest[i] = x) <=> x \in Present \ {sha}
        BY <2>2, <2>6, <2>7, <2>8
    <2> QED BY <2>5, <2>9, <2>10
<1> QED BY <1>1, <1>2

LEMMA AppendFacts ==
    ASSUME NEW dirs \in Seq(Releases), \A i, j \in DOMAIN dirs : dirs[i] = dirs[j] => i = j,
           NEW sha \in Releases, \A i \in DOMAIN dirs : dirs[i] # sha,
           NEW more, more = Append(dirs, sha)
    PROVE  /\ more \in Seq(Releases)
           /\ \A i, j \in DOMAIN more : more[i] = more[j] => i = j
           /\ \A x : (\E i \in DOMAIN more : more[i] = x) <=> x = sha \/ \E i \in DOMAIN dirs : dirs[i] = x
<1>1. /\ more \in Seq(Releases) /\ DOMAIN dirs = 1..Len(dirs) /\ DOMAIN more = 1..(Len(dirs) + 1)
      /\ \A i \in 1..Len(dirs) : more[i] = dirs[i]
      /\ more[Len(dirs) + 1] = sha /\ Len(dirs) \in Nat
    OBVIOUS
<1>2. DOMAIN more = DOMAIN dirs \union {Len(dirs) + 1} /\ Len(dirs) + 1 \notin DOMAIN dirs
    BY <1>1
<1> QED BY <1>1, <1>2

\* There is a newest directory that current does not name.
LEMMA LatestFacts ==
    ASSUME kept \in Seq(Releases), \A i, j \in DOMAIN kept : kept[i] = kept[j] => i = j,
           Present \ {current} # {}
    PROVE  Latest \in Present
<1>1. PICK others : others = Without(current)
    OBVIOUS
<1>2. /\ others \in Seq(Releases)
      /\ \A x : (\E i \in DOMAIN others : others[i] = x) <=> x \in Present \ {current}
    BY <1>1, WithoutFacts
<1>3. Len(others) \in DOMAIN others
    BY <1>2
<1>4. Latest = others[Len(others)]
    BY <1>1 DEF Latest
<1> QED BY <1>2, <1>3, <1>4

\* What the preflight tries was unpacked.
DeployTypes == DeployTypeOK /\ (script.at = "preflight" => script.to \in Present)
               /\ (script.at # "idle" => script.to \in Releases)

LEMMA DeployTypesInit == DeployInit => DeployTypes
BY DeployAssumption DEF DeployInit, DeployTypes, DeployTypeOK, NoScript, Script, ScriptStages

LEMMA DeployTypesNext == DeployTypes /\ [DeployNext]_deployVars => DeployTypes'
<1> SUFFICES ASSUME DeployTypes, [DeployNext]_deployVars PROVE DeployTypes'
    OBVIOUS
<1> USE DeployAssumption DEF DeployTypes, DeployTypeOK
<1>1. ASSUME NEW sha \in Releases, StartRelease(sha) PROVE DeployTypes'
    BY <1>1 DEF StartRelease, Starts, Links, Script, ScriptStages, Present
<1>2. ASSUME NEW wanted, StartRollback(wanted) PROVE DeployTypes'
    <2> DEFINE target == IF wanted \in Present \ {current} THEN wanted ELSE Latest
    <2>1. target \in Present
        BY <1>2, LatestFacts DEF StartRollback
    <2>2. Present \subseteq Releases
        BY DEF Present
    <2>3. /\ script' = [at |-> "swap", to |-> target, from |-> current, releases |-> FALSE]
          /\ excused' \in {excused, excused \union {target}}
          /\ UNCHANGED <<kept, whole, current, previous, master>>
          /\ scripts' \in 0..MaxScripts
        BY <1>2 DEF StartRollback, Starts, Links
    <2> HIDE DEF target
    <2> QED BY <2>1, <2>2, <2>3 DEF Script, ScriptStages, Present
<1>3. ASSUME NEW sha \in Releases, Prune(sha) PROVE DeployTypes'
    <2>1. /\ kept' = Without(sha) /\ whole' = whole \ {sha} /\ script.at = "prune"
          /\ UNCHANGED <<current, previous, master, script, excused, scripts>>
        BY <1>3 DEF Prune, Links
    <2>2. PICK rest : rest = Without(sha)
        OBVIOUS
    <2>3. \A x : (\E i \in DOMAIN rest : rest[i] = x) <=> x \in Present \ {sha}
        BY <2>2, WithoutFacts
    <2>4. Present' = Present \ {sha}
        <3>1. \A x : x \in Present' <=> \E i \in DOMAIN rest : rest[i] = x
            BY <2>1, <2>2 DEF Present
        <3> QED BY <2>3, <3>1
    <2> QED BY <2>1, <2>2, <2>4, WithoutFacts
<1>4. ASSUME Unpack PROVE DeployTypes'
    <2> DEFINE sha == script.to
    <2>1. /\ kept' = Append(Without(sha), sha) /\ sha \in Releases
          /\ script' = [script EXCEPT !.at = "preflight"]
          /\ UNCHANGED <<whole, current, previous, master, excused, scripts>>
        BY <1>4 DEF Unpack, Goes, Links
    <2>2. script' \in Script /\ script'.to = sha
        BY <2>1 DEF Script, ScriptStages
    <2>3. PICK to \in Releases : to = sha
        BY <2>1
    <2>4. PICK rest : rest = Without(to)
        OBVIOUS
    <2>5. PICK more : more = Append(rest, to)
        OBVIOUS
    <2>6. /\ rest \in Seq(Releases) /\ \A i, j \in DOMAIN rest : rest[i] = rest[j] => i = j
          /\ \A x : (\E i \in DOMAIN rest : rest[i] = x) <=> x \in Present \ {to}
        BY <2>4, WithoutFacts
    <2>7. /\ more \in Seq(Releases) /\ \A i, j \in DOMAIN more : more[i] = more[j] => i = j
          /\ \A x : (\E i \in DOMAIN more : more[i] = x) <=> x = to \/ x \in Present \ {to}
        <3>1. \A i \in DOMAIN rest : rest[i] # to
            BY <2>6
        <3> QED BY <2>3, <2>5, <2>6, <3>1, AppendFacts
    <2>8. kept' = more
        BY <2>1, <2>3, <2>4, <2>5
    <2>9. Present' = Present \union {to}
        <3>1. \A x : x \in Present' <=> \E i \in DOMAIN more : more[i] = x
            BY <2>8 DEF Present
        <3>2. to \in Present' /\ Present \subseteq Present' \union {to}
            BY <2>7, <3>1
        <3> QED BY <2>7, <3>1, <3>2
    <2> HIDE DEF sha
    <2> QED BY <2>1, <2>2, <2>3, <2>7, <2>8, <2>9
<1>5. ASSUME Preflight PROVE DeployTypes'
    BY <1>5 DEF Preflight, Goes, Links, Script, ScriptStages, Present
<1>6. ASSUME SwapLink \/ RecordPrevious \/ RestartService \/ ServiceDies PROVE DeployTypes'
    BY <1>6 DEF SwapLink, RecordPrevious, RestartService, ServiceDies, Goes, Links, Script,
        ScriptStages, Present
<1>7. ASSUME Healthy \/ Unhealthy \/ ReleaseDone \/ ScriptStops PROVE DeployTypes'
    <2>1. /\ script' \in Script /\ script'.at \in {"idle", "prune"}
          /\ script'.at # "idle" => script'.to \in Releases
        <3>1. \/ script' = NoScript
              \/ script' = [script EXCEPT !.at = "prune"] /\ script.at = "poll"
            BY <1>7 DEF Healthy, Unhealthy, ReleaseDone, ScriptStops
        <3>2. NoScript \in Script /\ NoScript.at = "idle"
            BY DEF NoScript, Script, ScriptStages
        <3> QED BY <3>1, <3>2 DEF Script, ScriptStages
    <2>2. /\ UNCHANGED <<kept, previous, master, excused, scripts>>
          /\ current' \in {current, script.from} /\ whole' \subseteq whole
        BY <1>7 DEF Healthy, Unhealthy, ReleaseDone, ScriptStops, Links
    <2>3. script.from \in Releases \union {NoRelease}
        BY DEF Script
    <2>4. Present' = Present
        BY <2>2 DEF Present
    <2> QED BY <2>1, <2>2, <2>3, <2>4
<1>8. CASE UNCHANGED deployVars
    BY <1>8 DEF deployVars, Present
<1> QED BY <1>1, <1>2, <1>3, <1>4, <1>5, <1>6, <1>7, <1>8 DEF DeployNext

\* Directories are listed once, and only those that are there passed a preflight.
THEOREM DeployTypeCorrect == DeploySpec => []DeployTypeOK
<1>1. DeployTypes => DeployTypeOK
    BY DEF DeployTypes
<1> QED BY <1>1, DeployTypesInit, DeployTypesNext, PTL DEF DeploySpec

\* What serves the pages, and what a crash or a reboot would make serve them, passed its
\* preflight whole, wherever a deploy, a rollback or the pruning stopped, except where the
\* operator had it overwritten or asked for it unfinished (release.sh, rollback.sh).
THEOREM WhatServesIsServable == DeploySpec => []CurrentIsServable
<1>1. DeployInv => CurrentIsServable
    BY DEF DeployInv, Servable, CurrentIsServable
<1> QED BY <1>1, DeployInvInit, DeployInvNext, PTL DEF DeploySpec

-----------------------------------------------------------------------------
(* Retention: types. *)

USE RetentionAssumption

LEMMA BooksFields ==
    ASSUME NEW books \in Books
    PROVE  /\ books.tariff \in [Customers -> Tariffs] /\ books.seen \in [Customers -> Days]
           /\ books.watched \subseteq Customers
           /\ books.raw \in [Customers -> SUBSET Days] /\ books.rolled \in [Customers -> SUBSET Days]
           /\ \A f \in [Customers -> Tariffs] : [books EXCEPT !.tariff = f] \in Books
           /\ \A f \in [Customers -> Days] : [books EXCEPT !.seen = f] \in Books
           /\ \A f \in SUBSET Customers : [books EXCEPT !.watched = f] \in Books
           /\ \A f \in [Customers -> SUBSET Days] :
                [books EXCEPT !.raw = f] \in Books /\ [books EXCEPT !.rolled = f] \in Books
BY DEF Books

LEMMA IdleSinceType ==
    ASSUME NEW run \in Days \union {-1}
    PROVE  /\ IdleSince(run) \in Job /\ IdleSince(run).at = "idle" /\ IdleSince(run).ran = run
           /\ IdleSince(run).users = {}
BY DEF IdleSince, Job, JobStages

LEMMA CutoffType ==
    ASSUME NEW tariff \in Tariffs, NEW run \in Days \union {-1}
    PROVE  Cutoff(tariff, run) \in Int
<1>1. run \in Int /\ HistoryDays[tariff] \in Int /\ RetentionDays \in Int
    BY DEF Days
<1> QED BY <1>1 DEF Cutoff

LEMMA UnexpiredType ==
    ASSUME NEW days \in [Customers -> SUBSET Days], NEW tariff, NEW run
    PROVE  Unexpired(days, tariff, run) \in [Customers -> SUBSET Days]
BY DEF Unexpired

LEMMA IncidentType ==
    ASSUME RetentionTypeOK, Incident
    PROVE  incidents' \in 0..MaxIncidents /\ incidents' # incidents
BY DEF RetentionTypeOK, Incident

LEMMA RetentionTypeInit == RetentionInit => RetentionTypeOK
<1> SUFFICES ASSUME RetentionInit PROVE RetentionTypeOK
    OBVIOUS
<1>1. 0 \in Days /\ 0 \in 0..MaxIncidents
    BY DEF Days
<1>2. live \in Books
    BY <1>1 DEF RetentionInit, Books
<1>3. job \in Job
    BY IdleSinceType DEF RetentionInit
<1> QED BY <1>1, <1>2, <1>3 DEF RetentionInit, RetentionTypeOK

LEMMA RetentionTypeNext == RetentionTypeOK /\ [RetentionNext]_retentionVars => RetentionTypeOK'
<1> SUFFICES ASSUME RetentionTypeOK, [RetentionNext]_retentionVars PROVE RetentionTypeOK'
    OBVIOUS
<1>f. live.raw \in [Customers -> SUBSET Days] /\ live.rolled \in [Customers -> SUBSET Days]
      /\ live.seen \in [Customers -> Days] /\ live.tariff \in [Customers -> Tariffs]
      /\ live.watched \subseteq Customers
    BY BooksFields DEF RetentionTypeOK
<1>1. ASSUME StartPurge PROVE RetentionTypeOK'
    <2>1. job' \in Job
        <3>1. {live.tariff[u] : u \in Customers} \subseteq Tariffs
            BY <1>f
        <3> QED BY <1>1, <3>1 DEF StartPurge, RetentionTypeOK, Job, JobStages
    <2> QED BY <1>1, <2>1 DEF StartPurge, Observers, RetentionTypeOK
<1>2. ASSUME NEW tariff \in Tariffs, PurgeRaw(tariff) PROVE RetentionTypeOK'
    <2>1. job' \in Job
        BY <1>2 DEF PurgeRaw, RetentionTypeOK, Job, JobStages
    <2>2. live' \in Books
        BY <1>2, <1>f, BooksFields, UnexpiredType DEF PurgeRaw, RetentionTypeOK
    <2> QED BY <1>2, <2>1, <2>2 DEF PurgeRaw, Observers, RetentionTypeOK
<1>3. ASSUME PurgeRollups PROVE RetentionTypeOK'
    <2>1. job' \in Job
        BY <1>3 DEF PurgeRollups, RetentionTypeOK, Job, JobStages
    <2>2. live' \in Books
        BY <1>3, <1>f, BooksFields, UnexpiredType DEF PurgeRollups, RetentionTypeOK
    <2> QED BY <1>3, <2>1, <2>2 DEF PurgeRollups, Observers, RetentionTypeOK
<1>4. ASSUME CommitPurge PROVE RetentionTypeOK'
    <2>1. job' \in Job
        BY <1>4 DEF CommitPurge, RetentionTypeOK, Job, JobStages
    <2> QED BY <1>4, <2>1 DEF CommitPurge, Observers, RetentionTypeOK
<1>i. IdleSince(job.ran) \in Job /\ IdleSince(-1) \in Job
    BY IdleSinceType DEF RetentionTypeOK, Job
<1>5. ASSUME ListAbandoned PROVE RetentionTypeOK'
    <2>1. job' \in Job
        BY <1>5, <1>i DEF ListAbandoned, Abandoned, Job, JobStages
    <2> QED BY <1>5, <2>1 DEF ListAbandoned, Observers, RetentionTypeOK
<1>6. ASSUME NEW u \in Customers, EraseRaw(u) PROVE RetentionTypeOK'
    <2>1. job' \in Job
        BY <1>6 DEF EraseRaw, RetentionTypeOK, Job, JobStages
    <2>2. live' \in Books
        BY <1>6, <1>f DEF EraseRaw, RetentionTypeOK, Books
    <2> QED BY <1>6, <2>1, <2>2 DEF EraseRaw, Observers, RetentionTypeOK
<1>7. ASSUME EraseRollups PROVE RetentionTypeOK'
    <2>1. job' \in Job
        BY <1>7 DEF EraseRollups, RetentionTypeOK, Job, JobStages
    <2>2. live' \in Books
        BY <1>7, <1>f DEF EraseRollups, RetentionTypeOK, Books
    <2> QED BY <1>7, <2>1, <2>2 DEF EraseRollups, Observers, RetentionTypeOK
<1>8. ASSUME PauseMonitors PROVE RetentionTypeOK'
    <2>1. job' \in Job
        BY <1>8 DEF PauseMonitors, RetentionTypeOK, Job, JobStages
    <2>2. live' \in Books
        BY <1>8, <1>f DEF PauseMonitors, RetentionTypeOK, Books
    <2> QED BY <1>8, <2>1, <2>2 DEF PauseMonitors, Observers, RetentionTypeOK
<1>9. ASSUME CommitArchive PROVE RetentionTypeOK'
    BY <1>9, <1>i DEF CommitArchive, RetentionTypeOK
<1>10. ASSUME NEW u \in Customers, SaveResult(u) PROVE RetentionTypeOK'
    <2>1. live' \in Books
        BY <1>10, <1>f DEF SaveResult, RetentionTypeOK, Books
    <2> QED BY <1>10, <2>1 DEF SaveResult, Observers, RetentionTypeOK
<1>11. ASSUME NEW u \in Customers, UserVisits(u) PROVE RetentionTypeOK'
    <2>1. live' \in Books
        BY <1>11, <1>f DEF UserVisits, RetentionTypeOK, Books
    <2> QED BY <1>11, <2>1 DEF UserVisits, Returns, RetentionTypeOK
<1>12. ASSUME NEW u \in Customers, NEW d \in Days, Compact(u, d) PROVE RetentionTypeOK'
    <2>1. live' \in Books
        BY <1>12, <1>f DEF Compact, RetentionTypeOK, Books
    <2> QED BY <1>12, <2>1 DEF Compact, Observers, RetentionTypeOK
<1>13. ASSUME NEW u \in Customers, NEW tariff \in Tariffs, SwitchTariff(u, tariff)
       PROVE  RetentionTypeOK'
    <2>1. live' \in Books
        BY <1>13, <1>f DEF SwitchTariff, RetentionTypeOK, Books
    <2>2. incidents' \in 0..MaxIncidents
        BY <1>13, IncidentType DEF SwitchTariff
    <2> QED BY <1>13, <2>1, <2>2 DEF SwitchTariff, Returns, RetentionTypeOK
<1>14. ASSUME CommitOfOthers PROVE RetentionTypeOK'
    BY <1>14 DEF CommitOfOthers, Observers, RetentionTypeOK
<1>15. ASSUME JobFails PROVE RetentionTypeOK'
    <2>1. job' \in Job
        BY <1>15, <1>i DEF JobFails, Job, JobStages
    <2>2. incidents' \in 0..MaxIncidents
        BY <1>15, IncidentType DEF JobFails
    <2> QED BY <1>15, <2>1, <2>2 DEF JobFails, RetentionTypeOK
<1>16. ASSUME SchedulerDies PROVE RetentionTypeOK'
    <2>1. incidents' \in 0..MaxIncidents
        BY <1>16, IncidentType DEF SchedulerDies
    <2> QED BY <1>16, <1>i, <2>1 DEF SchedulerDies, RetentionTypeOK
<1>17. ASSUME DayPasses PROVE RetentionTypeOK'
    <2>1. day' \in Days
        BY <1>17 DEF DayPasses, RetentionTypeOK, Days
    <2> QED BY <1>17, <2>1 DEF DayPasses, Observers, RetentionTypeOK
<1>18. ASSUME UNCHANGED retentionVars PROVE RetentionTypeOK'
    BY <1>18 DEF retentionVars, Observers, RetentionTypeOK
<1> QED
    BY <1>1, <1>2, <1>3, <1>4, <1>5, <1>6, <1>7, <1>8, <1>9, <1>10, <1>11, <1>12, <1>13,
       <1>14, <1>15, <1>16, <1>17, <1>18
    DEF RetentionNext

\* Books, job and observers keep their types.
THEOREM RetentionTypeCorrect == RetentionSpec => []RetentionTypeOK
BY RetentionTypeInit, RetentionTypeNext, PTL DEF RetentionSpec

-----------------------------------------------------------------------------
(* The invariant. *)

\* Whoever is still to be archived is abandoned now, or came back since.
Gone(u) == live.tariff[u] = FreeTariff /\ live.seen[u] < day - AbandonedDays

ListStands ==
    /\ Erasing => \A u \in job.users : u \in returned \/ Gone(u)
    /\ job.at \in {"eraseRollups", "pause"} => job.user \in job.users

InStep(books, u) == books.rolled[u] \subseteq books.raw[u]

\* Between the two deletions of a plan its rollups lag behind, as far as they expired;
\* between the two of an archival, those of the user.
LiveInStep == \A u \in Customers \ uneven :
    IF job.at = "rollups"
    THEN \A d \in live.rolled[u] : d \in live.raw[u]
            \/ (live.tariff[u] = job.tariff /\ d < Cutoff(job.tariff, job.ran))
    ELSE (job.at = "eraseRollups" /\ u = job.user) \/ InStep(live, u)

\* What is committed is in step when no deletion has begun.
DurableInStep == job.at \in {"idle", "list"} => \A u \in Customers \ uneven : InStep(durable, u)

RetentionInv == RetentionTypeOK /\ ListStands /\ LiveInStep /\ DurableInStep

LEMMA RetentionInvInit == RetentionInit => RetentionInv
<1> SUFFICES ASSUME RetentionInit PROVE RetentionInv
    OBVIOUS
<1>1. job.at = "idle" /\ durable = live
    BY IdleSinceType DEF RetentionInit, IdleSince
<1>2. \A u \in Customers : live.rolled[u] = {}
    <2>1. PICK tariff \in [Customers -> Tariffs] :
            live = [tariff |-> tariff, seen |-> [u \in Customers |-> 0], watched |-> Customers,
                    raw |-> [u \in Customers |-> {}], rolled |-> [u \in Customers |-> {}]]
        BY DEF RetentionInit
    <2> QED BY <2>1
<1> QED BY <1>1, <1>2, RetentionTypeInit
        DEF RetentionInv, ListStands, LiveInStep, DurableInStep, InStep, Erasing

\* Deleting what expired leaves the rest.
LEMMA UnexpiredDays ==
    ASSUME NEW days \in [Customers -> SUBSET Days], NEW u \in Customers, NEW tariff \in Tariffs,
           NEW run \in Days \union {-1}
    PROVE  /\ Unexpired(days, tariff, run)[u] \subseteq days[u]
           /\ \A d \in days[u] : \/ d \in Unexpired(days, tariff, run)[u]
                                 \/ live.tariff[u] = tariff /\ d < Cutoff(tariff, run)
           /\ \A d \in Unexpired(days, tariff, run)[u] :
                ~(live.tariff[u] = tariff /\ d < Cutoff(tariff, run))
<1>1. \A d \in Days : d \in Int
    BY DEF Days
<1> QED BY <1>1, CutoffType DEF Unexpired

LEMMA RetentionInvNext == RetentionInv /\ [RetentionNext]_retentionVars => RetentionInv'
<1> SUFFICES ASSUME RetentionInv, [RetentionNext]_retentionVars PROVE RetentionInv'
    OBVIOUS
<1>t. RetentionTypeOK /\ RetentionTypeOK'
    BY RetentionTypeNext DEF RetentionInv
<1>f. /\ live.raw \in [Customers -> SUBSET Days] /\ live.rolled \in [Customers -> SUBSET Days]
      /\ live.seen \in [Customers -> Days] /\ live.tariff \in [Customers -> Tariffs]
      /\ job \in Job /\ job.tariff \in Tariffs /\ job.ran \in Days \union {-1}
      /\ live \in Books
    BY <1>t, BooksFields DEF RetentionTypeOK, Job
<1>1. ASSUME StartPurge PROVE RetentionInv'
    <2>1. job'.at = "purge" /\ job.at = "idle" /\ UNCHANGED <<day, live, durable, uneven, returned>>
        BY <1>1, <1>f DEF StartPurge, Observers, Job
    <2> QED BY <1>t, <2>1
            DEF RetentionInv, ListStands, LiveInStep, DurableInStep, InStep, Erasing
<1>2. ASSUME NEW tariff \in Tariffs, PurgeRaw(tariff) PROVE RetentionInv'
    <2>1. /\ job'.at = "rollups" /\ job.at = "purge" /\ job'.tariff = tariff /\ job'.ran = job.ran
          /\ UNCHANGED <<day, durable, uneven, returned>>
          /\ live'.raw = Unexpired(live.raw, tariff, job.ran)
          /\ live'.rolled = live.rolled /\ live'.tariff = live.tariff
        BY <1>2, <1>f DEF PurgeRaw, Observers, Job, Books
    <2>2. LiveInStep'
        <3> SUFFICES ASSUME NEW u \in Customers \ uneven, NEW d \in live.rolled[u]
                     PROVE  \/ d \in Unexpired(live.raw, tariff, job.ran)[u]
                            \/ live.tariff[u] = tariff /\ d < Cutoff(tariff, job.ran)
            BY <2>1 DEF LiveInStep, Cutoff
        <3>1. d \in live.raw[u]
            BY <2>1 DEF RetentionInv, LiveInStep, InStep
        <3> QED BY <1>f, <3>1, UnexpiredDays
    <2> QED BY <1>t, <2>1, <2>2 DEF RetentionInv, ListStands, DurableInStep, Erasing
<1>3. ASSUME PurgeRollups PROVE RetentionInv'
    <2>1. /\ job'.at = "purge" /\ job.at = "rollups"
          /\ UNCHANGED <<day, durable, uneven, returned>>
          /\ live'.rolled = Unexpired(live.rolled, job.tariff, job.ran)
          /\ live'.raw = live.raw
        BY <1>3, <1>f DEF PurgeRollups, Observers, Job, Books
    <2>2. LiveInStep'
        <3> SUFFICES ASSUME NEW u \in Customers \ uneven,
                            NEW d \in Unexpired(live.rolled, job.tariff, job.ran)[u]
                     PROVE  d \in live.raw[u]
            BY <2>1 DEF LiveInStep, InStep
        <3>1. d \in live.rolled[u] /\ ~(live.tariff[u] = job.tariff /\ d < Cutoff(job.tariff, job.ran))
            <4>1. u \in Customers /\ live.rolled \in [Customers -> SUBSET Days]
                  /\ job.tariff \in Tariffs /\ job.ran \in Days \union {-1}
                BY <1>f
            <4>2. Unexpired(live.rolled, job.tariff, job.ran)[u] \subseteq live.rolled[u]
                BY <4>1, UnexpiredDays
            <4>3. ~(live.tariff[u] = job.tariff /\ d < Cutoff(job.tariff, job.ran))
                BY <4>1, UnexpiredDays
            <4> QED BY <4>2, <4>3
        <3> QED BY <2>1, <3>1 DEF RetentionInv, LiveInStep
    <2> QED BY <1>t, <2>1, <2>2 DEF RetentionInv, ListStands, DurableInStep, Erasing
<1>4. ASSUME CommitPurge PROVE RetentionInv'
    <2>1. job'.at = "list" /\ job.at = "purge" /\ durable' = live
          /\ UNCHANGED <<day, live, uneven, returned>>
        BY <1>4, <1>f DEF CommitPurge, Observers, Job
    <2> QED BY <1>t, <2>1
            DEF RetentionInv, ListStands, LiveInStep, DurableInStep, InStep, Erasing
<1>5. ASSUME ListAbandoned PROVE RetentionInv'
    <2>1. job.at = "list" /\ UNCHANGED <<day, live, durable, uneven, returned>>
        BY <1>5 DEF ListAbandoned, Observers
    <2>2. job'.at = "idle" \/ (job'.at = "erase" /\ job'.users = Abandoned)
        BY <1>5, <1>f, IdleSinceType DEF ListAbandoned, Job
    <2>3. \A u \in Abandoned : Gone(u)
        BY DEF Abandoned, Gone
    <2>4. ListStands'
        BY <2>1, <2>2, <2>3 DEF ListStands, Erasing, Gone
    <2>5. LiveInStep' /\ DurableInStep'
        BY <2>1, <2>2 DEF RetentionInv, LiveInStep, DurableInStep, InStep
    <2> QED BY <1>t, <2>4, <2>5 DEF RetentionInv
<1>6. ASSUME NEW u \in Customers, EraseRaw(u) PROVE RetentionInv'
    <2>1. /\ job'.at = "eraseRollups" /\ job.at = "erase" /\ job'.user = u /\ job'.users = job.users
          /\ u \in job.users
          /\ UNCHANGED <<day, durable, uneven, returned>>
          /\ live'.rolled = live.rolled /\ live'.tariff = live.tariff /\ live'.seen = live.seen
          /\ \A v \in Customers \ {u} : live'.raw[v] = live.raw[v]
        BY <1>6, <1>f DEF EraseRaw, Observers, Job, Books
    <2>2. LiveInStep'
        BY <2>1 DEF RetentionInv, LiveInStep, InStep
    <2>3. ListStands'
        BY <2>1 DEF RetentionInv, ListStands, Erasing, Gone
    <2> QED BY <1>t, <2>1, <2>2, <2>3 DEF RetentionInv, DurableInStep
<1>7. ASSUME EraseRollups PROVE RetentionInv'
    <2>1. /\ job'.at = "pause" /\ job.at = "eraseRollups" /\ job'.user = job.user
          /\ job'.users = job.users
          /\ UNCHANGED <<day, durable, uneven, returned>>
          /\ live'.raw = live.raw /\ live'.tariff = live.tariff /\ live'.seen = live.seen
          /\ job.user \in Customers
          /\ \A v \in Customers \ {job.user} : live'.rolled[v] = live.rolled[v]
          /\ live'.rolled[job.user] = {}
        BY <1>7, <1>f DEF EraseRollups, Observers, Job, Books, RetentionInv, ListStands
    <2>2. LiveInStep'
        BY <2>1 DEF RetentionInv, LiveInStep, InStep
    <2>3. ListStands'
        BY <2>1 DEF RetentionInv, ListStands, Erasing, Gone
    <2> QED BY <1>t, <2>1, <2>2, <2>3 DEF RetentionInv, DurableInStep
<1>8. ASSUME PauseMonitors PROVE RetentionInv'
    <2>1. /\ job'.at = "erase" /\ job.at = "pause" /\ job'.users \subseteq job.users
          /\ UNCHANGED <<day, durable, uneven, returned>>
          /\ live'.raw = live.raw /\ live'.tariff = live.tariff /\ live'.seen = live.seen
          /\ live'.rolled = live.rolled
        BY <1>8, <1>f DEF PauseMonitors, Observers, Job, Books
    <2>2. LiveInStep'
        BY <2>1 DEF RetentionInv, LiveInStep, InStep
    <2>3. ListStands'
        BY <2>1 DEF RetentionInv, ListStands, Erasing, Gone
    <2> QED BY <1>t, <2>1, <2>2, <2>3 DEF RetentionInv, DurableInStep
<1>9. ASSUME CommitArchive PROVE RetentionInv'
    <2>1. job'.at = "idle" /\ job.at = "erase" /\ durable' = live /\ UNCHANGED <<day, live, uneven>>
        BY <1>9, <1>f, IdleSinceType DEF CommitArchive
    <2> QED BY <1>t, <2>1
            DEF RetentionInv, ListStands, LiveInStep, DurableInStep, InStep, Erasing
<1>10. ASSUME NEW u \in Customers, SaveResult(u) PROVE RetentionInv'
    <2>1. /\ job.at = "idle" /\ UNCHANGED <<job, uneven>> /\ durable' = live'
          /\ live'.rolled = live.rolled /\ \A v \in Customers : live.raw[v] \subseteq live'.raw[v]
        BY <1>10, <1>f DEF SaveResult, Observers, Books
    <2> QED BY <1>t, <2>1
            DEF RetentionInv, ListStands, LiveInStep, DurableInStep, InStep, Erasing
<1>11. ASSUME NEW u \in Customers, NEW d \in Days, Compact(u, d) PROVE RetentionInv'
    <2>1. /\ job.at = "idle" /\ UNCHANGED <<job, uneven>> /\ durable' = live'
          /\ live'.raw = live.raw
          /\ \A v \in Customers : live'.rolled[v] \subseteq live.rolled[v] \union live.raw[v]
        BY <1>11, <1>f DEF Compact, Observers, Books
    <2> QED BY <1>t, <2>1
            DEF RetentionInv, ListStands, LiveInStep, DurableInStep, InStep, Erasing
<1>12. ASSUME NEW u \in Customers, UserVisits(u) PROVE RetentionInv'
    <2>1. /\ UNCHANGED <<day, job, uneven>> /\ durable' = live'
          /\ live'.raw = live.raw /\ live'.rolled = live.rolled /\ live'.tariff = live.tariff
          /\ \A v \in Customers \ {u} : live'.seen[v] = live.seen[v]
          /\ Erasing => returned' = returned \union {u}
        BY <1>12, <1>f DEF UserVisits, Returns, Books
    <2>2. ListStands'
        BY <1>f, <2>1 DEF RetentionInv, ListStands, Erasing, Gone, Job
    <2>3. LiveInStep' /\ DurableInStep'
        BY <2>1 DEF RetentionInv, LiveInStep, DurableInStep, InStep, Cutoff
    <2> QED BY <1>t, <2>2, <2>3 DEF RetentionInv
<1>13. ASSUME NEW u \in Customers, NEW tariff \in Tariffs, SwitchTariff(u, tariff) PROVE RetentionInv'
    <2>1. /\ UNCHANGED <<day, job, durable>>
          /\ live'.raw = live.raw /\ live'.rolled = live.rolled /\ live'.seen = live.seen
          /\ \A v \in Customers \ {u} : live'.tariff[v] = live.tariff[v]
          /\ Erasing => returned' = returned \union {u}
          /\ uneven \subseteq uneven' /\ (job.at = "rollups" => u \in uneven')
        BY <1>13, <1>f DEF SwitchTariff, Returns, Books
    <2>2. ListStands'
        BY <1>f, <2>1 DEF RetentionInv, ListStands, Erasing, Gone, Job
    <2>3. LiveInStep' /\ DurableInStep'
        BY <2>1 DEF RetentionInv, LiveInStep, DurableInStep, InStep, Cutoff
    <2> QED BY <1>t, <2>2, <2>3 DEF RetentionInv
<1>14. ASSUME CommitOfOthers PROVE RetentionInv'
    <2>1. UNCHANGED <<day, live, job, uneven, returned>> /\ durable' = live
        BY <1>14 DEF CommitOfOthers, Observers
    <2>2. ListStands' /\ LiveInStep'
        BY <2>1 DEF RetentionInv, ListStands, LiveInStep, InStep, Erasing, Gone, Cutoff
    <2>3. DurableInStep'
        BY <2>1 DEF RetentionInv, LiveInStep, DurableInStep, InStep
    <2> QED BY <1>t, <2>2, <2>3 DEF RetentionInv
<1>15. ASSUME JobFails PROVE RetentionInv'
    <2>1. uneven' = Customers /\ job'.at \in {"idle", "list"}
        BY <1>15, <1>f, IdleSinceType DEF JobFails, Job
    <2> QED BY <1>t, <2>1 DEF RetentionInv, ListStands, LiveInStep, DurableInStep, Erasing
<1>16. ASSUME SchedulerDies PROVE RetentionInv'
    <2>1. /\ job'.at = "idle" /\ live' = durable /\ durable' = durable
          /\ IF job.at = "idle" THEN uneven' = uneven ELSE uneven' = Customers
        BY <1>16, IdleSinceType DEF SchedulerDies
    <2> QED BY <1>t, <2>1
            DEF RetentionInv, ListStands, LiveInStep, DurableInStep, InStep, Erasing
<1>17. ASSUME DayPasses PROVE RetentionInv'
    <2>1. UNCHANGED <<live, durable, job, uneven, returned>> /\ day' = day + 1
        BY <1>17 DEF DayPasses, Observers
    <2>2. \A u \in Customers : Gone(u) => Gone(u)'
        <3>1. \A u \in Customers : live.seen[u] \in Int
            BY <1>f DEF Days
        <3>2. day \in Int /\ AbandonedDays \in Int
            BY <1>t DEF RetentionTypeOK, Days
        <3> QED BY <2>1, <3>1, <3>2 DEF Gone
    <2>3. ListStands'
        BY <1>f, <2>1, <2>2 DEF RetentionInv, ListStands, Erasing, Job
    <2>4. LiveInStep' /\ DurableInStep'
        BY <2>1 DEF RetentionInv, LiveInStep, DurableInStep, InStep, Cutoff
    <2> QED BY <1>t, <2>3, <2>4 DEF RetentionInv
<1>18. ASSUME UNCHANGED retentionVars PROVE RetentionInv'
    <2>1. UNCHANGED <<day, live, durable, job, uneven, returned>>
        BY <1>18 DEF retentionVars, Observers
    <2> QED BY <1>t, <2>1 DEF RetentionInv, ListStands, LiveInStep, DurableInStep, InStep,
                               Erasing, Gone, Cutoff
<1> QED
    BY <1>1, <1>2, <1>3, <1>4, <1>5, <1>6, <1>7, <1>8, <1>9, <1>10, <1>11, <1>12, <1>13,
       <1>14, <1>15, <1>16, <1>17, <1>18
    DEF RetentionNext

\* Except where a plan changed between the two deletions, or a failure or a crash came in
\* between, rollups and results are deleted alike.
THEOREM RollupsFollowResults == RetentionSpec => []Lockstep
<1>1. RetentionInv => Lockstep
    <2> SUFFICES ASSUME RetentionInv, job.at = "idle", NEW u \in Customers \ uneven
                 PROVE  InStep(live, u) /\ InStep(durable, u)
        BY DEF Lockstep, InStep
    <2> QED BY DEF RetentionInv, LiveInStep, DurableInStep
<1> QED BY <1>1, RetentionInvInit, RetentionInvNext, PTL DEF RetentionSpec

-----------------------------------------------------------------------------
(* Steps that delete. *)

KeepsHistory == \A u \in Customers :
    \/ \A d \in Dropped(u) : d < Cutoff(live.tariff[u], job.ran)
    \/ u \in returned
    \/ Gone(u)
    \/ incidents' # incidents

LEMMA StepsKeepHistory == RetentionInv /\ [RetentionNext]_retentionVars => KeepsHistory
<1> SUFFICES ASSUME RetentionInv, [RetentionNext]_retentionVars PROVE KeepsHistory
    OBVIOUS
<1>t. RetentionTypeOK
    BY DEF RetentionInv
<1>f. /\ live.raw \in [Customers -> SUBSET Days] /\ live.rolled \in [Customers -> SUBSET Days]
      /\ job \in Job /\ job.tariff \in Tariffs /\ job.ran \in Days \union {-1}
      /\ live \in Books
    BY <1>t, BooksFields DEF RetentionTypeOK, Job
<1>n. ASSUME \A u \in Customers :
                live.raw[u] \subseteq live'.raw[u] /\ live.rolled[u] \subseteq live'.rolled[u]
      PROVE  KeepsHistory
    BY <1>n DEF KeepsHistory, Dropped
<1>u. ASSUME live' = live PROVE KeepsHistory
    BY <1>n, <1>u
<1>1. ASSUME NEW tariff \in Tariffs, PurgeRaw(tariff) PROVE KeepsHistory
    <2>1. live'.raw = Unexpired(live.raw, tariff, job.ran) /\ live'.rolled = live.rolled
        BY <1>1, <1>f DEF PurgeRaw, Books
    <2> SUFFICES ASSUME NEW u \in Customers, NEW d \in Dropped(u)
                 PROVE  d < Cutoff(live.tariff[u], job.ran)
        BY DEF KeepsHistory
    <2>2. d \in live.raw[u] /\ d \notin Unexpired(live.raw, tariff, job.ran)[u]
        BY <2>1 DEF Dropped
    <2> QED BY <1>f, <2>2, UnexpiredDays
<1>2. ASSUME PurgeRollups PROVE KeepsHistory
    <2>1. live'.rolled = Unexpired(live.rolled, job.tariff, job.ran) /\ live'.raw = live.raw
        BY <1>2, <1>f DEF PurgeRollups, Books
    <2> SUFFICES ASSUME NEW u \in Customers, NEW d \in Dropped(u)
                 PROVE  d < Cutoff(live.tariff[u], job.ran)
        BY DEF KeepsHistory
    <2>2. d \in live.rolled[u] /\ d \notin Unexpired(live.rolled, job.tariff, job.ran)[u]
        BY <2>1 DEF Dropped
    <2> QED BY <1>f, <2>2, UnexpiredDays
<1>3. ASSUME NEW u \in Customers, EraseRaw(u) PROVE KeepsHistory
    <2>1. /\ live'.rolled = live.rolled
          /\ \A v \in Customers \ {u} : live'.raw[v] = live.raw[v]
        BY <1>3, <1>f DEF EraseRaw, Books
    <2>2. u \in returned \/ Gone(u)
        BY <1>3 DEF EraseRaw, Erasing, RetentionInv, ListStands
    <2> QED BY <2>1, <2>2 DEF KeepsHistory, Dropped
<1>4. ASSUME EraseRollups PROVE KeepsHistory
    <2>1. /\ live'.raw = live.raw
          /\ \A v \in Customers \ {job.user} : live'.rolled[v] = live.rolled[v]
        BY <1>4, <1>f DEF EraseRollups, Books
    <2>2. job.user \in returned \/ Gone(job.user)
        BY <1>4 DEF EraseRollups, Erasing, RetentionInv, ListStands
    <2> QED BY <2>1, <2>2 DEF KeepsHistory, Dropped
<1>5. ASSUME PauseMonitors PROVE KeepsHistory
    BY <1>5, <1>f, <1>n DEF PauseMonitors, Books
<1>6. ASSUME NEW u \in Customers, SaveResult(u) \/ UserVisits(u) PROVE KeepsHistory
    BY <1>6, <1>f, <1>n DEF SaveResult, UserVisits, Books
<1>7. ASSUME NEW u \in Customers, NEW d \in Days, Compact(u, d) PROVE KeepsHistory
    BY <1>7, <1>f, <1>n DEF Compact, Books
<1>8. ASSUME NEW u \in Customers, NEW tariff \in Tariffs, SwitchTariff(u, tariff) PROVE KeepsHistory
    BY <1>8, <1>f, <1>n DEF SwitchTariff, Books
<1>9. ASSUME SchedulerDies PROVE KeepsHistory
    BY <1>9, <1>t, IncidentType DEF SchedulerDies, KeepsHistory
<1>10. ASSUME StartPurge \/ CommitPurge \/ ListAbandoned \/ CommitArchive \/ CommitOfOthers
                \/ JobFails \/ DayPasses \/ UNCHANGED retentionVars
       PROVE  KeepsHistory
    BY <1>10, <1>u DEF StartPurge, CommitPurge, ListAbandoned, CommitArchive, CommitOfOthers,
                       JobFails, DayPasses, retentionVars
<1> QED
    BY <1>1, <1>2, <1>3, <1>4, <1>5, <1>6, <1>7, <1>8, <1>9, <1>10 DEF RetentionNext

\* Whatever is deleted had expired under the owner's plan of that moment, or went with an
\* account that was abandoned, or whose owner came back while it was being archived.
THEOREM HistoryIsKept == RetentionSpec => HistoryKept
<1>1. RetentionInv /\ [RetentionNext]_retentionVars =>
        [\A u \in Customers :
            \/ \A d \in Dropped(u) : d < Cutoff(live.tariff[u], job.ran)
            \/ u \in returned
            \/ live.tariff[u] = FreeTariff /\ live.seen[u] < day - AbandonedDays
            \/ incidents' # incidents]_retentionVars
    BY StepsKeepHistory DEF KeepsHistory, Gone
<1> QED BY <1>1, RetentionInvInit, RetentionInvNext, PTL DEF RetentionSpec, HistoryKept


-----------------------------------------------------------------------------
(* The composition. *)

\* Whichever component moves, each behaves as specified on its own: the rest keep still.
THEOREM ServicesAreIndependent ==
    Spec => LimiterSpec /\ QuotaSpec /\ SlugsSpec /\ RetentionSpec /\ DeploySpec
<1>1. Init => LimiterInit /\ QuotaInit /\ SlugsInit /\ RetentionInit /\ DeployInit
    BY DEF Init
<1>2. [Next]_<<part, limiterVars, quotaVars, slugVars, retentionVars, deployVars>>
        => /\ [LimiterNext]_limiterVars /\ [QuotaNext]_quotaVars /\ [SlugsNext]_slugVars
           /\ [RetentionNext]_retentionVars /\ [DeployNext]_deployVars
    BY DEF Next
<1> QED BY <1>1, <1>2, PTL
    DEF Spec, LimiterSpec, QuotaSpec, SlugsSpec, RetentionSpec, DeploySpec

\* The part that moves keeps its type.
THEOREM ServicesTypeCorrect == Spec => []TypeOK
<1>1. LimiterTypeOK /\ QuotaTypeOK /\ SlugsTypeOK /\ RetentionTypeOK /\ DeployTypeOK => TypeOK
    BY DEF TypeOK
<1> QED BY <1>1, ServicesAreIndependent, LimiterTypeCorrect, QuotaTypeCorrect, SlugsTypeCorrect,
    RetentionTypeCorrect, DeployTypeCorrect, PTL

===========================================================================
