------------------------------- MODULE Deploy -------------------------------
(***************************************************************************)
(* Release directories, the symlink that names the active one, and the     *)
(* service that resolved it when it started: deploy/release.sh,            *)
(* deploy/rollback.sh and deploy/pingback.service.                         *)
(*                                                                         *)
(* The scripts take no lock: one operator runs them one after another.     *)
(* Either may stop at any line (set -e, a signal, a reboot), and systemd   *)
(* restarts the service whenever it dies.                                  *)
(***************************************************************************)
EXTENDS Naturals, Sequences

CONSTANTS
    Releases,     \* git shas
    NoRelease,
    KeepReleases, \* KEEP_RELEASES
    MaxScripts    \* bound: runs of the scripts in one behaviour

ASSUME DeployAssumption ==
    /\ NoRelease \notin Releases
    /\ KeepReleases \in Nat \ {0}
    /\ MaxScripts \in Nat

VARIABLES
    kept,      \* the directories under releases/, the one unpacked last at the end
    whole,     \* those that passed the preflight and were not touched since
    current,   \* target of the symlink
    previous,  \* releases/.previous
    master,    \* the directory the gunicorn master was started in
    script,    \* local state of the script that runs
    excused,   \* observer: directories that the operator put at risk
    scripts    \* scripts run so far

deployVars == <<kept, whole, current, previous, master, script, excused, scripts>>

ScriptStages == {"idle", "unpack", "preflight", "swap", "record", "restart", "poll", "prune"}

\* from: PREV_TARGET or CURRENT_TARGET; releases: release.sh and not rollback.sh.
Script == [at : ScriptStages, to : Releases \union {NoRelease},
           from : Releases \union {NoRelease}, releases : BOOLEAN]

NoScript == [at |-> "idle", to |-> NoRelease, from |-> NoRelease, releases |-> FALSE]

Present == {kept[i] : i \in DOMAIN kept}

DeployTypeOK ==
    /\ kept \in Seq(Releases)
    /\ \A i, j \in DOMAIN kept : kept[i] = kept[j] => i = j
    /\ whole \subseteq Present
    /\ {current, previous, master} \subseteq Releases \union {NoRelease}
    /\ script \in Script
    /\ excused \subseteq Releases
    /\ scripts \in 0..MaxScripts

\* A machine that was set up and has no release yet.
DeployInit ==
    /\ kept = <<>>
    /\ whole = {}
    /\ current = NoRelease
    /\ previous = NoRelease
    /\ master = NoRelease
    /\ script = NoScript
    /\ excused = {}
    /\ scripts = 0

Links == <<current, previous>>

Without(sha) ==
    IF sha \notin Present THEN kept
    ELSE LET at == CHOOSE i \in DOMAIN kept : kept[i] = sha IN
        [i \in 1..(Len(kept) - 1) |-> IF i < at THEN kept[i] ELSE kept[i + 1]]

Starts == script.at = "idle" /\ scripts < MaxScripts /\ scripts' = scripts + 1

Goes(stage) == script' = [script EXCEPT !.at = stage]

-----------------------------------------------------------------------------
(* release.sh. *)

\* A directory of that name is removed only with FORCE=1, which the operator gives here
\* whenever it takes it; the removal goes on until Unpack.
StartRelease(sha) ==
    /\ Starts
    /\ script' = [at |-> "unpack", to |-> sha, from |-> current, releases |-> TRUE]
    /\ whole' = whole \ {sha}
    /\ excused' = IF sha \in {current, master} THEN excused \union {sha} ELSE excused
    /\ UNCHANGED <<kept, Links, master>>

\* Variant of Unpack with a bug: the directory goes live before it is filled and tried.
UnpackLive ==
    /\ script.at = "unpack"
    /\ kept' = Append(Without(script.to), script.to)
    /\ current' = script.to
    /\ Goes("preflight")
    /\ UNCHANGED <<whole, previous, master, excused, scripts>>

\* tar, the stamp, the shared paths and the venv.
Unpack ==
    /\ script.at = "unpack"
    /\ kept' = Append(Without(script.to), script.to)
    /\ Goes("preflight")
    /\ UNCHANGED <<whole, Links, master, excused, scripts>>

\* The app can be imported from the directory.
Preflight ==
    /\ script.at = "preflight"
    /\ whole' = whole \union {script.to}
    /\ excused' = excused \ {script.to}
    /\ Goes("swap")
    /\ UNCHANGED <<kept, Links, master, scripts>>

\* In both scripts.
SwapLink ==
    /\ script.at = "swap"
    /\ current' = script.to
    /\ Goes("record")
    /\ UNCHANGED <<kept, whole, previous, master, excused, scripts>>

RecordPrevious ==
    /\ script.at = "record"
    /\ previous' = IF script.from \in {NoRelease, script.to} THEN previous ELSE script.from
    /\ Goes("restart")
    /\ UNCHANGED <<kept, whole, current, master, excused, scripts>>

\* systemctl restart: a new master, which resolves the symlink.
RestartService ==
    /\ script.at = "restart"
    /\ master' = current
    /\ Goes("poll")
    /\ UNCHANGED <<kept, whole, Links, excused, scripts>>

Healthy ==
    /\ script.at = "poll"
    /\ script' = IF script.releases THEN [script EXCEPT !.at = "prune"] ELSE NoScript
    /\ UNCHANGED <<kept, whole, Links, master, excused, scripts>>

\* The symlink goes back, and the master, which is only reloaded, stays where it is;
\* rollback.sh just fails.
Unhealthy ==
    /\ script.at = "poll"
    /\ current' = IF script.releases /\ script.from \in Present THEN script.from ELSE current
    /\ script' = NoScript
    /\ UNCHANGED <<kept, whole, previous, master, excused, scripts>>

\* All but the newest, and the current one.
Doomed == {kept[i] : i \in 1..(Len(kept) - KeepReleases)} \ {current}

Prune(sha) ==
    /\ script.at = "prune"
    /\ sha \in Doomed
    /\ kept' = Without(sha)
    /\ whole' = whole \ {sha}
    /\ UNCHANGED <<Links, master, script, excused, scripts>>

ReleaseDone ==
    /\ script.at = "prune"
    /\ Doomed = {}
    /\ script' = NoScript
    /\ UNCHANGED <<kept, whole, Links, master, excused, scripts>>

-----------------------------------------------------------------------------
(* rollback.sh. *)

\* The newest directory that current does not name.
Latest == LET others == Without(current) IN others[Len(others)]

\* Without an argument the target is .previous; one that is gone or current already gives
\* way to the latest other directory, whatever it holds.
StartRollback(wanted) ==
    /\ Starts
    /\ Present \ {current} # {}
    /\ LET target == IF wanted \in Present \ {current} THEN wanted ELSE Latest IN
        /\ script' = [at |-> "swap", to |-> target, from |-> current, releases |-> FALSE]
        /\ excused' = IF target \in whole THEN excused ELSE excused \union {target}
    /\ UNCHANGED <<kept, whole, Links, master>>

-----------------------------------------------------------------------------
(* What else happens. *)

\* Restart=always, or the machine boots: the symlink is resolved again.
ServiceDies ==
    /\ master # NoRelease
    /\ master' = current
    /\ UNCHANGED <<kept, whole, Links, script, excused, scripts>>

\* A command fails or the script is killed; a directory may be half removed.
ScriptStops ==
    /\ script.at # "idle"
    /\ script' = NoScript
    /\ whole' \in {whole} \union
        {whole \ {sha} : sha \in IF script.at = "prune" THEN Doomed ELSE {}}
    /\ UNCHANGED <<kept, Links, master, excused, scripts>>

DeployNext ==
    \/ \E sha \in Releases : StartRelease(sha) \/ Prune(sha)
    \/ \E wanted \in Present \union {previous} : StartRollback(wanted)
    \/ Unpack \/ Preflight \/ SwapLink \/ RecordPrevious \/ RestartService
    \/ Healthy \/ Unhealthy \/ ReleaseDone
    \/ ServiceDies \/ ScriptStops

DeploySpec == DeployInit /\ [][DeployNext]_deployVars

-----------------------------------------------------------------------------
(* Property. *)

\* What serves the pages, and what would serve them after a crash or a reboot at this
\* moment, was unpacked whole and passed its preflight, wherever a deploy, a rollback or
\* the pruning stopped; except where the operator had a directory in use overwritten, or
\* rolled back when only an unfinished directory was left or that one was asked for.
CurrentIsServable == {current, master} \ {NoRelease} \subseteq whole \union excused

=============================================================================
