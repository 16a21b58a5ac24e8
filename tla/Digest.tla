------------------------------- MODULE Digest -------------------------------
(***************************************************************************)
(* The daily digest: the eligibility rule of pingback/db/digest.py and the *)
(* sending loop of pingback/services/email.py, run by the scheduler's      *)
(* digest job, while users unsubscribe, move to another time zone and lose *)
(* their monitors at any await, mails and statements fail, and the process *)
(* restarts between a mail and its mark.                                   *)
(*                                                                         *)
(* A zone is its distance from UTC.  Mail contents are left out; so is     *)
(* consent_given_at, which every request that enables the digest sets.     *)
(***************************************************************************)
EXTENDS Integers, FiniteSets

CONSTANTS
    Users,
    Zones,       \* offsets from UTC
    Day,         \* length of a day
    SendAt,      \* _DIGEST_SEND_HOUR_LOCAL
    Window,      \* _DIGEST_MATCH_WINDOW_MINUTES
    Period,      \* _DIGEST_TICK_SECONDS
    Lateness,    \* the most a run is late (PeriodicJob, DigestTimer)
    Start,       \* when the process first starts
    End,         \* bound: end of time
    MaxFaults,   \* bound: failures and restarts in one behaviour
    MaxRequests, \* bound: preference and monitor changes in one behaviour
    NoUser

ASSUME DigestAssumption ==
    /\ {Day, SendAt, Window, Period, Lateness, Start, End, MaxFaults, MaxRequests} \subseteq Nat
    /\ Zones \subseteq 0..(Day - 1)
    /\ Window <= SendAt /\ SendAt + Window < Day
    /\ Period > 2 * Window
    /\ Start >= Day /\ Start <= End
    /\ NoUser \notin Users

\* A run that finds a user due, at eight give or take seven minutes, is followed by the next
\* one, a quarter of an hour later, on the same local day.
ASSUME DayAssumption == SendAt + Window + Period + Lateness < Day

VARIABLES
    now,
    enabled,     \* digest_preferences.enabled
    active,      \* the user has an active monitor
    zone,        \* users.timezone
    lastSent,    \* digest_preferences.last_sent_at, NoTime for NULL
    sinceEval,   \* time since _last_digest_tick_at
    pc,          \* step send_daily_digests is at
    todo,        \* users due and still to come
    user,        \* the user the loop is at
    faults,
    requests,
    listed,      \* observer: users the run found due
    served,      \* observer: of those, the ones mailed, or marked with nothing to report
    failed,      \* observer: of those, the ones whose own step raised
    mailed,      \* observer: when the last digest of each user went out
    excused,     \* observer: since then, or since the run that sent it found the user due, the
                 \* process restarted or the user moved
    moved,       \* observer: users listed by the last run who moved since
    matches      \* observer: runs that found the user inside the current or last window

prefs == <<enabled, active, zone>>
observed == <<listed, served, failed, moved>>
vars == <<now, enabled, active, zone, lastSent, sinceEval, pc, todo, user, faults, requests,
          listed, served, failed, moved, mailed, excused, matches>>

NoTime == -1

TypeOK ==
    /\ now \in Start..End
    /\ enabled \in [Users -> BOOLEAN]
    /\ active \in [Users -> BOOLEAN]
    /\ zone \in [Users -> Zones]
    /\ lastSent \in [Users -> (Start..End) \union {NoTime}]
    /\ sinceEval \in 0..(Period + Lateness)
    /\ pc \in {"idle", "stats", "send", "mark", "down"}
    /\ todo \subseteq Users
    /\ user \in Users \union {NoUser}
    /\ faults \in 0..MaxFaults
    /\ requests \in 0..MaxRequests
    /\ listed \subseteq Users /\ served \subseteq listed /\ failed \subseteq listed
    /\ moved \subseteq listed
    /\ mailed \in [Users -> (Start..End) \union {NoTime}]
    /\ excused \in [Users -> BOOLEAN]
    /\ matches \in [Users -> Nat]

Init ==
    /\ now = Start
    /\ enabled = [u \in Users |-> TRUE]
    /\ active = [u \in Users |-> TRUE]
    /\ zone \in [Users -> Zones]
    /\ lastSent = [u \in Users |-> NoTime]
    /\ sinceEval = Period
    /\ pc = "idle"
    /\ todo = {}
    /\ user = NoUser
    /\ faults = 0
    /\ requests = 0
    /\ listed = {}
    /\ served = {}
    /\ failed = {}
    /\ moved = {}
    /\ mailed = [u \in Users |-> NoTime]
    /\ excused = [u \in Users |-> FALSE]
    /\ matches = [u \in Users |-> 0]

-----------------------------------------------------------------------------
(* Local time. *)

LocalTime(u, time) == (time + zone[u]) % Day

LocalToday(u, time) == time - LocalTime(u, time)

\* Variant with a bug: the window is as wide as the period on either side.
InWindowTooWide(u, time) ==
    LET local == LocalTime(u, time)
    IN SendAt - Period <= local /\ local <= SendAt + Period

InWindow(u, time) ==
    LET local == LocalTime(u, time)
    IN SendAt - Window <= local /\ local <= SendAt + Window

\* Variant with a bug: the last digest is not looked at.
DueAgain(u, time) ==
    /\ enabled[u]
    /\ active[u]
    /\ InWindow(u, time)

\* get_users_due_for_digest.
Due(u, time) ==
    /\ enabled[u]
    /\ active[u]
    /\ InWindow(u, time)
    /\ lastSent[u] = NoTime \/ lastSent[u] < LocalToday(u, time)

-----------------------------------------------------------------------------
(* Requests. *)

\* disable_digest_by_token, or the settings form.
SetEnabled(u, on) ==
    /\ pc # "down"
    /\ requests < MaxRequests
    /\ enabled[u] # on
    /\ requests' = requests + 1
    /\ enabled' = [enabled EXCEPT ![u] = on]
    /\ UNCHANGED <<now, active, zone, lastSent, sinceEval, pc, todo, user, faults, observed,
                   mailed, excused, matches>>

\* The user's first active monitor is created or the last one deleted or archived.
SetActive(u, on) ==
    /\ pc # "down"
    /\ requests < MaxRequests
    /\ active[u] # on
    /\ requests' = requests + 1
    /\ active' = [active EXCEPT ![u] = on]
    /\ UNCHANGED <<now, enabled, zone, lastSent, sinceEval, pc, todo, user, faults, observed,
                   mailed, excused, matches>>

Move(u, z) ==
    /\ pc # "down"
    /\ requests < MaxRequests
    /\ zone[u] # z
    /\ requests' = requests + 1
    /\ zone' = [zone EXCEPT ![u] = z]
    /\ excused' = [excused EXCEPT ![u] = TRUE]
    /\ matches' = [matches EXCEPT ![u] = 0]
    /\ moved' = moved \union ({u} \intersect listed)
    /\ UNCHANGED <<now, enabled, active, lastSent, sinceEval, pc, todo, user, faults, listed,
                   served, failed, mailed>>

-----------------------------------------------------------------------------
(* send_daily_digests. *)

\* _maybe_send_digests when its period has elapsed, up to the list of users due.
Evaluate ==
    /\ pc = "idle"
    /\ sinceEval >= Period
    /\ sinceEval' = 0
    /\ todo' = {u \in Users : Due(u, now)}
    /\ listed' = todo'
    /\ served' = {}
    /\ failed' = {}
    /\ moved' = {}
    /\ matches' = [u \in Users |-> IF InWindow(u, now) THEN matches[u] + 1 ELSE matches[u]]
    /\ pc' = "stats"
    /\ UNCHANGED <<now, prefs, lastSent, user, faults, requests, mailed, excused>>

\* The next user's stats: no active monitor or no check means there is nothing to report.
ReadStats(u) ==
    /\ pc = "stats"
    /\ u \in todo
    /\ todo' = todo \ {u}
    /\ user' = u
    /\ \/ active[u] /\ pc' = "send"
       \/ pc' = "mark"
    /\ UNCHANGED <<now, prefs, lastSent, sinceEval, faults, requests, observed, mailed, excused,
                   matches>>

\* Variant with a bug: the mail is sent and not marked.
SendUnmarked ==
    /\ pc = "send"
    /\ mailed' = [mailed EXCEPT ![user] = now]
    /\ excused' = [excused EXCEPT ![user] = user \in moved]
    /\ served' = served \union {user}
    /\ user' = NoUser
    /\ pc' = "stats"
    /\ UNCHANGED <<now, prefs, lastSent, sinceEval, todo, faults, requests, listed, failed, moved, matches>>

\* The provider accepts the mail.
Send ==
    /\ pc = "send"
    /\ mailed' = [mailed EXCEPT ![user] = now]
    /\ excused' = [excused EXCEPT ![user] = user \in moved]
    /\ pc' = "mark"
    /\ UNCHANGED <<now, prefs, lastSent, sinceEval, todo, user, faults, requests, observed, matches>>

\* mark_digest_sent.
Mark ==
    /\ pc = "mark"
    /\ lastSent' = [lastSent EXCEPT ![user] = now]
    /\ served' = served \union {user}
    /\ user' = NoUser
    /\ pc' = "stats"
    /\ UNCHANGED <<now, prefs, sinceEval, todo, faults, requests, listed, failed, moved, mailed,
                   excused, matches>>

\* Variant with a bug: the exception ends the run.
StepFailsRun ==
    /\ pc \in {"send", "mark"}
    /\ faults < MaxFaults
    /\ faults' = faults + 1
    /\ failed' = failed \union {user}
    /\ user' = NoUser
    /\ todo' = {}
    /\ pc' = "stats"
    /\ UNCHANGED <<now, prefs, lastSent, sinceEval, requests, listed, served, moved, mailed,
                   excused, matches>>

\* Variant with a bug: the exception is not caught and ends the scheduler.
StepFailsHangs ==
    /\ pc \in {"send", "mark"}
    /\ faults < MaxFaults
    /\ faults' = faults + 1
    /\ pc' = "dead"
    /\ UNCHANGED <<now, prefs, lastSent, sinceEval, todo, user, requests, observed, mailed,
                   excused, matches>>

\* The stats query, the provider or the mark raises: logged, and on to the next user.
StepFails ==
    /\ pc \in {"send", "mark"}
    /\ faults < MaxFaults
    /\ faults' = faults + 1
    /\ failed' = failed \union {user}
    /\ user' = NoUser
    /\ pc' = "stats"
    /\ UNCHANGED <<now, prefs, lastSent, sinceEval, todo, requests, listed, served, moved, mailed,
                   excused, matches>>

FinishRun ==
    /\ pc = "stats"
    /\ todo = {}
    /\ pc' = "idle"
    /\ UNCHANGED <<now, prefs, lastSent, sinceEval, todo, user, faults, requests, observed,
                   mailed, excused, matches>>

-----------------------------------------------------------------------------
(* Restarts and time. *)

Crash ==
    /\ pc # "down"
    /\ faults < MaxFaults
    /\ faults' = faults + 1
    /\ pc' = "down"
    /\ todo' = {}
    /\ user' = NoUser
    /\ sinceEval' = Period
    /\ listed' = {} /\ served' = {} /\ failed' = {} /\ moved' = {}
    /\ excused' = [u \in Users |-> TRUE]
    /\ matches' = [u \in Users |-> 0]
    /\ UNCHANGED <<now, prefs, lastSent, requests, mailed>>

Restart ==
    /\ pc = "down"
    /\ pc' = "idle"
    /\ UNCHANGED <<now, prefs, lastSent, sinceEval, todo, user, faults, requests, observed,
                   mailed, excused, matches>>

TimePasses ==
    /\ now < End
    /\ now' = now + 1
    /\ IF pc = "down" THEN UNCHANGED sinceEval
       ELSE sinceEval < Period + Lateness /\ sinceEval' = sinceEval + 1
    /\ matches' = [u \in Users |-> IF ~InWindow(u, now) /\ InWindow(u, now') THEN 0 ELSE matches[u]]
    /\ UNCHANGED <<prefs, lastSent, pc, todo, user, faults, requests, observed, mailed, excused>>

Run ==
    \/ Evaluate
    \/ \E u \in Users : ReadStats(u)
    \/ Send
    \/ Mark
    \/ FinishRun

Next ==
    \/ Run
    \/ StepFails
    \/ \E u \in Users :
        \/ \E on \in BOOLEAN : SetEnabled(u, on) \/ SetActive(u, on)
        \/ \E z \in Zones : Move(u, z)
    \/ Crash
    \/ Restart
    \/ TimePasses

Spec == Init /\ [][Next]_vars

-----------------------------------------------------------------------------
(* Properties. *)

\* A mail to u that goes out less than the morning after the last one.
Repeats(u) ==
    /\ pc = "send" /\ user = u /\ pc' = "mark"
    /\ mailed[u] # NoTime
    /\ now - mailed[u] < SendAt - Window

\* A user gets a second digest less than the morning after the last one only if that
\* one was never marked, and then only across a restart or a move: a failed mark alone
\* does no harm, because no second run falls into the same window.
DigestNotRepeated == [][\A u \in Users :
    Repeats(u) => excused[u] /\ lastSent[u] < mailed[u]]_vars

\* At most one run of the job falls into a user's window, as the comment on
\* _DIGEST_TICK_SECONDS says, while the process stays up.
AtMostOneMatch == \A u \in Users : matches[u] <= 1

\* One user's failing query, mail or mark never costs another user the digest: when a
\* run is over every user it found due was served or failed on its own account.
FailuresStayLocal == pc = "idle" => listed = served \union failed

\* What the comment on the window says: there is an eligible run on every local day
\* that passes while the process is up.
SomeMatch == pc = "idle" /\ faults = 0 /\ requests = 0 => \A u \in Users :
    LocalTime(u, now) = SendAt + Window + 1 /\ now > Start + 2 * Window => matches[u] >= 1

=============================================================================
