------------------------------ MODULE Accounts ------------------------------
(***************************************************************************)
(* Accounts, sign-in tokens and dashboard sessions: the account handlers   *)
(* of routes/dashboard.py and routes/users.py over auth.py and session.py. *)
(*                                                                         *)
(* Every handler of the process runs on one sqlite connection, so there is *)
(* one open transaction for all of them: db is what the connection sees,   *)
(* disk what has been committed, and whoever commits, commits everybody's  *)
(* statements.  A handler is one step per statement and one per commit;    *)
(* handlers interleave between them, a statement may fail, and a crash     *)
(* falls back to disk.  The reads a handler begins with are its arrival; a *)
(* handler that turns its request away there changes nothing and is left   *)
(* out.  Passwords are abstracted to whether one is set (a client may      *)
(* always type the right one), the expiry of a token to the client being   *)
(* turned away, and what one handler draws at random to one number.        *)
(***************************************************************************)
EXTENDS Naturals

CONSTANTS
    Users,        \* user ids, each drawn once (uuid4)
    Emails,       \* normalised addresses
    Requests,     \* requests that can be under way at once
    NoUser,       \* no user
    NoEmail,      \* no address
    NoRow,        \* no row in the users table
    MaxSecrets,   \* bound: draws of tokens, session ids and API keys in one behaviour
    MaxFaults     \* bound: crashes and failed statements in one behaviour

ASSUME AccountsAssumption ==
    /\ NoUser \notin Users
    /\ NoEmail \notin Emails
    /\ MaxSecrets \in Nat
    /\ MaxFaults \in Nat

VARIABLES
    db,           \* tables as the connection sees them
    disk,         \* tables as committed
    requests,     \* local state of each request
    minted,       \* draws so far; what the n-th yields is secret n
    issued,       \* user ids drawn so far
    known,        \* secrets that left the server, in a mail, a page or a cookie
    spent,        \* observer: tokens a committed verification or reset consumed
    shown,        \* observer: accounts whose signup page was answered
    erased,       \* observer: accounts whose deletion was answered
    faults

vars == <<db, disk, requests, minted, issued, known, spent, shown, erased, faults>>

-----------------------------------------------------------------------------
(* Tables and requests. *)

Secrets == 1..MaxSecrets

\* users: verification_token and reset_token are 0 when NULL, key (api_key) is 0 for
\* the one an old account has had all along.
Row == [email : Emails, hasPassword : BOOLEAN, verified : BOOLEAN,
        verification : 0..MaxSecrets, reset : 0..MaxSecrets, key : 0..MaxSecrets]

ASSUME RowAssumption == NoRow \notin Row

\* sessions maps a session id to its user_id; prefs are digest_preferences rows.
Tables == [users : [Users -> Row \union {NoRow}],
           prefs : SUBSET Users,
           sessions : [Secrets -> Users \union {NoUser}]]

Kinds == {"none", "signup", "verify", "reset", "change", "login", "mail",
          "rotate", "delete", "logout"}

Stages == {"idle", "insertUser", "insertPrefs", "markVerified", "setPassword",
           "dropSessions", "newSession", "endSession", "issueVerification",
           "issueReset", "rotateKey", "deleteUser"}

\* open: the stage's statement has run and its commit has not.
Request == [kind : Kinds, at : Stages, user : Users \union {NoUser},
            email : Emails \union {NoEmail}, given : 0..MaxSecrets,
            secret : 0..MaxSecrets, open : BOOLEAN, since : 0..MaxSecrets]

Idle == [kind |-> "none", at |-> "idle", user |-> NoUser, email |-> NoEmail,
         given |-> 0, secret |-> 0, open |-> FALSE, since |-> 0]

TypeOK ==
    /\ db \in Tables
    /\ disk \in Tables
    /\ requests \in [Requests -> Request]
    /\ minted \in 0..MaxSecrets
    /\ issued \subseteq Users
    /\ known \subseteq Secrets
    /\ spent \subseteq Secrets
    /\ shown \subseteq Users
    /\ erased \subseteq Users
    /\ faults \in 0..MaxFaults

HasRow(tables, u) == u \in Users /\ tables.users[u] # NoRow

Taken(e) == \E u \in Users : db.users[u] # NoRow /\ db.users[u].email = e

SetRow(u, row) == [db EXCEPT !.users[u] = row]

\* UPDATE users SET ... WHERE id = u: no row, nothing to update.
WithRow(u, row) == IF HasRow(db, u) THEN SetRow(u, row) ELSE db

\* An account that predates passwords is verified; initialize_database repeats the
\* migration that says so at every start.
Migrated(tables) ==
    [tables EXCEPT !.users = [u \in Users |->
        IF tables.users[u] # NoRow /\ ~tables.users[u].hasPassword
        THEN [tables.users[u] EXCEPT !.verified = TRUE]
        ELSE tables.users[u]]]

Empty == [users |-> [u \in Users |-> NoRow], prefs |-> {},
          sessions |-> [s \in Secrets |-> NoUser]]

\* A verified account, or one from before passwords.
Earlier(e, password) == [email |-> e, hasPassword |-> password, verified |-> TRUE,
                         verification |-> 0, reset |-> 0, key |-> 0]

\* The process starts on a fresh database, or on one with an account in it.
Init ==
    /\ \/ db = Empty /\ issued = {}
       \/ \E u \in Users, e \in Emails, password \in BOOLEAN :
            /\ db = [Empty EXCEPT !.users[u] = Earlier(e, password), !.prefs = {u}]
            /\ issued = {u}
    /\ disk = db
    /\ requests = [r \in Requests |-> Idle]
    /\ minted = 0
    /\ known = {}
    /\ spent = {}
    /\ shown = {}
    /\ erased = {}
    /\ faults = 0

-----------------------------------------------------------------------------
(* Arrivals: a request comes in and its handler's first reads accept it. *)

Begin(r, kind, at, u, given) ==
    /\ requests[r].at = "idle"
    /\ requests' = [requests EXCEPT ![r] =
            [Idle EXCEPT !.kind = kind, !.at = at, !.user = u, !.given = given,
                         !.since = IF kind = "login" THEN minted ELSE 0]]

\* A handler that has only read so far.
Reads == UNCHANGED <<db, disk, minted, issued, known, spent, shown, erased, faults>>

\* signup_submit finds no account with the address and draws an id.
SignupSubmit(r, u, e) ==
    /\ requests[r].at = "idle"
    /\ ~Taken(e)
    /\ u \notin issued
    /\ issued' = issued \union {u}
    /\ requests' = [requests EXCEPT ![r] =
            [Idle EXCEPT !.kind = "signup", !.at = "insertUser", !.user = u, !.email = e]]
    /\ UNCHANGED <<db, disk, minted, known, spent, shown, erased, faults>>

\* Variant of LoginSubmit with a bug: email_verified is not looked at.
LoginUnverified(r, u) ==
    /\ HasRow(db, u)
    /\ IF db.users[u].hasPassword
       THEN Begin(r, "login", "dropSessions", u, 0)
       ELSE Begin(r, "mail", "issueReset", u, 0)
    /\ Reads

\* login_submit with the account's address and, where one is set, its password.
LoginSubmit(r, u) ==
    /\ HasRow(db, u)
    /\ LET row == db.users[u] IN
        \/ ~row.hasPassword /\ Begin(r, "mail", "issueReset", u, 0)
        \/ row.hasPassword /\ ~row.verified /\ Begin(r, "mail", "issueVerification", u, 0)
        \/ row.hasPassword /\ row.verified /\ Begin(r, "login", "dropSessions", u, 0)
    /\ Reads

ForgotPasswordSubmit(r, u) ==
    /\ HasRow(db, u)
    /\ Begin(r, "mail", "issueReset", u, 0)
    /\ Reads

\* resend_verification.  resend_verification_from_settings would do the same for a
\* signed-in account that is not verified, but no state has one (SessionsAreVerified).
ResendVerification(r, u) ==
    /\ HasRow(db, u)
    /\ ~db.users[u].verified
    /\ Begin(r, "mail", "issueVerification", u, 0)
    /\ Reads

\* verify_email, on a link that was mailed.
VerifyEmail(r, u, t) ==
    /\ t \in known
    /\ HasRow(db, u)
    /\ db.users[u].verification = t
    /\ Begin(r, "verify", "markVerified", u, t)
    /\ Reads

ResetPasswordSubmit(r, u, t) ==
    /\ t \in known
    /\ HasRow(db, u)
    /\ db.users[u].reset = t
    /\ Begin(r, "reset", "setPassword", u, t)
    /\ Reads

\* _get_ui_user resolves the cookie to the account u, notes the visit and commits.
SignedIn(u, s) ==
    /\ s \in known
    /\ db.sessions[s] = u
    /\ HasRow(db, u)
    /\ disk' = db
    /\ UNCHANGED <<db, minted, issued, known, spent, shown, erased, faults>>

\* change_password with the right current password.
ChangePassword(r, u, s) ==
    /\ SignedIn(u, s)
    /\ db.users[u].hasPassword
    /\ Begin(r, "change", "setPassword", u, 0)

RotateKeyOnPage(r, u, s) == SignedIn(u, s) /\ Begin(r, "rotate", "rotateKey", u, s)

DeleteAccount(r, u, s) == SignedIn(u, s) /\ Begin(r, "delete", "deleteUser", u, s)

\* logout asks for no account behind the cookie.
Logout(r, s) ==
    /\ s \in known
    /\ Begin(r, "logout", "endSession", NoUser, s)
    /\ Reads

\* get_current_user, on the account's API key: _lookup_user notes the visit and commits.
KeyHolder(u) ==
    /\ HasRow(db, u)
    /\ db.users[u].key \in known \union {0}
    /\ disk' = db
    /\ UNCHANGED <<db, minted, issued, known, spent, shown, erased, faults>>

RotateApiKey(r, u) == KeyHolder(u) /\ Begin(r, "rotate", "rotateKey", u, 0)

DeleteByApi(r, u) == KeyHolder(u) /\ Begin(r, "delete", "deleteUser", u, 0)

-----------------------------------------------------------------------------
(* Statements: what a stage executes before its commit. *)

At(r, stage) == requests[r].at = stage /\ ~requests[r].open

\* The statement leaves db' behind and its commit to come; secret is what it drew.
Run(r, secret) ==
    requests' = [requests EXCEPT ![r].open = TRUE, ![r].secret = secret]

Draw == minted < MaxSecrets /\ minted' = minted + 1

\* The handler ends without a reply that promises anything.
Abandon(r) == requests' = [requests EXCEPT ![r] = Idle]

Observed == <<known, spent, shown, erased>>

\* Variants of InsertUser with a bug: no unique index on email_hash ...
InsertAnyway(r) ==
    /\ At(r, "insertUser")
    /\ Draw
    /\ db' = SetRow(requests[r].user,
                [email |-> requests[r].email, hasPassword |-> TRUE, verified |-> FALSE,
                 verification |-> minted', reset |-> 0, key |-> minted'])
    /\ requests' = [requests EXCEPT ![r].at = "insertPrefs", ![r].secret = minted']
    /\ UNCHANGED <<disk, issued, Observed, faults>>

\* ... or no digest preferences are created with the account.
InsertUserAlone(r) ==
    /\ At(r, "insertUser")
    /\ ~Taken(requests[r].email)
    /\ Draw
    /\ db' = SetRow(requests[r].user,
                [email |-> requests[r].email, hasPassword |-> TRUE, verified |-> FALSE,
                 verification |-> minted', reset |-> 0, key |-> minted'])
    /\ Run(r, minted')
    /\ UNCHANGED <<disk, issued, Observed, faults>>

\* INSERT INTO users; the commit comes after the next INSERT only.
InsertUser(r) ==
    /\ At(r, "insertUser")
    /\ ~Taken(requests[r].email)
    /\ Draw
    /\ db' = SetRow(requests[r].user,
                [email |-> requests[r].email, hasPassword |-> TRUE, verified |-> FALSE,
                 verification |-> minted', reset |-> 0, key |-> minted'])
    /\ requests' = [requests EXCEPT ![r].at = "insertPrefs", ![r].secret = minted']
    /\ UNCHANGED <<disk, issued, Observed, faults>>

\* Another signup took the address since: the unique index on email_hash refuses.
DuplicateEmail(r) ==
    /\ At(r, "insertUser")
    /\ Taken(requests[r].email)
    /\ Abandon(r)
    /\ UNCHANGED <<db, disk, minted, issued, Observed, faults>>

\* Variant of InsertPrefs with a bug: a signup whose account has gone starts over.
InsertPrefsRetrying(r) ==
    /\ At(r, "insertPrefs")
    /\ LET q == requests[r]
           fresh == [email |-> q.email, hasPassword |-> TRUE, verified |-> FALSE,
                     verification |-> q.secret, reset |-> 0, key |-> q.secret] IN
        db' = [IF HasRow(db, q.user) \/ Taken(q.email) THEN db ELSE SetRow(q.user, fresh)
                EXCEPT !.prefs = @ \union {q.user}]
    /\ Run(r, requests[r].secret)
    /\ UNCHANGED <<disk, minted, issued, Observed, faults>>

InsertPrefs(r) ==
    /\ At(r, "insertPrefs")
    /\ LET u == requests[r].user IN
        IF HasRow(db, u) /\ u \notin db.prefs
        THEN db' = [db EXCEPT !.prefs = @ \union {u}] /\ Run(r, requests[r].secret)
        ELSE Abandon(r) /\ UNCHANGED db
    /\ UNCHANGED <<disk, minted, issued, Observed, faults>>

\* Variants of MarkVerified with a bug: the token stays on file ...
MarkVerifiedKeeping(r) ==
    /\ At(r, "markVerified")
    /\ db' = WithRow(requests[r].user, [db.users[requests[r].user] EXCEPT !.verified = TRUE])
    /\ Run(r, 0)
    /\ UNCHANGED <<disk, minted, issued, Observed, faults>>

\* ... or the row is replaced by one with the new columns only.
MarkVerifiedReplacing(r) ==
    /\ At(r, "markVerified")
    /\ db' = WithRow(requests[r].user,
                [email |-> NoEmail, hasPassword |-> FALSE, verified |-> TRUE,
                 verification |-> 0, reset |-> 0, key |-> 0])
    /\ Run(r, 0)
    /\ UNCHANGED <<disk, minted, issued, Observed, faults>>

\* verify_email; a row that has gone is not noticed.
MarkVerified(r) ==
    /\ At(r, "markVerified")
    /\ LET u == requests[r].user IN
        db' = WithRow(u, [db.users[u] EXCEPT !.verified = TRUE, !.verification = 0])
    /\ Run(r, 0)
    /\ UNCHANGED <<disk, minted, issued, Observed, faults>>

\* reset_password_submit and change_password.
SetPassword(r) ==
    /\ At(r, "setPassword")
    /\ LET u == requests[r].user
           row == db.users[u] IN
        db' = WithRow(u, IF requests[r].kind = "reset"
                         THEN [row EXCEPT !.hasPassword = TRUE, !.verified = TRUE,
                                          !.reset = 0, !.verification = 0]
                         ELSE [row EXCEPT !.hasPassword = TRUE])
    /\ requests' = [requests EXCEPT ![r].open = TRUE, ![r].since = minted]
    /\ UNCHANGED <<disk, minted, issued, Observed, faults>>

\* delete_sessions_for_user.
DropSessions(r) ==
    /\ At(r, "dropSessions")
    /\ db' = [db EXCEPT !.sessions = [s \in Secrets |->
                IF @[s] = requests[r].user THEN NoUser ELSE @[s]]]
    /\ Run(r, 0)
    /\ UNCHANGED <<disk, minted, issued, Observed, faults>>

\* Variant of NewSession with a bug: no foreign key on sessions.user_id.
NewSessionUnchecked(r) ==
    /\ At(r, "newSession")
    /\ Draw
    /\ db' = [db EXCEPT !.sessions[minted'] = requests[r].user]
    /\ Run(r, minted')
    /\ UNCHANGED <<disk, issued, Observed, faults>>

\* create_session: the foreign key refuses a user that has gone.
NewSession(r) ==
    /\ At(r, "newSession")
    /\ LET u == requests[r].user IN
        IF HasRow(db, u)
        THEN /\ Draw
             /\ db' = [db EXCEPT !.sessions[minted'] = u]
             /\ Run(r, minted')
        ELSE /\ Abandon(r)
             /\ UNCHANGED <<db, minted>>
    /\ UNCHANGED <<disk, issued, Observed, faults>>

\* Variant of EndSession with a bug: the visitor's session is written back, to stay signed in.
EndSessionKeeping(r) ==
    /\ At(r, "endSession")
    /\ db' = [db EXCEPT !.sessions = [s \in Secrets |->
                IF s = requests[r].given /\ HasRow(db, requests[r].user)
                THEN requests[r].user ELSE @[s]]]
    /\ Run(r, 0)
    /\ UNCHANGED <<disk, minted, issued, Observed, faults>>

\* _end_session: delete_session for the cookie's id.
EndSession(r) ==
    /\ At(r, "endSession")
    /\ db' = [db EXCEPT !.sessions = [s \in Secrets |->
                IF s = requests[r].given THEN NoUser ELSE @[s]]]
    /\ Run(r, 0)
    /\ UNCHANGED <<disk, minted, issued, Observed, faults>>

\* _issue_verification_token and _issue_reset_token.
IssueToken(r) ==
    /\ At(r, "issueVerification") \/ At(r, "issueReset")
    /\ Draw
    /\ LET u == requests[r].user IN
        db' = WithRow(u, IF requests[r].at = "issueReset"
                         THEN [db.users[u] EXCEPT !.reset = minted']
                         ELSE [db.users[u] EXCEPT !.verification = minted'])
    /\ Run(r, minted')
    /\ UNCHANGED <<disk, issued, Observed, faults>>

\* rotate_key and rotate_api_key; the second answers 404 when the row has gone.
RotateKey(r) ==
    /\ At(r, "rotateKey")
    /\ Draw
    /\ LET u == requests[r].user IN
        db' = WithRow(u, [db.users[u] EXCEPT !.key = minted'])
    /\ Run(r, minted')
    /\ UNCHANGED <<disk, issued, Observed, faults>>

\* delete_account and delete_user: the foreign keys cascade.
DeleteUser(r) ==
    /\ At(r, "deleteUser")
    /\ LET u == requests[r].user IN
        db' = [users |-> [db.users EXCEPT ![u] = NoRow],
               prefs |-> db.prefs \ {u},
               sessions |-> [s \in Secrets |->
                    IF db.sessions[s] = u THEN NoUser ELSE db.sessions[s]]]
    /\ Run(r, 0)
    /\ UNCHANGED <<disk, minted, issued, Observed, faults>>

-----------------------------------------------------------------------------
(* Commits, replies and faults. *)

\* Variant of After with a bug: a new password only adds a session (_start_session).
AfterWithoutRotation(request) ==
    CASE request.at \in {"setPassword", "dropSessions", "markVerified"} -> "newSession"
      [] request.at \in {"rotateKey", "deleteUser"} /\ request.given # 0 -> "endSession"
      [] OTHER -> "idle"

\* The stage after a commit; "idle" is the reply.
After(request) ==
    CASE request.at = "setPassword" -> "dropSessions"
      [] request.at \in {"dropSessions", "markVerified"} -> "newSession"
      [] request.at \in {"rotateKey", "deleteUser"} /\ request.given # 0 -> "endSession"
      [] OTHER -> "idle"

\* What the client holds and may rely on once the handler has answered; a deletion
\* that finds no row answers that there is none.
Reply(r) ==
    LET request == requests[r] IN
        /\ known' = known \union ({request.secret} \ {0})
        /\ shown' = shown \union {u \in Users : request.kind = "signup" /\ u = request.user}
        /\ erased' = erased \union {u \in Users : request.kind = "delete" /\ u = request.user}
        /\ Abandon(r)

\* The commit that makes the token the client gave useless.
Consumes(request) ==
    \/ request.at = "markVerified"
    \/ request.kind = "reset" /\ request.at = "setPassword"

\* Variant of Commit with a bug: the last commit before the reply is missing.
ReplyUncommitted(r) ==
    /\ requests[r].open
    /\ LET request == requests[r] IN
        /\ spent' = IF Consumes(request) THEN spent \union ({request.given} \ {0}) ELSE spent
        /\ IF After(request) = "idle"
           THEN Reply(r) /\ UNCHANGED disk
           ELSE /\ requests' = [requests EXCEPT ![r].at = After(request), ![r].open = FALSE,
                                                ![r].secret = 0]
                /\ disk' = db
                /\ UNCHANGED <<known, shown, erased>>
    /\ UNCHANGED <<db, minted, issued, faults>>

\* Everything executed on the connection so far is committed, whoever executed it.
Commit(r) ==
    /\ requests[r].open
    /\ disk' = db
    /\ LET request == requests[r] IN
        /\ spent' = IF Consumes(request) THEN spent \union ({request.given} \ {0}) ELSE spent
        /\ IF After(request) = "idle"
           THEN Reply(r)
           ELSE /\ requests' = [requests EXCEPT ![r].at = After(request), ![r].open = FALSE,
                                                ![r].secret = 0]
                /\ UNCHANGED <<known, shown, erased>>
    /\ UNCHANGED <<db, minted, issued, faults>>

\* Any page view, API call or check result commits on the same connection.
CommitByOthers ==
    /\ disk # db
    /\ disk' = db
    /\ UNCHANGED <<db, requests, minted, issued, Observed, faults>>

\* lookup_session_user_id meets a row past its expires_at.
ExpireSession(s) ==
    /\ s \in known
    /\ db.sessions[s] # NoUser
    /\ db' = [db EXCEPT !.sessions[s] = NoUser]
    /\ disk' = db'
    /\ UNCHANGED <<requests, minted, issued, Observed, faults>>

\* A statement or a commit raises (the database is busy for more than 5 s, the disk is
\* full).  What the handler executed before stays in the open transaction: nothing
\* rolls it back.  _end_session alone swallows the exception and answers.
RequestFails(r) ==
    /\ requests[r].at # "idle"
    /\ faults < MaxFaults
    /\ faults' = faults + 1
    /\ IF requests[r].at = "endSession"
       THEN Reply(r)
       ELSE Abandon(r) /\ UNCHANGED <<known, shown, erased>>
    /\ UNCHANGED <<db, disk, minted, issued, spent>>

\* The process dies and is started again.
Crash ==
    /\ faults < MaxFaults
    /\ faults' = faults + 1
    /\ db' = Migrated(disk)
    /\ disk' = db'
    /\ requests' = [r \in Requests |-> Idle]
    /\ UNCHANGED <<minted, issued, Observed>>

-----------------------------------------------------------------------------
(* The specification. *)

ByAddress(r, u) ==
    LoginSubmit(r, u) \/ ForgotPasswordSubmit(r, u) \/ ResendVerification(r, u)

ByLink(r, u, t) == VerifyEmail(r, u, t) \/ ResetPasswordSubmit(r, u, t)

ByCookie(r, u, s) ==
    ChangePassword(r, u, s) \/ RotateKeyOnPage(r, u, s) \/ DeleteAccount(r, u, s)

Statement(r) ==
    \/ InsertUser(r) \/ DuplicateEmail(r) \/ InsertPrefs(r)
    \/ MarkVerified(r) \/ SetPassword(r) \/ DropSessions(r) \/ NewSession(r)
    \/ EndSession(r) \/ IssueToken(r) \/ RotateKey(r) \/ DeleteUser(r)

Next ==
    \/ \E r \in Requests :
        \/ \E u \in Users, e \in Emails : SignupSubmit(r, u, e)
        \/ \E u \in Users : ByAddress(r, u) \/ RotateApiKey(r, u) \/ DeleteByApi(r, u)
        \/ \E u \in Users, s \in Secrets : ByLink(r, u, s) \/ ByCookie(r, u, s)
        \/ \E s \in Secrets : Logout(r, s)
        \/ Statement(r)
        \/ Commit(r)
        \/ RequestFails(r)
    \/ \E s \in Secrets : ExpireSession(s)
    \/ CommitByOthers
    \/ Crash

Spec == Init /\ [][Next]_vars

-----------------------------------------------------------------------------
(* Safety. *)

Owned(tables) ==
    /\ \A s \in Secrets : tables.sessions[s] # NoUser => HasRow(tables, tables.sessions[s])
    /\ \A u \in tables.prefs : HasRow(tables, u)

\* No session and no digest preference outlives its account, however deletions, logins
\* and verifications overlap, and whatever a crash or a failure cuts short.
RowsOwned == Owned(db) /\ Owned(disk)

\* Nobody holds a session of an account whose address was never verified.
Verified(tables) ==
    \A s \in Secrets :
        HasRow(tables, tables.sessions[s]) => tables.users[tables.sessions[s]].verified

SessionsAreVerified == Verified(db) /\ Verified(disk)

\* Two signups racing with one address leave one account.
OneAccountPerEmail ==
    \A u, v \in Users :
        HasRow(db, u) /\ HasRow(db, v) /\ db.users[u].email = db.users[v].email => u = v

\* A token that was used is never on file again, not even after a crash: a request that
\* comes after the one that used it is turned away.
SpentTokensStayDead ==
    \A u \in Users : \A tables \in {db, disk} :
        HasRow(tables, u) =>
            {tables.users[u].verification, tables.users[u].reset} \intersect spent = {}

\* When a login, a reset or a password change is about to hand out its session, the
\* sessions there were when it began (or when it set the password) are gone.
OldSessionsEnd ==
    \A r \in Requests :
        (requests[r].at = "newSession" /\ requests[r].kind \in {"login", "reset", "change"}) =>
            \A s \in 1..requests[r].since :
                requests[r].user \notin {db.sessions[s], disk.sessions[s]}

\* What a client was told survives a crash: the account it signed up for, the session its
\* cookie names and the deletion it asked for.
RepliesAreDurable ==
    /\ \A u \in shown : HasRow(db, u) => HasRow(disk, u)
    /\ \A s \in known : db.sessions[s] # NoUser => disk.sessions[s] = db.sessions[s]
    /\ \A u \in erased : ~HasRow(db, u) /\ ~HasRow(disk, u)

\* An account without its digest preferences, which the digest would pass over for good, is
\* nobody's who was told of it; and it takes a failure or a crash between the two INSERTs
\* to leave one behind that is not being deleted: other requests' commits alone do not,
\* though they save the first.
HalfSignups ==
    \A u \in Users : \A tables \in {db, disk} :
        (HasRow(db, u) /\ HasRow(tables, u) /\ u \notin tables.prefs) =>
            /\ u \notin shown
            /\ \/ faults > 0
               \/ \E r \in Requests : requests[r].user = u /\ requests[r].at = "insertPrefs"

-----------------------------------------------------------------------------
(* The ids of accounts and of sessions, as committed, are registries. *)

\* Ids drawn whose first row may still be committed: one about to be inserted, or inserted.
RowToCome == {u \in issued :
    \/ \E r \in Requests : requests[r].at = "insertUser" /\ requests[r].user = u
    \/ HasRow(db, u) /\ ~HasRow(disk, u)}

SessionToCome == {s \in 1..minted : db.sessions[s] # NoUser /\ disk.sessions[s] = NoUser}

AccountIds == INSTANCE Registry WITH
    Keys <- Users, Values <- Emails, None <- NoEmail,
    entry <- [u \in Users |-> IF HasRow(disk, u) THEN disk.users[u].email ELSE NoEmail],
    used <- issued \ RowToCome

SessionIds == INSTANCE Registry WITH
    Keys <- Secrets, Values <- Users, None <- NoUser,
    entry <- disk.sessions,
    used <- (1..minted) \ SessionToCome

\* An account keeps its address, and once deleted on disk it never comes back: not by a
\* request that was under way, nor by a commit of somebody else's, nor by a crash.
AccountsWrittenOnce == AccountIds!Spec

\* A session keeps its account, and once it was ended on disk, or lost in a crash before its
\* commit, its cookie never opens an account again.
SessionsWrittenOnce == SessionIds!Spec

=============================================================================
