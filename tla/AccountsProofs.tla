--------------------------- MODULE AccountsProofs ---------------------------
(***************************************************************************)
(* Proofs about Accounts: no session outlives its account, none opens an   *)
(* account whose address was never verified, an address has one account    *)
(* and a token one use, and what a client was told survives a crash,       *)
(* whatever the number of accounts, requests, crashes and failures.        *)
(***************************************************************************)
EXTENDS Accounts, TLAPS

Active(q) == q.at \notin {"idle", "endSession"}

\* From here on the handler relies on its account being verified.
Trusting(q) ==
    \/ q.at \in {"dropSessions", "newSession"}
    \/ q.at = "setPassword" /\ (q.kind # "reset" \/ q.open)
    \/ q.at = "markVerified" /\ q.open

\* What a request under way knows of its account, given the tables and the ids drawn.
Sound(q, tables, ids) ==
    /\ Active(q) => q.user \in ids
    /\ q.at = "insertUser" => /\ q.email \in Emails
                              /\ ~HasRow(tables, q.user)
    /\ (Trusting(q) /\ HasRow(tables, q.user)) => tables.users[q.user].verified

\* An account still to be inserted is nobody else's business.
Private ==
    \A r, o \in Requests :
        (/\ requests[r].at = "insertUser"
         /\ Active(requests[o])
         /\ requests[o].user = requests[r].user) => r = o

IInv ==
    /\ TypeOK
    /\ RowsOwned
    /\ SessionsAreVerified
    /\ \A r \in Requests : Sound(requests[r], db, issued)
    /\ \A u \in Users : HasRow(db, u) \/ HasRow(disk, u) => u \in issued
    /\ \A r \in Requests : requests[r].at = "insertUser" => ~HasRow(disk, requests[r].user)
    /\ Private

-----------------------------------------------------------------------------
(* Tables and rows. *)

LEMMA RowOf ==
    ASSUME NEW t \in Tables, NEW u, HasRow(t, u)
    PROVE  u \in Users /\ t.users[u] \in Row
BY DEF Tables, HasRow

LEMMA SetRowFacts ==
    ASSUME db \in Tables, NEW u \in Users, NEW row \in Row
    PROVE  /\ SetRow(u, row) \in Tables
           /\ SetRow(u, row).users = [db.users EXCEPT ![u] = row]
           /\ SetRow(u, row).prefs = db.prefs
           /\ SetRow(u, row).sessions = db.sessions
BY DEF SetRow, Tables

\* An UPDATE of one row keeps the other tables, and verified accounts verified.
LEMMA WithRowFacts ==
    ASSUME db \in Tables, Owned(db), Verified(db), NEW u \in Users, NEW row,
           HasRow(db, u) => row \in Row /\ (db.users[u].verified => row.verified),
           NEW d, d = WithRow(u, row)
    PROVE  /\ d \in Tables /\ Owned(d) /\ Verified(d)
           /\ \A v \in Users : HasRow(d, v) =>
                HasRow(db, v) /\ (db.users[v].verified => d.users[v].verified)
           /\ HasRow(d, u) => d.users[u] = row
<1>1. CASE ~HasRow(db, u)
  BY <1>1 DEF WithRow
<1>2. CASE HasRow(db, u)
  <2>1. d = SetRow(u, row) /\ row \in Row
    BY <1>2 DEF WithRow
  <2>2. /\ d \in Tables
        /\ d.users = [db.users EXCEPT ![u] = row]
        /\ d.prefs = db.prefs
        /\ d.sessions = db.sessions
    BY <2>1, SetRowFacts
  <2>3. \A v \in Users : HasRow(d, v) =>
            HasRow(db, v) /\ (db.users[v].verified => d.users[v].verified)
    BY <1>2, <2>2 DEF HasRow, Tables
  <2>4. \A v \in Users : HasRow(db, v) => HasRow(d, v)
    BY <1>2, <2>1, <2>2, RowAssumption DEF HasRow, Tables
  <2>5. Owned(d)
    BY <2>2, <2>4 DEF Owned, HasRow
  <2>6. Verified(d)
    BY <2>2, <2>3 DEF Verified, HasRow
  <2> QED BY <1>2, <2>2, <2>3, <2>5, <2>6 DEF Tables
<1> QED BY <1>1, <1>2

\* Deleting session rows.
LEMMA FewerSessions ==
    ASSUME db \in Tables, Owned(db), Verified(db), NEW new \in [Secrets -> Users \union {NoUser}],
           \A s \in Secrets : new[s] \in {NoUser, db.sessions[s]},
           NEW d, d = [db EXCEPT !.sessions = new]
    PROVE  d \in Tables /\ Owned(d) /\ Verified(d) /\ d.users = db.users
<1>1. d \in Tables /\ d.users = db.users /\ d.prefs = db.prefs /\ d.sessions = new
  BY DEF Tables
<1>2. Owned(d)
  BY <1>1 DEF Owned, HasRow
<1>3. Verified(d)
  BY <1>1, AccountsAssumption DEF Verified, HasRow
<1> QED BY <1>1, <1>2, <1>3

-----------------------------------------------------------------------------
(* One step of one request. *)

\* What the variables other than requests, db and disk are after a step.
Rest ==
    /\ minted \in 0..MaxSecrets
    /\ issued \subseteq Users
    /\ known \subseteq Secrets
    /\ spent \subseteq Secrets
    /\ shown \subseteq Users
    /\ erased \subseteq Users
    /\ faults \in 0..MaxFaults

\* A step that inserts no account and unverifies none keeps the invariant.
LEMMA RequestStep ==
    ASSUME IInv, Rest', issued' = issued,
           NEW r \in Requests, NEW q \in Request,
           requests' = [requests EXCEPT ![r] = q],
           db' \in Tables, Owned(db'), Verified(db'),
           disk' = disk \/ disk' = db \/ disk' = db',
           \A u \in Users : HasRow(db', u) =>
                HasRow(db, u) /\ (db.users[u].verified => db'.users[u].verified),
           Sound(q, db', issued),
           q.at = "insertUser" => requests[r] = q,
           Active(q) => (requests[r].user = q.user /\ Active(requests[r])) \/ HasRow(db, q.user)
    PROVE  IInv'
<1>1. TypeOK'
  BY DEF IInv, TypeOK, Rest
<1>2. \A u \in Users : HasRow(disk', u) => HasRow(disk, u) \/ HasRow(db, u)
  OBVIOUS
<1>3. Owned(disk') /\ Verified(disk')
  BY DEF IInv, RowsOwned, SessionsAreVerified
<1>4. \A o \in Requests : Sound(requests'[o], db', issued')
  <2> SUFFICES ASSUME NEW o \in Requests PROVE Sound(requests'[o], db', issued)
    OBVIOUS
  <2>1. CASE o = r
    BY <2>1 DEF IInv, TypeOK
  <2>2. CASE o # r
    <3>1. requests'[o] = requests[o] /\ Sound(requests[o], db, issued)
      BY <2>2 DEF IInv, TypeOK
    <3> QED BY <3>1 DEF Sound, HasRow
  <2> QED BY <2>1, <2>2
<1>5. \A u \in Users : HasRow(db', u) \/ HasRow(disk', u) => u \in issued'
  BY <1>2 DEF IInv
<1>6. \A o \in Requests : requests'[o].at = "insertUser" =>
            requests[o].at = "insertUser" /\ requests'[o] = requests[o]
  BY DEF IInv, TypeOK
<1>7. \A o \in Requests : requests'[o].at = "insertUser" => ~HasRow(disk', requests'[o].user)
  BY <1>2, <1>6 DEF IInv, Sound, HasRow
<1>8. Private'
  <2> SUFFICES ASSUME NEW p \in Requests, NEW o \in Requests,
                      requests'[p].at = "insertUser", Active(requests'[o]),
                      requests'[o].user = requests'[p].user
               PROVE  p = o
    BY DEF Private
  <2>1. requests[p].at = "insertUser" /\ requests'[p] = requests[p]
    BY <1>6
  <2>2. ~HasRow(db, requests[p].user)
    BY <2>1 DEF IInv, Sound
  <2>3. Active(requests[o]) /\ requests[o].user = requests[p].user
    BY <2>1, <2>2 DEF IInv, TypeOK
  <2> QED BY <2>1, <2>3 DEF IInv, Private
<1> QED
  BY <1>1, <1>3, <1>4, <1>5, <1>7, <1>8 DEF IInv, RowsOwned, SessionsAreVerified

\* The same for a step that leaves the requests alone.
LEMMA TableStep ==
    ASSUME IInv, Rest', issued' = issued, requests' = requests,
           db' \in Tables, Owned(db'), Verified(db'), disk' = db',
           \A u \in Users : HasRow(db', u) =>
                HasRow(db, u) /\ (db.users[u].verified => db'.users[u].verified)
    PROVE  IInv'
<1>1. TypeOK'
  BY DEF IInv, TypeOK, Rest
<1>2. \A o \in Requests : Sound(requests'[o], db', issued')
  BY DEF IInv, Sound, HasRow
<1>3. \A o \in Requests : requests'[o].at = "insertUser" => ~HasRow(disk', requests'[o].user)
  BY DEF IInv, Sound, HasRow
<1>4. Private'
  BY DEF IInv, Private
<1>5. \A u \in Users : HasRow(db', u) \/ HasRow(disk', u) => u \in issued'
  BY DEF IInv
<1> QED
  BY <1>1, <1>2, <1>3, <1>4, <1>5 DEF IInv, RowsOwned, SessionsAreVerified

LEMMA IdleFacts == Idle \in Request /\ Idle.at = "idle"
BY AccountsAssumption DEF Idle, Request, Kinds, Stages

\* A handler begins: it has resolved u, and trusts it only if it is verified.
LEMMA Arrival ==
    ASSUME IInv, Rest', issued' = issued, db' = db, disk' = disk \/ disk' = db,
           NEW r \in Requests, NEW kind \in Kinds, NEW at \in Stages,
           NEW u \in Users \union {NoUser}, NEW given \in 0..MaxSecrets,
           Begin(r, kind, at, u, given), at # "insertUser",
           at = "endSession" \/ HasRow(db, u),
           at \in {"dropSessions", "newSession"} \/ (at = "setPassword" /\ kind # "reset") =>
                db.users[u].verified
    PROVE  IInv'
<1> DEFINE q == [Idle EXCEPT !.kind = kind, !.at = at, !.user = u, !.given = given,
                             !.since = IF kind = "login" THEN minted ELSE 0]
<1>1. requests' = [requests EXCEPT ![r] = q]
  BY DEF Begin
<1>2. q \in Request
  <2>1. minted \in 0..MaxSecrets /\ 0 \in 0..MaxSecrets
    BY AccountsAssumption DEF IInv, TypeOK
  <2> QED BY <2>1 DEF Idle, Request
<1>3. q.at = at /\ q.user = u /\ q.kind = kind /\ ~q.open
  BY DEF Idle
<1>4. Active(q) => HasRow(db, u)
  BY <1>3 DEF Active
<1>5. Sound(q, db, issued)
  BY <1>3, <1>4 DEF Sound, Trusting, IInv, HasRow
<1>6. db' \in Tables /\ Owned(db') /\ Verified(db')
  BY DEF IInv, TypeOK, RowsOwned, SessionsAreVerified
<1> HIDE DEF q
<1> QED
  BY <1>1, <1>2, <1>3, <1>4, <1>5, <1>6, RequestStep

\* A handler ends.
LEMMA Ending ==
    ASSUME IInv, Rest', issued' = issued, db' = db, disk' = disk \/ disk' = db,
           NEW r \in Requests, Abandon(r)
    PROVE  IInv'
<1>1. Sound(Idle, db', issued) /\ ~Active(Idle) /\ Idle.at # "insertUser"
  BY DEF Sound, Trusting, Active, Idle
<1>2. db' \in Tables /\ Owned(db') /\ Verified(db')
  BY DEF IInv, TypeOK, RowsOwned, SessionsAreVerified
<1> QED
  BY <1>1, <1>2, IdleFacts, RequestStep DEF Abandon

\* A statement runs: the request stays at its stage, its commit to come.
LEMMA StatementStep ==
    ASSUME IInv, Rest', issued' = issued, disk' = disk,
           NEW r \in Requests, NEW q \in Request,
           requests' = [requests EXCEPT ![r] = q],
           q.at = requests[r].at, q.kind = requests[r].kind, q.user = requests[r].user,
           q.at # "insertUser",
           db' \in Tables, Owned(db'), Verified(db'),
           \A u \in Users : HasRow(db', u) =>
                HasRow(db, u) /\ (db.users[u].verified => db'.users[u].verified),
           (q.at \in {"setPassword", "markVerified"} /\ HasRow(db', q.user)) =>
                db'.users[q.user].verified
    PROVE  IInv'
<1>1. Sound(requests[r], db, issued)
  BY DEF IInv
<1>2. Sound(q, db', issued)
  BY <1>1 DEF Sound, Trusting, Active, HasRow
<1>3. Active(q) => requests[r].user = q.user /\ Active(requests[r])
  BY DEF Active
<1> QED
  BY <1>2, <1>3, RequestStep

LEMMA RunFacts ==
    ASSUME TypeOK, NEW r \in Requests, NEW secret \in 0..MaxSecrets, Run(r, secret)
    PROVE  \E q \in Request :
                /\ requests' = [requests EXCEPT ![r] = q]
                /\ q.at = requests[r].at /\ q.kind = requests[r].kind
                /\ q.user = requests[r].user
<1> DEFINE q == [requests[r] EXCEPT !.open = TRUE, !.secret = secret]
<1>1. requests[r] \in Request
  BY DEF TypeOK
<1>2. q \in Request
  BY <1>1 DEF Request
<1>3. requests' = [requests EXCEPT ![r] = q]
  BY <1>1 DEF Run, TypeOK, Request
<1>4. q.at = requests[r].at /\ q.kind = requests[r].kind /\ q.user = requests[r].user
  BY <1>1 DEF Request
<1> HIDE DEF q
<1> QED BY <1>2, <1>3, <1>4

LEMMA DrawFacts ==
    ASSUME minted \in 0..MaxSecrets, Draw
    PROVE  minted' \in Secrets /\ minted' \in 0..MaxSecrets
BY AccountsAssumption DEF Draw, Secrets

LEMMA ZeroIsNone == 0 \in 0..MaxSecrets
BY AccountsAssumption

-----------------------------------------------------------------------------
(* The actions. *)

LEMMA InitIInv == Init => IInv
<1> SUFFICES ASSUME Init PROVE IInv
  OBVIOUS
<1>1. Empty \in Tables /\ Owned(Empty) /\ Verified(Empty)
      /\ \A u \in Users : ~HasRow(Empty, u)
  BY AccountsAssumption DEF Empty, Tables, Owned, Verified, HasRow
<1>2. /\ db \in Tables /\ Owned(db) /\ Verified(db)
      /\ issued \subseteq Users
      /\ \A u \in Users : HasRow(db, u) => u \in issued
  <2>1. CASE db = Empty /\ issued = {}
    BY <1>1, <2>1
  <2>2. CASE \E u \in Users, e \in Emails, password \in BOOLEAN :
                /\ db = [Empty EXCEPT !.users[u] = Earlier(e, password), !.prefs = {u}]
                /\ issued = {u}
    <3>1. PICK u \in Users, e \in Emails, password \in BOOLEAN :
                /\ db = [Empty EXCEPT !.users[u] = Earlier(e, password), !.prefs = {u}]
                /\ issued = {u}
      BY <2>2
    <3>2. Earlier(e, password) \in Row
      BY ZeroIsNone DEF Earlier, Row
    <3>3. /\ db.users = [[v \in Users |-> NoRow] EXCEPT ![u] = Earlier(e, password)]
          /\ db.prefs = {u}
          /\ db.sessions = [s \in Secrets |-> NoUser]
          /\ db \in Tables
      BY <3>1, <3>2 DEF Empty, Tables
    <3>4. HasRow(db, u) /\ \A v \in Users : HasRow(db, v) => v = u
      BY <3>2, <3>3, RowAssumption DEF HasRow
    <3>5. Owned(db) /\ Verified(db)
      BY <3>3, <3>4, AccountsAssumption DEF Owned, Verified, HasRow
    <3> QED BY <3>1, <3>3, <3>4, <3>5
  <2> QED BY <2>1, <2>2 DEF Init
<1>3. TypeOK
  <2>1. requests \in [Requests -> Request]
    BY IdleFacts DEF Init
  <2>2. /\ disk = db /\ minted = 0 /\ known = {} /\ spent = {}
        /\ shown = {} /\ erased = {} /\ faults = 0
    BY DEF Init
  <2> QED BY <1>2, <2>1, <2>2, AccountsAssumption DEF TypeOK
<1>4. \A r \in Requests : requests[r] = Idle
  BY DEF Init
<1>5. Sound(Idle, db, issued) /\ ~Active(Idle) /\ Idle.at # "insertUser"
  BY DEF Sound, Trusting, Active, Idle
<1> QED
  BY <1>2, <1>3, <1>4, <1>5 DEF IInv, Init, RowsOwned, SessionsAreVerified, Private

LEMMA SignupSubmitIInv ==
    ASSUME IInv, NEW r \in Requests, NEW u \in Users, NEW e \in Emails, SignupSubmit(r, u, e)
    PROVE  IInv'
<1> DEFINE q == [Idle EXCEPT !.kind = "signup", !.at = "insertUser", !.user = u, !.email = e]
<1> USE DEF SignupSubmit
<1>1. q \in Request /\ requests' = [requests EXCEPT ![r] = q]
  BY ZeroIsNone DEF Idle, Request, Kinds, Stages
<1>2. q.at = "insertUser" /\ q.user = u /\ q.email = e /\ ~q.open
  BY DEF Idle
<1> HIDE DEF q
<1>3. TypeOK'
  BY <1>1 DEF IInv, TypeOK
<1>4. u \notin issued /\ ~HasRow(db, u) /\ ~HasRow(disk, u)
  BY DEF IInv
<1>5. \A o \in Requests : Active(requests[o]) => requests[o].user # u
  BY <1>4 DEF IInv, Sound
<1>6. \A o \in Requests : Sound(requests'[o], db', issued')
  <2>1. Sound(q, db, issued')
    BY <1>2, <1>4 DEF Sound, Trusting, Active
  <2> QED BY <1>1, <2>1 DEF IInv, TypeOK, Sound
<1>7. \A o \in Requests : requests'[o].at = "insertUser" => ~HasRow(disk', requests'[o].user)
  BY <1>1, <1>2, <1>4 DEF IInv, TypeOK
<1>8. Private'
  <2>1. \A o \in Requests : requests[o].at = "insertUser" => Active(requests[o])
    BY DEF Active
  <2> QED BY <1>1, <1>2, <1>5, <2>1 DEF IInv, TypeOK, Private
<1> QED
  BY <1>3, <1>6, <1>7, <1>8 DEF IInv, RowsOwned, SessionsAreVerified

\* The unverified row appears where no session and no other request points.
LEMMA InsertUserIInv ==
    ASSUME IInv, NEW r \in Requests, InsertUser(r)
    PROVE  IInv'
<1> DEFINE u == requests[r].user
           row == [email |-> requests[r].email, hasPassword |-> TRUE, verified |-> FALSE,
                   verification |-> minted', reset |-> 0, key |-> minted']
           q == [requests[r] EXCEPT !.at = "insertPrefs", !.secret = minted']
<1>1. /\ requests[r] \in Request /\ requests[r].at = "insertUser"
      /\ Active(requests[r]) /\ Sound(requests[r], db, issued)
  BY DEF IInv, TypeOK, InsertUser, At, Active
<1>2. u \in issued /\ u \in Users /\ ~HasRow(db, u) /\ requests[r].email \in Emails
  BY <1>1 DEF IInv, TypeOK, Sound
<1>3. minted' \in 0..MaxSecrets
  BY DrawFacts DEF InsertUser, IInv, TypeOK
<1>4. row \in Row
  BY <1>2, <1>3, ZeroIsNone DEF Row
<1>5. /\ db' \in Tables
      /\ db'.users = [db.users EXCEPT ![u] = row]
      /\ db'.prefs = db.prefs
      /\ db'.sessions = db.sessions
  BY <1>2, <1>4, SetRowFacts DEF InsertUser, IInv, TypeOK
<1>6. q \in Request /\ requests' = [requests EXCEPT ![r] = q]
  <2>1. q \in Request
    BY <1>1, <1>3 DEF Request, Stages
  <2>2. requests' = [requests EXCEPT ![r] = q]
    BY <1>1 DEF InsertUser, IInv, TypeOK, Request
  <2> QED BY <2>1, <2>2
<1>7. q.at = "insertPrefs" /\ q.user = u
  BY <1>1 DEF Request
<1> HIDE DEF q, row, u
<1>8. \A v \in Users : v # u => db'.users[v] = db.users[v]
  BY <1>5 DEF IInv, TypeOK, Tables
<1>9. \A v : HasRow(db, v) => HasRow(db', v) /\ v # u
  BY <1>2, <1>8 DEF HasRow
<1>10. \A v \in Users : v # u => (HasRow(db', v) => HasRow(db, v))
  BY <1>8 DEF HasRow
<1>11. Owned(db')
  BY <1>5, <1>9 DEF IInv, RowsOwned, Owned
<1>12. Verified(db')
  <2> SUFFICES ASSUME NEW s \in Secrets, HasRow(db', db'.sessions[s])
               PROVE  db'.users[db'.sessions[s]].verified
    BY DEF Verified
  <2>1. db.sessions[s] \in Users /\ db.sessions[s] = db'.sessions[s]
    BY <1>5 DEF HasRow
  <2>2. HasRow(db, db.sessions[s])
    BY <2>1, AccountsAssumption DEF IInv, RowsOwned, Owned
  <2> QED BY <1>8, <1>9, <2>1, <2>2 DEF IInv, SessionsAreVerified, Verified
<1>13. TypeOK'
  BY <1>3, <1>5, <1>6 DEF IInv, TypeOK, InsertUser, Observed
<1>14. \A o \in Requests : o # r => requests'[o] = requests[o]
  BY <1>6 DEF IInv, TypeOK
<1>15. requests'[r] = q
  BY <1>6 DEF IInv, TypeOK
<1>16. \A o \in Requests : o # r /\ Active(requests[o]) => requests[o].user # u
  BY <1>1 DEF IInv, Private, u
<1>17. issued' = issued /\ disk' = disk
  BY DEF InsertUser
<1>18. \A o \in Requests : Sound(requests'[o], db', issued')
  <2>1. Sound(q, db', issued)
    BY <1>2, <1>7 DEF Sound, Trusting, Active
  <2>2. ASSUME NEW o \in Requests, o # r
        PROVE  Sound(requests[o], db', issued)
    <3>1. Sound(requests[o], db, issued)
      BY DEF IInv
    <3>2. CASE ~Active(requests[o])
      BY <3>2 DEF Sound, Trusting, Active
    <3>3. CASE Active(requests[o])
      <4>1. requests[o].user \in Users /\ requests[o].user # u
        BY <2>2, <3>1, <3>3, <1>16 DEF Sound, IInv, TypeOK
      <4> QED BY <3>1, <4>1, <1>8 DEF Sound, HasRow
    <3> QED BY <3>2, <3>3
  <2> QED BY <1>14, <1>15, <1>17, <2>1, <2>2
<1>19. \A v \in Users : HasRow(db', v) \/ HasRow(disk', v) => v \in issued'
  BY <1>2, <1>10, <1>17 DEF IInv
<1>20. \A o \in Requests : requests'[o].at = "insertUser" => ~HasRow(disk', requests'[o].user)
  BY <1>7, <1>14, <1>15, <1>17 DEF IInv
<1>21. Private'
  <2> SUFFICES ASSUME NEW p \in Requests, NEW o \in Requests,
                      requests'[p].at = "insertUser", Active(requests'[o]),
                      requests'[o].user = requests'[p].user
               PROVE  p = o
    BY DEF Private
  <2>1. p # r /\ requests'[p] = requests[p]
    BY <1>7, <1>14, <1>15
  <2>2. requests[p].user # u
    BY <1>16, <2>1 DEF Active
  <2>3. o # r
    BY <1>7, <1>15, <2>1, <2>2
  <2> QED BY <1>14, <2>1, <2>3 DEF IInv, Private
<1> QED
  BY <1>11, <1>12, <1>13, <1>17, <1>18, <1>19, <1>20, <1>21
     DEF IInv, RowsOwned, SessionsAreVerified

LEMMA ByAddressIInv ==
    ASSUME IInv, NEW r \in Requests, NEW u \in Users, ByAddress(r, u)
    PROVE  IInv'
<1>1. Rest'
  BY DEF IInv, TypeOK, Rest, ByAddress, LoginSubmit, ForgotPasswordSubmit, ResendVerification, Reads
<1>2. \E kind \in {"mail", "login"}, at \in {"issueReset", "issueVerification", "dropSessions"} :
        /\ Begin(r, kind, at, u, 0)
        /\ HasRow(db, u)
        /\ at = "dropSessions" => db.users[u].verified
  BY DEF ByAddress, LoginSubmit, ForgotPasswordSubmit, ResendVerification
<1>3. UNCHANGED <<db, disk, issued>>
  BY DEF ByAddress, LoginSubmit, ForgotPasswordSubmit, ResendVerification, Reads
<1> QED
  BY <1>1, <1>2, <1>3, Arrival, ZeroIsNone DEF Kinds, Stages

LEMMA ByLinkIInv ==
    ASSUME IInv, NEW r \in Requests, NEW u \in Users, NEW t \in Secrets, ByLink(r, u, t)
    PROVE  IInv'
<1>1. Rest'
  BY DEF IInv, TypeOK, Rest, ByLink, VerifyEmail, ResetPasswordSubmit, Reads
<1>2. \/ Begin(r, "verify", "markVerified", u, t)
      \/ Begin(r, "reset", "setPassword", u, t)
  BY DEF ByLink, VerifyEmail, ResetPasswordSubmit
<1>3. HasRow(db, u) /\ UNCHANGED <<db, disk, issued>>
  BY DEF ByLink, VerifyEmail, ResetPasswordSubmit, Reads
<1>4. t \in 0..MaxSecrets
  BY AccountsAssumption DEF Secrets
<1> QED
  BY <1>1, <1>2, <1>3, <1>4, Arrival DEF Kinds, Stages

\* A password change trusts its account because the account has a session.
LEMMA ByCookieIInv ==
    ASSUME IInv, NEW r \in Requests, NEW u \in Users, NEW s \in Secrets, ByCookie(r, u, s)
    PROVE  IInv'
<1>1. SignedIn(u, s)
  BY DEF ByCookie, ChangePassword, RotateKeyOnPage, DeleteAccount
<1>2. Rest'
  BY <1>1 DEF IInv, TypeOK, Rest, SignedIn
<1>3. \/ Begin(r, "change", "setPassword", u, 0)
      \/ Begin(r, "rotate", "rotateKey", u, s)
      \/ Begin(r, "delete", "deleteUser", u, s)
  BY DEF ByCookie, ChangePassword, RotateKeyOnPage, DeleteAccount
<1>4. HasRow(db, u) /\ db.users[u].verified
  BY <1>1 DEF SignedIn, IInv, SessionsAreVerified, Verified
<1>5. db' = db /\ disk' = db /\ issued' = issued
  BY <1>1 DEF SignedIn
<1>6. s \in 0..MaxSecrets
  BY AccountsAssumption DEF Secrets
<1> QED
  BY <1>2, <1>3, <1>4, <1>5, <1>6, Arrival, ZeroIsNone DEF Kinds, Stages

LEMMA ByKeyIInv ==
    ASSUME IInv, NEW r \in Requests, NEW u \in Users, RotateApiKey(r, u) \/ DeleteByApi(r, u)
    PROVE  IInv'
<1>1. KeyHolder(u)
  BY DEF RotateApiKey, DeleteByApi
<1>2. Rest'
  BY <1>1 DEF IInv, TypeOK, Rest, KeyHolder
<1>3. Begin(r, "rotate", "rotateKey", u, 0) \/ Begin(r, "delete", "deleteUser", u, 0)
  BY DEF RotateApiKey, DeleteByApi
<1>4. HasRow(db, u) /\ db' = db /\ disk' = db /\ issued' = issued
  BY <1>1 DEF KeyHolder
<1> QED
  BY <1>2, <1>3, <1>4, Arrival, ZeroIsNone DEF Kinds, Stages

LEMMA LogoutIInv ==
    ASSUME IInv, NEW r \in Requests, NEW s \in Secrets, Logout(r, s)
    PROVE  IInv'
<1>1. Rest' /\ UNCHANGED <<db, disk, issued>>
  BY DEF IInv, TypeOK, Rest, Logout, Reads
<1>2. Begin(r, "logout", "endSession", NoUser, s)
  BY DEF Logout
<1>3. s \in 0..MaxSecrets
  BY AccountsAssumption DEF Secrets
<1> QED
  BY <1>1, <1>2, <1>3, Arrival DEF Kinds, Stages

LEMMA DuplicateEmailIInv ==
    ASSUME IInv, NEW r \in Requests, DuplicateEmail(r)
    PROVE  IInv'
<1>1. Rest' /\ UNCHANGED <<db, disk, issued>> /\ Abandon(r)
  BY DEF IInv, TypeOK, Rest, DuplicateEmail, Observed
<1> QED BY <1>1, Ending

\* The account of a request that is at work on it.
LEMMA ActiveUser ==
    ASSUME IInv, NEW r \in Requests, Active(requests[r])
    PROVE  requests[r].user \in Users
BY DEF IInv, TypeOK, Sound

LEMMA InsertPrefsIInv ==
    ASSUME IInv, NEW r \in Requests, InsertPrefs(r)
    PROVE  IInv'
<1> DEFINE u == requests[r].user
<1>1. Rest' /\ issued' = issued /\ disk' = disk /\ requests[r].at = "insertPrefs"
  BY DEF IInv, TypeOK, Rest, InsertPrefs, Observed, At
<1>2. CASE HasRow(db, u) /\ u \notin db.prefs
  <2>1. db' = [db EXCEPT !.prefs = @ \union {u}] /\ Run(r, requests[r].secret)
    BY <1>2 DEF InsertPrefs
  <2>2. requests[r].secret \in 0..MaxSecrets
    BY DEF IInv, TypeOK, Request
  <2>3. PICK q \in Request :
            /\ requests' = [requests EXCEPT ![r] = q]
            /\ q.at = requests[r].at /\ q.kind = requests[r].kind
            /\ q.user = requests[r].user
    BY <2>1, <2>2, RunFacts DEF IInv
  <2>4. /\ db' \in Tables /\ db'.users = db.users /\ db'.sessions = db.sessions
        /\ db'.prefs = db.prefs \union {u}
    BY <1>2, <2>1 DEF IInv, TypeOK, Tables, HasRow
  <2>5. Owned(db') /\ Verified(db')
    BY <1>2, <2>4 DEF IInv, RowsOwned, SessionsAreVerified, Owned, Verified, HasRow
  <2> QED BY <1>1, <2>3, <2>4, <2>5, StatementStep DEF HasRow
<1>3. CASE ~(HasRow(db, u) /\ u \notin db.prefs)
  BY <1>1, <1>3, Ending DEF InsertPrefs
<1> QED BY <1>2, <1>3

\* An UPDATE of the request's own account.
LEMMA UpdateStep ==
    ASSUME IInv, NEW r \in Requests, Rest', issued' = issued, disk' = disk,
           Active(requests[r]), requests[r].at # "insertUser",
           NEW q \in Request, requests' = [requests EXCEPT ![r] = q],
           q.at = requests[r].at, q.kind = requests[r].kind, q.user = requests[r].user,
           NEW row, db' = WithRow(requests[r].user, row),
           HasRow(db, requests[r].user) =>
                row \in Row /\ (db.users[requests[r].user].verified => row.verified),
           (q.at \in {"setPassword", "markVerified"} /\ HasRow(db, requests[r].user)) =>
                row.verified
    PROVE  IInv'
<1>1. requests[r].user \in Users
  BY ActiveUser
<1>2. /\ db' \in Tables /\ Owned(db') /\ Verified(db')
      /\ \A v \in Users : HasRow(db', v) =>
            HasRow(db, v) /\ (db.users[v].verified => db'.users[v].verified)
      /\ HasRow(db', requests[r].user) => db'.users[requests[r].user] = row
  BY <1>1, WithRowFacts DEF IInv, TypeOK, RowsOwned, SessionsAreVerified
<1> QED
  BY <1>1, <1>2, StatementStep

LEMMA MarkVerifiedIInv ==
    ASSUME IInv, NEW r \in Requests, MarkVerified(r)
    PROVE  IInv'
<1> DEFINE u == requests[r].user
           row == [db.users[u] EXCEPT !.verified = TRUE, !.verification = 0]
<1>1. /\ Rest' /\ issued' = issued /\ disk' = disk /\ requests[r].at = "markVerified"
      /\ Run(r, 0) /\ db' = WithRow(u, row)
  BY DEF IInv, TypeOK, Rest, MarkVerified, Observed, At
<1>2. PICK q \in Request :
            /\ requests' = [requests EXCEPT ![r] = q]
            /\ q.at = requests[r].at /\ q.kind = requests[r].kind
            /\ q.user = requests[r].user
  BY <1>1, ZeroIsNone, RunFacts DEF IInv
<1>3. HasRow(db, u) => row \in Row /\ row.verified
  BY ZeroIsNone, RowOf DEF Row, IInv, TypeOK
<1>4. Active(requests[r])
  BY <1>1 DEF Active
<1> HIDE DEF row
<1> QED BY <1>1, <1>2, <1>3, <1>4, UpdateStep

LEMMA IssueTokenIInv ==
    ASSUME IInv, NEW r \in Requests, IssueToken(r)
    PROVE  IInv'
<1> DEFINE u == requests[r].user
           row == IF requests[r].at = "issueReset"
                  THEN [db.users[u] EXCEPT !.reset = minted']
                  ELSE [db.users[u] EXCEPT !.verification = minted']
<1>1. minted' \in 0..MaxSecrets
  BY DrawFacts DEF IInv, TypeOK, IssueToken
<1>2. /\ Rest' /\ issued' = issued /\ disk' = disk
      /\ requests[r].at \in {"issueVerification", "issueReset"}
      /\ Run(r, minted') /\ db' = WithRow(u, row)
  BY <1>1 DEF IInv, TypeOK, Rest, IssueToken, Observed, At
<1>3. PICK q \in Request :
            /\ requests' = [requests EXCEPT ![r] = q]
            /\ q.at = requests[r].at /\ q.kind = requests[r].kind
            /\ q.user = requests[r].user
  BY <1>1, <1>2, RunFacts DEF IInv
<1>4. HasRow(db, u) => row \in Row /\ (db.users[u].verified => row.verified)
  BY <1>1, RowOf DEF Row, IInv, TypeOK
<1>5. Active(requests[r])
  BY <1>2 DEF Active
<1> HIDE DEF row
<1> QED BY <1>2, <1>3, <1>4, <1>5, UpdateStep

LEMMA RotateKeyIInv ==
    ASSUME IInv, NEW r \in Requests, RotateKey(r)
    PROVE  IInv'
<1> DEFINE u == requests[r].user
           row == [db.users[u] EXCEPT !.key = minted']
<1>1. minted' \in 0..MaxSecrets
  BY DrawFacts DEF IInv, TypeOK, RotateKey
<1>2. /\ Rest' /\ issued' = issued /\ disk' = disk /\ requests[r].at = "rotateKey"
      /\ Run(r, minted') /\ db' = WithRow(u, row)
  BY <1>1 DEF IInv, TypeOK, Rest, RotateKey, Observed, At
<1>3. PICK q \in Request :
            /\ requests' = [requests EXCEPT ![r] = q]
            /\ q.at = requests[r].at /\ q.kind = requests[r].kind
            /\ q.user = requests[r].user
  BY <1>1, <1>2, RunFacts DEF IInv
<1>4. HasRow(db, u) => row \in Row /\ (db.users[u].verified => row.verified)
  BY <1>1, RowOf DEF Row, IInv, TypeOK
<1>5. Active(requests[r])
  BY <1>2 DEF Active
<1> HIDE DEF row
<1> QED BY <1>2, <1>3, <1>4, <1>5, UpdateStep

\* A reset verifies the account; a change finds it verified.
LEMMA SetPasswordIInv ==
    ASSUME IInv, NEW r \in Requests, SetPassword(r)
    PROVE  IInv'
<1> DEFINE u == requests[r].user
           row == IF requests[r].kind = "reset"
                  THEN [db.users[u] EXCEPT !.hasPassword = TRUE, !.verified = TRUE,
                                           !.reset = 0, !.verification = 0]
                  ELSE [db.users[u] EXCEPT !.hasPassword = TRUE]
           q == [requests[r] EXCEPT !.open = TRUE, !.since = minted]
<1>1. /\ Rest' /\ issued' = issued /\ disk' = disk
      /\ requests[r].at = "setPassword" /\ db' = WithRow(u, row)
  BY DEF IInv, TypeOK, Rest, SetPassword, Observed, At
<1>2. requests[r] \in Request /\ minted \in 0..MaxSecrets
  BY DEF IInv, TypeOK
<1>3. q \in Request
  BY <1>2 DEF Request
<1>4. requests' = [requests EXCEPT ![r] = q]
  BY <1>2 DEF SetPassword, IInv, TypeOK, Request
<1>5. q.at = requests[r].at /\ q.kind = requests[r].kind /\ q.user = requests[r].user
  BY <1>2 DEF Request
<1>6. HasRow(db, u) => row \in Row /\ (db.users[u].verified => row.verified)
  <2> SUFFICES ASSUME HasRow(db, u)
               PROVE  row \in Row /\ (db.users[u].verified => row.verified)
    OBVIOUS
  <2>1. db.users[u] \in Row
    BY RowOf DEF IInv, TypeOK
  <2>2. CASE requests[r].kind = "reset"
    BY <2>1, <2>2, ZeroIsNone DEF Row
  <2>3. CASE requests[r].kind # "reset"
    BY <2>1, <2>3 DEF Row
  <2> QED BY <2>2, <2>3
<1>7. HasRow(db, u) => row.verified
  <2>1. CASE requests[r].kind = "reset"
    BY <2>1, RowOf DEF Row, IInv, TypeOK
  <2>2. CASE requests[r].kind # "reset"
    BY <2>2, <1>1, RowOf DEF Row, IInv, TypeOK, Sound, Trusting
  <2> QED BY <2>1, <2>2
<1>8. Active(requests[r])
  BY <1>1 DEF Active
<1> HIDE DEF row, q
<1> QED BY <1>1, <1>3, <1>4, <1>5, <1>6, <1>7, <1>8, UpdateStep

LEMMA DropSessionsIInv ==
    ASSUME IInv, NEW r \in Requests, DropSessions(r)
    PROVE  IInv'
<1> DEFINE new == [s \in Secrets |->
                IF db.sessions[s] = requests[r].user THEN NoUser ELSE db.sessions[s]]
<1>1. /\ Rest' /\ issued' = issued /\ disk' = disk
      /\ requests[r].at = "dropSessions" /\ Run(r, 0)
  BY DEF IInv, TypeOK, Rest, DropSessions, Observed, At
<1>2. db' = [db EXCEPT !.sessions = new]
  BY DEF DropSessions
<1>3. PICK q \in Request :
            /\ requests' = [requests EXCEPT ![r] = q]
            /\ q.at = requests[r].at /\ q.kind = requests[r].kind
            /\ q.user = requests[r].user
  BY <1>1, ZeroIsNone, RunFacts DEF IInv
<1>4. new \in [Secrets -> Users \union {NoUser}]
  BY DEF IInv, TypeOK, Tables
<1>5. db' \in Tables /\ Owned(db') /\ Verified(db') /\ db'.users = db.users
  BY <1>2, <1>4, FewerSessions DEF IInv, TypeOK, RowsOwned, SessionsAreVerified
<1> QED BY <1>1, <1>3, <1>5, StatementStep DEF HasRow

LEMMA EndSessionIInv ==
    ASSUME IInv, NEW r \in Requests, EndSession(r)
    PROVE  IInv'
<1> DEFINE new == [s \in Secrets |->
                IF s = requests[r].given THEN NoUser ELSE db.sessions[s]]
<1>1. /\ Rest' /\ issued' = issued /\ disk' = disk
      /\ requests[r].at = "endSession" /\ Run(r, 0)
  BY DEF IInv, TypeOK, Rest, EndSession, Observed, At
<1>2. db' = [db EXCEPT !.sessions = new]
  BY DEF EndSession
<1>3. PICK q \in Request :
            /\ requests' = [requests EXCEPT ![r] = q]
            /\ q.at = requests[r].at /\ q.kind = requests[r].kind
            /\ q.user = requests[r].user
  BY <1>1, ZeroIsNone, RunFacts DEF IInv
<1>4. new \in [Secrets -> Users \union {NoUser}]
  BY DEF IInv, TypeOK, Tables
<1>5. db' \in Tables /\ Owned(db') /\ Verified(db') /\ db'.users = db.users
  BY <1>2, <1>4, FewerSessions DEF IInv, TypeOK, RowsOwned, SessionsAreVerified
<1> QED BY <1>1, <1>3, <1>5, StatementStep DEF HasRow

\* The account is there, by the foreign key, and verified, as the request trusts it.
LEMMA NewSessionIInv ==
    ASSUME IInv, NEW r \in Requests, NewSession(r)
    PROVE  IInv'
<1> DEFINE u == requests[r].user
<1>1. issued' = issued /\ disk' = disk /\ requests[r].at = "newSession"
  BY DEF NewSession, Observed, At
<1>2. CASE HasRow(db, u)
  <2>1. Draw /\ Run(r, minted') /\ db' = [db EXCEPT !.sessions[minted'] = u]
    BY <1>2 DEF NewSession
  <2>2. minted' \in Secrets /\ minted' \in 0..MaxSecrets
    BY <2>1, DrawFacts DEF IInv, TypeOK
  <2>3. Rest'
    BY <2>2 DEF IInv, TypeOK, Rest, NewSession, Observed
  <2>4. PICK q \in Request :
            /\ requests' = [requests EXCEPT ![r] = q]
            /\ q.at = requests[r].at /\ q.kind = requests[r].kind
            /\ q.user = requests[r].user
    BY <2>1, <2>2, RunFacts DEF IInv
  <2>5. u \in Users /\ db.users[u].verified
    BY <1>1, <1>2 DEF IInv, Sound, Trusting, HasRow
  <2>6. /\ db' \in Tables /\ db'.users = db.users /\ db'.prefs = db.prefs
        /\ db'.sessions = [db.sessions EXCEPT ![minted'] = u]
    BY <2>1, <2>2, <2>5 DEF IInv, TypeOK, Tables
  <2>7. Owned(db')
    BY <1>2, <2>2, <2>6 DEF IInv, TypeOK, Tables, RowsOwned, Owned, HasRow
  <2>8. Verified(db')
    BY <2>2, <2>5, <2>6 DEF IInv, TypeOK, Tables, SessionsAreVerified, Verified, HasRow
  <2> QED BY <1>1, <2>3, <2>4, <2>6, <2>7, <2>8, StatementStep DEF HasRow
<1>3. CASE ~HasRow(db, u)
  <2>1. Rest' /\ db' = db /\ Abandon(r)
    BY <1>3 DEF IInv, TypeOK, Rest, NewSession, Observed
  <2> QED BY <1>1, <2>1, Ending
<1> QED BY <1>2, <1>3

\* Sessions and preferences go with the row.
LEMMA DeleteUserIInv ==
    ASSUME IInv, NEW r \in Requests, DeleteUser(r)
    PROVE  IInv'
<1> DEFINE u == requests[r].user
<1>1. /\ Rest' /\ issued' = issued /\ disk' = disk
      /\ requests[r].at = "deleteUser" /\ Run(r, 0)
  BY DEF IInv, TypeOK, Rest, DeleteUser, Observed, At
<1>2. PICK q \in Request :
            /\ requests' = [requests EXCEPT ![r] = q]
            /\ q.at = requests[r].at /\ q.kind = requests[r].kind
            /\ q.user = requests[r].user
  BY <1>1, ZeroIsNone, RunFacts DEF IInv
<1>3. u \in Users
  BY <1>1, ActiveUser DEF Active
<1>4. /\ db'.users = [db.users EXCEPT ![u] = NoRow]
      /\ db'.prefs = db.prefs \ {u}
      /\ db'.sessions = [s \in Secrets |->
                IF db.sessions[s] = u THEN NoUser ELSE db.sessions[s]]
      /\ db' \in Tables
  BY <1>3 DEF DeleteUser, IInv, TypeOK, Tables
<1> HIDE DEF u
<1>5. \A v : HasRow(db', v) <=> HasRow(db, v) /\ v # u
  BY <1>3, <1>4 DEF IInv, TypeOK, Tables, HasRow
<1>6. \A v : HasRow(db', v) => db'.users[v] = db.users[v]
  BY <1>3, <1>4, <1>5 DEF IInv, TypeOK, Tables, HasRow
<1>7. Owned(db')
  BY <1>4, <1>5 DEF IInv, RowsOwned, Owned
<1>8. Verified(db')
  <2> SUFFICES ASSUME NEW s \in Secrets, HasRow(db', db'.sessions[s])
               PROVE  db'.users[db'.sessions[s]].verified
    BY DEF Verified
  <2>1. db'.sessions[s] = db.sessions[s]
    BY <1>4, AccountsAssumption DEF HasRow
  <2> QED BY <1>5, <1>6, <2>1 DEF IInv, SessionsAreVerified, Verified
<1> QED BY <1>1, <1>2, <1>4, <1>5, <1>6, <1>7, <1>8, StatementStep

\* A commit moves the request on; what it goes on to trust it trusted before.
LEMMA CommitIInv ==
    ASSUME IInv, NEW r \in Requests, Commit(r)
    PROVE  IInv'
<1> DEFINE next == After(requests[r])
           q == [requests[r] EXCEPT !.at = next, !.open = FALSE]
<1>1. requests[r] \in Request /\ requests[r].open
  BY DEF IInv, TypeOK, Commit
<1>2. Rest' /\ issued' = issued /\ db' = db /\ disk' = db
  <2>1. requests[r].given \in 0..MaxSecrets /\ requests[r].secret \in 0..MaxSecrets
    BY <1>1 DEF Request
  <2>2. \A n \in 0..MaxSecrets : {n} \ {0} \subseteq Secrets
    BY AccountsAssumption DEF Secrets
  <2> QED BY <2>1, <2>2 DEF IInv, TypeOK, Rest, Commit, Reply
<1>3. CASE next = "idle"
  BY <1>2, <1>3, Ending DEF Commit, Reply
<1>4. CASE next # "idle"
  <2>1. requests' = [requests EXCEPT ![r] = q]
    BY <1>1, <1>4 DEF Commit, IInv, TypeOK, Request
  <2>2. next \in {"dropSessions", "newSession", "endSession"}
    BY <1>4 DEF After
  <2>3. /\ q \in Request /\ q.at = next /\ q.user = requests[r].user /\ ~q.open
        /\ q.kind = requests[r].kind
    BY <1>1, <2>2 DEF Request, Stages
  <2>4. next \in {"dropSessions", "newSession"} =>
            /\ requests[r].at \in {"setPassword", "dropSessions", "markVerified"}
            /\ Active(requests[r]) /\ Trusting(requests[r])
    BY <1>1 DEF After, Active, Trusting
  <2> HIDE DEF q, next
  <2>5. Sound(q, db, issued)
    BY <2>2, <2>3, <2>4 DEF Sound, Trusting, Active, IInv
  <2>6. Active(q) => requests[r].user = q.user /\ Active(requests[r])
    BY <2>2, <2>3, <2>4 DEF Active
  <2>7. db' \in Tables /\ Owned(db') /\ Verified(db')
    BY <1>2 DEF IInv, TypeOK, RowsOwned, SessionsAreVerified
  <2> QED BY <1>2, <2>1, <2>2, <2>3, <2>5, <2>6, <2>7, RequestStep
<1> QED BY <1>3, <1>4

LEMMA RequestFailsIInv ==
    ASSUME IInv, NEW r \in Requests, RequestFails(r)
    PROVE  IInv'
<1>1. requests[r] \in Request /\ faults' \in 0..MaxFaults
  BY AccountsAssumption DEF IInv, TypeOK, RequestFails
<1>2. requests[r].secret \in 0..MaxSecrets
  BY <1>1 DEF Request
<1>3. \A n \in 0..MaxSecrets : {n} \ {0} \subseteq Secrets
  BY AccountsAssumption DEF Secrets
<1>4. Rest' /\ issued' = issued /\ UNCHANGED <<db, disk>> /\ Abandon(r)
  BY <1>1, <1>2, <1>3 DEF IInv, TypeOK, Rest, RequestFails, Reply
<1> QED BY <1>4, Ending

LEMMA CommitByOthersIInv ==
    ASSUME IInv, CommitByOthers
    PROVE  IInv'
<1>1. Rest' /\ issued' = issued /\ requests' = requests /\ db' = db /\ disk' = db'
  BY DEF IInv, TypeOK, Rest, CommitByOthers, Observed
<1>2. db' \in Tables /\ Owned(db') /\ Verified(db')
  BY <1>1 DEF IInv, TypeOK, RowsOwned, SessionsAreVerified
<1> QED BY <1>1, <1>2, TableStep

LEMMA ExpireSessionIInv ==
    ASSUME IInv, NEW s \in Secrets, ExpireSession(s)
    PROVE  IInv'
<1> DEFINE new == [db.sessions EXCEPT ![s] = NoUser]
<1>1. Rest' /\ issued' = issued /\ requests' = requests /\ disk' = db'
  BY DEF IInv, TypeOK, Rest, ExpireSession, Observed
<1>2. db' = [db EXCEPT !.sessions = new]
  BY DEF ExpireSession, IInv, TypeOK, Tables
<1>3. /\ new \in [Secrets -> Users \union {NoUser}]
      /\ \A t \in Secrets : new[t] \in {NoUser, db.sessions[t]}
  BY DEF IInv, TypeOK, Tables
<1>4. db' \in Tables /\ Owned(db') /\ Verified(db') /\ db'.users = db.users
  BY <1>2, <1>3, FewerSessions DEF IInv, TypeOK, RowsOwned, SessionsAreVerified
<1> QED BY <1>1, <1>4, TableStep DEF HasRow

\* The migration at startup only verifies; every request is gone.
LEMMA CrashIInv ==
    ASSUME IInv, Crash
    PROVE  IInv'
<1> DEFINE rows == [u \in Users |->
                IF disk.users[u] # NoRow /\ ~disk.users[u].hasPassword
                THEN [disk.users[u] EXCEPT !.verified = TRUE]
                ELSE disk.users[u]]
<1>1. /\ db' = [disk EXCEPT !.users = rows] /\ disk' = db' /\ issued' = issued
      /\ \A r \in Requests : requests'[r] = Idle
  BY DEF Crash, Migrated
<1>2. \A u \in Users : disk.users[u] # NoRow => disk.users[u] \in Row
  BY DEF IInv, TypeOK, Tables
<1>3. \A u \in Users :
        /\ rows[u] \in Row \union {NoRow}
        /\ rows[u] # NoRow <=> disk.users[u] # NoRow
        /\ rows[u] # NoRow /\ disk.users[u].verified => rows[u].verified
  BY <1>2, RowAssumption DEF Row, IInv, TypeOK, Tables
<1> HIDE DEF rows
<1>4. /\ db' \in Tables /\ db'.users = rows /\ db'.prefs = disk.prefs
      /\ db'.sessions = disk.sessions
  <2>1. rows \in [Users -> Row \union {NoRow}]
    BY <1>3 DEF rows
  <2> QED BY <1>1, <2>1 DEF IInv, TypeOK, Tables
<1>5. \A u : HasRow(db', u) <=> HasRow(disk, u)
  BY <1>3, <1>4 DEF HasRow
<1>6. Owned(db')
  BY <1>4, <1>5 DEF IInv, RowsOwned, Owned
<1>7. Verified(db')
  BY <1>3, <1>4, <1>5 DEF IInv, SessionsAreVerified, Verified, HasRow
<1>8. TypeOK'
  <2>1. faults' \in 0..MaxFaults
    BY AccountsAssumption DEF Crash, IInv, TypeOK
  <2>2. requests' \in [Requests -> Request]
    BY IdleFacts DEF Crash
  <2> QED BY <1>1, <1>4, <2>1, <2>2 DEF Crash, Observed, IInv, TypeOK
<1>9. Sound(Idle, db', issued) /\ ~Active(Idle) /\ Idle.at # "insertUser"
  BY DEF Sound, Trusting, Active, Idle
<1>10. \A u \in Users : HasRow(db', u) \/ HasRow(disk', u) => u \in issued'
  BY <1>1, <1>5 DEF IInv
<1> QED
  BY <1>1, <1>6, <1>7, <1>8, <1>9, <1>10 DEF IInv, RowsOwned, SessionsAreVerified, Private

LEMMA StutterIInv ==
    ASSUME IInv, UNCHANGED vars
    PROVE  IInv'
BY DEF vars, IInv, TypeOK, RowsOwned, SessionsAreVerified, Private

LEMMA NextIInv ==
    ASSUME IInv, Next
    PROVE  IInv'
<1>1. CASE \E r \in Requests, u \in Users, e \in Emails : SignupSubmit(r, u, e)
  BY <1>1, SignupSubmitIInv
<1>2. CASE \E r \in Requests, u \in Users :
            ByAddress(r, u) \/ RotateApiKey(r, u) \/ DeleteByApi(r, u)
  BY <1>2, ByAddressIInv, ByKeyIInv
<1>3. CASE \E r \in Requests, u \in Users, s \in Secrets : ByLink(r, u, s) \/ ByCookie(r, u, s)
  BY <1>3, ByLinkIInv, ByCookieIInv
<1>4. CASE \E r \in Requests, s \in Secrets : Logout(r, s)
  BY <1>4, LogoutIInv
<1>5. CASE \E r \in Requests : Statement(r)
  BY <1>5, InsertUserIInv, DuplicateEmailIInv, InsertPrefsIInv, MarkVerifiedIInv,
     SetPasswordIInv, DropSessionsIInv, NewSessionIInv, EndSessionIInv, IssueTokenIInv,
     RotateKeyIInv, DeleteUserIInv DEF Statement
<1>6. CASE \E r \in Requests : Commit(r) \/ RequestFails(r)
  BY <1>6, CommitIInv, RequestFailsIInv
<1>7. CASE (\E s \in Secrets : ExpireSession(s)) \/ CommitByOthers \/ Crash
  BY <1>7, ExpireSessionIInv, CommitByOthersIInv, CrashIInv
<1> QED
  BY <1>1, <1>2, <1>3, <1>4, <1>5, <1>6, <1>7 DEF Next

\* The inductive invariant, for every number of accounts, requests, secrets and faults.
THEOREM AccountsInvariance == Spec => []IInv
<1>1. IInv /\ [Next]_vars => IInv'
  BY NextIInv, StutterIInv
<1> QED
  BY <1>1, InitIInv, PTL DEF Spec

-----------------------------------------------------------------------------

\* Type correctness: tables and requests keep their shape.
THEOREM AccountsTypeCorrect == Spec => []TypeOK
<1>1. IInv => TypeOK
  BY DEF IInv
<1> QED
  BY <1>1, AccountsInvariance, PTL

\* No session and no digest preference outlives its account, in the tables the handlers
\* see and in those a restart finds.
THEOREM NothingOutlivesItsAccount == Spec => []RowsOwned
<1>1. IInv => RowsOwned
  BY DEF IInv
<1> QED
  BY <1>1, AccountsInvariance, PTL

\* No session opens an account whose address was never verified.
THEOREM OnlyVerifiedSignIn == Spec => []SessionsAreVerified
<1>1. IInv => SessionsAreVerified
  BY DEF IInv
<1> QED
  BY <1>1, AccountsInvariance, PTL

-----------------------------------------------------------------------------
(* Addresses and tokens: the columns email, verification and reset. *)

\* Rows are dropped, tokens cleared, and nothing else done to these columns.
Shrinks(new, old) == \A u \in Users : new.users[u] # NoRow =>
    /\ old.users[u] # NoRow
    /\ new.users[u].email = old.users[u].email
    /\ new.users[u].verification \in {0, old.users[u].verification}
    /\ new.users[u].reset \in {0, old.users[u].reset}

UniqueEmails(t) == \A u, v \in Users :
    (t.users[u] # NoRow /\ t.users[v] # NoRow /\ t.users[u].email = t.users[v].email) => u = v

\* The tokens on file were drawn and are not spent.
Unspent(t, bound, used) == \A u \in Users : t.users[u] # NoRow =>
    /\ t.users[u].verification \in 0..bound
    /\ t.users[u].reset \in 0..bound
    /\ t.users[u].verification \notin used
    /\ t.users[u].reset \notin used

\* No token is on file twice.
Distinct(t) == \A u, v \in Users : (t.users[u] # NoRow /\ t.users[v] # NoRow) =>
    /\ t.users[u].verification = t.users[v].verification => u = v \/ t.users[u].verification = 0
    /\ t.users[u].reset = t.users[v].reset => u = v \/ t.users[u].reset = 0
    /\ t.users[u].verification = t.users[v].reset => t.users[u].verification = 0

GoodTokens(t, bound, used) == UniqueEmails(t) /\ Unspent(t, bound, used) /\ Distinct(t)

\* The token that a request is about to spend is on file with its account only, and no
\* more once the request's statement ran.
ClaimOK(q, t, bound) == Consumes(q) =>
    /\ q.given \in 1..bound
    /\ \A u \in Users : t.users[u] # NoRow =>
        /\ q.at = "markVerified" => t.users[u].reset # q.given
        /\ q.given \in {t.users[u].verification, t.users[u].reset} => u = q.user /\ ~q.open

TokenInv ==
    /\ TypeOK
    /\ spent \subseteq 1..minted
    /\ GoodTokens(db, minted, spent)
    /\ GoodTokens(disk, minted, spent)
    /\ \A r \in Requests : ClaimOK(requests[r], db, minted)

LEMMA ShrinkKeeps ==
    ASSUME NEW new, NEW old, Shrinks(new, old), NEW b \in Nat, NEW c \in Nat, b <= c, NEW used,
           used \subseteq 1..b
    PROVE  /\ GoodTokens(old, b, used) => GoodTokens(new, c, used)
           /\ \A q : ClaimOK(q, old, b) => ClaimOK(q, new, c)
<1>0. 0 \notin used
    OBVIOUS
<1>1. ASSUME GoodTokens(old, b, used) PROVE UniqueEmails(new)
    BY <1>1 DEF GoodTokens, UniqueEmails, Shrinks
<1>2. ASSUME GoodTokens(old, b, used) PROVE Unspent(new, c, used)
    BY <1>0, <1>2 DEF GoodTokens, Unspent, Shrinks
<1>3. ASSUME GoodTokens(old, b, used) PROVE Distinct(new)
    BY <1>3 DEF GoodTokens, Distinct, Shrinks
<1>4. ASSUME NEW q, ClaimOK(q, old, b) PROVE ClaimOK(q, new, c)
    <2> SUFFICES ASSUME Consumes(q)
                 PROVE  /\ q.given \in 1..c
                        /\ \A u \in Users : new.users[u] # NoRow =>
                            /\ q.at = "markVerified" => new.users[u].reset # q.given
                            /\ q.given \in {new.users[u].verification, new.users[u].reset} =>
                                u = q.user /\ ~q.open
        BY DEF ClaimOK
    <2>1. q.given \in 1..b /\ q.given \in 1..c /\ q.given # 0
        BY <1>4 DEF ClaimOK
    <2> QED BY <1>4, <2>1 DEF ClaimOK, Shrinks
<1> QED BY <1>1, <1>2, <1>3, <1>4 DEF GoodTokens

\* Steps that put no token on file and spend none.
LEMMA QuietTokens ==
    ASSUME TokenInv, TypeOK', Shrinks(db', db), minted <= minted', spent' = spent,
           disk' = disk \/ disk' = db \/ disk' = db',
           NEW r \in Requests, NEW q, requests' = [requests EXCEPT ![r] = q],
           ClaimOK(q, db', minted')
    PROVE  TokenInv'
<1>1. minted \in Nat /\ minted' \in Nat
    BY AccountsAssumption DEF TokenInv, TypeOK
<1>2. Shrinks(db, db) /\ Shrinks(disk, disk)
    BY DEF Shrinks
<1>3. spent \subseteq 1..minted /\ spent' \subseteq 1..minted'
    BY <1>1 DEF TokenInv
<1>4. GoodTokens(db', minted', spent') /\ GoodTokens(db, minted', spent')
    BY <1>1, <1>2, <1>3, ShrinkKeeps DEF TokenInv
<1>5. GoodTokens(disk, minted', spent')
    BY <1>1, <1>2, <1>3, ShrinkKeeps DEF TokenInv
<1>6. ASSUME NEW o \in Requests PROVE ClaimOK(requests'[o], db', minted')
    <2>1. ClaimOK(requests[o], db', minted')
        BY <1>1, <1>3, ShrinkKeeps DEF TokenInv
    <2> QED BY <2>1 DEF TokenInv, TypeOK
<1> QED BY <1>3, <1>4, <1>5, <1>6 DEF TokenInv

LEMMA NoClaim ==
    ASSUME NEW q, NEW t, NEW b, q.at # "markVerified", q.at # "setPassword" \/ q.kind # "reset"
    PROVE  ClaimOK(q, t, b)
BY DEF ClaimOK, Consumes

LEMMA SameRows ==
    ASSUME NEW new, NEW old, \A u \in Users : new.users[u] \in {NoRow, old.users[u]}
    PROVE  Shrinks(new, old)
BY DEF Shrinks

\* A request arrives: what it is about to spend it was just looked up by.
LEMMA ArrivalTokens ==
    ASSUME TokenInv, TypeOK', NEW r \in Requests, NEW kind, NEW at, NEW u, NEW given,
           Begin(r, kind, at, u, given), UNCHANGED <<db, minted, spent>>, disk' \in {disk, db},
           \/ at # "markVerified" /\ (at # "setPassword" \/ kind # "reset")
           \/ /\ u \in Users /\ db.users[u] # NoRow /\ given \in Secrets
              /\ \/ at = "markVerified" /\ db.users[u].verification = given
                 \/ at = "setPassword" /\ db.users[u].reset = given
    PROVE  TokenInv'
<1> DEFINE q == [Idle EXCEPT !.kind = kind, !.at = at, !.user = u, !.given = given,
                             !.since = IF kind = "login" THEN minted ELSE 0]
<1>1. requests' = [requests EXCEPT ![r] = q]
    BY DEF Begin
<1>2. q.kind = kind /\ q.at = at /\ q.user = u /\ q.given = given /\ q.open = FALSE
    BY DEF Idle
<1> HIDE DEF q
<1>3. ClaimOK(q, db, minted)
    <2>1. CASE at # "markVerified" /\ (at # "setPassword" \/ kind # "reset")
        BY <1>2, <2>1, NoClaim
    <2>2. CASE /\ u \in Users /\ db.users[u] # NoRow /\ given \in Secrets
               /\ \/ at = "markVerified" /\ db.users[u].verification = given
                  \/ at = "setPassword" /\ db.users[u].reset = given
        <3>1. given \in 1..minted
            BY <2>2, AccountsAssumption DEF TokenInv, GoodTokens, Unspent, TypeOK, Secrets
        <3>2. given # 0
            BY <3>1, AccountsAssumption DEF TokenInv, TypeOK
        <3>3. ASSUME NEW v \in Users, db.users[v] # NoRow
              PROVE  /\ at = "markVerified" => db.users[v].reset # given
                     /\ given \in {db.users[v].verification, db.users[v].reset} => v = u
            BY <2>2, <3>2, <3>3 DEF TokenInv, GoodTokens, Distinct
        <3> QED BY <1>2, <3>1, <3>3 DEF ClaimOK
    <2> QED BY <2>1, <2>2
<1>4. Shrinks(db', db)
    BY DEF Shrinks
<1> QED BY <1>1, <1>3, <1>4, QuietTokens, AccountsAssumption DEF TokenInv, TypeOK

LEMMA IdleNoClaim == \A t, b : ClaimOK(Idle, t, b)
BY DEF ClaimOK, Consumes, Idle

\* Handlers that only arrive.
LEMMA ArrivalsTokens ==
    ASSUME TokenInv, TypeOK', NEW r \in Requests
    PROVE  /\ \A u \in Users : ByAddress(r, u) \/ RotateApiKey(r, u) \/ DeleteByApi(r, u) => TokenInv'
           /\ \A u \in Users, s \in Secrets : ByLink(r, u, s) \/ ByCookie(r, u, s) => TokenInv'
           /\ \A s \in Secrets : Logout(r, s) => TokenInv'
           /\ \A u \in Users, e \in Emails : SignupSubmit(r, u, e) => TokenInv'
<1>1. ASSUME NEW u \in Users, ByAddress(r, u) \/ RotateApiKey(r, u) \/ DeleteByApi(r, u)
      PROVE  TokenInv'
    <2>1. /\ UNCHANGED <<db, minted, spent>> /\ disk' \in {disk, db}
          /\ \/ Begin(r, "login", "dropSessions", u, 0)
             \/ Begin(r, "mail", "issueReset", u, 0)
             \/ Begin(r, "mail", "issueVerification", u, 0)
             \/ Begin(r, "rotate", "rotateKey", u, 0)
             \/ Begin(r, "delete", "deleteUser", u, 0)
        BY <1>1 DEF ByAddress, LoginSubmit, ForgotPasswordSubmit, ResendVerification, RotateApiKey,
            DeleteByApi, KeyHolder, Reads
    <2> QED BY <2>1, ArrivalTokens
<1>2. ASSUME NEW u \in Users, NEW s \in Secrets, ByLink(r, u, s) PROVE TokenInv'
    <2>1. /\ UNCHANGED <<db, minted, spent, disk>> /\ db.users[u] # NoRow
          /\ \/ Begin(r, "verify", "markVerified", u, s) /\ db.users[u].verification = s
             \/ Begin(r, "reset", "setPassword", u, s) /\ db.users[u].reset = s
        BY <1>2 DEF ByLink, VerifyEmail, ResetPasswordSubmit, Reads, HasRow
    <2> QED BY <2>1, ArrivalTokens
<1>3. ASSUME NEW u \in Users, NEW s \in Secrets, ByCookie(r, u, s) PROVE TokenInv'
    <2>1. /\ UNCHANGED <<db, minted, spent>> /\ disk' \in {disk, db}
          /\ \/ Begin(r, "change", "setPassword", u, 0)
             \/ Begin(r, "rotate", "rotateKey", u, s)
             \/ Begin(r, "delete", "deleteUser", u, s)
        BY <1>3 DEF ByCookie, ChangePassword, RotateKeyOnPage, DeleteAccount, SignedIn
    <2> QED BY <2>1, ArrivalTokens
<1>4. ASSUME NEW s \in Secrets, Logout(r, s) PROVE TokenInv'
    <2>1. UNCHANGED <<db, minted, spent, disk>> /\ Begin(r, "logout", "endSession", NoUser, s)
        BY <1>4 DEF Logout, Reads
    <2> QED BY <2>1, ArrivalTokens
<1>5. ASSUME NEW u \in Users, NEW e \in Emails, SignupSubmit(r, u, e) PROVE TokenInv'
    <2> DEFINE q == [Idle EXCEPT !.kind = "signup", !.at = "insertUser", !.user = u, !.email = e]
    <2>1. requests' = [requests EXCEPT ![r] = q] /\ UNCHANGED <<db, minted, spent, disk>>
        BY <1>5 DEF SignupSubmit
    <2>2. q.at = "insertUser"
        BY DEF Idle
    <2> HIDE DEF q
    <2>3. ClaimOK(q, db', minted') /\ Shrinks(db', db)
        BY <2>1, <2>2, NoClaim DEF Shrinks
    <2> QED BY <2>1, <2>3, QuietTokens, AccountsAssumption DEF TokenInv, TypeOK
<1> QED BY <1>1, <1>2, <1>3, <1>4, <1>5

\* Statements that leave addresses and tokens alone, or drop them with their account.
LEMMA OtherStatementTokens ==
    ASSUME TokenInv, TypeOK', NEW r \in Requests,
           DuplicateEmail(r) \/ InsertPrefs(r) \/ DropSessions(r) \/ NewSession(r)
                \/ EndSession(r) \/ RotateKey(r) \/ DeleteUser(r)
    PROVE  TokenInv'
<1> DEFINE opened == [requests[r] EXCEPT !.open = TRUE, !.secret = requests'[r].secret]
<1>1. requests' = [requests EXCEPT ![r] = Idle] \/ requests' = [requests EXCEPT ![r] = opened]
    <2>1. requests \in [Requests -> Request]
        BY DEF TokenInv, TypeOK
    <2> QED BY <2>1 DEF DuplicateEmail, InsertPrefs, DropSessions, NewSession, EndSession, RotateKey, DeleteUser,
                Abandon, Run
<1>2. requests[r].at \notin {"markVerified", "setPassword"}
    BY DEF DuplicateEmail, InsertPrefs, DropSessions, NewSession, EndSession, RotateKey, DeleteUser, At
<1>3. opened.at = requests[r].at
    BY DEF TokenInv, TypeOK, Request
<1> HIDE DEF opened
<1>4. ClaimOK(Idle, db', minted') /\ ClaimOK(opened, db', minted')
    BY <1>2, <1>3, NoClaim, IdleNoClaim
<1>5. minted \in Nat /\ minted <= minted' /\ spent' = spent /\ disk' = disk
    BY AccountsAssumption DEF TokenInv, TypeOK, DuplicateEmail, InsertPrefs, DropSessions, NewSession, EndSession,
        RotateKey, DeleteUser, Draw, Observed
<1>6. Shrinks(db', db)
    <2>1. db \in Tables
        BY DEF TokenInv, TypeOK
    <2>2. CASE RotateKey(r)
        <3> DEFINE u == requests[r].user
                   row == [db.users[u] EXCEPT !.key = minted']
        <3>1. db' = WithRow(u, row)
            BY <2>2 DEF RotateKey
        <3>2. CASE ~HasRow(db, u)
            BY <3>1, <3>2 DEF WithRow, Shrinks
        <3>3. CASE HasRow(db, u)
            <4>1. u \in Users /\ db.users[u] # NoRow /\ db.users[u] \in Row
                BY <2>1, <3>3 DEF HasRow, Tables
            <4>2. row.email = db.users[u].email /\ row.verification = db.users[u].verification
                  /\ row.reset = db.users[u].reset
                BY <4>1 DEF Row
            <4> HIDE DEF row
            <4>3. db'.users = [db.users EXCEPT ![u] = row]
                BY <2>1, <3>1, <3>3 DEF WithRow, SetRow, Tables
            <4> QED BY <2>1, <4>1, <4>2, <4>3 DEF Shrinks, Tables
        <3> QED BY <3>2, <3>3
    <2>3. CASE DeleteUser(r)
        BY <2>1, <2>3, SameRows DEF DeleteUser, Tables
    <2>4. CASE DuplicateEmail(r) \/ InsertPrefs(r) \/ DropSessions(r) \/ NewSession(r) \/ EndSession(r)
        <3>1. db'.users = db.users
            BY <2>1, <2>4 DEF DuplicateEmail, InsertPrefs, DropSessions, NewSession, EndSession, Tables
        <3> QED BY <3>1, SameRows
    <2> QED BY <2>2, <2>3, <2>4
<1> QED BY <1>1, <1>4, <1>5, <1>6, QuietTokens

\* The statement that clears the token a request was looked up by.
LEMMA MarkVerifiedTokens ==
    ASSUME TokenInv, TypeOK', NEW r \in Requests, MarkVerified(r)
    PROVE  TokenInv'
<1> DEFINE u == requests[r].user
           row == [db.users[u] EXCEPT !.verified = TRUE, !.verification = 0]
           q == [requests[r] EXCEPT !.open = TRUE, !.secret = 0]
<1>1. /\ requests[r].at = "markVerified" /\ ~requests[r].open
      /\ db' = WithRow(u, row) /\ requests' = [requests EXCEPT ![r] = q]
      /\ UNCHANGED <<disk, minted, spent>>
    BY DEF MarkVerified, At, Run, Observed, TokenInv, TypeOK
<1>2. requests[r] \in Request /\ db \in Tables
    BY DEF TokenInv, TypeOK
<1>3. q.at = requests[r].at /\ q.kind = requests[r].kind /\ q.given = requests[r].given /\ q.user = u
    BY <1>2 DEF Request
<1>4. ClaimOK(requests[r], db, minted) /\ Consumes(requests[r])
    BY <1>1 DEF TokenInv, Consumes
<1> HIDE DEF q
<1>5. CASE ~HasRow(db, u)
    <2>1. db' = db
        BY <1>1, <1>5 DEF WithRow
    <2>2. ClaimOK(q, db, minted)
        BY <1>1, <1>3, <1>4, <1>5 DEF ClaimOK, HasRow, Consumes
    <2>3. Shrinks(db', db)
        BY <2>1 DEF Shrinks
    <2> QED BY <1>1, <2>1, <2>2, <2>3, QuietTokens, AccountsAssumption DEF TokenInv, TypeOK
<1>6. CASE HasRow(db, u)
    <2>1. u \in Users /\ db.users[u] # NoRow /\ db.users[u] \in Row
        BY <1>2, <1>6 DEF HasRow, Tables
    <2>2. /\ row.email = db.users[u].email /\ row.verification = 0
          /\ row.reset = db.users[u].reset
        BY <2>1 DEF Row
    <2> HIDE DEF row
    <2>3. db'.users = [db.users EXCEPT ![u] = row]
        BY <1>1, <1>2, <1>6 DEF WithRow, SetRow, Tables
    <2>4. Shrinks(db', db)
        BY <1>2, <2>1, <2>2, <2>3 DEF Shrinks, Tables
    <2>5. ClaimOK(q, db', minted)
        <3>1. q.given \in 1..minted /\ q.given # 0
            BY <1>3, <1>4, AccountsAssumption DEF ClaimOK, TokenInv, TypeOK
        <3>2. ASSUME NEW v \in Users, db'.users[v] # NoRow
              PROVE  /\ db'.users[v].reset # q.given
                     /\ q.given \notin {db'.users[v].verification, db'.users[v].reset}
            <4>1. CASE v = u
                BY <1>1, <1>2, <1>3, <1>4, <2>1, <2>2, <2>3, <3>1, <4>1 DEF ClaimOK, Tables
            <4>2. CASE v # u
                BY <1>1, <1>2, <1>3, <1>4, <2>3, <3>2, <4>2 DEF ClaimOK, Tables
            <4> QED BY <4>1, <4>2
        <3> QED BY <3>1, <3>2 DEF ClaimOK
    <2>6. ClaimOK(q, db', minted') /\ minted <= minted'
        BY <1>1, <2>5, AccountsAssumption DEF TokenInv, TypeOK
    <2> QED BY <1>1, <2>4, <2>6, QuietTokens
<1> QED BY <1>5, <1>6

LEMMA SetPasswordTokens ==
    ASSUME TokenInv, TypeOK', NEW r \in Requests, SetPassword(r)
    PROVE  TokenInv'
<1> DEFINE u == requests[r].user
           row == IF requests[r].kind = "reset"
                  THEN [db.users[u] EXCEPT !.hasPassword = TRUE, !.verified = TRUE,
                                           !.reset = 0, !.verification = 0]
                  ELSE [db.users[u] EXCEPT !.hasPassword = TRUE]
           q == [requests[r] EXCEPT !.open = TRUE, !.since = minted]
<1>1. /\ requests[r].at = "setPassword" /\ ~requests[r].open
      /\ db' = WithRow(u, row) /\ requests' = [requests EXCEPT ![r] = q]
      /\ UNCHANGED <<disk, minted, spent>>
    BY DEF SetPassword, At, Observed, TokenInv, TypeOK
<1>2. requests[r] \in Request /\ db \in Tables
    BY DEF TokenInv, TypeOK
<1>3. q.at = requests[r].at /\ q.kind = requests[r].kind /\ q.given = requests[r].given /\ q.user = u
    BY <1>2 DEF Request
<1>4. ClaimOK(requests[r], db, minted)
    BY DEF TokenInv
<1>5. requests[r].kind = "reset" => Consumes(requests[r])
    BY <1>1 DEF Consumes
<1> HIDE DEF q
<1>6. CASE ~HasRow(db, u)
    <2>1. db' = db
        BY <1>1, <1>6 DEF WithRow
    <2>2. ClaimOK(q, db, minted)
        BY <1>1, <1>3, <1>4, <1>6 DEF ClaimOK, HasRow, Consumes
    <2>3. Shrinks(db', db)
        BY <2>1 DEF Shrinks
    <2> QED BY <1>1, <2>1, <2>2, <2>3, QuietTokens, AccountsAssumption DEF TokenInv, TypeOK
<1>7. CASE HasRow(db, u)
    <2>1. u \in Users /\ db.users[u] # NoRow /\ db.users[u] \in Row
        BY <1>2, <1>7 DEF HasRow, Tables
    <2>2. /\ row.email = db.users[u].email
          /\ row.verification \in {0, db.users[u].verification}
          /\ row.reset \in {0, db.users[u].reset}
          /\ requests[r].kind = "reset" => row.verification = 0 /\ row.reset = 0
        BY <2>1 DEF Row
    <2> HIDE DEF row
    <2>3. db'.users = [db.users EXCEPT ![u] = row]
        BY <1>1, <1>2, <1>7 DEF WithRow, SetRow, Tables
    <2>4. Shrinks(db', db)
        BY <1>2, <2>1, <2>2, <2>3 DEF Shrinks, Tables
    <2>5. CASE requests[r].kind # "reset"
        <3>1. ClaimOK(q, db', minted')
            BY <1>1, <1>3, <2>5, NoClaim
        <3>2. minted <= minted'
            BY <1>1, AccountsAssumption DEF TokenInv, TypeOK
        <3> QED BY <1>1, <2>4, <3>1, <3>2, QuietTokens
    <2>6. CASE requests[r].kind = "reset"
        <3>1. q.given \in 1..minted /\ q.given # 0
            BY <1>3, <1>4, <1>5, <2>6, AccountsAssumption DEF ClaimOK, TokenInv, TypeOK
        <3>2. ASSUME NEW v \in Users, db'.users[v] # NoRow
              PROVE  q.given \notin {db'.users[v].verification, db'.users[v].reset}
            <4>1. CASE v = u
                BY <1>2, <2>1, <2>2, <2>3, <2>6, <3>1, <4>1 DEF Tables
            <4>2. CASE v # u
                BY <1>2, <1>3, <1>4, <1>5, <2>3, <2>6, <3>2, <4>2 DEF ClaimOK, Tables
            <4> QED BY <4>1, <4>2
        <3>3. ClaimOK(q, db', minted)
            BY <1>1, <1>3, <3>1, <3>2 DEF ClaimOK
        <3>4. ClaimOK(q, db', minted') /\ minted <= minted'
            BY <1>1, <3>3, AccountsAssumption DEF TokenInv, TypeOK
        <3> QED BY <1>1, <2>4, <3>4, QuietTokens
    <2> QED BY <2>5, <2>6
<1> QED BY <1>6, <1>7

\* A token is drawn and put on file, under an account of its own address.
LEMMA DrawnTokens ==
    ASSUME TokenInv, TypeOK', minted' = minted + 1, UNCHANGED <<disk, spent>>,
           NEW r \in Requests, NEW q, requests' = [requests EXCEPT ![r] = q],
           \A t, b : ClaimOK(q, t, b),
           NEW u \in Users, NEW row, db'.users = [db.users EXCEPT ![u] = row],
           \/ /\ db.users[u] # NoRow /\ row.email = db.users[u].email
              /\ \/ row.verification = db.users[u].verification /\ row.reset = minted'
                 \/ row.reset = db.users[u].reset /\ row.verification = minted'
           \/ ~Taken(row.email) /\ row.verification = minted' /\ row.reset = 0
    PROVE  TokenInv'
<1>0. minted \in Nat /\ minted' \in Nat /\ db.users \in [Users -> Row \union {NoRow}]
    BY AccountsAssumption DEF TokenInv, TypeOK, Tables
<1>1. /\ UniqueEmails(db) /\ Unspent(db, minted, spent) /\ Distinct(db)
      /\ spent \subseteq 1..minted
    BY DEF TokenInv, GoodTokens
<1>2. minted' \notin 0..minted /\ minted' \notin spent /\ 0 \notin spent /\ minted' # 0
    BY <1>0, <1>1
<1>3. ASSUME NEW v \in Users, v # u
      PROVE  db'.users[v] = db.users[v]
    BY <1>0, <1>3
<1>4. db'.users[u] = row
    BY <1>0
<1>5. \A v \in Users : db.users[v] # NoRow =>
        {db.users[v].verification, db.users[v].reset} \subseteq 0..minted
    BY <1>1 DEF Unspent
<1>6. UniqueEmails(db')
    BY <1>1, <1>3, <1>4 DEF UniqueEmails, Taken
<1>7. Unspent(db', minted', spent)
    <2> SUFFICES ASSUME NEW v \in Users, db'.users[v] # NoRow
                 PROVE  {db'.users[v].verification, db'.users[v].reset} \subseteq (0..minted') \ spent
        BY DEF Unspent
    <2>1. CASE v # u
        BY <1>0, <1>1, <1>3, <2>1 DEF Unspent
    <2>2. CASE v = u
        BY <1>0, <1>1, <1>2, <1>4, <2>2 DEF Unspent
    <2> QED BY <2>1, <2>2
<1>8. Distinct(db')
    <2> SUFFICES ASSUME NEW v \in Users, NEW w \in Users, db'.users[v] # NoRow, db'.users[w] # NoRow
                 PROVE  /\ db'.users[v].verification = db'.users[w].verification =>
                            v = w \/ db'.users[v].verification = 0
                        /\ db'.users[v].reset = db'.users[w].reset => v = w \/ db'.users[v].reset = 0
                        /\ db'.users[v].verification = db'.users[w].reset =>
                            db'.users[v].verification = 0
        BY DEF Distinct
    <2>1. CASE v # u /\ w # u
        BY <1>1, <1>3, <2>1 DEF Distinct
    <2>2. CASE v = u /\ w # u
        BY <1>1, <1>2, <1>3, <1>4, <1>5, <2>2 DEF Distinct
    <2>3. CASE v # u /\ w = u
        BY <1>1, <1>2, <1>3, <1>4, <1>5, <2>3 DEF Distinct
    <2>4. CASE v = u /\ w = u
        BY <1>1, <1>2, <1>4, <1>5, <2>4 DEF Distinct
    <2> QED BY <2>1, <2>2, <2>3, <2>4
<1>9. GoodTokens(disk', minted', spent')
    BY <1>0, <1>1 DEF TokenInv, GoodTokens, UniqueEmails, Unspent, Distinct
<1>10. ASSUME NEW o \in Requests PROVE ClaimOK(requests'[o], db', minted')
    <2>1. CASE o = r
        BY <2>1 DEF TokenInv, TypeOK
    <2>2. CASE o # r
        <3>1. requests'[o] = requests[o] /\ ClaimOK(requests[o], db, minted)
            BY <2>2 DEF TokenInv, TypeOK
        <3> SUFFICES ASSUME Consumes(requests[o]) PROVE ClaimOK(requests[o], db', minted')
            BY <3>1 DEF ClaimOK
        <3> DEFINE g == requests[o].given
        <3>2. g \in 1..minted /\ g \in 1..minted' /\ g # minted' /\ g # 0
            BY <1>0, <3>1 DEF ClaimOK
        <3>3. ASSUME NEW v \in Users, db'.users[v] # NoRow
              PROVE  /\ requests[o].at = "markVerified" => db'.users[v].reset # g
                     /\ g \in {db'.users[v].verification, db'.users[v].reset} =>
                            v = requests[o].user /\ ~requests[o].open
            <4>1. CASE v # u
                BY <1>3, <3>1, <3>3, <4>1 DEF ClaimOK
            <4>2. CASE v = u
                BY <1>4, <3>1, <3>2, <4>2 DEF ClaimOK
            <4> QED BY <4>1, <4>2
        <3> QED BY <3>2, <3>3 DEF ClaimOK
    <2> QED BY <2>1, <2>2
<1>11. spent' \subseteq 1..minted'
    BY <1>0, <1>1
<1> QED BY <1>6, <1>7, <1>8, <1>9, <1>10, <1>11 DEF TokenInv, GoodTokens

LEMMA InsertUserTokens ==
    ASSUME TokenInv, TypeOK', NEW r \in Requests, InsertUser(r)
    PROVE  TokenInv'
<1> DEFINE u == requests[r].user
           row == [email |-> requests[r].email, hasPassword |-> TRUE, verified |-> FALSE,
                   verification |-> minted', reset |-> 0, key |-> minted']
           q == [requests[r] EXCEPT !.at = "insertPrefs", !.secret = minted']
<1>1. /\ ~Taken(requests[r].email) /\ db' = SetRow(u, row)
      /\ requests' = [requests EXCEPT ![r] = q]
      /\ minted' = minted + 1 /\ UNCHANGED <<disk, spent>>
    BY DEF InsertUser, Draw, Observed, TokenInv, TypeOK
<1>2. row.email = requests[r].email /\ row.verification = minted' /\ row.reset = 0
    OBVIOUS
<1>3. q.at = "insertPrefs"
    BY DEF TokenInv, TypeOK, Request
<1> HIDE DEF row, q
<1>4. \A t, b : ClaimOK(q, t, b)
    BY <1>3, NoClaim
<1>5. db'.users = [db.users EXCEPT ![u] = row]
    BY <1>1 DEF SetRow, TokenInv, TypeOK, Tables
<1>6. CASE u \in Users
    BY <1>1, <1>2, <1>4, <1>5, <1>6, DrawnTokens
<1>7. CASE u \notin Users
    <2>1. db'.users = db.users
        BY <1>5, <1>7 DEF TokenInv, TypeOK, Tables
    <2>2. Shrinks(db', db)
        BY <2>1, SameRows
    <2>3. minted <= minted'
        BY <1>1, AccountsAssumption DEF TokenInv, TypeOK
    <2> QED BY <1>1, <1>4, <2>2, <2>3, QuietTokens
<1> QED BY <1>6, <1>7

LEMMA IssueTokenTokens ==
    ASSUME TokenInv, TypeOK', NEW r \in Requests, IssueToken(r)
    PROVE  TokenInv'
<1> DEFINE u == requests[r].user
           row == IF requests[r].at = "issueReset"
                  THEN [db.users[u] EXCEPT !.reset = minted']
                  ELSE [db.users[u] EXCEPT !.verification = minted']
           q == [requests[r] EXCEPT !.open = TRUE, !.secret = minted']
<1>1. /\ requests[r].at \in {"issueVerification", "issueReset"}
      /\ db' = WithRow(u, row)
      /\ requests' = [requests EXCEPT ![r] = q]
      /\ minted' = minted + 1 /\ UNCHANGED <<disk, spent>>
    BY DEF IssueToken, At, Run, Draw, Observed, TokenInv, TypeOK
<1>2. db \in Tables /\ requests[r] \in Request
    BY DEF TokenInv, TypeOK
<1>3. q.at = requests[r].at
    BY <1>2 DEF Request
<1> HIDE DEF q
<1>4. \A t, b : ClaimOK(q, t, b)
    BY <1>1, <1>3, NoClaim
<1>5. CASE HasRow(db, u)
    <2>1. u \in Users /\ db.users[u] # NoRow /\ db.users[u] \in Row
        BY <1>2, <1>5 DEF HasRow, Tables
    <2>2. /\ row.email = db.users[u].email
          /\ \/ row.verification = db.users[u].verification /\ row.reset = minted'
             \/ row.reset = db.users[u].reset /\ row.verification = minted'
        BY <2>1 DEF Row
    <2> HIDE DEF row
    <2>3. db'.users = [db.users EXCEPT ![u] = row]
        BY <1>1, <1>2, <1>5 DEF WithRow, SetRow, Tables
    <2> QED BY <1>1, <1>4, <2>1, <2>2, <2>3, DrawnTokens
<1>6. CASE ~HasRow(db, u)
    <2>1. db' = db
        BY <1>1, <1>6 DEF WithRow
    <2>2. Shrinks(db', db)
        BY <2>1, SameRows
    <2>3. minted <= minted'
        BY <1>1, AccountsAssumption DEF TokenInv, TypeOK
    <2> QED BY <1>1, <1>4, <2>2, <2>3, QuietTokens
<1> QED BY <1>5, <1>6

\* The commit that spends a token: it is on file no more, in what is committed with it.
LEMMA CommitTokens ==
    ASSUME TokenInv, TypeOK', NEW r \in Requests, Commit(r)
    PROVE  TokenInv'
<1> DEFINE q == requests[r]
           next == [q EXCEPT !.at = After(q), !.open = FALSE, !.secret = 0]
           used == IF Consumes(q) THEN {q.given} \ {0} ELSE {}
<1>1. /\ q.open /\ disk' = db /\ spent' = spent \union used
      /\ requests' = [requests EXCEPT ![r] = Idle] \/ requests' = [requests EXCEPT ![r] = next]
      /\ UNCHANGED <<db, minted>>
    BY DEF Commit, Reply, Abandon, TokenInv, TypeOK
<1>2. minted \in Nat /\ q \in Request
    BY AccountsAssumption DEF TokenInv, TypeOK
<1>3. next.at = After(q)
    BY <1>2 DEF Request
<1>4. After(q) \notin {"markVerified", "setPassword"}
    BY DEF After
<1> HIDE DEF next
<1>5. ClaimOK(Idle, db, minted) /\ ClaimOK(next, db, minted)
    BY <1>3, <1>4, NoClaim, IdleNoClaim
<1>6. ASSUME NEW o \in Requests PROVE ClaimOK(requests'[o], db', minted')
    <2>1. ClaimOK(requests[o], db, minted) /\ db' = db /\ minted' = minted
        BY <1>1 DEF TokenInv
    <2>2. requests'[o] \in {requests[o], Idle, next}
        BY <1>1 DEF TokenInv, TypeOK
    <2> QED BY <1>5, <2>1, <2>2
<1>7. spent' \subseteq 1..minted'
    BY <1>1, <1>2 DEF TokenInv, ClaimOK
<1>8. ASSUME NEW v \in Users, db.users[v] # NoRow
      PROVE  db.users[v].verification \notin used /\ db.users[v].reset \notin used
    <2>1. ClaimOK(q, db, minted)
        BY DEF TokenInv
    <2> QED BY <1>1, <1>8, <2>1 DEF ClaimOK
<1>9. Unspent(db, minted, spent')
    BY <1>1, <1>8 DEF TokenInv, GoodTokens, Unspent
<1>10. GoodTokens(db, minted, spent')
    BY <1>9 DEF TokenInv, GoodTokens
<1>11. GoodTokens(db', minted', spent') /\ GoodTokens(disk', minted', spent')
    BY <1>1, <1>10
<1> QED BY <1>6, <1>7, <1>11 DEF TokenInv

LEMMA RequestFailsTokens ==
    ASSUME TokenInv, TypeOK', NEW r \in Requests, RequestFails(r)
    PROVE  TokenInv'
<1>1. /\ requests' = [requests EXCEPT ![r] = Idle]
      /\ UNCHANGED <<db, disk, minted, spent>>
    BY DEF RequestFails, Reply, Abandon
<1>2. Shrinks(db', db) /\ minted <= minted' /\ ClaimOK(Idle, db', minted')
    BY <1>1, IdleNoClaim, AccountsAssumption DEF Shrinks, TokenInv, TypeOK
<1> QED BY <1>1, <1>2, QuietTokens

LEMMA OtherTokens ==
    ASSUME TokenInv, TypeOK',
           (\E s \in Secrets : ExpireSession(s)) \/ CommitByOthers \/ Crash \/ UNCHANGED vars
    PROVE  TokenInv'
<1>1. minted \in Nat /\ db \in Tables /\ disk \in Tables /\ spent \subseteq 1..minted
    BY AccountsAssumption DEF TokenInv, TypeOK
<1>2. CASE (\E s \in Secrets : ExpireSession(s)) \/ CommitByOthers \/ UNCHANGED vars
    <2>1. UNCHANGED <<requests, minted, spent>>
        BY <1>2 DEF ExpireSession, CommitByOthers, Observed, vars
    <2>2. db'.users = db.users
        BY <1>1, <1>2 DEF ExpireSession, CommitByOthers, vars, Tables
    <2>3. disk' = disk \/ disk' = db \/ disk' = db'
        BY <1>2 DEF ExpireSession, CommitByOthers, vars
    <2>4. Shrinks(db', db)
        BY <2>2, SameRows
    <2>5. /\ GoodTokens(db, minted, spent) => GoodTokens(db', minted, spent)
          /\ \A q : ClaimOK(q, db, minted) => ClaimOK(q, db', minted)
        <3>1. minted <= minted
            BY <1>1
        <3> QED BY <1>1, <2>4, <3>1, ShrinkKeeps
    <2>6. GoodTokens(disk', minted, spent)
        BY <2>3, <2>5 DEF TokenInv
    <2>7. \A r \in Requests : ClaimOK(requests[r], db', minted)
        BY <2>5 DEF TokenInv
    <2> QED BY <1>1, <2>1, <2>5, <2>6, <2>7 DEF TokenInv
<1>3. CASE Crash
    <2>1. /\ db' = Migrated(disk) /\ disk' = db' /\ UNCHANGED <<minted, spent>>
          /\ requests' = [r \in Requests |-> Idle]
        BY <1>3 DEF Crash, Observed
    <2> DEFINE rows == [u \in Users |->
                IF disk.users[u] # NoRow /\ ~disk.users[u].hasPassword
                THEN [disk.users[u] EXCEPT !.verified = TRUE]
                ELSE disk.users[u]]
    <2>2. db'.users = rows
        BY <1>1, <2>1 DEF Migrated, Tables
    <2>3. Shrinks(db', disk)
        <3> SUFFICES ASSUME NEW u \in Users, rows[u] # NoRow
                     PROVE  /\ disk.users[u] # NoRow
                            /\ rows[u].email = disk.users[u].email
                            /\ rows[u].verification = disk.users[u].verification
                            /\ rows[u].reset = disk.users[u].reset
            BY <2>2 DEF Shrinks
        <3>1. disk.users[u] # NoRow
            OBVIOUS
        <3>2. disk.users[u] \in Row
            BY <1>1, <3>1 DEF Tables
        <3> QED BY <3>1, <3>2 DEF Row
    <2>4. GoodTokens(db', minted, spent)
        <3>1. GoodTokens(disk, minted, spent) /\ minted <= minted
            BY <1>1 DEF TokenInv
        <3> QED BY <1>1, <2>3, <3>1, ShrinkKeeps
    <2>5. \A r \in Requests : ClaimOK(requests'[r], db', minted)
        BY <2>1, IdleNoClaim
    <2> QED BY <1>1, <2>1, <2>4, <2>5 DEF TokenInv
<1> QED BY <1>2, <1>3

LEMMA InitTokens == Init /\ TypeOK => TokenInv
<1> SUFFICES ASSUME Init, TypeOK PROVE TokenInv
    OBVIOUS
<1>1. /\ disk = db /\ spent = {} /\ minted = 0
      /\ \A r \in Requests : requests[r] = Idle
    BY DEF Init
<1>2. CASE db = Empty
    BY <1>1, <1>2, IdleNoClaim DEF TokenInv, Empty, GoodTokens, UniqueEmails, Unspent, Distinct
<1>3. ASSUME NEW w \in Users, NEW e \in Emails, NEW password \in BOOLEAN,
             db = [Empty EXCEPT !.users[w] = Earlier(e, password), !.prefs = {w}]
      PROVE  TokenInv
    <2>1. db.users = [u \in Users |-> IF u = w THEN Earlier(e, password) ELSE NoRow]
        BY <1>3 DEF Empty
    <2>2. Earlier(e, password).verification = 0 /\ Earlier(e, password).reset = 0
        BY DEF Earlier
    <2>3. \A u \in Users : db.users[u] # NoRow =>
            u = w /\ db.users[u].verification = 0 /\ db.users[u].reset = 0
        BY <2>1, <2>2
    <2>4. GoodTokens(db, minted, spent)
        BY <1>1, <2>3 DEF GoodTokens, UniqueEmails, Unspent, Distinct
    <2> QED BY <1>1, <2>4, IdleNoClaim DEF TokenInv
<1> QED BY <1>2, <1>3 DEF Init

LEMMA NextTokens ==
    ASSUME TokenInv, TypeOK', [Next]_vars
    PROVE  TokenInv'
<1>1. CASE \E r \in Requests :
        \/ \E u \in Users, e \in Emails : SignupSubmit(r, u, e)
        \/ \E u \in Users : ByAddress(r, u) \/ RotateApiKey(r, u) \/ DeleteByApi(r, u)
        \/ \E u \in Users, s \in Secrets : ByLink(r, u, s) \/ ByCookie(r, u, s)
        \/ \E s \in Secrets : Logout(r, s)
    BY <1>1, ArrivalsTokens
<1>2. CASE \E r \in Requests : Statement(r) \/ Commit(r) \/ RequestFails(r)
    BY <1>2, InsertUserTokens, OtherStatementTokens, MarkVerifiedTokens, SetPasswordTokens,
       IssueTokenTokens, CommitTokens, RequestFailsTokens DEF Statement
<1>3. CASE (\E s \in Secrets : ExpireSession(s)) \/ CommitByOthers \/ Crash \/ UNCHANGED vars
    BY <1>3, OtherTokens
<1> QED BY <1>1, <1>2, <1>3 DEF Next

LEMMA TokenInvariance == Spec => []TokenInv
<1>1. Init => TokenInv
    BY InitIInv, InitTokens DEF IInv
<1>2. IInv /\ IInv' /\ TokenInv /\ [Next]_vars => TokenInv'
    BY NextTokens DEF IInv
<1> QED BY <1>1, <1>2, AccountsInvariance, PTL DEF Spec

\* No two accounts have one address, however many signups race for it.
THEOREM AddressesHaveOneAccount == Spec => []OneAccountPerEmail
<1>1. TokenInv => OneAccountPerEmail
    BY DEF TokenInv, GoodTokens, UniqueEmails, OneAccountPerEmail, HasRow
<1> QED BY <1>1, TokenInvariance, PTL

\* A token that was used is never on file again, nor is it after a crash.
THEOREM TokensAreUsedOnce == Spec => []SpentTokensStayDead
<1>1. TokenInv => SpentTokensStayDead
    BY DEF TokenInv, GoodTokens, Unspent, SpentTokensStayDead, HasRow
<1> QED BY <1>1, TokenInvariance, PTL

-----------------------------------------------------------------------------
(* Replies: what a client was told, the sessions it lost, and its preferences. *)

\* How far a request of each kind gets, and the numbers it knows.
Script(q, n) ==
    /\ q.kind = "signup" <=> q.at \in {"insertUser", "insertPrefs"}
    /\ q.kind = "delete" => q.at \in {"deleteUser", "endSession"}
    /\ q.at = "markVerified" => q.kind = "verify"
    /\ q.at = "endSession" => q.secret = 0
    /\ q.at = "insertUser" => ~q.open
    /\ q.secret <= n /\ q.since <= n

\* An account to be inserted was promised to nobody, and one deleted stays away.
Removed(q, d, k, ids, told) ==
    /\ q.at = "insertUser" => q.user \notin told
    /\ q.at = "endSession" /\ q.kind = "delete" => q.user \in ids /\ ~HasRow(k, q.user)
    /\ q.kind = "delete" /\ (q.open \/ q.at = "endSession") => ~HasRow(d, q.user)

\* Of the sessions a request found, none is left once it dropped them.
Dropped(q, d, k) ==
    /\ q.at = "dropSessions" /\ q.open => \A s \in 1..q.since : d.sessions[s] # q.user
    /\ q.at = "newSession" /\ q.kind # "verify" =>
        \A s \in 1..q.since : d.sessions[s] # q.user /\ k.sessions[s] # q.user

\* The preferences of an account under way are there once they were inserted, not before.
Preferring(q, d, k) == q.at = "insertPrefs" =>
    /\ q.open /\ HasRow(d, q.user) => q.user \in d.prefs
    /\ ~q.open => q.user \notin d.prefs /\ q.user \notin k.prefs

Promise(q, d, k, n, ids, told) ==
    Script(q, n) /\ Removed(q, d, k, ids, told) /\ Dropped(q, d, k) /\ Preferring(q, d, k)

\* An account being signed up is one request's, and no request deletes it before it exists.
Apart(f) == \A r, o \in Requests : f[r].user = f[o].user =>
    /\ f[r].kind = "signup" /\ f[o].kind = "signup" => r = o
    /\ ~(f[r].at = "insertUser" /\ f[o].kind = "delete")

\* A row without preferences was left by a fault, or its signup is under way.
Lone(d, k, f, n) == \A u \in Users : \A t \in {d, k} :
    HasRow(d, u) /\ HasRow(t, u) /\ u \notin t.prefs =>
        n > 0 \/ \E r \in Requests : f[r].user = u /\ f[r].at = "insertPrefs"

ReplyInv ==
    /\ TypeOK
    /\ \A r \in Requests : Promise(requests[r], db, disk, minted, issued, shown \union erased)
    /\ Apart(requests)
    /\ shown \subseteq issued /\ erased \subseteq issued /\ known \subseteq 1..minted
    /\ RepliesAreDurable
    /\ \A u \in shown : \A t \in {db, disk} : HasRow(t, u) => u \in t.prefs
    /\ Lone(db, disk, requests, faults)

\* Preferences go with their row only, and the numbers drawn so far name no new session.
Gentle(new, old, n) ==
    /\ \A u \in Users : HasRow(new, u) /\ u \in old.prefs => u \in new.prefs
    /\ \A s \in 1..n : new.sessions[s] \in {NoUser, old.sessions[s]}

\* A request that a step does not move keeps its promise.
LEMMA PromiseKept ==
    ASSUME IInv, ReplyInv, NEW o \in Requests, NEW d, NEW k, k = disk \/ k = d,
           Gentle(d, db, minted), NEW n \in Nat, minted <= n, NEW ids, issued \subseteq ids, NEW told,
           requests[o].at = "insertUser" => requests[o].user \notin told,
           requests[o].kind = "delete" \/ requests[o].at = "insertPrefs" =>
                (HasRow(d, requests[o].user) => HasRow(db, requests[o].user)),
           requests[o].at = "insertPrefs" => (requests[o].user \in d.prefs => requests[o].user \in db.prefs)
    PROVE  Promise(requests[o], d, k, n, ids, told)
<1> DEFINE q == requests[o]
<1>1. /\ Promise(q, db, disk, minted, issued, shown \union erased)
      /\ q \in Request /\ minted \in Nat
    BY AccountsAssumption DEF ReplyInv, TypeOK
<1>2. q.at \notin {"idle", "endSession"} => q.user \in Users
    BY DEF IInv, Sound, Active, TypeOK
<1> HIDE DEF q
<1>3. q.secret \in Nat /\ q.since \in Nat
    BY <1>1, AccountsAssumption DEF Request
<1>4. Script(q, n)
    BY <1>1, <1>3 DEF Promise, Script
<1>5. Removed(q, d, k, ids, told)
    BY <1>1 DEF Promise, Removed, q
<1>6. Dropped(q, d, k)
    <2>1. q.since <= minted
        BY <1>1 DEF Promise, Script
    <2>2. \A s \in 1..q.since : s \in 1..minted
        BY <1>1, <1>3, <2>1
    <2>3. q.at \in {"dropSessions", "newSession"} => q.user # NoUser
        BY <1>2, AccountsAssumption
    <2> QED BY <1>1, <2>2, <2>3 DEF Promise, Dropped, Gentle
<1>7. Preferring(q, d, k)
    <2> SUFFICES ASSUME q.at = "insertPrefs" PROVE Preferring(q, d, k)
        BY DEF Preferring
    <2>1. q.user \in Users
        BY <1>2
    <2> QED BY <1>1, <2>1 DEF Promise, Preferring, Gentle, q
<1> QED BY <1>4, <1>5, <1>6, <1>7 DEF Promise, q

\* One request takes a step.
LEMMA ReplyStep ==
    ASSUME IInv, TypeOK', ReplyInv, NEW r \in Requests, NEW q \in Request,
           requests' = [requests EXCEPT ![r] = q],
           disk' = disk \/ disk' = db', Gentle(db', db, minted),
           minted <= minted', issued \subseteq issued', faults <= faults',
           \A u \in Users : HasRow(db', u) => HasRow(db, u) \/
                (requests[r].at = "insertUser" /\ q.at = "insertPrefs" /\ q.user = u /\ requests[r].user = u),
           \A u \in db'.prefs : u \in db.prefs \/ (requests[r].at = "insertPrefs" /\ requests[r].user = u),
           known' = known \/ (disk' = db' /\ known' \subseteq 1..minted'),
           shown' \subseteq shown \union {requests[r].user},
           shown' = shown \/ (/\ requests[r].at = "insertPrefs" /\ disk' = db'
                              /\ HasRow(db', requests[r].user) => requests[r].user \in db'.prefs),
           erased' \subseteq erased \union {requests[r].user},
           erased' = erased \/ (/\ requests[r].kind = "delete"
                                /\ ~HasRow(db', requests[r].user) /\ ~HasRow(disk', requests[r].user)),
           Promise(q, db', disk', minted', issued', shown' \union erased'),
           q.kind = "signup" => q.user \notin issued \/
                (/\ requests[r].kind = "signup" /\ requests[r].user = q.user
                 /\ q.at = "insertUser" => requests[r].at = "insertUser"),
           q.kind = "delete" => HasRow(db, q.user) \/ (requests[r].kind = "delete" /\ requests[r].user = q.user),
           requests[r].at = "insertPrefs" =>
                \/ q.at = "insertPrefs" /\ q.user = requests[r].user
                \/ faults' > 0
                \/ ~HasRow(db', requests[r].user)
                \/ \A t \in {db', disk'} : HasRow(t, requests[r].user) => requests[r].user \in t.prefs
    PROVE  ReplyInv'
<1> DEFINE p == requests[r]
<1>1. /\ requests \in [Requests -> Request] /\ minted \in Nat /\ minted' \in Nat
      /\ faults \in Nat /\ faults' \in Nat
    BY AccountsAssumption DEF ReplyInv, TypeOK
<1>2. requests'[r] = q /\ \A o \in Requests : o # r => requests'[o] = requests[o]
    BY <1>1
<1>3. \A o \in Requests : Promise(requests[o], db, disk, minted, issued, shown \union erased)
    BY DEF ReplyInv
<1>4. \A o \in Requests : (requests[o].at \notin {"idle", "endSession"} \/ requests[o].kind \in {"delete", "signup"})
        => requests[o].user \in issued
    BY <1>3 DEF IInv, Sound, Active, Promise, Script, Removed
<1>5. \A o \in Requests : requests[o].at = "insertUser" =>
        requests[o].kind = "signup" /\ requests[o].user \notin shown \union erased /\ ~HasRow(db, requests[o].user)
    BY <1>3 DEF IInv, Sound, Promise, Script, Removed
<1>6. Apart(requests)
    BY DEF ReplyInv
<1>7. ASSUME NEW o \in Requests, o # r
      PROVE  Promise(requests[o], db', disk', minted', issued', shown' \union erased')
    <2>1. requests[o].at = "insertUser" => requests[o].user \notin shown' \union erased'
        <3> SUFFICES ASSUME requests[o].at = "insertUser", requests[o].user = p.user,
                            p.at = "insertPrefs" \/ p.kind = "delete"
                     PROVE  FALSE
            BY <1>5
        <3>1. p.at = "insertPrefs" => p.kind = "signup"
            BY <1>3 DEF Promise, Script
        <3> QED BY <1>5, <1>6, <1>7, <3>1 DEF Apart
    <2>2. requests[o].kind = "delete" \/ requests[o].at = "insertPrefs" =>
                (HasRow(db', requests[o].user) => HasRow(db, requests[o].user))
        <3> SUFFICES ASSUME requests[o].kind = "delete" \/ requests[o].at = "insertPrefs",
                            HasRow(db', requests[o].user), p.at = "insertUser", p.user = requests[o].user
                     PROVE  FALSE
            BY DEF HasRow
        <3>1. requests[o].at = "insertPrefs" => requests[o].kind = "signup"
            BY <1>3 DEF Promise, Script
        <3> QED BY <1>5, <1>6, <1>7, <3>1 DEF Apart
    <2>3. requests[o].at = "insertPrefs" =>
                (requests[o].user \in db'.prefs => requests[o].user \in db.prefs)
        <3> SUFFICES ASSUME requests[o].at = "insertPrefs", p.at = "insertPrefs", p.user = requests[o].user
                     PROVE  FALSE
            OBVIOUS
        <3>1. p.kind = "signup" /\ requests[o].kind = "signup"
            BY <1>3 DEF Promise, Script
        <3> QED BY <1>6, <1>7, <3>1 DEF Apart
    <2> QED BY <1>1, <2>1, <2>2, <2>3, PromiseKept
<1>8. \A o \in Requests : Promise(requests'[o], db', disk', minted', issued', shown' \union erased')
    BY <1>2, <1>7
<1>9. Apart(requests')
    <2>1. ASSUME NEW o \in Requests, o # r, requests[o].user = q.user, q.kind = "signup"
          PROVE  requests[o].kind \notin {"signup", "delete"} \/ (requests[o].kind = "delete" /\ q.at # "insertUser")
        BY <1>4, <1>6, <2>1 DEF Apart
    <2>2. ASSUME NEW o \in Requests, o # r, requests[o].user = q.user, q.kind = "delete"
          PROVE  requests[o].at # "insertUser"
        BY <1>5, <1>6, <2>2 DEF Apart
    <2>3. q.at = "insertUser" => q.kind = "signup"
        BY DEF Promise, Script
    <2> QED BY <1>2, <1>6, <2>1, <2>2, <2>3 DEF Apart
<1>10. shown' \subseteq issued' /\ erased' \subseteq issued'
    BY <1>4 DEF ReplyInv
<1>11. known' \subseteq 1..minted'
    <2>1. known \subseteq 1..minted
        BY DEF ReplyInv
    <2>2. 1..minted \subseteq 1..minted'
        BY <1>1
    <2> QED BY <2>1, <2>2
<1>12. \A u \in shown \union erased : u \in Users /\ (HasRow(db', u) => HasRow(db, u))
    BY <1>5 DEF ReplyInv, TypeOK
<1>13. RepliesAreDurable'
    <2>1. \A u \in shown' : HasRow(db', u) => HasRow(disk', u)
        BY <1>12 DEF ReplyInv, RepliesAreDurable
    <2>2. \A s \in known' : db'.sessions[s] # NoUser => disk'.sessions[s] = db'.sessions[s]
        BY DEF ReplyInv, RepliesAreDurable, Gentle
    <2>3. \A u \in erased' : ~HasRow(db', u) /\ ~HasRow(disk', u)
        BY <1>12 DEF ReplyInv, RepliesAreDurable
    <2> QED BY <2>1, <2>2, <2>3 DEF RepliesAreDurable, HasRow
<1>14. \A u \in shown' : \A t \in {db', disk'} : HasRow(t, u) => u \in t.prefs
    <2>1. \A u \in shown : HasRow(db', u) => u \in db'.prefs
        BY <1>12 DEF ReplyInv, Gentle
    <2>2. \A u \in shown : HasRow(disk', u) => u \in disk'.prefs
        BY <2>1 DEF ReplyInv
    <2> QED BY <2>1, <2>2
<1>15. Lone(db', disk', requests', faults')
    <2> SUFFICES ASSUME NEW u \in Users, NEW t \in {db', disk'},
                        HasRow(db', u), HasRow(t, u), u \notin t.prefs, faults' = 0
                 PROVE  \E o \in Requests : requests'[o].user = u /\ requests'[o].at = "insertPrefs"
        BY <1>1 DEF Lone
    <2>1. CASE ~HasRow(db, u)
        BY <1>2, <2>1
    <2>2. CASE HasRow(db, u)
        <3>1. \E v \in {db, disk} : HasRow(v, u) /\ u \notin v.prefs
            BY <2>2 DEF Gentle
        <3>2. PICK o \in Requests : requests[o].user = u /\ requests[o].at = "insertPrefs"
            BY <1>1, <2>2, <3>1 DEF ReplyInv, Lone
        <3>3. CASE o = r
            BY <1>2, <3>2, <3>3
        <3>4. CASE o # r
            BY <1>2, <3>2, <3>4
        <3> QED BY <3>3, <3>4
    <2> QED BY <2>1, <2>2
<1> QED BY <1>8, <1>9, <1>10, <1>11, <1>13, <1>14, <1>15 DEF ReplyInv, HasRow

\* A handler begins, on an account unless it is a logout.
LEMMA ArrivalReplies ==
    ASSUME IInv, TypeOK', ReplyInv, db' = db, disk' = disk \/ disk' = db,
           UNCHANGED <<minted, issued, known, shown, erased, faults>>,
           NEW r \in Requests, NEW kind \in Kinds \ {"none", "signup"},
           NEW at \in Stages \ {"idle", "insertUser", "insertPrefs", "newSession"},
           NEW u \in Users \union {NoUser}, NEW given \in 0..MaxSecrets,
           Begin(r, kind, at, u, given),
           kind = "delete" => at = "deleteUser" /\ HasRow(db, u),
           at = "markVerified" => kind = "verify"
    PROVE  ReplyInv'
<1>1. minted \in Nat /\ minted \in 0..MaxSecrets /\ faults \in Nat
    BY AccountsAssumption DEF ReplyInv, TypeOK
<1> DEFINE new == [Idle EXCEPT !.kind = kind, !.at = at, !.user = u, !.given = given,
                               !.since = IF kind = "login" THEN minted ELSE 0]
<1>2. new \in Request
    BY <1>1, IdleFacts, AccountsAssumption DEF Idle, Request
<1>3. PICK q \in Request : q = new
    BY <1>2
<1>4. /\ requests[r].at = "idle" /\ requests' = [requests EXCEPT ![r] = q]
      /\ q.kind = kind /\ q.at = at /\ q.user = u /\ q.secret = 0 /\ ~q.open
      /\ q.since \in {0, minted}
    BY <1>3 DEF Begin, Idle
<1>5. Gentle(db', db, minted)
    BY DEF Gentle
<1>6. Promise(q, db', disk', minted', issued', shown' \union erased')
    BY <1>1, <1>4 DEF Promise, Script, Removed, Dropped, Preferring
<1>7. minted <= minted' /\ faults <= faults' /\ issued \subseteq issued'
    BY <1>1
<1> QED BY <1>4, <1>5, <1>6, <1>7, ReplyStep

\* A handler ends, with an answer or without.
LEMMA EndReplies ==
    ASSUME IInv, TypeOK', ReplyInv, UNCHANGED <<db, minted, issued>>, disk' = disk \/ disk' = db,
           NEW r \in Requests, Abandon(r), faults <= faults',
           known' = known \/ (disk' = db /\ known' \subseteq 1..minted),
           shown' \subseteq shown \union {requests[r].user},
           shown' = shown \/ (/\ requests[r].at = "insertPrefs" /\ disk' = db
                              /\ HasRow(db, requests[r].user) => requests[r].user \in db.prefs),
           erased' \subseteq erased \union {requests[r].user},
           erased' = erased \/ (/\ requests[r].kind = "delete"
                                /\ ~HasRow(db, requests[r].user) /\ ~HasRow(disk', requests[r].user)),
           requests[r].at = "insertPrefs" =>
                \/ faults' > 0
                \/ ~HasRow(db, requests[r].user)
                \/ \A t \in {db, disk'} : HasRow(t, requests[r].user) => requests[r].user \in t.prefs
    PROVE  ReplyInv'
<1>1. minted \in Nat
    BY AccountsAssumption DEF ReplyInv, TypeOK
<1>2. PICK q \in Request : q = Idle
    BY IdleFacts
<1>3. /\ requests' = [requests EXCEPT ![r] = q]
      /\ q.at = "idle" /\ q.kind = "none" /\ q.secret = 0 /\ q.since = 0
    BY <1>2 DEF Abandon, Idle
<1>4. Gentle(db', db, minted)
    BY DEF Gentle
<1>5. Promise(q, db', disk', minted', issued', shown' \union erased')
    BY <1>1, <1>3 DEF Promise, Script, Removed, Dropped, Preferring
<1>6. minted <= minted' /\ issued \subseteq issued'
    BY <1>1
<1> QED BY <1>3, <1>4, <1>5, <1>6, ReplyStep

\* A statement runs, and its commit is to come.
LEMMA StatementReplies ==
    ASSUME IInv, TypeOK', ReplyInv, UNCHANGED <<disk, issued, known, shown, erased, faults>>,
           minted <= minted', NEW r \in Requests, NEW q \in Request,
           requests' = [requests EXCEPT ![r] = q], q.open,
           q.at = requests[r].at, q.kind = requests[r].kind, q.user = requests[r].user,
           q.at \notin {"idle", "insertUser"}, q.secret <= minted', q.at = "endSession" => q.secret = 0,
           q.since = requests[r].since \/ (q.at = "setPassword" /\ q.since = minted),
           Gentle(db', db, minted), \A u \in Users : HasRow(db', u) => HasRow(db, u),
           \A u \in db'.prefs : u \in db.prefs \/ (q.at = "insertPrefs" /\ u = q.user),
           q.at = "deleteUser" => ~HasRow(db', q.user),
           q.at = "dropSessions" => \A s \in 1..q.since : db'.sessions[s] # q.user,
           q.at = "insertPrefs" => (HasRow(db', q.user) => q.user \in db'.prefs)
    PROVE  ReplyInv'
<1>1. minted \in Nat /\ minted' \in Nat /\ faults \in Nat
    BY AccountsAssumption DEF ReplyInv, TypeOK
<1>2. Promise(requests[r], db, disk, minted, issued, shown \union erased) /\ requests[r] \in Request
    BY DEF ReplyInv, TypeOK
<1>3. requests[r].since \in Nat
    BY <1>2, AccountsAssumption DEF Request
<1>4. Script(q, minted')
    BY <1>1, <1>2, <1>3 DEF Promise, Script
<1>5. Removed(q, db', disk', issued', shown' \union erased')
    BY <1>2, <1>4 DEF Promise, Removed, Script, HasRow
<1>6. Dropped(q, db', disk')
    <2> SUFFICES ASSUME q.at = "newSession", q.kind # "verify", NEW s \in 1..q.since
                 PROVE  db'.sessions[s] # q.user /\ disk.sessions[s] # q.user
        BY DEF Dropped
    <2>1. s \in 1..requests[r].since /\ s \in 1..minted
        BY <1>1, <1>2, <1>3 DEF Promise, Script
    <2>2. q.user # NoUser
        BY AccountsAssumption DEF IInv, Sound, Active, TypeOK
    <2> QED BY <1>2, <2>1, <2>2 DEF Promise, Dropped, Gentle
<1>7. Preferring(q, db', disk')
    BY DEF Preferring
<1>8. Promise(q, db', disk', minted', issued', shown' \union erased')
    BY <1>4, <1>5, <1>6, <1>7 DEF Promise
<1>9. /\ q.kind = "delete" => requests[r].kind = "delete" /\ requests[r].user = q.user
      /\ q.kind = "signup" => requests[r].kind = "signup" /\ requests[r].user = q.user
      /\ requests[r].at = "insertPrefs" => q.at = "insertPrefs" /\ q.user = requests[r].user
      /\ faults <= faults' /\ issued \subseteq issued'
    BY <1>1
<1> QED BY <1>8, <1>9, ReplyStep

\* Only the tables change, and are committed.
LEMMA TableReplies ==
    ASSUME IInv, TypeOK', ReplyInv, UNCHANGED <<requests, minted, issued, known, shown, erased, faults>>,
           disk' = db' \/ disk' = disk, Gentle(db', db, minted), db'.prefs = db.prefs,
           \A u \in Users : HasRow(db', u) => HasRow(db, u)
    PROVE  ReplyInv'
<1>1. minted \in Nat /\ minted <= minted
    BY AccountsAssumption DEF ReplyInv, TypeOK
<1>2. \A r \in Requests : /\ requests[r].at = "insertUser" => requests[r].user \notin shown \union erased
                          /\ requests[r].at \in {"insertPrefs", "deleteUser"} => requests[r].user \in Users
                          /\ HasRow(db', requests[r].user) => HasRow(db, requests[r].user)
    BY DEF ReplyInv, Promise, Removed, IInv, Sound, Active, TypeOK, HasRow
<1>3. \A r \in Requests : Promise(requests[r], db', disk', minted, issued, shown \union erased)
    BY <1>1, <1>2, PromiseKept
<1>4. RepliesAreDurable'
    <2>1. \A u \in shown : HasRow(db', u) => HasRow(disk', u)
        BY DEF ReplyInv, RepliesAreDurable, TypeOK
    <2>2. \A s \in known : db'.sessions[s] # NoUser => disk'.sessions[s] = db'.sessions[s]
        BY DEF ReplyInv, RepliesAreDurable, Gentle
    <2>3. \A u \in erased : ~HasRow(db', u) /\ ~HasRow(disk', u)
        BY DEF ReplyInv, RepliesAreDurable, TypeOK
    <2> QED BY <2>1, <2>2, <2>3 DEF RepliesAreDurable, HasRow
<1>5. \A u \in shown : \A t \in {db', disk'} : HasRow(t, u) => u \in t.prefs
    BY DEF ReplyInv, TypeOK
<1>6. Lone(db', disk', requests, faults)
    BY DEF ReplyInv, Lone
<1> QED BY <1>3, <1>4, <1>5, <1>6 DEF ReplyInv, HasRow

LEMMA ArrivalsReplies ==
    ASSUME IInv, TypeOK', ReplyInv, NEW r \in Requests
    PROVE  /\ \A u \in Users : ByAddress(r, u) \/ RotateApiKey(r, u) \/ DeleteByApi(r, u) => ReplyInv'
           /\ \A u \in Users, s \in Secrets : ByLink(r, u, s) \/ ByCookie(r, u, s) => ReplyInv'
           /\ \A s \in Secrets : Logout(r, s) => ReplyInv'
<1> USE DEF Kinds, Stages
<1>1. ASSUME NEW u \in Users, ByAddress(r, u) \/ RotateApiKey(r, u) \/ DeleteByApi(r, u)
      PROVE  ReplyInv'
    <2>1. /\ UNCHANGED <<db, minted, issued, known, shown, erased, faults>> /\ disk' \in {disk, db}
          /\ \/ Begin(r, "login", "dropSessions", u, 0)
             \/ Begin(r, "mail", "issueReset", u, 0)
             \/ Begin(r, "mail", "issueVerification", u, 0)
             \/ Begin(r, "rotate", "rotateKey", u, 0)
             \/ Begin(r, "delete", "deleteUser", u, 0) /\ HasRow(db, u)
        BY <1>1 DEF ByAddress, LoginSubmit, ForgotPasswordSubmit, ResendVerification, RotateApiKey,
            DeleteByApi, KeyHolder, Reads
    <2>2. PICK given \in 0..MaxSecrets : given = 0
        BY ZeroIsNone
    <2>3. CASE Begin(r, "login", "dropSessions", u, 0)
        BY <2>1, <2>2, <2>3, ArrivalReplies
    <2>4. CASE Begin(r, "mail", "issueReset", u, 0) \/ Begin(r, "mail", "issueVerification", u, 0)
        BY <2>1, <2>2, <2>4, ArrivalReplies
    <2>5. CASE Begin(r, "rotate", "rotateKey", u, 0)
        BY <2>1, <2>2, <2>5, ArrivalReplies
    <2>6. CASE Begin(r, "delete", "deleteUser", u, 0) /\ HasRow(db, u)
        BY <2>1, <2>2, <2>6, ArrivalReplies
    <2> QED BY <2>1, <2>3, <2>4, <2>5, <2>6
<1>2. ASSUME NEW u \in Users, NEW s \in Secrets, ByLink(r, u, s) \/ ByCookie(r, u, s) PROVE ReplyInv'
    <2>1. /\ UNCHANGED <<db, minted, issued, known, shown, erased, faults>> /\ disk' \in {disk, db}
          /\ \/ Begin(r, "verify", "markVerified", u, s)
             \/ Begin(r, "reset", "setPassword", u, s)
             \/ Begin(r, "change", "setPassword", u, 0)
             \/ Begin(r, "rotate", "rotateKey", u, s)
             \/ Begin(r, "delete", "deleteUser", u, s) /\ HasRow(db, u)
        BY <1>2 DEF ByLink, VerifyEmail, ResetPasswordSubmit, Reads, ByCookie, ChangePassword,
            RotateKeyOnPage, DeleteAccount, SignedIn
    <2>2. PICK given \in 0..MaxSecrets : given = 0
        BY ZeroIsNone
    <2>3. s \in 0..MaxSecrets
        BY AccountsAssumption DEF Secrets
    <2>4. CASE Begin(r, "verify", "markVerified", u, s) \/ Begin(r, "reset", "setPassword", u, s)
        BY <2>1, <2>3, <2>4, ArrivalReplies
    <2>5. CASE Begin(r, "change", "setPassword", u, 0)
        BY <2>1, <2>2, <2>5, ArrivalReplies
    <2>6. CASE Begin(r, "rotate", "rotateKey", u, s)
        BY <2>1, <2>3, <2>6, ArrivalReplies
    <2>7. CASE Begin(r, "delete", "deleteUser", u, s) /\ HasRow(db, u)
        BY <2>1, <2>3, <2>7, ArrivalReplies
    <2> QED BY <2>1, <2>4, <2>5, <2>6, <2>7
<1>3. ASSUME NEW s \in Secrets, Logout(r, s) PROVE ReplyInv'
    <2>1. /\ UNCHANGED <<db, minted, issued, known, shown, erased, faults, disk>>
          /\ Begin(r, "logout", "endSession", NoUser, s)
        BY <1>3 DEF Logout, Reads
    <2>2. s \in 0..MaxSecrets
        BY AccountsAssumption DEF Secrets
    <2> QED BY <2>1, <2>2, ArrivalReplies
<1> QED BY <1>1, <1>2, <1>3

\* A signup draws an id nobody was promised anything about.
LEMMA SignupSubmitReplies ==
    ASSUME IInv, TypeOK', ReplyInv, NEW r \in Requests, NEW u \in Users, NEW e \in Emails,
           SignupSubmit(r, u, e)
    PROVE  ReplyInv'
<1> DEFINE new == [Idle EXCEPT !.kind = "signup", !.at = "insertUser", !.user = u, !.email = e]
<1>1. minted \in Nat /\ faults \in Nat /\ requests[r].at = "idle"
    BY AccountsAssumption DEF ReplyInv, TypeOK, SignupSubmit
<1>2. new \in Request
    BY ZeroIsNone DEF Idle, Request, Kinds, Stages
<1>3. PICK q \in Request : q = new
    BY <1>2
<1>4. /\ requests' = [requests EXCEPT ![r] = q]
      /\ q.kind = "signup" /\ q.at = "insertUser" /\ q.user = u
      /\ q.secret = 0 /\ q.since = 0 /\ ~q.open
    BY <1>3 DEF SignupSubmit, Idle
<1>5. /\ u \notin issued /\ issued' = issued \union {u}
      /\ UNCHANGED <<db, disk, minted, known, shown, erased, faults>>
    BY DEF SignupSubmit
<1>6. shown \subseteq issued /\ erased \subseteq issued
    BY DEF ReplyInv
<1>7. Promise(q, db', disk', minted', issued', shown' \union erased')
    BY <1>1, <1>4, <1>5, <1>6 DEF Promise, Script, Removed, Dropped, Preferring
<1>8. Gentle(db', db, minted) /\ minted <= minted' /\ faults <= faults'
    BY <1>1, <1>5 DEF Gentle
<1> QED BY <1>1, <1>4, <1>5, <1>7, <1>8, ReplyStep

LEMMA RunKeeps ==
    ASSUME TypeOK, NEW r \in Requests, NEW secret \in 0..MaxSecrets, Run(r, secret)
    PROVE  \E q \in Request :
                /\ requests' = [requests EXCEPT ![r] = q]
                /\ q.at = requests[r].at /\ q.kind = requests[r].kind /\ q.user = requests[r].user
                /\ q.open /\ q.secret = secret /\ q.since = requests[r].since
<1> DEFINE new == [requests[r] EXCEPT !.open = TRUE, !.secret = secret]
<1>1. requests[r] \in Request
    BY DEF TypeOK
<1>2. new \in Request /\ requests' = [requests EXCEPT ![r] = new]
    BY <1>1 DEF Run, TypeOK, Request
<1>3. /\ new.at = requests[r].at /\ new.kind = requests[r].kind /\ new.user = requests[r].user
      /\ new.open /\ new.secret = secret /\ new.since = requests[r].since
    BY <1>1 DEF Request
<1> HIDE DEF new
<1> QED BY <1>2, <1>3

LEMMA DrawnSecret ==
    ASSUME TypeOK, Draw
    PROVE  /\ minted \in Nat /\ minted' = minted + 1
           /\ minted <= minted' /\ minted' \in 0..MaxSecrets /\ minted' \in Secrets
BY AccountsAssumption DEF TypeOK, Draw, Secrets

\* An update of the request's own row touches neither sessions nor preferences.
LEMMA UpdateReplies ==
    ASSUME IInv, TypeOK', ReplyInv, UNCHANGED <<disk, issued, known, shown, erased, faults>>,
           minted <= minted', NEW r \in Requests, NEW q \in Request,
           requests' = [requests EXCEPT ![r] = q], q.open,
           q.at = requests[r].at, q.kind = requests[r].kind, q.user = requests[r].user,
           q.at \in {"markVerified", "setPassword", "issueVerification", "issueReset", "rotateKey"},
           q.secret <= minted',
           q.since = requests[r].since \/ (q.at = "setPassword" /\ q.since = minted),
           NEW row, HasRow(db, requests[r].user) => row \in Row, db' = WithRow(requests[r].user, row)
    PROVE  ReplyInv'
<1>1. q.user \in Users
    BY ActiveUser DEF Active
<1>2. /\ db'.prefs = db.prefs /\ db'.sessions = db.sessions
      /\ \A u \in Users : HasRow(db', u) => HasRow(db, u)
    <2>1. CASE ~HasRow(db, q.user)
        BY <2>1 DEF WithRow
    <2>2. CASE HasRow(db, q.user)
        <3>1. db' = SetRow(q.user, row) /\ row \in Row /\ db \in Tables
            BY <2>2 DEF WithRow, ReplyInv, TypeOK
        <3>2. /\ db'.users = [db.users EXCEPT ![q.user] = row]
              /\ db'.prefs = db.prefs /\ db'.sessions = db.sessions
            BY <1>1, <3>1, SetRowFacts
        <3> QED BY <2>2, <3>1, <3>2 DEF HasRow, Tables
    <2> QED BY <2>1, <2>2
<1>3. Gentle(db', db, minted)
    BY <1>2 DEF Gentle
<1> QED BY <1>2, <1>3, StatementReplies

LEMMA UpdatesReplies ==
    ASSUME IInv, TypeOK', ReplyInv, NEW r \in Requests,
           MarkVerified(r) \/ SetPassword(r) \/ IssueToken(r) \/ RotateKey(r)
    PROVE  ReplyInv'
<1> DEFINE u == requests[r].user
<1>1. /\ UNCHANGED <<disk, issued, known, shown, erased, faults>> /\ minted \in Nat
      /\ requests[r] \in Request /\ requests \in [Requests -> Request]
    BY AccountsAssumption DEF ReplyInv, TypeOK, MarkVerified, SetPassword, IssueToken, RotateKey, Observed
<1>2. HasRow(db, u) => db.users[u] \in Row
    BY RowOf DEF ReplyInv, TypeOK
<1>3. CASE MarkVerified(r)
    <2> DEFINE row == [db.users[u] EXCEPT !.verified = TRUE, !.verification = 0]
    <2>1. /\ minted' = minted /\ Run(r, 0) /\ db' = WithRow(u, row)
          /\ requests[r].at = "markVerified"
        BY <1>3 DEF MarkVerified, At
    <2>2. PICK q \in Request :
                /\ requests' = [requests EXCEPT ![r] = q]
                /\ q.at = requests[r].at /\ q.kind = requests[r].kind /\ q.user = requests[r].user
                /\ q.open /\ q.secret = 0 /\ q.since = requests[r].since
        BY <2>1, ZeroIsNone, RunKeeps DEF ReplyInv
    <2>3. HasRow(db, u) => row \in Row
        BY <1>2, ZeroIsNone DEF Row
    <2>4. minted <= minted' /\ q.secret <= minted'
        BY <1>1, <2>1, <2>2
    <2> HIDE DEF row
    <2> QED BY <1>1, <2>1, <2>2, <2>3, <2>4, UpdateReplies
<1>4. CASE SetPassword(r)
    <2> DEFINE row == IF requests[r].kind = "reset"
                      THEN [db.users[u] EXCEPT !.hasPassword = TRUE, !.verified = TRUE,
                                               !.reset = 0, !.verification = 0]
                      ELSE [db.users[u] EXCEPT !.hasPassword = TRUE]
               new == [requests[r] EXCEPT !.open = TRUE, !.since = minted]
    <2>1. /\ minted' = minted /\ db' = WithRow(u, row) /\ requests[r].at = "setPassword"
        BY <1>4 DEF SetPassword, At
    <2>2. new \in Request /\ requests' = [requests EXCEPT ![r] = new]
        BY <1>1, <1>4 DEF SetPassword, Request, ReplyInv, TypeOK
    <2>3. PICK q \in Request : q = new
        BY <2>2
    <2>4. /\ requests' = [requests EXCEPT ![r] = q]
          /\ q.at = requests[r].at /\ q.kind = requests[r].kind /\ q.user = requests[r].user
          /\ q.open /\ q.since = minted /\ q.secret = requests[r].secret
        BY <1>1, <2>2, <2>3 DEF Request
    <2>5. HasRow(db, u) => row \in Row
        BY <1>2, ZeroIsNone DEF Row
    <2>6. minted <= minted' /\ q.secret <= minted'
        BY <1>1, <2>1, <2>4 DEF ReplyInv, Promise, Script
    <2> HIDE DEF row, new
    <2> QED BY <1>1, <2>1, <2>4, <2>5, <2>6, UpdateReplies
<1>5. CASE IssueToken(r)
    <2> DEFINE row == IF requests[r].at = "issueReset"
                      THEN [db.users[u] EXCEPT !.reset = minted']
                      ELSE [db.users[u] EXCEPT !.verification = minted']
    <2>1. /\ minted <= minted' /\ minted' \in 0..MaxSecrets
          /\ Run(r, minted') /\ db' = WithRow(u, row)
          /\ requests[r].at \in {"issueVerification", "issueReset"}
        BY <1>5, DrawnSecret DEF IssueToken, At, ReplyInv
    <2>2. PICK n \in 0..MaxSecrets : n = minted'
        BY <2>1
    <2>3. PICK q \in Request :
                /\ requests' = [requests EXCEPT ![r] = q]
                /\ q.at = requests[r].at /\ q.kind = requests[r].kind /\ q.user = requests[r].user
                /\ q.open /\ q.secret = n /\ q.since = requests[r].since
        BY <2>1, <2>2, RunKeeps DEF ReplyInv
    <2>4. HasRow(db, u) => row \in Row
        BY <1>2, <2>1 DEF Row
    <2>5. q.secret <= minted'
        BY <2>1, <2>2, <2>3
    <2> HIDE DEF row
    <2> QED BY <1>1, <2>1, <2>3, <2>4, <2>5, UpdateReplies
<1>6. CASE RotateKey(r)
    <2> DEFINE row == [db.users[u] EXCEPT !.key = minted']
    <2>1. /\ minted <= minted' /\ minted' \in 0..MaxSecrets
          /\ Run(r, minted') /\ db' = WithRow(u, row)
          /\ requests[r].at = "rotateKey"
        BY <1>6, DrawnSecret DEF RotateKey, At, ReplyInv
    <2>2. PICK n \in 0..MaxSecrets : n = minted'
        BY <2>1
    <2>3. PICK q \in Request :
                /\ requests' = [requests EXCEPT ![r] = q]
                /\ q.at = requests[r].at /\ q.kind = requests[r].kind /\ q.user = requests[r].user
                /\ q.open /\ q.secret = n /\ q.since = requests[r].since
        BY <2>1, <2>2, RunKeeps DEF ReplyInv
    <2>4. HasRow(db, u) => row \in Row
        BY <1>2, <2>1 DEF Row
    <2>5. q.secret <= minted'
        BY <2>1, <2>2, <2>3
    <2> HIDE DEF row
    <2> QED BY <1>1, <2>1, <2>3, <2>4, <2>5, UpdateReplies
<1> QED BY <1>3, <1>4, <1>5, <1>6

\* Statements that delete or add sessions.
LEMMA SessionReplies ==
    ASSUME IInv, TypeOK', ReplyInv, NEW r \in Requests,
           DropSessions(r) \/ EndSession(r) \/ NewSession(r)
    PROVE  ReplyInv'
<1> DEFINE u == requests[r].user
<1>1. /\ UNCHANGED <<disk, issued, known, shown, erased, faults>> /\ minted \in Nat
      /\ db \in Tables /\ db.sessions \in [Secrets -> Users \union {NoUser}]
      /\ \A s \in 1..minted : s \in Secrets
    BY AccountsAssumption DEF ReplyInv, TypeOK, DropSessions, EndSession, NewSession, Observed, Tables, Secrets
<1>2. CASE DropSessions(r) \/ EndSession(r)
    <2>1. /\ minted' = minted /\ Run(r, 0) /\ requests[r].at \in {"dropSessions", "endSession"}
        BY <1>2 DEF DropSessions, EndSession, At
    <2>2. PICK q \in Request :
                /\ requests' = [requests EXCEPT ![r] = q]
                /\ q.at = requests[r].at /\ q.kind = requests[r].kind /\ q.user = requests[r].user
                /\ q.open /\ q.secret = 0 /\ q.since = requests[r].since
        BY <2>1, ZeroIsNone, RunKeeps DEF ReplyInv
    <2>3. /\ db'.users = db.users /\ db'.prefs = db.prefs
          /\ \A s \in Secrets : db'.sessions[s] \in {NoUser, db.sessions[s]}
          /\ q.at = "dropSessions" => \A s \in Secrets : db'.sessions[s] # u \/ u = NoUser
        BY <1>1, <1>2, <2>2 DEF DropSessions, EndSession, At, Tables
    <2>4. Gentle(db', db, minted) /\ \A v \in Users : HasRow(db', v) => HasRow(db, v)
        BY <1>1, <2>3 DEF Gentle, HasRow
    <2>5. q.at = "dropSessions" => \A s \in 1..q.since : db'.sessions[s] # q.user
        <3> SUFFICES ASSUME q.at = "dropSessions", NEW s \in 1..q.since
                     PROVE  db'.sessions[s] # q.user
            OBVIOUS
        <3>1. u \in Users
            BY <2>2, ActiveUser DEF Active
        <3>2. q.since <= minted
            BY <2>2 DEF ReplyInv, Promise, Script
        <3>3. s \in 1..minted
            BY <1>1, <3>2, AccountsAssumption DEF Request
        <3> QED BY <1>1, <2>2, <2>3, <3>1, <3>3, AccountsAssumption
    <2>6. minted <= minted' /\ q.secret <= minted'
        BY <1>1, <2>1, <2>2
    <2> QED BY <1>1, <2>1, <2>2, <2>3, <2>4, <2>5, <2>6, StatementReplies
<1>3. CASE NewSession(r) /\ HasRow(db, u)
    <2>1. /\ minted' = minted + 1 /\ minted <= minted' /\ minted' \in 0..MaxSecrets /\ minted' \in Secrets
          /\ Run(r, minted') /\ requests[r].at = "newSession"
          /\ db' = [db EXCEPT !.sessions[minted'] = u]
        BY <1>3, DrawnSecret DEF NewSession, At, ReplyInv
    <2>2. PICK n \in 0..MaxSecrets : n = minted'
        BY <2>1
    <2>3. PICK q \in Request :
                /\ requests' = [requests EXCEPT ![r] = q]
                /\ q.at = requests[r].at /\ q.kind = requests[r].kind /\ q.user = requests[r].user
                /\ q.open /\ q.secret = n /\ q.since = requests[r].since
        BY <2>1, <2>2, RunKeeps DEF ReplyInv
    <2>4. /\ db'.users = db.users /\ db'.prefs = db.prefs
          /\ db'.sessions = [db.sessions EXCEPT ![n] = u]
        BY <1>1, <2>1, <2>2 DEF Tables
    <2>5. \A s \in 1..minted : s # n
        BY <1>1, <2>1, <2>2
    <2>6. Gentle(db', db, minted) /\ \A v \in Users : HasRow(db', v) => HasRow(db, v)
        BY <1>1, <2>4, <2>5 DEF Gentle, HasRow
    <2>7. q.secret <= minted'
        BY <2>1, <2>2, <2>3
    <2> QED BY <1>1, <2>1, <2>3, <2>4, <2>6, <2>7, StatementReplies
<1>4. CASE NewSession(r) /\ ~HasRow(db, u)
    <2>1. UNCHANGED <<db, minted>> /\ Abandon(r) /\ requests[r].at = "newSession"
        BY <1>4 DEF NewSession, At
    <2>2. faults <= faults'
        BY <1>1, AccountsAssumption DEF ReplyInv, TypeOK
    <2> QED BY <1>1, <2>1, <2>2, EndReplies
<1> QED BY <1>2, <1>3, <1>4

LEMMA DeleteUserReplies ==
    ASSUME IInv, TypeOK', ReplyInv, NEW r \in Requests, DeleteUser(r)
    PROVE  ReplyInv'
<1> DEFINE u == requests[r].user
<1>1. /\ UNCHANGED <<disk, minted, issued, known, shown, erased, faults>> /\ minted \in Nat
      /\ db \in Tables /\ requests[r].at = "deleteUser" /\ Run(r, 0)
      /\ \A s \in 1..minted : s \in Secrets
    BY AccountsAssumption DEF ReplyInv, TypeOK, DeleteUser, At, Observed, Secrets
<1>2. PICK q \in Request :
            /\ requests' = [requests EXCEPT ![r] = q]
            /\ q.at = requests[r].at /\ q.kind = requests[r].kind /\ q.user = requests[r].user
            /\ q.open /\ q.secret = 0 /\ q.since = requests[r].since
    BY <1>1, ZeroIsNone, RunKeeps DEF ReplyInv
<1>3. u \in Users
    BY <1>1, ActiveUser DEF Active
<1>4. /\ db'.users = [db.users EXCEPT ![u] = NoRow] /\ db'.prefs = db.prefs \ {u}
      /\ db'.sessions = [s \in Secrets |-> IF db.sessions[s] = u THEN NoUser ELSE db.sessions[s]]
    BY DEF DeleteUser
<1>5. \A v \in Users : HasRow(db', v) => HasRow(db, v) /\ v # u
    BY <1>1, <1>3, <1>4 DEF HasRow, Tables
<1>6. Gentle(db', db, minted)
    BY <1>1, <1>4, <1>5 DEF Gentle
<1>7. minted <= minted' /\ q.secret <= minted'
    BY <1>1, <1>2
<1>8. ~HasRow(db', q.user)
    BY <1>2, <1>5 DEF HasRow
<1> QED BY <1>1, <1>2, <1>4, <1>5, <1>6, <1>7, <1>8, StatementReplies

\* While its signup is under way an account's preferences are one request's to insert.
LEMMA InsertPrefsReplies ==
    ASSUME IInv, TypeOK', ReplyInv, NEW r \in Requests, InsertPrefs(r)
    PROVE  ReplyInv'
<1> DEFINE u == requests[r].user
<1>1. /\ UNCHANGED <<disk, minted, issued, known, shown, erased, faults>> /\ minted \in Nat
      /\ db \in Tables /\ requests[r].at = "insertPrefs" /\ ~requests[r].open
      /\ minted <= minted' /\ faults <= faults'
    BY AccountsAssumption DEF ReplyInv, TypeOK, InsertPrefs, At, Observed
<1>2. CASE HasRow(db, u) /\ u \notin db.prefs
    <2>1. /\ Run(r, requests[r].secret) /\ requests[r].secret \in 0..MaxSecrets
          /\ requests[r].secret <= minted
          /\ db'.users = db.users /\ db'.sessions = db.sessions /\ db'.prefs = db.prefs \union {u}
        BY <1>1, <1>2 DEF InsertPrefs, ReplyInv, Promise, Script, TypeOK, Request, Tables
    <2>2. PICK n \in 0..MaxSecrets : n = requests[r].secret
        BY <2>1
    <2>3. PICK q \in Request :
                /\ requests' = [requests EXCEPT ![r] = q]
                /\ q.at = requests[r].at /\ q.kind = requests[r].kind /\ q.user = requests[r].user
                /\ q.open /\ q.secret = n /\ q.since = requests[r].since
        BY <2>1, <2>2, RunKeeps DEF ReplyInv
    <2>4. Gentle(db', db, minted) /\ \A v \in Users : HasRow(db', v) => HasRow(db, v)
        BY <2>1 DEF Gentle, HasRow
    <2>5. q.secret <= minted'
        BY <1>1, <2>1, <2>2, <2>3
    <2> QED BY <1>1, <2>1, <2>3, <2>4, <2>5, StatementReplies
<1>3. CASE ~(HasRow(db, u) /\ u \notin db.prefs)
    <2>1. UNCHANGED db /\ Abandon(r)
        BY <1>3 DEF InsertPrefs
    <2>2. u \notin db.prefs
        BY <1>1 DEF ReplyInv, Promise, Preferring
    <2> QED BY <1>1, <1>3, <2>1, <2>2, EndReplies
<1> QED BY <1>2, <1>3

LEMMA DuplicateEmailReplies ==
    ASSUME IInv, TypeOK', ReplyInv, NEW r \in Requests, DuplicateEmail(r)
    PROVE  ReplyInv'
<1>1. /\ UNCHANGED <<db, disk, minted, issued, known, shown, erased, faults>> /\ Abandon(r)
      /\ requests[r].at = "insertUser" /\ faults <= faults'
    BY AccountsAssumption DEF DuplicateEmail, At, Observed, ReplyInv, TypeOK
<1> QED BY <1>1, EndReplies

\* The row appears where neither preferences nor a promise point.
LEMMA InsertUserReplies ==
    ASSUME IInv, TypeOK', ReplyInv, NEW r \in Requests, InsertUser(r)
    PROVE  ReplyInv'
<1> DEFINE u == requests[r].user
           new == [requests[r] EXCEPT !.at = "insertPrefs", !.secret = minted']
<1>1. /\ requests[r].at = "insertUser" /\ ~requests[r].open /\ requests[r] \in Request
      /\ UNCHANGED <<disk, issued, known, shown, erased, faults>> /\ faults \in Nat
      /\ minted \in Nat /\ minted <= minted' /\ minted' \in 0..MaxSecrets /\ db \in Tables
    BY DrawnSecret, AccountsAssumption DEF InsertUser, At, Observed, ReplyInv, TypeOK
<1>2. new \in Request
    BY <1>1 DEF Request, Stages
<1>3. PICK q \in Request : q = new
    BY <1>2
<1>4. /\ q.at = "insertPrefs" /\ q.kind = requests[r].kind /\ q.user = u
      /\ ~q.open /\ q.secret = minted' /\ q.since = requests[r].since
    BY <1>1, <1>3 DEF Request
<1>5. requests' = [requests EXCEPT ![r] = q]
    BY <1>1, <1>3 DEF InsertUser, ReplyInv, TypeOK, Request
<1>6. /\ q.kind = "signup" /\ q.since <= minted
      /\ u \notin shown \union erased
    BY <1>1, <1>4 DEF ReplyInv, Promise, Script, Removed
<1>7. u \in Users /\ ~HasRow(db, u) /\ ~HasRow(disk, u)
    BY <1>1, ActiveUser DEF Active, IInv, Sound
<1>8. u \notin db.prefs /\ u \notin disk.prefs
    BY <1>7 DEF IInv, RowsOwned, Owned
<1>9. /\ db'.prefs = db.prefs /\ db'.sessions = db.sessions
      /\ \A v \in Users : v # u /\ HasRow(db', v) => HasRow(db, v)
    <2>1. PICK row : db' = SetRow(u, row)
        BY DEF InsertUser
    <2>2. /\ db'.users = [db.users EXCEPT ![u] = row]
          /\ db'.prefs = db.prefs /\ db'.sessions = db.sessions
        BY <1>1, <2>1 DEF SetRow, Tables
    <2> QED BY <1>1, <2>2 DEF HasRow, Tables
<1>10. Gentle(db', db, minted)
    BY <1>8, <1>9 DEF Gentle
<1>11. q.since <= minted'
    BY <1>1, <1>4, <1>6, AccountsAssumption DEF Request
<1>12. Promise(q, db', disk', minted', issued', shown' \union erased')
    <2>1. Script(q, minted')
        BY <1>1, <1>4, <1>6, <1>11 DEF Script
    <2>2. Removed(q, db', disk', issued', shown' \union erased') /\ Dropped(q, db', disk')
        BY <1>4, <1>6 DEF Removed, Dropped
    <2>3. Preferring(q, db', disk')
        BY <1>1, <1>4, <1>8, <1>9 DEF Preferring
    <2> QED BY <2>1, <2>2, <2>3 DEF Promise
<1>13. /\ issued \subseteq issued' /\ faults <= faults'
       /\ \A v \in Users : HasRow(db', v) => HasRow(db, v) \/ v = u
    BY <1>1, <1>9
<1> QED BY <1>1, <1>4, <1>5, <1>6, <1>9, <1>10, <1>12, <1>13, ReplyStep

LEMMA CommitReplies ==
    ASSUME IInv, TypeOK', ReplyInv, NEW r \in Requests, Commit(r)
    PROVE  ReplyInv'
<1>1. /\ UNCHANGED <<db, minted, issued, faults>> /\ disk' = db /\ requests[r].open
      /\ requests[r] \in Request /\ minted \in Nat /\ faults <= faults' /\ minted <= minted'
    BY AccountsAssumption DEF Commit, ReplyInv, TypeOK
<1>2. /\ Promise(requests[r], db, disk, minted, issued, shown \union erased)
      /\ requests[r].kind = "delete" => ~HasRow(db, requests[r].user)
    BY <1>1 DEF ReplyInv, Promise, Removed
<1>3. requests[r].at = "insertPrefs" => (HasRow(db, requests[r].user) => requests[r].user \in db.prefs)
    BY <1>1, <1>2 DEF Promise, Preferring
<1>4. CASE After(requests[r]) = "idle"
    <2>1. /\ known' = known \union ({requests[r].secret} \ {0}) /\ Abandon(r)
          /\ shown' = shown \union {u \in Users : requests[r].kind = "signup" /\ u = requests[r].user}
          /\ erased' = erased \union {u \in Users : requests[r].kind = "delete" /\ u = requests[r].user}
        BY <1>4 DEF Commit, Reply
    <2>2. known' \subseteq 1..minted
        <3>1. requests[r].secret <= minted /\ requests[r].secret \in Nat
            BY <1>1, <1>2, AccountsAssumption DEF Promise, Script, Request
        <3>2. requests[r].secret # 0 => requests[r].secret \in 1..minted
            BY <1>1, <3>1
        <3>3. known \subseteq 1..minted
            BY DEF ReplyInv
        <3> QED BY <2>1, <3>2, <3>3
    <2>3. requests[r].kind = "signup" => requests[r].at = "insertPrefs"
        BY <1>1, <1>2 DEF Promise, Script
    <2>4. /\ shown' \subseteq shown \union {requests[r].user}
          /\ shown' = shown \/ requests[r].at = "insertPrefs"
          /\ erased' \subseteq erased \union {requests[r].user}
          /\ erased' = erased \/ requests[r].kind = "delete"
        BY <2>1, <2>3
    <2> QED BY <1>1, <1>2, <1>3, <2>1, <2>2, <2>4, EndReplies
<1>5. CASE After(requests[r]) # "idle"
    <2> DEFINE new == [requests[r] EXCEPT !.at = After(requests[r]), !.open = FALSE, !.secret = 0]
    <2>1. /\ new \in Request
          /\ \/ requests[r].at = "setPassword" /\ new.at = "dropSessions"
             \/ requests[r].at \in {"dropSessions", "markVerified"} /\ new.at = "newSession"
             \/ requests[r].at \in {"rotateKey", "deleteUser"} /\ new.at = "endSession"
        BY <1>1, <1>5, ZeroIsNone DEF After, Request, Stages
    <2>2. requests' = [requests EXCEPT ![r] = new] /\ UNCHANGED <<known, shown, erased>>
        BY <1>1, <1>5 DEF Commit, ReplyInv, TypeOK, Request
    <2>3. /\ new.kind = requests[r].kind /\ new.user = requests[r].user /\ new.since = requests[r].since
          /\ ~new.open /\ new.secret = 0
        BY <1>1 DEF Request
    <2>4. PICK q \in Request : q = new
        BY <2>1
    <2> HIDE DEF new
    <2>5. Script(q, minted)
        BY <1>1, <1>2, <2>1, <2>3, <2>4 DEF Promise, Script
    <2>6. Removed(q, db, db, issued, shown \union erased)
        <3>1. requests[r].at = "deleteUser" => requests[r].user \in issued
            BY DEF IInv, Sound, Active
        <3>2. q.kind # "delete" \/ requests[r].at = "deleteUser"
            BY <1>2, <2>1, <2>3, <2>4 DEF Promise, Script
        <3> QED BY <1>2, <2>1, <2>3, <2>4, <3>1, <3>2 DEF Removed
    <2>7. Dropped(q, db, db)
        BY <1>1, <1>2, <2>1, <2>3, <2>4 DEF Promise, Script, Dropped
    <2>8. Preferring(q, db, db)
        BY <2>1, <2>4 DEF Preferring
    <2>9. Promise(q, db', disk', minted', issued', shown' \union erased')
        BY <1>1, <2>2, <2>5, <2>6, <2>7, <2>8 DEF Promise
    <2>10. Gentle(db', db, minted)
        BY <1>1 DEF Gentle
    <2>11. q.kind # "signup" /\ requests[r].at # "insertPrefs"
        BY <2>1, <2>4, <2>5 DEF Script
    <2> QED BY <1>1, <2>2, <2>3, <2>4, <2>9, <2>10, <2>11, ReplyStep
<1> QED BY <1>4, <1>5

\* Only the end of a session answers after a failure, and it gives nothing away.
LEMMA RequestFailsReplies ==
    ASSUME IInv, TypeOK', ReplyInv, NEW r \in Requests, RequestFails(r)
    PROVE  ReplyInv'
<1>1. /\ UNCHANGED <<db, disk, minted, issued>> /\ Abandon(r)
      /\ faults' > 0 /\ faults <= faults'
    BY AccountsAssumption DEF RequestFails, Reply, ReplyInv, TypeOK
<1>2. /\ Promise(requests[r], db, disk, minted, issued, shown \union erased)
      /\ RepliesAreDurable
    BY DEF ReplyInv
<1>3. CASE requests[r].at = "endSession"
    <2>1. /\ known' = known \union ({requests[r].secret} \ {0})
          /\ shown' = shown \union {u \in Users : requests[r].kind = "signup" /\ u = requests[r].user}
          /\ erased' = erased \union {u \in Users : requests[r].kind = "delete" /\ u = requests[r].user}
        BY <1>3 DEF RequestFails, Reply
    <2>2. requests[r].secret = 0 /\ requests[r].kind # "signup"
        BY <1>2, <1>3 DEF Promise, Script
    <2>3. requests[r].kind = "delete" => ~HasRow(db, requests[r].user) /\ ~HasRow(disk, requests[r].user)
        BY <1>2, <1>3 DEF Promise, Removed
    <2>4. /\ known' = known /\ shown' = shown
          /\ erased' \subseteq erased \union {requests[r].user}
          /\ erased' = erased \/ requests[r].kind = "delete"
        BY <2>1, <2>2
    <2> QED BY <1>1, <2>3, <2>4, EndReplies
<1>4. CASE requests[r].at # "endSession"
    <2>1. UNCHANGED <<known, shown, erased>>
        BY <1>4 DEF RequestFails
    <2> QED BY <1>1, <2>1, EndReplies
<1> QED BY <1>3, <1>4

\* After a crash there is what was committed, and no handler.
LEMMA CrashReplies ==
    ASSUME IInv, TypeOK', ReplyInv, Crash
    PROVE  ReplyInv'
<1>1. /\ db' = Migrated(disk) /\ disk' = db' /\ UNCHANGED <<minted, issued, known, shown, erased>>
      /\ \A r \in Requests : requests'[r] = Idle
      /\ disk \in Tables /\ minted \in Nat /\ faults' > 0
    BY AccountsAssumption DEF Crash, Observed, ReplyInv, TypeOK
<1>2. db'.prefs = disk.prefs /\ db'.sessions = disk.sessions
    BY <1>1 DEF Migrated, Tables
<1>3. \A u \in Users : HasRow(db', u) => HasRow(disk, u)
    BY <1>1 DEF Migrated, Tables, HasRow
<1>4. Promise(Idle, db', disk', minted, issued, shown \union erased)
    BY <1>1 DEF Promise, Script, Removed, Dropped, Preferring, Idle
<1>5. Apart(requests')
    BY <1>1 DEF Apart, Idle
<1>6. RepliesAreDurable'
    BY <1>1, <1>3 DEF ReplyInv, RepliesAreDurable, TypeOK, HasRow
<1>7. \A u \in shown' : \A t \in {db', disk'} : HasRow(t, u) => u \in t.prefs
    BY <1>1, <1>2, <1>3 DEF ReplyInv, TypeOK
<1>8. Lone(db', disk', requests', faults')
    BY <1>1 DEF Lone
<1>9. shown' \subseteq issued' /\ erased' \subseteq issued' /\ known' \subseteq 1..minted'
    BY <1>1 DEF ReplyInv
<1> QED BY <1>1, <1>4, <1>5, <1>6, <1>7, <1>8, <1>9 DEF ReplyInv, HasRow

LEMMA OtherReplies ==
    ASSUME IInv, TypeOK', ReplyInv,
           (\E s \in Secrets : ExpireSession(s)) \/ CommitByOthers \/ UNCHANGED vars
    PROVE  ReplyInv'
<1>1. /\ UNCHANGED <<requests, minted, issued, known, shown, erased, faults>>
      /\ disk' = db' \/ disk' = disk
    BY DEF ExpireSession, CommitByOthers, Observed, vars
<1>2. /\ db'.users = db.users /\ db'.prefs = db.prefs
      /\ \A s \in Secrets : db'.sessions[s] \in {NoUser, db.sessions[s]}
    BY DEF ExpireSession, CommitByOthers, vars, ReplyInv, TypeOK, Tables
<1>3. \A s \in 1..minted : s \in Secrets
    BY AccountsAssumption DEF ReplyInv, TypeOK, Secrets
<1>4. Gentle(db', db, minted) /\ \A u \in Users : HasRow(db', u) => HasRow(db, u)
    BY <1>2, <1>3 DEF Gentle, HasRow
<1> QED BY <1>1, <1>2, <1>4, TableReplies

LEMMA InitReplies == Init /\ TypeOK => ReplyInv
<1> SUFFICES ASSUME Init, TypeOK PROVE ReplyInv
    OBVIOUS
<1>1. disk = db /\ known = {} /\ shown = {} /\ erased = {} /\ minted = 0 /\ faults = 0
    BY Zenon DEF Init
<1>2. requests = [r \in Requests |-> Idle]
    BY Zenon DEF Init
<1>3. Promise(Idle, db, disk, minted, issued, shown \union erased)
    BY <1>1 DEF Promise, Script, Removed, Dropped, Preferring, Idle
<1>4. Apart(requests)
    BY <1>2 DEF Apart, Idle
<1>5. \A u \in Users : HasRow(db, u) => u \in db.prefs
    <2>1. CASE db = Empty
        BY <2>1 DEF Empty, HasRow
    <2>2. ASSUME NEW w \in Users, NEW e \in Emails, NEW password \in BOOLEAN,
                 db = [Empty EXCEPT !.users[w] = Earlier(e, password), !.prefs = {w}]
          PROVE  \A u \in Users : HasRow(db, u) => u \in db.prefs
        <3>1. /\ db.users = [u \in Users |-> IF u = w THEN Earlier(e, password) ELSE NoRow]
              /\ db.prefs = {w}
            BY <2>2 DEF Empty
        <3> QED BY <3>1 DEF HasRow
    <2> QED BY <2>1, <2>2, Zenon DEF Init
<1>6. Lone(db, disk, requests, faults)
    BY <1>1, <1>5 DEF Lone
<1> QED BY <1>1, <1>2, <1>3, <1>4, <1>5, <1>6 DEF ReplyInv, RepliesAreDurable

LEMMA NextReplies ==
    ASSUME IInv, TypeOK', ReplyInv, [Next]_vars
    PROVE  ReplyInv'
<1>1. CASE \E r \in Requests :
        \/ \E u \in Users : ByAddress(r, u) \/ RotateApiKey(r, u) \/ DeleteByApi(r, u)
        \/ \E u \in Users, s \in Secrets : ByLink(r, u, s) \/ ByCookie(r, u, s)
        \/ \E s \in Secrets : Logout(r, s)
    BY <1>1, ArrivalsReplies
<1>2. CASE \E r \in Requests, u \in Users, e \in Emails : SignupSubmit(r, u, e)
    BY <1>2, SignupSubmitReplies
<1>3. CASE \E r \in Requests : Statement(r)
    BY <1>3, InsertUserReplies, DuplicateEmailReplies, InsertPrefsReplies, UpdatesReplies,
       SessionReplies, DeleteUserReplies DEF Statement
<1>4. CASE \E r \in Requests : Commit(r) \/ RequestFails(r)
    BY <1>4, CommitReplies, RequestFailsReplies
<1>5. CASE (\E s \in Secrets : ExpireSession(s)) \/ CommitByOthers \/ Crash \/ UNCHANGED vars
    BY <1>5, OtherReplies, CrashReplies
<1> QED BY <1>1, <1>2, <1>3, <1>4, <1>5 DEF Next

LEMMA ReplyInvariance == Spec => []ReplyInv
<1>1. Init => ReplyInv
    BY InitIInv, InitReplies DEF IInv
<1>2. IInv /\ IInv' /\ ReplyInv /\ [Next]_vars => ReplyInv'
    BY NextReplies DEF IInv
<1> QED BY <1>1, <1>2, AccountsInvariance, PTL DEF Spec

\* An account a client was told of, the session in its cookie and the deletion it was told of
\* are on disk, so that no crash takes them back.
THEOREM AnswersSurviveCrashes == Spec => []RepliesAreDurable
<1>1. ReplyInv => RepliesAreDurable
    BY DEF ReplyInv
<1> QED BY <1>1, ReplyInvariance, PTL

\* The sessions a login, a reset or a password change found are gone, and stay gone, when
\* it hands out its own.
THEOREM SessionsEndWithTheirPassword == Spec => []OldSessionsEnd
<1>1. ReplyInv => OldSessionsEnd
    BY DEF ReplyInv, Promise, Dropped, OldSessionsEnd
<1> QED BY <1>1, ReplyInvariance, PTL

\* An account without preferences is nobody's who was told of it, and takes a fault.
THEOREM OnlyFaultsHalveSignups == Spec => []HalfSignups
<1>1. ReplyInv => HalfSignups
    BY DEF ReplyInv, Lone, HalfSignups
<1> QED BY <1>1, ReplyInvariance, PTL

-----------------------------------------------------------------------------
(* Registries: what a step does to the ids of accounts and of sessions. *)

\* A session's number was drawn, and what is on disk is in memory too unless it was ended.
SessionInv ==
    /\ \A s \in Secrets : s > minted => db.sessions[s] = NoUser /\ disk.sessions[s] = NoUser
    /\ \A s \in Secrets : disk.sessions[s] # NoUser => db.sessions[s] \in {NoUser, disk.sessions[s]}

\* Sessions end, or come under the next number, or fall back to those on disk.
SessionStep ==
    /\ minted <= minted'
    /\ disk' = disk \/ disk' = db'
    /\ \A s \in Secrets : s > minted' => db'.sessions[s] = NoUser
    /\ \/ \A s \in 1..minted : db'.sessions[s] \in {NoUser, db.sessions[s]}
       \/ db'.sessions = disk.sessions

\* An account's address is the same in memory and on disk.
AddressInv == \A u \in Users :
    HasRow(db, u) /\ HasRow(disk, u) => db.users[u].email = disk.users[u].email

AwaitsInsert(f, u) == \E r \in Requests : f[r].at = "insertUser" /\ f[r].user = u

KeepsAddress(new, old, u) == HasRow(new, u) => HasRow(old, u) /\ new.users[u].email = old.users[u].email

\* Accounts go or keep their address, or are inserted, or fall back to those on disk; only
\* an id not drawn before comes to be inserted.
AddressStep ==
    /\ issued \subseteq issued'
    /\ disk' = disk \/ disk' = db'
    /\ \A u \in issued : AwaitsInsert(requests', u) => AwaitsInsert(requests, u)
    /\ \/ \A u \in Users : KeepsAddress(db', db, u) \/ AwaitsInsert(requests, u)
       \/ \A u \in Users : KeepsAddress(db', disk, u) /\ (HasRow(disk, u) => HasRow(db', u))

\* A step on one request that is not a signup's arrival.
NoSignup(r) ==
    /\ \A o \in Requests : o # r => requests'[o] = requests[o]
    /\ requests'[r].at # "insertUser"

LEMMA NoSignupAwaits ==
    ASSUME NEW r \in Requests, NoSignup(r)
    PROVE  \A u : AwaitsInsert(requests', u) => AwaitsInsert(requests, u)
<1> SUFFICES ASSUME NEW u, NEW o \in Requests, requests'[o].at = "insertUser", requests'[o].user = u
             PROVE  AwaitsInsert(requests, u)
    BY DEF AwaitsInsert
<1> QED BY DEF NoSignup, AwaitsInsert

LEMMA AbandonIsNoSignup ==
    ASSUME TypeOK, NEW r \in Requests, Abandon(r)
    PROVE  NoSignup(r)
BY DEF Abandon, TypeOK, NoSignup, Idle

LEMMA RunIsNoSignup ==
    ASSUME TypeOK, NEW r \in Requests, NEW secret, Run(r, secret), requests[r].at # "insertUser"
    PROVE  NoSignup(r)
<1>1. requests[r] \in Request
    BY DEF TypeOK
<1>2. requests' = [requests EXCEPT ![r] = [requests[r] EXCEPT !.open = TRUE, !.secret = secret]]
    BY DEF Run
<1>3. [requests[r] EXCEPT !.open = TRUE, !.secret = secret].at = requests[r].at
    BY <1>1 DEF Request
<1> QED BY <1>2, <1>3 DEF TypeOK, NoSignup

LEMMA SameTables ==
    ASSUME TypeOK, SessionInv, db' = db, disk' = disk \/ disk' = db, minted' = minted
    PROVE  /\ SessionStep
           /\ \A u \in Users : KeepsAddress(db', db, u)
<1>1. minted <= minted'
    BY AccountsAssumption DEF TypeOK
<1> QED BY <1>1 DEF SessionInv, SessionStep, KeepsAddress

LEMMA ArrivalIds ==
    ASSUME IInv, SessionInv, NEW r \in Requests, NEW kind, NEW at, NEW u, NEW given,
           Begin(r, kind, at, u, given), at # "insertUser",
           UNCHANGED <<db, minted, issued>>, disk' \in {disk, db}
    PROVE  SessionStep /\ AddressStep
<1> DEFINE q == [Idle EXCEPT !.kind = kind, !.at = at, !.user = u, !.given = given,
                             !.since = IF kind = "login" THEN minted ELSE 0]
<1>1. requests' = [requests EXCEPT ![r] = q] /\ q.at = at
    BY DEF Begin, Idle
<1> HIDE DEF q
<1>2. \A v : AwaitsInsert(requests', v) => AwaitsInsert(requests, v)
    BY <1>1, NoSignupAwaits DEF IInv, TypeOK, NoSignup
<1> QED BY <1>2, SameTables DEF AddressStep, IInv

\* The arrivals of all handlers but the signup's.
LEMMA ArrivalsIds ==
    ASSUME IInv, SessionInv, NEW r \in Requests
    PROVE  /\ \A u \in Users : ByAddress(r, u) \/ RotateApiKey(r, u) \/ DeleteByApi(r, u)
                => SessionStep /\ AddressStep
           /\ \A u \in Users, s \in Secrets : ByLink(r, u, s) \/ ByCookie(r, u, s)
                => SessionStep /\ AddressStep
           /\ \A s \in Secrets : Logout(r, s) => SessionStep /\ AddressStep
<1>1. ASSUME NEW u \in Users, ByAddress(r, u) \/ RotateApiKey(r, u) \/ DeleteByApi(r, u)
      PROVE  SessionStep /\ AddressStep
    <2>1. /\ UNCHANGED <<db, minted, issued>> /\ disk' \in {disk, db}
          /\ \/ Begin(r, "login", "dropSessions", u, 0)
             \/ Begin(r, "mail", "issueReset", u, 0)
             \/ Begin(r, "mail", "issueVerification", u, 0)
             \/ Begin(r, "rotate", "rotateKey", u, 0)
             \/ Begin(r, "delete", "deleteUser", u, 0)
        BY <1>1 DEF ByAddress, LoginSubmit, ForgotPasswordSubmit, ResendVerification, RotateApiKey,
            DeleteByApi, KeyHolder, Reads
    <2> QED BY <2>1, ArrivalIds
<1>2. ASSUME NEW u \in Users, NEW s \in Secrets, ByLink(r, u, s) \/ ByCookie(r, u, s)
      PROVE  SessionStep /\ AddressStep
    <2>1. /\ UNCHANGED <<db, minted, issued>> /\ disk' \in {disk, db}
          /\ \/ Begin(r, "verify", "markVerified", u, s)
             \/ Begin(r, "reset", "setPassword", u, s)
             \/ Begin(r, "change", "setPassword", u, 0)
             \/ Begin(r, "rotate", "rotateKey", u, s)
             \/ Begin(r, "delete", "deleteUser", u, s)
        BY <1>2 DEF ByLink, VerifyEmail, ResetPasswordSubmit, Reads, ByCookie, ChangePassword,
            RotateKeyOnPage, DeleteAccount, SignedIn
    <2> QED BY <2>1, ArrivalIds
<1>3. ASSUME NEW s \in Secrets, Logout(r, s) PROVE SessionStep /\ AddressStep
    BY <1>3, ArrivalIds DEF Logout, Reads
<1> QED BY <1>1, <1>2, <1>3

\* An id that was never drawn comes to be inserted.
LEMMA SignupSubmitIds ==
    ASSUME IInv, SessionInv, NEW r \in Requests, NEW u \in Users, NEW e \in Emails,
           SignupSubmit(r, u, e)
    PROVE  SessionStep /\ AddressStep
<1> DEFINE q == [Idle EXCEPT !.kind = "signup", !.at = "insertUser", !.user = u, !.email = e]
<1>1. /\ requests' = [requests EXCEPT ![r] = q] /\ q.user = u
      /\ u \notin issued /\ issued' = issued \union {u}
      /\ UNCHANGED <<db, disk, minted>>
    BY DEF SignupSubmit, Idle
<1> HIDE DEF q
<1>2. ASSUME NEW v \in issued, AwaitsInsert(requests', v) PROVE AwaitsInsert(requests, v)
    BY <1>1, <1>2 DEF AwaitsInsert, IInv, TypeOK
<1> QED BY <1>1, <1>2, SameTables DEF AddressStep, IInv

\* A statement on the users table or the preferences only.
LEMMA StatementIds ==
    ASSUME IInv, SessionInv, NEW r \in Requests, NoSignup(r),
           UNCHANGED <<disk, issued>>, minted' = minted \/ Draw,
           \A s \in Secrets : db'.sessions[s] \in {NoUser, db.sessions[s]},
           \A u \in Users : KeepsAddress(db', db, u) \/ AwaitsInsert(requests, u)
    PROVE  SessionStep /\ AddressStep
<1>1. \A v : AwaitsInsert(requests', v) => AwaitsInsert(requests, v)
    BY NoSignupAwaits
<1>2. minted \in Nat /\ minted' \in Nat /\ minted <= minted'
    BY AccountsAssumption DEF IInv, TypeOK, Draw
<1>3. \A s \in Secrets : s > minted' => db'.sessions[s] = NoUser
    <2>1. \A s \in Secrets : s > minted' => s > minted
        BY <1>2 DEF Secrets
    <2> QED BY <2>1 DEF SessionInv
<1>4. \A s \in 1..minted : db'.sessions[s] \in {NoUser, db.sessions[s]}
    BY AccountsAssumption DEF Secrets, IInv, TypeOK
<1> QED BY <1>1, <1>2, <1>3, <1>4 DEF SessionStep, AddressStep

\* The UPDATEs keep the address of the row they find.
LEMMA WithRowIds ==
    ASSUME db \in Tables, NEW u, NEW row, HasRow(db, u) => row.email = db.users[u].email,
           db' = WithRow(u, row), HasRow(db, u) => row # NoRow
    PROVE  /\ db'.sessions = db.sessions
           /\ \A v \in Users : KeepsAddress(db', db, v)
<1>1. CASE ~HasRow(db, u)
    BY <1>1 DEF WithRow, KeepsAddress
<1>2. CASE HasRow(db, u)
    <2>1. db'.sessions = db.sessions /\ db'.users = [db.users EXCEPT ![u] = row]
        BY <1>2 DEF WithRow, SetRow, Tables
    <2> QED BY <1>2, <2>1 DEF KeepsAddress, HasRow, Tables
<1> QED BY <1>1, <1>2

LEMMA UpdatesIds ==
    ASSUME IInv, SessionInv, NEW r \in Requests,
           MarkVerified(r) \/ SetPassword(r) \/ IssueToken(r) \/ RotateKey(r)
    PROVE  SessionStep /\ AddressStep
<1> DEFINE u == requests[r].user
           old == db.users[u]
<1>1. PICK row : /\ db' = WithRow(u, row)
                 /\ \/ row = [old EXCEPT !.verified = TRUE, !.verification = 0]
                    \/ row = [old EXCEPT !.hasPassword = TRUE, !.verified = TRUE,
                                         !.reset = 0, !.verification = 0]
                    \/ row = [old EXCEPT !.hasPassword = TRUE]
                    \/ row = [old EXCEPT !.reset = minted']
                    \/ row = [old EXCEPT !.verification = minted']
                    \/ row = [old EXCEPT !.key = minted']
    BY DEF MarkVerified, SetPassword, IssueToken, RotateKey
<1>2. HasRow(db, u) => old \in Row
    BY DEF IInv, TypeOK, Tables, HasRow
<1>3. UNCHANGED <<disk, issued>> /\ (minted' = minted \/ Draw)
    BY DEF MarkVerified, SetPassword, IssueToken, RotateKey
<1>4. HasRow(db, u) => row.email = old.email /\ row \in Row
    <2>1. minted' \in 0..MaxSecrets
        BY <1>3, DrawFacts DEF IInv, TypeOK
    <2> QED BY <1>1, <1>2, <2>1, ZeroIsNone DEF Row
<1>5. /\ db'.sessions = db.sessions
      /\ \A v \in Users : KeepsAddress(db', db, v)
    BY <1>1, <1>4, RowAssumption, WithRowIds DEF IInv, TypeOK
<1>6. NoSignup(r)
    <2>1. CASE SetPassword(r)
        BY <2>1 DEF SetPassword, At, NoSignup, IInv, TypeOK, Request
    <2>2. requests[r].at # "insertUser"
        BY DEF MarkVerified, SetPassword, IssueToken, RotateKey, At
    <2>3. CASE Run(r, 0)
        BY <2>2, <2>3, RunIsNoSignup DEF IInv
    <2>4. CASE Run(r, minted')
        <3>1. PICK n : n = minted'
            OBVIOUS
        <3> QED BY <2>2, <2>4, <3>1, RunIsNoSignup DEF IInv
    <2> QED BY <2>1, <2>3, <2>4 DEF MarkVerified, IssueToken, RotateKey
<1> QED BY <1>3, <1>5, <1>6, StatementIds

LEMMA InsertUserIds ==
    ASSUME IInv, SessionInv, NEW r \in Requests, InsertUser(r)
    PROVE  SessionStep /\ AddressStep
<1> DEFINE u == requests[r].user
<1>1. NoSignup(r)
    BY DEF InsertUser, IInv, TypeOK, Request, NoSignup
<1>2. \E row : db' = SetRow(u, row)
    BY DEF InsertUser
<1>3. /\ db'.sessions = db.sessions
      /\ \A v \in Users : v # u => KeepsAddress(db', db, v)
    BY <1>2 DEF SetRow, KeepsAddress, HasRow, IInv, TypeOK, Tables
<1>4. AwaitsInsert(requests, u)
    BY DEF InsertUser, At, AwaitsInsert
<1>5. UNCHANGED <<disk, issued>> /\ Draw
    BY DEF InsertUser
<1> QED BY <1>1, <1>3, <1>4, <1>5, StatementIds

LEMMA QuietStatementIds ==
    ASSUME IInv, SessionInv, NEW r \in Requests,
           DuplicateEmail(r) \/ InsertPrefs(r) \/ DropSessions(r) \/ EndSession(r)
              \/ DeleteUser(r) \/ RequestFails(r)
    PROVE  SessionStep /\ AddressStep
<1>1. NoSignup(r)
    <2>1. CASE Abandon(r)
        BY <2>1, AbandonIsNoSignup DEF IInv
    <2>2. CASE (Run(r, 0) \/ Run(r, requests[r].secret)) /\ requests[r].at # "insertUser"
        BY <2>2, RunIsNoSignup DEF IInv
    <2> QED BY <2>1, <2>2 DEF At, DuplicateEmail, InsertPrefs, DropSessions, EndSession,
            DeleteUser, RequestFails, Reply
<1>2. UNCHANGED <<disk, issued, minted>>
    BY DEF DuplicateEmail, InsertPrefs, DropSessions, EndSession, DeleteUser, RequestFails
<1>3. \A s \in Secrets : db'.sessions[s] \in {NoUser, db.sessions[s]}
    BY DEF DuplicateEmail, InsertPrefs, DropSessions, EndSession, DeleteUser, RequestFails,
        IInv, TypeOK, Tables
<1>4. \A v \in Users : KeepsAddress(db', db, v)
    BY DEF DuplicateEmail, InsertPrefs, DropSessions, EndSession, DeleteUser, RequestFails,
        IInv, TypeOK, Tables, KeepsAddress, HasRow
<1> QED BY <1>1, <1>2, <1>3, <1>4, StatementIds

LEMMA NewSessionIds ==
    ASSUME IInv, SessionInv, NEW r \in Requests, NewSession(r)
    PROVE  SessionStep /\ AddressStep
<1>1. NoSignup(r)
    <2>1. CASE Abandon(r)
        BY <2>1, AbandonIsNoSignup DEF IInv
    <2>2. CASE Run(r, minted')
        <3>1. PICK n : n = minted'
            OBVIOUS
        <3>2. requests[r].at # "insertUser"
            BY DEF NewSession, At
        <3> QED BY <2>2, <3>1, <3>2, RunIsNoSignup DEF IInv
    <2> QED BY <2>1, <2>2 DEF NewSession
<1>2. \A v : AwaitsInsert(requests', v) => AwaitsInsert(requests, v)
    BY <1>1, NoSignupAwaits
<1>3. /\ UNCHANGED <<disk, issued>> /\ minted' \in {minted, minted + 1}
      /\ minted \in Nat
      /\ db'.users = db.users
      /\ \A s \in Secrets : s # minted + 1 => db'.sessions[s] = db.sessions[s]
      /\ minted' = minted => db' = db
    BY AccountsAssumption DEF NewSession, Draw, IInv, TypeOK, Tables
<1>4. AddressStep
    BY <1>2, <1>3 DEF AddressStep, KeepsAddress, HasRow
<1>5. \A s \in Secrets : s > minted' => db'.sessions[s] = NoUser
    BY <1>3 DEF SessionInv, Secrets
<1>6. \A s \in 1..minted : db'.sessions[s] = db.sessions[s]
    BY <1>3, AccountsAssumption DEF Secrets, IInv, TypeOK
<1> QED BY <1>3, <1>4, <1>5, <1>6 DEF SessionStep

LEMMA CommitIds ==
    ASSUME IInv, SessionInv, NEW r \in Requests, Commit(r)
    PROVE  SessionStep /\ AddressStep
<1>1. NoSignup(r)
    <2>1. CASE Abandon(r)
        BY <2>1, AbandonIsNoSignup DEF IInv
    <2>2. CASE requests' = [requests EXCEPT ![r].at = After(requests[r]), ![r].open = FALSE,
                                            ![r].secret = 0]
        BY <2>2 DEF IInv, TypeOK, Request, After, NoSignup
    <2> QED BY <2>1, <2>2 DEF Commit, Reply
<1>2. \A v : AwaitsInsert(requests', v) => AwaitsInsert(requests, v)
    BY <1>1, NoSignupAwaits
<1>3. UNCHANGED <<db, issued, minted>> /\ disk' = db
    BY DEF Commit
<1> QED BY <1>2, <1>3, SameTables DEF AddressStep, IInv

LEMMA OtherIds ==
    ASSUME IInv, SessionInv,
           (\E s \in Secrets : ExpireSession(s)) \/ CommitByOthers \/ UNCHANGED vars
    PROVE  SessionStep /\ AddressStep
<1>1. /\ UNCHANGED <<requests, minted, issued>> /\ minted \in Nat /\ disk' \in {disk, db'}
      /\ db'.users = db.users
      /\ \A s \in Secrets : db'.sessions[s] \in {NoUser, db.sessions[s]}
    BY AccountsAssumption DEF ExpireSession, CommitByOthers, vars, IInv, TypeOK, Tables
<1>2. AddressStep
    BY <1>1 DEF AddressStep, KeepsAddress, HasRow
<1>3. \A s \in 1..minted : s \in Secrets
    BY AccountsAssumption DEF Secrets, IInv, TypeOK
<1> QED BY <1>1, <1>2, <1>3 DEF SessionStep, SessionInv

LEMMA CrashIds ==
    ASSUME IInv, SessionInv, Crash
    PROVE  SessionStep /\ AddressStep
<1>1. /\ db' = Migrated(disk) /\ disk' = db' /\ UNCHANGED <<minted, issued>> /\ minted \in Nat
      /\ \A r \in Requests : requests'[r] = Idle
      /\ disk \in Tables
    BY AccountsAssumption DEF Crash, IInv, TypeOK
<1>2. db'.sessions = disk.sessions
    BY <1>1 DEF Migrated, Tables
<1>3. \A u \in Users :
        /\ HasRow(db', u) <=> HasRow(disk, u)
        /\ HasRow(db', u) => db'.users[u].email = disk.users[u].email
    <2> SUFFICES ASSUME NEW u \in Users
                 PROVE  /\ HasRow(db', u) <=> HasRow(disk, u)
                        /\ HasRow(db', u) => db'.users[u].email = disk.users[u].email
        OBVIOUS
    <2>1. db'.users[u] = IF disk.users[u] # NoRow /\ ~disk.users[u].hasPassword
                         THEN [disk.users[u] EXCEPT !.verified = TRUE]
                         ELSE disk.users[u]
        BY <1>1 DEF Migrated, Tables
    <2>2. disk.users[u] # NoRow => disk.users[u] \in Row
        BY <1>1 DEF Tables
    <2> QED BY <2>1, <2>2, RowAssumption DEF HasRow, Row
<1>4. AddressStep
    BY <1>1, <1>3 DEF AddressStep, AwaitsInsert, KeepsAddress, Idle
<1> QED BY <1>1, <1>2, <1>4 DEF SessionStep, SessionInv

LEMMA NextIds ==
    ASSUME IInv, SessionInv, [Next]_vars
    PROVE  SessionStep /\ AddressStep
<1>1. CASE \E r \in Requests :
        \/ \E u \in Users : ByAddress(r, u) \/ RotateApiKey(r, u) \/ DeleteByApi(r, u)
        \/ \E u \in Users, s \in Secrets : ByLink(r, u, s) \/ ByCookie(r, u, s)
        \/ \E s \in Secrets : Logout(r, s)
    BY <1>1, ArrivalsIds
<1>2. CASE \E r \in Requests, u \in Users, e \in Emails : SignupSubmit(r, u, e)
    BY <1>2, SignupSubmitIds
<1>3. CASE \E r \in Requests : Statement(r) \/ RequestFails(r)
    BY <1>3, InsertUserIds, QuietStatementIds, UpdatesIds, NewSessionIds DEF Statement
<1>4. CASE \E r \in Requests : Commit(r)
    BY <1>4, CommitIds
<1>5. CASE (\E s \in Secrets : ExpireSession(s)) \/ CommitByOthers \/ Crash \/ UNCHANGED vars
    BY <1>5, OtherIds, CrashIds
<1> QED BY <1>1, <1>2, <1>3, <1>4, <1>5 DEF Next

-----------------------------------------------------------------------------
(* Registries: the refinements. *)

LEMMA SessionInvKept ==
    ASSUME IInv, TypeOK', SessionInv, SessionStep
    PROVE  SessionInv'
<1>1. minted \in Nat /\ minted' \in Nat /\ minted <= minted'
    BY AccountsAssumption DEF IInv, TypeOK, SessionStep
<1>2. ASSUME NEW s \in Secrets, s > minted'
      PROVE  db'.sessions[s] = NoUser /\ disk'.sessions[s] = NoUser
    BY <1>1, <1>2 DEF SessionInv, SessionStep, Secrets
<1>3. ASSUME NEW s \in Secrets, disk'.sessions[s] # NoUser
      PROVE  db'.sessions[s] \in {NoUser, disk'.sessions[s]}
    <2>1. CASE disk' = db'
        BY <2>1
    <2>2. CASE disk' = disk
        <3>1. s \in 1..minted
            BY <1>1, <1>3, <2>2 DEF SessionInv, Secrets
        <3>2. db.sessions[s] \in {NoUser, disk.sessions[s]}
            BY <1>3, <2>2 DEF SessionInv
        <3> QED BY <2>2, <3>1, <3>2 DEF SessionStep
    <2> QED BY <2>1, <2>2 DEF SessionStep
<1> QED BY <1>2, <1>3 DEF SessionInv, SessionStep

\* The ids that are used or void stay so, and a session comes on disk under one that is not.
LEMMA SessionRefines ==
    ASSUME IInv, IInv', SessionInv, SessionInv', SessionStep
    PROVE  SessionIds!Next
<1>1. /\ minted \in Nat /\ minted' \in Nat /\ minted <= minted' /\ minted' <= MaxSecrets
      /\ MaxSecrets \in Nat
    BY AccountsAssumption DEF IInv, TypeOK, SessionStep
<1> DEFINE used == (1..minted) \ SessionToCome
<1>2. ASSUME NEW s \in used PROVE s \in used'
    <2>1. s \in 1..minted /\ s \in 1..minted'
        BY <1>1
    <2>2. db.sessions[s] = NoUser \/ disk.sessions[s] # NoUser
        BY DEF SessionToCome
    <2>3. db'.sessions[s] = NoUser \/ disk'.sessions[s] # NoUser
        BY <2>1, <2>2 DEF SessionStep
    <2> QED BY <2>1, <2>3 DEF SessionToCome
<1>3. used' \subseteq Secrets
    BY <1>1 DEF Secrets
<1>4. disk'.sessions \in [Secrets -> Users \union {NoUser}]
    BY DEF IInv, TypeOK, Tables
<1>5. ASSUME NEW s \in Secrets, disk'.sessions[s] # disk.sessions[s]
      PROVE  SessionIds!Entered(s) \/ SessionIds!Removed(s)
    <2>1. disk' = db'
        BY <1>5 DEF SessionStep
    <2>2. CASE disk'.sessions[s] = NoUser
        <3>1. s \in 1..minted'
            BY <1>1, <1>5, <2>2 DEF SessionInv, Secrets
        <3>2. s \in used'
            BY <2>1, <3>1 DEF SessionToCome
        <3> QED BY <2>2, <3>2 DEF SessionIds!Removed
    <2>3. CASE disk'.sessions[s] # NoUser
        <3>1. s \in 1..minted'
            BY <1>1, <2>3 DEF SessionInv, Secrets
        <3>2. s \in used'
            BY <2>1, <3>1 DEF SessionToCome
        <3>3. s \notin used
            <4> SUFFICES ASSUME s \in 1..minted PROVE s \in SessionToCome
                OBVIOUS
            <4>1. db.sessions[s] = disk'.sessions[s]
                BY <1>5, <2>1, <2>3 DEF SessionStep
            <4>2. disk.sessions[s] = NoUser
                BY <1>5, <2>3, <4>1 DEF SessionInv
            <4> QED BY <2>3, <4>1, <4>2 DEF SessionToCome
        <3>4. disk'.sessions[s] \in Users
            BY <1>4, <2>3
        <3> QED BY <3>2, <3>3, <3>4 DEF SessionIds!Entered
    <2> QED BY <2>2, <2>3
<1> QED BY <1>2, <1>3, <1>4, <1>5 DEF SessionIds!Next

LEMMA AddressInvKept ==
    ASSUME IInv, AddressInv, AddressStep
    PROVE  AddressInv'
<1> SUFFICES ASSUME NEW u \in Users, HasRow(db', u), HasRow(disk', u)
             PROVE  db'.users[u].email = disk'.users[u].email
    BY DEF AddressInv, HasRow
<1>1. CASE disk' = db'
    BY <1>1
<1>2. CASE disk' = disk
    <2>1. HasRow(disk, u)
        BY <1>2
    <2>2. ~AwaitsInsert(requests, u)
        BY <2>1 DEF IInv, AwaitsInsert
    <2> QED BY <1>2, <2>1, <2>2 DEF AddressStep, KeepsAddress, AddressInv
<1> QED BY <1>1, <1>2 DEF AddressStep

\* An id gets its first row on disk from the transaction that inserted it, and only then:
\* once it had one, or can have none, no step brings one back.
LEMMA AddressRefines ==
    ASSUME IInv, IInv', AddressInv, AddressStep
    PROVE  AccountIds!Next
<1> DEFINE entry == [u \in Users |-> IF HasRow(disk, u) THEN disk.users[u].email ELSE NoEmail]
           used == issued \ RowToCome
<1>1. \A u : u \in used <=> /\ u \in issued
                            /\ ~AwaitsInsert(requests, u)
                            /\ HasRow(db, u) => HasRow(disk, u)
    BY DEF RowToCome, AwaitsInsert
<1>2. \A u : u \in used' <=> /\ u \in issued'
                             /\ ~AwaitsInsert(requests', u)
                             /\ HasRow(db', u) => HasRow(disk', u)
    BY DEF RowToCome, AwaitsInsert, HasRow
<1>3. /\ \A u \in Users : AwaitsInsert(requests, u) => ~HasRow(disk, u)
      /\ \A u \in Users : AwaitsInsert(requests', u) => ~HasRow(disk', u)
      /\ \A u \in Users : HasRow(db, u) \/ HasRow(disk, u) => u \in issued
      /\ \A u \in Users : HasRow(db', u) \/ HasRow(disk', u) => u \in issued'
      /\ issued \subseteq Users /\ issued' \subseteq Users
    BY DEF IInv, TypeOK, AwaitsInsert, HasRow
<1>4. \A u \in Users : HasRow(disk', u) => disk'.users[u].email \in Emails
    BY DEF IInv, TypeOK, Tables, Row, HasRow
<1>5. \A u \in Users :
        /\ entry[u] = IF HasRow(disk, u) THEN disk.users[u].email ELSE NoEmail
        /\ entry'[u] = IF HasRow(disk', u) THEN disk'.users[u].email ELSE NoEmail
    BY DEF HasRow
<1>6. entry' \in [Users -> Emails \union {NoEmail}]
    BY <1>4 DEF HasRow
<1>7. used \subseteq used' /\ used' \subseteq Users
    <2> SUFFICES ASSUME NEW u \in used PROVE u \in used'
        BY <1>2, <1>3
    <2>1. u \in Users /\ u \in issued' /\ ~AwaitsInsert(requests', u)
        BY <1>1, <1>3 DEF AddressStep
    <2>2. HasRow(db', u) => HasRow(disk', u)
        BY <1>1, <2>1 DEF AddressStep, KeepsAddress
    <2> QED BY <1>2, <2>1, <2>2
<1> HIDE DEF used, entry
<1>8. ASSUME NEW u \in Users, entry'[u] # entry[u]
      PROVE  \/ u \notin used /\ u \in used' /\ entry'[u] \in Emails
             \/ u \in used' /\ entry'[u] = NoEmail
    <2>1. disk' = db'
        <3>1. CASE disk' = disk
            BY <1>5, <1>8, <3>1
        <3> QED BY <3>1 DEF AddressStep
    <2>2. CASE ~HasRow(disk', u)
        <3>1. HasRow(disk, u)
            BY <1>5, <1>8, <2>2
        <3>2. u \in issued' /\ ~AwaitsInsert(requests', u)
            BY <1>3, <3>1 DEF AddressStep
        <3> QED BY <1>2, <1>5, <2>1, <2>2, <3>2
    <2>3. CASE HasRow(disk', u)
        <3>1. u \in used'
            BY <1>2, <1>3, <2>3
        <3>2. entry'[u] = disk'.users[u].email /\ entry'[u] \in Emails
            BY <1>4, <1>5, <2>3
        <3>3. ~KeepsAddress(db', disk, u)
            BY <1>5, <1>8, <2>1, <2>3, <3>2 DEF KeepsAddress
        <3>4. KeepsAddress(db', db, u) \/ AwaitsInsert(requests, u)
            BY <3>3 DEF AddressStep
        <3>5. ~HasRow(disk, u)
            BY <1>3, <2>1, <2>3, <3>3, <3>4 DEF KeepsAddress, AddressInv
        <3>6. u \notin used
            BY <1>1, <2>1, <2>3, <3>4, <3>5 DEF KeepsAddress
        <3> QED BY <3>1, <3>2, <3>6
    <2> QED BY <2>2, <2>3
<1> QED BY <1>6, <1>7, <1>8 DEF AccountIds!Next, AccountIds!Entered, AccountIds!Removed, entry, used

LEMMA InitRegistries ==
    ASSUME Init, IInv
    PROVE  SessionInv /\ AddressInv /\ AccountIds!Init /\ SessionIds!Init
<1>1. disk = db /\ minted = 0 /\ requests = [r \in Requests |-> Idle]
    BY Zenon DEF Init
<1>2. db.sessions = [s \in Secrets |-> NoUser]
    <2>1. ASSUME NEW u \in Users, NEW e \in Emails, NEW password \in BOOLEAN,
                 db = [Empty EXCEPT !.users[u] = Earlier(e, password), !.prefs = {u}]
          PROVE  db.sessions = [s \in Secrets |-> NoUser]
        BY <2>1 DEF Empty
    <2>2. CASE db = Empty
        BY <2>2 DEF Empty
    <2> QED BY <2>1, <2>2, Zenon DEF Init
<1>3. SessionInv /\ AddressInv
    BY <1>1, <1>2 DEF SessionInv, AddressInv
<1>4. (1..minted) \ SessionToCome = {}
    BY <1>1
<1>5. SessionIds!Init
    BY <1>1, <1>2, <1>4 DEF SessionIds!Init
<1>6. RowToCome = {}
    BY <1>1 DEF RowToCome, Idle
<1>7. /\ issued \subseteq Users
      /\ \A u \in Users : HasRow(disk, u) => u \in issued /\ disk.users[u].email \in Emails
    BY DEF IInv, TypeOK, Tables, Row, HasRow
<1>8. AccountIds!Init
    BY <1>6, <1>7 DEF AccountIds!Init
<1> QED BY <1>3, <1>5, <1>8

LEMMA RegistryInvariance == Spec => [](SessionInv /\ AddressInv)
<1>1. Init => SessionInv /\ AddressInv
    BY InitIInv, InitRegistries
<1>2. IInv /\ TypeOK' /\ SessionInv /\ AddressInv /\ [Next]_vars => (SessionInv /\ AddressInv)'
    BY NextIds, SessionInvKept, AddressInvKept
<1> QED BY <1>1, <1>2, AccountsInvariance, AccountsTypeCorrect, PTL DEF Spec

\* An account keeps its address, and once it is gone from disk nothing brings it back.
THEOREM AccountsNeverComeBack == Spec => AccountsWrittenOnce
<1>1. Init => AccountIds!Init
    BY InitIInv, InitRegistries
<1>2. IInv /\ IInv' /\ SessionInv /\ AddressInv /\ [Next]_vars
        => [AccountIds!Next]_(AccountIds!vars)
    BY NextIds, AddressRefines
<1> QED BY <1>1, <1>2, AccountsInvariance, RegistryInvariance, PTL
    DEF Spec, AccountsWrittenOnce, AccountIds!Spec

\* A session keeps its account, and once it has ended on disk nothing brings it back.
THEOREM SessionsNeverComeBack == Spec => SessionsWrittenOnce
<1>1. Init => SessionIds!Init
    BY InitIInv, InitRegistries
<1>2. IInv /\ IInv' /\ SessionInv /\ SessionInv' /\ [Next]_vars
        => [SessionIds!Next]_(SessionIds!vars)
    BY NextIds, SessionRefines
<1> QED BY <1>1, <1>2, AccountsInvariance, RegistryInvariance, PTL
    DEF Spec, SessionsWrittenOnce, SessionIds!Spec

=============================================================================
