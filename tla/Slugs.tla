------------------------------- MODULE Slugs -------------------------------
(***************************************************************************)
(* Slugs of public status pages: services/status_slug.py, the signup and   *)
(* the settings handlers of routes/dashboard.py that use it, and the       *)
(* backfill at startup.                                                    *)
(*                                                                         *)
(* Whether a slug is free is one read per candidate, and what was free is  *)
(* written later, in a statement of its own that the unique index may      *)
(* refuse.  pages is the users table as the one connection sees it,        *)
(* pagesSaved as committed; a commit commits everybody's statements.       *)
(* Slugs are names, seeds and suffixes a sequence of them for each user.   *)
(***************************************************************************)
EXTENDS Naturals, Sequences

CONSTANTS
    Holders,       \* user ids, each drawn once (uuid4)
    SlugNames,     \* valid slugs
    Candidates,    \* what generate_unique_slug tries for a user, in order
    LastResort,    \* the user's fallback, which it does not probe
    SlugRequests,  \* requests that can be under way at once
    NoHolder,      \* no row
    NoSlug,        \* NULL
    MaxSlugFaults  \* bound: crashes and failed statements in one behaviour

ASSUME SlugsAssumption ==
    /\ Candidates \in [Holders -> Seq(SlugNames) \ {<<>>}]
    /\ LastResort \in [Holders -> SlugNames]
    /\ NoSlug \notin SlugNames
    /\ NoHolder \notin Holders
    /\ MaxSlugFaults \in Nat

VARIABLES
    pages,         \* status_page_slug of every user, as the connection sees it
    pagesSaved,    \* the same as committed
    visits,        \* local state of each request
    enrolled,      \* user ids drawn so far
    serving,       \* initialize_database is over
    confirmed,     \* observer: users told that the slug they chose is theirs
    slugFaults

slugVars == <<pages, pagesSaved, visits, enrolled, serving, confirmed, slugFaults>>

\* chosen is an observer: the user set the slug, generate_unique_slug did not.
Page == [slug : SlugNames \union {NoSlug}, chosen : BOOLEAN]

ASSUME PageAssumption == NoHolder \notin Page

Unset == [slug |-> NoSlug, chosen |-> FALSE]

SlugStages == {"idle", "read", "probe", "insert", "fill", "check", "set", "commit"}

\* tried: candidates probed so far; joins: a signup; chooses: the user picks the slug.
Visit == [at : SlugStages, user : Holders \union {NoHolder}, slug : SlugNames \union {NoSlug},
          tried : Nat, joins : BOOLEAN, chooses : BOOLEAN]

NoVisit == [at |-> "idle", user |-> NoHolder, slug |-> NoSlug, tried |-> 0, joins |-> FALSE,
            chooses |-> FALSE]

SlugsTypeOK ==
    /\ pages \in [Holders -> Page \union {NoHolder}]
    /\ pagesSaved \in [Holders -> Page \union {NoHolder}]
    /\ visits \in [SlugRequests -> Visit]
    /\ \A r \in SlugRequests :
        /\ visits[r].at # "idle" => visits[r].user \in Holders
        /\ visits[r].at \in {"insert", "fill", "check", "set"} => visits[r].slug \in SlugNames
        /\ visits[r].at = "read" => visits[r].tried = 0
        /\ visits[r].at = "probe" => visits[r].tried \in 0..(Len(Candidates[visits[r].user]) - 1)
    /\ enrolled \subseteq Holders
    /\ serving \in BOOLEAN
    /\ confirmed \subseteq Holders
    /\ slugFaults \in 0..MaxSlugFaults

Enlisted(u) == pages[u] # NoHolder

\* The users whose page has the slug.
Bearers(s) == {u \in Holders : Enlisted(u) /\ pages[u].slug = s}

\* The database holds users from before slugs.
SlugsInit ==
    /\ enrolled \in SUBSET Holders
    /\ pages = [u \in Holders |-> IF u \in enrolled THEN Unset ELSE NoHolder]
    /\ pagesSaved = pages
    /\ visits = [r \in SlugRequests |-> NoVisit]
    /\ serving = FALSE
    /\ confirmed = {}
    /\ slugFaults = 0

-----------------------------------------------------------------------------
(* Startup: backfill_status_slugs, before the first request. *)

\* The slug that generate_unique_slug finds when nothing else runs: the first candidate
\* that is free, or the last resort.
Generated(u, s) ==
    LET taken == {i \in DOMAIN Candidates[u] : Bearers(Candidates[u][i]) # {}} IN
        \/ \E i \in DOMAIN Candidates[u] \ taken :
            s = Candidates[u][i] /\ 1..(i - 1) \subseteq taken
        \/ s = LastResort[u] /\ taken = DOMAIN Candidates[u]

\* Its UPDATE; an exception, as of the unique index, ends the backfill uncommitted.
BackfillUser(u) ==
    /\ ~serving
    /\ Enlisted(u)
    /\ pages[u].slug = NoSlug
    /\ \E s \in SlugNames :
        /\ Generated(u, s)
        /\ IF Bearers(s) = {}
           THEN pages' = [pages EXCEPT ![u].slug = s] /\ UNCHANGED serving
           ELSE serving' = TRUE /\ UNCHANGED pages
    /\ UNCHANGED <<pagesSaved, visits, enrolled, confirmed, slugFaults>>

BackfillEnds ==
    /\ ~serving
    /\ Bearers(NoSlug) = {}
    /\ serving' = TRUE
    /\ pagesSaved' = pages
    /\ UNCHANGED <<pages, visits, enrolled, confirmed, slugFaults>>

\* "Slug backfill is best-effort -- never block app startup on it."
BackfillFails ==
    /\ ~serving
    /\ slugFaults < MaxSlugFaults
    /\ slugFaults' = slugFaults + 1
    /\ serving' = TRUE
    /\ UNCHANGED <<pages, pagesSaved, visits, enrolled, confirmed>>

-----------------------------------------------------------------------------
(* Requests. *)

Leaves(r) == visits' = [visits EXCEPT ![r] = NoVisit]

MovesTo(r, stage) == visits' = [visits EXCEPT ![r].at = stage]

Comes(r, visit) ==
    /\ serving
    /\ visits[r].at = "idle"
    /\ visits' = [visits EXCEPT ![r] = visit]

\* signup_submit, whose address is free.
SlugSignup(r, u) ==
    /\ u \notin enrolled
    /\ enrolled' = enrolled \union {u}
    /\ Comes(r, [NoVisit EXCEPT !.at = "probe", !.user = u, !.joins = TRUE])
    /\ UNCHANGED <<pages, pagesSaved, serving, confirmed, slugFaults>>

\* settings_page: the user it has looked up by id comes without the column, so that
\* assign_slug_if_missing runs on every load.
OpenSettings(r, u) ==
    /\ Enlisted(u)
    /\ Comes(r, [NoVisit EXCEPT !.at = "read", !.user = u])
    /\ UNCHANGED <<pages, pagesSaved, enrolled, serving, confirmed, slugFaults>>

\* update_status_page_slug with a valid slug.
ChooseSlug(r, u, s) ==
    /\ Enlisted(u)
    /\ Comes(r, [NoVisit EXCEPT !.at = "check", !.user = u, !.slug = s, !.chooses = TRUE])
    /\ UNCHANGED <<pages, pagesSaved, enrolled, serving, confirmed, slugFaults>>

Unwritten == UNCHANGED <<pages, pagesSaved, enrolled, serving, confirmed, slugFaults>>

\* assign_slug_if_missing reads the slug; a row that has gone counts as one without a slug.
ReadSlug(r) ==
    /\ visits[r].at = "read"
    /\ LET u == visits[r].user IN
        IF Enlisted(u) /\ pages[u].slug # NoSlug THEN Leaves(r) ELSE MovesTo(r, "probe")
    /\ Unwritten

\* Variant of Probe with a bug: the candidates are counted one too far.
ProbePast(r) ==
    /\ visits[r].at = "probe"
    /\ LET u == visits[r].user
           next == visits[r].tried + 1
           free == Bearers(Candidates[u][next]) = {} IN
        IF ~free /\ next <= Len(Candidates[u])
        THEN visits' = [visits EXCEPT ![r].tried = next]
        ELSE visits' = [visits EXCEPT
                ![r].at = IF visits[r].joins THEN "insert" ELSE "fill",
                ![r].slug = IF free THEN Candidates[u][next] ELSE LastResort[u]]
    /\ Unwritten

\* _slug_taken for the next candidate.  The user's own slug counts as taken.
Probe(r) ==
    /\ visits[r].at = "probe"
    /\ LET u == visits[r].user
           next == visits[r].tried + 1
           free == Bearers(Candidates[u][next]) = {} IN
        IF ~free /\ next < Len(Candidates[u])
        THEN visits' = [visits EXCEPT ![r].tried = next]
        ELSE visits' = [visits EXCEPT
                ![r].at = IF visits[r].joins THEN "insert" ELSE "fill",
                ![r].slug = IF free THEN Candidates[u][next] ELSE LastResort[u]]
    /\ Unwritten

\* Variant of Writes with a bug: no unique index on status_page_slug.
WritesAnyway(r, page) ==
    /\ pages' = [pages EXCEPT ![visits[r].user] = page]
    /\ MovesTo(r, "commit")
    /\ UNCHANGED <<pagesSaved, enrolled, serving, confirmed, slugFaults>>

\* The slug is written and the commit is to come, unless the unique index refuses.
Writes(r, page) ==
    LET u == visits[r].user IN
        /\ IF Bearers(page.slug) \subseteq {u}
           THEN pages' = [pages EXCEPT ![u] = page] /\ MovesTo(r, "commit")
           ELSE Leaves(r) /\ UNCHANGED pages
        /\ UNCHANGED <<pagesSaved, enrolled, serving, confirmed, slugFaults>>

\* INSERT INTO users.
InsertWithSlug(r) ==
    /\ visits[r].at = "insert"
    /\ Writes(r, [slug |-> visits[r].slug, chosen |-> FALSE])

\* Variant of FillSlug with a bug: the WHERE clause asks for the id only.
FillAnySlug(r) ==
    /\ visits[r].at = "fill"
    /\ IF Enlisted(visits[r].user)
       THEN Writes(r, [slug |-> visits[r].slug, chosen |-> FALSE])
       ELSE MovesTo(r, "commit") /\ Unwritten

\* UPDATE ... WHERE id = ? AND status_page_slug IS NULL.
FillSlug(r) ==
    /\ visits[r].at = "fill"
    /\ LET u == visits[r].user IN
        IF Enlisted(u) /\ pages[u].slug = NoSlug
        THEN Writes(r, [slug |-> visits[r].slug, chosen |-> FALSE])
        ELSE MovesTo(r, "commit") /\ Unwritten

\* _slug_taken, except by the user.
CheckSlug(r) ==
    /\ visits[r].at = "check"
    /\ IF Bearers(visits[r].slug) \subseteq {visits[r].user} THEN MovesTo(r, "set") ELSE Leaves(r)
    /\ Unwritten

\* UPDATE ... WHERE id = ?.
SetSlug(r) ==
    /\ visits[r].at = "set"
    /\ IF Enlisted(visits[r].user)
       THEN Writes(r, [slug |-> visits[r].slug, chosen |-> TRUE])
       ELSE MovesTo(r, "commit") /\ Unwritten

\* The commit and the reply.
CommitSlug(r) ==
    /\ visits[r].at = "commit"
    /\ pagesSaved' = pages
    /\ confirmed' = IF visits[r].chooses THEN confirmed \union {visits[r].user} ELSE confirmed
    /\ Leaves(r)
    /\ UNCHANGED <<pages, enrolled, serving, slugFaults>>

-----------------------------------------------------------------------------
(* What else happens meanwhile. *)

HolderDeleted(u) ==
    /\ serving
    /\ Enlisted(u)
    /\ pages' = [pages EXCEPT ![u] = NoHolder]
    /\ UNCHANGED <<pagesSaved, visits, enrolled, serving, confirmed, slugFaults>>

\* Anybody's commit.
CommitBySomeone ==
    /\ serving
    /\ pagesSaved # pages
    /\ pagesSaved' = pages
    /\ UNCHANGED <<pages, visits, enrolled, serving, confirmed, slugFaults>>

\* A statement or a commit raises; what was executed stays in the open transaction.
VisitFails(r) ==
    /\ visits[r].at # "idle"
    /\ slugFaults < MaxSlugFaults
    /\ slugFaults' = slugFaults + 1
    /\ Leaves(r)
    /\ UNCHANGED <<pages, pagesSaved, enrolled, serving, confirmed>>

\* The process dies and is started again.
ServerDies ==
    /\ slugFaults < MaxSlugFaults
    /\ slugFaults' = slugFaults + 1
    /\ pages' = pagesSaved
    /\ serving' = FALSE
    /\ visits' = [r \in SlugRequests |-> NoVisit]
    /\ UNCHANGED <<pagesSaved, enrolled, confirmed>>

SlugsNext ==
    \/ \E u \in Holders : BackfillUser(u) \/ HolderDeleted(u)
    \/ BackfillEnds \/ BackfillFails
    \/ \E r \in SlugRequests :
        \/ \E u \in Holders : SlugSignup(r, u) \/ OpenSettings(r, u)
        \/ \E u \in Holders, s \in SlugNames : ChooseSlug(r, u, s)
        \/ ReadSlug(r) \/ Probe(r) \/ InsertWithSlug(r) \/ FillSlug(r)
        \/ CheckSlug(r) \/ SetSlug(r) \/ CommitSlug(r) \/ VisitFails(r)
    \/ CommitBySomeone
    \/ ServerDies

SlugsSpec == SlugsInit /\ [][SlugsNext]_slugVars

-----------------------------------------------------------------------------
(* Properties. *)

\* A public address leads to one user's monitors, whatever signups, page loads, choices
\* and restarts found it free at the same time.
SlugNamesOneUser == \A u, v \in Holders : \A table \in {pages, pagesSaved} :
    (u # v /\ table[u] # NoHolder /\ table[v] # NoHolder /\ table[u].slug # NoSlug) =>
        table[u].slug # table[v].slug

\* Once a user was told that the address is updated, it stays one of the user's choice: a
\* page load, a signup or a backfill that began before puts no generated slug over it, and
\* a crash does not bring the former one back.
ChosenSlugKept == \A u \in confirmed : \A table \in {pages, pagesSaved} :
    table[u] # NoHolder => table[u].chosen

=============================================================================
