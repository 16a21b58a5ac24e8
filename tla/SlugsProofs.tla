---------------------------- MODULE SlugsProofs ----------------------------
(***************************************************************************)
(* One user for each public address, and the choice of it kept, for any    *)
(* number of users, slugs, candidates, requests under way and faults.      *)
(***************************************************************************)
EXTENDS Slugs, TLAPS

USE SlugsAssumption, PageAssumption

-----------------------------------------------------------------------------
(* Types. *)

LEMMA UnsetType == Unset \in Page /\ Unset.slug = NoSlug /\ Unset.chosen = FALSE
BY DEF Unset, Page

LEMMA NoVisitType ==
    /\ NoVisit \in Visit /\ NoVisit.at = "idle" /\ NoVisit.user = NoHolder /\ NoVisit.tried = 0
    /\ NoVisit.joins = FALSE /\ NoVisit.chooses = FALSE
BY DEF NoVisit, Visit, SlugStages

\* What each stage of a request has.
VisitOK(visit) ==
    /\ visit \in Visit
    /\ visit.at # "idle" => visit.user \in Holders
    /\ visit.at \in {"insert", "fill", "check", "set"} => visit.slug \in SlugNames
    /\ visit.at = "read" => visit.tried = 0
    /\ visit.at = "probe" => visit.tried \in 0..(Len(Candidates[visit.user]) - 1)

LEMMA VisitsOK ==
    SlugsTypeOK <=>
        /\ pages \in [Holders -> Page \union {NoHolder}]
        /\ pagesSaved \in [Holders -> Page \union {NoHolder}]
        /\ visits \in [SlugRequests -> Visit]
        /\ \A r \in SlugRequests : VisitOK(visits[r])
        /\ enrolled \subseteq Holders
        /\ serving \in BOOLEAN
        /\ confirmed \subseteq Holders
        /\ slugFaults \in 0..MaxSlugFaults
BY DEF SlugsTypeOK, VisitOK

\* Most steps change one request; the rest of the tables is of the same kind as before.
LEMMA OneVisitType ==
    ASSUME SlugsTypeOK, NEW r \in SlugRequests, NEW visit, VisitOK(visit),
           visits' = [visits EXCEPT ![r] = visit],
           pages' \in [Holders -> Page \union {NoHolder}],
           pagesSaved' \in {pages, pagesSaved},
           enrolled' \subseteq Holders, UNCHANGED serving, confirmed' \subseteq Holders,
           slugFaults' \in 0..MaxSlugFaults
    PROVE  SlugsTypeOK'
<1>1. visits' \in [SlugRequests -> Visit] /\ \A q \in SlugRequests : VisitOK(visits'[q])
    BY VisitsOK DEF VisitOK
<1> QED BY <1>1 DEF SlugsTypeOK, VisitOK

LEMMA CandidatesTypes ==
    ASSUME NEW u \in Holders
    PROVE  /\ Len(Candidates[u]) \in Nat \ {0}
           /\ \A i \in 1..Len(Candidates[u]) : Candidates[u][i] \in SlugNames
           /\ LastResort[u] \in SlugNames
<1>1. Candidates[u] \in Seq(SlugNames) /\ Candidates[u] # <<>>
    OBVIOUS
<1> QED BY <1>1

LEMMA SlugsTypeInit == SlugsInit => SlugsTypeOK
<1> SUFFICES ASSUME SlugsInit PROVE SlugsTypeOK
    OBVIOUS
<1>1. enrolled \subseteq Holders /\ pages \in [Holders -> Page \union {NoHolder}]
    BY UnsetType DEF SlugsInit
<1>2. visits \in [SlugRequests -> Visit] /\ \A r \in SlugRequests : VisitOK(visits[r])
    BY NoVisitType DEF SlugsInit, VisitOK
<1>3. pagesSaved = pages /\ serving \in BOOLEAN /\ confirmed \subseteq Holders
    BY DEF SlugsInit
<1>4. slugFaults \in 0..MaxSlugFaults
    BY DEF SlugsInit
<1> QED BY <1>1, <1>2, <1>3, <1>4 DEF SlugsTypeOK, VisitOK

\* The row that a write leaves, and the request that wrote it.
LEMMA WritesType ==
    ASSUME SlugsTypeOK, NEW r \in SlugRequests, visits[r].at # "idle", NEW page \in Page,
           Writes(r, page)
    PROVE  SlugsTypeOK'
<1> DEFINE done == [visits[r] EXCEPT !.at = "commit"]
<1>1. VisitOK(done) /\ VisitOK(NoVisit) /\ visits[r].user \in Holders
    BY NoVisitType, VisitsOK DEF VisitOK, Visit, SlugStages
<1>2. visits' = [visits EXCEPT ![r] = done] \/ visits' = [visits EXCEPT ![r] = NoVisit]
    BY DEF Writes, MovesTo, Leaves, SlugsTypeOK
<1>3. pages' \in [Holders -> Page \union {NoHolder}]
    BY <1>1 DEF Writes, SlugsTypeOK
<1>4. /\ pagesSaved' = pagesSaved /\ enrolled' \subseteq Holders /\ UNCHANGED serving
      /\ confirmed' \subseteq Holders /\ slugFaults' \in 0..MaxSlugFaults
    BY DEF Writes, SlugsTypeOK
<1> HIDE DEF done
<1> QED BY <1>1, <1>2, <1>3, <1>4, OneVisitType

\* A request that goes on to another stage, or leaves, and changes nothing else.
LEMMA MovesType ==
    ASSUME SlugsTypeOK, NEW r \in SlugRequests, Unwritten,
           \/ Leaves(r)
           \/ \E stage \in {"probe", "set", "commit"} :
                /\ MovesTo(r, stage)
                /\ visits[r].at # "idle"
                /\ stage = "probe" => visits[r].tried = 0
                /\ stage = "set" => visits[r].at = "check"
    PROVE  SlugsTypeOK'
<1>1. pages' \in [Holders -> Page \union {NoHolder}] /\ pagesSaved' = pagesSaved
      /\ enrolled' \subseteq Holders /\ UNCHANGED serving
      /\ confirmed' \subseteq Holders /\ slugFaults' \in 0..MaxSlugFaults
    BY DEF Unwritten, SlugsTypeOK
<1>2. CASE Leaves(r)
    <2>1. VisitOK(NoVisit)
        BY NoVisitType DEF VisitOK
    <2> QED BY <1>1, <1>2, <2>1, OneVisitType DEF Leaves
<1>3. ASSUME NEW stage \in {"probe", "set", "commit"}, MovesTo(r, stage), visits[r].at # "idle",
             stage = "probe" => visits[r].tried = 0, stage = "set" => visits[r].at = "check"
      PROVE  SlugsTypeOK'
    <2> DEFINE moved == [visits[r] EXCEPT !.at = stage]
    <2>1. visits' = [visits EXCEPT ![r] = moved]
        BY <1>3 DEF MovesTo, SlugsTypeOK
    <2>2. VisitOK(visits[r]) /\ visits[r].user \in Holders
        BY <1>3, VisitsOK DEF VisitOK
    <2>3. moved \in Visit /\ moved.at = stage /\ moved.user = visits[r].user
          /\ moved.slug = visits[r].slug /\ moved.tried = visits[r].tried
        BY <2>2 DEF VisitOK, Visit, SlugStages
    <2>4. stage = "probe" => visits[r].tried \in 0..(Len(Candidates[visits[r].user]) - 1)
        BY <1>3, <2>2, CandidatesTypes
    <2>5. stage = "set" => visits[r].slug \in SlugNames
        BY <1>3, <2>2 DEF VisitOK
    <2> HIDE DEF moved
    <2>6. VisitOK(moved)
        BY <2>2, <2>3, <2>4, <2>5 DEF VisitOK
    <2> QED BY <1>1, <2>1, <2>6, OneVisitType
<1> QED BY <1>2, <1>3

\* A request that comes in.
LEMMA ComesType ==
    ASSUME SlugsTypeOK, NEW r \in SlugRequests, NEW visit, VisitOK(visit), Comes(r, visit),
           UNCHANGED <<pages, pagesSaved, serving, confirmed, slugFaults>>,
           enrolled' \subseteq Holders
    PROVE  SlugsTypeOK'
BY OneVisitType DEF Comes, SlugsTypeOK

LEMMA SlugsTypeNext == SlugsTypeOK /\ [SlugsNext]_slugVars => SlugsTypeOK'
<1> SUFFICES ASSUME SlugsTypeOK, [SlugsNext]_slugVars PROVE SlugsTypeOK'
    OBVIOUS
<1>1. ASSUME NEW u \in Holders, BackfillUser(u) PROVE SlugsTypeOK'
    <2>1. PICK s \in SlugNames :
            IF Bearers(s) = {}
            THEN pages' = [pages EXCEPT ![u].slug = s] /\ UNCHANGED serving
            ELSE serving' = TRUE /\ UNCHANGED pages
        BY <1>1 DEF BackfillUser
    <2>2. pages[u] \in Page
        BY <1>1 DEF BackfillUser, Enlisted, SlugsTypeOK
    <2>3. pages' \in [Holders -> Page \union {NoHolder}]
        BY <2>1, <2>2 DEF SlugsTypeOK, Page
    <2>4. serving' \in BOOLEAN
        BY <2>1, Zenon DEF SlugsTypeOK
    <2> QED BY <1>1, <2>3, <2>4 DEF BackfillUser, SlugsTypeOK
<1>2. ASSUME NEW u \in Holders, HolderDeleted(u) PROVE SlugsTypeOK'
    BY <1>2 DEF HolderDeleted, SlugsTypeOK
<1>3. ASSUME BackfillEnds PROVE SlugsTypeOK'
    BY <1>3 DEF BackfillEnds, SlugsTypeOK
<1>4. ASSUME BackfillFails PROVE SlugsTypeOK'
    <2>1. slugFaults' \in 0..MaxSlugFaults
        BY <1>4 DEF BackfillFails, SlugsTypeOK
    <2>2. serving' = TRUE /\ UNCHANGED <<pages, pagesSaved, visits, enrolled, confirmed>>
        BY <1>4 DEF BackfillFails
    <2> QED BY <2>1, <2>2 DEF SlugsTypeOK
<1>5. ASSUME NEW r \in SlugRequests, NEW u \in Holders, SlugSignup(r, u) PROVE SlugsTypeOK'
    <2> DEFINE visit == [NoVisit EXCEPT !.at = "probe", !.user = u, !.joins = TRUE]
    <2>1. visit \in Visit /\ visit.at = "probe" /\ visit.user = u /\ visit.tried = 0
        BY NoVisitType DEF Visit, SlugStages
    <2>2. Comes(r, visit) /\ enrolled' \subseteq Holders
          /\ UNCHANGED <<pages, pagesSaved, serving, confirmed, slugFaults>>
        BY <1>5 DEF SlugSignup, SlugsTypeOK
    <2> HIDE DEF visit
    <2>3. VisitOK(visit)
        BY <2>1, CandidatesTypes DEF VisitOK
    <2> QED BY <2>2, <2>3, ComesType
<1>6. ASSUME NEW r \in SlugRequests, NEW u \in Holders, OpenSettings(r, u) PROVE SlugsTypeOK'
    <2> DEFINE visit == [NoVisit EXCEPT !.at = "read", !.user = u]
    <2>1. VisitOK(visit)
        BY NoVisitType DEF VisitOK, Visit, SlugStages
    <2>2. Comes(r, visit) /\ enrolled' \subseteq Holders
          /\ UNCHANGED <<pages, pagesSaved, serving, confirmed, slugFaults>>
        BY <1>6 DEF OpenSettings, SlugsTypeOK
    <2> HIDE DEF visit
    <2> QED BY <2>1, <2>2, ComesType
<1>7. ASSUME NEW r \in SlugRequests, NEW u \in Holders, NEW s \in SlugNames, ChooseSlug(r, u, s)
      PROVE  SlugsTypeOK'
    <2> DEFINE visit == [NoVisit EXCEPT !.at = "check", !.user = u, !.slug = s, !.chooses = TRUE]
    <2>1. VisitOK(visit)
        BY NoVisitType DEF VisitOK, Visit, SlugStages
    <2>2. Comes(r, visit) /\ enrolled' \subseteq Holders
          /\ UNCHANGED <<pages, pagesSaved, serving, confirmed, slugFaults>>
        BY <1>7 DEF ChooseSlug, SlugsTypeOK
    <2> HIDE DEF visit
    <2> QED BY <2>1, <2>2, ComesType
<1>8. ASSUME NEW r \in SlugRequests, ReadSlug(r) PROVE SlugsTypeOK'
    <2>1. visits[r].tried = 0 /\ visits[r].at # "idle"
        BY <1>8 DEF ReadSlug, SlugsTypeOK
    <2> QED BY <1>8, <2>1, MovesType DEF ReadSlug
<1>9. ASSUME NEW r \in SlugRequests, Probe(r) PROVE SlugsTypeOK'
    <2>1. VisitOK(visits[r]) /\ visits[r].user \in Holders /\ visits[r].at = "probe"
        BY <1>9, VisitsOK DEF VisitOK, Probe
    <2> DEFINE u == visits[r].user
               next == visits[r].tried + 1
    <2>2. next \in 1..Len(Candidates[u]) /\ Len(Candidates[u]) \in Nat
        BY <2>1, CandidatesTypes DEF VisitOK
    <2>3. Candidates[u][next] \in SlugNames /\ LastResort[u] \in SlugNames
        BY <2>1, <2>2, CandidatesTypes
    <2>4. PICK visit :
            /\ visits' = [visits EXCEPT ![r] = visit]
            /\ \/ /\ next < Len(Candidates[u])
                  /\ visit = [visits[r] EXCEPT !.tried = next]
               \/ \E stage \in {"insert", "fill"}, s \in SlugNames :
                    visit = [visits[r] EXCEPT !.at = stage, !.slug = s]
        <3>1. CASE visits' = [visits EXCEPT ![r].tried = next] /\ next < Len(Candidates[u])
            <4>1. visits' = [visits EXCEPT ![r] = [visits[r] EXCEPT !.tried = next]]
                BY <3>1 DEF SlugsTypeOK
            <4> QED BY <3>1, <4>1
        <3>2. ASSUME NEW stage \in {"insert", "fill"}, NEW s \in SlugNames,
                     visits' = [visits EXCEPT ![r].at = stage, ![r].slug = s]
              PROVE  visits' = [visits EXCEPT ![r] = [visits[r] EXCEPT !.at = stage, !.slug = s]]
            BY <3>2 DEF SlugsTypeOK
        <3>3. \/ visits' = [visits EXCEPT ![r].tried = next] /\ next < Len(Candidates[u])
              \/ \E stage \in {"insert", "fill"}, s \in SlugNames :
                    visits' = [visits EXCEPT ![r].at = stage, ![r].slug = s]
            BY <1>9, <2>3 DEF Probe
        <3> QED BY <3>1, <3>2, <3>3
    <2>5. VisitOK(visit)
        <3> HIDE DEF u
        <3>1. CASE next < Len(Candidates[u]) /\ visit = [visits[r] EXCEPT !.tried = next]
            <4>1. next \in Nat /\ next \in 0..(Len(Candidates[u]) - 1)
                BY <2>2, <3>1
            <4>2. visit \in Visit /\ visit.at = "probe" /\ visit.user = visits[r].user
                  /\ visit.tried = next
                <5> HIDE DEF next
                <5> QED BY <2>1, <3>1, <4>1 DEF VisitOK, Visit
            <4> HIDE DEF next
            <4> QED BY <2>1, <4>1, <4>2 DEF VisitOK, u
        <3>2. ASSUME NEW stage \in {"insert", "fill"}, NEW s \in SlugNames,
                     visit = [visits[r] EXCEPT !.at = stage, !.slug = s]
              PROVE  VisitOK(visit)
            BY <2>1, <3>2 DEF VisitOK, Visit, SlugStages
        <3> QED BY <2>4, <3>1, <3>2
    <2>6. pages' \in [Holders -> Page \union {NoHolder}] /\ pagesSaved' = pagesSaved
          /\ enrolled' \subseteq Holders /\ UNCHANGED serving
          /\ confirmed' \subseteq Holders /\ slugFaults' \in 0..MaxSlugFaults
        BY <1>9 DEF Probe, Unwritten, SlugsTypeOK
    <2> QED BY <2>4, <2>5, <2>6, OneVisitType
<1>10. ASSUME NEW r \in SlugRequests, InsertWithSlug(r) PROVE SlugsTypeOK'
    <2>1. [slug |-> visits[r].slug, chosen |-> FALSE] \in Page /\ visits[r].at # "idle"
        BY <1>10 DEF InsertWithSlug, SlugsTypeOK, Page
    <2> QED BY <1>10, <2>1, WritesType DEF InsertWithSlug
<1>11. ASSUME NEW r \in SlugRequests, FillSlug(r) PROVE SlugsTypeOK'
    <2>1. [slug |-> visits[r].slug, chosen |-> FALSE] \in Page /\ visits[r].at # "idle"
        BY <1>11 DEF FillSlug, SlugsTypeOK, Page
    <2> QED BY <1>11, <2>1, WritesType, MovesType DEF FillSlug
<1>12. ASSUME NEW r \in SlugRequests, CheckSlug(r) PROVE SlugsTypeOK'
    BY <1>12, MovesType DEF CheckSlug
<1>13. ASSUME NEW r \in SlugRequests, SetSlug(r) PROVE SlugsTypeOK'
    <2>1. [slug |-> visits[r].slug, chosen |-> TRUE] \in Page /\ visits[r].at # "idle"
        BY <1>13 DEF SetSlug, SlugsTypeOK, Page
    <2> QED BY <1>13, <2>1, WritesType, MovesType DEF SetSlug
<1>14. ASSUME NEW r \in SlugRequests, CommitSlug(r) PROVE SlugsTypeOK'
    <2>1. VisitOK(NoVisit) /\ visits' = [visits EXCEPT ![r] = NoVisit]
        BY <1>14, NoVisitType DEF VisitOK, CommitSlug, Leaves
    <2>2. confirmed' \subseteq Holders
        BY <1>14 DEF CommitSlug, SlugsTypeOK
    <2>3. pages' \in [Holders -> Page \union {NoHolder}] /\ pagesSaved' = pages
          /\ enrolled' \subseteq Holders /\ UNCHANGED serving /\ slugFaults' \in 0..MaxSlugFaults
        BY <1>14 DEF CommitSlug, SlugsTypeOK
    <2> QED BY <2>1, <2>2, <2>3, OneVisitType
<1>15. ASSUME NEW r \in SlugRequests, VisitFails(r) PROVE SlugsTypeOK'
    <2>1. VisitOK(NoVisit) /\ visits' = [visits EXCEPT ![r] = NoVisit]
        BY <1>15, NoVisitType DEF VisitOK, VisitFails, Leaves
    <2>2. slugFaults' \in 0..MaxSlugFaults
        BY <1>15 DEF VisitFails, SlugsTypeOK
    <2>3. pages' \in [Holders -> Page \union {NoHolder}] /\ pagesSaved' = pagesSaved
          /\ enrolled' \subseteq Holders /\ UNCHANGED serving /\ confirmed' \subseteq Holders
        BY <1>15 DEF VisitFails, SlugsTypeOK
    <2> QED BY <2>1, <2>2, <2>3, OneVisitType
<1>16. ASSUME CommitBySomeone PROVE SlugsTypeOK'
    BY <1>16 DEF CommitBySomeone, SlugsTypeOK
<1>17. ASSUME ServerDies PROVE SlugsTypeOK'
    <2>1. slugFaults' \in 0..MaxSlugFaults
        BY <1>17 DEF ServerDies, SlugsTypeOK
    <2>2. visits' \in [SlugRequests -> Visit] /\ \A r \in SlugRequests : visits'[r].at = "idle"
        BY <1>17, NoVisitType DEF ServerDies
    <2> QED BY <1>17, <2>1, <2>2 DEF ServerDies, SlugsTypeOK
<1>18. ASSUME UNCHANGED slugVars PROVE SlugsTypeOK'
    BY <1>18 DEF slugVars, SlugsTypeOK
<1> QED
    BY <1>1, <1>2, <1>3, <1>4, <1>5, <1>6, <1>7, <1>8, <1>9, <1>10, <1>11, <1>12, <1>13,
       <1>14, <1>15, <1>16, <1>17, <1>18
    DEF SlugsNext

\* Tables, requests and observers keep their types; in particular no probe runs past the
\* candidates, and what a request is about to write is a valid slug.
THEOREM SlugsTypeCorrect == SlugsSpec => []SlugsTypeOK
BY SlugsTypeInit, SlugsTypeNext, PTL DEF SlugsSpec

-----------------------------------------------------------------------------
(* One user for each address. *)

\* A page is given a slug that no other page has.
LEMMA OneUserKept ==
    ASSUME SlugsTypeOK, SlugNamesOneUser, pagesSaved' \in {pagesSaved, pages},
           \/ \A u \in Holders : pages'[u] \in {pages[u], NoHolder}
           \/ \E u \in Holders : \E page \in Page :
                /\ pages' = [pages EXCEPT ![u] = page]
                /\ Bearers(page.slug) \subseteq {u}
    PROVE  SlugNamesOneUser'
<1>1. CASE \A u \in Holders : pages'[u] \in {pages[u], NoHolder}
    BY <1>1 DEF SlugNamesOneUser
<1>2. ASSUME NEW w \in Holders, NEW page \in Page, pages' = [pages EXCEPT ![w] = page],
             Bearers(page.slug) \subseteq {w}
      PROVE  SlugNamesOneUser'
    <2>1. pages'[w] = page /\ \A v \in Holders \ {w} : pages'[v] = pages[v]
        BY <1>2 DEF SlugsTypeOK
    <2>2. \A v \in Holders \ {w} : pages[v] # NoHolder => pages[v].slug # page.slug
        BY <1>2 DEF Bearers, Enlisted
    <2>3. \A u, v \in Holders : (u # v /\ pages'[u] # NoHolder /\ pages'[v] # NoHolder
                /\ pages'[u].slug # NoSlug) => pages'[u].slug # pages'[v].slug
        BY <2>1, <2>2 DEF SlugNamesOneUser
    <2> QED BY <2>3 DEF SlugNamesOneUser
<1> QED BY <1>1, <1>2

LEMMA OneUserInit == SlugsInit => SlugNamesOneUser
<1> SUFFICES ASSUME SlugsInit PROVE SlugNamesOneUser
    OBVIOUS
<1>1. pagesSaved = pages /\ \A u \in Holders : pages[u] # NoHolder => pages[u].slug = NoSlug
    BY UnsetType DEF SlugsInit
<1> QED BY <1>1 DEF SlugNamesOneUser

LEMMA WritesKeepOneUser ==
    ASSUME SlugsTypeOK, SlugNamesOneUser, NEW r \in SlugRequests, NEW page \in Page,
           visits[r].at # "idle", Writes(r, page)
    PROVE  SlugNamesOneUser'
<1>1. visits[r].user \in Holders /\ pagesSaved' = pagesSaved
    BY DEF SlugsTypeOK, Writes
<1>2. CASE Bearers(page.slug) \subseteq {visits[r].user}
    <2>1. pages' = [pages EXCEPT ![visits[r].user] = page]
        BY <1>2 DEF Writes
    <2> QED BY <1>1, <1>2, <2>1, OneUserKept
<1>3. CASE ~(Bearers(page.slug) \subseteq {visits[r].user})
    <2>1. pages' = pages
        BY <1>3 DEF Writes
    <2> QED BY <1>1, <2>1, OneUserKept
<1> QED BY <1>2, <1>3

LEMMA OneUserNext ==
    SlugsTypeOK /\ SlugNamesOneUser /\ [SlugsNext]_slugVars => SlugNamesOneUser'
<1> SUFFICES ASSUME SlugsTypeOK, SlugNamesOneUser, [SlugsNext]_slugVars PROVE SlugNamesOneUser'
    OBVIOUS
<1>s. ASSUME pages' = pages, pagesSaved' \in {pagesSaved, pages} PROVE SlugNamesOneUser'
    BY <1>s, OneUserKept
<1>1. ASSUME NEW u \in Holders, BackfillUser(u) PROVE SlugNamesOneUser'
    <2>1. PICK s \in SlugNames :
            IF Bearers(s) = {}
            THEN pages' = [pages EXCEPT ![u].slug = s] /\ UNCHANGED serving
            ELSE serving' = TRUE /\ UNCHANGED pages
        BY <1>1 DEF BackfillUser
    <2>2. pagesSaved' = pagesSaved /\ pages[u] \in Page
        BY <1>1 DEF BackfillUser, Enlisted, SlugsTypeOK
    <2>3. CASE Bearers(s) = {}
        <3> DEFINE page == [pages[u] EXCEPT !.slug = s]
        <3>1. pages' = [pages EXCEPT ![u] = page] /\ page \in Page /\ page.slug = s
            BY <2>1, <2>2, <2>3 DEF SlugsTypeOK, Page
        <3> HIDE DEF page
        <3> QED BY <2>2, <2>3, <3>1, OneUserKept
    <2>4. CASE Bearers(s) # {}
        BY <1>s, <2>1, <2>2, <2>4
    <2> QED BY <2>3, <2>4
<1>2. ASSUME NEW u \in Holders, HolderDeleted(u) PROVE SlugNamesOneUser'
    <2>1. pagesSaved' = pagesSaved /\ \A v \in Holders : pages'[v] \in {pages[v], NoHolder}
        BY <1>2 DEF HolderDeleted, SlugsTypeOK
    <2> QED BY <2>1, OneUserKept
<1>3. ASSUME BackfillEnds \/ BackfillFails \/ CommitBySomeone PROVE SlugNamesOneUser'
    BY <1>3, <1>s DEF BackfillEnds, BackfillFails, CommitBySomeone
<1>4. ASSUME NEW r \in SlugRequests, NEW u \in Holders, SlugSignup(r, u) \/ OpenSettings(r, u)
      PROVE  SlugNamesOneUser'
    BY <1>4, <1>s DEF SlugSignup, OpenSettings
<1>5. ASSUME NEW r \in SlugRequests, NEW u \in Holders, NEW s \in SlugNames, ChooseSlug(r, u, s)
      PROVE  SlugNamesOneUser'
    BY <1>5, <1>s DEF ChooseSlug
<1>6. ASSUME NEW r \in SlugRequests,
             ReadSlug(r) \/ Probe(r) \/ CheckSlug(r) \/ CommitSlug(r) \/ VisitFails(r)
      PROVE  SlugNamesOneUser'
    BY <1>6, <1>s DEF ReadSlug, Probe, CheckSlug, CommitSlug, VisitFails, Unwritten
<1>7. ASSUME NEW r \in SlugRequests, InsertWithSlug(r) PROVE SlugNamesOneUser'
    <2>1. [slug |-> visits[r].slug, chosen |-> FALSE] \in Page /\ visits[r].at # "idle"
        BY <1>7 DEF InsertWithSlug, SlugsTypeOK, Page
    <2> QED BY <1>7, <2>1, WritesKeepOneUser DEF InsertWithSlug
<1>8. ASSUME NEW r \in SlugRequests, FillSlug(r) PROVE SlugNamesOneUser'
    <2>1. [slug |-> visits[r].slug, chosen |-> FALSE] \in Page /\ visits[r].at # "idle"
        BY <1>8 DEF FillSlug, SlugsTypeOK, Page
    <2>2. CASE Unwritten
        BY <1>s, <2>2 DEF Unwritten
    <2> QED BY <1>8, <2>1, <2>2, WritesKeepOneUser DEF FillSlug
<1>9. ASSUME NEW r \in SlugRequests, SetSlug(r) PROVE SlugNamesOneUser'
    <2>1. [slug |-> visits[r].slug, chosen |-> TRUE] \in Page /\ visits[r].at # "idle"
        BY <1>9 DEF SetSlug, SlugsTypeOK, Page
    <2>2. CASE Unwritten
        BY <1>s, <2>2 DEF Unwritten
    <2> QED BY <1>9, <2>1, <2>2, WritesKeepOneUser DEF SetSlug
<1>10. ASSUME ServerDies PROVE SlugNamesOneUser'
    BY <1>10 DEF ServerDies, SlugNamesOneUser
<1>11. ASSUME UNCHANGED slugVars PROVE SlugNamesOneUser'
    BY <1>11, <1>s DEF slugVars
<1> QED
    BY <1>1, <1>2, <1>3, <1>4, <1>5, <1>6, <1>7, <1>8, <1>9, <1>10, <1>11
    DEF SlugsNext

\* No two users ever share a public address, in memory or on disk.
THEOREM AddressesAreUnique == SlugsSpec => []SlugNamesOneUser
<1>1. SlugsInit => SlugsTypeOK /\ SlugNamesOneUser
    BY SlugsTypeInit, OneUserInit
<1>2. SlugsTypeOK /\ SlugNamesOneUser /\ [SlugsNext]_slugVars => (SlugsTypeOK /\ SlugNamesOneUser)'
    BY SlugsTypeNext, OneUserNext
<1> QED BY <1>1, <1>2, PTL DEF SlugsSpec

-----------------------------------------------------------------------------
(* A choice stays. *)

\* Only signups insert, only choices are confirmed.
KindOK(visit) ==
    /\ visit.at = "insert" => visit.joins
    /\ visit.at \in {"read", "fill", "check", "set"} => ~visit.joins
    /\ visit.at \in {"read", "probe", "insert", "fill"} => ~visit.chooses

KindsOK == \A r \in SlugRequests : KindOK(visits[r])

\* What a user chose is a slug, not NULL: so that the UPDATE that fills NULLs spares it.
ChoicesAreSlugs == \A u \in Holders : \A table \in {pages, pagesSaved} :
    (table[u] # NoHolder /\ table[u].chosen) => table[u].slug # NoSlug

\* The id of a signup is new: nobody else has a row or a request under it.
AbsentUser(u) == pages[u] = NoHolder /\ pagesSaved[u] = NoHolder /\ u \notin confirmed

NewIds == \A u \in Holders \ enrolled :
    AbsentUser(u) /\ \A r \in SlugRequests : visits[r].at # "idle" => visits[r].user # u

JoinersAreNew == \A r \in SlugRequests : visits[r].joins /\ visits[r].at \in {"probe", "insert"} =>
    /\ AbsentUser(visits[r].user)
    /\ \A q \in SlugRequests \ {r} : visits[q].at # "idle" => visits[q].user # visits[r].user

\* Between its UPDATE and its commit, a choice is not overwritten either.
PendingChoices == \A r \in SlugRequests : visits[r].at = "commit" /\ visits[r].chooses =>
    (pages[visits[r].user] # NoHolder => pages[visits[r].user].chosen)

ChoiceInv ==
    /\ SlugsTypeOK
    /\ KindsOK
    /\ ChoicesAreSlugs
    /\ NewIds
    /\ JoinersAreNew
    /\ PendingChoices
    /\ ChosenSlugKept

LEMMA ChoiceInvInit == SlugsInit => ChoiceInv
<1> SUFFICES ASSUME SlugsInit PROVE ChoiceInv
    OBVIOUS
<1>1. \A r \in SlugRequests : visits[r].at = "idle"
    BY NoVisitType DEF SlugsInit
<1>2. /\ pagesSaved = pages /\ confirmed = {}
      /\ \A u \in Holders : pages[u] # NoHolder => ~pages[u].chosen /\ u \in enrolled
    BY UnsetType DEF SlugsInit
<1>3. KindsOK /\ JoinersAreNew /\ PendingChoices
    BY <1>1 DEF KindsOK, KindOK, JoinersAreNew, PendingChoices
<1>4. ChoicesAreSlugs /\ ChosenSlugKept
    BY <1>2 DEF ChoicesAreSlugs, ChosenSlugKept
<1>5. NewIds
    BY <1>1, <1>2 DEF NewIds, AbsentUser
<1> QED BY <1>3, <1>4, <1>5, SlugsTypeInit DEF ChoiceInv

\* What a step of request r may do to the pages: give its own user's one a slug, and not
\* undo the user's choice.
PageStep(r) == \A u \in Holders :
    \/ pages'[u] = pages[u]
    \/ /\ u = visits[r].user /\ visits[r].at # "idle"
       /\ pages'[u] \in Page /\ pages'[u].slug # NoSlug
       /\ pages[u] # NoHolder => (pages[u].chosen => pages'[u].chosen)
       /\ pages[u] = NoHolder => visits[r].joins /\ visits[r].at = "insert"

\* A request goes on, or leaves.
GoesOn(r, visit) ==
    /\ visits' = [visits EXCEPT ![r] = visit]
    /\ KindOK(visit)
    /\ \/ visit.at = "idle"
       \/ /\ visits[r].at # "idle"
          /\ visit.user = visits[r].user /\ visit.joins = visits[r].joins
          /\ visit.joins /\ visit.at \in {"probe", "insert"} =>
                visits[r].at \in {"probe", "insert"} /\ pages' = pages
    /\ visit.at = "commit" /\ visit.chooses =>
        (pages'[visit.user] # NoHolder => pages'[visit.user].chosen)

LEMMA GoingOnKeepsChoices ==
    ASSUME ChoiceInv, SlugsTypeOK', NEW r \in SlugRequests, NEW visit, GoesOn(r, visit),
           PageStep(r), UNCHANGED enrolled, UNCHANGED <<pagesSaved, confirmed>>
    PROVE  ChoiceInv'
<1>1. /\ visits'[r] = visit
      /\ visits[r].at # "idle" => visits[r].user \in Holders
      /\ \A q \in SlugRequests \ {r} : visits'[q] = visits[q]
    BY DEF GoesOn, ChoiceInv, SlugsTypeOK
<1>2. \A q \in SlugRequests : visits'[q].at # "idle" =>
        visits[q].at # "idle" /\ visits'[q].user = visits[q].user
    BY <1>1 DEF GoesOn
<1>3. KindsOK'
    BY <1>1 DEF GoesOn, ChoiceInv, KindsOK
<1>4. ChoicesAreSlugs'
    BY DEF PageStep, ChoiceInv, ChoicesAreSlugs
<1>5. NewIds'
    <2> SUFFICES ASSUME NEW u \in Holders \ enrolled
                 PROVE  /\ pages'[u] = NoHolder /\ pagesSaved[u] = NoHolder /\ u \notin confirmed
                        /\ \A q \in SlugRequests : visits'[q].at # "idle" => visits'[q].user # u
        BY DEF NewIds, AbsentUser
    <2>1. AbsentUser(u) /\ \A q \in SlugRequests : visits[q].at # "idle" => visits[q].user # u
        BY DEF ChoiceInv, NewIds
    <2>2. pages'[u] = pages[u]
        BY <2>1 DEF PageStep
    <2> QED BY <1>2, <2>1, <2>2 DEF AbsentUser
<1>6. JoinersAreNew'
    <2> SUFFICES ASSUME NEW j \in SlugRequests, visits'[j].joins, visits'[j].at \in {"probe", "insert"}
                 PROVE  LET u == visits'[j].user IN
                        /\ pages'[u] = NoHolder /\ pagesSaved[u] = NoHolder /\ u \notin confirmed
                        /\ \A q \in SlugRequests \ {j} : visits'[q].at # "idle" => visits'[q].user # u
        BY DEF JoinersAreNew, AbsentUser
    <2>1. /\ visits[j].joins /\ visits[j].at \in {"probe", "insert"}
          /\ visits'[j].user = visits[j].user
          /\ j = r => pages' = pages
        <3>1. CASE j = r
            <4>1. visit.joins /\ visit.at \in {"probe", "insert"} /\ visit.at # "idle"
                BY <1>1, <3>1
            <4>2. /\ visit.user = visits[r].user /\ visit.joins = visits[r].joins
                  /\ visits[r].at \in {"probe", "insert"} /\ pages' = pages
                BY <4>1, Zenon DEF GoesOn
            <4> QED BY <1>1, <3>1, <4>1, <4>2
        <3>2. CASE j # r
            BY <1>1, <3>2
        <3> QED BY <3>1, <3>2
    <2>2. AbsentUser(visits[j].user) /\ \A q \in SlugRequests \ {j} :
            visits[q].at # "idle" => visits[q].user # visits[j].user
        BY <2>1 DEF ChoiceInv, JoinersAreNew
    <2>3. pages'[visits[j].user] = pages[visits[j].user]
        BY <2>1, <2>2 DEF PageStep, ChoiceInv, SlugsTypeOK
    <2> QED BY <1>2, <2>1, <2>2, <2>3 DEF AbsentUser
<1>7. PendingChoices'
    <2> SUFFICES ASSUME NEW c \in SlugRequests, visits'[c].at = "commit", visits'[c].chooses,
                        pages'[visits'[c].user] # NoHolder
                 PROVE  pages'[visits'[c].user].chosen
        BY DEF PendingChoices
    <2>1. CASE c = r
        <3>1. visit.at = "commit" /\ visit.chooses /\ pages'[visit.user] # NoHolder
            BY <1>1, <2>1
        <3>2. pages'[visit.user].chosen
            BY <3>1, Zenon DEF GoesOn
        <3> QED BY <1>1, <2>1, <3>2
    <2>2. CASE c # r
        <3>1. visits'[c] = visits[c] /\ visits[c].user \in Holders
            BY <1>1, <2>2 DEF ChoiceInv, SlugsTypeOK
        <3>2. pages[visits[c].user] # NoHolder => pages[visits[c].user].chosen
            BY <3>1 DEF ChoiceInv, PendingChoices
        <3>3. ~(visits[r].joins /\ visits[r].at = "insert" /\ visits[r].user = visits[c].user)
            BY <2>2, <3>1 DEF ChoiceInv, JoinersAreNew
        <3> QED BY <3>1, <3>2, <3>3 DEF PageStep
    <2> QED BY <2>1, <2>2
<1>8. ChosenSlugKept'
    <2> SUFFICES ASSUME NEW u \in confirmed, pages'[u] # NoHolder PROVE pages'[u].chosen
        BY DEF ChosenSlugKept, ChoiceInv
    <2>1. u \in Holders /\ (pages[u] # NoHolder => pages[u].chosen)
        BY DEF ChoiceInv, SlugsTypeOK, ChosenSlugKept
    <2>2. visits[r].joins /\ visits[r].at = "insert" => visits[r].user # u
        BY DEF ChoiceInv, JoinersAreNew, AbsentUser
    <2> QED BY <2>1, <2>2 DEF PageStep
<1> QED BY <1>3, <1>4, <1>5, <1>6, <1>7, <1>8 DEF ChoiceInv

\* Deletions, the backfill and other people's commits leave requests and choices alone.
LEMMA PagesAloneKeepChoices ==
    ASSUME ChoiceInv, SlugsTypeOK', UNCHANGED <<visits, enrolled, confirmed>>,
           pagesSaved' \in {pagesSaved, pages},
           \A u \in Holders :
               \/ pages'[u] \in {pages[u], NoHolder}
               \/ /\ pages[u] # NoHolder /\ pages'[u] # NoHolder
                  /\ pages'[u].chosen = pages[u].chosen /\ pages'[u].slug # NoSlug
    PROVE  ChoiceInv'
<1>1. KindsOK'
    BY DEF ChoiceInv, KindsOK
<1>2. ChoicesAreSlugs'
    BY DEF ChoiceInv, ChoicesAreSlugs
<1>3. NewIds'
    BY DEF ChoiceInv, NewIds, AbsentUser
<1>4. \A r \in SlugRequests : visits[r].at # "idle" => visits[r].user \in Holders
    BY DEF ChoiceInv, SlugsTypeOK
<1>5. JoinersAreNew'
    BY <1>4 DEF ChoiceInv, JoinersAreNew, AbsentUser
<1>6. PendingChoices'
    BY <1>4 DEF ChoiceInv, PendingChoices
<1>7. ChosenSlugKept'
    BY DEF ChoiceInv, ChosenSlugKept, SlugsTypeOK
<1> QED BY <1>1, <1>2, <1>3, <1>5, <1>6, <1>7 DEF ChoiceInv

\* A request that comes in is of one kind, and a signup brings an id of its own.
LEMMA ComingKeepsChoices ==
    ASSUME ChoiceInv, SlugsTypeOK', NEW r \in SlugRequests, NEW visit, Comes(r, visit),
           KindOK(visit), visit.at \notin {"idle", "commit"},
           UNCHANGED <<pages, pagesSaved, confirmed>>,
           \/ Enlisted(visit.user) /\ ~visit.joins /\ UNCHANGED enrolled
           \/ visit.user \in Holders \ enrolled /\ enrolled' = enrolled \union {visit.user}
    PROVE  ChoiceInv'
<1>1. /\ visits'[r] = visit
      /\ \A q \in SlugRequests \ {r} : visits'[q] = visits[q]
      /\ visits[r].at = "idle"
    BY DEF Comes, ChoiceInv, SlugsTypeOK
<1>2. KindsOK' /\ PendingChoices'
    BY <1>1 DEF ChoiceInv, KindsOK, PendingChoices
<1>3. ChoicesAreSlugs' /\ ChosenSlugKept'
    BY DEF ChoiceInv, ChoicesAreSlugs, ChosenSlugKept
<1>4. CASE Enlisted(visit.user) /\ ~visit.joins /\ UNCHANGED enrolled
    <2>1. \A u \in Holders : u \notin enrolled => u # visit.user
        BY <1>4 DEF ChoiceInv, NewIds, AbsentUser, Enlisted
    <2>2. NewIds'
        BY <1>1, <1>4, <2>1 DEF ChoiceInv, NewIds, AbsentUser
    <2>3. JoinersAreNew'
        <3> SUFFICES ASSUME NEW j \in SlugRequests, visits'[j].joins,
                            visits'[j].at \in {"probe", "insert"}
                     PROVE  /\ AbsentUser(visits'[j].user)
                            /\ \A q \in SlugRequests \ {j} :
                                visits'[q].at # "idle" => visits'[q].user # visits'[j].user
            BY DEF JoinersAreNew, AbsentUser
        <3>1. j # r /\ visits'[j] = visits[j]
            BY <1>1, <1>4
        <3>2. /\ AbsentUser(visits[j].user)
              /\ \A q \in SlugRequests \ {j} :
                    visits[q].at # "idle" => visits[q].user # visits[j].user
            BY <3>1 DEF ChoiceInv, JoinersAreNew
        <3>3. visits'[r].user # visits[j].user
            BY <1>1, <1>4, <3>2 DEF AbsentUser, Enlisted
        <3> QED BY <1>1, <3>1, <3>2, <3>3
    <2> QED BY <1>2, <1>3, <2>2, <2>3 DEF ChoiceInv
<1>5. CASE visit.user \in Holders \ enrolled /\ enrolled' = enrolled \union {visit.user}
    <2>1. AbsentUser(visit.user)
          /\ \A q \in SlugRequests : visits[q].at # "idle" => visits[q].user # visit.user
        BY <1>5 DEF ChoiceInv, NewIds
    <2>2. NewIds'
        BY <1>1, <1>5, <2>1 DEF ChoiceInv, NewIds, AbsentUser
    <2>3. JoinersAreNew'
        <3> SUFFICES ASSUME NEW j \in SlugRequests, visits'[j].joins,
                            visits'[j].at \in {"probe", "insert"}
                     PROVE  /\ AbsentUser(visits'[j].user)
                            /\ \A q \in SlugRequests \ {j} :
                                visits'[q].at # "idle" => visits'[q].user # visits'[j].user
            BY DEF JoinersAreNew, AbsentUser
        <3>1. CASE j = r
            BY <1>1, <2>1, <3>1
        <3>2. CASE j # r
            <4>1. visits'[j] = visits[j] /\ visits[j].at # "idle"
                BY <1>1, <3>2
            <4>2. /\ AbsentUser(visits[j].user)
                  /\ \A q \in SlugRequests \ {j} :
                        visits[q].at # "idle" => visits[q].user # visits[j].user
                BY <4>1 DEF ChoiceInv, JoinersAreNew
            <4>3. visits'[r].user # visits[j].user
                BY <1>1, <2>1, <4>1
            <4> QED BY <1>1, <4>1, <4>2, <4>3
        <3> QED BY <3>1, <3>2
    <2> QED BY <1>2, <1>3, <2>2, <2>3 DEF ChoiceInv
<1> QED BY <1>4, <1>5

\* A commit confirms a choice that is in the table, and saves the table.
LEMMA CommitKeepsChoices ==
    ASSUME ChoiceInv, SlugsTypeOK', NEW r \in SlugRequests, CommitSlug(r)
    PROVE  ChoiceInv'
<1>1. /\ visits[r].at = "commit" /\ visits[r].user \in Holders
      /\ visits'[r].at = "idle"
      /\ \A q \in SlugRequests \ {r} : visits'[q] = visits[q]
      /\ pagesSaved' = pages /\ UNCHANGED <<pages, enrolled>>
    BY NoVisitType DEF CommitSlug, Leaves, ChoiceInv, SlugsTypeOK
<1>2. \A u \in confirmed' : u \in confirmed \/ (u = visits[r].user /\ visits[r].chooses)
    BY DEF CommitSlug
<1>3. KindsOK' /\ PendingChoices'
    BY <1>1 DEF ChoiceInv, KindsOK, KindOK, PendingChoices
<1>4. ChoicesAreSlugs'
    BY <1>1 DEF ChoiceInv, ChoicesAreSlugs
<1>5. NewIds'
    <2> SUFFICES ASSUME NEW u \in Holders \ enrolled
                 PROVE  /\ pages[u] = NoHolder /\ u \notin confirmed'
                        /\ \A q \in SlugRequests : visits'[q].at # "idle" => visits'[q].user # u
        BY <1>1 DEF NewIds, AbsentUser
    <2>1. AbsentUser(u) /\ \A q \in SlugRequests : visits[q].at # "idle" => visits[q].user # u
        BY DEF ChoiceInv, NewIds
    <2>2. u # visits[r].user
        BY <1>1, <2>1
    <2>3. \A q \in SlugRequests : visits'[q].at # "idle" => visits'[q].user # u
        BY <1>1, <2>1
    <2> QED BY <1>2, <2>1, <2>2, <2>3 DEF AbsentUser
<1>6. JoinersAreNew'
    <2> SUFFICES ASSUME NEW j \in SlugRequests, visits'[j].joins, visits'[j].at \in {"probe", "insert"}
                 PROVE  /\ pages[visits'[j].user] = NoHolder /\ visits'[j].user \notin confirmed'
                        /\ \A q \in SlugRequests \ {j} :
                            visits'[q].at # "idle" => visits'[q].user # visits'[j].user
        BY <1>1 DEF JoinersAreNew, AbsentUser
    <2>1. j # r /\ visits'[j] = visits[j]
        BY <1>1
    <2>2. /\ AbsentUser(visits[j].user)
          /\ \A q \in SlugRequests \ {j} :
                visits[q].at # "idle" => visits[q].user # visits[j].user
        BY <2>1 DEF ChoiceInv, JoinersAreNew
    <2>3. visits[j].user # visits[r].user
        BY <1>1, <2>1, <2>2
    <2>4. \A q \in SlugRequests \ {j} : visits'[q].at # "idle" => visits'[q].user # visits[j].user
        BY <1>1, <2>2
    <2> QED BY <1>2, <2>1, <2>2, <2>3, <2>4 DEF AbsentUser
<1>7. ChosenSlugKept'
    <2> SUFFICES ASSUME NEW u \in confirmed', pages[u] # NoHolder PROVE pages[u].chosen
        BY <1>1 DEF ChosenSlugKept
    <2>1. CASE u \in confirmed
        BY <2>1 DEF ChoiceInv, ChosenSlugKept
    <2>2. CASE u = visits[r].user /\ visits[r].chooses
        BY <1>1, <2>2 DEF ChoiceInv, PendingChoices
    <2> QED BY <1>2, <2>1, <2>2
<1> QED BY <1>3, <1>4, <1>5, <1>6, <1>7 DEF ChoiceInv

\* A crash takes the requests along, and what is committed was all right.
LEMMA DeathKeepsChoices ==
    ASSUME ChoiceInv, SlugsTypeOK', ServerDies
    PROVE  ChoiceInv'
<1>1. /\ \A r \in SlugRequests : visits'[r].at = "idle"
      /\ pages' = pagesSaved /\ UNCHANGED <<pagesSaved, enrolled, confirmed>>
    BY NoVisitType DEF ServerDies
<1>2. KindsOK' /\ JoinersAreNew' /\ PendingChoices'
    BY <1>1 DEF KindsOK, KindOK, JoinersAreNew, PendingChoices
<1>3. NewIds'
    BY <1>1 DEF ChoiceInv, NewIds, AbsentUser
<1>4. ChoicesAreSlugs' /\ ChosenSlugKept'
    BY <1>1 DEF ChoiceInv, ChoicesAreSlugs, ChosenSlugKept
<1> QED BY <1>2, <1>3, <1>4 DEF ChoiceInv

\* A write by a request on the row of its user.
LEMMA WritesKeepChoices ==
    ASSUME ChoiceInv, SlugsTypeOK', NEW r \in SlugRequests, NEW page \in Page, Writes(r, page),
           visits[r].at \in {"insert", "fill", "set"}, page.slug # NoSlug,
           LET u == visits[r].user IN
               IF pages[u] = NoHolder THEN visits[r].joins /\ visits[r].at = "insert"
               ELSE pages[u].chosen => page.chosen,
           visits[r].chooses => page.chosen
    PROVE  ChoiceInv'
<1> DEFINE done == [visits[r] EXCEPT !.at = "commit"]
<1>t. SlugsTypeOK /\ visits[r] \in Visit /\ visits[r].user \in Holders
    BY DEF ChoiceInv, SlugsTypeOK
<1>1. UNCHANGED <<pagesSaved, enrolled, confirmed>>
    BY DEF Writes
<1>2. CASE Leaves(r) /\ UNCHANGED pages
    <2>1. GoesOn(r, NoVisit)
        BY <1>2, NoVisitType DEF Leaves, GoesOn, KindOK
    <2>2. PageStep(r)
        BY <1>2 DEF PageStep
    <2> QED BY <1>1, <2>1, <2>2, GoingOnKeepsChoices
<1>3. CASE pages' = [pages EXCEPT ![visits[r].user] = page] /\ MovesTo(r, "commit")
    <2>1. /\ visits' = [visits EXCEPT ![r] = done]
          /\ done.at = "commit" /\ done.user = visits[r].user /\ done.joins = visits[r].joins
          /\ done.chooses = visits[r].chooses
        BY <1>t, <1>3 DEF MovesTo, SlugsTypeOK, Visit
    <2>2. /\ pages'[visits[r].user] = page
          /\ \A u \in Holders : u # visits[r].user => pages'[u] = pages[u]
        BY <1>t, <1>3 DEF SlugsTypeOK
    <2> HIDE DEF done
    <2>3. KindOK(done)
        BY <2>1 DEF KindOK
    <2>4. done.chooses => pages'[done.user].chosen
        BY <2>1, <2>2
    <2>5. GoesOn(r, done)
        BY <2>1, <2>3, <2>4 DEF GoesOn
    <2>6. PageStep(r)
        BY <2>2 DEF PageStep
    <2> QED BY <1>1, <2>5, <2>6, GoingOnKeepsChoices
<1> QED BY <1>2, <1>3 DEF Writes

\* A step that moves a request on and writes nothing.
LEMMA MovingKeepsChoices ==
    ASSUME ChoiceInv, SlugsTypeOK', NEW r \in SlugRequests, Unwritten, visits[r].at # "idle",
           NEW visit \in Visit, visits' = [visits EXCEPT ![r] = visit],
           visit.user = visits[r].user, visit.joins = visits[r].joins, KindOK(visit),
           visit.joins /\ visit.at \in {"probe", "insert"} => visits[r].at \in {"probe", "insert"},
           visit.at = "commit" /\ visit.chooses => pages[visit.user] = NoHolder
    PROVE  ChoiceInv'
<1>1. GoesOn(r, visit)
    BY DEF GoesOn, Unwritten
<1>2. PageStep(r) /\ UNCHANGED <<pagesSaved, enrolled, confirmed>>
    BY DEF PageStep, Unwritten
<1> QED BY <1>1, <1>2, GoingOnKeepsChoices

LEMMA LeavingKeepsChoices ==
    ASSUME ChoiceInv, SlugsTypeOK', NEW r \in SlugRequests, Leaves(r),
           UNCHANGED <<pages, pagesSaved, enrolled, confirmed>>
    PROVE  ChoiceInv'
<1>1. GoesOn(r, NoVisit)
    BY NoVisitType DEF Leaves, GoesOn, KindOK
<1>2. PageStep(r)
    BY DEF PageStep
<1> QED BY <1>1, <1>2, GoingOnKeepsChoices

LEMMA ChoiceInvNext == ChoiceInv /\ [SlugsNext]_slugVars => ChoiceInv'
<1> SUFFICES ASSUME ChoiceInv, [SlugsNext]_slugVars PROVE ChoiceInv'
    OBVIOUS
<1>t. SlugsTypeOK /\ SlugsTypeOK'
    BY SlugsTypeNext DEF ChoiceInv
<1>v. \A r \in SlugRequests : visits[r] \in Visit /\ KindOK(visits[r])
        /\ (visits[r].at # "idle" => visits[r].user \in Holders)
    BY <1>t DEF ChoiceInv, KindsOK, SlugsTypeOK
<1>1. ASSUME NEW u \in Holders, BackfillUser(u) PROVE ChoiceInv'
    <2>1. PICK s \in SlugNames :
            IF Bearers(s) = {}
            THEN pages' = [pages EXCEPT ![u].slug = s] /\ UNCHANGED serving
            ELSE serving' = TRUE /\ UNCHANGED pages
        BY <1>1 DEF BackfillUser
    <2>2. pages[u] \in Page /\ UNCHANGED <<pagesSaved, visits, enrolled, confirmed>>
        BY <1>1, <1>t DEF BackfillUser, Enlisted, SlugsTypeOK
    <2>3. CASE Bearers(s) = {}
        <3> DEFINE page == [pages[u] EXCEPT !.slug = s]
        <3>1. pages' = [pages EXCEPT ![u] = page] /\ page \in Page /\ page.slug # NoSlug
              /\ page.chosen = pages[u].chosen
            BY <1>t, <2>1, <2>2, <2>3 DEF SlugsTypeOK, Page
        <3> HIDE DEF page
        <3>2. \A v \in Holders : pages'[v] = pages[v] \/ (v = u /\ pages'[v] = page)
            BY <1>t, <3>1 DEF SlugsTypeOK
        <3>3. page # NoHolder /\ pages[u] # NoHolder
            BY <2>2, <3>1
        <3> QED BY <1>t, <2>2, <3>1, <3>2, <3>3, PagesAloneKeepChoices
    <2>4. CASE Bearers(s) # {}
        BY <1>t, <2>1, <2>2, <2>4, PagesAloneKeepChoices
    <2> QED BY <2>3, <2>4
<1>2. ASSUME NEW u \in Holders, HolderDeleted(u) PROVE ChoiceInv'
    <2>1. /\ UNCHANGED <<pagesSaved, visits, enrolled, confirmed>>
          /\ \A v \in Holders : pages'[v] \in {pages[v], NoHolder}
        BY <1>t, <1>2 DEF HolderDeleted, SlugsTypeOK
    <2> QED BY <1>t, <2>1, PagesAloneKeepChoices
<1>3. ASSUME BackfillEnds \/ BackfillFails \/ CommitBySomeone \/ UNCHANGED slugVars PROVE ChoiceInv'
    <2>1. UNCHANGED <<pages, visits, enrolled, confirmed>> /\ pagesSaved' \in {pagesSaved, pages}
        BY <1>3 DEF BackfillEnds, BackfillFails, CommitBySomeone, slugVars
    <2> QED BY <1>t, <2>1, PagesAloneKeepChoices
<1>4. ASSUME NEW r \in SlugRequests, NEW u \in Holders, SlugSignup(r, u) PROVE ChoiceInv'
    <2> DEFINE visit == [NoVisit EXCEPT !.at = "probe", !.user = u, !.joins = TRUE]
    <2>1. visit.at = "probe" /\ visit.user = u /\ visit.joins = TRUE /\ visit.chooses = FALSE
        BY NoVisitType DEF Visit
    <2>2. Comes(r, visit) /\ UNCHANGED <<pages, pagesSaved, confirmed>>
          /\ u \notin enrolled /\ enrolled' = enrolled \union {u}
        BY <1>4 DEF SlugSignup
    <2> HIDE DEF visit
    <2>3. KindOK(visit)
        BY <2>1 DEF KindOK
    <2> QED BY <1>t, <2>1, <2>2, <2>3, ComingKeepsChoices
<1>5. ASSUME NEW r \in SlugRequests, NEW u \in Holders, OpenSettings(r, u) PROVE ChoiceInv'
    <2> DEFINE visit == [NoVisit EXCEPT !.at = "read", !.user = u]
    <2>1. visit.at = "read" /\ visit.user = u /\ visit.joins = FALSE /\ visit.chooses = FALSE
        BY NoVisitType DEF Visit
    <2>2. Comes(r, visit) /\ UNCHANGED <<pages, pagesSaved, confirmed, enrolled>> /\ Enlisted(u)
        BY <1>5 DEF OpenSettings
    <2> HIDE DEF visit
    <2>3. KindOK(visit)
        BY <2>1 DEF KindOK
    <2> QED BY <1>t, <2>1, <2>2, <2>3, ComingKeepsChoices
<1>6. ASSUME NEW r \in SlugRequests, NEW u \in Holders, NEW s \in SlugNames, ChooseSlug(r, u, s)
      PROVE  ChoiceInv'
    <2> DEFINE visit == [NoVisit EXCEPT !.at = "check", !.user = u, !.slug = s, !.chooses = TRUE]
    <2>1. visit.at = "check" /\ visit.user = u /\ visit.joins = FALSE /\ visit.chooses = TRUE
        BY NoVisitType DEF Visit
    <2>2. Comes(r, visit) /\ UNCHANGED <<pages, pagesSaved, confirmed, enrolled>> /\ Enlisted(u)
        BY <1>6 DEF ChooseSlug
    <2> HIDE DEF visit
    <2>3. KindOK(visit)
        BY <2>1 DEF KindOK
    <2> QED BY <1>t, <2>1, <2>2, <2>3, ComingKeepsChoices
<1>7. ASSUME NEW r \in SlugRequests, NEW stage \in {"probe", "set"}, MovesTo(r, stage), Unwritten,
             stage = "probe" => visits[r].at = "read", stage = "set" => visits[r].at = "check"
      PROVE  ChoiceInv'
    <2> DEFINE moved == [visits[r] EXCEPT !.at = stage]
    <2>1. /\ visits' = [visits EXCEPT ![r] = moved]
          /\ moved \in Visit /\ moved.at = stage /\ moved.user = visits[r].user
          /\ moved.joins = visits[r].joins /\ moved.chooses = visits[r].chooses
        BY <1>t, <1>v, <1>7 DEF MovesTo, SlugsTypeOK, Visit, SlugStages
    <2> HIDE DEF moved
    <2>2. KindOK(moved) /\ ~moved.joins
        BY <1>v, <1>7, <2>1 DEF KindOK
    <2>3. visits[r].at # "idle" /\ moved.at # "commit"
        BY <1>7, <2>1
    <2> QED BY <1>t, <1>7, <2>1, <2>2, <2>3, MovingKeepsChoices
<1>8. ASSUME NEW r \in SlugRequests, ReadSlug(r) PROVE ChoiceInv'
    <2>1. CASE Leaves(r)
        BY <1>t, <1>8, <2>1, LeavingKeepsChoices DEF ReadSlug, Unwritten
    <2>2. CASE MovesTo(r, "probe")
        BY <1>7, <1>8, <2>2 DEF ReadSlug
    <2> QED BY <1>8, <2>1, <2>2 DEF ReadSlug
<1>9. ASSUME NEW r \in SlugRequests, CheckSlug(r) PROVE ChoiceInv'
    <2>1. CASE Leaves(r)
        BY <1>t, <1>9, <2>1, LeavingKeepsChoices DEF CheckSlug, Unwritten
    <2>2. CASE MovesTo(r, "set")
        BY <1>7, <1>9, <2>2 DEF CheckSlug
    <2> QED BY <1>9, <2>1, <2>2 DEF CheckSlug
<1>10. ASSUME NEW r \in SlugRequests, VisitFails(r) PROVE ChoiceInv'
    BY <1>t, <1>10, LeavingKeepsChoices DEF VisitFails
<1>11. ASSUME NEW r \in SlugRequests, CommitSlug(r) PROVE ChoiceInv'
    BY <1>t, <1>11, CommitKeepsChoices
<1>12. ASSUME ServerDies PROVE ChoiceInv'
    BY <1>t, <1>12, DeathKeepsChoices
<1>13. ASSUME NEW r \in SlugRequests, Probe(r) PROVE ChoiceInv'
    <2>1. visits[r].at = "probe" /\ Unwritten
        BY <1>13 DEF Probe
    <2>2. \/ \E n : visits' = [visits EXCEPT ![r].tried = n]
          \/ \E s : visits' = [visits EXCEPT ![r].at = IF visits[r].joins THEN "insert" ELSE "fill",
                                              ![r].slug = s]
        BY <1>13, Zenon DEF Probe
    <2>3. /\ visits' = [visits EXCEPT ![r] = visits'[r]] /\ visits'[r] \in Visit
          /\ visits'[r].user = visits[r].user /\ visits'[r].joins = visits[r].joins
          /\ visits'[r].chooses = visits[r].chooses
          /\ visits'[r].at \in {"probe", "insert", "fill"}
          /\ visits'[r].at = "insert" => visits[r].joins
          /\ visits'[r].at = "fill" => ~visits[r].joins
        <3>1. visits' \in [SlugRequests -> Visit] /\ visits'[r] \in Visit
            BY <1>t DEF SlugsTypeOK
        <3>2. visits' = [visits EXCEPT ![r] = visits'[r]]
            BY <1>t, <2>2, <3>1 DEF SlugsTypeOK
        <3>3. /\ visits'[r].user = visits[r].user /\ visits'[r].joins = visits[r].joins
              /\ visits'[r].chooses = visits[r].chooses
            BY <1>t, <1>v, <2>2 DEF SlugsTypeOK, Visit
        <3>4. visits'[r].at \in {"probe", IF visits[r].joins THEN "insert" ELSE "fill"}
            BY <1>t, <1>v, <2>1, <2>2 DEF SlugsTypeOK, Visit
        <3> QED BY <3>1, <3>2, <3>3, <3>4
    <2>4. KindOK(visits'[r])
        BY <1>v, <2>1, <2>3 DEF KindOK
    <2> QED BY <1>t, <2>1, <2>3, <2>4, MovingKeepsChoices
<1>14. ASSUME NEW r \in SlugRequests, InsertWithSlug(r) PROVE ChoiceInv'
    <2> DEFINE page == [slug |-> visits[r].slug, chosen |-> FALSE]
    <2>1. /\ visits[r].at = "insert" /\ Writes(r, page)
          /\ page \in Page /\ page.slug # NoSlug /\ page.chosen = FALSE
        BY <1>t, <1>14 DEF InsertWithSlug, SlugsTypeOK, Page
    <2>2. visits[r].joins /\ ~visits[r].chooses
        BY <1>v, <2>1 DEF KindOK
    <2>3. pages[visits[r].user] = NoHolder
        BY <2>1, <2>2 DEF ChoiceInv, JoinersAreNew, AbsentUser
    <2> HIDE DEF page
    <2> QED BY <1>t, <2>1, <2>2, <2>3, WritesKeepChoices
<1>15. ASSUME NEW r \in SlugRequests, MovesTo(r, "commit"), Unwritten,
              visits[r].at \in {"fill", "set"},
              visits[r].chooses => pages[visits[r].user] = NoHolder
       PROVE  ChoiceInv'
    <2> DEFINE moved == [visits[r] EXCEPT !.at = "commit"]
    <2>1. /\ visits' = [visits EXCEPT ![r] = moved]
          /\ moved \in Visit /\ moved.at = "commit" /\ moved.user = visits[r].user
          /\ moved.joins = visits[r].joins /\ moved.chooses = visits[r].chooses
        BY <1>t, <1>v, <1>15 DEF MovesTo, SlugsTypeOK, Visit, SlugStages
    <2> HIDE DEF moved
    <2>2. KindOK(moved) /\ visits[r].at # "idle"
        BY <1>15, <2>1 DEF KindOK
    <2>3. moved.chooses => pages[moved.user] = NoHolder
        BY <1>15, <2>1
    <2> QED BY <1>t, <1>15, <2>1, <2>2, <2>3, MovingKeepsChoices
<1>16. ASSUME NEW r \in SlugRequests, FillSlug(r) PROVE ChoiceInv'
    <2> DEFINE page == [slug |-> visits[r].slug, chosen |-> FALSE]
    <2>1. /\ visits[r].at = "fill" /\ visits[r].user \in Holders
          /\ page \in Page /\ page.slug # NoSlug /\ page.chosen = FALSE
        BY <1>t, <1>16 DEF FillSlug, SlugsTypeOK, Page
    <2>2. ~visits[r].chooses
        BY <1>v, <2>1 DEF KindOK
    <2>3. CASE Writes(r, page) /\ pages[visits[r].user] # NoHolder /\ pages[visits[r].user].slug = NoSlug
        <3>1. ~pages[visits[r].user].chosen
            BY <2>1, <2>3 DEF ChoiceInv, ChoicesAreSlugs
        <3> HIDE DEF page
        <3> QED BY <1>t, <2>1, <2>2, <2>3, <3>1, WritesKeepChoices
    <2>4. CASE MovesTo(r, "commit") /\ Unwritten
        BY <1>15, <2>1, <2>2, <2>4
    <2> QED BY <1>16, <2>3, <2>4 DEF FillSlug, Enlisted
<1>17. ASSUME NEW r \in SlugRequests, SetSlug(r) PROVE ChoiceInv'
    <2> DEFINE page == [slug |-> visits[r].slug, chosen |-> TRUE]
    <2>1. /\ visits[r].at = "set" /\ visits[r].user \in Holders
          /\ page \in Page /\ page.slug # NoSlug /\ page.chosen = TRUE
        BY <1>t, <1>17 DEF SetSlug, SlugsTypeOK, Page
    <2>2. CASE Writes(r, page) /\ pages[visits[r].user] # NoHolder
        <3> HIDE DEF page
        <3> QED BY <1>t, <2>1, <2>2, WritesKeepChoices
    <2>3. CASE MovesTo(r, "commit") /\ Unwritten /\ pages[visits[r].user] = NoHolder
        BY <1>15, <2>1, <2>3
    <2> QED BY <1>17, <2>2, <2>3 DEF SetSlug, Enlisted
<1> QED
    BY <1>1, <1>2, <1>3, <1>4, <1>5, <1>6, <1>8, <1>9, <1>10, <1>11, <1>12, <1>13, <1>14,
       <1>16, <1>17
    DEF SlugsNext

\* Nothing takes back a choice that was confirmed: not a page load, a signup or a backfill
\* that began before it, and not a crash after it.
THEOREM ChoicesStay == SlugsSpec => []ChosenSlugKept
<1>1. ChoiceInv => ChosenSlugKept
    BY DEF ChoiceInv
<1> QED BY <1>1, ChoiceInvInit, ChoiceInvNext, PTL DEF SlugsSpec

=============================================================================
