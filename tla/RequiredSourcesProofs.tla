------------------------ MODULE RequiredSourcesProofs ------------------------
(* Theorems about the searches of a run and what it does when a required source
   fails, for any number of rows, any order of sources, any failures and pages
   the sites may answer with and any number of runs.                         *)
EXTENDS RequiredSources, Integers, TLAPS

-----------------------------------------------------------------------------
(* The search of one company in one source. *)

SourceNames == Required \cup {"bicotender"}
Details == TransientDetails \cup {"none", "other"}
Classes == {"source_error", "review", "blocked_public_limit", "no_signal", "visible_items"}
LookStatuses == {"pending", "success", "not_found", "mismatch", "guest", "auth_failed", "blocked",
                 "not_configured", "source_issue", "partial_success", "request_error"}
                \cup HttpErrors
                \cup {"bot_gate", "rate_limited", "cooldown_active", "blocked_no_proxy"}

TenderType == [batch : Nat, errors : BOOLEAN, rows : BOOLEAN, classes : SUBSET Classes]

LookType ==
  [src : SourceNames \cup {"none"},
   pc : {"idle", "probe", "login", "verify", "listing", "entity", "again", "tenders",
         "done", "raised"},
   tries : Nat, allowed : Nat, refresh : BOOLEAN,
   status : LookStatuses, detail : Details,
   items : {"open", "masked", "none"},
   phone : {"open", "masked", "absent", "blocked", "unknown"},
   read : {"none", "guest", "authorized", "unknown"}, lapsed : BOOLEAN, tender : TenderType]

\* What is known of a search on its way: nothing of a contact before it is done;
\* only rusprofile has a session, and when it looks at a card again the session was
\* found good for it, or has ended since; an error of the tender list is in the
\* classes its batches are combined from.
LookOK ==
  /\ look.pc # "done" => look.items = "none"
  /\ look.pc \in {"probe", "login", "verify", "again"} => look.src = "rusprofile"
  /\ look.pc = "tenders" <=> (look.src = "bicotender" /\ look.pc # "done")
  /\ look.pc = "again" => look.refresh /\ (Authorized(auth.jar) \/ look.lapsed)
  /\ look.pc = "tenders" /\ look.tender.errors =>
       look.tender.batch # 0 /\ "source_error" \in look.tender.classes

LookupInv == LookupTypeOK /\ look \in LookType /\ LookOK /\ LookupIsHonest

LEMMA FailureType ==
  ASSUME NEW f \in FailuresSeen
  PROVE  /\ f.status \in HttpErrors \cup {"request_error", "bot_gate", "rate_limited",
                                          "cooldown_active", "blocked_no_proxy"}
         /\ f.detail \in Details
<1>1. f \in Failures
  BY LookupAssumption
<1> QED
  BY <1>1 DEF Failures, Failure, Details

LEMMA AttemptsType ==
  ASSUME NEW s, NEW f
  PROVE  Attempts(s, f) \in 1..3
BY DEF Attempts

LEMMA PageType ==
  ASSUME NEW p \in TenderPagesSeen
  PROVE  p \in Pages /\ Class(p) \in Classes /\ HasError(p) \in BOOLEAN /\ p.rows \in BOOLEAN
<1>1. p \in Pages
  BY LookupAssumption
<1>2. Class(p) \in Classes
  BY DEF Class, Classes
<1> QED
  BY <1>1, <1>2 DEF Pages, HasError

LEMMA FreshLook ==
  ASSUME NEW s \in SourceNames, NEW place \in {"probe", "listing", "tenders"}
  PROVE  /\ NoLook \in LookType
         /\ [NoLook EXCEPT !.src = s] \in LookType
         /\ [NoLook EXCEPT !.src = s, !.pc = place] \in LookType
<1>1. NoLook \in LookType
  BY DEF NoLook, LookType, NewSearch, TenderType, SourceNames, Details, LookStatuses, Classes
<1> QED
  BY <1>1 DEF LookType

\* An end of a search that claims no more than was seen.
HonestEnd(l) ==
  /\ l \in LookType /\ l.pc = "done"
  /\ l.src = "rusprofile" /\ l.status = "success" => l.read = "authorized"
  /\ l.src = "rusprofile" /\ l.status = "guest" =>
       l.read = "authorized" \/ (l.refresh /\ (l.lapsed \/ l.read = "unknown"))
  /\ \/ l.status \in {"success", "not_found", "mismatch", "guest"}
     \/ l.phone \in {"blocked", "unknown"} /\ l.items = "none"
  /\ l.src # "bicotender" \/ l.status # "success"

LEMMA DoneIsHonest ==
  ASSUME HonestEnd(look')
  PROVE  (LookOK /\ LookupIsHonest)'
<1>1. \A s : ~ FailFast(s, "success") /\ ~ FailFast(s, "not_found") /\ ~ FailFast(s, "mismatch")
  BY DEF FailFast, Operational
<1> QED
  BY <1>1 DEF LookOK, LookupIsHonest, CardsAreAuthorized, GuestHasCause, FailureSaysNothing,
              TendersAreRead, Found, HonestEnd

\* A search that ends blocked shows nothing of the company.
LEMMA BlockedLook ==
  ASSUME NEW l \in LookType, NEW status \in LookStatuses, NEW detail \in Details
  PROVE  /\ Blocked(l, status, detail) \in LookType
         /\ LET b == Blocked(l, status, detail) IN
              /\ b.src = l.src /\ b.pc = "done" /\ b.status = status /\ b.phone = "blocked"
              /\ b.items = l.items /\ b.tender = l.tender
         /\ l.items = "none" /\ status \notin {"success", "guest"} =>
              HonestEnd(Blocked(l, status, detail))
BY DEF Blocked, LookType, HonestEnd

LEMMA RefusedType == "auth_failed" \in LookStatuses /\ "other" \in Details
BY DEF LookStatuses, Details

\* A look that is given a status, items and a phone is still one, and is done.
GivenEnd(l, status, kept, phone) ==
  [l EXCEPT !.pc = "done", !.status = status, !.items = kept, !.phone = phone]
IsEndOf(e, l, status) ==
  /\ e \in LookType /\ e.src = l.src /\ e.pc = "done" /\ e.status = status
  /\ e.read = l.read /\ e.refresh = l.refresh /\ e.lapsed = l.lapsed
  /\ e.tender = l.tender

LEMMA EndsOn ==
  ASSUME NEW l \in LookType, NEW status \in LookStatuses, NEW kept \in {"open", "masked", "none"},
         NEW phone \in {"open", "masked", "absent", "blocked"}
  PROVE  IsEndOf(GivenEnd(l, status, kept, phone), l, status)
BY DEF LookType, GivenEnd, IsEndOf

LEMMA EndedLook ==
  ASSUME NEW l \in LookType, NEW status \in {"success", "not_found", "mismatch", "guest"},
         NEW items \in {"open", "masked", "none"}, NEW explicit \in {"unknown", "masked", "absent"}
  PROVE  /\ Ended(l, status, items, explicit) \in LookType
         /\ LET e == Ended(l, status, items, explicit) IN
              /\ e.src = l.src /\ e.pc = "done" /\ e.status = status
              /\ e.read = l.read /\ e.refresh = l.refresh /\ e.lapsed = l.lapsed
              /\ e.tender = l.tender
         /\ /\ l.src = "rusprofile" /\ status = "success" => l.read = "authorized"
            /\ l.src = "rusprofile" /\ status = "guest" =>
                 l.read = "authorized" \/ (l.refresh /\ (l.lapsed \/ l.read = "unknown"))
            /\ l.src = "bicotender" => status # "success"
            => HonestEnd(Ended(l, status, items, explicit))
<1>1. Finalized(status, items, explicit) \in {"open", "masked", "absent", "blocked"}
  BY DEF Finalized
<1>2. status \in LookStatuses
  BY DEF LookStatuses
<1> DEFINE e == Ended(l, status, items, explicit)
<1>3. /\ e \in LookType /\ e.src = l.src /\ e.pc = "done" /\ e.status = status
      /\ e.read = l.read /\ e.refresh = l.refresh /\ e.lapsed = l.lapsed
      /\ e.tender = l.tender
  <2> DEFINE kept == IF status \in {"mismatch", "not_found"} THEN "none" ELSE items
             phone == Finalized(status, items, explicit)
  <2>1. kept \in {"open", "masked", "none"} /\ phone \in {"open", "masked", "absent", "blocked"}
    BY <1>1
  <2>2. e = GivenEnd(l, status, kept, phone)
    BY Zenon DEF Ended, GivenEnd
  <2> HIDE DEF kept, phone, e
  <2>3. IsEndOf(e, l, status)
    BY <1>2, <2>1, <2>2, EndsOn
  <2> QED
    BY <2>3 DEF IsEndOf
<1> HIDE DEF e
<1>4. /\ l.src = "rusprofile" /\ status = "success" => l.read = "authorized"
      /\ l.src = "rusprofile" /\ status = "guest" =>
           l.read = "authorized" \/ (l.refresh /\ (l.lapsed \/ l.read = "unknown"))
      /\ l.src = "bicotender" => status # "success"
      => HonestEnd(e)
  BY <1>3 DEF HonestEnd
<1> QED
  BY <1>3, <1>4 DEF e

LEMMA AgainLook ==
  ASSUME NEW l \in LookType, NEW n \in Nat, NEW m \in Nat
  PROVE  LET again == [l EXCEPT !.tries = n, !.allowed = m] IN
           /\ again \in LookType
           /\ again.pc = l.pc /\ again.src = l.src /\ again.items = l.items
           /\ again.refresh = l.refresh /\ again.lapsed = l.lapsed /\ again.tender = l.tender
BY DEF LookType

\* A request that fails ends the search blocked or is made again.
LEMMA AfterFailureLook ==
  ASSUME LookupInv, look.pc \in {"listing", "entity", "again"}, NEW f \in FailuresSeen
  PROVE  /\ AfterFailure(f) \in LookType
         /\ AfterFailure(f).src = look.src
         /\ AfterFailure(f).items = "none"
         /\ \/ /\ AfterFailure(f).pc = look.pc /\ AfterFailure(f).refresh = look.refresh
               /\ AfterFailure(f).lapsed = look.lapsed /\ AfterFailure(f).tender = look.tender
            \/ HonestEnd(AfterFailure(f))
<1> DEFINE n == Attempts(look.src, f)
           allowed == IF n > look.allowed THEN n ELSE look.allowed
           again == [look EXCEPT !.tries = @ + 1, !.allowed = allowed]
<1>0. look \in LookType /\ look.items = "none" /\ look.src \in SourceNames \cup {"none"}
  BY DEF LookupInv, LookOK, LookType
<1>1. n \in Nat /\ look.allowed \in Nat /\ look.tries \in Nat
  BY <1>0, AttemptsType DEF LookType
<1>2. again \in LookType /\ again.pc = look.pc /\ again.src = look.src /\ again.items = "none"
      /\ again.refresh = look.refresh /\ again.lapsed = look.lapsed /\ again.tender = look.tender
  <2>1. allowed \in Nat
    BY <1>1
  <2> HIDE DEF n, allowed
  <2>2. look.tries + 1 \in Nat
    BY <1>1
  <2> QED
    BY <1>0, <2>1, <2>2, AgainLook
<1>3. PICK status : Failed(look, f) = Blocked(look, status, f.detail)
                    /\ status \in {"blocked", f.status}
  BY DEF Failed
<1>4. status \in LookStatuses /\ status \notin {"success", "guest"} /\ f.detail \in Details
  BY <1>3, FailureType DEF LookStatuses, HttpErrors
<1>5. AfterFailure(f) = again \/ AfterFailure(f) = Failed(look, f)
  BY DEF AfterFailure
<1>6. CASE AfterFailure(f) = again
  BY <1>2, <1>6
<1>7. CASE AfterFailure(f) = Failed(look, f)
  BY <1>0, <1>3, <1>4, <1>7, BlockedLook
<1> QED
  BY <1>5, <1>6, <1>7

\* Nothing is claimed of a search that goes on.
LEMMA GoingOnIsHonest ==
  ASSUME look'.pc # "done"
  PROVE  LookupIsHonest'
BY DEF LookupIsHonest, CardsAreAuthorized, GuestHasCause, FailureSaysNothing, TendersAreRead, Found

\* A search begins, or is over at once when the session was refused before.
LEMMA BeginLookupStep ==
  ASSUME LookupInv, NEW s \in SourceNames, BeginLookup(s)
  PROVE  LookupInv' /\ look'.src = s /\ look'.pc # "idle"
<1> DEFINE fresh == [NoLook EXCEPT !.src = s]
           blocked == Blocked(fresh, "auth_failed", "other")
<1>1. LookupTypeOK' /\ look' \in LookType
  <2>1. blocked \in LookType
    BY FreshLook, BlockedLook DEF LookStatuses, BlockedStatuses, Details
  <2>2. FirstPlace(s) \in {"probe", "listing", "tenders"}
    BY DEF FirstPlace
  <2>3. look' \in LookType
    BY <2>1, <2>2, FreshLook DEF BeginLookup
  <2> QED
    BY <2>3 DEF BeginLookup, LookupInv, LookupTypeOK, LookType
<1>2. CASE s = "rusprofile" /\ auth.checked /\ ~auth.ok
  <2>1. /\ look'.src = s /\ look'.pc = "done" /\ look'.status = "auth_failed"
        /\ look'.phone = "blocked" /\ look'.items = "none"
    <3>1. fresh.src = s /\ fresh.items = "none" /\ fresh \in LookType
      BY FreshLook DEF NoLook
    <3>2. look' = blocked
      BY <1>2 DEF BeginLookup
    <3> HIDE DEF fresh
    <3> QED
      BY <3>1, <3>2, BlockedLook, RefusedType
  <2>2. (LookOK /\ LookupIsHonest)'
    BY <1>1, <2>1, DoneIsHonest DEF HonestEnd
  <2> QED
    BY <1>1, <2>1, <2>2 DEF LookupInv
<1>3. CASE ~(s = "rusprofile" /\ auth.checked /\ ~auth.ok)
  <2>1. /\ look'.src = s /\ look'.pc = FirstPlace(s) /\ look'.items = "none"
        /\ look'.tender.errors = FALSE
    BY <1>3 DEF BeginLookup, NoLook, NewSearch
  <2>2. /\ FirstPlace(s) \in {"probe", "listing", "tenders"}
        /\ FirstPlace(s) = "probe" => s = "rusprofile"
        /\ FirstPlace(s) = "tenders" <=> s = "bicotender"
    BY DEF FirstPlace
  <2>3. LookOK' /\ LookupIsHonest'
    BY <2>1, <2>2, GoingOnIsHonest DEF LookOK
  <2> QED
    BY <1>1, <2>1, <2>2, <2>3 DEF LookupInv
<1> QED
  BY <1>2, <1>3

\* The search goes on at another place of the same source, which is not the
\* tender list.
LEMMA PlaceStep ==
  ASSUME LookupInv, look' \in LookType, look'.src = look.src, look'.items = look.items,
         look.pc \notin {"idle", "done", "tenders"},
         look'.pc \in {"probe", "login", "verify", "listing", "entity", "again", "raised"},
         look'.pc \in {"probe", "login", "verify", "again"} => look.src = "rusprofile",
         look'.pc = "again" => look'.refresh /\ (Authorized(auth.jar)' \/ look'.lapsed)
  PROVE  (LookOK /\ LookupIsHonest)'
BY GoingOnIsHonest DEF LookupInv, LookOK

LEMMA ToLook ==
  ASSUME LookupInv, NEW place \in {"probe", "login", "verify", "listing", "entity", "again"}
  PROVE  /\ To(look, place) \in LookType
         /\ To(look, place).src = look.src /\ To(look, place).items = look.items
         /\ To(look, place).pc = place /\ To(look, place).refresh = look.refresh
         /\ To(look, place).lapsed = look.lapsed
BY DEF To, LookupInv, LookType

LEMMA SignedInStep ==
  ASSUME LookupInv, look.pc \in {"probe", "verify"},
         NEW a \in [checked : BOOLEAN, ok : BOOLEAN, loaded : BOOLEAN,
                    jar : {NoSession} \cup Sessions],
         Authorized(a.jar), SignedIn(a), UNCHANGED alive
  PROVE  LookupInv' /\ look'.src = look.src /\ look'.pc \notin {"idle", "done"}
<1>1. Place \in {"listing", "again"} /\ (Place = "again" => look.refresh)
  BY DEF Place
<1>2. To(look, Place) \in LookType /\ To(look, Place).pc = Place
      /\ To(look, Place).src = look.src /\ To(look, Place).items = look.items
      /\ To(look, Place).refresh = look.refresh
  BY <1>1, ToLook
<1>3. look' \in LookType /\ look'.src = look.src /\ look'.items = look.items
      /\ look'.pc = Place /\ look'.refresh = look.refresh
  BY <1>2 DEF SignedIn, LookType
<1>4. look.src = "rusprofile"
  BY DEF LookupInv, LookOK
<1>5. auth'.jar = a.jar /\ alive' = alive
  BY DEF SignedIn
<1>6. Authorized(auth.jar)'
  BY <1>5 DEF Authorized
<1>7. (LookOK /\ LookupIsHonest)'
  BY <1>1, <1>3, <1>4, <1>6, PlaceStep
<1>8. LookupTypeOK'
  BY <1>3 DEF SignedIn, LookupInv, LookupTypeOK, LookType
<1> QED
  BY <1>1, <1>3, <1>7, <1>8 DEF LookupInv

LEMMA NotSignedInStep ==
  ASSUME LookupInv, look.pc \in {"login", "verify"}, NotSignedIn(auth), UNCHANGED alive
  PROVE  LookupInv' /\ look'.src = look.src /\ look'.pc = "done"
<1>1. /\ look' \in LookType /\ look'.src = look.src /\ look'.pc = "done"
      /\ look'.status = "auth_failed" /\ look'.phone = "blocked" /\ look'.items = "none"
  BY BlockedLook, RefusedType DEF NotSignedIn, LookupInv, LookOK
<1>2. (LookOK /\ LookupIsHonest)'
  BY <1>1, DoneIsHonest DEF HonestEnd
<1>3. LookupTypeOK'
  BY <1>1 DEF NotSignedIn, LookupInv, LookupTypeOK, LookType
<1> QED
  BY <1>1, <1>2, <1>3 DEF LookupInv

LEMMA ProbeStep ==
  ASSUME LookupInv, Probe
  PROVE  LookupInv' /\ look'.src = look.src /\ look'.pc # "idle"
<1>1. Loaded \in [checked : BOOLEAN, ok : BOOLEAN, loaded : BOOLEAN, jar : {NoSession} \cup Sessions]
  BY DEF Loaded, LookupInv, LookupTypeOK
<1>2. CASE Authorized(Loaded.jar) /\ SignedIn(Loaded)
  <2>1. look.pc \in {"probe", "verify"} /\ UNCHANGED alive
    BY DEF Probe
  <2> QED
    BY <1>1, <1>2, <2>1, SignedInStep
<1>3. CASE auth' = Loaded /\ look' = To(look, "login") /\ UNCHANGED file
  <2>1. look' \in LookType /\ look'.src = look.src /\ look'.items = look.items /\ look'.pc = "login"
    BY <1>3, ToLook
  <2>2. look.pc = "probe" /\ look.src = "rusprofile"
    BY DEF Probe, LookupInv, LookOK
  <2>3. (LookOK /\ LookupIsHonest)'
    BY <2>1, <2>2, PlaceStep
  <2>4. LookupTypeOK'
    BY <1>1, <1>3, <2>1 DEF Probe, LookupInv, LookupTypeOK, LookType
  <2> QED
    BY <2>1, <2>3, <2>4 DEF LookupInv
<1> QED
  BY <1>2, <1>3 DEF Probe

LEMMA LoginStep ==
  ASSUME LookupInv, LoginGranted \/ LoginRefused \/ LoginRaises
  PROVE  LookupInv' /\ look'.src = look.src /\ look'.pc # "idle"
<1>1. CASE LoginGranted
  <2>1. look' \in LookType /\ look'.src = look.src /\ look'.items = look.items /\ look'.pc = "verify"
    BY <1>1, ToLook DEF LoginGranted
  <2>2. look.pc = "login" /\ look.src = "rusprofile"
    BY <1>1 DEF LoginGranted, LookupInv, LookOK
  <2>3. (LookOK /\ LookupIsHonest)'
    BY <2>1, <2>2, PlaceStep
  <2>4. NewSession \in Sessions
    <3>1. \E n \in 1..3 : n \notin {auth.jar, file}
      BY 1 \in 1..3, 2 \in 1..3, 3 \in 1..3
    <3> QED
      BY <3>1 DEF NewSession, Sessions
  <2>5. LookupTypeOK'
    BY <1>1, <2>1, <2>4 DEF LoginGranted, LookupInv, LookupTypeOK, LookType
  <2> QED
    BY <2>1, <2>3, <2>5 DEF LookupInv
<1>2. CASE LoginRefused
  BY <1>2, NotSignedInStep DEF LoginRefused
<1>3. CASE LoginRaises
  <2>1. look' \in LookType /\ look'.src = look.src /\ look'.items = look.items /\ look'.pc = "raised"
    BY <1>3 DEF LoginRaises, LookupInv, LookType
  <2>2. look.pc = "login" /\ look.src = "rusprofile"
    BY <1>3 DEF LoginRaises, LookupInv, LookOK
  <2>3. (LookOK /\ LookupIsHonest)'
    BY <2>1, <2>2, PlaceStep
  <2>4. LookupTypeOK'
    BY <1>3, <2>1 DEF LoginRaises, LookupInv, LookupTypeOK, LookType
  <2> QED
    BY <2>1, <2>3, <2>4 DEF LookupInv
<1> QED
  BY <1>1, <1>2, <1>3

LEMMA VerifyStep ==
  ASSUME LookupInv, Verify
  PROVE  LookupInv' /\ look'.src = look.src /\ look'.pc # "idle"
<1>1. look.pc \in {"probe", "verify"} /\ look.pc \in {"login", "verify"} /\ UNCHANGED alive
  BY DEF Verify
<1>2. auth \in [checked : BOOLEAN, ok : BOOLEAN, loaded : BOOLEAN, jar : {NoSession} \cup Sessions]
  BY DEF LookupInv, LookupTypeOK
<1>3. CASE Authorized(auth.jar) /\ SignedIn(auth)
  BY <1>1, <1>2, <1>3, SignedInStep
<1>4. CASE NotSignedIn(auth)
  BY <1>1, <1>4, NotSignedInStep
<1> QED
  BY <1>3, <1>4 DEF Verify

\* A search ends, or goes on at a place that is not the tender list.
LEMMA PageStep ==
  ASSUME LookupInv, UNCHANGED <<file, alive, auth>>, look' \in LookType, look'.src = look.src,
         look.pc \in {"listing", "entity", "again"},
         \/ HonestEnd(look')
         \/ /\ look'.pc = look.pc /\ look'.refresh = look.refresh
            /\ look'.lapsed = look.lapsed /\ look'.items = "none"
         \/ look'.pc = "entity" /\ look'.items = "none"
  PROVE  LookupInv' /\ look'.pc # "idle"
<1>1. LookupTypeOK'
  BY DEF LookupInv, LookupTypeOK, LookType
<1>2. CASE HonestEnd(look')
  BY <1>1, <1>2, DoneIsHonest DEF LookupInv, HonestEnd
<1>3. CASE /\ look'.pc = look.pc /\ look'.refresh = look.refresh
           /\ look'.lapsed = look.lapsed /\ look'.items = "none"
  BY <1>1, <1>3, GoingOnIsHonest DEF LookupInv, LookOK, Authorized
<1>4. CASE look'.pc = "entity" /\ look'.items = "none"
  BY <1>1, <1>4, GoingOnIsHonest DEF LookupInv, LookOK
<1> QED
  BY <1>2, <1>3, <1>4

LEMMA ListingStep ==
  ASSUME LookupInv, Listing
  PROVE  LookupInv' /\ look'.src = look.src /\ look'.pc # "idle"
<1>0. /\ look.pc = "listing" /\ UNCHANGED <<file, alive, auth>>
      /\ look \in LookType /\ look.items = "none" /\ look.src # "bicotender"
  BY DEF Listing, LookupInv, LookOK
<1>1. CASE \E f \in FailuresSeen : look' = AfterFailure(f)
  BY <1>0, <1>1, AfterFailureLook, PageStep
<1>2. CASE \E a \in ListingPages : look' = AfterListing(a)
  <2>1. PICK a \in ListingPages : look' = AfterListing(a)
    BY <1>2
  <2>2. \/ look' = To(look, "entity")
        \/ look' = NotFound(look)
        \/ \E items \in {"open", "none"} :
             look' = Ended(look, "success", items, "unknown") /\ look.src = "list_org"
        \/ look' = [Blocked(look, "not_configured", "other") EXCEPT !.phone = "unknown"]
        \/ look' = Blocked(look, "blocked", "other")
    BY <2>1 DEF AfterListing, ListedOffline, ListingPages, Missing
  <2>3. CASE look' = To(look, "entity")
    BY <1>0, <2>3, ToLook, PageStep
  <2>4. CASE look' = NotFound(look)
    BY <1>0, <2>4, EndedLook, PageStep DEF NotFound
  <2>5. CASE \E items \in {"open", "none"} :
               look' = Ended(look, "success", items, "unknown") /\ look.src = "list_org"
    <3>1. PICK items \in {"open", "none"} :
            look' = Ended(look, "success", items, "unknown") /\ look.src = "list_org"
      BY <2>5
    <3>2. /\ look.src # "rusprofile" /\ look.src # "bicotender"
          /\ items \in {"open", "masked", "none"}
      BY <3>1
    <3>3. /\ Ended(look, "success", items, "unknown") \in LookType
          /\ Ended(look, "success", items, "unknown").src = look.src
          /\ HonestEnd(Ended(look, "success", items, "unknown"))
      BY <1>0, <3>2, EndedLook
    <3>4. look' \in LookType /\ look'.src = look.src /\ HonestEnd(look')
      BY <3>1, <3>3
    <3> QED
      BY <1>0, <3>4, PageStep
  <2>6. CASE look' = [Blocked(look, "not_configured", "other") EXCEPT !.phone = "unknown"]
    <3> DEFINE b == Blocked(look, "not_configured", "other")
    <3>1. "not_configured" \in LookStatuses /\ "other" \in Details
      BY DEF LookStatuses, Details
    <3>2. b \in LookType /\ HonestEnd(b) /\ b.src = look.src
      BY <1>0, <3>1, BlockedLook
    <3> HIDE DEF b
    <3>3. look' \in LookType /\ HonestEnd(look') /\ look'.src = look.src
      BY <2>6, <3>2 DEF LookType, HonestEnd, b
    <3> QED
      BY <1>0, <3>3, PageStep
  <2>7. CASE look' = Blocked(look, "blocked", "other")
    <3>1. "blocked" \in LookStatuses /\ "other" \in Details
      BY DEF LookStatuses, Details
    <3> QED
      BY <1>0, <2>7, <3>1, BlockedLook, PageStep
  <2> QED
    BY <2>2, <2>3, <2>4, <2>5, <2>6, <2>7
<1> QED
  BY <1>1, <1>2 DEF Listing, FailedRequests

\* A card of rusprofile: it is answered as to a guest only when the session has
\* ended since it was looked up for this card, or the page does not show its state.
LEMMA AfterCardLook ==
  ASSUME LookupInv, look.pc \in {"entity", "again"}, look.src = "rusprofile",
         NEW a \in EntityPages, NEW shown \in PageStates(a),
         look.pc = "entity" => shown = "authorized"
  PROVE  /\ AfterCard(a, shown) \in LookType /\ AfterCard(a, shown).src = look.src
         /\ HonestEnd(AfterCard(a, shown))
<1> DEFINE l == [look EXCEPT !.read = shown]
<1>1. shown \in {"authorized", "guest", "unknown"}
  BY DEF PageStates
<1>2. /\ l \in LookType /\ l.src = look.src /\ l.read = shown
      /\ l.refresh = look.refresh /\ l.lapsed = look.lapsed
  BY <1>1 DEF LookupInv, LookType
<1>3. Items(a) \in {"open", "masked", "none"}
  BY DEF Items
<1>4. shown # "authorized" => look.refresh /\ (look.lapsed \/ shown = "unknown")
  BY <1>1 DEF PageStates, LookupInv, LookOK
<1>5. CASE ~Own(a)
  <2>1. AfterCard(a, shown) = Ended(l, "mismatch", "none", "unknown")
    BY <1>5 DEF AfterCard
  <2> HIDE DEF l
  <2> QED
    BY <1>2, <2>1, EndedLook
<1>6. CASE Own(a) /\ (shown # "authorized" \/ a = "own_masked")
  <2>1. AfterCard(a, shown) = Ended(l, "guest", Items(a), "masked")
    BY <1>6 DEF AfterCard
  <2>2. l.read = "authorized" \/ (l.refresh /\ (l.lapsed \/ l.read = "unknown"))
    BY <1>1, <1>2, <1>4, <1>6
  <2> HIDE DEF l
  <2> QED
    BY <1>2, <1>3, <2>1, <2>2, EndedLook
<1>7. CASE Own(a) /\ ~(shown # "authorized" \/ a = "own_masked")
  <2>1. AfterCard(a, shown) = Ended(l, "success", Items(a), "absent")
    BY <1>7 DEF AfterCard
  <2>2. l.read = "authorized"
    BY <1>1, <1>2, <1>7
  <2> HIDE DEF l
  <2> QED
    BY <1>2, <1>3, <2>1, <2>2, EndedLook
<1> QED
  BY <1>5, <1>6, <1>7

LEMMA EntityStep ==
  ASSUME LookupInv, Entity
  PROVE  LookupInv' /\ look'.src = look.src /\ look'.pc # "idle"
<1>0. /\ look.pc = "entity" /\ UNCHANGED <<file, alive, auth>>
      /\ look \in LookType /\ look.items = "none" /\ look.src # "bicotender"
  BY DEF Entity, LookupInv, LookOK
<1>1. CASE \E f \in FailuresSeen : look' = AfterFailure(f)
  BY <1>0, <1>1, AfterFailureLook, PageStep
<1>2. CASE \E a \in EntityPages : /\ look' = AfterEntity(a)
                                  /\ look.src = "rusprofile" => "authorized" \in PageStates(a)
  <2>1. PICK a \in EntityPages : /\ look' = AfterEntity(a)
                                 /\ look.src = "rusprofile" => "authorized" \in PageStates(a)
    BY <1>2
  <2>2. CASE look.src = "rusprofile"
    <3>1. look' = AfterCard(a, "authorized")
      BY <2>1, <2>2 DEF AfterEntity
    <3> QED
      BY <1>0, <2>1, <2>2, <3>1, AfterCardLook, PageStep
  <2>3. CASE look.src # "rusprofile"
    <3>1. Items(a) \in {"open", "masked", "none"}
      BY DEF Items
    <3>2. \/ look' = Blocked(look, "blocked", "other")
          \/ \E status \in {"success", "mismatch", "guest"}, items \in {"open", "masked", "none"},
                explicit \in {"unknown", "masked"} : look' = Ended(look, status, items, explicit)
      BY <2>1, <2>3, <3>1 DEF AfterEntity, AfterSpark, AfterPublicPage
    <3>3. CASE look' = Blocked(look, "blocked", "other")
      <4>1. "blocked" \in LookStatuses /\ "other" \in Details
        BY DEF LookStatuses, Details
      <4> QED
        BY <1>0, <3>3, <4>1, BlockedLook, PageStep
    <3>4. CASE \E status \in {"success", "mismatch", "guest"}, items \in {"open", "masked", "none"},
                  explicit \in {"unknown", "masked"} : look' = Ended(look, status, items, explicit)
      <4>1. PICK status \in {"success", "mismatch", "guest"}, items \in {"open", "masked", "none"},
                 explicit \in {"unknown", "masked"} : look' = Ended(look, status, items, explicit)
        BY <3>4
      <4>2. look' \in LookType /\ look'.src = look.src /\ HonestEnd(look')
        BY <1>0, <2>3, <4>1, EndedLook
      <4> QED
        BY <1>0, <4>2, PageStep
    <3> QED
      BY <3>2, <3>3, <3>4
  <2> QED
    BY <2>2, <2>3
<1> QED
  BY <1>1, <1>2 DEF Entity, FailedRequests

LEMMA EntityAgainStep ==
  ASSUME LookupInv, EntityAgain
  PROVE  LookupInv' /\ look'.src = look.src /\ look'.pc # "idle"
<1>0. look.pc = "again" /\ UNCHANGED <<file, alive, auth>> /\ look.src = "rusprofile"
  BY DEF EntityAgain, LookupInv, LookOK
<1>1. CASE \E f \in FailuresSeen : look' = AfterFailure(f)
  BY <1>0, <1>1, AfterFailureLook, PageStep
<1>2. CASE \E a \in EntityPages : \E shown \in PageStates(a) : look' = AfterCard(a, shown)
  <2>1. PICK a \in EntityPages : \E shown \in PageStates(a) : look' = AfterCard(a, shown)
    BY <1>2
  <2>2. PICK shown \in PageStates(a) : look' = AfterCard(a, shown)
    BY <2>1
  <2>3. look' \in LookType /\ look'.src = look.src /\ HonestEnd(look')
    BY <1>0, <2>2, AfterCardLook
  <2> QED
    BY <1>0, <2>3, PageStep
<1> QED
  BY <1>1, <1>2 DEF EntityAgain, FailedRequests

LEMMA EntityOfGuestStep ==
  ASSUME LookupInv, EntityOfGuest
  PROVE  LookupInv' /\ look'.src = look.src /\ look'.pc # "idle"
<1>1. auth' = [NoAuth EXCEPT !.jar = auth.jar] /\ auth'.checked = FALSE
  BY DEF EntityOfGuest, ResetAuth, NoAuth
<1>2. /\ look.pc = "entity" /\ look.src = "rusprofile" /\ UNCHANGED <<file, alive>>
      /\ look' = [To(look, "probe") EXCEPT !.refresh = TRUE, !.lapsed = FALSE]
  BY <1>1 DEF EntityOfGuest
<1>3. look' \in LookType /\ look'.src = look.src /\ look'.items = look.items /\ look'.pc = "probe"
  <2>1. /\ To(look, "probe") \in LookType /\ To(look, "probe").src = look.src
        /\ To(look, "probe").items = look.items /\ To(look, "probe").pc = "probe"
    BY ToLook
  <2> QED
    BY <1>2, <2>1 DEF LookType
<1>4. (LookOK /\ LookupIsHonest)'
  BY <1>2, <1>3, PlaceStep
<1>5. LookupTypeOK'
  BY <1>1, <1>2, <1>3 DEF LookupInv, LookupTypeOK, LookType, NoAuth
<1> QED
  BY <1>3, <1>4, <1>5 DEF LookupInv

\* The session of a site ends, whatever the search is at.
LEMMA SessionEndsStep ==
  ASSUME LookupInv, SessionEnds
  PROVE  LookupInv' /\ look'.src = look.src /\ look'.pc = look.pc
<1>1. PICK n \in alive :
        /\ alive' = alive \ {n}
        /\ look' = IF look.src = "rusprofile" /\ n = auth.jar
                     THEN [look EXCEPT !.lapsed = TRUE] ELSE look
  BY DEF SessionEnds
<1>2. UNCHANGED <<file, auth>>
  BY DEF SessionEnds
<1>3. /\ look' \in LookType /\ look'.src = look.src /\ look'.pc = look.pc
      /\ look'.items = look.items /\ look'.status = look.status /\ look'.phone = look.phone
      /\ look'.read = look.read /\ look'.refresh = look.refresh /\ look'.tender = look.tender
      /\ look.lapsed => look'.lapsed
      /\ look.src = "rusprofile" /\ n = auth.jar => look'.lapsed
  BY <1>1 DEF LookupInv, LookType
<1>4. LookupTypeOK'
  BY <1>1, <1>2, <1>3 DEF LookupInv, LookupTypeOK, LookType
<1>5. LookOK'
  BY <1>1, <1>2, <1>3 DEF LookupInv, LookOK, Authorized
<1>6. LookupIsHonest'
  BY <1>3 DEF LookupInv, LookupIsHonest, CardsAreAuthorized, GuestHasCause, FailureSaysNothing,
              TendersAreRead, Found
<1> QED
  BY <1>3, <1>4, <1>5, <1>6 DEF LookupInv

\* A list page of tenders: what it fails of is a class of the search, so that a
\* search of several pages is no success then, nor is one of a single page.
LEMMA TendersStep ==
  ASSUME LookupInv, Tenders
  PROVE  LookupInv' /\ look'.src = look.src /\ look'.pc # "idle"
<1>0. /\ look.pc = "tenders" /\ look.src = "bicotender" /\ UNCHANGED <<file, alive, auth>>
      /\ look \in LookType /\ look.tender \in TenderType /\ look.items = "none"
      /\ look.tender.errors => look.tender.batch # 0 /\ "source_error" \in look.tender.classes
  BY DEF Tenders, LookupInv, LookOK, LookType
<1>1. PICK p \in TenderPagesSeen : look' = TenderPage(p)
  BY DEF Tenders
<1> DEFINE t == AfterPage(look.tender, p)
           ends == EndsAfter(look.tender, p, NBatches)
<1>2. t \in TenderType
  BY <1>0, PageType DEF AfterPage, TenderType
<1>3. SearchStatus(t) \in {"success", "source_issue", "partial_success"}
  BY DEF SearchStatus
<1>4. /\ look' \in LookType /\ look'.src = look.src /\ look'.items = "none" /\ look'.tender = t
      /\ ends => look'.pc = "done" /\ look'.status = SearchStatus(t)
      /\ ~ends => look'.pc = "tenders"
  <2>1. SearchStatus(t) \in LookStatuses
    BY <1>3 DEF LookStatuses
  <2>2. look' = [look EXCEPT !.tender = t, !.pc = IF ends THEN "done" ELSE @,
                             !.status = IF ends THEN SearchStatus(t) ELSE @]
    BY <1>1 DEF TenderPage
  <2> HIDE DEF t, ends
  <2> QED
    BY <1>0, <1>2, <2>1, <2>2 DEF LookType
<1>5. HasError(p) => Class(p) = "source_error"
  BY DEF Class
<1>6. ~ends => (t.errors => t.batch # 0 /\ "source_error" \in t.classes)
  BY <1>0, <1>5 DEF AfterPage, EndsAfter, TenderType
<1>7. ends /\ SearchStatus(t) = "success" => ~t.errors
  BY <1>0, <1>5 DEF AfterPage, EndsAfter, SearchStatus, Issues, TenderType
<1>8. LookupTypeOK'
  BY <1>0, <1>4 DEF LookupInv, LookupTypeOK, LookType
<1>9. LookOK'
  BY <1>0, <1>4, <1>6 DEF LookOK
<1>10. LookupIsHonest'
  BY <1>0, <1>4, <1>7 DEF LookupIsHonest, CardsAreAuthorized, GuestHasCause, FailureSaysNothing,
                          TendersAreRead, Found, FailFast, Required
<1> QED
  BY <1>4, <1>8, <1>9, <1>10 DEF LookupInv

\* A step of a search keeps what is known of it, and the source it is of.
LEMMA LookupStepInv ==
  ASSUME LookupInv, LookupStep
  PROVE  LookupInv' /\ look'.src = look.src /\ look'.pc # "idle"
BY ProbeStep, LoginStep, VerifyStep, ListingStep, EntityStep, EntityOfGuestStep, EntityAgainStep,
   TendersStep DEF LookupStep

LEMMA NoLookInv ==
  ASSUME LookupInv, look' = NoLook,
         auth' \in [checked : BOOLEAN, ok : BOOLEAN, loaded : BOOLEAN,
                    jar : {NoSession} \cup Sessions],
         UNCHANGED <<file, alive>>
  PROVE  LookupInv'
<1>1. look' \in LookType /\ look'.pc = "idle" /\ look'.items = "none" /\ look'.src = "none"
  BY FreshLook DEF NoLook, SourceNames
<1>2. LookupIsHonest' /\ LookOK'
  BY <1>1, GoingOnIsHonest DEF LookOK
<1> QED
  BY <1>1, <1>2 DEF LookupInv, LookupTypeOK, LookType

-----------------------------------------------------------------------------
(* The rows of a run. *)

RunType ==
  [mode : Modes \cup {"off"}, pc : {"off", "guard", "row", "search", "resolve", "ended"},
   row : 1..(NRows + 1), source : 1..(Len(sourceOrder) + 1), has : SUBSET Sources,
   queue : SUBSET Rows, targets : [Rows -> SUBSET Sources],
   resolving : SUBSET (Rows \X Sources), status : Statuses, count : Nat]

TypeInv ==
  /\ TypeOK
  /\ sourceOrder \in Orders
  /\ run \in RunType
  /\ burst \in [Sources -> Nat]

HasUnresolved(r) == \E s \in Sources : record[r][s] = "unresolved"

\* A search goes on only at its place in the row, and for a pair to be searched.
PlaceInv ==
  /\ run.pc \notin {"search", "ended"} => look.pc = "idle"
  /\ run.pc = "search" => run.row \in Rows
  /\ run.pc = "search" /\ look.pc # "idle" =>
       run.source <= Len(sourceOrder) /\ look.src = Source /\ ~NotRetried(Source)

\* The sources of a stored result stay with the row through its search and its
\* pending unit, and a pair on its way to be resolved is in the stored result.
StoredInv ==
  /\ \A r \in Rows : unit[r].pending => result[r] \subseteq unit[r].has
  /\ run.pc = "search" => result[run.row] \subseteq run.has
  /\ \A r \in run.queue : unit[r].pending /\ r < run.row
  /\ \A p \in run.resolving : /\ p[2] \in result[p[1]]
                              /\ p[1] < run.row
                              /\ ~unit[p[1]].pending
  /\ run.pc # "resolve" => run.resolving = {}

\* A pending unit has all the sources, or comes from a retry that was killed and
\* whose record still stands.
UnitInv == \A r \in Rows : unit[r].pending => unit[r].has = Sources \/ HasUnresolved(r)

\* A retry has its pairs unresolved until the result of the row is stored; the
\* other runs have no pairs.
RetryInv ==
  /\ run.mode = "retry" =>
       /\ \A r \in Rows : \A s \in run.targets[r] :
            r >= run.row \/ r \in run.queue => record[r][s] = "unresolved"
       /\ run.pc = "search" => run.targets[run.row] # {}
  /\ run.mode # "retry" => run.resolving = {} /\ \A r \in Rows : run.targets[r] = {}

\* The rows a run over all rows has left behind.
SearchedInv ==
  run.pc = "search" /\ run.mode # "retry" =>
    \A i \in 1..(run.source - 1) : sourceOrder[i] \in run.has

RowsInv ==
  run.pc \in {"guard", "row", "search", "resolve"} /\ run.mode # "retry" =>
    \A r \in Rows : r < run.row =>
      r \in run.queue \/ result[r] = Sources \/ HasUnresolved(r)

BurstInv == \A s \in Sources : burst[s] <= health[s].consecutive

IInv ==
  /\ LookupInv /\ TypeInv /\ PlaceInv /\ StoredInv /\ UnitInv
  /\ RetryInv /\ SearchedInv /\ RowsInv /\ BurstInv
  /\ ResolvedIsStored /\ NoRowSlips

LEMMA CapType == Cap \in Nat
BY RequiredSourcesAssumption DEF Cap, CapFor

LEMMA OrderType ==
  ASSUME TypeInv
  PROVE  /\ Len(sourceOrder) \in Nat
         /\ \A i \in 1..Len(sourceOrder) : sourceOrder[i] \in Sources
         /\ \A s \in Sources : \E i \in 1..Len(sourceOrder) : sourceOrder[i] = s
         /\ Sources \subseteq SourceNames
<1>1. sourceOrder \in Seq(SourceNames)
  BY RequiredSourcesAssumption DEF TypeInv, SourceNames
<1>2. /\ Len(sourceOrder) \in Nat /\ DOMAIN sourceOrder = 1..Len(sourceOrder)
      /\ \A i \in 1..Len(sourceOrder) : sourceOrder[i] \in SourceNames
  BY <1>1
<1> QED
  BY <1>2 DEF Sources

\* The search at a place of the row is of one of the sources.
LEMMA PlaceType ==
  ASSUME TypeInv, PlaceInv, run.pc = "search", look.pc # "idle"
  PROVE  Source \in Sources /\ Source \in SourceNames /\ look.src = Source
BY OrderType DEF PlaceInv, Source, TypeInv, RunType

LEMMA SameRecords ==
  ASSUME UNCHANGED <<sourceOrder, record>>
  PROVE  Sources' = Sources /\ \A r \in Rows : HasUnresolved(r)' = HasUnresolved(r)
BY DEF Sources, HasUnresolved

LEMMA TypeUnchanged ==
  ASSUME TypeInv, UNCHANGED <<durable, burst>>, LookupTypeOK', run' \in RunType
  PROVE  TypeInv'
<1>1. Sources' = Sources /\ RunType' = RunType
  BY DEF durable, Sources, RunType
<1>2. TypeOK'
  BY <1>1 DEF TypeInv, TypeOK, durable, RunType
<1> QED
  BY <1>1, <1>2 DEF TypeInv, durable

\* Steps of the run that store nothing.
LEMMA RunOnlyStep ==
  ASSUME IInv, UNCHANGED <<durable, burst>>, LookupInv', run' \in RunType,
         PlaceInv', StoredInv', RetryInv', SearchedInv', RowsInv', NoRowSlips'
  PROVE  IInv'
<1>1. TypeInv'
  BY TypeUnchanged DEF IInv, LookupInv
<1>2. Sources' = Sources /\ \A r \in Rows : HasUnresolved(r)' = HasUnresolved(r)
  BY SameRecords DEF durable
<1>3. UnitInv' /\ BurstInv' /\ ResolvedIsStored'
  BY <1>2 DEF IInv, UnitInv, BurstInv, ResolvedIsStored, durable
<1> QED
  BY <1>1, <1>3 DEF IInv

\* Steps of the search alone.
LEMMA LookOnlyStep ==
  ASSUME IInv, UNCHANGED rows, LookupInv', PlaceInv'
  PROVE  IInv'
<1>1. UNCHANGED <<durable, burst, run>> /\ run' \in RunType
  BY DEF IInv, TypeInv, rows
<1>2. Sources' = Sources /\ \A r \in Rows : HasUnresolved(r)' = HasUnresolved(r)
  BY <1>1, SameRecords DEF durable
<1>3. StoredInv' /\ RetryInv'
  BY <1>1 DEF IInv, StoredInv, RetryInv, durable
<1>4. SearchedInv' /\ RowsInv'
  BY <1>1, <1>2 DEF IInv, SearchedInv, RowsInv, durable
<1>5. NoRowSlips'
  BY <1>1, <1>2 DEF IInv, NoRowSlips, EndedWell, durable
<1> QED
  BY <1>1, <1>3, <1>4, <1>5, RunOnlyStep

LEMMA SearchStep ==
  ASSUME IInv, Search
  PROVE  IInv'
<1>1. /\ run.pc = "search" /\ run.source <= Len(sourceOrder) /\ ~NotRetried(Source)
      /\ BeginLookup(Source) /\ UNCHANGED rows
  BY DEF Search, Searching
<1>2. Source \in SourceNames
  BY <1>1, OrderType DEF IInv, TypeInv, RunType, Source
<1>3. LookupInv' /\ look'.src = Source
  BY <1>1, <1>2, BeginLookupStep DEF IInv
<1>4. PlaceInv'
  BY <1>1, <1>3 DEF IInv, PlaceInv, rows, durable, Source, NotRetried
<1> QED
  BY <1>1, <1>3, <1>4, LookOnlyStep

LEMMA SearchGoesOn ==
  ASSUME IInv, run.pc = "search", LookupStep, UNCHANGED rows
  PROVE  IInv'
<1>1. LookupInv' /\ look'.src = look.src /\ look'.pc # "idle"
  BY LookupStepInv DEF IInv
<1>2. look.pc # "idle"
  BY DEF LookupStep, Probe, LoginGranted, LoginRefused, LoginRaises, Verify, Listing, Entity,
         EntityOfGuest, EntityAgain, Tenders
<1>3. PlaceInv'
  BY <1>1, <1>2 DEF IInv, PlaceInv, rows, durable, Source, NotRetried
<1> QED
  BY <1>1, <1>3, LookOnlyStep

LEMMA SessionGone ==
  ASSUME IInv, SessionEnds, UNCHANGED rows
  PROVE  IInv'
<1>1. LookupInv' /\ look'.src = look.src /\ look'.pc = look.pc
  BY SessionEndsStep DEF IInv
<1>2. PlaceInv'
  BY <1>1 DEF IInv, PlaceInv, rows, durable, Source, NotRetried
<1> QED
  BY <1>1, <1>2, LookOnlyStep

-----------------------------------------------------------------------------
(* A run starts, ends and goes through its rows. *)

LEMMA OffType ==
  ASSUME TypeInv
  PROVE  Off \in RunType
BY RequiredSourcesAssumption, OrderType DEF Off, RunType, Statuses, Modes, Rows

\* A process that has begun knows no row yet.
LEMMA FreshRun ==
  ASSUME IInv, UNCHANGED <<durable, burst, file, alive>>, LookupReset,
         run' \in RunType, run'.pc \in {"guard", "off"}, run'.row = 1,
         run'.queue = {}, run'.resolving = {}, RetryInv'
  PROVE  IInv'
<1>1. LookupInv'
  BY NoLookInv DEF LookupReset, NoAuth, IInv, LookupInv, LookupTypeOK
<1>2. look'.pc = "idle"
  BY DEF LookupReset, NoLook
<1>3. PlaceInv' /\ StoredInv' /\ SearchedInv' /\ NoRowSlips'
  BY <1>2 DEF IInv, PlaceInv, StoredInv, SearchedInv, NoRowSlips, EndedWell, durable
<1>4. RowsInv'
  BY DEF RowsInv, Rows
<1> QED
  BY <1>1, <1>3, <1>4, RunOnlyStep

LEMMA StartStep ==
  ASSUME IInv, NEW mode \in Modes, Start(mode)
  PROVE  IInv'
<1>1. TypeInv /\ Off \in RunType /\ run \in RunType
  BY OffType DEF IInv, TypeInv
<1>2. RetryPlan \in [Rows -> SUBSET Sources] /\ Off.targets = [r \in Rows |-> {}]
  BY DEF RetryPlan, Off
<1>3. /\ run' \in RunType /\ run'.mode = mode /\ run'.pc = "guard" /\ run'.row = 1
      /\ run'.queue = {} /\ run'.resolving = {}
      /\ run'.targets = IF mode = "retry" THEN RetryPlan ELSE [r \in Rows |-> {}]
  <2>1. run' = [Off EXCEPT !.mode = mode, !.pc = "guard", !.count = run.count + 1,
                           !.targets = IF mode = "retry" THEN RetryPlan ELSE @]
    BY DEF Start
  <2>2. Off.row = 1 /\ Off.queue = {} /\ Off.resolving = {}
    BY DEF Off
  <2>3. run.count + 1 \in Nat
    BY <1>1 DEF RunType
  <2> HIDE DEF Off
  <2> QED
    BY <1>1, <1>2, <2>1, <2>2, <2>3 DEF RunType
<1>4. UNCHANGED <<durable, burst, file, alive>> /\ LookupReset
  BY DEF Start
<1>5. RetryInv'
  BY <1>3, <1>4 DEF RetryInv, RetryPlan, durable
<1> QED
  BY <1>3, <1>4, <1>5, FreshRun

LEMMA KillStep ==
  ASSUME IInv, Kill
  PROVE  IInv'
<1>1. TypeInv /\ Off \in RunType /\ run \in RunType
  BY OffType DEF IInv, TypeInv
<1>2. /\ Off.row = 1 /\ Off.queue = {} /\ Off.resolving = {} /\ Off.pc = "off"
      /\ Off.mode = "off" /\ Off.targets = [r \in Rows |-> {}]
  BY DEF Off
<1>3. run' = [Off EXCEPT !.count = run.count]
  BY DEF Kill
<1>4. /\ run' \in RunType /\ run'.row = 1 /\ run'.queue = {} /\ run'.resolving = {}
      /\ run'.pc = "off" /\ run'.mode = "off" /\ run'.targets = [r \in Rows |-> {}]
  BY <1>1, <1>2, <1>3 DEF RunType
<1>5. RetryInv'
  BY <1>4 DEF RetryInv
<1>6. UNCHANGED <<durable, burst, file, alive>> /\ LookupReset
  BY DEF Kill
<1> QED
  BY <1>4, <1>5, <1>6, FreshRun

\* A run ends: a good end needs every row it was to go through.
LEMMA RunEnds ==
  ASSUME IInv, UNCHANGED <<durable, burst, lookup>>, NEW status \in Statuses,
         run' = [run EXCEPT !.pc = "ended", !.status = status],
         run.pc # "resolve", NoRowSlips'
  PROVE  IInv'
<1>1. LookupInv'
  BY DEF IInv, LookupInv, LookupTypeOK, LookOK, Authorized, LookupIsHonest, CardsAreAuthorized,
         GuestHasCause, FailureSaysNothing, TendersAreRead, Found, lookup
<1>2. /\ run' \in RunType /\ run'.pc = "ended" /\ run'.mode = run.mode /\ run'.row = run.row
      /\ run'.queue = run.queue /\ run'.resolving = run.resolving /\ run'.targets = run.targets
  BY DEF IInv, TypeInv, RunType
<1>3. PlaceInv' /\ SearchedInv' /\ RowsInv'
  BY <1>2 DEF PlaceInv, SearchedInv, RowsInv
<1>4. StoredInv'
  BY <1>2 DEF IInv, StoredInv, durable
<1>5. RetryInv'
  BY <1>2 DEF IInv, RetryInv, durable
<1> QED
  BY <1>1, <1>2, <1>3, <1>4, <1>5, RunOnlyStep

LEMMA EndsBadly ==
  ASSUME IInv, UNCHANGED <<durable, burst, lookup>>,
         NEW status \in {"failed", "failed_required_source"},
         run' = [run EXCEPT !.pc = "ended", !.status = status], run.pc # "resolve"
  PROVE  IInv'
<1>1. run'.status = status
  BY DEF IInv, TypeInv, RunType
<1>2. NoRowSlips'
  BY <1>1 DEF NoRowSlips, EndedWell
<1> QED
  BY <1>2, RunEnds DEF Statuses

LEMMA StopStep ==
  ASSUME IInv, SearchStopsRun \/ SearchRaises
  PROVE  IInv'
BY EndsBadly DEF SearchStopsRun, SearchRaises, Answered

LEMMA FinishStep ==
  ASSUME IInv, Finish
  PROVE  IInv'
<1>1. /\ run.pc = "row" /\ run.row > NRows /\ run.queue = {}
      /\ run' = [run EXCEPT !.pc = "ended", !.status = FinalStatus]
      /\ UNCHANGED <<durable, burst, lookup>>
  BY DEF Finish
<1>2. FinalStatus \in Statuses
  BY DEF FinalStatus, Statuses
<1>3. run'.mode = run.mode
  BY <1>1 DEF IInv, TypeInv, RunType
<1>4. run.mode # "retry" => \A r \in Rows : result[r] = Sources \/ HasUnresolved(r)
  <2>1. \A r \in Rows : r < run.row
    BY <1>1, RequiredSourcesAssumption DEF Rows, IInv, TypeInv, RunType
  <2> QED
    BY <1>1, <2>1 DEF IInv, RowsInv
<1>5. NoRowSlips'
  BY <1>1, <1>3, <1>4 DEF NoRowSlips, HasUnresolved, durable, Sources
<1> QED
  BY <1>1, <1>2, <1>5, RunEnds

\* Nothing but the run changes, and no search is under way before or after.
LEMMA BetweenSearches ==
  ASSUME IInv, UNCHANGED <<durable, burst, lookup>>, look.pc = "idle",
         run' \in RunType, run'.pc \in {"row", "search"},
         run'.pc = "search" => run'.row \in Rows,
         run'.mode = run.mode, run'.targets = run.targets, run'.resolving = {},
         StoredInv', RetryInv', SearchedInv', RowsInv'
  PROVE  IInv'
<1>1. LookupInv'
  BY DEF IInv, LookupInv, LookupTypeOK, LookOK, Authorized, LookupIsHonest, CardsAreAuthorized,
         GuestHasCause, FailureSaysNothing, TendersAreRead, Found, lookup
<1>2. PlaceInv' /\ NoRowSlips'
  BY DEF PlaceInv, NoRowSlips, EndedWell, lookup
<1> QED
  BY <1>1, <1>2, RunOnlyStep

LEMMA GuardStep ==
  ASSUME IInv, NEW usable, NEW provider, Guard(usable, provider)
  PROVE  IInv'
<1>1. CASE run' = [run EXCEPT !.pc = "ended", !.status = "failed_required_source"]
  BY <1>1, EndsBadly DEF Guard
<1>2. CASE run' = [run EXCEPT !.pc = "row"]
  <2>1. /\ run.pc = "guard" /\ look.pc = "idle" /\ run.resolving = {}
        /\ UNCHANGED <<durable, burst, lookup>>
    BY DEF Guard, IInv, PlaceInv, StoredInv
  <2>2. /\ run' \in RunType /\ run'.pc = "row" /\ run'.mode = run.mode /\ run'.row = run.row
        /\ run'.queue = run.queue /\ run'.resolving = {} /\ run'.targets = run.targets
    BY <1>2, <2>1 DEF IInv, TypeInv, RunType
  <2>3. Sources' = Sources /\ \A r \in Rows : HasUnresolved(r)' = HasUnresolved(r)
    BY <2>1, SameRecords DEF durable
  <2>4. StoredInv' /\ RetryInv'
    BY <2>1, <2>2 DEF IInv, StoredInv, RetryInv, durable
  <2>5. SearchedInv' /\ RowsInv'
    BY <2>1, <2>2, <2>3 DEF IInv, SearchedInv, RowsInv, durable
  <2> QED
    BY <2>1, <2>2, <2>4, <2>5, BetweenSearches
<1> QED
  BY <1>1, <1>2 DEF Guard

LEMMA BeginRowStep ==
  ASSUME IInv, BeginRow
  PROVE  IInv'
<1>1. /\ run.pc = "row" /\ run.row <= NRows /\ run.row \in Rows
      /\ look.pc = "idle" /\ run.resolving = {} /\ run \in RunType
      /\ UNCHANGED <<durable, burst, lookup>>
  BY RequiredSourcesAssumption DEF BeginRow, IInv, PlaceInv, StoredInv, TypeInv, RunType, Rows
<1>2. Sources' = Sources /\ \A r \in Rows : HasUnresolved(r)' = HasUnresolved(r)
  BY <1>1, SameRecords DEF durable
<1>3. run.row + 1 \in 1..(NRows + 1) /\ \A r \in Rows : r < run.row + 1 <=> r < run.row \/ r = run.row
  BY <1>1, RequiredSourcesAssumption DEF RunType, Rows
\* The unit of an earlier run is taken up.
<1>4. CASE /\ Resuming /\ unit[run.row].pending
           /\ run' = [run EXCEPT !.queue = @ \cup {run.row}, !.row = @ + 1]
  <2>1. /\ run' \in RunType /\ run'.pc = "row" /\ run'.mode = run.mode /\ run'.row = run.row + 1
        /\ run'.queue = run.queue \cup {run.row} /\ run'.resolving = {} /\ run'.targets = run.targets
    BY <1>1, <1>3, <1>4 DEF RunType
  <2>2. run.mode # "retry"
    BY <1>4 DEF Resuming
  <2>3. StoredInv' /\ RetryInv' /\ SearchedInv'
    BY <1>1, <1>3, <1>4, <2>1, <2>2 DEF IInv, StoredInv, RetryInv, SearchedInv, durable, RunType
  <2>4. RowsInv'
    BY <1>1, <1>2, <1>3, <2>1 DEF IInv, RowsInv, durable
  <2> QED
    BY <1>1, <2>1, <2>3, <2>4, BetweenSearches
\* The row is complete, or not one of a retry.
<1>5. CASE /\ SkipReady(run.row) \/ NotSelected(run.row)
           /\ run' = [run EXCEPT !.row = @ + 1]
  <2>1. /\ run' \in RunType /\ run'.pc = "row" /\ run'.mode = run.mode /\ run'.row = run.row + 1
        /\ run'.queue = run.queue /\ run'.resolving = {} /\ run'.targets = run.targets
    BY <1>1, <1>3, <1>5 DEF RunType
  <2>2. run.mode # "retry" => result[run.row] = Sources
    BY <1>5 DEF SkipReady, NotSelected
  <2>3. StoredInv' /\ RetryInv' /\ SearchedInv'
    <3>1. StoredInv'
      BY <1>1, <1>3, <2>1 DEF IInv, StoredInv, durable, RunType
    <3>2. \A r \in Rows : r >= run.row + 1 => r >= run.row
      BY <1>1 DEF Rows
    <3>3. RetryInv'
      BY <1>1, <2>1, <3>2 DEF IInv, RetryInv, durable
    <3> QED
      BY <2>1, <3>1, <3>3 DEF SearchedInv
  <2>4. RowsInv'
    BY <1>1, <1>2, <1>3, <2>1, <2>2 DEF IInv, RowsInv, durable
  <2> QED
    BY <1>1, <2>1, <2>3, <2>4, BetweenSearches
\* The row is searched.
<1>6. CASE /\ ~NotSelected(run.row)
           /\ run' = [run EXCEPT !.pc = "search", !.source = 1, !.has = Existing(run.row)]
  <2>1. result[run.row] \subseteq Sources
    BY <1>1 DEF IInv, TypeInv, TypeOK
  <2>2. 1 \in 1..(Len(sourceOrder) + 1)
    BY OrderType DEF IInv
  <2>3. /\ run' \in RunType /\ run'.pc = "search" /\ run'.mode = run.mode /\ run'.row = run.row
        /\ run'.queue = run.queue /\ run'.resolving = {} /\ run'.targets = run.targets
        /\ run'.source = 1 /\ run'.has = result[run.row]
    BY <1>1, <1>6, <2>1, <2>2 DEF RunType, Existing
  <2>4. StoredInv' /\ RetryInv'
    BY <1>1, <1>6, <2>3 DEF IInv, StoredInv, RetryInv, NotSelected, durable
  <2>5. SearchedInv'
    BY <2>3 DEF SearchedInv
  <2>6. RowsInv'
    BY <1>1, <1>2, <2>3 DEF IInv, RowsInv, durable
  <2> QED
    BY <1>1, <2>3, <2>4, <2>5, <2>6, BetweenSearches
<1> QED
  BY <1>4, <1>5, <1>6 DEF BeginRow

LEMMA PassOverStep ==
  ASSUME IInv, PassOver
  PROVE  IInv'
<1>1. /\ run.pc = "search" /\ run.source <= Len(sourceOrder) /\ run.mode = "retry"
      /\ look.pc = "idle" /\ run.row \in Rows /\ run.resolving = {} /\ run \in RunType
      /\ UNCHANGED <<durable, burst, lookup>> /\ run' = [run EXCEPT !.source = @ + 1]
  BY DEF PassOver, Searching, NotRetried, IInv, PlaceInv, StoredInv, TypeInv
<1>2. run.source + 1 \in 1..(Len(sourceOrder) + 1)
  BY <1>1, OrderType DEF IInv, RunType
<1>3. /\ run' \in RunType /\ run'.pc = "search" /\ run'.mode = run.mode /\ run'.row = run.row
      /\ run'.queue = run.queue /\ run'.resolving = {} /\ run'.targets = run.targets
      /\ run'.has = run.has
  BY <1>1, <1>2 DEF RunType
<1>4. StoredInv' /\ RetryInv'
  BY <1>1, <1>3 DEF IInv, StoredInv, RetryInv, durable
<1>5. SearchedInv' /\ RowsInv'
  BY <1>1, <1>3 DEF SearchedInv, RowsInv
<1> QED
  BY <1>1, <1>3, <1>4, <1>5, BetweenSearches

LEMMA DrainNextStep ==
  ASSUME IInv, DrainNext
  PROVE  IInv'
<1>1. /\ run.pc = "resolve" /\ run.resolving = {} /\ look.pc = "idle" /\ run \in RunType
      /\ UNCHANGED <<durable, burst, lookup>> /\ run' = [run EXCEPT !.pc = "row"]
  BY DEF DrainNext, IInv, PlaceInv, TypeInv
<1>2. /\ run' \in RunType /\ run'.pc = "row" /\ run'.mode = run.mode /\ run'.row = run.row
      /\ run'.queue = run.queue /\ run'.resolving = {} /\ run'.targets = run.targets
  BY <1>1 DEF RunType
<1>3. Sources' = Sources /\ \A r \in Rows : HasUnresolved(r)' = HasUnresolved(r)
  BY <1>1, SameRecords DEF durable
<1>4. StoredInv' /\ RetryInv'
  BY <1>1, <1>2 DEF IInv, StoredInv, RetryInv, durable
<1>5. SearchedInv' /\ RowsInv'
  BY <1>1, <1>2, <1>3 DEF IInv, SearchedInv, RowsInv, durable
<1> QED
  BY <1>1, <1>2, <1>4, <1>5, BetweenSearches

-----------------------------------------------------------------------------
(* What a search comes to. *)

LEMMA SearchOkStep ==
  ASSUME IInv, SearchOk
  PROVE  IInv'
<1> DEFINE src == Source
<1>1. /\ run.pc = "search" /\ look.pc = "done" /\ run.row \in Rows /\ run \in RunType
      /\ run.resolving = {} /\ run.source <= Len(sourceOrder)
      /\ src \in Sources /\ src = sourceOrder[run.source]
  BY PlaceType DEF SearchOk, Answered, IInv, PlaceInv, StoredInv, TypeInv, Source
<1>2. /\ run' = [run EXCEPT !.source = @ + 1, !.has = @ \cup {src}]
      /\ burst' = [burst EXCEPT ![src] = 0] /\ look' = NoLook
      /\ UNCHANGED <<sourceOrder, record, result, unit, file, alive, auth>>
      /\ health' = [health EXCEPT ![src] = AfterSuccess(src)] \/ health' = health
  BY DEF SearchOk
<1> HIDE DEF src
<1>3. Sources' = Sources /\ \A r \in Rows : HasUnresolved(r)' = HasUnresolved(r)
  BY <1>2, SameRecords
<1>4. run.source + 1 \in 1..(Len(sourceOrder) + 1)
  BY <1>1, OrderType DEF IInv, RunType
<1>5. /\ run' \in RunType /\ run'.pc = "search" /\ run'.mode = run.mode /\ run'.row = run.row
      /\ run'.queue = run.queue /\ run'.resolving = {} /\ run'.targets = run.targets
      /\ run'.has = run.has \cup {src} /\ run'.source = run.source + 1
  BY <1>1, <1>2, <1>4 DEF RunType
<1>6. LookupInv' /\ look'.pc = "idle"
  BY <1>2, NoLookInv DEF IInv, LookupInv, LookupTypeOK, NoLook
<1>7. /\ health \in [Sources -> [known : BOOLEAN, consecutive : 0..Cap, proved : BOOLEAN]]
      /\ burst \in [Sources -> Nat]
  BY DEF IInv, TypeInv, TypeOK
<1>8. /\ AfterSuccess(src) \in [known : BOOLEAN, consecutive : 0..Cap, proved : BOOLEAN]
      /\ health' \in [Sources -> [known : BOOLEAN, consecutive : 0..Cap, proved : BOOLEAN]]
      /\ \A s \in Sources \ {src} : health'[s] = health[s]
  <2>1. health[src] \in [known : BOOLEAN, consecutive : 0..Cap, proved : BOOLEAN] /\ 0 \in 0..Cap
    BY <1>1, <1>7, CapType
  <2>2. AfterSuccess(src) \in [known : BOOLEAN, consecutive : 0..Cap, proved : BOOLEAN]
    BY <2>1 DEF AfterSuccess
  <2> QED
    BY <1>1, <1>2, <1>7, <2>2
<1>9. /\ burst' \in [Sources -> Nat] /\ burst'[src] = 0
      /\ \A s \in Sources \ {src} : burst'[s] = burst[s]
  BY <1>1, <1>2, <1>7
<1>10. TypeInv'
  <2>1. RunType' = RunType
    BY <1>2, <1>3 DEF RunType
  <2>2. TypeOK'
    BY <1>2, <1>3, <1>5, <1>6, <1>8, <2>1 DEF IInv, TypeInv, TypeOK, RunType, LookupInv
  <2> QED
    BY <1>2, <1>3, <1>5, <1>9, <2>1, <2>2 DEF IInv, TypeInv
<1>11. PlaceInv'
  BY <1>1, <1>5, <1>6 DEF PlaceInv
<1>12. StoredInv' /\ RetryInv'
  BY <1>1, <1>2, <1>5 DEF IInv, StoredInv, RetryInv
<1>13. SearchedInv'
  BY <1>1, <1>2, <1>5, OrderType DEF IInv, SearchedInv, RunType
<1>14. RowsInv'
  BY <1>1, <1>2, <1>3, <1>5 DEF IInv, RowsInv
<1>15. UnitInv' /\ ResolvedIsStored' /\ NoRowSlips'
  BY <1>2, <1>3, <1>5 DEF IInv, UnitInv, ResolvedIsStored, NoRowSlips, EndedWell
<1>16. BurstInv'
  <2>1. \A s \in Sources : burst'[s] <= health'[s].consecutive
    <3>1. TAKE s \in Sources
    <3>2. CASE s = src
      BY <1>1, <1>8, <1>9, <3>2, CapType
    <3>3. CASE s # src
      BY <1>8, <1>9, <3>3 DEF IInv, BurstInv
    <3> QED
      BY <3>2, <3>3
  <2> QED
    BY <1>3, <2>1 DEF BurstInv
<1> QED
  BY <1>6, <1>10, <1>11, <1>12, <1>13, <1>14, <1>15, <1>16 DEF IInv

\* A pair that is deferred again does not count again, so the count of its source
\* stays within the cap in a retry as well, whose pairs all have records.
LEMMA SearchDefersStep ==
  ASSUME IInv, SearchDefers
  PROVE  IInv'
<1> DEFINE src == Source
           new == IF record[run.row][src] = "none" THEN 1 ELSE 0
<1>1. /\ run.pc = "search" /\ look.pc = "done" /\ run.row \in Rows /\ run \in RunType
      /\ run.resolving = {} /\ src \in Sources /\ ~NotRetried(src)
  BY PlaceType DEF SearchDefers, Answered, IInv, PlaceInv, StoredInv, TypeInv
<1>2. /\ record' = [record EXCEPT ![run.row][src] = "unresolved"]
      /\ health' = [health EXCEPT ![src] = AfterDeferral(src)]
      /\ run' = [run EXCEPT !.pc = "row", !.row = @ + 1]
      /\ burst' = [burst EXCEPT ![src] = @ + new]
      /\ look' = NoLook /\ UNCHANGED <<sourceOrder, result, unit, file, alive, auth>>
      /\ run.mode = "retry" \/ health[src].consecutive < Cap
  BY DEF SearchDefers, MayDefer
<1>3. AfterDeferral(src) = [health[src] EXCEPT !.known = TRUE, !.consecutive = @ + new]
  BY DEF AfterDeferral
<1>4. run.mode = "retry" => record[run.row][src] = "unresolved"
  BY <1>1 DEF IInv, RetryInv, NotRetried, RunType
<1> HIDE DEF src
<1>5. /\ new \in {0, 1} /\ (new = 1 => health[src].consecutive < Cap)
  BY <1>2, <1>4
<1> HIDE DEF new
<1>6. Sources' = Sources
  BY <1>2 DEF Sources
<1>7. /\ record \in [Rows -> [Sources -> {"none", "unresolved", "resolved"}]]
      /\ health \in [Sources -> [known : BOOLEAN, consecutive : 0..Cap, proved : BOOLEAN]]
      /\ burst \in [Sources -> Nat]
  BY DEF IInv, TypeInv, TypeOK
<1>8. /\ record' \in [Rows -> [Sources -> {"none", "unresolved", "resolved"}]]
      /\ record'[run.row][src] = "unresolved"
      /\ \A r \in Rows, s \in Sources : record'[r][s] = record[r][s]
                                        \/ (r = run.row /\ record'[r][s] = "unresolved")
  BY <1>1, <1>2, <1>7
<1>9. /\ \A r \in Rows : HasUnresolved(r) => HasUnresolved(r)'
      /\ \A r \in Rows : r = run.row => HasUnresolved(r)'
  BY <1>1, <1>6, <1>8 DEF HasUnresolved
<1>10. run.row + 1 \in 1..(NRows + 1) /\ \A r \in Rows : r < run.row + 1 <=> r < run.row \/ r = run.row
  BY <1>1, RequiredSourcesAssumption DEF RunType, Rows
<1>11. /\ run' \in RunType /\ run'.pc = "row" /\ run'.mode = run.mode /\ run'.row = run.row + 1
       /\ run'.queue = run.queue /\ run'.resolving = {} /\ run'.targets = run.targets
  BY <1>1, <1>2, <1>10 DEF RunType
<1>12. LookupInv' /\ look'.pc = "idle"
  BY <1>2, NoLookInv DEF IInv, LookupInv, LookupTypeOK, NoLook
<1>13. /\ AfterDeferral(src) \in [known : BOOLEAN, consecutive : 0..Cap, proved : BOOLEAN]
       /\ AfterDeferral(src).consecutive = health[src].consecutive + new
  <2>1. /\ health[src] \in [known : BOOLEAN, consecutive : 0..Cap, proved : BOOLEAN]
        /\ health[src].consecutive + new \in 0..Cap
    BY <1>1, <1>5, <1>7, CapType
  <2> QED
    BY <1>3, <2>1
<1>14. /\ health' \in [Sources -> [known : BOOLEAN, consecutive : 0..Cap, proved : BOOLEAN]]
       /\ health'[src] = AfterDeferral(src)
       /\ \A s \in Sources \ {src} : health'[s] = health[s]
  BY <1>1, <1>2, <1>7, <1>13
<1>15. /\ burst' \in [Sources -> Nat] /\ burst'[src] = burst[src] + new
       /\ \A s \in Sources \ {src} : burst'[s] = burst[s]
  BY <1>1, <1>2, <1>5, <1>7
<1>16. TypeInv'
  <2>1. RunType' = RunType
    BY <1>2, <1>6 DEF RunType
  <2>2. TypeOK'
    BY <1>2, <1>6, <1>8, <1>11, <1>12, <1>14 DEF IInv, TypeInv, TypeOK, RunType, LookupInv
  <2> QED
    BY <1>2, <1>6, <1>11, <1>15, <2>1, <2>2 DEF IInv, TypeInv
<1>17. PlaceInv' /\ SearchedInv' /\ NoRowSlips'
  BY <1>11, <1>12 DEF PlaceInv, SearchedInv, NoRowSlips, EndedWell
<1>18. StoredInv'
  BY <1>1, <1>2, <1>10, <1>11 DEF IInv, StoredInv, RunType
<1>19. RetryInv'
  <2>1. run.mode = "retry" =>
          \A r \in Rows : \A s \in run.targets[r] :
            r >= run.row + 1 \/ r \in run.queue => record'[r][s] = "unresolved"
    <3>1. SUFFICES ASSUME run.mode = "retry", NEW r \in Rows, NEW s \in run.targets[r],
                          r >= run.row + 1 \/ r \in run.queue
                   PROVE  record'[r][s] = "unresolved"
      OBVIOUS
    <3>2. s \in Sources
      BY <1>1 DEF RunType
    <3>3. r >= run.row \/ r \in run.queue
      BY <1>1, <3>1 DEF Rows
    <3>4. record[r][s] = "unresolved"
      BY <3>1, <3>3 DEF IInv, RetryInv
    <3> QED
      BY <1>8, <3>2, <3>4
  <2> QED
    BY <1>11, <2>1 DEF IInv, RetryInv
<1>20. RowsInv'
  BY <1>1, <1>2, <1>6, <1>9, <1>10, <1>11 DEF IInv, RowsInv
<1>21. UnitInv' /\ ResolvedIsStored'
  BY <1>2, <1>6, <1>8, <1>9 DEF IInv, UnitInv, ResolvedIsStored
<1>22. BurstInv'
  <2>1. \A s \in Sources : burst'[s] <= health'[s].consecutive
    <3>1. TAKE s \in Sources
    <3>2. burst[s] <= health[s].consecutive /\ health[s].consecutive \in 0..Cap
      BY <1>7 DEF IInv, BurstInv
    <3>3. CASE s = src
      BY <1>1, <1>5, <1>7, <1>13, <1>14, <1>15, <3>2, <3>3, CapType
    <3>4. CASE s # src
      BY <1>14, <1>15, <3>2, <3>4
    <3> QED
      BY <3>3, <3>4
  <2> QED
    BY <1>6, <2>1 DEF BurstInv
<1> QED
  BY <1>12, <1>16, <1>17, <1>18, <1>19, <1>20, <1>21, <1>22 DEF IInv

-----------------------------------------------------------------------------
(* A row is admitted, stored and resolved. *)

\* The sources a run over all rows has got answers from are all there are; a
\* retry leaves the records of its pairs as they are until the row is stored.
LEMMA AdmitRowStep ==
  ASSUME IInv, AdmitRow
  PROVE  IInv'
<1>1. /\ run.pc = "search" /\ run.source > Len(sourceOrder) /\ run.row \in Rows
      /\ run.resolving = {} /\ run \in RunType /\ look.pc = "idle"
  BY OrderType DEF AdmitRow, IInv, PlaceInv, StoredInv, TypeInv, RunType
<1>2. /\ unit' = [unit EXCEPT ![run.row] = [pending |-> TRUE, has |-> run.has]]
      /\ run' = [run EXCEPT !.pc = "row", !.queue = @ \cup {run.row}, !.row = @ + 1]
      /\ UNCHANGED <<sourceOrder, record, health, result, burst, lookup>>
  BY DEF AdmitRow
<1>3. Sources' = Sources /\ \A r \in Rows : HasUnresolved(r)' = HasUnresolved(r)
  BY <1>2, SameRecords
<1>4. run.row + 1 \in 1..(NRows + 1) /\ \A r \in Rows : r < run.row + 1 <=> r < run.row \/ r = run.row
  BY <1>1, RequiredSourcesAssumption DEF RunType, Rows
<1>5. /\ run' \in RunType /\ run'.pc = "row" /\ run'.mode = run.mode /\ run'.row = run.row + 1
      /\ run'.queue = run.queue \cup {run.row} /\ run'.resolving = {} /\ run'.targets = run.targets
  BY <1>1, <1>2, <1>4 DEF RunType
<1>6. LookupInv' /\ look'.pc = "idle"
  BY <1>1, <1>2 DEF IInv, LookupInv, LookupTypeOK, LookOK, Authorized, LookupIsHonest,
         CardsAreAuthorized, GuestHasCause, FailureSaysNothing, TendersAreRead, Found, lookup
<1>7. /\ unit \in [Rows -> [pending : BOOLEAN, has : SUBSET Sources]]
      /\ result \in [Rows -> SUBSET Sources] /\ run.has \subseteq Sources
  BY <1>1 DEF IInv, TypeInv, TypeOK, RunType
<1>8. /\ unit' \in [Rows -> [pending : BOOLEAN, has : SUBSET Sources]]
      /\ \A r \in Rows : r = run.row => unit'[r].pending /\ unit'[r].has = run.has
      /\ \A r \in Rows : r # run.row => unit'[r] = unit[r]
  BY <1>1, <1>2, <1>7
<1>9. TypeInv'
  <2>1. RunType' = RunType
    BY <1>2, <1>3 DEF RunType
  <2>2. TypeOK'
    BY <1>2, <1>3, <1>5, <1>6, <1>8, <2>1 DEF IInv, TypeInv, TypeOK, RunType, LookupInv
  <2> QED
    BY <1>2, <1>3, <1>5, <2>1, <2>2 DEF IInv, TypeInv
<1>10. PlaceInv' /\ SearchedInv' /\ NoRowSlips'
  BY <1>5, <1>6 DEF PlaceInv, SearchedInv, NoRowSlips, EndedWell
<1>11. StoredInv'
  <2>1. \A r \in Rows : unit'[r].pending => result[r] \subseteq unit'[r].has
    BY <1>1, <1>8 DEF IInv, StoredInv
  <2>2. \A r \in run'.queue : unit'[r].pending /\ r < run.row + 1
    BY <1>1, <1>4, <1>5, <1>8 DEF IInv, StoredInv, RunType
  <2> QED
    BY <1>2, <1>5, <2>1, <2>2 DEF StoredInv
<1>12. run.has = Sources \/ HasUnresolved(run.row)
  <2>1. CASE run.mode = "retry"
    <3>1. PICK s : s \in run.targets[run.row]
      BY <1>1, <2>1 DEF IInv, RetryInv
    <3>2. s \in Sources
      BY <1>1, <3>1 DEF RunType
    <3>3. record[run.row][s] = "unresolved"
      BY <1>1, <2>1, <3>1 DEF IInv, RetryInv, Rows
    <3> QED
      BY <3>2, <3>3 DEF HasUnresolved
  <2>2. CASE run.mode # "retry"
    <3>1. \A i \in 1..Len(sourceOrder) : sourceOrder[i] \in run.has
      BY <1>1, <2>2, OrderType DEF IInv, SearchedInv, RunType
    <3>2. \A s \in Sources : s \in run.has
      BY <3>1, OrderType DEF IInv
    <3> QED
      BY <1>7, <3>2
  <2> QED
    BY <2>1, <2>2
<1>13. UnitInv'
  <2>1. \A r \in Rows : unit'[r].pending => unit'[r].has = Sources \/ HasUnresolved(r)
    BY <1>1, <1>8, <1>12 DEF IInv, UnitInv
  <2> QED
    BY <1>3, <2>1 DEF UnitInv
<1>14. RetryInv'
  <2>1. \A r \in Rows : r >= run.row + 1 => r >= run.row
    BY <1>1 DEF Rows
  <2>2. run.row >= run.row
    BY <1>1 DEF Rows
  <2> QED
    BY <1>1, <1>2, <1>5, <2>1, <2>2 DEF IInv, RetryInv
<1>15. RowsInv'
  BY <1>1, <1>2, <1>3, <1>4, <1>5 DEF IInv, RowsInv
<1>16. ResolvedIsStored' /\ BurstInv'
  BY <1>2, <1>3 DEF IInv, ResolvedIsStored, BurstInv
<1> QED
  BY <1>6, <1>9, <1>10, <1>11, <1>13, <1>14, <1>15, <1>16 DEF IInv

\* The result of a row only grows: its unit began with what was stored.
LEMMA StoreStep ==
  ASSUME IInv, NEW q \in Rows, Store(q)
  PROVE  IInv'
<1>1. /\ run.pc = "row" /\ q \in run.queue /\ run \in RunType /\ look.pc = "idle"
      /\ unit[q].pending /\ q < run.row /\ run.resolving = {}
  BY DEF Store, IInv, PlaceInv, StoredInv, TypeInv
<1> DEFINE pairs == {<<q, s>> : s \in run.targets[q] \cap unit[q].has}
<1>2. /\ result' = [result EXCEPT ![q] = unit[q].has]
      /\ unit' = [unit EXCEPT ![q] = NoUnit]
      /\ run' = [run EXCEPT !.pc = "resolve", !.queue = @ \ {q}, !.resolving = pairs]
      /\ UNCHANGED <<sourceOrder, record, health, burst, lookup>>
  BY DEF Store
<1>3. Sources' = Sources /\ \A r \in Rows : HasUnresolved(r)' = HasUnresolved(r)
  BY <1>2, SameRecords
<1>4. /\ unit \in [Rows -> [pending : BOOLEAN, has : SUBSET Sources]]
      /\ result \in [Rows -> SUBSET Sources]
  BY DEF IInv, TypeInv, TypeOK
<1>5. pairs \in SUBSET (Rows \X Sources)
  BY <1>4
<1>6. \A p \in pairs : p[1] = q /\ p[2] \in unit[q].has
  OBVIOUS
<1>7. run.mode # "retry" => pairs = {}
  BY DEF IInv, RetryInv
<1> HIDE DEF pairs
<1>8. /\ run' \in RunType /\ run'.pc = "resolve" /\ run'.mode = run.mode /\ run'.row = run.row
      /\ run'.queue = run.queue \ {q} /\ run'.resolving = pairs /\ run'.targets = run.targets
  BY <1>1, <1>2, <1>5 DEF RunType
<1>9. LookupInv' /\ look'.pc = "idle"
  BY <1>1, <1>2 DEF IInv, LookupInv, LookupTypeOK, LookOK, Authorized, LookupIsHonest,
         CardsAreAuthorized, GuestHasCause, FailureSaysNothing, TendersAreRead, Found, lookup
<1>10. /\ unit' \in [Rows -> [pending : BOOLEAN, has : SUBSET Sources]]
       /\ ~unit'[q].pending
       /\ \A r \in Rows : r # q => unit'[r] = unit[r]
  BY <1>2, <1>4 DEF NoUnit
<1>11. /\ result' \in [Rows -> SUBSET Sources]
       /\ result'[q] = unit[q].has
       /\ \A r \in Rows : r # q => result'[r] = result[r]
       /\ result[q] \subseteq result'[q]
  BY <1>1, <1>2, <1>4 DEF IInv, StoredInv
<1>12. TypeInv'
  <2>1. RunType' = RunType
    BY <1>2, <1>3 DEF RunType
  <2>2. TypeOK'
    BY <1>2, <1>3, <1>8, <1>9, <1>10, <1>11, <2>1 DEF IInv, TypeInv, TypeOK, RunType, LookupInv
  <2> QED
    BY <1>2, <1>3, <1>8, <2>1, <2>2 DEF IInv, TypeInv
<1>13. PlaceInv' /\ SearchedInv' /\ NoRowSlips'
  BY <1>8, <1>9 DEF PlaceInv, SearchedInv, NoRowSlips, EndedWell
<1>14. StoredInv'
  <2>1. \A r \in Rows : unit'[r].pending => result'[r] \subseteq unit'[r].has
    BY <1>10, <1>11 DEF IInv, StoredInv
  <2>2. \A r \in run'.queue : unit'[r].pending /\ r < run.row
    BY <1>1, <1>8, <1>10 DEF IInv, StoredInv, RunType
  <2>3. \A p \in pairs : p[2] \in result'[p[1]] /\ p[1] < run.row /\ ~unit'[p[1]].pending
    BY <1>1, <1>6, <1>10, <1>11
  <2> QED
    BY <1>8, <2>1, <2>2, <2>3 DEF StoredInv
<1>15. UnitInv'
  BY <1>3, <1>10 DEF IInv, UnitInv
<1>16. RetryInv'
  BY <1>1, <1>2, <1>7, <1>8 DEF IInv, RetryInv
<1>17. RowsInv'
  <2>1. unit[q].has = Sources \/ HasUnresolved(q)
    BY <1>1 DEF IInv, UnitInv
  <2> QED
    BY <1>1, <1>3, <1>8, <1>11, <2>1 DEF IInv, RowsInv
<1>18. ResolvedIsStored' /\ BurstInv'
  BY <1>2, <1>3, <1>11 DEF IInv, ResolvedIsStored, BurstInv
<1> QED
  BY <1>9, <1>12, <1>13, <1>14, <1>15, <1>16, <1>17, <1>18 DEF IInv

\* Only a retry resolves, and only pairs of a row it has stored.
LEMMA ResolveTargetStep ==
  ASSUME IInv, ResolveTarget
  PROVE  IInv'
<1>1. PICK p \in run.resolving :
        /\ record' = [record EXCEPT ![p[1]][p[2]] = IF @ = "unresolved" THEN "resolved" ELSE @]
        /\ run' = [run EXCEPT !.resolving = @ \ {p}]
  BY DEF ResolveTarget
<1>2. /\ run.pc = "resolve" /\ run \in RunType /\ look.pc = "idle"
      /\ UNCHANGED <<sourceOrder, health, result, unit, burst, lookup>>
  BY DEF ResolveTarget, IInv, PlaceInv, TypeInv
<1>3. /\ p[1] \in Rows /\ p[2] \in Sources
      /\ p[2] \in result[p[1]] /\ p[1] < run.row /\ ~unit[p[1]].pending
      /\ p[1] \notin run.queue /\ run.mode = "retry"
  BY <1>1, <1>2 DEF IInv, StoredInv, RetryInv, RunType
<1>4. Sources' = Sources
  BY <1>2 DEF Sources
<1>5. record \in [Rows -> [Sources -> {"none", "unresolved", "resolved"}]]
  BY DEF IInv, TypeInv, TypeOK
<1>6. /\ record' \in [Rows -> [Sources -> {"none", "unresolved", "resolved"}]]
      /\ \A r \in Rows : r # p[1] => record'[r] = record[r]
      /\ \A r \in Rows, s \in Sources :
           record'[r][s] = "resolved" => record[r][s] = "resolved" \/ (r = p[1] /\ s = p[2])
  BY <1>1, <1>3, <1>5
<1>7. /\ run' \in RunType /\ run'.pc = "resolve" /\ run'.mode = "retry" /\ run'.row = run.row
      /\ run'.queue = run.queue /\ run'.resolving = run.resolving \ {p}
      /\ run'.targets = run.targets
  BY <1>1, <1>2, <1>3 DEF RunType
<1>8. LookupInv' /\ look'.pc = "idle"
  BY <1>2 DEF IInv, LookupInv, LookupTypeOK, LookOK, Authorized, LookupIsHonest,
         CardsAreAuthorized, GuestHasCause, FailureSaysNothing, TendersAreRead, Found, lookup
<1>9. \A r \in Rows : r # p[1] => HasUnresolved(r)' = HasUnresolved(r)
  BY <1>4, <1>6 DEF HasUnresolved
<1>10. TypeInv'
  <2>1. RunType' = RunType
    BY <1>2, <1>4 DEF RunType
  <2>2. TypeOK'
    BY <1>2, <1>4, <1>6, <1>7, <1>8, <2>1 DEF IInv, TypeInv, TypeOK, RunType, LookupInv
  <2> QED
    BY <1>2, <1>4, <1>7, <2>1, <2>2 DEF IInv, TypeInv
<1>11. PlaceInv' /\ SearchedInv' /\ RowsInv' /\ NoRowSlips'
  BY <1>7, <1>8 DEF PlaceInv, SearchedInv, RowsInv, NoRowSlips, EndedWell
<1>12. StoredInv'
  BY <1>2, <1>7 DEF IInv, StoredInv
<1>13. UnitInv'
  <2>1. \A r \in Rows : unit[r].pending => r # p[1]
    BY <1>3
  <2> QED
    BY <1>2, <1>4, <1>9, <2>1 DEF IInv, UnitInv
<1>14. RetryInv'
  <2>1. \A r \in Rows : r >= run.row \/ r \in run.queue => r # p[1]
    BY <1>2, <1>3 DEF Rows, RunType
  <2>2. \A r \in Rows : \A s \in run.targets[r] :
          r >= run.row \/ r \in run.queue => record'[r][s] = "unresolved"
    BY <1>3, <1>6, <2>1 DEF IInv, RetryInv
  <2> QED
    BY <1>7, <2>2 DEF RetryInv
<1>15. ResolvedIsStored' /\ BurstInv'
  BY <1>2, <1>3, <1>4, <1>6 DEF IInv, ResolvedIsStored, BurstInv
<1> QED
  BY <1>8, <1>10, <1>11, <1>12, <1>13, <1>14, <1>15 DEF IInv

-----------------------------------------------------------------------------
(* Theorems. *)

LEMMA InitInv == Init => IInv
<1> SUFFICES ASSUME Init PROVE IInv
  OBVIOUS
<1>1. 1 \in 1..(Len(sourceOrder) + 1) /\ 1 \in 1..(NRows + 1)
  <2>1. sourceOrder \in Seq(SourceNames)
    BY RequiredSourcesAssumption DEF Init, SourceNames
  <2>2. Len(sourceOrder) \in Nat
    BY <2>1
  <2> QED
    BY <2>2, RequiredSourcesAssumption
<1>2. /\ run \in RunType /\ run.pc = "off" /\ run.mode = "off" /\ run.queue = {}
      /\ run.resolving = {} /\ \A r \in Rows : run.targets[r] = {}
  BY <1>1 DEF Init, Off, RunType, Statuses, Modes
<1>3. LookupInv /\ look.pc = "idle"
  <2>1. look \in LookType /\ look.pc = "idle" /\ look.items = "none" /\ look.src = "none"
    BY FreshLook DEF Init, LookupInit, NoLook, SourceNames
  <2>2. LookOK /\ LookupIsHonest
    BY <2>1 DEF LookOK, LookupIsHonest, CardsAreAuthorized, GuestHasCause, FailureSaysNothing,
                TendersAreRead, Found
  <2> QED
    BY <2>1, <2>2 DEF LookupInv, LookupTypeOK, LookType, Init, LookupInit, NoAuth
<1>4. TypeInv
  <2>1. 0 \in 0..Cap
    BY CapType
  <2>2. TypeOK
    BY <1>1, <1>2, <1>3, <2>1 DEF Init, TypeOK, RunType, LookupInv, NoUnit
  <2> QED
    BY <1>2, <2>2 DEF TypeInv, Init
<1>5. PlaceInv /\ StoredInv /\ UnitInv /\ RetryInv /\ SearchedInv /\ RowsInv
  BY <1>2, <1>3 DEF Init, NoUnit, PlaceInv, StoredInv, UnitInv, RetryInv, SearchedInv, RowsInv
<1>6. BurstInv /\ ResolvedIsStored /\ NoRowSlips
  BY <1>2 DEF Init, BurstInv, ResolvedIsStored, NoRowSlips, EndedWell
<1> QED
  BY <1>3, <1>4, <1>5, <1>6 DEF IInv

LEMMA Inductive == IInv /\ [Next]_vars => IInv'
<1> SUFFICES ASSUME IInv, [Next]_vars PROVE IInv'
  OBVIOUS
<1>1. CASE UNCHANGED vars
  <2>1. UNCHANGED rows /\ UNCHANGED lookup
    BY <1>1 DEF vars
  <2>2. LookupInv'
    BY <2>1 DEF IInv, LookupInv, LookupTypeOK, LookOK, Authorized, LookupIsHonest,
         CardsAreAuthorized, GuestHasCause, FailureSaysNothing, TendersAreRead, Found, lookup
  <2>3. PlaceInv'
    BY <2>1 DEF IInv, PlaceInv, rows, durable, lookup, Source, NotRetried
  <2> QED
    BY <2>1, <2>2, <2>3, LookOnlyStep
<1>2. CASE Next
  BY <1>2, StartStep, GuardStep, BeginRowStep, PassOverStep, SearchStep, SearchGoesOn, SessionGone,
     SearchOkStep, SearchDefersStep, StopStep, AdmitRowStep, StoreStep, ResolveTargetStep,
     DrainNextStep, FinishStep, KillStep DEF Next
<1> QED
  BY <1>1, <1>2

LEMMA Invariance == Spec => []IInv
BY InitInv, Inductive, PTL DEF Spec

\* Every variable of the searches and of the run keeps its type.
THEOREM TypeCorrect == Spec => []TypeOK
<1>1. IInv => TypeOK
  BY DEF IInv, TypeInv
<1> QED
  BY <1>1, Invariance, PTL

\* No search claims more than it saw: a card counts as found only when it was read
\* in an authorized session, a guest's answer has a cause, a source that failed
\* says of no contact that there is none, and a tender search is no success when a
\* page of it failed (SourceResult and the searches under src/app/sources/).
THEOREM ResultsAreHonest == Spec => []LookupIsHonest
<1>1. IInv => LookupIsHonest
  BY DEF IInv, LookupInv
<1> QED
  BY <1>1, Invariance, PTL

\* Over any number of runs and kills, a deferred pair is resolved only when its
\* source is in the stored result, a run over all rows that ends well leaves no row
\* without its sources or an open record, and a source that does not answer defers
\* no more rows than the cap (required_source_deferred.py).
THEOREM DeferralSafe == Spec => []DeferralIsSafe
<1>1. IInv => DeferralIsSafe
  <2>1. ASSUME IInv PROVE BurstIsBounded
    <3>1. SUFFICES ASSUME NEW s \in Sources PROVE burst[s] <= Cap
      BY DEF BurstIsBounded
    <3>2. burst[s] <= health[s].consecutive /\ burst[s] \in Nat /\ health[s].consecutive \in 0..Cap
      BY <2>1 DEF IInv, BurstInv, TypeInv, TypeOK
    <3> QED
      BY <3>2, CapType
  <2> QED
    BY <2>1 DEF IInv, DeferralIsSafe
<1> QED
  BY <1>1, Invariance, PTL
=============================================================================
