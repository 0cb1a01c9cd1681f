---------------------------- MODULE SourceLookup ----------------------------
(* The search of one company in one source (src/app/sources/): a listing page,
   the page of the company, and for rusprofile an authorized session that is
   looked up first, kept in a profile file, and looked up again when the page of
   the company turns out to be a guest's.

   Sites answer what they like.  A session is an id the site gives out at a
   login and ends when it likes; the process holds one in its cookie jar, the
   profile file another.  Sources on worker lanes are searched ahead of their
   row; here a row is searched when its turn comes, which the outcomes do not
   tell apart.                                                              *)
EXTENDS SourceStatus, TenderSearch

CONSTANTS
  FailuresSeen,     \* which of Failures the sites produce
  TenderPagesSeen,  \* which of Pages bicotender shows
  NBatches          \* keyword batches of a tender search

ASSUME LookupAssumption ==
  /\ FailuresSeen \subseteq Failures
  /\ TenderPagesSeen \subseteq Pages
  /\ NBatches \in Nat \ {0}

VARIABLES
  file,             \* the session in the profile file, on disk
  alive,            \* sessions the site still honours
  auth,             \* RusprofileSource: _auth_checked, _auth_ok, _profile_loaded, the jar
  look              \* the search that is going on

lookup == <<file, alive, auth, look>>

NoSession == 0
Sessions == 1..3    \* ids are used again once neither jar nor file has them
NoAuth == [checked |-> FALSE, ok |-> FALSE, loaded |-> FALSE, jar |-> NoSession]

\* read, lapsed: what happened, for the properties.
NoLook == [src |-> "none", pc |-> "idle", tries |-> 0, allowed |-> 1, refresh |-> FALSE,
           status |-> "pending", detail |-> "none", items |-> "none", phone |-> "unknown",
           read |-> "none", lapsed |-> FALSE, tender |-> NewSearch]

LookupTypeOK ==
  /\ file \in {NoSession} \cup Sessions /\ alive \subseteq Sessions
  /\ auth \in [checked : BOOLEAN, ok : BOOLEAN, loaded : BOOLEAN, jar : {NoSession} \cup Sessions]
  /\ look.pc \in {"idle", "probe", "login", "verify", "listing", "entity", "again",
                  "tenders", "done", "raised"}
  /\ look.items \in {"open", "masked", "none"}
  /\ look.phone \in {"open", "masked", "absent", "blocked", "unknown"}

LookupInit == file = NoSession /\ alive = {} /\ auth = NoAuth /\ look = NoLook

\* A process starts: the file is all it knows.
LookupReset == auth' = NoAuth /\ look' = NoLook

-----------------------------------------------------------------------------
(* How a search ends. *)

\* mark_source_blocked: every field is blocked.
Blocked(l, status, detail) ==
  [l EXCEPT !.pc = "done", !.status = status, !.detail = detail, !.phone = "blocked"]

\* finalize_source_availability; a mismatch clears the contacts.
Ended(l, status, items, explicit) ==
  [l EXCEPT !.pc = "done", !.status = status,
            !.items = IF status \in {"mismatch", "not_found"} THEN "none" ELSE items,
            !.phone = Finalized(status, items, explicit)]

NotFound(l) == Ended(l, "not_found", "none", "unknown")
To(l, place) == [l EXCEPT !.pc = place, !.tries = 0, !.allowed = 1]

\* zachestnyibiznes says blocked of every failure, checko maps some.
Failed(l, f) ==
  CASE l.src = "zachestnyibiznes"                                -> Blocked(l, "blocked", f.detail)
    [] l.src = "checko" /\ f.status \in {"bot_gate", "http_403"} -> Blocked(l, "blocked", f.detail)
    [] OTHER                                                     -> Blocked(l, f.status, f.detail)

\* A request of the search fails, or is repeated when its source takes the
\* failure for transient.
AfterFailure(f) ==
  LET n == Attempts(look.src, f)
      allowed == IF n > look.allowed THEN n ELSE look.allowed IN
  IF n > 1 /\ look.tries + 1 < allowed
    THEN [look EXCEPT !.tries = @ + 1, !.allowed = allowed]
  ELSE Failed(look, f)

FailedRequests == {AfterFailure(f) : f \in FailuresSeen}

-----------------------------------------------------------------------------
(* The session of rusprofile. *)

\* Where a search starts: list_org has its file and no requests.
FirstPlace(s) ==
  CASE s = "rusprofile" -> IF auth.checked THEN "listing" ELSE "probe"
    [] s = "bicotender" -> "tenders"
    [] OTHER            -> "listing"

\* A failed authentication stands for the rest of the process.
BeginLookup(s) ==
  /\ look.pc = "idle"
  /\ look' = IF s = "rusprofile" /\ auth.checked /\ ~auth.ok
               THEN Blocked([NoLook EXCEPT !.src = s], "auth_failed", "other")
             ELSE [NoLook EXCEPT !.src = s, !.pc = FirstPlace(s)]
  /\ UNCHANGED <<file, alive, auth>>

Authorized(jar) == jar \in alive
Place == IF look.refresh THEN "again" ELSE "listing"

\* _ensure_authenticated marks itself checked; _save_session_profile.
SignedIn(a) ==
  /\ auth' = [a EXCEPT !.checked = TRUE, !.ok = TRUE]
  /\ file' = a.jar
  /\ look' = [To(look, Place) EXCEPT !.lapsed = FALSE]

NotSignedIn(a) ==
  /\ auth' = [a EXCEPT !.checked = TRUE, !.ok = FALSE]
  /\ look' = Blocked(look, "auth_failed", "other")
  /\ UNCHANGED file

\* _load_profile_fallback: once per authentication, whatever the jar holds.
Loaded == IF ~auth.loaded /\ file # NoSession
            THEN [auth EXCEPT !.loaded = TRUE, !.jar = file] ELSE auth

\* The probe page: it may not come, or not show its state.
Probe ==
  /\ look.pc = "probe"
  /\ \/ Authorized(Loaded.jar) /\ SignedIn(Loaded)
     \/ auth' = Loaded /\ look' = To(look, "login") /\ UNCHANGED file
  /\ UNCHANGED alive

\* _attempt_login.  The captcha is solved or not (an exception), the second post
\* is refused or not; no credentials, no token and no key are refusals.
NewSession == CHOOSE n \in Sessions : n \notin {auth.jar, file}

LoginGranted ==
  /\ look.pc = "login"
  /\ auth' = [auth EXCEPT !.jar = NewSession]
  /\ alive' = (alive \cap {file}) \cup {NewSession}
  /\ look' = To(look, "verify")
  /\ UNCHANGED file

LoginRefused == look.pc = "login" /\ NotSignedIn(auth) /\ UNCHANGED alive

\* CapMonsterProvider.solve fails or times out, or the post does: nothing in
\* search() catches it.
LoginRaises ==
  /\ look.pc = "login"
  /\ look' = [look EXCEPT !.pc = "raised"]
  /\ UNCHANGED <<file, alive, auth>>

\* The probe page again.  The profile that could still be loaded here was there
\* for the first probe as well.
Verify ==
  /\ look.pc = "verify"
  /\ \/ Authorized(auth.jar) /\ SignedIn(auth)
     \/ NotSignedIn(auth)
  /\ UNCHANGED alive

\* The site ends a session.
SessionEnds ==
  /\ \E n \in alive :
       /\ alive' = alive \ {n}
       /\ look' = IF look.src = "rusprofile" /\ n = auth.jar THEN [look EXCEPT !.lapsed = TRUE] ELSE look
  /\ UNCHANGED <<file, auth>>

-----------------------------------------------------------------------------
(* The listing: what the page shows of the company. *)

ListingPages == {"card", "link", "none", "none_said", "gate"}
Missing(a) == a \in {"none", "none_said"}

\* list_org shows what the snapshot has; no session is looked at yet.
ListedOffline(a) ==
  CASE a = "card" -> Ended(look, "success", "open", "unknown")
    [] a = "link" -> Ended(look, "success", "none", "unknown")
    [] Missing(a) -> NotFound(look)
    [] a = "gate" -> [Blocked(look, "not_configured", "other") EXCEPT !.phone = "unknown"]

Leads(a) == \/ a = "link"
            \/ a = "card" /\ look.src \in {"rusprofile", "checko"}

AfterListing(a) ==
  IF look.src = "list_org" THEN ListedOffline(a)
  ELSE IF Leads(a) THEN To(look, "entity")
  ELSE IF look.src \in {"rusprofile", "spark"} \/ a = "none_said" THEN NotFound(look)
  ELSE Blocked(look, "blocked", "other")

\* The snapshot of list_org fails no request.
Listing ==
  /\ look.pc = "listing"
  /\ look' \in {AfterListing(a) : a \in ListingPages}
                \cup (IF look.src = "list_org" THEN {} ELSE FailedRequests)
  /\ UNCHANGED <<file, alive, auth>>

-----------------------------------------------------------------------------
(* The page of the company: its own, with a phone, with a masked one or none,
   another company's, no card, or a gate. *)

EntityPages == {"own", "own_masked", "own_bare", "other", "nocard", "gate"}
Items(a) == CASE a = "own" -> "open" [] a = "own_masked" -> "masked" [] OTHER -> "none"
Own(a) == a \in {"own", "own_masked", "own_bare"}

\* detect_page_access_state: neither mark of the state has to be on a page, or to
\* be readable; a gate has none.
PageStates(a) ==
  {"unknown"} \cup
    (IF a = "gate" THEN {} ELSE {IF Authorized(auth.jar) THEN "authorized" ELSE "guest"})

\* parse_company_payload: a page that is not known to be of an authorized session,
\* and what stays masked, is a guest's.
AfterCard(a, shown) ==
  LET l == [look EXCEPT !.read = shown] IN
  IF ~Own(a) THEN Ended(l, "mismatch", "none", "unknown")
  ELSE IF shown # "authorized" \/ a = "own_masked" THEN Ended(l, "guest", Items(a), "masked")
  ELSE Ended(l, "success", Items(a), "absent")

AfterSpark(a) ==
  IF ~Own(a) THEN Ended(look, "mismatch", "none", "unknown")
  ELSE IF a = "own_masked" THEN Ended(look, "guest", "none", "masked")
  ELSE Ended(look, "success", Items(a), "unknown")

AfterPublicPage(a) ==
  IF a \in {"gate", "nocard"} THEN Blocked(look, "blocked", "other")
  ELSE IF a = "other" THEN Ended(look, "mismatch", "none", "unknown")
  ELSE Ended(look, "success", IF a = "own" THEN "open" ELSE "none", "unknown")

AfterEntity(a) ==
  CASE look.src = "spark"      -> AfterSpark(a)
    [] look.src = "rusprofile" -> AfterCard(a, "authorized")
    [] OTHER                   -> AfterPublicPage(a)

Entity ==
  /\ look.pc = "entity"
  /\ look' \in {AfterEntity(a) : a \in {x \in EntityPages :
                     look.src = "rusprofile" => "authorized" \in PageStates(x)}} \cup FailedRequests
  /\ UNCHANGED <<file, alive, auth>>

\* Mutant of ResetAuth: the old word on the session stands.
ResetProfileOnly == [auth EXCEPT !.loaded = FALSE]

\* _reset_auth_state before the session is looked up again.
ResetAuth == [NoAuth EXCEPT !.jar = auth.jar]

\* _ensure_logged_entity_response: the page that came is not known to be of an
\* authorized session, which any page may fail to show.
EntityOfGuest ==
  /\ look.pc = "entity" /\ look.src = "rusprofile"
  /\ auth' = ResetAuth
  /\ look' = [To(look, IF auth'.checked THEN "again" ELSE "probe")
                EXCEPT !.refresh = TRUE, !.lapsed = FALSE]
  /\ UNCHANGED <<file, alive>>

EntityAgain ==
  /\ look.pc = "again"
  /\ \/ \E a \in EntityPages : \E shown \in PageStates(a) : look' = AfterCard(a, shown)
     \/ look' \in FailedRequests
  /\ UNCHANGED <<file, alive, auth>>

-----------------------------------------------------------------------------
(* The tender list. *)

TenderPage(p) ==
  LET t == AfterPage(look.tender, p) IN
  [look EXCEPT !.tender = t,
               !.pc = IF EndsAfter(look.tender, p, NBatches) THEN "done" ELSE @,
               !.status = IF EndsAfter(look.tender, p, NBatches) THEN SearchStatus(t) ELSE @]

Tenders ==
  /\ look.pc = "tenders"
  /\ \E p \in TenderPagesSeen : look' = TenderPage(p)
  /\ UNCHANGED <<file, alive, auth>>

LookupStep ==
  \/ Probe \/ LoginGranted \/ LoginRefused \/ LoginRaises \/ Verify
  \/ Listing \/ Entity \/ EntityOfGuest \/ EntityAgain \/ Tenders

-----------------------------------------------------------------------------
(* Properties. *)

Found(s) == look.pc = "done" /\ look.src = s

\* A card counts as found only when it was read in an authorized session, however
\* often the session ended on the way.
CardsAreAuthorized ==
  Found("rusprofile") /\ look.status = "success" => look.read = "authorized"

\* A session that ended once does not stop the run: rusprofile answers as to a
\* guest only after its session was looked up for this card, and then the session
\* ended again or the page did not show its state; or an authorized card is masked.
GuestHasCause ==
  Found("rusprofile") /\ look.status = "guest" =>
    look.read = "authorized" \/ (look.refresh /\ (look.lapsed \/ look.read = "unknown"))

\* A source that failed says of no contact that the company has none.
FailureSaysNothing ==
  look.pc = "done" /\ FailFast(look.src, look.status) /\ look.status # "guest" =>
    look.phone \in {"blocked", "unknown"} /\ look.items = "none"

\* A search of tenders is a success only if no page of it failed.
TendersAreRead ==
  Found("bicotender") /\ look.status = "success" => ~look.tender.errors

LookupIsHonest ==
  CardsAreAuthorized /\ GuestHasCause /\ FailureSaysNothing /\ TendersAreRead

=============================================================================
