------------------------------ MODULE SiteIdentity -----------------------------
(* Which sites may be a company's, and whether one is: the candidate sites
   drawn from what the sources say (app/discovery/domain_resolution.py), the
   geo admission (app/site_intelligence/geo_admission.py) and the scores and
   decisions on one site (app/site_intelligence/site_authenticity.py).  Scores
   are in thousandths.

   A company is a record of the site of its spreadsheet row, or "", and of the
   claims of its sources, in order: a claim names a source, what it claims (a
   "website", an "email" or a "phone"), the value and the domain it is of.  A
   site stands for its registered domain.  Addresses are scored and trusted as
   phones are and are left out.                                              *)
EXTENDS Integers, Sequences, SequencesExt, FiniteSets, FiniteSetsExt

CONSTANTS Overlap,     \* of a domain: how many words of the company's name it holds
          DomainOrder, \* all domains, in the order of their urls
          KeyOf        \* of a site as it may be spelled: its normalized url

ASSUME SiteIdentityAssumption ==
  /\ \A i, j \in DOMAIN DomainOrder : DomainOrder[i] = DomainOrder[j] => i = j
  /\ \A d \in ToSet(DomainOrder) : Overlap[d] \in Nat

Points(n, b) == IF b THEN n ELSE 0
Bounded(n, low, high) == Max({low, Min({high, n})})
Place(d) == CHOOSE i \in DOMAIN DomainOrder : DomainOrder[i] = d

OfClaims(kind, claims) == {c \in ToSet(claims) : c.kind = kind}
ValuesOf(kind, claims) == {c.value : c \in OfClaims(kind, claims)}
DomainsOf(kind, claims) == {c.domain : c \in OfClaims(kind, claims)}

-----------------------------------------------------------------------------
(* Candidate sites. *)

Input == "xlsx_input"
ClaimWeight(c) == IF c.source = Input        THEN 750
                  ELSE IF c.kind = "website" THEN 320
                  ELSE 240

\* the buckets of build_domain_resolution
Bucketed(d, claims) == SelectSeq(claims, LAMBDA c : c.domain = d /\ c.kind # "phone")
Claimants(d, kind, claims) ==
  {c.source : c \in {x \in ToSet(claims) : x.domain = d /\ x.kind = kind}}

Confidence(d, claims) ==
  LET web == Claimants(d, "website", claims)
  IN  Min({990, FoldLeft(LAMBDA n, c : n + ClaimWeight(c), 0, Bucketed(d, claims))
                  + Points(200, Cardinality(web) >= 2)
                  + Points(180, web # {} /\ Claimants(d, "email", claims) # {})
                  + Min({160, 80 * Overlap[d]}) + Points(80, Input \in web)})

DomainStatus(d, claims) ==
  LET web == Claimants(d, "website", claims)
      named == Overlap[d] > 0
  IN  IF web = {} /\ ~named                      THEN "rejected"
      ELSE IF \/ Input \in web \/ Cardinality(web) >= 2
              \/ /\ Claimants(d, "email", claims) # {} /\ named
                 /\ Confidence(d, claims) >= 550 THEN "verified"
      ELSE IF Confidence(d, claims) >= 280       THEN "candidate"
      ELSE "rejected"

KeptCandidates == 6

\* build_domain_resolution: what is not rejected, verified first, then by confidence
DomainCandidates(claims) ==
  LET claimed == DomainsOf("website", claims) \cup DomainsOf("email", claims)
      status == [d \in claimed |-> DomainStatus(d, claims)]
      sure == [d \in claimed |-> Confidence(d, claims)]
      kept == {d \in claimed : status[d] # "rejected"}
      Before(d, e) ==
        \/ status[d] = "verified" /\ status[e] # "verified"
        \/ /\ status[d] = status[e]
           /\ sure[d] > sure[e] \/ (sure[d] = sure[e] /\ Place(d) < Place(e))
      At(n) == CHOOSE d \in kept : Cardinality({e \in kept : Before(e, d)}) = n - 1
  IN  [n \in 1 .. Min({Cardinality(kept), KeptCandidates}) |-> At(n)]

\* selected_primary_domain
PrimaryDomain(claims) ==
  IF DomainCandidates(claims) = <<>> THEN "" ELSE DomainCandidates(claims)[1]

FirstOfEach(xs) ==
  FlattenSeq([i \in DOMAIN xs |-> IF \E j \in 1 .. i - 1 : xs[j] = xs[i] THEN <<>> ELSE <<xs[i]>>])

\* merge_contacts, the websites: those claimed, then those of the emails
MergedWebsites(claims) ==
  LET Named(kind) == FlattenSeq([i \in DOMAIN claims |->
                       IF claims[i].kind = kind THEN <<claims[i].domain>> ELSE <<>>])
  IN  FirstOfEach(Named("website") \o Named("email"))

CandidateLimit == 5

\* choose_candidate_sites: the candidates, or whatever was claimed if none was kept
ChooseCandidateSites(claims) ==
  LET found == IF DomainCandidates(claims) # <<>> THEN DomainCandidates(claims)
               ELSE MergedWebsites(claims)
  IN  SubSeq(found, 1, Min({Len(found), CandidateLimit}))

\* evaluate_geo_deep_parse_admission
SkipDeepParse(signal, allowed) ==
  /\ allowed # {}
  /\ signal.matched /\ signal.bucket # ""
  /\ signal.bucket \notin allowed

-----------------------------------------------------------------------------
(* One site.  A page is a record of how it answered, the site it is of in the
   end, the page at its root when it is missing (`home`, empty if there is
   none), the score of the name words it holds, whose INN it shows, its phones
   and emails, whether the title names the company, the points for its form and
   trade, and its hard negative signs.                                       *)

Missing(p) == {"http_404", "soft_404"} \cap p.hard # {}

\* _fallback_to_homepage_if_soft_404
Shown(p) ==
  IF Missing(p) /\ p.home # <<>> /\ ~Missing(p.home[1]) THEN p.home[1] ELSE p

\* _evaluate_site with extra pages: more text and contacts, the same signs
WithExtraPages(p, more) ==
  [p EXCEPT !.phones = UNION ({@} \cup {m.phones : m \in more}),
            !.emails = UNION ({@} \cup {m.emails : m \in more}),
            !.names = Max({@} \cup {m.names : m \in more}),
            !.inn = IF \E m \in more : m.inn = "own" THEN "own" ELSE @]

\* the flags of _identity_score
Flags(p, claims) ==
  [inn |-> p.inn = "own", names |-> p.names > 0, title |-> p.title,
   phone |-> p.phones \cap ValuesOf("phone", claims) # {},
   email |-> p.emails \cap ValuesOf("email", claims) # {},
   mail |-> p.final \in DomainsOf("email", claims),
   known |-> p.final \in DomainsOf("website", claims),
   input |-> Input \in Claimants(p.final, "website", claims)]

IdentityScore(p, f) ==
  Min({1000, p.names + Points(460, f.inn) + Points(220, f.phone) + Points(200, f.email)
               + Points(320, f.mail) + Points(220, f.known) + Points(300, f.input)
               + Points(80, f.mail /\ f.known) + Points(120, f.title)})

ViabilityScore(p) ==
  Bounded(p.form + Points(200, p.phones \cup p.emails # {})
            - Points(450, {"soft_404", "domain_parking"} \cap p.hard # {})
            - Points(200, "anti_bot_gate" \in p.hard), 0, 1000)

\* contacts that should agree with the known ones and do not
ConflictPenalty(p, f, claims) ==
  Min({650, Min({320, 110 * Cardinality(p.hard)}) + Points(220, p.inn = "other")
              + Points(80, ValuesOf("phone", claims) # {} /\ ~f.phone /\ p.phones # {})
              + Points(80, ValuesOf("email", claims) # {} /\ ~f.email /\ p.emails # {})
              + Points(80, ~f.names /\ ~f.inn)})

\* what _evaluate_site finds
Evaluated(p, claims) ==
  LET f == Flags(p, claims)
      raw == 58 * IdentityScore(p, f) + 22 * ViabilityScore(p) + 20 * p.trade
               - 100 * ConflictPenalty(p, f, claims)
  IN  [flags |-> f, identity |-> IdentityScore(p, f), viability |-> ViabilityScore(p),
       auth |-> Bounded((raw + 50) \div 100, 0, 1000),
       contacts |-> p.phones \cup p.emails # {}, hard |-> p.hard]

\* _derive_preparse_decision_status
PreparseStatus(e) ==
  LET strong == e.flags.inn \/ e.flags.mail \/ e.flags.known \/ e.flags.input
      medium == e.flags.phone \/ e.flags.email \/ e.flags.title
  IN  IF e.hard # {} THEN IF strong /\ e.auth >= 420 THEN "suspicious" ELSE "rejected"
      ELSE IF \/ strong /\ e.auth >= 420 /\ e.viability >= 160
              \/ strong /\ medium /\ e.auth >= 340 /\ e.viability >= 120
              \/ e.identity >= 520 /\ e.auth >= 500 /\ e.contacts THEN "candidate"
      ELSE IF e.auth <= 180 /\ e.identity < 120 /\ ~e.contacts THEN "rejected"
      ELSE "suspicious"

\* _derive_site_decision_status
SiteStatus(e) ==
  IF e.hard # {}                             THEN IF (e.flags.inn \/ e.flags.mail) /\ e.auth >= 450
                                                  THEN "suspicious" ELSE "rejected"
  ELSE IF e.auth >= 750 /\ e.identity >= 550 THEN "verified"
  ELSE IF e.auth >= 520                      THEN "candidate"
  ELSE IF e.auth >= 300                      THEN "suspicious"
  ELSE "rejected"

\* should_use_llm_review
NeedsReview(status, e) ==
  /\ status \in {"candidate", "suspicious"}
  /\ e.auth < 820
  /\ e.hard = {} \/ e.flags.inn \/ e.flags.mail
  /\ ~(e.flags.inn /\ e.auth >= 620)

\* what the model's word makes of the status; 550 is the least confidence heard
AfterReview(status, e, word) ==
  IF word.confidence < 550 THEN status
  ELSE IF word.belongs     THEN IF e.auth >= 620 THEN "verified"
                                ELSE IF status = "suspicious" THEN "candidate" ELSE status
  ELSE IF e.auth >= 500 THEN "suspicious" ELSE "rejected"

-----------------------------------------------------------------------------
(* Decisions: SiteDecision. *)

Decision(url, p, status) ==
  [url |-> url, final |-> p.final, decision |-> status, belongs |-> FALSE, by |-> "rules",
   phones |-> p.phones, emails |-> p.emails, hard |-> p.hard, inn |-> p.inn = "own"]

\* a page that could not be had
Unread(url, status, by) ==
  [url |-> url, final |-> "", decision |-> status, belongs |-> FALSE, by |-> by,
   phones |-> {}, emails |-> {}, hard |-> {}, inn |-> FALSE]

\* analyze_surface: never belongs, a candidate at best
AnalyzeSurface(url, p, claims) ==
  CASE p.status = "invalid_url" -> Unread(url, "rejected", "gate")
    [] p.status # "success"     -> Unread(url, "suspicious", "gate")
    [] OTHER -> [Decision(url, Shown(p), PreparseStatus(Evaluated(Shown(p), claims)))
                   EXCEPT !.by = "gate"]

\* analyze, as far as the rules go
AnalyzeByRules(url, p, more, claims) ==
  IF p.status # "success" THEN Unread(url, "rejected", "rules")
  ELSE LET page == WithExtraPages(Shown(p), more)
           status == SiteStatus(Evaluated(page, claims))
       IN  [Decision(url, page, status) EXCEPT !.belongs = status = "verified"]

\* final_url or url, normalized
SiteKey(d) == IF d.final # "" THEN KeyOf[d.final] ELSE KeyOf[d.url]

-----------------------------------------------------------------------------
(* Trusted contacts. *)

\* collect_contact_consensus: the values that two sources agree on
Consensus(kind, claims) ==
  LET said == {c \in OfClaims(kind, claims) : c.source # Input}
  IN  {v \in {c.value : c \in said} :
         Cardinality({c.source : c \in {x \in said : x.value = v}}) >= 2}

InputValues(kind, claims) ==
  {c.value : c \in {x \in OfClaims(kind, claims) : x.source = Input}}

\* build_trusted_contacts
TrustedContacts(claims, decisions) ==
  LET own == {d \in ToSet(decisions) : d.decision = "verified" \/ d.belongs}
      Base(kind) == InputValues(kind, claims) \cup Consensus(kind, claims)
      websites == Base("website") \cup {SiteKey(d) : d \in own}
      emails == Consensus("email", claims) \cup UNION {d.emails : d \in own}
      rescued == {c.value : c \in {x \in OfClaims("email", claims) :
                                     x.domain \in websites}}
  IN  [websites |-> websites, phones |-> Base("phone") \cup UNION {d.phones : d \in own},
       emails |-> IF emails # {} THEN emails ELSE rescued]
================================================================================
