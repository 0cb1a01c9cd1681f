------------------------------ MODULE CompanySites -----------------------------
(* The site intelligence of a company, from the claims of its sources to its
   lead cards: the candidate sites are looked at once
   (app/site_intelligence/preparse_trust_gate.py), those that may be the
   company's go to the factory site parser, are then judged in full with the
   help of the language model, and the records found on them are reviewed
   (_prepare_prefetched_company_downstream_execution and
   _consume_deep_parse_work_unit of run_company_enrichment_pipeline.py).  The
   budget of the model is that of the whole run: other companies draw on it at
   any time.  A dry run of the parser has neither gate nor review.           *)
EXTENDS SiteCrawl, SiteIdentity, ContentReview

CONSTANTS Companies,      \* the site of the row, as it is spelled there, and the claims
          DryRuns,        \* the site lists of dry runs
          FrontPage,          \* of a domain: what asking for its front page may give
          Extra,          \* of a domain: its contact pages
          GeoSignals, AllowedBuckets,
          Answers,        \* what the model may answer
          OthersCalls     \* bound: the calls of other companies

ASSUME CompanySitesAssumption ==
  /\ OthersCalls \in Nat
  /\ \A c \in Companies : c.claims \in Seq(ToSet(c.claims))

VARIABLES phase,   \* "start", "gate", "crawl", "check", "review", "end"
          study,   \* what is known of the company
          llm      \* the budget of the model

vars == <<sites, crawlVars, phase, study, llm>>

Nobody == [site |-> "", claims |-> <<>>]
NewStudy(c) == [company |-> c, todo |-> <<>>, surface |-> <<>>, opened |-> <<>>,
                pending |-> <<>>, heard |-> <<>>, validated |-> <<>>, plans |-> <<>>, probed |-> <<>>,
                trusted |-> <<>>, records |-> <<>>, next |-> 1, cards |-> <<>>, refresh |-> <<>>]
Claims == study.company.claims

Init ==
  /\ CrawlInit
  /\ study = NewStudy(Nobody)
  /\ llm = NewBudget
  /\ \/ dry = TRUE /\ phase = "crawl" /\ sites \in DryRuns
     \/ dry = FALSE /\ phase = "start" /\ sites = <<>>

-----------------------------------------------------------------------------
(* The gate. *)

ChooseSites(c) ==
  /\ phase = "start"
  /\ study' = [NewStudy(c) EXCEPT !.todo = ChooseCandidateSites(c.claims)]
  /\ phase' = "gate"
  /\ UNCHANGED <<sites, crawlVars, llm>>

\* gate_candidate_sites_before_deep_parse, one candidate.  The second of two
\* that lead to the same address leaves no decision behind.
SurfaceCheck ==
  /\ phase = "gate" /\ study.todo # <<>>
  /\ \E p \in FrontPage[Head(study.todo)] :
     LET d == AnalyzeSurface(Head(study.todo), p, Claims)
         known == \E i \in DOMAIN study.opened : SiteKey(study.opened[i]) = SiteKey(d)
     IN  study' = [study EXCEPT !.todo = Tail(@),
                     !.surface = IF d.decision = "candidate" THEN @ ELSE Append(@, d),
                     !.opened = IF d.decision = "candidate" /\ ~known THEN Append(@, d) ELSE @]
  /\ UNCHANGED <<sites, crawlVars, phase, llm>>

\* pending_surface: the decisions on the sites to be parsed, by their key; the
\* last one of a key stays, in the place of the first
PendingOf(ds, keys) ==
  LET Same(i) == {j \in DOMAIN ds : SiteKey(ds[j]) = SiteKey(ds[i])}
  IN  Those({i \in DOMAIN ds : SiteKey(ds[i]) \in keys /\ i = Min(Same(i))},
            [i \in DOMAIN ds |-> ds[Max(Same(i))]])

\* the end of the gate and _geo_deep_parse_admission_note; the parser is given
\* the site of the row before those the gate has passed (from_row)
AdmitSites(signal) ==
  /\ phase = "gate" /\ study.todo = <<>>
  /\ LET deep == IF SkipDeepParse(signal, AllowedBuckets) THEN <<>>
                 ELSE [i \in DOMAIN study.opened |-> SiteKey(study.opened[i])]
         all == study.surface \o study.opened
         input == IF study.company.site = "" THEN <<>> ELSE <<study.company.site>>
         next == [study EXCEPT !.pending = PendingOf(all, ToSet(deep)),
                    !.validated = Those({i \in DOMAIN all : SiteKey(all[i]) \notin ToSet(deep)}, all),
                    !.surface = <<>>, !.opened = deep]
     IN  IF deep = <<>>
         THEN /\ phase' = "end" /\ UNCHANGED sites
              /\ study' = [next EXCEPT !.trusted = TrustedContacts(Claims, next.validated)]
         ELSE /\ phase' = "crawl" /\ study' = next /\ sites' = FirstOfEach(input \o deep)
  /\ UNCHANGED <<crawlVars, llm>>

-----------------------------------------------------------------------------
(* The parser. *)

Crawl ==
  /\ phase = "crawl"
  /\ CrawlNext
  /\ UNCHANGED <<sites, phase, study, llm>>

\* allows_deep_check
AllowsDeepCheck(p) == p.probe = "success" /\ p.class \in {"A", "B", "C"} /\ p.worth # "false"

\* parse returns: its plans, probes and records are kept, the rest is gone
ParserReturns ==
  /\ phase = "crawl" /\ stage = "done" /\ ~dry
  /\ study' = [study EXCEPT
       !.plans = [i \in DOMAIN plans |-> [site |-> plans[i].site,
                                          allows |-> AllowsDeepCheck(plans[i])]],
       !.probed = [i \in DOMAIN plans |-> [site |-> plans[i].site, cadence |-> Cadence(plans[i])]],
       !.records = [i \in DOMAIN result.recs |->
                      LET r == result.recs[i]
                      IN  [site |-> r.site, url |-> r.url, family |-> r.family, kind |-> r.kind,
                           text |-> r.text, status |-> r.status, trust |-> r.trust,
                           label |-> "unknown", score |-> 0, review |-> <<>>]]]
  /\ phase' = "check"
  /\ plans' = <<>> /\ stage' = "planning" /\ trust' = <<>> /\ result' = [recs |-> <<>>]
  /\ crawl' = NewPass(TRUE, <<>>) /\ cheap' = NewPass(TRUE, <<>>)
  /\ UNCHANGED <<sites, planning, said, dry, browser, llm>>

-----------------------------------------------------------------------------
(* The full check of the planned sites, and the language model. *)

\* the second answer counts only where a second question is put
Seconds(kind, first) == IF Retried(kind, first) THEN Answers ELSE {first}

\* decide puts the same question once
Heard(question) == SelectSeq(study.heard, LAMBDA h : h.question = question)
AskAbout(question, first, second) ==
  IF Heard(question) # <<>>
  THEN Outcome(llm, "cached", "", 0, <<Heard(question)[1].word>>)
  ELSE Ask(llm, "site_decision", first, second)

\* analyze: the rules first, and the model where they are in doubt
Analyzed(d, e, first, second) ==
  LET question == <<d.final, e, d.phones, d.emails>>
      o == AskAbout(question, first, second)
      status == AfterReview(d.decision, e, o.word[1])
  IN  IF ~NeedsReview(d.decision, e) THEN [decision |-> d, llm |-> llm, heard |-> <<>>]
      ELSE IF o.word = <<>>          THEN [decision |-> d, llm |-> o.llm, heard |-> <<>>]
      ELSE [decision |-> [d EXCEPT !.decision = status, !.belongs = status = "verified",
                                   !.by = "llm"],
            llm |-> o.llm, heard |-> <<[question |-> question, word |-> o.word[1]]>>]

\* the decisions pending on the site of a key, and on the other sites
PendingAt(key) == Those({i \in DOMAIN study.pending : SiteKey(study.pending[i]) = key},
                        study.pending)
Waiting(key) == Those({i \in DOMAIN study.pending : SiteKey(study.pending[i]) # key},
                      study.pending)

\* Mutant of KeepSurface: the decision of the gate is dropped with the plan
KeepNothing ==
  /\ phase = "check" /\ study.plans # <<>> /\ ~Head(study.plans).allows
  /\ study' = [study EXCEPT !.plans = Tail(@), !.pending = Waiting(KeyOf[Head(study.plans).site])]
  /\ UNCHANGED <<sites, crawlVars, phase, llm>>

\* a site the parser could not probe keeps the decision of the gate, if any
KeepSurface ==
  /\ phase = "check" /\ study.plans # <<>> /\ ~Head(study.plans).allows
  /\ LET key == KeyOf[Head(study.plans).site]
     IN  study' = [study EXCEPT !.plans = Tail(@), !.pending = Waiting(key),
                                !.validated = @ \o PendingAt(key)]
  /\ UNCHANGED <<sites, crawlVars, phase, llm>>

\* e and a are bound to be evaluated once
CheckSite ==
  /\ phase = "check" /\ study.plans # <<>> /\ Head(study.plans).allows
  /\ LET key == KeyOf[Head(study.plans).site]
         Decided(d, heard) ==
           study' = [study EXCEPT !.plans = Tail(@), !.pending = Waiting(key),
                                  !.validated = Append(@, d), !.heard = @ \o heard]
     IN  \E p \in FrontPage[key], more \in SUBSET Extra[key] :
           \/ /\ p.status # "success" /\ UNCHANGED llm
              /\ Decided(AnalyzeByRules(key, p, more, Claims), <<>>)
           \/ /\ p.status = "success"
              /\ \E first \in Answers : \E second \in Seconds("site_decision", first) :
                 \E e \in {Evaluated(WithExtraPages(Shown(p), more), Claims)} :
                 \E a \in {Analyzed(AnalyzeByRules(key, p, more, Claims), e, first, second)} :
                   Decided(a.decision, a.heard) /\ llm' = a.llm
  /\ UNCHANGED <<sites, crawlVars, phase>>

\* what is left of the gate's decisions; no question about a site comes after
EndChecks ==
  /\ phase = "check" /\ study.plans = <<>>
  /\ LET all == study.validated \o study.pending
     IN  study' = [study EXCEPT !.validated = all, !.pending = <<>>, !.heard = <<>>,
                                !.trusted = TrustedContacts(Claims, all)]
  /\ phase' = "review"
  /\ UNCHANGED <<sites, crawlVars, llm>>

-----------------------------------------------------------------------------
(* The review of the records. *)

\* The outcome stays with the record (llm_review of its trace).
ReviewRecord ==
  LET i == study.next
      Becomes(r) == study' = [study EXCEPT !.next = @ + 1, !.records = [@ EXCEPT ![i] = r]]
  IN  /\ phase = "review" /\ i \in DOMAIN study.records
      /\ \E r \in {Classified(study.records[i])} :
           \/ ~NeedsRecordReview(r) /\ Becomes(r) /\ UNCHANGED llm
           \/ /\ NeedsRecordReview(r)
              /\ \E first \in Answers : \E second \in Seconds("content_review", first) :
                 \E o \in {JudgeRecord(llm, r, first, second)} :
                   /\ llm' = o.llm
                   /\ Becomes([(IF o.word = <<>> THEN r ELSE Relabelled(r, o.word[1]))
                                 EXCEPT !.review = <<[status |-> o.status, reason |-> o.reason]>>])
      /\ UNCHANGED <<sites, crawlVars, phase>>

Primary == PrimaryDomain(Claims)

Finish ==
  /\ phase = "review" /\ study.next > Len(study.records)
  /\ \E primary \in {Primary}, wanted \in {ToSet(ChooseCandidateSites(Claims))} :
       study' = [study EXCEPT !.cards = LeadCards(study.records, primary),
                            !.refresh = SelectSeq(study.probed, LAMBDA x : x.site \in wanted)]
  /\ phase' = "end"
  /\ UNCHANGED <<sites, crawlVars, llm>>

\* calls for other companies, in other threads; they come once while this
\* company is at it, OthersCalls of them
OthersAsk ==
  /\ phase \in {"check", "review"} /\ LlmEnabled
  /\ llm.made = llm.mine /\ llm.made + OthersCalls <= RunCap
  /\ llm' = [llm EXCEPT !.made = @ + OthersCalls]
  /\ UNCHANGED <<sites, crawlVars, phase, study>>

-----------------------------------------------------------------------------

Next ==
  \/ \E c \in Companies : ChooseSites(c)
  \/ SurfaceCheck
  \/ \E signal \in GeoSignals : AdmitSites(signal)
  \/ Crawl \/ ParserReturns
  \/ KeepSurface \/ CheckSite \/ EndChecks
  \/ ReviewRecord
  \/ Finish \/ OthersAsk

Spec == Init /\ [][Next]_vars

-----------------------------------------------------------------------------
(* Properties. *)

\* What is decided of the sites of a company holds together, though a site is
\* looked at up to three times, may be spelled in several ways, lead to another
\* candidate or answer differently each time.  No candidate is lost: there is a
\* decision on it, or on a site it led to.  A site is the company's only if it
\* was planned by the parser, its pages have no sign against it unless they show
\* the company's INN or an email of the sources is of its domain; and only what
\* the gate has passed was planned at all, but for the site of the row, which
\* the parser is given whatever the gate said of it (models.py:131).  A phone
\* is trusted if two sources or a site of the company's own agree to it
\* (preparse_trust_gate.py:563-597, site_authenticity.py:172-302,
\* run_company_enrichment_pipeline.py:1858-1967).
SitesAreJudged ==
  LET ds == ToSet(study.validated)
      planned == {study.probed[i].site : i \in DOMAIN study.probed}
      Finals(c) == {Shown(p).final : p \in FrontPage[c]} \ {""}
      Places(c) == {c, KeyOf[c]} \cup {KeyOf[f] : f \in Finals(c)}
      Told(v) == {x.source : x \in {y \in OfClaims("phone", Claims) :
                                      y.value = v /\ y.source # Input}}
  IN  phase = "end" /\ ~dry =>
        /\ study.pending = <<>>
        /\ \A c \in ToSet(ChooseCandidateSites(Claims)) :
             \E d \in ds : {d.url, SiteKey(d)} \cap Places(c) # {}
        /\ \A d \in ds : d.belongs <=> d.decision = "verified"
        /\ \A d \in ds : d.belongs =>
             /\ d.url \in {KeyOf[s] : s \in planned}
             /\ d.hard = {} \/ d.inn \/ d.final \in DomainsOf("email", Claims)
        /\ planned \subseteq ToSet(study.opened) \cup ({study.company.site} \ {""})
        /\ \A v \in study.trusted.phones :
             \/ Cardinality(Told(v)) >= 2 \/ v \in InputValues("phone", Claims)
             \/ \E d \in ds : d.belongs /\ v \in d.phones

\* The model is asked within the caps of the run and of the company, a slot for
\* every call, also for a second attempt; the cost is known as long as that of
\* every call is.  In the end each record in doubt has an outcome of its review,
\* only records of a trusted site were sent, nothing was skipped for a cap that
\* had not been reached, and each relevant finding has one card
\* (company_enrichment_core.py:4264-4321, 5218-5449, 5899-5939).
ReviewsAddUp ==
  LET recs == study.records
      Reviewed(r) == r.review # <<>>
      Card(r) == {i \in DOMAIN study.cards : study.cards[i].key = CardKey(r)}
  IN  /\ llm.made <= RunCap /\ llm.mine <= CompanyCap /\ llm.mine <= llm.made
      /\ llm.known + llm.unknown = llm.mine
      /\ llm.cost = IF llm.unknown > 0 THEN Unknown ELSE llm.known
      /\ phase = "end" => \A i \in DOMAIN recs :
           /\ recs[i].label = "maybe_relevant" => Reviewed(recs[i])
           /\ Reviewed(recs[i]) =>
                /\ \/ recs[i].trust = "trusted"
                   \/ recs[i].review[1].reason \in {"site_not_trusted", "llm_disabled"}
                /\ recs[i].review[1].reason = "run_cap_exhausted" => llm.made >= RunCap
                /\ recs[i].review[1].reason = "company_cap_exhausted" => llm.mine >= CompanyCap
           /\ Cardinality(Card(recs[i])) <= 1
           /\ MayLead(recs[i]) => Cardinality(Card(recs[i])) = 1

\* What is shared stays within its limits and adds up: the document queue of a
\* crawl, which its sites share, after every page (attachments.py:431-568); and
\* the calls of the model, which the companies share, to the last review.
BudgetsAddUp == DocumentsAccounted /\ ReviewsAddUp
================================================================================
