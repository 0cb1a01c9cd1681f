-------------------------------- MODULE SiteCrawl ------------------------------
(* The factory site parser of a company: its sites are planned, crawled once
   without browser, documents or heavy routes, judged by what those pages say,
   and the sites found to be the company's own are crawled again in full
   (app/site_intelligence/factory_site_parser/entrypoint.py, fetch.py,
   okved_match.py, store.py).  What a page says is the weight, in thousandths,
   it gives each group of signals; what a url answers is any answer of Serve.
   A plan keeps its site as it was spelled; the judgement goes by its normalized
   url (KeyOf).                                                              *)
EXTENDS SitePlan, SiteDocuments, SiteIdentity

CONSTANTS Serve,           \* of a url: the answers it may give
          Flaky,           \* the document urls that may not answer
          SignalCap,       \* GROUP_CAPS
          MaxSites, MaxRoutesPerSite, BrowserEnabled

VARIABLES dry,      \* whether this is a dry run
          stage,    \* "planning", "cheap", "judge", "full", "store", "done"
          crawl,    \* the pass in hand
          cheap,    \* the first pass, once it is over
          trust,    \* the sites judged, and what they are: FactorySiteFetchPolicy
          browser,  \* fetcher.playwright_enabled
          result

crawlVars == <<planning, said, plans, dry, stage, crawl, cheap, trust, browser, result>>

Positive == {"industrial", "product", "okved", "generic"}
Negative == {"dealer", "portal", "marketplace", "reseller", "unrelated"}
Signals == Positive \cup Negative
HeavyRoutes == HeavySections

\* An answer: whether a response came, its status, the file it is or "", the
\* text and signals of the page, its document links, and whether it takes a
\* browser to get it.
ASSUME SiteCrawlAssumption ==
  /\ MaxSites \in Nat \ {0} /\ MaxRoutesPerSite \in Nat \ {0}
  /\ BrowserEnabled \in BOOLEAN
  /\ \A u \in DOMAIN Serve : \A a \in Serve[u] :
       /\ a.file # "" => u \in DOMAIN File
       /\ a.links \in Seq(DOMAIN File)
       /\ DOMAIN a.signals \subseteq Signals
       /\ \A g \in DOMAIN a.signals : a.signals[g] \in Nat \ {0}

Total(S, f) == MapThenSumSet(LAMBDA g : f[g], S)
-----------------------------------------------------------------------------
(* Is it the company's site? *)

\* _match_record: what a page says of each group, up to its cap
Breakdown(a) == [g \in DOMAIN a.signals |-> Min({SignalCap[g], a.signals[g]})]

\* _aggregate_site_match: the strongest page, and two fifths of the next two
SiteSignals(recs) ==
  [g \in Signals |->
    LET heard == SelectSeq(recs, LAMBDA r : g \in DOMAIN r.signals)
        sorted == SortSeq([i \in DOMAIN heard |-> heard[i].signals[g]], LAMBDA a, b : a > b)
        more == SubSeq(sorted, 2, Min({3, Len(sorted)}))
    IN  IF heard = <<>> THEN 0
        ELSE Min({SignalCap[g], sorted[1] + (4 * FoldLeft(LAMBDA a, b : a + b, 0, more)) \div 10})]

\* _compute_score, _determine_verdict
SiteVerdict(recs) ==
  LET s == SiteSignals(recs)
      neg == Total(Negative, s)
      score == Max({0, Min({1000, 150 + Total(Positive, s) - neg})})
      anchor == s["industrial"] >= 140 \/ s["okved"] >= 280
      substantive == s["product"] >= 220 \/ s["okved"] >= 280
      overlap == \E i \in DOMAIN recs : recs[i].overlap
      business == s["industrial"] + s["product"] + s["okved"]
  IN  IF recs = <<>>                                                THEN "uncertain"
      ELSE IF neg >= 550 /\ score < 600                             THEN "mismatch"
      ELSE IF /\ \E g \in Negative : s[g] >= 300
              /\ neg >= Max({350, business - 100})                  THEN "mismatch"
      ELSE IF score >= 760 /\ anchor /\ substantive /\ neg < 280    THEN "strong_match"
      ELSE IF /\ score >= 560 /\ neg < 400
              /\ anchor \/ s["product"] >= 180 \/ s["okved"] >= 200 THEN "weak_match"
      ELSE IF \/ score >= 320 \/ s["generic"] >= 60
              \/ overlap /\ ~substantive                            THEN "uncertain"
      ELSE "mismatch"

\* factory_site_trust_state_from_verdict
TrustState(verdict) ==
  CASE verdict \in {"strong_match", "weak_match"} -> "trusted"
    [] verdict = "mismatch"                       -> "rejected"
    [] OTHER                                      -> "ambiguous"

\* _select_records_for_sites, _group_records_by_site: the members of xs at I,
\* and those of recs whose site, however it is spelled, is one of keys
Those(I, xs) == FlattenSeq([i \in DOMAIN xs |-> IF i \in I THEN <<xs[i]>> ELSE <<>>])
RecordsOf(keys, recs) == Those({i \in DOMAIN recs : KeyOf[recs[i].site] \in keys}, recs)

\* Mutant of Judged: one verdict from the pages of all sites
JudgedTogether(s, recs) == TrustState(SiteVerdict(recs))
\* the pages of every spelling of the site are judged together
Judged(s, recs) == TrustState(SiteVerdict(RecordsOf({KeyOf[s]}, recs)))

\* trusted_site_keys, and the keys of the other plans; t is the trust of each site
TrustedKeys(t) == {KeyOf[s] : s \in {x \in DOMAIN t : t[x] = "trusted"}}
OtherKeys(t) == {KeyOf[s] : s \in DOMAIN t} \ TrustedKeys(t)

-----------------------------------------------------------------------------
(* One pass over sites (FactorySiteFetchStage.fetch). *)

NewPass(embargo, todo) ==
  [embargo |-> embargo, todo |-> todo, next |-> 0, ran |-> 0, recs |-> <<>>,
   exec |-> <<>>, skips |-> <<>>, sites |-> <<>>, queue |-> NewQueue, entries |-> <<>>]

Plan == Head(crawl.todo)
Route == Plan.routes[crawl.next]
AtSite == stage \in {"cheap", "full"} /\ crawl.todo # <<>>
AtRoute == AtSite /\ crawl.next \in DOMAIN Plan.routes
RouteLimit == IF dry THEN 1 ELSE MaxRoutesPerSite

\* route_requires_trusted_fetch, route_mode_with_browser_embargo
Heavy(r) == r.family \in HeavyRoutes \/ r.url \in Documents
FetchMode(r) == IF crawl.embargo THEN "requests" ELSE r.mode

\* _route_origin
Origin(p, u) == IF u \in p.sampled THEN "sample"
                ELSE IF u = Home[p.site] THEN "homepage" ELSE "planned"

Trusted(s) == IF s \in DOMAIN trust THEN trust[s] ELSE "unknown"

\* normalize_html_record and _attach_crawl_trace
PageRecord(r, a) ==
  [site |-> Plan.site, url |-> r.url, family |-> r.family, kind |-> "page",
   fp |-> IF ~a.got           THEN <<"none", r.url, a.status>>
          ELSE IF a.file # "" THEN <<"raw", a.file>>
          ELSE IF a.text # "" THEN <<"text", a.text>>
          ELSE <<"url", r.url>>,
   signals |-> IF a.got THEN Breakdown(a) ELSE <<>>, overlap |-> a.got /\ a.overlap,
   rendered |-> a.browser, origin |-> Origin(Plan, r.url), trust |-> Trusted(Plan.site),
   status |-> a.status, text |-> IF a.got /\ a.file = "" THEN a.text ELSE ""]

\* _to_content_record: the text read from a file, or its checksum, or its url
DocumentRecord(r, e) ==
  [site |-> Plan.site, url |-> r.url, family |-> r.family, kind |-> "document",
   fp |-> IF e.status \in {"extracted", "archive_member_extracted"} THEN <<"text", e.sum>>
          ELSE IF e.sum # "" THEN <<"sum", e.sum>>
          ELSE <<"url", e.url>>,
   signals |-> <<>>, overlap |-> FALSE, rendered |-> FALSE,
   origin |-> Origin(Plan, r.url), trust |-> Trusted(Plan.site),
   status |-> IF e.status \in SuccessStatuses THEN "success" ELSE e.status,
   text |-> IF e.status \in {"extracted", "archive_member_extracted"} THEN e.sum ELSE ""]

Executed(r, recs) ==
  [site |-> Plan.site, url |-> r.url, family |-> r.family, mode |-> FetchMode(r),
   fps |-> [i \in DOMAIN recs |-> recs[i].fp],
   pages |-> Len(SelectSeq(recs, LAMBDA x : x.kind = "page")),
   docs |-> Len(SelectSeq(recs, LAMBDA x : x.kind = "document"))]

SkipEntry(urls, reason) ==
  [site |-> Plan.site, urls |-> urls, reason |-> reason]

crawlRest == <<planning, said, plans, dry, stage, cheap, trust, browser, result>>

\* the skips of the plan come first (_collect_planner_skips)
StartSite ==
  /\ AtSite /\ crawl.next = 0
  /\ LET urls == SetToSeq(DOMAIN Plan.skips)
     IN  crawl' = [crawl EXCEPT !.next = 1, !.ran = 0,
                     !.skips = @ \o [i \in DOMAIN urls |->
                                       SkipEntry(<<urls[i]>>, Plan.skips[urls[i]])]]
  /\ UNCHANGED crawlRest

\* a heavy route waits for the verdict
SkipHeavy ==
  /\ AtRoute /\ crawl.embargo /\ Heavy(Route)
  /\ crawl' = [crawl EXCEPT !.next = @ + 1,
                 !.skips = Append(@, SkipEntry(<<Route.url>>, "trust_embargo_heavy_route"))]
  /\ UNCHANGED crawlRest

\* the routes past the limit are skipped as one (_build_aggregated_tail_skip)
TailOf(p, i) == SubSeq(p.routes, i, Len(p.routes))
SkipTail ==
  /\ AtRoute /\ ~(crawl.embargo /\ Heavy(Route)) /\ crawl.ran >= RouteLimit
  /\ LET tail == TailOf(Plan, crawl.next)
     IN  crawl' = [crawl EXCEPT !.next = Len(Plan.routes) + 1,
                     !.skips = Append(@, SkipEntry([i \in DOMAIN tail |-> tail[i].url],
                                       IF dry THEN "dry_run" ELSE "max_routes_per_site"))]
  /\ UNCHANGED crawlRest

\* what the documents of an answer come to: itself, or those it links to
Documented(r, a, dead) ==
  IF crawl.embargo \/ ~a.got   THEN [queue |-> crawl.queue, entries |-> <<>>]
  ELSE IF a.file # ""          THEN CollectDirect(crawl.queue, r.url)
  ELSE IF a.status = "success" THEN CollectLinks(crawl.queue, a.links, dead)
  ELSE [queue |-> crawl.queue, entries |-> <<>>]

FetchRoute(u, a, dead) ==
  /\ AtRoute /\ ~(crawl.embargo /\ Heavy(Route)) /\ crawl.ran < RouteLimit
  /\ Route.url = u /\ (a.browser => browser)
  /\ dead \subseteq Flaky \cap ToSet(a.links)
  /\ LET documents == Documented(Route, a, dead)
         docs == [i \in DOMAIN documents.entries |->
                    DocumentRecord(Route, documents.entries[i])]
         direct == ~crawl.embargo /\ a.got /\ a.file # ""
         recs == IF direct THEN docs ELSE <<PageRecord(Route, a)>> \o docs
     IN  crawl' = [crawl EXCEPT !.next = @ + 1, !.ran = @ + 1, !.recs = @ \o recs,
                     !.exec = Append(@, Executed(Route, recs)),
                     !.queue = documents.queue, !.entries = @ \o documents.entries]
  /\ UNCHANGED crawlRest

EndSite ==
  /\ AtSite /\ crawl.next > Len(Plan.routes)
  /\ crawl' = [crawl EXCEPT !.todo = Tail(@), !.next = 0,
                 !.sites = Append(@, [site |-> Plan.site, planned |-> Len(Plan.routes)])]
  /\ UNCHANGED crawlRest

-----------------------------------------------------------------------------
(* The passes of FactorySiteParser.parse. *)

CrawlInit ==
  /\ PlanInit
  /\ stage = "planning"
  /\ crawl = NewPass(TRUE, <<>>) /\ cheap = NewPass(TRUE, <<>>)
  /\ trust = <<>>
  /\ browser = BrowserEnabled
  /\ result = [recs |-> <<>>]

SiteLimit == Min({Len(sites), IF dry THEN 1 ELSE MaxSites})
MorePlans == planning # NoPlanning \/ Len(plans) < SiteLimit

PlanSites ==
  /\ stage = "planning" /\ MorePlans
  /\ PlanNext
  /\ UNCHANGED <<dry, stage, crawl, cheap, trust, browser, result>>

\* _with_dry_run_homepage_fallback
WithFallback(p) ==
  IF dry /\ p.probe = "success" /\ p.routes = <<>>
  THEN [p EXCEPT !.routes = <<[url |-> Home[p.site], family |-> FamilyOrder[1],
                               mode |-> "requests"]>>]
  ELSE p

\* the first pass; the browser is off while it runs (_playwright_embargo)
StartCheap ==
  /\ stage = "planning" /\ ~MorePlans
  /\ plans' = [i \in DOMAIN plans |-> WithFallback(plans[i])]
  /\ crawl' = NewPass(TRUE, plans')
  /\ stage' = "cheap" /\ browser' = FALSE
  /\ UNCHANGED <<planning, said, dry, cheap, trust, result>>

EndCheap ==
  /\ stage = "cheap" /\ crawl.todo = <<>>
  /\ stage' = "judge" /\ browser' = BrowserEnabled
  /\ UNCHANGED <<planning, said, plans, dry, crawl, cheap, trust, result>>

\* the trust gate, and the second pass over the sites it opens
Judge ==
  /\ stage = "judge"
  /\ cheap' = crawl
  /\ trust' = [s \in {plans[i].site : i \in DOMAIN plans} |-> Judged(s, crawl.recs)]
  /\ LET open == Those({i \in DOMAIN plans : KeyOf[plans[i].site] \in TrustedKeys(trust')}, plans)
     IN  IF open # <<>> /\ ~dry
         THEN stage' = "full" /\ crawl' = NewPass(FALSE, open)
         ELSE stage' = "store" /\ UNCHANGED crawl
  /\ UNCHANGED <<planning, said, plans, dry, browser, result>>

EndFull ==
  /\ stage = "full" /\ crawl.todo = <<>>
  /\ stage' = "store"
  /\ UNCHANGED <<planning, said, plans, dry, crawl, cheap, trust, browser, result>>

\* Mutant of Merged: the first pass of an opened site stays as well
MergedWhole ==
  IF crawl.embargo THEN [recs |-> crawl.recs, exec |-> crawl.exec,
                         skips |-> crawl.skips, sites |-> crawl.sites]
  ELSE [recs |-> cheap.recs \o crawl.recs, exec |-> cheap.exec \o crawl.exec,
        skips |-> cheap.skips \o crawl.skips, sites |-> cheap.sites \o crawl.sites]

\* _slice_crawl_execution, _merge_crawl_executions: the first pass of the sites
\* that were not opened, and the second of those that were
Merged ==
  LET kept == OtherKeys(trust)
  IN  IF crawl.embargo THEN [recs |-> crawl.recs, exec |-> crawl.exec,
                             skips |-> crawl.skips, sites |-> crawl.sites]
      ELSE [recs |-> RecordsOf(kept, cheap.recs) \o crawl.recs,
            exec |-> RecordsOf(kept, cheap.exec) \o crawl.exec,
            skips |-> RecordsOf(kept, cheap.skips) \o crawl.skips,
            sites |-> RecordsOf(kept, cheap.sites) \o crawl.sites]

\* _dedupe_records: the first record of each fingerprint
Deduped(recs) ==
  Those({i \in DOMAIN recs : \A j \in 1 .. i - 1 : recs[j].fp # recs[i].fp}, recs)

\* _resolve_executed_route_records: by fingerprint, or else by route
Resolved(e, recs) ==
  LET byFp == SelectSeq(recs, LAMBDA r : r.fp \in ToSet(e.fps))
  IN  IF byFp # <<>> THEN byFp
      ELSE SelectSeq(recs, LAMBDA r : r.site = e.site /\ r.url = e.url)

OfKind(k, recs) == Len(SelectSeq(recs, LAMBDA r : r.kind = k))

\* FactorySiteStore.build_result
BuildResult(m) ==
  LET recs == Deduped(m.recs)
      Sum(f(_)) == FoldLeft(LAMBDA n, e : n + f(e), 0, m.exec)
  IN  [recs |-> recs,
       exec |-> [i \in DOMAIN m.exec |-> [count |-> Len(Resolved(m.exec[i], recs))] @@ m.exec[i]],
       skips |-> m.skips, sites |-> m.sites,
       rawPages |-> Sum(LAMBDA e : e.pages), rawDocs |-> Sum(LAMBDA e : e.docs),
       rawCount |-> Len(m.recs),
       pages |-> OfKind("page", recs), docs |-> OfKind("document", recs)]

Store ==
  /\ stage = "store"
  /\ result' = BuildResult(Merged)
  /\ stage' = "done"
  /\ UNCHANGED <<planning, said, plans, dry, crawl, cheap, trust, browser>>

CrawlNext ==
  \/ PlanSites \/ StartCheap
  \/ StartSite \/ SkipHeavy \/ SkipTail \/ EndSite
  \/ \E u \in DOMAIN Serve : \E a \in Serve[u] : \E dead \in SUBSET Flaky : FetchRoute(u, a, dead)
  \/ EndCheap \/ Judge \/ EndFull \/ Store

-----------------------------------------------------------------------------
(* Properties. *)

\* A document, a rendered page or a page of a heavy route is only ever taken
\* from a site whose own pages, as the first pass saw them under every spelling
\* of the site, say that it is the company's (the trust gate,
\* entrypoint.py:109-136 and 353-384); and whatever happened in the first pass,
\* the browser is back for the next company (fetch.py:342-352).
HeavyOnlyIfTrusted ==
  LET Earned(r) == stage \in {"full", "store", "done"}
                     /\ TrustState(SiteVerdict(RecordsOf({KeyOf[r.site]}, cheap.recs))) = "trusted"
      IsHeavy(r) == r.kind = "document" \/ r.rendered \/ r.family \in HeavyRoutes
                      \/ r.url \in Documents
  IN  /\ \A r \in ToSet(crawl.recs) \cup ToSet(result.recs) : IsHeavy(r) => Earned(r)
      /\ stage \in {"planning", "judge", "full", "store", "done"} => browser = BrowserEnabled

\* The document queue is honest after every page, though it is shared by the
\* sites of the pass, archives are nested and downloads fail.
DocumentsAccounted == QueueIsHonest(crawl.queue, crawl.entries)

\* Coverage is neither wasted by the plans nor lost by the crawl: what the
\* result says of the crawl adds up, every candidate of every site is
\* accounted for once, as executed, skipped or part of the tail; the raw
\* counts are those of the records merged from the two passes; every executed
\* route still leads to a record after the records were deduplicated; and no
\* content is there twice (entrypoint.py:386-393, store.py:132-207, 378-397).
CrawlAccounted ==
  /\ PlanIsSound
  /\ stage = "done" =>
    LET Routes(s) == FlattenSeq([i \in DOMAIN plans |->
                       IF plans[i].site = s
                       THEN [j \in DOMAIN plans[i].routes |-> plans[i].routes[j].url]
                              \o SetToSeq(DOMAIN plans[i].skips)
                       ELSE <<>>])
        Told(s) ==
          FlattenSeq([i \in DOMAIN result.exec |->
                        IF result.exec[i].site = s THEN <<result.exec[i].url>> ELSE <<>>])
            \o FlattenSeq([i \in DOMAIN result.skips |->
                        IF result.skips[i].site = s THEN result.skips[i].urls ELSE <<>>])
        SameBag(x, y) == Len(x) = Len(y) /\ \A e \in ToSet(x) \cup ToSet(y) :
                           Len(SelectSeq(x, LAMBDA z : z = e)) = Len(SelectSeq(y, LAMBDA z : z = e))
    IN  /\ SameBag([i \in DOMAIN result.sites |-> result.sites[i].site],
                   [i \in DOMAIN plans |-> plans[i].site])
        /\ \A i \in DOMAIN plans : SameBag(Told(plans[i].site), Routes(plans[i].site))
        /\ result.rawPages + result.rawDocs = result.rawCount
        /\ result.pages <= result.rawPages /\ result.docs <= result.rawDocs
        /\ \A i \in DOMAIN result.exec : result.exec[i].count > 0
        /\ IsInjective([i \in DOMAIN result.recs |-> result.recs[i].fp])
================================================================================
