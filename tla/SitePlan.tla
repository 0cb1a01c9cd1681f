-------------------------------- MODULE SitePlan -------------------------------
(* The planner of the factory site parser: one site after another is probed,
   its pages, robots file, sitemaps and guessed subdomains are read for links,
   and the candidates found are cut down to a short list of routes under
   budgets and caps
   (app/site_intelligence/factory_site_parser/planner.py, ../strategy.py and
   ../probe.py).  A link is a record of the page it stands on, the region it
   was found in, and the family and score its words give it.                 *)
EXTENDS Integers, Sequences, SequencesExt, FiniteSets, FiniteSetsExt

CONSTANTS Home,             \* the home page of a site
          Url,              \* of a url: its host, path pattern, depth, rank among equals
          Documents,        \* the urls that name a document
          Links,            \* the links a page may show: page, url, region, family, score
          Guessed,          \* of a family: the url of its usual subdomain, by site
          FamilyOrder, Weight, Bonus,
          FamilyLimit, DepthLimit, PathLimit, HostLimit,
          Groups,           \* COVERAGE_REQUIREMENTS
          GlobalBudget,     \* FACTORY_SITE_PLANNER_GLOBAL_CRAWL_BUDGET, or Unset
          MaxRanked, MaxDiscoveryPages, MaxSubdomainChecks,
          Probes            \* what the probe of a site may find

VARIABLES sites,     \* the sites the parser was given: iter_candidate_sites
          planning,  \* the site in hand, and where its discovery stands
          said,      \* the links registered for it
          plans      \* the plans made so far

Unset == -1
DefaultBudget == 10
Families == ToSet(FamilyOrder)
Sites == DOMAIN Home

ASSUME SitePlanAssumption ==
  /\ IsInjective(FamilyOrder)
  /\ \A f, g \in Families : f # g => Weight[f] # Weight[g]
  /\ \A l \in Links : l.family \in Families /\ l.score \in Nat
  /\ GlobalBudget \in Nat \cup {Unset}
  /\ MaxRanked \in Nat \ {0}

-----------------------------------------------------------------------------
(* What the probe makes of a site. *)

\* SiteProber.probe, _apply_failure_outcome
SiteClass(p) ==
  IF p.status \in {"bot_gate", "rate_limited", "http_403", "auth_required"} THEN "E"
  ELSE IF p.status # "success" \/ ~p.html                                   THEN "F"
  ELSE IF p.spa /\ p.text < 500                                             THEN "D"
  ELSE IF p.spa                                                             THEN "C"
  ELSE IF p.legacy                                                          THEN "B"
  ELSE IF p.text >= 1200 /\ p.links >= 8                                    THEN "A"
  ELSE IF p.text >= 350 \/ p.links >= 3                                     THEN "B"
  ELSE "F"

\* worth_crawling of the probe
Worth(p, sampled) ==
  LET rich == sampled # {} \/ p.links >= 4
      readable == SiteClass(p) \in {"A", "B", "C"}
  IN  IF rich /\ (readable \/ SiteClass(p) = "D")         THEN "true"
      ELSE IF readable /\ (p.text >= 300 \/ p.links >= 1) THEN "limited"
      ELSE IF SiteClass(p) \in {"D", "E"}                 THEN "limited"
      ELSE "false"

HeavySections == {"docs/certificates", "files"}
BrowserSections == HeavySections \cup {"procurement", "search"}

\* StrategySelector.decide_mode
DecideMode(class, family) ==
  CASE class = "D"         -> "playwright"
    [] class = "C"         -> IF family \in BrowserSections THEN "hybrid" ELSE "requests"
    [] class \in {"A", "B"} -> "requests"
    [] OTHER               -> "skip"

-----------------------------------------------------------------------------
(* Candidates: a url takes the family of its best-scored link. *)

Candidates(S) == {l.url : l \in S}
About(u, S) == {l \in S : l.url = u}

\* _register_candidate: a higher score, or as high a one of a heavier family
BestLink(u, S) ==
  CHOOSE l \in About(u, S) :
    \A o \in About(u, S) : \/ l.score > o.score
                           \/ l.score = o.score /\ Weight[l.family] >= Weight[o.family]

FamilyOf(u, S) == BestLink(u, S).family

\* _candidate_rank_score
RankScore(u, S) ==
  LET mine == About(u, S)
  IN  Weight[FamilyOf(u, S)] + BestLink(u, S).score
        + MapThenSumSet(LAMBDA l : Bonus[l.region], mine)
        + Cardinality({l.region : l \in mine}) - Url[u].depth
        - (IF \A l \in mine : l.region = "common_subdomain" THEN 2 ELSE 0)

\* _family_buckets
Bucket(f, S) ==
  LET us == {u \in Candidates(S) : FamilyOf(u, S) = f}
      Before(u, v) == \/ RankScore(u, S) > RankScore(v, S)
                      \/ /\ RankScore(u, S) = RankScore(v, S)
                         /\ \/ Url[u].depth < Url[v].depth
                            \/ Url[u].depth = Url[v].depth /\ Url[u].nr < Url[v].nr
      ranked == SetToSortSeq(us, Before)
  IN  SubSeq(ranked, 1, Min({Len(ranked), MaxRanked}))

Buckets(S) == [f \in Families |-> Bucket(f, S)]

-----------------------------------------------------------------------------
(* Ranking: the coverage floor first, then round after round over the
   families while the budget lasts.  A plan in the making is a record of the
   positions in the buckets, the routes, the reasons to skip, and the url that
   covers each group.                                                        *)

\* _family_budget_limit, _resolve_global_budget
LimitOf(f, b) == IF b[f] = <<>> THEN 0 ELSE FamilyLimit[f]
Budget(b) ==
  IF GlobalBudget # Unset THEN GlobalBudget
  ELSE Max({1, Min({DefaultBudget, MapThenSumSet(LAMBDA f : LimitOf(f, b), Families)})})

NewPlan(class, b) ==
  [class |-> class, buckets |-> b, budget |-> Budget(b), pos |-> [f \in Families |-> 0],
   routes |-> <<>>, skips |-> <<>>, covered |-> <<>>]

RemainingBudget(p) == p.budget - Len(p.routes)
Count(Test(_), p) == Cardinality({i \in DOMAIN p.routes : Test(p.routes[i])})
FamilyCount(f, p) == Count(LAMBDA r : r.family = f, p)

\* _candidate_skip_details and the caps of _consume_candidate
SkipReason(u, f, p) ==
  IF DecideMode(p.class, f) = "skip"   THEN "mode_skip"
  ELSE IF Url[u].depth > DepthLimit[f] THEN "depth_cap_reached"
  ELSE IF Count(LAMBDA r : Url[r.url].host = Url[u].host, p) >= HostLimit
    THEN "host_cap_reached"
  ELSE IF Count(LAMBDA r : Url[r.url].path = Url[u].path, p) >= PathLimit[f]
    THEN "path_pattern_cap_reached"
  ELSE ""

\* _record_skipped_candidate: the first reason stays
Skipped(us, Reason(_), p) ==
  [p EXCEPT !.skips = @ @@ [u \in us |-> Reason(u)]]

\* _consume_candidate: the first candidate of the bucket that passes the caps
Consume(f, p) ==
  LET bucket == p.buckets[f]
      ahead == (p.pos[f] + 1) .. Len(bucket)
      open == {i \in ahead : SkipReason(bucket[i], f, p) = ""}
      stop == IF open = {} THEN Len(bucket) ELSE Min(open)
      refused == {bucket[i] : i \in {j \in ahead : j <= stop} \ open}
      q == Skipped(refused, LAMBDA u : SkipReason(u, f, p), [p EXCEPT !.pos[f] = stop])
  IN  IF open = {} THEN q
      ELSE [q EXCEPT !.routes = Append(@, [url |-> bucket[stop], family |-> f,
                                           mode |-> DecideMode(p.class, f)])]

MayTake(f, p) == RemainingBudget(p) > 0 /\ FamilyCount(f, p) < LimitOf(f, p.buckets)

\* _coverage_requirements
Discovered(g, b) == \E f \in ToSet(g.families) : b[f] # <<>>
Required(g, b) == g.required \/ Discovered(g, b)

\* one requirement of the coverage phase of _rank_routes
Cover(p, g) ==
  LET Attempt(q, f) ==
        IF Len(q.routes) > Len(p.routes) \/ ~MayTake(f, q) THEN q ELSE Consume(f, q)
      q == FoldLeft(Attempt, p, g.families)
      verdict == IF Len(q.routes) > Len(p.routes) THEN "covered"
                 ELSE IF RemainingBudget(p) <= 0  THEN "global_budget_exhausted"
                 ELSE IF Discovered(g, p.buckets) THEN "coverage_floor_unmet"
                 ELSE "not_discovered"
  IN  IF ~Required(g, p.buckets)
      THEN [p EXCEPT !.covered = Append(@, "not_discovered")]
      ELSE [q EXCEPT !.covered = Append(@, verdict)]

FillRound(p, n) ==
  FoldLeft(LAMBDA q, f : IF MayTake(f, q) THEN Consume(f, q) ELSE q, p, FamilyOrder)

\* _append_budget_skip_reasons
SkipTheRest(p) ==
  LET Rest(f) == {p.buckets[f][i] : i \in (p.pos[f] + 1) .. Len(p.buckets[f])}
      full == {f \in Families : FamilyCount(f, p) >= LimitOf(f, p.buckets)}
  IN  IF RemainingBudget(p) <= 0
      THEN Skipped(UNION {Rest(f) : f \in Families}, LAMBDA u : "global_budget_exhausted", p)
      ELSE Skipped(UNION {Rest(f) : f \in full}, LAMBDA u : "family_budget_exhausted", p)

\* Mutant of RankRoutes: the families are filled before the coverage floor
RankFilledFirst(class, S) ==
  LET start == NewPlan(class, Buckets(S))
  IN  SkipTheRest(FoldLeft(Cover, FoldLeft(FillRound, start, [i \in 1 .. start.budget |-> i]),
                           Groups))

\* _rank_routes: a round that adds nothing leaves nothing for the next
RankRoutes(class, S) ==
  LET start == NewPlan(class, Buckets(S))
      floor == FoldLeft(Cover, start, Groups)
  IN  SkipTheRest(FoldLeft(FillRound, floor, [i \in 1 .. RemainingBudget(floor) |-> i]))

-----------------------------------------------------------------------------
(* Discovery. *)

LinksOf(s, region) == {l \in Links : l.page = Home[s] /\ l.region = region}
PageRegions == {"menu", "breadcrumbs", "footer", "internal_links", "documents", "search_form"}

HomeLink(s) == [page |-> Home[s], url |-> Home[s], region |-> "homepage",
                family |-> FamilyOrder[1], score |-> 2]

\* _select_follow_up_pages: the best page of each family
FollowUps(s, S) ==
  LET Pages(f) == SelectSeq(Bucket(f, S), LAMBDA u : u # Home[s] /\ u \notin Documents)
      best == [i \in DOMAIN FamilyOrder |-> SubSeq(Pages(FamilyOrder[i]), 1,
                                                   Min({1, Len(Pages(FamilyOrder[i]))}))]
      all == FlattenSeq(best)
  IN  SubSeq(all, 1, Min({MaxDiscoveryPages, Len(all)}))

\* the guesses of _probe_common_subdomains: families nothing was found for
Guesses(s, S) ==
  SelectSeq(FamilyOrder, LAMBDA f : /\ f \in DOMAIN Guessed[s]
                                    /\ \A u \in Candidates(S) : FamilyOf(u, S) # f)

Planning(s, step, class, p, sampled, worth) ==
  [site |-> s, step |-> step, class |-> class, probe |-> p, sampled |-> sampled,
   worth |-> worth, toRead |-> <<>>, left |-> <<>>, checked |-> 0, hit |-> FALSE, misses |-> 0]
NoPlanning == Planning("", "idle", "", "", {}, "")

PlanInit ==
  /\ planning = NoPlanning
  /\ said = {}
  /\ plans = <<>>

\* plan, first lines of _build_structured_plan
ProbeSite(s) ==
  /\ planning = NoPlanning
  /\ Len(plans) < Len(sites) /\ s = sites[Len(plans) + 1]
  /\ \E p \in Probes, sampled \in SUBSET LinksOf(s, "site_probe") :
       /\ p.status # "success" => sampled = {}
       /\ planning' = Planning(s, IF p.status = "success" THEN "home" ELSE "maps",
                               SiteClass(p), p.status, {l.url : l \in sampled},
                               Worth(p, sampled))
       /\ said' = {HomeLink(s)} \cup sampled
  /\ UNCHANGED plans

\* _discover_from_html: a page that cannot be read gives no link
PageLinks(u) == {l \in Links : l.page = u /\ l.region \in PageRegions}

ReadHome ==
  /\ planning.step = "home"
  /\ \E links \in SUBSET PageLinks(Home[planning.site]) :
       /\ said' = said \cup links
       /\ planning' = [planning EXCEPT !.step = "pages",
                          !.toRead = FollowUps(planning.site, said \cup links)]
  /\ UNCHANGED plans

ReadFollowUp ==
  /\ planning.step = "pages" /\ planning.toRead # <<>>
  /\ \E links \in SUBSET PageLinks(Head(planning.toRead)) : said' = said \cup links
  /\ planning' = [planning EXCEPT !.toRead = Tail(@)]
  /\ UNCHANGED plans

\* _discover_from_robots_and_sitemaps
ReadMaps ==
  /\ \/ planning.step = "maps"
     \/ planning.step = "pages" /\ planning.toRead = <<>>
  /\ \E links \in SUBSET (LinksOf(planning.site, "robots_allow")
                            \cup LinksOf(planning.site, "sitemap.xml")) :
       /\ said' = said \cup links
       /\ planning' = [planning EXCEPT !.step = "guess",
                          !.left = Guesses(planning.site, said \cup links)]
  /\ UNCHANGED plans

\* one guess of _probe_common_subdomains, a page of the same domain or a miss;
\* two misses in a row after a hit end the guessing
MayGuess == /\ planning.step = "guess" /\ planning.left # <<>>
            /\ planning.checked < MaxSubdomainChecks /\ planning.misses < 2

GuessSubdomain ==
  /\ MayGuess
  /\ LET link == Guessed[planning.site][Head(planning.left)]
         next == [planning EXCEPT !.left = Tail(@), !.checked = @ + 1]
     IN  \/ /\ said' = said \cup {link}
            /\ planning' = [next EXCEPT !.hit = TRUE, !.misses = 0]
         \/ /\ planning' = [next EXCEPT !.hit = TRUE, !.misses = 0]   \* a known page
            /\ UNCHANGED said
         \/ /\ planning' = [next EXCEPT !.misses = IF planning.hit THEN @ + 1 ELSE @]
            /\ UNCHANGED said
  /\ UNCHANGED plans

MakePlan ==
  /\ planning.step = "guess" /\ ~MayGuess
  /\ \E p \in {RankRoutes(planning.class, said)} :
         plans' = Append(plans, [site |-> planning.site, probe |-> planning.probe,
                                 sampled |-> planning.sampled, worth |-> planning.worth,
                                 class |-> p.class, buckets |-> p.buckets, budget |-> p.budget,
                                 routes |-> p.routes, skips |-> p.skips, covered |-> p.covered])
  /\ planning' = NoPlanning
  /\ said' = {}

PlanNext ==
  \/ \E s \in Sites : ProbeSite(s)
  \/ ReadHome \/ ReadFollowUp \/ ReadMaps \/ GuessSubdomain \/ MakePlan

-----------------------------------------------------------------------------
(* Properties. *)

\* Every candidate kept in a bucket is a route or has one reason why not; no
\* cap or budget is passed; and a required group that stays uncovered was not
\* robbed: each of its candidates met a cap, its family has no budget, or only
\* routes of other required groups used the budget up (_rank_routes).
PlanIsSound ==
  \A i \in DOMAIN plans :
    LET p == plans[i]
        urls == {p.routes[j].url : j \in DOMAIN p.routes}
        kept == UNION {ToSet(p.buckets[f]) : f \in Families}
        OwnFault == {"mode_skip", "depth_cap_reached", "host_cap_reached",
                     "path_pattern_cap_reached"}
        CoveredAt(k) == Cardinality({j \in 1 .. k : p.covered[j] = "covered"})
    IN  /\ urls \cup DOMAIN p.skips = kept /\ urls \cap DOMAIN p.skips = {}
        /\ Cardinality(urls) = Len(p.routes) /\ Len(p.routes) <= p.budget
        /\ \A f \in Families : FamilyCount(f, p) <= LimitOf(f, p.buckets)
        /\ \A u \in urls : Count(LAMBDA r : Url[r.url].host = Url[u].host, p) <= HostLimit
        /\ \A k \in DOMAIN Groups :
             (Required(Groups[k], p.buckets) /\ p.covered[k] # "covered") =>
               \A f \in ToSet(Groups[k].families) : \A u \in ToSet(p.buckets[f]) :
                 \/ u \in DOMAIN p.skips /\ p.skips[u] \in OwnFault
                 \/ LimitOf(f, p.buckets) = 0
                 \/ p.budget = CoveredAt(k)
================================================================================
