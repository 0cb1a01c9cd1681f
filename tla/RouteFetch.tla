------------------------------- MODULE RouteFetch -------------------------------
(* Fetching the pages of company sites (Fetcher of
   app/site_intelligence/fetcher.py).  A worker makes a fetcher for each
   company, the main thread keeps one; a fetcher works on one page at a time.
   Its breaker, host cooldowns and rotation hints are its own; the browser
   session of a domain is shared, and so is the memory of the hosts, which the
   main thread writes at once and a worker through a buffer that is replayed
   when its company is consumed.

   All hosts belong to one registered domain: they share breaker and session.
   Which proxy the pool gives, and whether it has one, is any choice.         *)
EXTENDS Antibot, HostMemory

CONSTANTS
  Fetchers, Buffered,     \* fetchers, and those of workers
  HostsOf,                \* the hosts a fetcher is used for
  Routes,                 \* requested mode and kind of route of a page
  Pages,                  \* what a site may answer: code, marks, usable
  MaxAttempts,            \* FACTORY_SITE_FETCH_MAX_ATTEMPTS
  PlaywrightEnabled,      \* ENABLE_PLAYWRIGHT_SITE_FETCH
  DefaultCooldown,        \* of a rate limit and of a block
  ClientCooldown,         \* the cooldown the client reports of its host
  SessionTtl,
  MaxFetches, MaxNow      \* bounds: pages fetched, and the clock

Hosts == UNION {HostsOf[f] : f \in Fetchers}

ASSUME FetchAssumption ==
  /\ Buffered \subseteq Fetchers
  /\ Routes \subseteq RequestedModes \X RouteKinds
  /\ Pages \subseteq [code : Codes, marks : SUBSET Marks, usable : BOOLEAN]
  /\ MaxAttempts \in {1, 2} /\ PlaywrightEnabled \in BOOLEAN
  /\ DefaultCooldown \in [{"RATE_LIMIT", "block"} -> Nat]
  /\ ClientCooldown \in Nat /\ SessionTtl \in Nat \ {0}
  /\ MaxFetches \in Nat /\ MaxNow \in Nat

VARIABLES
  memory,    \* per host: the attempts the progress store remembers
  buffer,    \* per worker: batches of host events, one for each company, the
             \* last for the company at hand; the others wait for their replay
  session,   \* the saved browser session of the domain
  own,       \* per fetcher: breaker, host cooldowns (_host_cooldowns), hints
  job,       \* per fetcher: the page it is fetching
  now,
  history,   \* per host: every event of the progress store (not in the code)
  known,     \* per fetcher: what the memory told as its fetch began, and what
             \* it has met since (not in the code)
  asked,     \* per fetcher: its last request, and the proxy it was handed to
             \* (not in the code)
  fetches    \* pages so far, up to MaxFetches

fetchVars == <<memory, buffer, session, own, job, now, history, known, asked, fetches>>

None == "none"
NoSession == [contour |-> None, until |-> 0]
Fresh(f) == [breaker |-> Pristine, cool |-> [h \in HostsOf[f] |-> 0],
             hint |-> [h \in HostsOf[f] |-> None]]
Idle == [pc |-> "idle", host |-> None, allowed |-> FALSE, by |-> None,
         profile |-> None, given |-> None, avoid |-> {}, free |-> FALSE]
NoEvents == [h \in Hosts |-> <<>>]
NothingKnown == [told |-> {}, met |-> {}, until |-> 0]

TypeOK ==
  /\ \A h \in Hosts : Len(memory[h]) <= LedgerLimit
  /\ session \in [contour : Contours \cup {None}, until : 0..(MaxNow + SessionTtl)]
  /\ \A f \in Fetchers : /\ own[f].breaker \in BreakerType
                         /\ own[f].cool \in [HostsOf[f] -> Nat]
                         /\ own[f].hint \in [HostsOf[f] -> Labels \cup {None}]
                         /\ job[f].pc \in {"idle", "first", "second"}
                         /\ job[f].by \in Transports \cup {None}
  /\ now \in 0..MaxNow

FetchInit ==
  /\ memory = [h \in Hosts |-> <<>>] /\ history = memory
  /\ buffer = [f \in Buffered |-> <<NoEvents>>]
  /\ known = [f \in Fetchers |-> NothingKnown]
  /\ session = NoSession
  /\ own = [f \in Fetchers |-> Fresh(f)]
  /\ job = [f \in Fetchers |-> Idle]
  /\ asked = [f \in Fetchers |-> [n |-> 0, handed |-> None, free |-> FALSE]]
  /\ now = 0 /\ fetches = 0

-----------------------------------------------------------------------------
(* Events and memory. *)

\* An entry of the host memory.  hard says a tag of a block was derived from
\* its status, reason, code or challenge flag (_derive_signal_tags).
AttemptEntry(contour, class, gate, hard, secs) ==
  [contour |-> contour, class |-> class, gate |-> gate, ts |-> now, until |-> now + secs,
   verdict |-> IF class = "SUCCESS" THEN "clear" ELSE IF hard THEN "hard"
               ELSE IF secs > 0 THEN "soft" ELSE "mute"]

Authored(f, entries) ==
  [i \in DOMAIN entries |-> [by |-> f, class |-> entries[i].class, contour |-> entries[i].contour,
                             verdict |-> entries[i].verdict, until |-> entries[i].until]]

\* append_event, or the buffer of a worker.
Emit(f, h, entries) ==
  /\ IF f \in Buffered
       THEN /\ buffer' = [buffer EXCEPT ![f][Len(buffer[f])][h] = @ \o entries]
            /\ UNCHANGED <<memory, history>>
       ELSE /\ memory' = [memory EXCEPT ![h] = Newest(@ \o entries)]
            /\ history' = [history EXCEPT ![h] = @ \o Authored(f, entries)]
            /\ UNCHANGED buffer

\* The main thread consumes the row of a finished company: append_events, which
\* keep their order at each host.
Replay(f) ==
  /\ f \in Buffered /\ Len(buffer[f]) > 1
  /\ LET batch == Head(buffer[f])
     IN  /\ memory' = [h \in Hosts |-> Newest(memory[h] \o batch[h])]
         /\ history' = [h \in Hosts |-> history[h] \o Authored(f, batch[h])]
  /\ buffer' = [buffer EXCEPT ![f] = Tail(@)]
  /\ UNCHANGED <<session, own, job, now, known, asked, fetches>>

\* The next company of a worker; for the main thread, a resumed process.
NewFetcher(f) ==
  /\ job[f] = Idle /\ own[f] # Fresh(f) /\ fetches < MaxFetches
  /\ own' = [own EXCEPT ![f] = Fresh(f)]
  /\ buffer' = [g \in Buffered |-> IF g = f THEN Append(buffer[g], NoEvents) ELSE buffer[g]]
  /\ UNCHANGED <<memory, session, job, now, history, known, asked, fetches>>

-----------------------------------------------------------------------------
(* Sessions and proxies. *)

\* FactorySiteSessionStore.load, guarded by the labels to avoid
\* (_runtime_guard_session_profile).
Loaded == IF session.until > now THEN session.contour ELSE None
Guarded(avoid) == IF Loaded \in avoid THEN None ELSE Loaded

\* _select_proxy: what the pool gives for the host, or the rotation hint, or
\* what it gives after rotation, which becomes the hint; when everything is to
\* be avoided, the first selection after all.
Selections(hint, avoid) ==
  IF avoid = {} THEN [contour : Contours, hint : {None}]
  ELSE  {[contour |-> c, hint |-> None] : c \in Contours}
   \cup {[contour |-> c, hint |-> c] : c \in {hint} \cap (Labels \ avoid)}
   \cup {[contour |-> c, hint |-> c] : c \in Labels \ avoid}

\* Whole seconds until the host may be asked again (_host_cooldown_remaining).
HostLeft(until) == IF until > now THEN Rounded(until - now) ELSE 0

\* _update_host_cooldown
Cooled(until, class, secs) ==
  LET wait == IF secs > 0 THEN secs
              ELSE IF class = "RATE_LIMIT" THEN DefaultCooldown.RATE_LIMIT
              ELSE IF class \in {"HARD_BAN", "CHALLENGE_LOOP"} THEN DefaultCooldown.block
              ELSE 0
  IN  IF class = "SUCCESS" THEN 0
      ELSE IF wait > 0 THEN Max({until, now + wait}) ELSE until

-----------------------------------------------------------------------------
(* The beginning of fetch. *)

\* Mutant of Seeded: the memory is only asked for labels.
NotSeeded(until, left) == until

\* _seed_host_cooldown_from_preflight
Seeded(until, left) == IF left > 0 THEN Max({until, now + left}) ELSE until

\* _select_safe_survival_bootstrap_proxy: a saved session that went through a
\* label to avoid may be begun anew through another.
SurvivalProxies(f, h, avoid) ==
  {IF s.contour \in avoid THEN [s EXCEPT !.contour = None] ELSE s :
     s \in Selections(own[f].hint[h], avoid)}

\* _select_initial_transport
InitialTransport(r, inSurvival) ==
  IF inSurvival THEN "playwright" ELSE StartTransport(r[1], r[2])

\* _paused_by_breaker_result: nothing is asked, and the memory is told so.
PausedEntry == AttemptEntry(Direct, "HARD_BAN", FALSE, FALSE, 0)

\* The memory is read once: labels to avoid, the rest of a cooldown, and the
\* breaker's past when it has none of its own.  A paused breaker, or one in
\* survival without a session to go on with, asks nothing.
Begin(f, h, r) ==
  /\ job[f] = Idle /\ fetches < MaxFetches
  /\ fetches' = fetches + 1
  /\ LET avoid   == Avoided(memory[h])
         left    == CooldownLeft(memory[h], now)
         breaker == Bootstrap(own[f].breaker, memory[h])
         profile == Guarded(avoid)
         inSurvival == breaker.mode = "survival"
         tries   == IF inSurvival /\ Loaded # None /\ profile = None
                    THEN SurvivalProxies(f, h, avoid)
                    ELSE {[contour |-> None, hint |-> own[f].hint[h]]}
     IN  \E s \in tries :
           LET paused == \/ breaker.mode = "paused"
                         \/ inSurvival /\ profile = None /\ s.contour = None
           IN  /\ own' = [own EXCEPT ![f] = [breaker |-> breaker,
                                             cool |-> [own[f].cool EXCEPT ![h] = Seeded(@, left)],
                                             hint |-> [own[f].hint EXCEPT ![h] = s.hint]]]
               /\ IF paused
                    THEN /\ Emit(f, h, <<PausedEntry>>)
                         /\ UNCHANGED <<job, known>>
                    ELSE /\ job' = [job EXCEPT ![f] =
                                      [pc |-> "first", host |-> h,
                                       allowed |-> BrowserAllowed(r[1], r[2]),
                                       by |-> InitialTransport(r, inSurvival),
                                       profile |-> profile, given |-> s.contour,
                                       avoid |-> avoid, free |-> FALSE]]
                         /\ known' = [known EXCEPT ![f] =
                              [told |-> avoid, met |-> {},
                               until |-> Max({now} \cup {memory[h][i].until :
                                                         i \in Active(memory[h])})]]
                         /\ UNCHANGED <<memory, buffer, history>>
  /\ UNCHANGED <<session, now, asked>>

-----------------------------------------------------------------------------
(* An attempt. *)

\* _requests_fetch: the status the client gives a page; it knows a bot gate by
\* its text, and may refuse for its own cooldown of the host.
ClientStatus(page) ==
  IF page.code = "wait"                THEN "cooldown_active"
  ELSE IF page.code = "error"          THEN "request_error"
  ELSE IF page.code = "429"            THEN "rate_limited"
  ELSE IF "client_gate" \in page.marks THEN "bot_gate"
  ELSE IF page.code = "403"            THEN "http_403"
  ELSE IF page.code = "5xx"            THEN "http_5xx"
  ELSE "success"

\* _playwright_fetch: a browser reads no text, and may not be installed.
BrowserStatus(page) ==
  CASE page.code = "no_browser" -> "browser_required"
    [] page.code = "error"      -> "browser_error"
    [] page.code = "429"        -> "rate_limited"
    [] page.code = "403"        -> "http_403"
    [] page.code = "5xx"        -> "http_5xx"
    [] OTHER                    -> "success"

\* FactorySiteSessionStore.save, after a browser has read the page.
SessionAfter(by, asks, status, contour) ==
  IF by = "playwright" /\ asks /\ status = "success"
  THEN [contour |-> contour, until |-> now + SessionTtl] ELSE session

Responses(by) ==
  {p \in Pages : p.code \notin IF by = "requests" THEN {"no_browser"} ELSE {"wait"}}

\* Mutant of Refusal: the label to avoid is only a wish.
AvoidIsAWish(j, contour, left) == IF left > 0 THEN "cooldown_active" ELSE ""

\* What is done about it, in the order of _execute_attempt: nothing is asked
\* through a label to avoid, nor while the host cools down.
Refusal(j, contour, left) ==
  IF contour \in j.avoid THEN "blocked_no_alternative_proxy"
  ELSE IF left > 0 THEN "cooldown_active" ELSE ""

\* The contours one request of the client goes through: the one it is handed,
\* and as long as a proxy fails, another the request did not try yet, whatever
\* labels the fetcher avoids (_select_alternative_proxy).
Sent(by, contour, page) ==
  IF by # "requests" \/ contour = Direct \/ page.code = "wait" THEN {<<contour>>}
  ELSE {sent \in UNION {[1..n -> Labels] : n \in 1..Cardinality(Labels)} :
          sent[1] = contour /\ IsInjective(sent)}

\* The events of the client for a request it made, with one for each proxy that
\* failed, or did not make for its own cooldown; a browser has none.
ClientEvents(by, refusal, status, sent) ==
  IF by # "requests" \/ refusal # "" THEN <<>>
  ELSE [i \in 1..(Len(sent) - 1) |-> AttemptEntry(sent[i], "none", FALSE, FALSE, 0)]
       \o << AttemptEntry(IF status = "cooldown_active" THEN Direct ELSE sent[Len(sent)],
                "none", FALSE, FALSE,
                IF status \in {"cooldown_active", "rate_limited", "bot_gate"}
                THEN ClientCooldown ELSE 0) >>

\* A block that is only thin content may be looked at by a browser through the
\* same proxy (_allow_same_proxy_for_browser_escalation).
SameProxyAllowed(d) ==
  /\ d.class \notin {"HARD_BAN", "CHALLENGE_LOOP"}
  /\ d.reason \in {"thin_html", "empty_js_shell", "browser_required", "redirect_loop"}

\* _resolve_followup_action, after the first of two attempts.
Policy(d, status) ==
  IF d.manual \/ d.usable                     THEN "stop"
  ELSE IF status \in {"blocked_no_alternative_proxy", "cooldown_active"} THEN "denied"
  ELSE IF d.retry                             THEN "retry"
  ELSE IF d.escalate /\ PlaywrightEnabled     THEN "escalate"
  ELSE IF d.escalate \/ d.blocked             THEN "denied"
  ELSE "stop"

\* _append_terminal_progress_event: a fetch that policy ends says so.
StopEntry(contour) == AttemptEntry(contour, "none", FALSE, FALSE, 0)

\* What fetch makes of it: the second attempt, or Idle.
Followup(j, d, status, contour, left) ==
  LET shunned == IF SameProxyAllowed(d) \/ d.class = "RATE_LIMIT" \/ contour = Direct
                 THEN j.avoid ELSE j.avoid \cup {contour}
      again    == [j EXCEPT !.pc = "second", !.by = "requests", !.given = None, !.free = TRUE]
      browse   == [j EXCEPT !.pc = "second", !.by = "playwright", !.given = None,
                            !.avoid = shunned, !.free = SameProxyAllowed(d)]
  IN  IF Policy(d, status) = "retry" /\ left = 0 THEN again
      ELSE IF Policy(d, status) = "escalate" /\ (left = 0 \/ shunned # {}) THEN browse
      ELSE Idle

\* The proxies an attempt may go through: the one that was given, or a selection.
Tries(j, hint) == IF j.given # None THEN {[contour |-> j.given, hint |-> hint]}
                  ELSE Selections(hint, j.avoid)
NoPage == [code |-> "200", marks |-> {}, usable |-> FALSE]

\* The finalization of an attempt and the step of fetch after it, once it is
\* known what came of it: its symptoms S and the decision d.  Whatever proxy the
\* client came to, the attempt is put down to the one that was selected.
Finalize(f, s, sent, refusal, status, waited, S, d) ==
  LET j       == job[f]
      h       == j.host
      o       == own[f]
      first   == j.pc = "first" /\ MaxAttempts = 2
      asks    == refusal = "" /\ status \notin {"cooldown_active", "browser_required"}
      until   == Cooled(o.cool[h], d.class, Max({waited, d.secs}))
      left    == HostLeft(until)
      next    == IF first THEN Followup(j, d, status, s.contour, left) ELSE Idle
      stopped == first /\ next = Idle /\ Policy(d, status) # "stop"
      hard    == \/ S \cap {"http_429", "http_403", "challenge_page"} # {}
                 \/ status = "bot_gate" \/ d.gate
  IN  /\ own' = [own EXCEPT ![f] =
                   [breaker |-> ApplyDecision(o.breaker, d.class, d.gate, now, NotRecorded),
                    cool |-> [o.cool EXCEPT ![h] = until],
                    hint |-> [o.hint EXCEPT ![h] = s.hint]]]
      /\ session' = SessionAfter(j.by, asks, status, s.contour)
      /\ Emit(f, h, ClientEvents(j.by, refusal, status, sent)
                      \o <<AttemptEntry(s.contour, d.class, d.gate, hard, Max({left, d.secs}))>>
                      \o IF stopped THEN <<StopEntry(s.contour)>> ELSE <<>>)
      /\ known' = [known EXCEPT ![f] =
                     IF next = Idle THEN NothingKnown
                     ELSE [told |-> @.told, met |-> IF hard THEN {s.contour} ELSE {},
                           until |-> Max({@.until, now + waited, now + left, now + d.secs})]]
      /\ job' = [job EXCEPT ![f] = next]
      /\ asked' = IF asks THEN [asked EXCEPT ![f] = [n |-> @.n + 1, handed |-> s.contour,
                                                   free |-> j.free]]
                   ELSE asked

\* An attempt through a proxy, and what a page answers, if it is asked.  S and d
\* are bound to be evaluated once.
AttemptWith(f, s, page, sent) ==
  LET j       == job[f]
      breaker == own[f].breaker
      n       == IF j.pc = "first" THEN 1 ELSE 2
      waiting == HostLeft(own[f].cool[j.host])
      profile == IF n = 1 THEN j.profile ELSE Guarded(j.avoid)
      refusal == Refusal(j, s.contour, waiting)
      status  == IF refusal # ""           THEN refusal
                 ELSE IF j.by = "requests" THEN ClientStatus(page)
                 ELSE BrowserStatus(page)
      waited  == IF refusal = "cooldown_active" THEN waiting
                 ELSE IF /\ refusal = "" /\ j.by = "requests"
                         /\ status \in {"cooldown_active", "rate_limited", "bot_gate"}
                   THEN ClientCooldown ELSE 0
      cooling == status = "cooldown_active" \/ breaker.until > now
  IN  \E S \in {Symptoms(status, page.code, page.marks, page.usable)} :
      \E d \in {AntiBotDecision(S, status, j.by, j.allowed, n, profile # None /\ refusal = "",
                                breaker.mode, cooling, Max({0, breaker.until - now}))} :
        Finalize(f, s, sent, refusal, status, waited, S, d)

\* _execute_attempt
Attempt(f) ==
  LET j == job[f]
      h == j.host
  IN  /\ j.pc # "idle"
      /\ \E s \in Tries(j, own[f].hint[h]) :
           LET asks == Refusal(j, s.contour, HostLeft(own[f].cool[h])) = ""
           IN  \E page \in IF asks THEN Responses(j.by) ELSE {NoPage} :
               \E sent \in IF asks THEN Sent(j.by, s.contour, page) ELSE {<<s.contour>>} :
                 AttemptWith(f, s, page, sent)
      /\ UNCHANGED <<now, fetches>>

Tick ==
  /\ now < MaxNow /\ now' = now + 1
  /\ UNCHANGED <<memory, buffer, session, own, job, history, known, asked, fetches>>

FetchNext ==
  \/ \E f \in Fetchers : \/ \E h \in HostsOf[f], r \in Routes : Begin(f, h, r)
                         \/ Attempt(f) \/ NewFetcher(f) \/ Replay(f)
  \/ Tick

FetchSpec == FetchInit /\ [][FetchNext]_fetchVars

-----------------------------------------------------------------------------
(* Properties. *)

Asks(f) == asked'[f].n # asked[f].n

\* The fetcher hands no request to a proxy the host was seen to block: not when the
\* memory said so as the fetch began, whatever selected the proxy (pool, hint,
\* rotation, survival), and not when its own first attempt was blocked, unless
\* that was a passing failure or thin content.  It does not bind the client, which
\* sends the request on through any other proxy when the one it was handed fails.
BlockedProxyIsAvoided ==
  [][\A f \in Fetchers : Asks(f) =>
       asked'[f].handed \notin
         Labels \cap (known[f].told \cup IF asked'[f].free THEN {} ELSE known[f].met)]_fetchVars

\* No page is asked for while a cooldown runs that the memory told of when the
\* fetch began or that the fetch met itself, but for the halves of a second that
\* are lost where it is rounded, by the memory and by the fetcher; though a
\* success ends cooldowns, refusals prolong them and every fetcher counts for
\* itself.
CoolingHostIsSpared ==
  [][\A f \in Fetchers : Asks(f) => known[f].until - now <= 2 * (Second \div 2)]_fetchVars

\* A fetcher made anew is no bolder than the one before: the breaker it takes
\* over from the memory is at least in the mode the attempts had led to, as long
\* as the memory holds them all and nobody else had a success.
RestartKeepsCaution ==
  \A f \in Fetchers \ Buffered : \A h \in Hosts :
    /\ HostsOf[f] = {h}
    /\ Len(history[h]) <= LedgerLimit
    /\ \A i \in DOMAIN history[h] : history[h][i].class = "SUCCESS" => history[h][i].by = f
    => Rank[Bootstrap(Pristine, memory[h]).mode] >= Rank[own[f].breaker.mode]

LastSaying(h, c) == {i \in DOMAIN history[h] : /\ history[h][i].contour = c
                                               /\ history[h][i].verdict # "mute"}
LastWord(h, c) == IF LastSaying(h, c) = {} THEN "mute"
                  ELSE history[h][Max(LastSaying(h, c))].verdict

\* What is read from the memory of a host follows from all that happened there:
\* the limit of the ledger only forgets debt, the last word of a contour
\* decides, and a block among the kept attempts is never overlooked.
MemoryTellsTheTruth ==
  \A h \in Hosts :
    /\ SignalLabels(memory[h]) \subseteq SignalLabels(history[h])
    /\ CooldownLeft(memory[h], now) <= CooldownLeft(history[h], now)
    /\ \A c \in Labels :
         /\ c \in SignalLabels(history[h]) <=> LastWord(h, c) \in {"hard", "soft"}
         /\ c \in Avoided(memory[h]) => LastWord(h, c) = "hard"
         /\ LastWord(h, c) = "hard" /\ Len(history[h]) - Max(LastSaying(h, c)) < LedgerLimit
              => c \in Avoided(memory[h])
=============================================================================
