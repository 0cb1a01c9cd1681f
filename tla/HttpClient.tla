----------------------------- MODULE HttpClient -----------------------------
(* RateLimitedHttpClient of src/company_enrichment_core.py over the proxy pool:
   threads that share one client send requests of several sources.  A request
   waits for its host (spacing, cooldown), settles on a proxy or on a direct
   connection, and is sent; a failure of the proxy itself is retried through
   another one; what came back moves the state of the host and of the proxy.

   The diagnosis of the proxy provider (app/runtime/proxy6.py, with its cache)
   is any of its three answers at each look.                                *)
EXTENDS ProxyPool

CONSTANTS
  Threads,
  HostOf,          \* the host a source's requests go to
  Bound,           \* sources with proxy-bound transport
  MinDelay,        \* min_delay_by_host, in ticks
  Cooldown429, CooldownBot,
  InsecureTls,     \* allow_insecure_tls_fallback
  Given,           \* selections the fetchers of company sites bring along
  MaxRequests      \* bound: requests of all threads together

ASSUME ClientAssumption ==
  /\ HostOf \in [Sources -> Hosts]
  /\ Bound \subseteq Sources
  /\ MinDelay \in Nat /\ Cooldown429 \in Nat \ {0} /\ CooldownBot \in Nat \ {0}
  /\ InsecureTls \in BOOLEAN
  /\ Given \subseteq Proxies \cup {Direct}
  /\ MaxRequests \in Nat

VARIABLES
  made,            \* requests made so far, up to MaxRequests
  hostCool,        \* HostStatus.cooldown_until, what is left of it
  issues,          \* consecutive_429 and consecutive_bot
  gap,             \* what is left until min_delay has passed on a host
  delayLock,       \* holder of host_delay_locks[host] while it sleeps
  req              \* per thread: the request it is making

client == <<made, hostCool, issues, gap, delayLock, req>>
vars == <<pool, client>>

NoProxyGiven == NProxies + 1
NoThread == "none"
ASSUME ThreadsAssumption == NoThread \notin Threads
Diagnoses == {"healthy", "empty_or_expired", "unknown"}
Idle == [pc |-> "idle", src |-> Nobody, sel |-> Direct, tried |-> {},
            attempts |-> 0, insecure |-> FALSE, left |-> 0]

TypeOK ==
  /\ PoolTypeOK
  /\ hostCool \in [Hosts -> Nat] /\ gap \in [Hosts -> Nat]
  /\ issues \in [Hosts -> [r429 : Nat, bot : Nat]]
  /\ delayLock \in [Hosts -> Threads \cup {NoThread}]
  /\ req \in [Threads ->
       [pc : {"idle", "wait", "nap", "resolve", "sent", "failover"},
        src : Sources \cup {Nobody}, sel : Proxies \cup {Direct, NoProxyGiven},
        tried : SUBSET Proxies, attempts : Nat, insecure : BOOLEAN, left : Nat]]
  /\ made \in 0..MaxRequests

Init ==
  /\ PoolInit
  /\ hostCool = [h \in Hosts |-> 0]
  /\ issues = [h \in Hosts |-> [r429 |-> 0, bot |-> 0]]
  /\ gap = [h \in Hosts |-> 0]
  /\ delayLock = [h \in Hosts |-> NoThread]
  /\ req = [t \in Threads |-> Idle]
  /\ made = 0

Host(t) == HostOf[req[t].src]
At(t, place) == req[t].pc = place
Returned(t) == req' = [req EXCEPT ![t] = Idle]
GoesOn(t, place) == req' = [req EXCEPT ![t].pc = place]

-----------------------------------------------------------------------------
(* Waiting for the host. *)

Begin(t, s, g) ==
  /\ At(t, "idle")
  /\ made < MaxRequests /\ made' = made + 1
  /\ req' = [req EXCEPT ![t] = [Idle EXCEPT !.pc = "wait", !.src = s, !.sel = g]]
  /\ UNCHANGED <<pool, hostCool, issues, gap, delayLock>>

\* The cooldown is looked at before the spacing, under the lock of the host.
CooldownSkip(t) ==
  /\ At(t, "wait") /\ delayLock[Host(t)] = NoThread
  /\ hostCool[Host(t)] > 0
  /\ Returned(t)
  /\ UNCHANGED <<made, pool, hostCool, issues, gap, delayLock>>

PermitNow(t) ==
  /\ At(t, "wait") /\ delayLock[Host(t)] = NoThread
  /\ hostCool[Host(t)] = 0 /\ gap[Host(t)] = 0
  /\ gap' = [gap EXCEPT ![Host(t)] = MinDelay]
  /\ GoesOn(t, "resolve")
  /\ UNCHANGED <<made, pool, hostCool, issues, delayLock>>

\* The lock of the host is not kept during the sleep.
NapUnlocked(t) ==
  /\ At(t, "wait") /\ delayLock[Host(t)] = NoThread
  /\ hostCool[Host(t)] = 0 /\ gap[Host(t)] > 0
  /\ req' = [req EXCEPT ![t].pc = "nap", ![t].left = gap[Host(t)]]
  /\ UNCHANGED <<made, pool, hostCool, issues, gap, delayLock>>

\* The thread sleeps with the lock in hand; the random part of the sleep is
\* that it may end later than it could.
Nap(t) ==
  /\ At(t, "wait") /\ delayLock[Host(t)] = NoThread
  /\ hostCool[Host(t)] = 0 /\ gap[Host(t)] > 0
  /\ delayLock' = [delayLock EXCEPT ![Host(t)] = t]
  /\ req' = [req EXCEPT ![t].pc = "nap", ![t].left = gap[Host(t)]]
  /\ UNCHANGED <<made, pool, hostCool, issues, gap>>

\* A cooldown may have begun during the sleep.
Wake(t) ==
  /\ At(t, "nap") /\ req[t].left = 0
  /\ delayLock' = [delayLock EXCEPT ![Host(t)] = NoThread]
  /\ IF hostCool[Host(t)] > 0
       THEN Returned(t) /\ UNCHANGED gap
       ELSE GoesOn(t, "resolve") /\ gap' = [gap EXCEPT ![Host(t)] = MinDelay]
  /\ UNCHANGED <<made, pool, hostCool, issues>>

-----------------------------------------------------------------------------
(* Proxy or direct. *)

Sent(t, p) ==
  req' = [req EXCEPT ![t].pc = "sent", ![t].sel = p, ![t].insecure = FALSE, ![t].left = 0,
                     ![t].attempts = @ + 1, ![t].tried = @ \cup ({p} \ {Direct})]

\* A proxy-bound source with no proxy to use: request_blocked_by_policy.
Refused(t) == Returned(t)

ResolveGiven(t) ==
  /\ At(t, "resolve") /\ req[t].sel # NoProxyGiven
  /\ \E d \in Diagnoses :
       IF req[t].src \in Bound /\ (req[t].sel = Direct \/ d = "empty_or_expired")
         THEN Refused(t)
         ELSE Sent(t, req[t].sel)
  /\ UNCHANGED <<made, pool, hostCool, issues, gap, delayLock>>

Resolve(t) ==
  /\ At(t, "resolve") /\ req[t].sel = NoProxyGiven
  /\ \E d \in Diagnoses :
       LET chosen == Select(req[t].src, Host(t), d) IN
       /\ index' = chosen.index /\ sticky' = chosen.sticky
       /\ IF req[t].src \in Bound /\ chosen.proxy = Direct
            THEN Refused(t)
            ELSE Sent(t, chosen.proxy)
  /\ UNCHANGED <<made, entries, strategy, hostCool, issues, gap, delayLock>>

-----------------------------------------------------------------------------
(* What comes back. *)

MaxAttempts == Larger(NProxies, 1)    \* _proxy_failover_attempt_limit

RateLimited(t) ==
  LET h == Host(t) IN
  /\ At(t, "sent")
  /\ issues' = [issues EXCEPT ![h].r429 = @ + 1]
  /\ hostCool' = [hostCool EXCEPT ![h] = Larger(@, Cooldown429 * issues'[h].r429)]
  /\ entries' = MarkedBad(req[t].sel, req[t].src, "rate_limited")
  /\ Returned(t)
  /\ UNCHANGED <<made, index, sticky, strategy, gap, delayLock>>

BotGate(t) ==
  LET h == Host(t) IN
  /\ At(t, "sent")
  /\ issues' = [issues EXCEPT ![h].bot = @ + 1]
  /\ hostCool' = [hostCool EXCEPT ![h] = Larger(@, CooldownBot * issues'[h].bot)]
  /\ entries' = MarkedBad(req[t].sel, req[t].src, "bot_gate")
  /\ Returned(t)
  /\ UNCHANGED <<made, index, sticky, strategy, gap, delayLock>>

Forbidden(t) ==
  /\ At(t, "sent")
  /\ entries' = MarkedBad(req[t].sel, req[t].src, "http_403")
  /\ Returned(t)
  /\ UNCHANGED <<made, index, sticky, strategy, hostCool, issues, gap, delayLock>>

\* Any other HTTP error, and a url the library rejects before it sends.
HttpError(t) ==
  /\ At(t, "sent")
  /\ Returned(t)
  /\ UNCHANGED <<made, pool, hostCool, issues, gap, delayLock>>

Ok(t) ==
  /\ At(t, "sent")
  /\ issues' = [issues EXCEPT ![Host(t)] = [r429 |-> 0, bot |-> 0]]
  /\ entries' = MarkedOk(req[t].sel)
  /\ Returned(t)
  /\ UNCHANGED <<made, index, sticky, strategy, hostCool, gap, delayLock>>

\* A timeout or a request error that is not the proxy's: no second attempt.
RequestError(t) ==
  /\ At(t, "sent")
  /\ \E reason \in ObservationOnly : entries' = MarkedBad(req[t].sel, req[t].src, reason)
  /\ Returned(t)
  /\ UNCHANGED <<made, index, sticky, strategy, hostCool, issues, gap, delayLock>>

\* A TLS failure: only company sites are asked again without verification,
\* through the same proxy; otherwise nobody is blamed.
TlsError(t) ==
  /\ At(t, "sent") /\ ~req[t].insecure
  /\ IF req[t].src = "company_site" /\ InsecureTls
       THEN req' = [req EXCEPT ![t].insecure = TRUE]
       ELSE Returned(t)
  /\ UNCHANGED <<made, pool, hostCool, issues, gap, delayLock>>

\* The proxy itself failed: it is marked, and another one is looked for.
ProxyError(t) ==
  /\ At(t, "sent") /\ req[t].sel # Direct
  /\ entries' = MarkedBad(req[t].sel, req[t].src, "proxy_error")
  /\ IF req[t].attempts < MaxAttempts
       THEN req' = [req EXCEPT ![t].pc = "failover", ![t].left = Larger(NProxies, 1)]
       ELSE Returned(t)
  /\ UNCHANGED <<made, index, sticky, strategy, hostCool, issues, gap, delayLock>>

\* The alternative is not compared with the proxies already tried.
AnyAlternative(t, p) == TRUE

\* One selection of _select_alternative_proxy; other threads may rotate the
\* pool between two of them.
AlternativeOk(t, p) == p \notin req[t].tried

Alternative(t) ==
  /\ At(t, "failover")
  /\ \E d \in Diagnoses :
       LET chosen == Select(req[t].src, Host(t), d) IN
       /\ index' = chosen.index /\ sticky' = chosen.sticky
       /\ IF chosen.proxy = Direct
            THEN Returned(t)
          ELSE IF AlternativeOk(t, chosen.proxy)
            THEN Sent(t, chosen.proxy)
          ELSE IF req[t].left = 1
            THEN Returned(t)
          ELSE req' = [req EXCEPT ![t].left = @ - 1]
  /\ UNCHANGED <<made, entries, strategy, hostCool, issues, gap, delayLock>>

-----------------------------------------------------------------------------
(* Environment. *)

\* Bicotender clears the cooldown of its host once its session is renewed.
ClearHostCooldown ==
  /\ "bicotender" \in Sources
  /\ hostCool[HostOf["bicotender"]] > 0
  /\ hostCool' = [hostCool EXCEPT ![HostOf["bicotender"]] = 0]
  /\ UNCHANGED <<made, pool, issues, gap, delayLock, req>>

Tick ==
  /\ \/ Cooling # {}
     \/ \E h \in Hosts : hostCool[h] > 0 \/ gap[h] > 0 \/ sticky[h].ttl > 0
     \/ \E t \in Threads : At(t, "nap") /\ req[t].left > 0
  /\ entries' = EntriesLater /\ sticky' = StickyLater
  /\ hostCool' = [h \in Hosts |-> Monus(hostCool[h], 1)]
  /\ gap' = [h \in Hosts |-> Monus(gap[h], 1)]
  /\ req' = [t \in Threads |-> IF At(t, "nap")
                                 THEN [req[t] EXCEPT !.left = Monus(@, 1)] ELSE req[t]]
  /\ UNCHANGED <<made, index, strategy, issues, delayLock>>

Advance(t) ==
  \/ CooldownSkip(t) \/ PermitNow(t) \/ Nap(t) \/ Wake(t)
  \/ ResolveGiven(t) \/ Resolve(t) \/ Alternative(t)
  \/ RateLimited(t) \/ BotGate(t) \/ Forbidden(t) \/ HttpError(t) \/ Ok(t)
  \/ RequestError(t) \/ TlsError(t) \/ ProxyError(t)

Next ==
  \/ \E t \in Threads :
       \/ \E s \in Sources : Begin(t, s, NoProxyGiven)
       \/ \E s \in Sources \ Bound, g \in Given : Begin(t, s, g)
       \/ Advance(t)
  \/ ClearHostCooldown
  \/ Tick

Spec == Init /\ [][Next]_vars

-----------------------------------------------------------------------------
(* Properties. *)

\* A proxy-bound source (checko, bicotender) never sends a request without a
\* proxy: not when the pool runs dry between its check and its selection, nor
\* when a failover finds no other proxy, nor when the provider is empty.
BoundNeverDirect ==
  \A t \in Threads : At(t, "sent") /\ req[t].src \in Bound => req[t].sel # Direct

\* No request goes through the same proxy twice, though other threads rotate
\* the pool between its failovers, and none makes more attempts than there are
\* proxies (the attempted_proxy_urls of request).
AttemptsDistinct ==
  \A t \in Threads : /\ req[t].sel \in Proxies /\ At(t, "sent") =>
                          req[t].attempts = Cardinality(req[t].tried)
                     /\ req[t].attempts <= MaxAttempts

\* A request takes the proxies it may take, one after another, and no other way.
ProxiesInTurn == BoundNeverDirect /\ AttemptsDistinct

\* A host is never asked before its spacing has passed and never while it
\* cools down, not even when the cooldown began while this thread was asleep
\* (_wait_if_needed).
HostIsSpared ==
  [][\A t \in Threads :
       ~At(t, "resolve") /\ req'[t].pc = "resolve" =>
         gap[Host(t)] = 0 /\ hostCool[Host(t)] = 0]_vars

=============================================================================
