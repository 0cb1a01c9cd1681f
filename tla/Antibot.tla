-------------------------------- MODULE Antibot --------------------------------
(* What one attempt at a page of a company site means, and what follows from
   it (app/site_intelligence/antibot.py): the symptoms of a response, the
   transport policy of its route, the class of the block, and the breaker of
   the domain.  A text is the set of marks the markers find in it.           *)
EXTENDS Integers, Sequences, SequencesExt, FiniteSetsExt

CONSTANT Cooldowns   \* recommended_cooldown_seconds: first cooldown of a class
                     \* and of a bot gate

Marks == {"challenge", "auth", "js", "loop", "gate", "client_gate", "thin", "throttle"}
Codes == {"200", "403", "429", "5xx", "error", "wait", "no_browser"}
RouteKinds == {"no_browser", "browser_first", "browser_allowed", "requests_only"}
RequestedModes == {"requests", "hybrid", "playwright"}
Transports == {"requests", "playwright"}
ASSUME AntibotAssumption ==
  /\ DOMAIN Cooldowns = {"RATE_LIMIT", "CHALLENGE_LOOP", "HARD_BAN", "SHADOW_THROTTLE", "gate"}
  /\ \A c \in DOMAIN Cooldowns : Cooldowns[c] \in Nat \ {0}

-----------------------------------------------------------------------------
(* Symptoms and policy of one attempt. *)

\* resolve_route_transport_policy: where a route starts, may it use a browser?
BrowserAllowed(requested, kind) ==
  requested = "playwright" \/ kind \in {"browser_first", "browser_allowed"}
StartTransport(requested, kind) ==
  IF requested = "playwright" \/ (requested = "hybrid" /\ kind = "browser_first")
  THEN "playwright" ELSE "requests"

\* normalize_fetch_symptoms
Symptoms(status, code, marks, usable) ==
  LET js == ~usable /\ "js" \in marks
      gate == status = "bot_gate" \/ "gate" \in marks
      thin == ~usable /\ "thin" \in marks /\ marks \cap {"challenge", "auth", "js"} = {}
      Has(s) ==
        CASE s = "usable"          -> usable
          [] s = "challenge_page"  -> "challenge" \in marks
          [] s = "auth_required"   -> "auth" \in marks
          [] s = "empty_js_shell"  -> js
          [] s = "redirect_loop"   -> "loop" \in marks
          [] s = "bot_gate"        -> gate
          [] s = "thin_html"       -> thin
          [] s = "shadow_throttle" -> /\ ~usable /\ ~js /\ ~gate /\ "challenge" \notin marks
                                      /\ thin \/ "throttle" \in marks
          [] s = "http_429"        -> status \in {"rate_limited", "cooldown_active"} \/ code = "429"
          [] s = "http_403"        -> status = "http_403" \/ code = "403"
          [] s = "http_5xx"        -> status = "http_5xx"
          [] OTHER                 -> status = s
  IN  {s \in {"usable", "challenge_page", "auth_required", "empty_js_shell", "redirect_loop",
              "bot_gate", "thin_html", "shadow_throttle", "http_429", "http_403", "http_5xx",
              "request_error", "browser_error", "browser_required"} : Has(s)}

FirstOf(order, S) == LET present == {i \in DOMAIN order : order[i] \in S}
                     IN  IF present = {} THEN "" ELSE order[Min(present)]

BrowserTrigger(S) ==
  FirstOf(<<"challenge_page", "redirect_loop", "bot_gate", "empty_js_shell", "http_403",
            "thin_html", "shadow_throttle", "browser_required", "auth_required">>, S)
RetryTrigger(S) == FirstOf(<<"http_429", "http_5xx", "request_error", "browser_error">>, S)

Doubled(first, n) == first * <<1, 2, 4, 8>>[Min({n, 4})]

\* recommended_cooldown_seconds; gate says the reason is a bot gate.
Recommended(class, gate, n) ==
  IF class = "CHALLENGE_LOOP"                                     THEN Cooldowns[class] * n
  ELSE IF class \in {"RATE_LIMIT", "HARD_BAN", "SHADOW_THROTTLE"} THEN Doubled(Cooldowns[class], n)
  ELSE IF gate                                                    THEN Cooldowns.gate * n
  ELSE 0

\* The class of anti_bot_decision_from_policy.
BlockClass(S, status, manual, browser, reused) ==
  IF "usable" \in S /\ status = "success" THEN "SUCCESS"
  ELSE IF "http_429" \in S                THEN "RATE_LIMIT"
  ELSE IF "auth_required" \in S           THEN "AUTH_REQUIRED"
  ELSE IF "challenge_page" \in S          THEN IF browser \/ reused \/ manual
                                               THEN "CHALLENGE_LOOP" ELSE "SOFT_BLOCK"
  ELSE IF "http_403" \in S                THEN "HARD_BAN"
  ELSE IF "shadow_throttle" \in S         THEN "SHADOW_THROTTLE"
  ELSE "SOFT_BLOCK"

\* ... and whether its reason is the bot gate.
GateIsReason(S, status) ==
  /\ "bot_gate" \in S
  /\ S \cap {"http_429", "auth_required", "challenge_page", "http_403", "shadow_throttle"} = {}
  /\ ~("usable" \in S /\ status = "success")

\* resolve_transport_policy and anti_bot_decision_from_policy, for attempt n of
\* two (retry_budget is at least DEFAULT_RETRY_BUDGET) by transport now, while
\* the host cools down for left seconds if cooling.
AntiBotDecision(S, status, now, allowed, n, reused, mode, cooling, left) ==
  LET browser == now = "playwright"
      trigger == BrowserTrigger(S)
      wanted  == trigger # "" /\ ~browser
      granted == wanted /\ allowed /\ ~cooling /\ mode # "paused"
      manual  == "challenge_page" \in S /\ (browser \/ reused)
      final   == IF granted \/ (manual /\ allowed) THEN "playwright" ELSE now
      blocked == \/ wanted /\ ~granted
                 \/ manual /\ ~allowed
                 \/ cooling /\ (trigger # "" \/ final = "playwright")
      class   == BlockClass(S, status, manual, browser, reused)
      gate    == GateIsReason(S, status)
  IN  [class    |-> class,
       gate     |-> gate,
       reason   |-> trigger,
       manual   |-> manual,
       usable   |-> class = "SUCCESS",
       blocked  |-> blocked,
       retry    |-> RetryTrigger(S) # "" /\ n < 2 /\ ~cooling,
       escalate |-> ~blocked /\ ~browser /\ final = "playwright",
       secs     |-> IF cooling              THEN left
                    ELSE IF "http_429" \in S THEN Recommended("RATE_LIMIT", FALSE, n)
                    ELSE IF trigger # ""
                    THEN Recommended(IF "http_403" \in S THEN "HARD_BAN" ELSE "SOFT_BLOCK",
                                     trigger = "bot_gate", n)
                    ELSE 0]

-----------------------------------------------------------------------------
(* The breaker of a domain. *)

Rank == [normal |-> 0, conservative |-> 1, survival |-> 2, paused |-> 3]
Counters == {"RATE_LIMIT", "SHADOW_THROTTLE", "SOFT_BLOCK", "HARD_BAN", "CHALLENGE_LOOP"}
Pristine == [mode |-> "normal", count |-> [c \in Counters |-> 0], until |-> 0, touched |-> FALSE]

BreakerType ==
  [mode : DOMAIN Rank, count : [Counters -> Nat], until : Nat, touched : BOOLEAN]

CounterOf(class) == IF class = "AUTH_REQUIRED" THEN "SOFT_BLOCK" ELSE class

TargetMode(counter, n) ==
  IF counter = "HARD_BAN"            THEN <<"conservative", "survival", "paused">>[Min({n, 3})]
  ELSE IF counter = "CHALLENGE_LOOP" THEN <<"survival", "paused">>[Min({n, 2})]
  ELSE <<"conservative", "survival">>[Min({n, 2})]

\* _apply_breaker_decision: an attempt of this class at time at; secs is the
\* cooldown that was recorded with it, NotRecorded for the recommended one.
NotRecorded == -1

ApplyDecision(b, class, gate, at, secs) ==
  IF class = "SUCCESS" THEN [Pristine EXCEPT !.touched = TRUE]
  ELSE
    LET counter == CounterOf(class)
        n       == b.count[counter] + 1
        target  == TargetMode(counter, n)
        wait    == IF secs = NotRecorded THEN Recommended(class, gate, n) ELSE secs
    IN  [mode    |-> IF Rank[target] > Rank[b.mode] THEN target ELSE b.mode,
         count   |-> [b.count EXCEPT ![counter] = n],
         until   |-> IF wait > 0 THEN Max({b.until, at + wait}) ELSE b.until,
         touched |-> TRUE]

\* Mutant of Bootstrap: only the newest attempt is looked at.
BootstrapFromLast(b, attempts) ==
  IF b.touched \/ attempts = <<>> \/ Last(attempts).class = "none" THEN b
  ELSE ApplyDecision(b, Last(attempts).class, Last(attempts).gate, Last(attempts).ts, NotRecorded)

\* bootstrap_from_recent_attempts: a breaker nothing was recorded in yet takes
\* over what the memory of the host has; attempts without a class are ignored.
Taught(b, a) ==
  IF a.class = "none" THEN b
  ELSE ApplyDecision(b, a.class, a.gate, a.ts,
                     IF a.until > a.ts THEN a.until - a.ts ELSE NotRecorded)

Bootstrap(b, attempts) ==
  LET after[n \in 0..Len(attempts)] == IF n = 0 THEN b ELSE Taught(after[n - 1], attempts[n])
  IN  IF b.touched THEN b ELSE after[Len(attempts)]
=============================================================================
