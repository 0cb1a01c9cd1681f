----------------------------- MODULE HostGovernor -----------------------------
(***************************************************************************)
(* HostGovernorLedger (app/runtime/host_governor.py) with the worker tasks *)
(* that lease hosts for downstream preparation (_search_company_sources)   *)
(* and the main thread, which replays what the workers met into the        *)
(* persisted host memory and also fetches pages itself, without a lease.   *)
(*                                                                         *)
(* A lock serialises acquire attempts and releases, so each is one action; *)
(* between two attempts a waiting task sleeps.  The telemetry of the waits *)
(* is left out but for the count of waiters.                               *)
(***************************************************************************)
EXTENDS HostMemory

CONSTANTS Tasks,         \* worker tasks, each with one acquire
          Hosts,
          HostsOf,       \* the hosts each task asks for
          Cooldowns,     \* cooldowns a fetch may announce, in ticks
          EarlierMemory, \* what earlier rows left in the memory of each host
          MaxTime,       \* bound on the clock while no cooldown runs
          MaxMemory      \* bound on a host's memory when the main thread adds to it

Attempts == [contour : Contours, verdict : Verdicts, until : Nat]

ASSUME HostGovernorAssumption ==
  /\ HostsOf \in [Tasks -> (SUBSET Hosts) \ {{}}]
  /\ EarlierMemory \in [Hosts -> Seq(Attempts)]
  /\ Cooldowns \subseteq Nat
  /\ MaxTime \in Nat
  /\ MaxMemory \in Nat

VARIABLES
  now,
  memory,   \* recent_attempts of each host in the persisted host memory
  leases,   \* active_leases
  cooldown, \* cooldown_until_ts
  booted,   \* bootstrapped_from_runtime
  waiters,  \* _waiters
  at,       \* where each task is
  event,    \* the attempt a task recorded, at most one
  closing,  \* the executor's shutdown event, cancel_requested of every acquire
  shown     \* history: the latest cooldown end the ledger was shown, per host

vars == <<now, memory, leases, cooldown, booted, waiters, at, event, closing, shown>>

None == [host |-> "", contour |-> Direct, verdict |-> "mute", cooldown |-> 0, until |-> 0]

Attempt(e) == [contour |-> e.contour, verdict |-> e.verdict, until |-> e.until]

\* What a fetch of host h at this time can leave behind: a success, or a
\* block that announces a cooldown or none.
Events(h) ==
  LET Met(v, ds) == {[host |-> h, contour |-> c, verdict |-> v, cooldown |-> d, until |-> now + d] :
                       c \in Contours, d \in ds}
  IN  Met("clear", {0}) \cup Met("hard", {0} \cup Cooldowns)

Init ==
  /\ now = 0
  /\ memory = EarlierMemory
  /\ leases = [h \in Hosts |-> 0]
  /\ cooldown = [h \in Hosts |-> 0]
  /\ booted = [h \in Hosts |-> FALSE]
  /\ waiters = 0
  /\ at = [t \in Tasks |-> "asking"]
  /\ event = [t \in Tasks |-> None]
  /\ closing = FALSE
  /\ shown = [h \in Hosts |-> 0]

\* The clock stops when nothing new may happen and no cooldown runs.
Tick == /\ now < MaxTime \/ \E h \in Hosts : cooldown[h] > now
        /\ now' = now + 1
        /\ UNCHANGED <<memory, leases, cooldown, booted, waiters, at, event, closing, shown>>

\* The latest end of an active cooldown in the memory of a host.
MemoryEnd(h) == Max({0} \cup {memory[h][i].until : i \in Active(memory[h])})

\* Mutant of EntryCooldown: the persisted memory is not looked at.
CooldownOfThisRun(h) == cooldown[h]

\* _entry_locked for each host of the set: its first use takes the cooldown
\* over from the persisted memory, later uses never look there again.
EntryCooldown(h) ==
  IF booted[h] THEN cooldown[h]
  ELSE Max({cooldown[h], LET left == CooldownLeft(memory[h], now)
                         IN  IF left > 0 THEN now + left ELSE 0})
Touch(hs) ==
  /\ booted' = [h \in Hosts |-> booted[h] \/ h \in hs]
  /\ shown' = [h \in Hosts |-> IF h \in hs /\ ~booted[h] THEN Max({shown[h], MemoryEnd(h)})
                               ELSE shown[h]]

\* Mutant of Blocked: leases do not count.
OnlyCoolingDown(hs) == \E h \in hs : EntryCooldown(h) > now

\* _blocked_wait_seconds_locked
Blocked(hs) == \E h \in hs : leases[h] > 0 \/ EntryCooldown(h) > now

\* One round of the loop in acquire: blocked, or all the hosts at once.
AcquireBlocked(t) ==
  /\ at[t] \in {"asking", "waiting"}
  /\ ~closing
  /\ Blocked(HostsOf[t])
  /\ Touch(HostsOf[t])
  /\ cooldown' = [h \in Hosts |-> IF h \in HostsOf[t] THEN EntryCooldown(h) ELSE cooldown[h]]
  /\ at' = [at EXCEPT ![t] = "waiting"]
  /\ waiters' = waiters + IF at[t] = "asking" THEN 1 ELSE 0
  /\ UNCHANGED <<now, memory, leases, event, closing>>

AcquireHosts(t) ==
  /\ at[t] \in {"asking", "waiting"}
  /\ ~closing
  /\ ~Blocked(HostsOf[t])
  /\ Touch(HostsOf[t])
  /\ cooldown' = [h \in Hosts |-> IF h \in HostsOf[t] THEN EntryCooldown(h) ELSE cooldown[h]]
  /\ leases' = [h \in Hosts |-> IF h \in HostsOf[t] THEN leases[h] + 1 ELSE leases[h]]
  /\ at' = [at EXCEPT ![t] = "holding"]
  /\ waiters' = waiters - IF at[t] = "waiting" THEN 1 ELSE 0
  /\ UNCHANGED <<now, memory, event, closing>>

AcquireCancelled(t) ==
  /\ at[t] \in {"asking", "waiting"}
  /\ closing
  /\ at' = [at EXCEPT ![t] = "refused"]
  /\ waiters' = waiters - IF at[t] = "waiting" THEN 1 ELSE 0
  /\ UNCHANGED <<now, memory, leases, cooldown, booted, event, closing, shown>>

\* Downstream preparation fetches a page of some host; the attempt stays in
\* the event buffer of the executor.
Fetch(t) ==
  /\ at[t] = "holding"
  /\ event[t] = None
  /\ now <= MaxTime
  /\ \E h \in Hosts : \E e \in Events(h) : event' = [event EXCEPT ![t] = e]
  /\ UNCHANGED <<now, memory, leases, cooldown, booted, waiters, at, closing, shown>>

\* Mutant of Returned: the leases stay.
Unreturned(hs) == leases

\* The leases once those of a set of hosts were given back.
Returned(hs) ==
  [h \in Hosts |-> IF h \in hs /\ leases[h] > 0 THEN leases[h] - 1 ELSE leases[h]]

\* release: the leases go, the cooldowns the task met count from now on.
ReleaseHosts(t) ==
  LET e == event[t]
      met == {h \in Hosts : h = e.host /\ e.cooldown > 0}
      used == HostsOf[t] \cup met
      Entry(h) == IF h \in used THEN EntryCooldown(h) ELSE cooldown[h]
  IN  /\ at[t] = "holding"
      /\ booted' = [h \in Hosts |-> booted[h] \/ h \in used]
      /\ leases' = Returned(HostsOf[t])
      /\ cooldown' = [h \in Hosts |-> IF h \in met THEN Max({Entry(h), now + e.cooldown})
                                      ELSE Entry(h)]
      /\ shown' = [h \in Hosts |->
                     Max({shown[h]} \cup {e.until : x \in {h} \cap met}
                                    \cup {MemoryEnd(x) : x \in {y \in used \cap {h} : ~booted[y]}})]
      /\ at' = [at EXCEPT ![t] = "released"]
      /\ UNCHANGED <<now, memory, waiters, event, closing>>

\* The main thread takes the batch and appends its events to the progress
\* store, whenever it gets to that row.
Replay(t) ==
  /\ at[t] = "released"
  /\ at' = [at EXCEPT ![t] = "replayed"]
  /\ memory' = [h \in Hosts |-> IF h = event[t].host THEN Remember(memory[h], Attempt(event[t]))
                                ELSE memory[h]]
  /\ UNCHANGED <<now, leases, cooldown, booted, waiters, event, closing, shown>>

\* The main thread fetches a page itself.
MainFetch ==
  /\ ~closing
  /\ now <= MaxTime
  /\ \E h \in Hosts :
       /\ Len(memory[h]) < MaxMemory
       /\ \E e \in Events(h) :
            memory' = [memory EXCEPT ![h] = Remember(@, Attempt(e))]
  /\ UNCHANGED <<now, leases, cooldown, booted, waiters, at, event, closing, shown>>

\* close() of the executor sets its shutdown event.
Shutdown == /\ ~closing
            /\ closing' = TRUE
            /\ UNCHANGED <<now, memory, leases, cooldown, booted, waiters, at, event, shown>>

AcquireRound(t) == AcquireBlocked(t) \/ AcquireHosts(t) \/ AcquireCancelled(t)

Next ==
  \/ Tick
  \/ \E t \in Tasks : AcquireRound(t) \/ Fetch(t) \/ ReleaseHosts(t) \/ Replay(t)
  \/ MainFetch
  \/ Shutdown

Spec == Init /\ [][Next]_vars

\* Time passes, a waiting task polls, and downstream preparation ends.
Fairness ==
  /\ WF_vars(Tick)
  /\ \A t \in Tasks : WF_vars(AcquireRound(t)) /\ WF_vars(ReleaseHosts(t))

FairSpec == Spec /\ Fairness

----------------------------------------------------------------------------
(* Properties                                                              *)

TaskPlaces == {"asking", "waiting", "holding", "released", "replayed", "refused"}

\* Type invariant of the ledger, the memory and the tasks.
TypeOK ==
  /\ now \in Nat
  /\ memory \in [Hosts -> Seq(Attempts)]
  /\ leases \in [Hosts -> Nat]
  /\ cooldown \in [Hosts -> Nat]
  /\ booted \in [Hosts -> BOOLEAN]
  /\ waiters \in Nat
  /\ at \in [Tasks -> TaskPlaces]
  /\ event \in [Tasks -> {None} \cup [host : Hosts, contour : Contours, verdict : Verdicts,
                                      cooldown : Nat, until : Nat]]
  /\ closing \in BOOLEAN
  /\ shown \in [Hosts -> Nat]

Holders(h) == {t \in Tasks : at[t] = "holding" /\ h \in HostsOf[t]}

\* No two tasks work on a host at the same time, whatever the sets of hosts
\* they ask for.
HostExclusive ==
  \A t, u \in Tasks : t # u /\ at[t] = "holding" /\ at[u] = "holding" => HostsOf[t] \cap HostsOf[u] = {}

\* A task gets a host only when every cooldown the ledger was shown for it,
\* by the memory at the first use or by the release of another task, is over,
\* give or take the half second lost to rounding.
CooldownRespected ==
  [][\A t \in Tasks : at[t] # "holding" /\ at'[t] = "holding" =>
       \A h \in HostsOf[t] : 2 * (shown'[h] - now) <= Second]_vars

\* A blocked acquire ends: tasks that hold some of the hosts release them,
\* cooldowns run out, and no task takes part of its hosts while it waits for
\* the rest.
EveryWaitEnds == \A t \in Tasks : at[t] = "waiting" ~> at[t] # "waiting"
=============================================================================
