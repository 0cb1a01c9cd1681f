----------------------------- MODULE ProxyPool -----------------------------
(* The pool of outgoing proxies shared by every source and every thread
   (src/app/runtime/proxies.py): rotation, sticky assignment, cooldowns that
   grow with the failures of a proxy, and the capacity reserved for the
   priority source.

   Time is counted in ticks and every deadline is kept as what is left of it,
   so Tick lowers them all.  Labels, urls and descriptions are positions in the
   list of entries.  mark_ok_by_label_or_id, sync_from_proxy_provider and
   lifecycle_snapshot have no caller in the program and are left out; without
   the first one recovered_sources stays empty.                             *)
EXTENDS Naturals, FiniteSets

CONSTANTS
  NProxies,       \* entries of the pool
  Reserved,       \* priority_reserved_capacity
  Ban,            \* ban_cooldown_seconds, in ticks
  StickyTtl,      \* sticky_ttl_seconds, in ticks
  Strategies,     \* values of PARSER_PROXY_STRATEGY considered
  Hosts,
  Sources,
  Priority,       \* priority_source_names
  Protected,      \* RESERVED_CAPACITY_PROTECTED_FAILURE_SOURCE_NAMES
  Assisted        \* PROXY_ASSISTED_SOURCE_NAMES

ASSUME PoolAssumption ==
  /\ NProxies \in Nat /\ Reserved \in Nat
  /\ Ban \in Nat \ {0} /\ StickyTtl \in Nat \ {0}
  /\ Strategies \subseteq {"round_robin", "sticky_by_host"}
  /\ Priority \subseteq Sources /\ Protected \subseteq Sources
  /\ Assisted \subseteq Sources

VARIABLES
  entries,        \* per proxy: cooldown left, failures, and who cooled it
  index,          \* where the next rotation starts
  sticky,         \* _sticky_by_host: entry and life left
  strategy        \* PARSER_PROXY_STRATEGY of this run

pool == <<entries, index, sticky, strategy>>

Proxies == 1..NProxies
Direct == 0              \* ProxySelection(): no proxy at all
Nobody == "nobody"       \* no source cooled this proxy
Smaller(a, b) == IF a <= b THEN a ELSE b
Larger(a, b) == IF a >= b THEN a ELSE b
Monus(a, b) == IF a > b THEN a - b ELSE 0

PoolTypeOK ==
  /\ entries \in [Proxies -> [cool : Nat, failures : Nat, by : Sources \cup {Nobody}]]
  /\ index \in Proxies \cup {1}
  /\ sticky \in [Hosts -> [at : Proxies \cup {Direct}, ttl : Nat]]
  /\ strategy \in Strategies

PoolInit ==
  /\ entries = [p \in Proxies |-> [cool |-> 0, failures |-> 0, by |-> Nobody]]
  /\ index = 1
  /\ sticky = [h \in Hosts |-> [at |-> Direct, ttl |-> 0]]
  /\ strategy \in Strategies

-----------------------------------------------------------------------------
(* Capacity. *)

Floor == IF Priority = {} THEN 0 ELSE Smaller(Reserved, NProxies)
Cooling == {p \in Proxies : entries[p].cool > 0}
Usable == Proxies \ Cooling

\* What a source may count on: all usable entries if it is a priority source,
\* the ones above the reserved floor otherwise.
UsableCount(s) ==
  IF s \in Priority THEN Cardinality(Usable) ELSE Monus(Cardinality(Usable), Floor)

CanSelect(s) == UsableCount(s) > 0

-----------------------------------------------------------------------------
(* Selection: a proxy (or Direct), and the rotation and the sticky table after
   it.  diagnosis is what the provider said of its inventory.               *)

After(p) == (p % NProxies) + 1
Turn(k) == ((index - 1 + k) % NProxies) + 1

\* The first usable entry from the index on.
Rotated == Turn(CHOOSE k \in 0..(NProxies - 1) :
                  /\ Turn(k) \in Usable
                  /\ \A j \in 0..(k - 1) : Turn(j) \notin Usable)

SticksTo(h) ==
  strategy = "sticky_by_host" /\ sticky[h].ttl > 0 /\ sticky[h].at \in Usable

ProviderRefuses(s, diagnosis) == s \in Assisted /\ diagnosis = "empty_or_expired"

Select(s, h, diagnosis) ==
  IF ProviderRefuses(s, diagnosis) \/ ~CanSelect(s)
    THEN [proxy |-> Direct, index |-> index, sticky |-> sticky]
  ELSE IF SticksTo(h)
    THEN [proxy |-> sticky[h].at, index |-> index, sticky |-> sticky]
  ELSE [proxy |-> Rotated,
        index |-> After(Rotated),
        sticky |-> IF strategy = "sticky_by_host"
                     THEN [sticky EXCEPT ![h] = [at |-> Rotated, ttl |-> StickyTtl]]
                     ELSE sticky]

-----------------------------------------------------------------------------
(* Reports.  A timeout or a plain request error of a priority source is only
   observed; a protected source does not take one of the last usable entries. *)

ObservationOnly == {"timeout", "request_error"}

\* The reserve is ignored when it is exactly reached.
PreservedBelow(p, s) ==
  /\ s \notin Priority
  /\ s \in Protected
  /\ Floor > 0
  /\ p \notin Cooling
  /\ Cardinality(Usable) < Floor

Preserved(p, s) ==
  /\ s \notin Priority
  /\ s \in Protected
  /\ Floor > 0
  /\ p \notin Cooling
  /\ Cardinality(Usable) <= Floor

MarkedBad(p, s, reason) ==
  IF \/ p = Direct
     \/ s \in Priority /\ reason \in ObservationOnly
     \/ Preserved(p, s)
    THEN entries
    ELSE [entries EXCEPT ![p] =
            [cool |-> Larger(@.cool, Ban * Smaller(@.failures + 1, 4)),
             failures |-> @.failures + 1,
             by |-> IF @.cool > 0 THEN @.by ELSE s]]

MarkedOk(p) ==
  IF p = Direct
    THEN entries
    ELSE [entries EXCEPT ![p] =
            [cool |-> 0, failures |-> Monus(@.failures, 1), by |-> Nobody]]

\* A tick: a cooldown that ends here leaves nobody's mark.
EntriesLater ==
  [p \in Proxies |->
     [entries[p] EXCEPT !.cool = Monus(@, 1),
                        !.by = IF entries[p].cool <= 1 THEN Nobody ELSE @]]
StickyLater ==
  [h \in Hosts |-> IF sticky[h].ttl > 1 THEN [sticky[h] EXCEPT !.ttl = @ - 1]
                                        ELSE [at |-> Direct, ttl |-> 0]]

-----------------------------------------------------------------------------
\* The reserve holds: however reports and selections of different threads
\* interleave, the sources whose failures are expected (company sites) never
\* have more proxies cooling at once than the ones above the reserved floor
\* (mark_bad).
ReserveHeld ==
  Cardinality({p \in Cooling : entries[p].by \in Protected \ Priority})
    <= NProxies - Floor

=============================================================================
