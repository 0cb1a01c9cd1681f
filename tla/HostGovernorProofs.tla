-------------------------- MODULE HostGovernorProofs --------------------------
(***************************************************************************)
(* Theorems about HostGovernor for any tasks, hosts and needs.             *)
(***************************************************************************)
EXTENDS HostGovernor, FiniteSetTheorems, SequenceTheorems, WellFoundedInduction,
        FunctionTheorems, TLAPS

Leased == /\ leases \in [Hosts -> Nat]
          /\ at \in [Tasks -> TaskPlaces]

\* The count of a host tells whether it has a holder, and a holder is alone.
LeaseInv ==
  /\ Leased
  /\ HostExclusive
  /\ \A h \in Hosts : \/ leases[h] = 0 /\ Holders(h) = {}
                      \/ leases[h] = 1 /\ Holders(h) # {}

\* A step that changes no lease and no holder.
LEMMA SameHolders ==
  ASSUME LeaseInv, leases' = leases, at' \in [Tasks -> TaskPlaces],
         \A t \in Tasks : at'[t] = "holding" <=> at[t] = "holding"
  PROVE  LeaseInv'
BY DEF LeaseInv, Leased, HostExclusive, Holders

LEMMA AcquireKeeps ==
  ASSUME LeaseInv, NEW t \in Tasks, AcquireHosts(t)
  PROVE  LeaseInv'
<1>1. /\ HostsOf[t] \subseteq Hosts
      /\ \A h \in HostsOf[t] : leases[h] = 0
  <2>1. HostsOf[t] \in SUBSET Hosts
    BY HostGovernorAssumption
  <2>2. \A h \in HostsOf[t] : ~(leases[h] > 0)
    BY DEF AcquireHosts, Blocked
  <2>3. \A h \in HostsOf[t] : leases[h] \in Nat
    BY <2>1 DEF LeaseInv, Leased
  <2> QED
    BY <2>1, <2>2, <2>3
<1>2. /\ at' = [at EXCEPT ![t] = "holding"]
      /\ leases' = [h \in Hosts |-> IF h \in HostsOf[t] THEN leases[h] + 1 ELSE leases[h]]
      /\ at[t] # "holding"
  BY DEF AcquireHosts
<1>3. \A h \in HostsOf[t] : Holders(h) = {}
  BY <1>1 DEF LeaseInv
<1>4. Leased'
  BY <1>2 DEF LeaseInv, Leased, TaskPlaces
<1>5. HostExclusive'
  BY <1>1, <1>2, <1>3 DEF LeaseInv, Leased, HostExclusive, Holders
<1>6. ASSUME NEW h \in Hosts
      PROVE  \/ leases'[h] = 0 /\ Holders(h)' = {}
             \/ leases'[h] = 1 /\ Holders(h)' # {}
  <2>1. CASE h \in HostsOf[t]
    BY <1>1, <1>2, <2>1 DEF LeaseInv, Leased, Holders
  <2>2. CASE h \notin HostsOf[t]
    <3>1. leases'[h] = leases[h] /\ Holders(h)' = Holders(h)
      BY <1>2, <2>2 DEF LeaseInv, Leased, Holders
    <3> QED
      BY <3>1 DEF LeaseInv
  <2> QED
    BY <2>1, <2>2
<1> QED
  BY <1>4, <1>5, <1>6 DEF LeaseInv

LEMMA ReleaseKeeps ==
  ASSUME LeaseInv, NEW t \in Tasks, ReleaseHosts(t)
  PROVE  LeaseInv'
<1>1. /\ at' = [at EXCEPT ![t] = "released"]
      /\ leases' = [h \in Hosts |-> IF h \in HostsOf[t] /\ leases[h] > 0 THEN leases[h] - 1
                                    ELSE leases[h]]
      /\ at[t] = "holding"
  BY DEF ReleaseHosts, Returned
<1>2. Leased'
  BY <1>1 DEF LeaseInv, Leased, TaskPlaces
<1>3. HostExclusive'
  BY <1>1 DEF LeaseInv, Leased, HostExclusive
<1>4. ASSUME NEW h \in Hosts
      PROVE  \/ leases'[h] = 0 /\ Holders(h)' = {}
             \/ leases'[h] = 1 /\ Holders(h)' # {}
  <2>1. CASE h \in HostsOf[t]
    <3>1. Holders(h) = {t} /\ leases[h] = 1
      BY <1>1, <2>1 DEF LeaseInv, Leased, HostExclusive, Holders
    <3>2. Holders(h)' = {}
      BY <1>1, <3>1 DEF LeaseInv, Leased, Holders
    <3> QED
      BY <1>1, <2>1, <3>1, <3>2
  <2>2. CASE h \notin HostsOf[t]
    <3>1. leases'[h] = leases[h] /\ Holders(h)' = Holders(h)
      BY <1>1, <2>2 DEF LeaseInv, Leased, Holders
    <3> QED
      BY <3>1 DEF LeaseInv
  <2> QED
    BY <2>1, <2>2
<1> QED
  BY <1>2, <1>3, <1>4 DEF LeaseInv

LEMMA LeaseInvariance == Spec => []LeaseInv
<1>1. Init => LeaseInv
  BY DEF Init, LeaseInv, Leased, HostExclusive, Holders, TaskPlaces
<1>2. LeaseInv /\ [Next]_vars => LeaseInv'
  <2> SUFFICES ASSUME LeaseInv, [Next]_vars PROVE LeaseInv'
    OBVIOUS
  <2> USE DEF TaskPlaces
  <2>1. CASE Tick \/ MainFetch \/ Shutdown \/ UNCHANGED vars
    <3>1. UNCHANGED <<leases, at>>
      BY <2>1 DEF Tick, MainFetch, Shutdown, vars
    <3> QED
      BY <3>1, SameHolders DEF LeaseInv, Leased
  <2>2. ASSUME NEW t \in Tasks, AcquireBlocked(t) \/ AcquireCancelled(t) \/ Fetch(t) \/ Replay(t)
        PROVE  LeaseInv'
    <3>1. leases' = leases /\ at' \in [Tasks -> TaskPlaces]
      BY <2>2 DEF AcquireBlocked, AcquireCancelled, Fetch, Replay, LeaseInv, Leased
    <3>2. \A u \in Tasks : at'[u] = "holding" <=> at[u] = "holding"
      BY <2>2 DEF AcquireBlocked, AcquireCancelled, Fetch, Replay, LeaseInv, Leased
    <3> QED
      BY <3>1, <3>2, SameHolders
  <2> QED
    BY <2>1, <2>2, AcquireKeeps, ReleaseKeeps DEF Next, AcquireRound
<1> QED
  BY <1>1, <1>2, PTL DEF Spec

\* No two tasks hold a host at once (HostGovernorLedger.acquire, release).
THEOREM HostsExclusive == Spec => []HostExclusive
<1>1. LeaseInv => HostExclusive
  BY DEF LeaseInv
<1> QED
  BY <1>1, LeaseInvariance, PTL

----------------------------------------------------------------------------
(* Cooldowns                                                               *)

\* A finite set of integers that is not empty has a maximum.
LEMMA MaxExists ==
  ASSUME NEW S \in SUBSET Int, IsFiniteSet(S), S # {}
  PROVE  Max(S) \in S /\ \A y \in S : y <= Max(S)
<1> DEFINE Greatest(U) == \E x \in U : \A y \in U : x >= y
           Bad == {U \in FiniteSubsetsOf(Int) : U # {} /\ ~Greatest(U)}
<1>1. Bad = {}
  <2> SUFFICES ASSUME Bad # {} PROVE FALSE
    OBVIOUS
  <2>1. PICK U \in Bad : \A V \in Bad : <<V, U>> \notin StrictSubsetOrdering(Int)
    <3>1. Bad \subseteq FiniteSubsetsOf(Int)
      OBVIOUS
    <3> HIDE DEF Bad
    <3> QED
      BY <3>1, FS_StrictSubsetOrderingWellFounded, WFMin
  <2>2. U \in SUBSET Int /\ IsFiniteSet(U) /\ U # {} /\ ~Greatest(U)
    BY DEF FiniteSubsetsOf
  <2>3. PICK e : e \in U
    BY <2>2
  <2>4. U \ {e} \in SUBSET Int /\ IsFiniteSet(U \ {e}) /\ U \ {e} # U
    BY <2>2, <2>3, FS_RemoveElement
  <2>5. <<U \ {e}, U>> \in StrictSubsetOrdering(Int)
    BY <2>2, <2>4 DEF StrictSubsetOrdering
  <2>6. U \ {e} = {} \/ Greatest(U \ {e})
    BY <2>1, <2>4, <2>5 DEF FiniteSubsetsOf
  <2>7. Greatest(U)
    BY <2>2, <2>3, <2>6
  <2> QED
    BY <2>2, <2>7
<1>2. Greatest(S)
  BY <1>1 DEF FiniteSubsetsOf
<1> QED
  BY <1>2 DEF Max

LEMMA ImageIsFinite ==
  ASSUME NEW I, IsFiniteSet(I), NEW f, f = [i \in I |-> f[i]]
  PROVE  IsFiniteSet({f[i] : i \in I})
<1> DEFINE T == {f[i] : i \in I}
<1>1. f \in [I -> T] /\ \A t \in T : \E i \in I : f[i] = t
  OBVIOUS
<1> HIDE DEF T
<1>2. f \in Surjection(I, T)
  BY <1>1 DEF Surjection
<1>3. IsFiniteSet(T)
  BY <1>2, FS_Surjection
<1> QED
  BY <1>3 DEF T

\* What is left of a time after rounding it to whole seconds.
LEMMA RoundedIsClose ==
  ASSUME NEW x \in Nat
  PROVE  Rounded(x) \in Nat /\ 2 * (x - Rounded(x)) <= Second
<1> DEFINE s == x \div Second
           r == x % Second
<1>1. Second \in Nat \ {0}
  BY HostMemoryAssumption
<1>2. s \in Nat /\ r \in 0..(Second - 1) /\ x = Second * s + r
  BY <1>1
<1>3. Second * (s + 1) = Second * s + Second
  BY <1>1, <1>2
<1>4. Second * s \in Nat
  BY <1>1, <1>2
<1>5. \/ Rounded(x) = Second * s /\ 2 * r <= Second
      \/ Rounded(x) = Second * (s + 1)
  BY <1>1, <1>2 DEF Rounded
<1> HIDE DEF s, r
<1> QED
  BY <1>1, <1>2, <1>3, <1>4, <1>5

Event == [host : Hosts, contour : Contours, verdict : Verdicts, cooldown : Nat, until : Nat]

Typed ==
  /\ now \in Nat
  /\ memory \in [Hosts -> Seq(Attempts)]
  /\ cooldown \in [Hosts -> Nat]
  /\ booted \in [Hosts -> BOOLEAN]
  /\ event \in [Tasks -> {None} \cup Event]
  /\ closing \in BOOLEAN
  /\ shown \in [Hosts -> Nat]

\* An end that is waited for until c, or over at time n, but for half a second.
Near(end, c, n) == 2 * (end - c) <= Second \/ 2 * (end - n) <= Second

\* Of every end the ledger was shown it knows what is still to wait, and a
\* cooldown a task met counts from now on at the earliest.
CoolInv ==
  /\ Typed
  /\ \A h \in Hosts : Near(shown[h], cooldown[h], now)
  /\ \A t \in Tasks : event[t].until <= now + event[t].cooldown

LEMMA FieldsOfEvent ==
  ASSUME NEW e \in {None} \cup Event
  PROVE  /\ e.cooldown \in Nat /\ e.until \in Nat
         /\ e.host \in Hosts => Attempt(e) \in Attempts
<1>1. CASE e = None
  BY <1>1 DEF None, Attempt, Attempts, Contours, Verdicts
<1>2. CASE e \in Event
  BY <1>2 DEF Event, Attempt, Attempts
<1> QED
  BY <1>1, <1>2

\* The latest of the ends up(i), and how long it is still away.
LEMMA LatestEnd ==
  ASSUME NEW I, IsFiniteSet(I), NEW up \in [I -> Nat], NEW n \in Nat,
         NEW ends, \A e : e \in ends <=> e = 0 \/ \E i \in I : e = up[i],
         NEW waits, \A w : w \in waits <=> w = 0 \/ \E i \in I : w = up[i] - n
  PROVE  Max(ends) \in Nat /\ Max(waits) \in Nat /\ Max(ends) - n <= Max(waits)
<1> DEFINE away == [i \in I |-> up[i] - n]
<1>1. IsFiniteSet(ends) /\ IsFiniteSet(waits)
  <2>1. IsFiniteSet({up[i] : i \in I}) /\ IsFiniteSet({away[i] : i \in I})
    <3>1. away = [i \in I |-> away[i]] /\ up = [i \in I |-> up[i]]
      OBVIOUS
    <3> HIDE DEF away
    <3> QED
      BY <3>1, ImageIsFinite
  <2>2. /\ ends = {0} \cup {up[i] : i \in I}
        /\ waits = {0} \cup {away[i] : i \in I}
    OBVIOUS
  <2>3. IsFiniteSet({0})
    BY FS_Singleton
  <2> HIDE DEF away
  <2> QED
    BY <2>1, <2>2, <2>3, FS_Union
<1>2. ends \subseteq Nat /\ waits \subseteq Int /\ 0 \in waits /\ 0 \in ends
  OBVIOUS
<1>3. \A e \in ends : e = 0 \/ e - n \in waits
  OBVIOUS
<1>4. /\ Max(ends) \in ends /\ \A y \in ends : y <= Max(ends)
      /\ Max(waits) \in waits /\ \A y \in waits : y <= Max(waits)
  <2>1. ends \in SUBSET Int /\ waits \in SUBSET Int /\ ends # {} /\ waits # {}
    BY <1>2
  <2> QED
    BY <1>1, <2>1, MaxExists
<1>5. Max(ends) \in Nat /\ Max(waits) \in Int /\ 0 <= Max(waits)
  BY <1>2, <1>4
<1>6. Max(ends) - n <= Max(waits)
  BY <1>3, <1>4, <1>5
<1> QED
  BY <1>5, <1>6

\* What the memory of a host asks to wait for.
LEMMA MemoryEndIs ==
  ASSUME Typed, NEW h \in Hosts
  PROVE  /\ MemoryEnd(h) \in Nat
         /\ CooldownLeft(memory[h], now) \in Nat
         /\ 2 * (MemoryEnd(h) - now - CooldownLeft(memory[h], now)) <= Second
<1> DEFINE I == Active(memory[h])
           up == [i \in I |-> memory[h][i].until]
           ends == {0} \cup {up[i] : i \in I}
           waits == {0} \cup {up[i] - now : i \in I}
           W == Max(waits)
<1>1. memory[h] \in Seq(Attempts) /\ now \in Nat /\ Second \in Nat
  BY HostMemoryAssumption DEF Typed
<1>2. I \subseteq 1..Len(memory[h]) /\ Len(memory[h]) \in Nat
  BY <1>1, LenProperties DEF Active
<1>3. IsFiniteSet(I)
  <2> HIDE DEF I
  <2>1. IsFiniteSet(1..Len(memory[h]))
    BY <1>2, FS_Interval
  <2> QED
    BY <1>2, <2>1, FS_Subset
<1>4. up \in [I -> Nat]
  <2>1. \A i \in 1..Len(memory[h]) : memory[h][i] \in Attempts
    BY <1>1, ElementOfSeq
  <2>2. \A a \in Attempts : a.until \in Nat
    BY DEF Attempts
  <2> HIDE DEF I
  <2> QED
    BY <1>2, <2>1, <2>2
<1>5. /\ {up[i] : i \in I} = {memory[h][i].until : i \in I}
      /\ {up[i] - now : i \in I} = {memory[h][i].until - now : i \in I}
  <2> HIDE DEF I
  <2> QED
    OBVIOUS
<1>6. MemoryEnd(h) = Max(ends) /\ CooldownLeft(memory[h], now) = Rounded(W)
  BY <1>5 DEF MemoryEnd, CooldownLeft
<1>7. Max(ends) \in Nat /\ W \in Nat /\ Max(ends) - now <= W
  <2>1. /\ \A e : e \in ends <=> e = 0 \/ \E i \in I : e = up[i]
        /\ \A w : w \in waits <=> w = 0 \/ \E i \in I : w = up[i] - now
    OBVIOUS
  <2> HIDE DEF I, up, ends, waits
  <2> QED
    BY <1>1, <1>3, <1>4, <2>1, LatestEnd
<1> HIDE DEF ends, W
<1>8. Rounded(W) \in Nat /\ 2 * (W - Rounded(W)) <= Second
  BY <1>7, RoundedIsClose
<1> QED
  BY <1>1, <1>6, <1>7, <1>8

\* The greater of two numbers.
LEMMA MaxOfTwo ==
  ASSUME NEW x \in Int, NEW y \in Int
  PROVE  Max({x, y}) \in {x, y} /\ x <= Max({x, y}) /\ y <= Max({x, y})
<1> DEFINE S == {x} \cup {y}
<1>1. IsFiniteSet({x}) /\ IsFiniteSet({y})
  BY FS_Singleton
<1>2. IsFiniteSet(S)
  BY <1>1, FS_Union
<1>3. S \in SUBSET Int /\ S # {} /\ x \in S /\ y \in S /\ S = {x, y}
  OBVIOUS
<1> HIDE DEF S
<1>4. Max(S) \in S /\ \A z \in S : z <= Max(S)
  BY <1>2, <1>3, MaxExists
<1> QED
  BY <1>3, <1>4

\* The first use of a host takes over what its memory asks to wait for.
LEMMA EntryIsNear ==
  ASSUME CoolInv, NEW h \in Hosts
  PROVE  /\ EntryCooldown(h) \in Nat /\ cooldown[h] <= EntryCooldown(h)
         /\ ~booted[h] => Near(MemoryEnd(h), EntryCooldown(h), now)
<1> DEFINE left == CooldownLeft(memory[h], now)
           c == IF left > 0 THEN now + left ELSE 0
<1>1. /\ MemoryEnd(h) \in Nat /\ left \in Nat
      /\ 2 * (MemoryEnd(h) - now - left) <= Second
      /\ now \in Nat /\ cooldown[h] \in Nat /\ Second \in Nat
  BY MemoryEndIs, HostMemoryAssumption DEF CoolInv, Typed
<1>2. c \in Nat
  BY <1>1
<1>3. /\ Max({cooldown[h], c}) \in {cooldown[h], c}
      /\ cooldown[h] <= Max({cooldown[h], c}) /\ c <= Max({cooldown[h], c})
  <2>1. cooldown[h] \in Int /\ c \in Int
    BY <1>1, <1>2
  <2> HIDE DEF c
  <2> QED
    BY <2>1, MaxOfTwo
<1>4. EntryCooldown(h) = IF booted[h] THEN cooldown[h] ELSE Max({cooldown[h], c})
  BY DEF EntryCooldown
<1>5. CASE booted[h]
  BY <1>1, <1>4, <1>5
<1>6. CASE ~booted[h]
  <2>1. Near(MemoryEnd(h), c, now)
    BY <1>1 DEF Near
  <2> HIDE DEF c, left
  <2> QED
    BY <1>1, <1>2, <1>3, <1>4, <1>6, <2>1 DEF Near
<1> QED
  BY <1>5, <1>6

\* A later or equal wait of the ledger at a later or equal time covers as much.
LEMMA NearGrows ==
  ASSUME NEW e \in Nat, NEW c \in Nat, NEW n \in Nat, Near(e, c, n),
         NEW d \in Nat, NEW m \in Nat, c <= d, n <= m
  PROVE  Near(e, d, m)
<1>1. Second \in Nat
  BY HostMemoryAssumption
<1> QED
  BY <1>1 DEF Near

\* Any use of hosts hs by the ledger.
LEMMA TouchInv ==
  ASSUME CoolInv, NEW hs \in SUBSET Hosts, Touch(hs),
         cooldown' = [h \in Hosts |-> IF h \in hs THEN EntryCooldown(h) ELSE cooldown[h]],
         UNCHANGED <<now, memory, event, closing>>
  PROVE  CoolInv'
<1>1. ASSUME NEW h \in Hosts
      PROVE  cooldown'[h] \in Nat /\ shown'[h] \in Nat /\ Near(shown'[h], cooldown'[h], now)
  <2>1. /\ cooldown[h] \in Nat /\ shown[h] \in Nat /\ now \in Nat
        /\ Near(shown[h], cooldown[h], now)
        /\ MemoryEnd(h) \in Nat
    BY <1>1, MemoryEndIs DEF CoolInv, Typed
  <2>2. /\ EntryCooldown(h) \in Nat /\ cooldown[h] <= EntryCooldown(h)
        /\ ~booted[h] => Near(MemoryEnd(h), EntryCooldown(h), now)
    BY <1>1, EntryIsNear
  <2>3. Near(shown[h], EntryCooldown(h), now)
    BY <2>1, <2>2, NearGrows
  <2>4. CASE h \in hs /\ ~booted[h]
    <3>1. cooldown'[h] = EntryCooldown(h)
      BY <2>4
    <3>2. shown'[h] = Max({shown[h], MemoryEnd(h)})
      <4>1. shown' = [x \in Hosts |-> IF x \in hs /\ ~booted[x] THEN Max({shown[x], MemoryEnd(x)})
                                     ELSE shown[x]]
        BY DEF Touch
      <4> QED
        BY <2>4, <4>1, Zenon
    <3>3. shown[h] \in Int /\ MemoryEnd(h) \in Int
      BY <2>1
    <3>4. Max({shown[h], MemoryEnd(h)}) \in {shown[h], MemoryEnd(h)}
      BY <3>3, MaxOfTwo
    <3> QED
      BY <2>1, <2>2, <2>3, <2>4, <3>1, <3>2, <3>4
  <2>5. CASE ~(h \in hs /\ ~booted[h])
    <3>1. shown'[h] = shown[h] /\ cooldown'[h] \in {cooldown[h], EntryCooldown(h)}
      BY <2>5 DEF Touch
    <3> QED
      BY <2>1, <2>2, <2>3, <3>1
  <2> QED
    BY <2>4, <2>5
<1>2. Typed'
  <2>1. /\ cooldown' = [h \in Hosts |-> cooldown'[h]]
        /\ shown' = [h \in Hosts |-> shown'[h]]
        /\ booted' \in [Hosts -> BOOLEAN]
    BY DEF Touch, CoolInv, Typed
  <2>2. cooldown' \in [Hosts -> Nat] /\ shown' \in [Hosts -> Nat]
    BY <1>1, <2>1
  <2> QED
    BY <2>1, <2>2 DEF CoolInv, Typed
<1> QED
  BY <1>1, <1>2 DEF CoolInv

LEMMA RememberType ==
  ASSUME NEW a \in Seq(Attempts), NEW x \in Attempts
  PROVE  Remember(a, x) \in Seq(Attempts)
<1> DEFINE all == Append(a, x)
           m == Max({1, Len(all) - LedgerLimit + 1})
<1>1. all \in Seq(Attempts) /\ Len(all) \in Nat
  BY AppendProperties, LenProperties
<1>2. LedgerLimit \in Nat
  BY HostMemoryAssumption
<1> HIDE DEF all
<1>3. m \in Int /\ 1 <= m
  <2>1. Len(all) - LedgerLimit + 1 \in Int /\ 1 \in Int
    BY <1>1, <1>2
  <2> QED
    BY <2>1, MaxOfTwo
<1> HIDE DEF m
<1>4. \A i \in m..Len(all) : all[i] \in Attempts
  BY <1>1, <1>3, ElementOfSeq
<1>5. SubSeq(all, m, Len(all)) \in Seq(Attempts)
  BY <1>1, <1>3, <1>4, SubSeqProperties
<1> QED
  BY <1>5 DEF Remember, Newest, all, m

LEMMA EventsType ==
  ASSUME now \in Nat, NEW h \in Hosts, NEW e \in Events(h)
  PROVE  e \in Event /\ e.until <= now + e.cooldown
<1>1. Cooldowns \subseteq Nat /\ Direct \in Contours
  BY HostGovernorAssumption DEF Contours
<1>2. PICK v \in {"clear", "hard"}, c \in Contours, d \in Nat :
        e = [host |-> h, contour |-> c, verdict |-> v, cooldown |-> d, until |-> now + d]
  BY <1>1 DEF Events
<1>3. now + d \in Nat
  BY <1>2
<1> QED
  BY <1>2, <1>3 DEF Event, Verdicts

LEMMA ReleaseCoolInv ==
  ASSUME CoolInv, NEW t \in Tasks, ReleaseHosts(t)
  PROVE  CoolInv'
<1> DEFINE e == event[t]
           met == {h \in Hosts : h = e.host /\ e.cooldown > 0}
           used == HostsOf[t] \cup met
           Entry(h) == IF h \in used THEN EntryCooldown(h) ELSE cooldown[h]
           Ends(h) == {shown[h]} \cup {e.until : x \in {h} \cap met}
                        \cup {MemoryEnd(x) : x \in {y \in used \cap {h} : ~booted[y]}}
<1>1. /\ booted' = [h \in Hosts |-> booted[h] \/ h \in used]
      /\ cooldown' = [h \in Hosts |-> IF h \in met THEN Max({Entry(h), now + e.cooldown})
                                      ELSE Entry(h)]
      /\ shown' = [h \in Hosts |-> Max(Ends(h))]
      /\ UNCHANGED <<now, memory, event, closing>>
  BY DEF ReleaseHosts
<1>2. /\ e.cooldown \in Nat /\ e.until \in Nat /\ e.until <= now + e.cooldown
      /\ now \in Nat
  BY FieldsOfEvent DEF CoolInv, Typed
<1>3. ASSUME NEW h \in Hosts
      PROVE  cooldown'[h] \in Nat /\ shown'[h] \in Nat /\ Near(shown'[h], cooldown'[h], now)
  <2>1. /\ cooldown[h] \in Nat /\ shown[h] \in Nat
        /\ Near(shown[h], cooldown[h], now)
        /\ MemoryEnd(h) \in Nat
    BY <1>3, MemoryEndIs DEF CoolInv, Typed
  <2>2. /\ EntryCooldown(h) \in Nat /\ cooldown[h] <= EntryCooldown(h)
        /\ ~booted[h] => Near(MemoryEnd(h), EntryCooldown(h), now)
    BY <1>3, EntryIsNear
  <2>3. /\ Entry(h) \in Nat /\ cooldown[h] <= Entry(h)
        /\ h \in used /\ ~booted[h] => Near(MemoryEnd(h), Entry(h), now)
    BY <2>1, <2>2
  <2>4. /\ cooldown'[h] \in Nat /\ Entry(h) <= cooldown'[h]
        /\ h \in met => now + e.cooldown <= cooldown'[h]
    <3>1. now + e.cooldown \in Nat
      BY <1>2
    <3> HIDE DEF Entry, e
    <3>2. CASE h \in met
      <4> DEFINE x == Entry(h)
                 y == now + e.cooldown
      <4>1. x \in Int /\ y \in Int
        BY <2>3, <3>1
      <4>2. cooldown'[h] = Max({x, y})
        BY <1>1, <1>3, <3>2
      <4> HIDE DEF x, y
      <4>3. Max({x, y}) \in {x, y} /\ x <= Max({x, y}) /\ y <= Max({x, y})
        BY <4>1, MaxOfTwo
      <4> QED
        BY <2>3, <3>1, <4>2, <4>3 DEF x, y
    <3>3. CASE h \notin met
      BY <1>1, <1>3, <2>3, <3>3
    <3> QED
      BY <3>2, <3>3
  <2>5. \A x \in Ends(h) : \/ x = shown[h]
                           \/ x = e.until /\ h \in met
                           \/ x = MemoryEnd(h) /\ h \in used /\ ~booted[h]
    <3> HIDE DEF e, met, used
    <3> QED
      OBVIOUS
  <2>6. Max(Ends(h)) \in Ends(h)
    <3>1. Ends(h) \subseteq {shown[h]} \cup ({e.until} \cup {MemoryEnd(h)})
      BY <2>5
    <3>2. IsFiniteSet({shown[h]} \cup ({e.until} \cup {MemoryEnd(h)}))
      <4>1. /\ IsFiniteSet({shown[h]}) /\ IsFiniteSet({e.until})
            /\ IsFiniteSet({MemoryEnd(h)})
        BY FS_Singleton
      <4>2. IsFiniteSet({e.until} \cup {MemoryEnd(h)})
        BY <4>1, FS_Union
      <4> QED
        BY <4>1, <4>2, FS_Union
    <3>3. IsFiniteSet(Ends(h))
      <4> HIDE DEF Ends
      <4> QED
        BY <3>1, <3>2, FS_Subset
    <3>4. Ends(h) \in SUBSET Int /\ Ends(h) # {}
      BY <1>2, <2>1, <2>5
    <3> HIDE DEF Ends
    <3> QED
      BY <3>3, <3>4, MaxExists
  <2>7. shown'[h] = Max(Ends(h))
    BY <1>1, <1>3
  <2> HIDE DEF Ends, Entry, used, met
  <2>8. CASE shown'[h] = shown[h]
    <3>1. cooldown[h] <= cooldown'[h]
      BY <2>1, <2>3, <2>4
    <3> QED
      BY <1>2, <2>1, <2>4, <2>8, <3>1, NearGrows
  <2>9. CASE shown'[h] = e.until /\ h \in met
    <3>1. e.until <= cooldown'[h] /\ Second \in Nat
      BY <1>2, <2>4, <2>9, HostMemoryAssumption
    <3> HIDE DEF e
    <3> QED
      BY <1>2, <2>4, <2>9, <3>1 DEF Near
  <2>10. CASE shown'[h] = MemoryEnd(h) /\ h \in used /\ ~booted[h]
    BY <1>2, <2>1, <2>3, <2>4, <2>10, NearGrows
  <2> QED
    BY <2>5, <2>6, <2>7, <2>8, <2>9, <2>10
<1>4. Typed'
  <2>1. /\ cooldown' = [h \in Hosts |-> cooldown'[h]]
        /\ shown' = [h \in Hosts |-> shown'[h]]
        /\ booted' \in [Hosts -> BOOLEAN]
    BY <1>1 DEF CoolInv, Typed
  <2>2. cooldown' \in [Hosts -> Nat] /\ shown' \in [Hosts -> Nat]
    BY <1>3, <2>1
  <2> QED
    BY <1>1, <2>1, <2>2 DEF CoolInv, Typed
<1> QED
  BY <1>1, <1>3, <1>4 DEF CoolInv

LEMMA CoolInit == Init => CoolInv
<1> SUFFICES ASSUME Init PROVE CoolInv
  OBVIOUS
<1>1. Typed
  BY HostGovernorAssumption DEF Init, Typed
<1>2. \A h \in Hosts : Near(shown[h], cooldown[h], now)
  <2>1. Second \in Nat /\ now = 0 /\ \A h \in Hosts : shown[h] = 0
    BY HostMemoryAssumption DEF Init
  <2> QED
    BY <2>1 DEF Near
<1>3. \A t \in Tasks : event[t].until <= now + event[t].cooldown
  <2>1. event = [t \in Tasks |-> None] /\ now = 0
    BY DEF Init
  <2>2. None.until = 0 /\ None.cooldown = 0
    BY DEF None
  <2> QED
    BY <2>1, <2>2
<1> QED
  BY <1>1, <1>2, <1>3 DEF CoolInv

LEMMA CoolNext == CoolInv /\ [Next]_vars => CoolInv'
<1> SUFFICES ASSUME CoolInv, [Next]_vars PROVE CoolInv'
  OBVIOUS
<1>1. \A t \in Tasks : HostsOf[t] \in SUBSET Hosts
  BY HostGovernorAssumption
<1>2. \A t \in Tasks : event[t].cooldown \in Nat /\ event[t].until \in Nat
  BY FieldsOfEvent DEF CoolInv, Typed
<1>3. CASE UNCHANGED <<memory, cooldown, booted, event, shown>> /\ now' \in Nat
           /\ now <= now' /\ closing' \in BOOLEAN
  <2>1. Typed'
    BY <1>3 DEF CoolInv, Typed
  <2>2. ASSUME NEW h \in Hosts PROVE Near(shown[h], cooldown[h], now')
    <3>1. /\ shown[h] \in Nat /\ cooldown[h] \in Nat /\ now \in Nat
          /\ Near(shown[h], cooldown[h], now)
      BY <2>2 DEF CoolInv, Typed
    <3> QED
      BY <1>3, <3>1, NearGrows
  <2>3. \A t \in Tasks : event[t].until <= now' + event[t].cooldown
    BY <1>2, <1>3 DEF CoolInv, Typed
  <2> QED
    BY <1>3, <2>1, <2>2, <2>3 DEF CoolInv
<1>4. CASE Tick \/ Shutdown \/ UNCHANGED vars
  <2>1. /\ UNCHANGED <<memory, cooldown, booted, event, shown>>
        /\ now' = now \/ now' = now + 1
        /\ closing' \in BOOLEAN
    BY <1>4 DEF Tick, Shutdown, vars, CoolInv, Typed
  <2> QED
    BY <1>3, <2>1 DEF CoolInv, Typed
<1>5. ASSUME NEW t \in Tasks, AcquireRound(t) PROVE CoolInv'
  <2>1. CASE AcquireBlocked(t) \/ AcquireHosts(t)
    BY <1>1, <2>1, TouchInv DEF AcquireBlocked, AcquireHosts
  <2>2. CASE AcquireCancelled(t)
    BY <1>3, <2>2 DEF AcquireCancelled, CoolInv, Typed
  <2> QED
    BY <1>5, <2>1, <2>2 DEF AcquireRound
<1>6. ASSUME NEW t \in Tasks, Fetch(t) PROVE CoolInv'
  <2>0. PICK h \in Hosts : \E e \in Events(h) : event' = [event EXCEPT ![t] = e]
    BY <1>6 DEF Fetch
  <2>1. PICK e \in Events(h) : event' = [event EXCEPT ![t] = e]
    BY <2>0
  <2>2. e \in Event /\ e.until <= now + e.cooldown
    BY <2>1, EventsType DEF CoolInv, Typed
  <2>3. UNCHANGED <<now, memory, cooldown, booted, closing, shown>>
    BY <1>6 DEF Fetch
  <2>4. event \in [Tasks -> {None} \cup Event]
    BY DEF CoolInv, Typed
  <2>5. event' \in [Tasks -> {None} \cup Event]
    BY <2>1, <2>2, <2>4
  <2>6. \A u \in Tasks : event'[u] = IF u = t THEN e ELSE event[u]
    BY <2>1, <2>4
  <2>7. \A u \in Tasks : event'[u].until <= now + event'[u].cooldown
    BY <2>2, <2>6 DEF CoolInv
  <2> QED
    BY <2>3, <2>5, <2>7 DEF CoolInv, Typed
<1>7. ASSUME NEW t \in Tasks, Replay(t) PROVE CoolInv'
  <2>1. UNCHANGED <<now, cooldown, booted, event, closing, shown>>
    BY <1>7 DEF Replay
  <2>2. memory' \in [Hosts -> Seq(Attempts)]
    <3>1. ASSUME NEW h \in Hosts, h = event[t].host
          PROVE  Remember(memory[h], Attempt(event[t])) \in Seq(Attempts)
      <4>1. Attempt(event[t]) \in Attempts
        BY <3>1, FieldsOfEvent DEF CoolInv, Typed
      <4> QED
        BY <4>1, RememberType DEF CoolInv, Typed
    <3> QED
      BY <1>7, <3>1 DEF Replay, CoolInv, Typed
  <2> QED
    BY <2>1, <2>2 DEF CoolInv, Typed
<1>8. CASE MainFetch
  <2>1. UNCHANGED <<now, cooldown, booted, event, closing, shown>>
    BY <1>8 DEF MainFetch
  <2>0. PICK h \in Hosts : \E e \in Events(h) :
                memory' = [memory EXCEPT ![h] = Remember(@, Attempt(e))]
    BY <1>8 DEF MainFetch
  <2>2. PICK e \in Events(h) : memory' = [memory EXCEPT ![h] = Remember(@, Attempt(e))]
    BY <2>0
  <2>3. Attempt(e) \in Attempts
    BY <2>2, EventsType DEF CoolInv, Typed, Event, Attempt, Attempts
  <2>4. Remember(memory[h], Attempt(e)) \in Seq(Attempts)
    BY <2>2, <2>3, RememberType DEF CoolInv, Typed
  <2> QED
    BY <2>1, <2>2, <2>4 DEF CoolInv, Typed
<1> QED
  BY <1>4, <1>5, <1>6, <1>7, <1>8, ReleaseCoolInv DEF Next

LEMMA CoolInvariance == Spec => []CoolInv
BY CoolInit, CoolNext, PTL DEF Spec

\* A task that gets its hosts waited for every cooldown the ledger was shown
\* for them, but for the half second that rounding takes away (_entry_locked,
\* cooldown_remaining_seconds, release).
THEOREM CooldownsAreWaitedFor == Spec => CooldownRespected
<1>1. LeaseInv /\ CoolInv /\ CoolInv' /\ [Next]_vars =>
        [\A t \in Tasks : at[t] # "holding" /\ at'[t] = "holding" =>
           \A h \in HostsOf[t] : 2 * (shown'[h] - now) <= Second]_vars
  <2> SUFFICES ASSUME LeaseInv, CoolInv', Next,
                      NEW t \in Tasks, at[t] # "holding", at'[t] = "holding",
                      NEW h \in HostsOf[t]
               PROVE  2 * (shown'[h] - now) <= Second
    OBVIOUS
  <2>1. AcquireHosts(t)
    <3>1. at \in [Tasks -> TaskPlaces]
      BY DEF LeaseInv, Leased
    <3>2. at' # at
      OBVIOUS
    <3>3. PICK u \in Tasks : AcquireRound(u) \/ ReleaseHosts(u) \/ Replay(u)
      BY <3>2 DEF Next, Tick, Fetch, MainFetch, Shutdown
    <3> QED
      BY <3>1, <3>3 DEF AcquireRound, AcquireBlocked, AcquireHosts, AcquireCancelled,
                        ReleaseHosts, Replay
  <2>2. h \in Hosts
    BY HostGovernorAssumption
  <2>3. now' = now /\ cooldown'[h] = EntryCooldown(h) /\ ~(EntryCooldown(h) > now)
    BY <2>1, <2>2 DEF AcquireHosts, Blocked
  <2>4. /\ shown'[h] \in Nat /\ cooldown'[h] \in Nat /\ now \in Nat
        /\ Near(shown'[h], cooldown'[h], now)
    BY <2>2, <2>3 DEF CoolInv, Typed
  <2>5. Second \in Nat
    BY HostMemoryAssumption
  <2> QED
    BY <2>3, <2>4, <2>5 DEF Near
<1> QED
  BY <1>1, LeaseInvariance, CoolInvariance, PTL DEF Spec, CooldownRespected

----------------------------------------------------------------------------
(* Types                                                                   *)

Waiting == {t \in Tasks : at[t] = "waiting"}

\* The count of waiters is the number of waiting tasks.
WaitInv == IsFiniteSet(Waiting) /\ waiters = Cardinality(Waiting)

LEMMA WaitNext == LeaseInv /\ WaitInv /\ [Next]_vars => WaitInv'
<1> SUFFICES ASSUME LeaseInv, WaitInv, [Next]_vars PROVE WaitInv'
  OBVIOUS
<1>1. at \in [Tasks -> TaskPlaces]
  BY DEF LeaseInv, Leased
<1>2. CASE UNCHANGED waiters /\ Waiting' = Waiting
  BY <1>2 DEF WaitInv
<1>3. ASSUME NEW t \in Tasks, NEW p \in TaskPlaces \ {"waiting"}, at' = [at EXCEPT ![t] = p],
             waiters' = waiters - IF at[t] = "waiting" THEN 1 ELSE 0
      PROVE  WaitInv'
  <2>1. Waiting' = Waiting \ {t} /\ (t \in Waiting <=> at[t] = "waiting")
    BY <1>1, <1>3 DEF Waiting
  <2>2. Cardinality(Waiting) \in Nat
    BY FS_CardinalityType DEF WaitInv
  <2> QED
    BY <1>3, <2>1, <2>2, FS_RemoveElement DEF WaitInv
<1>4. ASSUME NEW t \in Tasks, AcquireBlocked(t) PROVE WaitInv'
  <2>1. /\ Waiting' = Waiting \cup {t}
        /\ waiters' = waiters + IF at[t] = "asking" THEN 1 ELSE 0
        /\ at[t] = "asking" <=> t \notin Waiting
    BY <1>1, <1>4 DEF AcquireBlocked, Waiting
  <2>2. Cardinality(Waiting) \in Nat
    BY FS_CardinalityType DEF WaitInv
  <2> QED
    BY <2>1, <2>2, FS_AddElement DEF WaitInv
<1>5. ASSUME NEW t \in Tasks, AcquireHosts(t) \/ AcquireCancelled(t) PROVE WaitInv'
  BY <1>3, <1>5 DEF AcquireHosts, AcquireCancelled, TaskPlaces
<1>6. ASSUME NEW t \in Tasks, ReleaseHosts(t) \/ Replay(t) PROVE WaitInv'
  <2>1. UNCHANGED waiters /\ Waiting' = Waiting
    BY <1>1, <1>6 DEF ReleaseHosts, Replay, Waiting
  <2> QED
    BY <1>2, <2>1
<1>7. ASSUME NEW t \in Tasks, Fetch(t) PROVE WaitInv'
  BY <1>2, <1>7 DEF Fetch, Waiting
<1>8. CASE Tick \/ MainFetch \/ Shutdown \/ UNCHANGED vars
  BY <1>2, <1>8 DEF Tick, MainFetch, Shutdown, vars, Waiting
<1> QED
  BY <1>4, <1>5, <1>6, <1>7, <1>8 DEF Next, AcquireRound

\* Type correctness of the ledger, its waiters, the memory and the tasks.
THEOREM TypeCorrect == Spec => []TypeOK
<1>1. Init => WaitInv
  BY FS_EmptySet DEF Init, WaitInv, Waiting
<1>2. Spec => []WaitInv
  BY <1>1, WaitNext, LeaseInvariance, PTL DEF Spec
<1>3. LeaseInv /\ CoolInv /\ WaitInv => TypeOK
  BY FS_CardinalityType DEF LeaseInv, Leased, CoolInv, Typed, Event, WaitInv, TypeOK
<1> QED
  BY <1>2, <1>3, LeaseInvariance, CoolInvariance, PTL
=============================================================================
