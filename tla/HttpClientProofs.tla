--------------------------- MODULE HttpClientProofs ---------------------------
(* Theorems about the client and the proxies it shares, for any number of
   proxies, threads, sources and hosts, and for any reserve.                  *)
EXTENDS HttpClient, FiniteSetTheorems, WellFoundedInduction, TLAPS

-----------------------------------------------------------------------------
(* The pool: what its operators return. *)

\* A set of naturals that is not empty has a least element.
LEMMA LeastExists ==
  ASSUME NEW S \in SUBSET Nat, S # {}
  PROVE  \E x \in S : \A y \in S : x <= y
<1>1. IsWellFoundedOn(OpToRel(<, Nat), Nat)
  BY NatLessThanWellFounded
<1>2. PICK x \in S : \A y \in S : ~ (<<y, x>> \in OpToRel(<, Nat))
  BY <1>1, WFMin
<1>3. \A y \in S : x <= y
  <2>1. TAKE y \in S
  <2>2. ~ (y < x)
    BY <1>2 DEF OpToRel
  <2> QED
    BY <2>2
<1> QED
  BY <1>3

\* Counting on from a position around the ring reaches every position.
LEMMA TurnReaches ==
  ASSUME NProxies # 0, index \in Proxies, NEW p \in Proxies
  PROVE  \E k \in 0 .. (NProxies - 1) : Turn(k) = p
<1> NProxies \in Nat \ {0}
  BY PoolAssumption
<1>1. index \in 1 .. NProxies /\ p \in 1 .. NProxies
  BY DEF Proxies
<1>2. CASE p >= index
  <2>1. p - index \in 0 .. (NProxies - 1) /\ index - 1 + (p - index) = p - 1
    BY <1>1, <1>2
  <2>2. (p - 1) % NProxies = p - 1
    BY <1>1
  <2>3. Turn(p - index) = p
    BY <1>1, <2>1, <2>2 DEF Turn
  <2> QED
    BY <2>1, <2>3
<1>3. CASE p < index
  <2> DEFINE k == p - index + NProxies
  <2>1. k \in 0 .. (NProxies - 1) /\ index - 1 + k = (p - 1) + NProxies
    BY <1>1, <1>3
  <2>2. ((p - 1) + NProxies) % NProxies = p - 1
    BY <1>1
  <2>3. Turn(k) = p
    BY <1>1, <2>1, <2>2 DEF Turn
  <2> QED
    BY <2>1, <2>3
<1> QED
  BY <1>1, <1>2, <1>3

\* The rotation finds a usable proxy if there is one.
LEMMA RotatedUsable ==
  ASSUME PoolTypeOK, Usable # {}
  PROVE  Rotated \in Usable
<1>1. PICK p \in Proxies : p \in Usable
  BY DEF Usable
<1>2. NProxies \in Nat \ {0} /\ index \in Proxies
  BY <1>1, PoolAssumption DEF PoolTypeOK, Proxies
<1> DEFINE S == {k \in 0 .. (NProxies - 1) : Turn(k) \in Usable}
<1>3. S \in SUBSET Nat /\ S # {}
  BY <1>1, <1>2, TurnReaches
<1>4. PICK k \in S : \A j \in S : k <= j
  BY <1>3, LeastExists
<1>5. /\ k \in 0 .. (NProxies - 1)
      /\ Turn(k) \in Usable
      /\ \A j \in 0 .. (k - 1) : Turn(j) \notin Usable
  BY <1>2, <1>4
<1> QED
  BY <1>5 DEF Rotated

LEMMA FinitePool ==
  /\ IsFiniteSet(Proxies) /\ Cardinality(Proxies) = NProxies
  /\ \A S \in SUBSET Proxies : IsFiniteSet(S) /\ Cardinality(S) \in 0 .. NProxies
<1>1. NProxies \in Nat
  BY PoolAssumption
<1>2. IsFiniteSet(Proxies) /\ Cardinality(Proxies) = NProxies
  BY <1>1, FS_Interval DEF Proxies
<1> QED
  BY <1>1, <1>2, FS_Subset, FS_CardinalityType

LEMMA FloorType == Floor \in 0 .. NProxies
  BY PoolAssumption DEF Floor, Smaller

\* What a selection returns is a proxy that is usable, or none.
LEMMA SelectType ==
  ASSUME PoolTypeOK, NEW s \in Sources, NEW h \in Hosts, NEW d
  PROVE  /\ Select(s, h, d).proxy \in Usable \cup {Direct}
         /\ Select(s, h, d).index \in Proxies \cup {1}
         /\ Select(s, h, d).sticky \in [Hosts -> [at : Proxies \cup {Direct}, ttl : Nat]]
<1>1. Usable \in SUBSET Proxies
  BY DEF Usable
<1>2. CASE ProviderRefuses(s, d) \/ ~CanSelect(s)
  BY <1>2 DEF Select, PoolTypeOK
<1>3. CASE ~ProviderRefuses(s, d) /\ CanSelect(s) /\ SticksTo(h)
  BY <1>3 DEF Select, PoolTypeOK, SticksTo
<1>4. CASE ~ProviderRefuses(s, d) /\ CanSelect(s) /\ ~SticksTo(h)
  <2>1. Usable # {}
    <3>1. Usable = {} => Cardinality(Usable) = 0
      BY FS_EmptySet
    <3> QED
      BY <1>4, <3>1, FloorType, FinitePool, <1>1, PoolAssumption DEF CanSelect, UsableCount, Monus
  <2>2. Rotated \in Usable
    BY <2>1, RotatedUsable
  <2>3. NProxies \in Nat \ {0} /\ Rotated \in 1 .. NProxies
    BY <2>2, <1>1, PoolAssumption DEF Proxies
  <2>4. After(Rotated) \in Proxies
    BY <2>3 DEF After, Proxies
  <2>5. Select(s, h, d) =
          [proxy |-> Rotated, index |-> After(Rotated),
           sticky |-> IF strategy = "sticky_by_host"
                        THEN [sticky EXCEPT ![h] = [at |-> Rotated, ttl |-> StickyTtl]]
                        ELSE sticky]
    BY <1>4 DEF Select
  <2> QED
    BY <2>2, <2>3, <2>4, <2>5, PoolAssumption DEF PoolTypeOK, Proxies
<1> QED
  BY <1>2, <1>3, <1>4

EntriesType == [Proxies -> [cool : Nat, failures : Nat, by : Sources \cup {Nobody}]]

LEMMA MarkedBadType ==
  ASSUME PoolTypeOK, NEW p \in Proxies \cup {Direct}, NEW s \in Sources, NEW reason
  PROVE  MarkedBad(p, s, reason) \in EntriesType
<1> DEFINE cool == Larger(entries[p].cool, Ban * Smaller(entries[p].failures + 1, 4))
<1>1. CASE MarkedBad(p, s, reason) = entries
  BY <1>1 DEF PoolTypeOK, EntriesType
<1>2. CASE MarkedBad(p, s, reason) # entries
  <2>1. p \in Proxies /\ entries[p] \in [cool : Nat, failures : Nat, by : Sources \cup {Nobody}]
    BY <1>2 DEF MarkedBad, PoolTypeOK
  <2>2. Smaller(entries[p].failures + 1, 4) \in Nat
    BY <2>1 DEF Smaller
  <2>3. Ban * Smaller(entries[p].failures + 1, 4) \in Nat
    BY <2>2, PoolAssumption
  <2>4. cool \in Nat
    BY <2>1, <2>3 DEF Larger
  <2>5. MarkedBad(p, s, reason) =
          [entries EXCEPT ![p] = [cool |-> cool, failures |-> @.failures + 1,
                                  by |-> IF @.cool > 0 THEN @.by ELSE s]]
    BY <1>2 DEF MarkedBad
  <2> HIDE DEF cool
  <2> QED
    BY <2>1, <2>4, <2>5 DEF PoolTypeOK, EntriesType
<1> QED
  BY <1>1, <1>2

LEMMA MarkedOkType ==
  ASSUME PoolTypeOK, NEW p \in Proxies \cup {Direct}
  PROVE  MarkedOk(p) \in EntriesType
BY DEF MarkedOk, PoolTypeOK, EntriesType, Monus

-----------------------------------------------------------------------------
(* The reserve. *)

Charged(es) == {p \in Proxies : es[p].cool > 0 /\ es[p].by \in Protected \ Priority}

LEMMA ReserveIsCharged ==
  /\ ReserveHeld <=> Cardinality(Charged(entries)) <= NProxies - Floor
  /\ ReserveHeld' <=> Cardinality(Charged(entries')) <= NProxies - Floor
BY DEF ReserveHeld, Charged, Cooling, Floor

\* Fewer proxies that a protected source has cooled are no harm.
LEMMA FewerCharged ==
  ASSUME ReserveHeld, Charged(entries') \subseteq Charged(entries)
  PROVE  ReserveHeld'
<1>1. Charged(entries) \in SUBSET Proxies
  BY DEF Charged
<1>2. IsFiniteSet(Charged(entries)) /\ Cardinality(Charged(entries)) \in Nat
  BY <1>1, FinitePool
<1>3. Cardinality(Charged(entries')) \in Nat
      /\ Cardinality(Charged(entries')) <= Cardinality(Charged(entries))
  BY <1>1, <1>2, FS_Subset, FinitePool
<1> QED
  BY <1>2, <1>3, ReserveIsCharged, FloorType, PoolAssumption

\* A report of a failure keeps the reserve: a protected source charges one more
\* proxy only while more of them are usable than the floor.
LEMMA MarkedBadKeepsReserve ==
  ASSUME PoolTypeOK, ReserveHeld, NEW p \in Proxies \cup {Direct}, NEW s \in Sources,
         NEW reason, entries' = MarkedBad(p, s, reason)
  PROVE  ReserveHeld'
<1>1. CASE entries' = entries
  BY <1>1, FewerCharged
<1>2. CASE entries' # entries
  <2>1. p \in Proxies /\ ~Preserved(p, s)
    BY <1>2 DEF MarkedBad
  <2>2. /\ \A q \in Proxies \ {p} : entries'[q] = entries[q]
        /\ entries'[p].by = IF entries[p].cool > 0 THEN entries[p].by ELSE s
    BY <1>2, <2>1 DEF MarkedBad, PoolTypeOK
  <2>3. CASE entries[p].cool > 0 \/ s \notin Protected \ Priority
    <3>1. Charged(entries') \subseteq Charged(entries)
      BY <2>1, <2>2, <2>3 DEF Charged, PoolTypeOK
    <3> QED
      BY <3>1, FewerCharged
  <2>4. CASE ~(entries[p].cool > 0) /\ s \in Protected \ Priority
    <3>1. p \in Usable /\ p \notin Cooling /\ Usable = Proxies \ Cooling
      BY <2>1, <2>4 DEF Usable, Cooling
    <3>2. Charged(entries') \subseteq Cooling \cup {p} /\ Cooling \in SUBSET Proxies
      BY <2>2 DEF Charged, Cooling
    <3>3. /\ IsFiniteSet(Cooling) /\ Cardinality(Cooling) \in Nat
          /\ Cardinality(Usable) = NProxies - Cardinality(Cooling)
      <4>1. Proxies \cap Cooling = Cooling
        BY <3>2
      <4>2. IsFiniteSet(Cooling) /\ Cooling \in SUBSET Proxies /\ Cardinality(Cooling) \in 0 .. NProxies
        BY <3>2, FinitePool
      <4>3. Cardinality(Proxies \ Cooling) = NProxies - Cardinality(Proxies \cap Cooling)
        BY FinitePool, FS_Difference
      <4> QED
        BY <3>1, <4>1, <4>2, <4>3
    <3>4. Floor > 0 => Cardinality(Usable) > Floor
      BY <2>1, <2>4, <3>1, <3>3, FloorType, PoolAssumption DEF Preserved
    <3>5. IsFiniteSet(Cooling \cup {p}) /\ Cardinality(Cooling \cup {p}) = Cardinality(Cooling) + 1
      BY <3>1, <3>3, FS_AddElement
    <3>6. Cardinality(Charged(entries')) \in 0 .. NProxies
      <4>1. Charged(entries') \in SUBSET Proxies
        BY DEF Charged
      <4> QED
        BY <4>1, FinitePool
    <3>7. Cardinality(Charged(entries')) <= Cardinality(Cooling) + 1
      BY <3>2, <3>5, FS_Subset
    <3>8. Cardinality(Charged(entries')) <= NProxies - Floor
      BY <3>3, <3>4, <3>6, <3>7, FloorType, PoolAssumption
    <3> QED
      BY <3>8, ReserveIsCharged
  <2> QED
    BY <2>3, <2>4
<1> QED
  BY <1>1, <1>2

LEMMA MarkedOkKeepsReserve ==
  ASSUME PoolTypeOK, ReserveHeld, NEW p \in Proxies \cup {Direct}, entries' = MarkedOk(p)
  PROVE  ReserveHeld'
<1>1. Charged(entries') \subseteq Charged(entries)
  BY DEF MarkedOk, Charged, PoolTypeOK
<1> QED
  BY <1>1, FewerCharged

LEMMA TickKeepsReserve ==
  ASSUME PoolTypeOK, ReserveHeld, entries' = EntriesLater
  PROVE  ReserveHeld'
<1>1. ASSUME NEW p \in Charged(entries')
      PROVE  p \in Charged(entries)
  <2>1. p \in Proxies /\ entries[p].cool \in Nat
    BY DEF Charged, PoolTypeOK
  <2>2. /\ entries'[p].cool = Monus(entries[p].cool, 1)
        /\ entries'[p].by = IF entries[p].cool <= 1 THEN Nobody ELSE entries[p].by
    BY <2>1 DEF EntriesLater, PoolTypeOK
  <2>3. entries[p].cool > 1
    BY <2>1, <2>2 DEF Charged, Monus
  <2> QED
    BY <2>1, <2>2, <2>3 DEF Charged
<1> QED
  BY <1>1, FewerCharged

-----------------------------------------------------------------------------
(* The threads. *)

Requests == [pc : {"idle", "wait", "nap", "resolve", "sent", "failover"},
             src : Sources \cup {Nobody}, sel : Proxies \cup {Direct, NoProxyGiven},
             tried : SUBSET Proxies, attempts : Nat, insecure : BOOLEAN, left : Nat]

\* What holds of a request, lock being who holds the lock of its host and wait
\* what is left of the spacing there: while its thread naps it holds the lock, and
\* the spacing ends no later than the nap; as long as it is sent it counts the
\* proxies it went through.
RequestOK(t, r, lock, wait) ==
  /\ r.pc # "idle" => r.src \in Sources
  /\ r.pc \in {"idle", "wait", "nap", "resolve"} => r.attempts = 0 /\ r.tried = {}
  /\ r.pc = "nap" => lock = t /\ wait <= r.left
  /\ r.pc = "sent" => /\ r.sel # NoProxyGiven
                      /\ r.src \in Bound => r.sel # Direct
                      /\ r.sel \in Proxies => r.attempts = Cardinality(r.tried)
  /\ r.pc = "failover" => /\ r.sel \in Proxies /\ r.attempts = Cardinality(r.tried)
                          /\ r.attempts < MaxAttempts /\ r.left # 0
  /\ r.attempts <= MaxAttempts

ClientInv ==
  /\ TypeOK
  /\ \A t \in Threads : RequestOK(t, req[t], delayLock[Host(t)], gap[Host(t)])

LEMMA MaxAttemptsType == MaxAttempts \in Nat \ {0}
  BY PoolAssumption DEF MaxAttempts, Larger

LEMMA TypedRequests ==
  ASSUME TypeOK, NEW t \in Threads
  PROVE  /\ req \in [Threads -> Requests]
         /\ req[t] \in Requests /\ PoolTypeOK
         /\ req[t].src \in Sources => Host(t) \in Hosts
  BY ClientAssumption DEF TypeOK, Requests, Host

\* One thread changes its request; the hosts of threads that nap stay as they are.
LEMMA StepKeeps ==
  ASSUME ClientInv, PoolTypeOK',
         hostCool' \in [Hosts -> Nat], gap' \in [Hosts -> Nat],
         issues' \in [Hosts -> [r429 : Nat, bot : Nat]],
         delayLock' \in [Hosts -> Threads \cup {NoThread}], made' \in 0 .. MaxRequests,
         NEW t \in Threads, NEW r \in Requests, req' = [req EXCEPT ![t] = r],
         RequestOK(t, r, delayLock'[HostOf[r.src]], gap'[HostOf[r.src]]),
         \A h \in Hosts : delayLock[h] \in Threads \ {t} =>
                            delayLock'[h] = delayLock[h] /\ gap'[h] = gap[h]
  PROVE  ClientInv'
<1>1. req' \in [Threads -> Requests]
  BY DEF ClientInv, TypeOK, Requests
<1>2. TypeOK'
  BY <1>1 DEF TypeOK, Requests
<1>3. ASSUME NEW u \in Threads
      PROVE  RequestOK(u, req'[u], delayLock'[HostOf[req'[u].src]], gap'[HostOf[req'[u].src]])
  <2>1. CASE u = t
    BY <2>1, <1>1 DEF ClientInv, TypeOK
  <2>2. CASE u # t
    <3>1. req'[u] = req[u] /\ req[u] \in Requests
      BY <2>2, TypedRequests DEF ClientInv, TypeOK
    <3>2. RequestOK(u, req[u], delayLock[HostOf[req[u].src]], gap[HostOf[req[u].src]])
      BY DEF ClientInv, Host
    <3>3. CASE req[u].pc # "nap"
      BY <3>1, <3>2, <3>3 DEF RequestOK
    <3>4. CASE req[u].pc = "nap"
      <4>1. HostOf[req[u].src] \in Hosts /\ delayLock[HostOf[req[u].src]] = u
        BY <3>2, <3>4, ClientAssumption DEF RequestOK
      <4>2. /\ delayLock'[HostOf[req[u].src]] = delayLock[HostOf[req[u].src]]
            /\ gap'[HostOf[req[u].src]] = gap[HostOf[req[u].src]]
        BY <2>2, <4>1
      <4> QED
        BY <3>1, <3>2, <4>2
    <3> QED
      BY <3>3, <3>4
  <2> QED
    BY <2>1, <2>2
<1> QED
  BY <1>2, <1>3 DEF ClientInv, Host

LEMMA InitHolds == Init => ClientInv /\ ReserveHeld
<1> SUFFICES ASSUME Init PROVE ClientInv /\ ReserveHeld
  OBVIOUS
<1>1. PoolTypeOK
  BY PoolAssumption DEF Init, PoolInit, PoolTypeOK
<1>2. Idle \in Requests
  BY DEF Idle, Requests, NoProxyGiven
<1>3. TypeOK
  BY <1>1, <1>2, ClientAssumption DEF Init, TypeOK, Requests
<1>4. \A t \in Threads : RequestOK(t, req[t], delayLock[Host(t)], gap[Host(t)])
  BY MaxAttemptsType DEF Init, Idle, RequestOK
<1>5. Charged(entries) = {}
  BY DEF Init, PoolInit, Charged
<1>6. Cardinality(Charged(entries)) = 0
  BY <1>5, FS_EmptySet
<1> QED
  BY <1>3, <1>4, <1>6, ReserveIsCharged, FloorType, PoolAssumption DEF ClientInv

LEMMA WaitingKeeps ==
  ASSUME ClientInv, NEW t \in Threads,
         \/ \E s \in Sources : Begin(t, s, NoProxyGiven)
         \/ \E s \in Sources \ Bound, g \in Given : Begin(t, s, g)
         \/ CooldownSkip(t) \/ PermitNow(t) \/ Nap(t) \/ Wake(t)
  PROVE  ClientInv'
<1>1. /\ req \in [Threads -> Requests] /\ req[t] \in Requests /\ TypeOK /\ PoolTypeOK
      /\ RequestOK(t, req[t], delayLock[Host(t)], gap[Host(t)])
  BY TypedRequests DEF ClientInv
<1>2. PoolTypeOK'
  BY <1>1 DEF Begin, CooldownSkip, PermitNow, Nap, Wake, pool, PoolTypeOK
<1>3. Idle \in Requests /\ \A l, w : RequestOK(t, Idle, l, w)
  BY MaxAttemptsType DEF Idle, Requests, NoProxyGiven, RequestOK
<1>4. ASSUME NEW s \in Sources, NEW g \in Given \cup {NoProxyGiven}, Begin(t, s, g)
      PROVE  ClientInv'
  <2> DEFINE r == [Idle EXCEPT !.pc = "wait", !.src = s, !.sel = g]
  <2>0. /\ r.pc = "wait" /\ r.src = s /\ r.attempts = 0 /\ r.tried = {} /\ r \in Requests
    BY ClientAssumption DEF Requests, Idle
  <2> HIDE DEF r
  <2>2. \A l, w : RequestOK(t, r, l, w)
    BY <2>0, MaxAttemptsType DEF RequestOK
  <2>3. made' \in 0 .. MaxRequests
    <3>1. made \in 0 .. MaxRequests /\ made < MaxRequests /\ made' = made + 1
      BY <1>1, <1>4 DEF Begin, TypeOK
    <3> QED
      BY <3>1, ClientAssumption
  <2>5. /\ req' = [req EXCEPT ![t] = r]
        /\ UNCHANGED <<hostCool, issues, gap, delayLock>>
    BY <1>4 DEF Begin, r
  <2> QED
    BY <1>1, <1>2, <2>0, <2>2, <2>3, <2>5, StepKeeps DEF TypeOK
<1>5. CASE CooldownSkip(t)
  <2>1. /\ req' = [req EXCEPT ![t] = Idle]
        /\ UNCHANGED <<made, hostCool, issues, gap, delayLock>>
    BY <1>5 DEF CooldownSkip, Returned
  <2> QED
    BY <1>1, <1>2, <1>3, <2>1, StepKeeps DEF TypeOK
<1>6. CASE PermitNow(t)
  <2> DEFINE r == [req[t] EXCEPT !.pc = "resolve"]
  <2>1. /\ req' = [req EXCEPT ![t] = r] /\ req[t].pc = "wait" /\ delayLock[Host(t)] = NoThread
        /\ gap' = [gap EXCEPT ![Host(t)] = MinDelay]
        /\ UNCHANGED <<made, hostCool, issues, delayLock>>
    BY <1>6, <1>1 DEF PermitNow, GoesOn, At
  <2>2. r \in Requests /\ \A l, w : RequestOK(t, r, l, w)
    BY <1>1, <2>1 DEF Requests, RequestOK
  <2>3. gap' \in [Hosts -> Nat] /\ \A h \in Hosts \ {Host(t)} : gap'[h] = gap[h]
    BY <1>1, <2>1, ClientAssumption DEF TypeOK
  <2> HIDE DEF r
  <2> QED
    BY <1>1, <1>2, <2>1, <2>2, <2>3, StepKeeps, ThreadsAssumption DEF TypeOK
<1>7. CASE Nap(t)
  <2> DEFINE r == [req[t] EXCEPT !.pc = "nap", !.left = gap[Host(t)]]
  <2>1. /\ req' = [req EXCEPT ![t] = r] /\ req[t].pc = "wait" /\ delayLock[Host(t)] = NoThread
        /\ delayLock' = [delayLock EXCEPT ![Host(t)] = t]
        /\ UNCHANGED <<made, hostCool, issues, gap>>
    BY <1>7, <1>1 DEF Nap, At
  <2>2. Host(t) \in Hosts /\ gap[Host(t)] \in Nat
    BY <1>1, <2>1, TypedRequests DEF RequestOK, TypeOK
  <2>3. r \in Requests /\ r.src = req[t].src /\ r.pc = "nap" /\ r.left = gap[Host(t)]
    BY <1>1, <2>1, <2>2 DEF Requests
  <2>4. /\ delayLock' \in [Hosts -> Threads \cup {NoThread}]
        /\ delayLock'[Host(t)] = t /\ gap'[Host(t)] = gap[Host(t)]
        /\ \A h \in Hosts \ {Host(t)} : delayLock'[h] = delayLock[h]
    BY <1>1, <2>1, <2>2 DEF TypeOK
  <2>5. RequestOK(t, r, t, gap[Host(t)])
    BY <1>1, <2>1, <2>2, <2>3 DEF Requests, RequestOK
  <2> HIDE DEF r
  <2>6. RequestOK(t, r, delayLock'[HostOf[r.src]], gap'[HostOf[r.src]])
    BY <2>3, <2>4, <2>5 DEF Host
  <2>7. \A h \in Hosts : delayLock[h] \in Threads \ {t} =>
                           delayLock'[h] = delayLock[h] /\ gap'[h] = gap[h]
    BY <2>1, <2>4, ThreadsAssumption
  <2> QED
    BY <1>1, <1>2, <2>1, <2>3, <2>4, <2>6, <2>7, StepKeeps DEF TypeOK
<1>8. CASE Wake(t)
  <2>1. /\ req[t].pc = "nap" /\ delayLock' = [delayLock EXCEPT ![Host(t)] = NoThread]
        /\ UNCHANGED <<made, hostCool, issues>>
    BY <1>8 DEF Wake, At
  <2>2. Host(t) \in Hosts /\ delayLock[Host(t)] = t
    BY <1>1, <2>1, TypedRequests DEF RequestOK
  <2>3. /\ delayLock' \in [Hosts -> Threads \cup {NoThread}]
        /\ \A h \in Hosts \ {Host(t)} : delayLock'[h] = delayLock[h]
    BY <1>1, <2>1 DEF TypeOK
  <2>4. CASE Returned(t) /\ UNCHANGED gap
    BY <1>1, <1>2, <1>3, <2>1, <2>2, <2>3, <2>4, StepKeeps DEF TypeOK, Returned
  <2>5. CASE GoesOn(t, "resolve") /\ gap' = [gap EXCEPT ![Host(t)] = MinDelay]
    <3> DEFINE r == [req[t] EXCEPT !.pc = "resolve"]
    <3>1. r \in Requests /\ (\A l, w : RequestOK(t, r, l, w)) /\ req' = [req EXCEPT ![t] = r]
      BY <1>1, <2>1, <2>5 DEF Requests, RequestOK, GoesOn
    <3>2. gap' \in [Hosts -> Nat] /\ \A h \in Hosts \ {Host(t)} : gap'[h] = gap[h]
      BY <1>1, <2>5, ClientAssumption DEF TypeOK
    <3> HIDE DEF r
    <3> QED
      BY <1>1, <1>2, <2>1, <2>2, <2>3, <3>1, <3>2, StepKeeps DEF TypeOK
  <2> QED
    BY <1>8, <2>4, <2>5 DEF Wake
<1> QED
  BY <1>4, <1>5, <1>6, <1>7, <1>8

LEMMA ReturnedKeeps ==
  ASSUME ClientInv, NEW t \in Threads, Returned(t), PoolTypeOK',
         hostCool' \in [Hosts -> Nat], issues' \in [Hosts -> [r429 : Nat, bot : Nat]],
         UNCHANGED <<made, gap, delayLock>>
  PROVE  ClientInv'
<1>1. Idle \in Requests /\ \A l, w : RequestOK(t, Idle, l, w)
  BY MaxAttemptsType DEF Idle, Requests, NoProxyGiven, RequestOK
<1>2. req' = [req EXCEPT ![t] = Idle]
  BY DEF Returned
<1> QED
  BY <1>1, <1>2, StepKeeps DEF ClientInv, TypeOK

\* A request goes out through a proxy it did not go through before, or directly
\* at its first attempt.
LEMMA SentKeeps ==
  ASSUME ClientInv, NEW t \in Threads, NEW p \in Proxies \cup {Direct}, Sent(t, p), PoolTypeOK',
         \/ req[t].pc = "resolve"
         \/ req[t].pc = "failover" /\ p \in Proxies /\ p \notin req[t].tried,
         req[t].src \in Bound => p # Direct,
         UNCHANGED <<made, hostCool, issues, gap, delayLock>>
  PROVE  ClientInv'
<1>1. /\ req \in [Threads -> Requests] /\ req[t] \in Requests /\ TypeOK
      /\ RequestOK(t, req[t], delayLock[Host(t)], gap[Host(t)])
  BY TypedRequests DEF ClientInv
<1>2. p # NoProxyGiven /\ Direct \notin Proxies
  BY PoolAssumption DEF NoProxyGiven, Direct, Proxies
<1> DEFINE r == [req[t] EXCEPT !.pc = "sent", !.sel = p, !.insecure = FALSE, !.left = 0,
                               !.attempts = @ + 1, !.tried = @ \cup ({p} \ {Direct})]
<1>3. /\ r \in Requests /\ r.pc = "sent" /\ r.sel = p /\ r.src = req[t].src
      /\ r.attempts = req[t].attempts + 1 /\ r.tried = req[t].tried \cup ({p} \ {Direct})
  <2>1. /\ req[t].attempts + 1 \in Nat
        /\ req[t].tried \cup ({p} \ {Direct}) \in SUBSET Proxies
    BY <1>1 DEF Requests
  <2> QED
    BY <1>1, <2>1 DEF Requests
<1>4. req' = [req EXCEPT ![t] = r]
  BY <1>1 DEF Sent
<1> HIDE DEF r
<1>5. req[t].tried \in SUBSET Proxies /\ IsFiniteSet(req[t].tried)
  BY <1>1, FinitePool DEF Requests
<1>6. r.src \in Sources
  BY <1>1, <1>3 DEF RequestOK
<1>7. r.attempts <= MaxAttempts /\ (p \in Proxies => r.attempts = Cardinality(r.tried))
  <2>1. CASE req[t].pc = "resolve"
    <3>1. r.attempts = 1 /\ (p \in Proxies => r.tried = {p})
      BY <1>1, <1>2, <1>3, <2>1 DEF RequestOK
    <3>2. Cardinality({p}) = 1
      BY FS_Singleton
    <3>3. r.attempts <= MaxAttempts
      BY <3>1, MaxAttemptsType
    <3>4. p \in Proxies => r.attempts = Cardinality(r.tried)
      BY <3>1, <3>2
    <3> QED
      BY <3>3, <3>4
  <2>2. CASE req[t].pc = "failover"
    <3>1. /\ req[t].attempts = Cardinality(req[t].tried) /\ req[t].attempts < MaxAttempts
          /\ p \in Proxies /\ p \notin req[t].tried
      BY <1>1, <2>2 DEF RequestOK
    <3>2. r.tried = req[t].tried \cup {p}
      BY <1>2, <1>3, <3>1
    <3>3. Cardinality(r.tried) = Cardinality(req[t].tried) + 1
      BY <1>5, <3>1, <3>2, FS_AddElement
    <3> QED
      BY <1>1, <1>3, <3>1, <3>3, MaxAttemptsType DEF Requests
  <2> QED
    BY <2>1, <2>2
<1>8. \A l, w : RequestOK(t, r, l, w)
  BY <1>2, <1>3, <1>6, <1>7 DEF RequestOK
<1> QED
  BY <1>1, <1>3, <1>4, <1>8, StepKeeps DEF TypeOK

LEMMA SelectingKeeps ==
  ASSUME ClientInv, NEW t \in Threads, ResolveGiven(t) \/ Resolve(t) \/ Alternative(t)
  PROVE  ClientInv'
<1>1. /\ req \in [Threads -> Requests] /\ req[t] \in Requests /\ TypeOK /\ PoolTypeOK
      /\ RequestOK(t, req[t], delayLock[Host(t)], gap[Host(t)])
  BY TypedRequests DEF ClientInv
<1>2. CASE ResolveGiven(t)
  <2>1. /\ req[t].pc = "resolve" /\ req[t].sel \in Proxies \cup {Direct} /\ PoolTypeOK'
        /\ UNCHANGED <<made, hostCool, issues, gap, delayLock>>
    BY <1>1, <1>2 DEF ResolveGiven, At, Requests, pool, PoolTypeOK
  <2>2. \/ Returned(t)
        \/ Sent(t, req[t].sel) /\ (req[t].src \in Bound => req[t].sel # Direct)
    BY <1>2 DEF ResolveGiven, Refused
  <2> QED
    BY <1>1, <2>1, <2>2, SentKeeps, ReturnedKeeps DEF TypeOK
<1>3. CASE Resolve(t) \/ Alternative(t)
  <2>1. req[t].src \in Sources /\ Host(t) \in Hosts
    BY <1>1, <1>3, TypedRequests DEF RequestOK, Resolve, Alternative, At
  <2>2. PICK d \in Diagnoses :
          LET chosen == Select(req[t].src, Host(t), d)
          IN  /\ index' = chosen.index /\ sticky' = chosen.sticky
              /\ \/ req[t].pc = "resolve" /\ Returned(t)
                 \/ /\ req[t].pc = "resolve" /\ Sent(t, chosen.proxy)
                    /\ req[t].src \in Bound => chosen.proxy # Direct
                 \/ req[t].pc = "failover" /\ Returned(t)
                 \/ /\ req[t].pc = "failover" /\ Sent(t, chosen.proxy)
                    /\ chosen.proxy # Direct /\ chosen.proxy \notin req[t].tried
                 \/ /\ req[t].pc = "failover"
                    /\ req[t].left # 1 /\ req' = [req EXCEPT ![t].left = @ - 1]
    BY <1>3 DEF Resolve, Alternative, Refused, At, AlternativeOk
  <2> DEFINE chosen == Select(req[t].src, Host(t), d)
  <2>3. /\ chosen.proxy \in Proxies \cup {Direct} /\ chosen.index \in Proxies \cup {1}
        /\ chosen.sticky \in [Hosts -> [at : Proxies \cup {Direct}, ttl : Nat]]
    BY <1>1, <2>1, SelectType DEF Usable
  <2>4. PoolTypeOK' /\ UNCHANGED <<made, hostCool, issues, gap, delayLock>>
    BY <1>1, <1>3, <2>2, <2>3 DEF Resolve, Alternative, PoolTypeOK
  <2> HIDE DEF chosen
  <2>5. CASE Returned(t)
    BY <1>1, <2>4, <2>5, ReturnedKeeps DEF TypeOK
  <2>6. CASE /\ req[t].pc = "resolve" /\ Sent(t, chosen.proxy)
             /\ req[t].src \in Bound => chosen.proxy # Direct
    BY <2>3, <2>4, <2>6, SentKeeps
  <2>7. CASE /\ req[t].pc = "failover" /\ Sent(t, chosen.proxy)
             /\ chosen.proxy # Direct /\ chosen.proxy \notin req[t].tried
    <3>1. chosen.proxy \in Proxies
      BY <2>3, <2>7
    <3> QED
      BY <2>3, <2>4, <2>7, <3>1, SentKeeps
  <2>8. CASE req[t].pc = "failover" /\ req[t].left # 1 /\ req' = [req EXCEPT ![t].left = @ - 1]
    <3> DEFINE r == [req[t] EXCEPT !.left = @ - 1]
    <3>1. req[t].left \in Nat \ {0, 1}
      BY <1>1, <2>8 DEF RequestOK, Requests
    <3>2. /\ r \in Requests /\ r.pc = "failover" /\ r.src = req[t].src /\ r.sel = req[t].sel
          /\ r.tried = req[t].tried /\ r.attempts = req[t].attempts /\ r.left # 0
      BY <1>1, <2>8, <3>1 DEF Requests
    <3>3. req' = [req EXCEPT ![t] = r]
      BY <1>1, <2>8
    <3> HIDE DEF r
    <3>4. \A l, w : RequestOK(t, r, l, w)
      BY <1>1, <2>8, <3>2 DEF RequestOK
    <3> QED
      BY <1>1, <2>4, <3>2, <3>3, <3>4, StepKeeps DEF TypeOK
  <2> QED
    BY <2>2, <2>5, <2>6, <2>7, <2>8 DEF chosen
<1> QED
  BY <1>2, <1>3

\* A report on the proxy of a request that was sent, with what the host says.
LEMMA ReportKeeps ==
  ASSUME ClientInv, ReserveHeld, NEW t \in Threads, req[t].pc = "sent",
         \/ \E reason : entries' = MarkedBad(req[t].sel, req[t].src, reason)
         \/ entries' = MarkedOk(req[t].sel),
         UNCHANGED <<index, sticky, strategy>>
  PROVE  PoolTypeOK' /\ ReserveHeld'
<1>1. /\ req[t] \in Requests /\ PoolTypeOK
      /\ RequestOK(t, req[t], delayLock[Host(t)], gap[Host(t)])
  BY TypedRequests DEF ClientInv
<1>2. req[t].src \in Sources /\ req[t].sel \in Proxies \cup {Direct}
  BY <1>1 DEF RequestOK, Requests
<1>3. entries' \in EntriesType
  BY <1>1, <1>2, MarkedBadType, MarkedOkType
<1> QED
  BY <1>1, <1>2, <1>3, MarkedBadKeepsReserve, MarkedOkKeepsReserve DEF PoolTypeOK, EntriesType

LEMMA AnswerKeeps ==
  ASSUME ClientInv, ReserveHeld, NEW t \in Threads,
         \/ RateLimited(t) \/ BotGate(t) \/ Forbidden(t) \/ HttpError(t) \/ Ok(t)
         \/ RequestError(t) \/ TlsError(t) \/ ProxyError(t)
  PROVE  ClientInv' /\ ReserveHeld'
<1>1. /\ req \in [Threads -> Requests] /\ req[t] \in Requests /\ TypeOK /\ PoolTypeOK
      /\ RequestOK(t, req[t], delayLock[Host(t)], gap[Host(t)])
  BY TypedRequests DEF ClientInv
<1>2. req[t].pc = "sent" /\ req[t].src \in Sources /\ Host(t) \in Hosts
  BY <1>1, TypedRequests DEF RateLimited, BotGate, Forbidden, HttpError, Ok, RequestError,
                             TlsError, ProxyError, At, RequestOK
<1>3. CASE RateLimited(t)
  <2>1. issues[Host(t)].r429 \in Nat /\ hostCool[Host(t)] \in Nat
    BY <1>1, <1>2 DEF TypeOK
  <2>2. /\ issues' \in [Hosts -> [r429 : Nat, bot : Nat]]
        /\ issues'[Host(t)].r429 = issues[Host(t)].r429 + 1
    BY <1>1, <1>2, <1>3, <2>1 DEF RateLimited, TypeOK
  <2>3. Cooldown429 * issues'[Host(t)].r429 \in Nat
    BY <2>1, <2>2, ClientAssumption
  <2>4. hostCool' \in [Hosts -> Nat]
    BY <1>1, <1>3, <2>1, <2>3 DEF RateLimited, TypeOK, Larger
  <2>5. PoolTypeOK' /\ ReserveHeld'
    BY <1>2, <1>3, ReportKeeps DEF RateLimited
  <2> QED
    BY <1>3, <2>2, <2>4, <2>5, ReturnedKeeps DEF RateLimited
<1>4. CASE BotGate(t)
  <2>1. issues[Host(t)].bot \in Nat /\ hostCool[Host(t)] \in Nat
    BY <1>1, <1>2 DEF TypeOK
  <2>2. /\ issues' \in [Hosts -> [r429 : Nat, bot : Nat]]
        /\ issues'[Host(t)].bot = issues[Host(t)].bot + 1
    BY <1>1, <1>2, <1>4, <2>1 DEF BotGate, TypeOK
  <2>3. CooldownBot * issues'[Host(t)].bot \in Nat
    BY <2>1, <2>2, ClientAssumption
  <2>4. hostCool' \in [Hosts -> Nat]
    BY <1>1, <1>4, <2>1, <2>3 DEF BotGate, TypeOK, Larger
  <2>5. PoolTypeOK' /\ ReserveHeld'
    BY <1>2, <1>4, ReportKeeps DEF BotGate
  <2> QED
    BY <1>4, <2>2, <2>4, <2>5, ReturnedKeeps DEF BotGate
<1>5. CASE Forbidden(t) \/ RequestError(t)
  <2>1. PoolTypeOK' /\ ReserveHeld'
    BY <1>2, <1>5, ReportKeeps DEF Forbidden, RequestError
  <2> QED
    BY <1>1, <1>5, <2>1, ReturnedKeeps DEF Forbidden, RequestError, TypeOK
<1>6. CASE Ok(t)
  <2>1. PoolTypeOK' /\ ReserveHeld'
    BY <1>2, <1>6, ReportKeeps DEF Ok
  <2>2. issues' \in [Hosts -> [r429 : Nat, bot : Nat]]
    BY <1>1, <1>6 DEF Ok, TypeOK
  <2> QED
    BY <1>1, <1>6, <2>1, <2>2, ReturnedKeeps DEF Ok, TypeOK
<1>7. CASE HttpError(t) \/ TlsError(t)
  <2>1. PoolTypeOK' /\ ReserveHeld' /\ UNCHANGED <<made, hostCool, issues, gap, delayLock>>
    BY <1>1, <1>7 DEF HttpError, TlsError, pool, PoolTypeOK, ReserveHeld, Cooling
  <2>2. CASE Returned(t)
    BY <1>1, <2>1, <2>2, ReturnedKeeps DEF TypeOK
  <2>3. CASE req' = [req EXCEPT ![t].insecure = TRUE]
    <3> DEFINE r == [req[t] EXCEPT !.insecure = TRUE]
    <3>1. /\ r \in Requests /\ r.pc = "sent" /\ r.src = req[t].src /\ r.sel = req[t].sel
          /\ r.tried = req[t].tried /\ r.attempts = req[t].attempts
      BY <1>1, <1>2 DEF Requests
    <3>2. req' = [req EXCEPT ![t] = r]
      BY <1>1, <2>3
    <3> HIDE DEF r
    <3>3. \A l, w : RequestOK(t, r, l, w)
      BY <1>1, <1>2, <3>1 DEF RequestOK
    <3> QED
      BY <1>1, <2>1, <3>1, <3>2, <3>3, StepKeeps DEF TypeOK
  <2> QED
    BY <1>7, <2>2, <2>3 DEF HttpError, TlsError
<1>8. CASE ProxyError(t)
  <2>1. PoolTypeOK' /\ ReserveHeld' /\ UNCHANGED <<made, hostCool, issues, gap, delayLock>>
    BY <1>2, <1>8, ReportKeeps DEF ProxyError
  <2>2. CASE Returned(t)
    BY <1>1, <2>1, <2>2, ReturnedKeeps DEF TypeOK
  <2>3. CASE /\ req[t].attempts < MaxAttempts
             /\ req' = [req EXCEPT ![t].pc = "failover", ![t].left = Larger(NProxies, 1)]
    <3> DEFINE r == [req[t] EXCEPT !.pc = "failover", !.left = Larger(NProxies, 1)]
    <3>1. Larger(NProxies, 1) \in Nat \ {0}
      BY PoolAssumption DEF Larger
    <3>2. req[t].sel \in Proxies
      BY <1>1, <1>2, <1>8 DEF RequestOK, Requests, ProxyError
    <3>3. /\ r \in Requests /\ r.pc = "failover" /\ r.src = req[t].src /\ r.sel = req[t].sel
          /\ r.tried = req[t].tried /\ r.attempts = req[t].attempts /\ r.left # 0
      BY <1>1, <3>1 DEF Requests
    <3>4. req' = [req EXCEPT ![t] = r]
      BY <1>1, <2>3
    <3> HIDE DEF r
    <3>5. \A l, w : RequestOK(t, r, l, w)
      BY <1>1, <1>2, <2>3, <3>2, <3>3 DEF RequestOK
    <3> QED
      BY <1>1, <2>1, <3>3, <3>4, <3>5, StepKeeps DEF TypeOK
  <2> QED
    BY <1>8, <2>2, <2>3 DEF ProxyError
<1> QED
  BY <1>3, <1>4, <1>5, <1>6, <1>7, <1>8

LEMMA ClearKeeps ==
  ASSUME ClientInv, ReserveHeld, ClearHostCooldown
  PROVE  ClientInv' /\ ReserveHeld'
<1>1. UNCHANGED <<made, pool, issues, gap, delayLock, req>> /\ hostCool' \in [Hosts -> Nat]
  BY DEF ClearHostCooldown, ClientInv, TypeOK
<1>2. TypeOK'
  BY <1>1 DEF ClientInv, TypeOK, pool, PoolTypeOK
<1> QED
  BY <1>1, <1>2 DEF ClientInv, RequestOK, Host, pool, ReserveHeld, Cooling

\* Time passes for the spacing of a host as for the nap of the thread that waits
\* for it.
LEMMA TickKeeps ==
  ASSUME ClientInv, ReserveHeld, Tick
  PROVE  ClientInv' /\ ReserveHeld'
<1>1. \A n \in Nat : Monus(n, 1) \in Nat
  BY DEF Monus
<1>2. PoolTypeOK' /\ ReserveHeld'
  <2>1. /\ entries' = EntriesLater /\ sticky' = StickyLater /\ UNCHANGED <<index, strategy>>
        /\ PoolTypeOK
    BY DEF Tick, ClientInv, TypeOK
  <2>2. EntriesLater \in EntriesType
    BY <1>1, <2>1 DEF EntriesLater, EntriesType, PoolTypeOK
  <2>3. StickyLater \in [Hosts -> [at : Proxies \cup {Direct}, ttl : Nat]]
    BY <2>1 DEF StickyLater, PoolTypeOK
  <2> QED
    BY <2>1, <2>2, <2>3, TickKeepsReserve DEF PoolTypeOK, EntriesType
<1>3. /\ hostCool' \in [Hosts -> Nat] /\ gap' \in [Hosts -> Nat]
      /\ UNCHANGED <<made, issues, delayLock>>
  BY <1>1 DEF Tick, ClientInv, TypeOK
<1>4. ASSUME NEW t \in Threads
      PROVE  /\ req'[t] \in Requests
             /\ RequestOK(t, req'[t], delayLock'[HostOf[req'[t].src]], gap'[HostOf[req'[t].src]])
  <2>1. /\ req[t] \in Requests /\ RequestOK(t, req[t], delayLock[Host(t)], gap[Host(t)])
        /\ req'[t] = IF req[t].pc = "nap" THEN [req[t] EXCEPT !.left = Monus(@, 1)] ELSE req[t]
    BY TypedRequests DEF ClientInv, Tick, At
  <2>2. CASE req[t].pc # "nap"
    BY <2>1, <2>2 DEF RequestOK
  <2>3. CASE req[t].pc = "nap"
    <3>1. Host(t) \in Hosts /\ gap[Host(t)] \in Nat
      BY <2>1, <2>3, TypedRequests DEF RequestOK, ClientInv, TypeOK
    <3>2. gap'[Host(t)] = Monus(gap[Host(t)], 1)
      BY <3>1 DEF Tick
    <3>3. /\ req'[t] \in Requests /\ req'[t].pc = "nap" /\ req'[t].src = req[t].src
          /\ req'[t].attempts = req[t].attempts /\ req'[t].tried = req[t].tried
          /\ req'[t].left = Monus(req[t].left, 1)
      BY <1>1, <2>1, <2>3 DEF Requests
    <3>4. Monus(gap[Host(t)], 1) <= Monus(req[t].left, 1)
      BY <2>1, <2>3, <3>1 DEF RequestOK, Monus, Requests
    <3>5. HostOf[req'[t].src] = Host(t) /\ delayLock' = delayLock
      BY <1>3, <3>3 DEF Host
    <3> QED
      BY <2>1, <2>3, <3>2, <3>3, <3>4, <3>5 DEF RequestOK
  <2> QED
    BY <2>2, <2>3
<1>5. req' \in [Threads -> Requests]
  <2>1. req' = [t \in Threads |-> req'[t]]
    BY DEF Tick
  <2> QED
    BY <1>4, <2>1
<1>6. TypeOK'
  BY <1>2, <1>3, <1>5 DEF ClientInv, TypeOK, Requests
<1> QED
  BY <1>2, <1>4, <1>6 DEF ClientInv, Host

-----------------------------------------------------------------------------
(* The theorems. *)

LEMMA StepHolds == ClientInv /\ ReserveHeld /\ [Next]_vars => ClientInv' /\ ReserveHeld'
<1> SUFFICES ASSUME ClientInv, ReserveHeld, [Next]_vars PROVE ClientInv' /\ ReserveHeld'
  OBVIOUS
<1>1. CASE UNCHANGED vars
  BY <1>1 DEF vars, client, pool, ClientInv, TypeOK, PoolTypeOK, Host, ReserveHeld, Cooling
<1>2. CASE Next
  <2>1. ASSUME NEW t \in Threads,
               \/ \E s \in Sources : Begin(t, s, NoProxyGiven)
               \/ \E s \in Sources \ Bound, g \in Given : Begin(t, s, g)
               \/ CooldownSkip(t) \/ PermitNow(t) \/ Nap(t) \/ Wake(t)
        PROVE  ClientInv' /\ ReserveHeld'
    <3>1. ReserveHeld'
      BY <2>1 DEF Begin, CooldownSkip, PermitNow, Nap, Wake, pool, ReserveHeld, Cooling
    <3> QED
      BY <2>1, <3>1, WaitingKeeps
  <2>2. ASSUME NEW t \in Threads, ResolveGiven(t) \/ Resolve(t) \/ Alternative(t)
        PROVE  ClientInv' /\ ReserveHeld'
    <3>1. ReserveHeld'
      BY <2>2 DEF ResolveGiven, Resolve, Alternative, pool, ReserveHeld, Cooling
    <3> QED
      BY <2>2, <3>1, SelectingKeeps
  <2> QED
    BY <1>2, <2>1, <2>2, AnswerKeeps, ClearKeeps, TickKeeps DEF Next, Advance
<1> QED
  BY <1>1, <1>2

LEMMA InvariantHolds == Spec => [](ClientInv /\ ReserveHeld)
  BY InitHolds, StepHolds, PTL DEF Spec

\* The client and its pool keep their types.
THEOREM TypeCorrect == Spec => []TypeOK
<1>1. ClientInv => TypeOK
  BY DEF ClientInv
<1> QED
  BY <1>1, InvariantHolds, PTL

\* Protected sources never cool more proxies than those above the reserved
\* floor, however the reports of different threads interleave
\* (mark_bad, app/runtime/proxies.py:728-800).
THEOREM ReserveIsHeld == Spec => []ReserveHeld
  BY InvariantHolds, PTL

\* A bound source never goes out directly, and no request goes through a proxy
\* twice or makes more attempts than there are proxies
\* (company_enrichment_core.py, request and _select_alternative_proxy).
THEOREM EachProxyOnce == Spec => []ProxiesInTurn
<1>1. ClientInv => ProxiesInTurn
  <2> SUFFICES ASSUME ClientInv, NEW t \in Threads
               PROVE  /\ At(t, "sent") /\ req[t].src \in Bound => req[t].sel # Direct
                      /\ req[t].sel \in Proxies /\ At(t, "sent") =>
                           req[t].attempts = Cardinality(req[t].tried)
                      /\ req[t].attempts <= MaxAttempts
    BY DEF ProxiesInTurn, BoundNeverDirect, AttemptsDistinct
  <2> QED
    BY DEF ClientInv, RequestOK, At
<1> QED
  BY <1>1, InvariantHolds, PTL

\* Whoever waits for a host, asleep or not, goes on only when its spacing has
\* passed and it does not cool down (_wait_if_needed).
THEOREM HostsAreSpared == Spec => HostIsSpared
<1>1. ClientInv /\ [Next]_vars =>
        [\A t \in Threads : ~At(t, "resolve") /\ req'[t].pc = "resolve" =>
           gap[Host(t)] = 0 /\ hostCool[Host(t)] = 0]_vars
  <2> SUFFICES ASSUME ClientInv, Next, NEW t \in Threads,
                      ~At(t, "resolve"), req'[t].pc = "resolve"
               PROVE  gap[Host(t)] = 0 /\ hostCool[Host(t)] = 0
    OBVIOUS
  <2>1. /\ req \in [Threads -> Requests] /\ req[t] \in Requests
        /\ RequestOK(t, req[t], delayLock[Host(t)], gap[Host(t)])
    BY TypedRequests DEF ClientInv
  <2>2. ~ Tick
    <3>1. ASSUME Tick PROVE req'[t] = [req[t] EXCEPT !.left = Monus(@, 1)] \/ req'[t] = req[t]
      BY <3>1 DEF Tick
    <3>2. ASSUME Tick PROVE req'[t].pc = req[t].pc
      BY <2>1, <3>1, <3>2 DEF Requests
    <3> QED
      BY <3>2 DEF At
  <2>3. ~ ClearHostCooldown
    BY DEF ClearHostCooldown, At
  <2>4. PICK u \in Threads : \/ \E s \in Sources, g \in Given \cup {NoProxyGiven} : Begin(u, s, g)
                             \/ Advance(u)
    BY <2>2, <2>3 DEF Next
  <2>5. ASSUME NEW s, NEW g PROVE ~ Begin(u, s, g)
    <3> DEFINE r == [Idle EXCEPT !.pc = "wait", !.src = s, !.sel = g]
    <3>1. r.pc = "wait"
      BY DEF Idle
    <3> HIDE DEF r
    <3>2. ~ (req' = [req EXCEPT ![u] = r])
      BY <2>1, <3>1 DEF At
    <3> QED
      BY <3>2 DEF Begin, r
  <2>6. ~ (CooldownSkip(u) \/ Nap(u))
    BY <2>1 DEF CooldownSkip, Nap, Returned, Idle, At, Requests
  <2>7. ~ (ResolveGiven(u) \/ Resolve(u) \/ Alternative(u))
    <3>1. ~ Returned(u)
      BY <2>1 DEF Returned, Idle, At, Requests
    <3>3. ASSUME NEW p PROVE ~ Sent(u, p)
      <4> DEFINE r == [req[u] EXCEPT !.pc = "sent", !.sel = p, !.insecure = FALSE, !.left = 0,
                                     !.attempts = @ + 1, !.tried = @ \cup ({p} \ {Direct})]
      <4>1. r.pc = "sent"
        BY <2>1 DEF Requests
      <4> HIDE DEF r
      <4>2. ~ (req' = [req EXCEPT ![u] = r])
        BY <2>1, <4>1 DEF At
      <4>3. Sent(u, p) => req' = [req EXCEPT ![u] = r]
        BY <2>1 DEF Sent, r
      <4> QED
        BY <4>2, <4>3
    <3>2. ~ (req' = [req EXCEPT ![u].left = @ - 1])
      BY <2>1 DEF At, Requests
    <3> QED
      BY <3>1, <3>2, <3>3 DEF ResolveGiven, Resolve, Alternative, Refused
  <2>8. ~ (RateLimited(u) \/ BotGate(u) \/ Forbidden(u) \/ HttpError(u) \/ Ok(u) \/ RequestError(u))
    BY <2>1 DEF RateLimited, BotGate, Forbidden, HttpError, Ok, RequestError, Returned, Idle, At
  <2>9. ~ (TlsError(u) \/ ProxyError(u))
    <3>1. ~ Returned(u) /\ ~ (req' = [req EXCEPT ![u].insecure = TRUE])
      BY <2>1 DEF Returned, Idle, At, Requests
    <3>2. ~ (req' = [req EXCEPT ![u].pc = "failover", ![u].left = Larger(NProxies, 1)])
      BY <2>1 DEF At, Requests
    <3> QED
      BY <3>1, <3>2 DEF TlsError, ProxyError
  <2>10. PermitNow(u) \/ Wake(u)
    BY <2>4, <2>5, <2>6, <2>7, <2>8, <2>9 DEF Advance
  <2>11. u = t /\ (At(t, "wait") \/ At(t, "nap"))
    BY <2>1, <2>10 DEF PermitNow, Wake, GoesOn, Returned, At
  <2>12. CASE PermitNow(t)
    BY <2>12 DEF PermitNow
  <2>13. CASE Wake(t)
    <3>1. Host(t) \in Hosts /\ req[t].pc = "nap" /\ req[t].left = 0
      BY <2>1, <2>13, TypedRequests DEF Wake, At, RequestOK, ClientInv
    <3>2. gap[Host(t)] \in Nat /\ hostCool[Host(t)] \in Nat /\ gap[Host(t)] <= 0
      BY <2>1, <3>1 DEF ClientInv, TypeOK, RequestOK
    <3>3. ~ (hostCool[Host(t)] > 0)
      BY <2>1, <2>13 DEF Wake, Returned, Idle
    <3> QED
      BY <3>2, <3>3
  <2> QED
    BY <2>1, <2>10, <2>11, <2>12, <2>13 DEF PermitNow, Wake, GoesOn, Returned, At
<1> QED
  BY <1>1, InvariantHolds, PTL DEF Spec, HostIsSpared
===============================================================================
