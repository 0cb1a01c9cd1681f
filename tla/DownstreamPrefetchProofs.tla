----------------------- MODULE DownstreamPrefetchProofs -----------------------
(* Theorems about the stage pools and the row loop above them, for any number of
   rows and threads, any limits, and any program of properly nested leases.   *)
EXTENDS DownstreamPrefetch, Integers, FiniteSetTheorems, SequenceTheorems,
        WellFoundedInduction, TLAPS

-----------------------------------------------------------------------------
(* The program and the leases it leaves a thread with. *)

\* The leases of a thread at place i, the innermost first: all that were entered,
\* none of them twice, each inside of those after it.
Elements(held) == {held[a] : a \in DOMAIN held}
Once(held) == \A a, b \in DOMAIN held : held[a] = held[b] => a = b
Stack(held, i) ==
  /\ Once(held)
  /\ Elements(held) = Inside(i)
  /\ \A a, b \in DOMAIN held : a < b =>
       \A k \in 1 .. (i - 1) : EnteredAt(held[a], k, i) => held[b] \in Inside(k)

LEMMA ProgramType ==
  /\ Len(Program) \in Nat /\ DOMAIN Program = 1 .. Len(Program)
  /\ \A i \in DOMAIN Program :
       /\ Program[i][2] \in Stages
       /\ Program[i] = <<Program[i][1], Program[i][2]>> /\ Program[i][1] \in {"in", "out"}
BY StageAssumption

LEMMA InsideStart == Inside(1) = {}
BY DEF Inside

LEMMA InsideIn ==
  ASSUME NEW i \in DOMAIN Program, NEW s \in Stages, Program[i] = <<"in", s>>
  PROVE  /\ s \notin Inside(i) /\ Inside(i + 1) = Inside(i) \cup {s}
         /\ \A k \in 1 .. i : EnteredAt(s, k, i + 1) => k = i
         /\ \A r \in Inside(i), k \in 1 .. i : EnteredAt(r, k, i + 1) => EnteredAt(r, k, i)
<1>1. i \in Nat \ {0} /\ s \notin Inside(i)
  BY ProgramType, StageAssumption
<1>2. ASSUME NEW r \in Stages, NEW k \in 1 .. i, k # i
      PROVE  EnteredAt(r, k, i + 1) <=> EnteredAt(r, k, i)
  <2>1. (k + 1) .. (i + 1 - 1) = ((k + 1) .. (i - 1)) \cup {i} /\ k \in 1 .. (i - 1)
    BY <1>1, <1>2
  <2>2. Program[i] # <<"out", r>>
    OBVIOUS
  <2> QED
    BY <1>1, <2>1, <2>2 DEF EnteredAt
<1>3. ASSUME NEW r \in Stages PROVE EnteredAt(r, i, i + 1) <=> r = s
  BY <1>1 DEF EnteredAt
<1>4. ASSUME NEW r \in Stages PROVE r \in Inside(i + 1) <=> r \in Inside(i) \cup {s}
  <2>1. 1 .. (i + 1 - 1) = (1 .. (i - 1)) \cup {i}
    BY <1>1
  <2> QED
    BY <1>1, <1>2, <1>3, <2>1 DEF Inside
<1>5. ASSUME NEW k \in 1 .. i, EnteredAt(s, k, i + 1) PROVE k = i
  <2> SUFFICES ASSUME k # i PROVE FALSE
    OBVIOUS
  <2> QED
    BY <1>1, <1>2, <1>5 DEF Inside, EnteredAt
<1>6. ASSUME NEW r \in Inside(i), NEW k \in 1 .. i, EnteredAt(r, k, i + 1)
      PROVE  EnteredAt(r, k, i)
  BY <1>1, <1>2, <1>3, <1>6 DEF Inside
<1> QED
  BY <1>1, <1>4, <1>5, <1>6 DEF Inside

LEMMA InsideOut ==
  ASSUME NEW i \in DOMAIN Program, NEW s \in Stages, Program[i] = <<"out", s>>
  PROVE  /\ s \in Inside(i) /\ Inside(i + 1) = Inside(i) \ {s}
         /\ \A r \in Stages, k \in 1 .. i :
              EnteredAt(r, k, i + 1) => k \in 1 .. (i - 1) /\ EnteredAt(r, k, i)
<1>1. i \in Nat \ {0} /\ s \in Inside(i)
  BY ProgramType, StageAssumption
<1>2. ASSUME NEW r \in Stages, NEW k \in 1 .. (i - 1)
      PROVE  EnteredAt(r, k, i + 1) <=> EnteredAt(r, k, i) /\ r # s
  <2>1. (k + 1) .. (i + 1 - 1) = ((k + 1) .. (i - 1)) \cup {i}
    BY <1>1
  <2> QED
    BY <1>1, <2>1 DEF EnteredAt
<1>3. ASSUME NEW r \in Stages PROVE ~ EnteredAt(r, i, i + 1)
  BY DEF EnteredAt
<1>4. 1 .. (i + 1 - 1) = (1 .. (i - 1)) \cup {i}
  BY <1>1
<1>5. ASSUME NEW r \in Stages PROVE r \in Inside(i + 1) <=> r \in Inside(i) \ {s}
  BY <1>1, <1>2, <1>3, <1>4 DEF Inside
<1> QED
  BY <1>1, <1>2, <1>3, <1>4, <1>5 DEF Inside

\* A bracket that opens puts its stage on top, one that closes takes the top off.
LEMMA PushStack ==
  ASSUME NEW held \in Seq(Stages), NEW i \in DOMAIN Program, Stack(held, i),
         NEW s \in Stages, Program[i] = <<"in", s>>
  PROVE  Stack(<<s>> \o held, i + 1)
<1> DEFINE more == <<s>> \o held
<1>1. /\ more \in Seq(Stages) /\ Len(more) = Len(held) + 1 /\ more[1] = s
      /\ \A a \in DOMAIN held : more[a + 1] = held[a]
      /\ DOMAIN more = 1 .. (Len(held) + 1) /\ DOMAIN held = 1 .. Len(held) /\ Len(held) \in Nat
  OBVIOUS
<1> HIDE DEF more
<1>2. i \in Nat \ {0}
  BY ProgramType
<1>3. /\ s \notin Inside(i) /\ Inside(i + 1) = Inside(i) \cup {s}
      /\ \A k \in 1 .. i : EnteredAt(s, k, i + 1) => k = i
      /\ \A r \in Inside(i), k \in 1 .. i : EnteredAt(r, k, i + 1) => EnteredAt(r, k, i)
  BY InsideIn
<1>4. \A a \in DOMAIN held : held[a] # s /\ held[a] \in Inside(i)
  BY <1>3 DEF Stack, Elements
<1>5. ASSUME NEW a \in DOMAIN more, a # 1
      PROVE  a - 1 \in DOMAIN held /\ more[a] = held[a - 1]
  BY <1>1, <1>5
<1>6. Once(more)
  <2> SUFFICES ASSUME NEW a \in DOMAIN more, NEW b \in DOMAIN more, more[a] = more[b]
               PROVE  a = b
    BY DEF Once
  <2>1. CASE a = 1 \/ b = 1
    BY <1>1, <1>4, <1>5, <2>1
  <2>2. CASE a # 1 /\ b # 1
    <3>1. a - 1 = b - 1
      BY <1>5, <2>2 DEF Stack, Once
    <3> QED
      BY <1>1, <3>1
  <2> QED
    BY <2>1, <2>2
<1>7. Elements(more) = Elements(held) \cup {s}
  <2>1. ASSUME NEW a \in DOMAIN held PROVE a + 1 \in DOMAIN more /\ more[a + 1] = held[a]
    BY <1>1
  <2>2. 1 \in DOMAIN more
    BY <1>1
  <2>3. ASSUME NEW a \in DOMAIN more PROVE more[a] \in Elements(held) \cup {s}
    BY <1>1, <1>5 DEF Elements
  <2>4. ASSUME NEW x \in Elements(held) \cup {s} PROVE x \in Elements(more)
    BY <1>1, <2>1, <2>2 DEF Elements
  <2> QED
    BY <2>3, <2>4 DEF Elements
<1>8. ASSUME NEW a \in DOMAIN more, NEW b \in DOMAIN more, a < b,
             NEW k \in 1 .. (i + 1 - 1), EnteredAt(more[a], k, i + 1)
      PROVE  more[b] \in Inside(k)
  <2>1. b # 1 /\ b - 1 \in DOMAIN held /\ more[b] = held[b - 1] /\ k \in 1 .. i
    BY <1>1, <1>2, <1>5, <1>8
  <2>2. CASE a = 1
    BY <1>1, <1>3, <1>4, <1>8, <2>1, <2>2
  <2>3. CASE a # 1
    <3>1. a - 1 \in DOMAIN held /\ more[a] = held[a - 1] /\ a - 1 < b - 1
      BY <1>1, <1>5, <1>8, <2>3
    <3>2. EnteredAt(held[a - 1], k, i)
      BY <1>3, <1>4, <1>8, <2>1, <3>1
    <3>3. k \in 1 .. (i - 1)
      BY <3>2 DEF EnteredAt
    <3> QED
      BY <2>1, <3>1, <3>2, <3>3 DEF Stack
  <2> QED
    BY <2>2, <2>3
<1>9. Elements(more) = Inside(i + 1)
  BY <1>3, <1>7 DEF Stack
<1>10. Stack(more, i + 1)
  BY <1>6, <1>8, <1>9 DEF Stack
<1> QED
  BY <1>10 DEF more

LEMMA PopStack ==
  ASSUME NEW held \in Seq(Stages), NEW i \in DOMAIN Program, Stack(held, i),
         NEW s \in Stages, Program[i] = <<"out", s>>
  PROVE  held # <<>> /\ Head(held) = s /\ Stack(Tail(held), i + 1)
<1>1. i \in Nat \ {0}
  BY ProgramType
<1>2. /\ s \in Inside(i) /\ Inside(i + 1) = Inside(i) \ {s}
      /\ \A r \in Stages, k \in 1 .. i :
           EnteredAt(r, k, i + 1) => k \in 1 .. (i - 1) /\ EnteredAt(r, k, i)
  BY InsideOut
<1>3. PICK b \in DOMAIN held : held[b] = s
  BY <1>2 DEF Stack, Elements
<1>4. held # <<>> /\ 1 \in DOMAIN held /\ DOMAIN held = 1 .. Len(held) /\ Len(held) \in Nat \ {0}
  BY <1>3
<1>5. b = 1
  <2> SUFFICES ASSUME b # 1 PROVE FALSE
    OBVIOUS
  <2>1. held[1] \in Inside(i) \ {s}
    BY <1>3, <1>4 DEF Stack, Elements, Once
  <2>2. PICK k \in 1 .. (i - 1) : EnteredAt(held[1], k, i)
    BY <2>1 DEF Inside
  <2>3. s \in Inside(k)
    BY <1>3, <1>4, <2>2 DEF Stack
  <2> QED
    BY <2>1, <2>2, <2>3, StageAssumption
<1>6. Head(held) = s
  BY <1>3, <1>4, <1>5
<1> DEFINE rest == Tail(held)
<1>7. /\ rest \in Seq(Stages) /\ DOMAIN rest = 1 .. (Len(held) - 1)
      /\ \A a \in DOMAIN rest : a + 1 \in DOMAIN held /\ rest[a] = held[a + 1]
  BY <1>4
<1> HIDE DEF rest
<1>8. Once(rest)
  BY <1>4, <1>7 DEF Stack, Once
<1>9. Elements(rest) = Elements(held) \ {s}
  <2>1. ASSUME NEW a \in DOMAIN held, held[a] # s PROVE held[a] \in Elements(rest)
    <3>1. a - 1 \in DOMAIN rest
      BY <1>3, <1>4, <1>5, <1>7, <2>1
    <3>2. rest[a - 1] = held[a]
      BY <1>4, <1>7, <3>1
    <3> QED
      BY <3>1, <3>2 DEF Elements
  <2>2. ASSUME NEW a \in DOMAIN rest PROVE rest[a] \in Elements(held) \ {s}
    <3>1. a + 1 # 1
      BY <1>7
    <3> QED
      BY <1>3, <1>4, <1>5, <1>7, <3>1 DEF Stack, Once, Elements
  <2> QED
    BY <2>1, <2>2 DEF Elements
<1>10. ASSUME NEW a \in DOMAIN rest, NEW c \in DOMAIN rest, a < c,
              NEW k \in 1 .. (i + 1 - 1), EnteredAt(rest[a], k, i + 1)
       PROVE  rest[c] \in Inside(k)
  <2>1. /\ a + 1 \in DOMAIN held /\ c + 1 \in DOMAIN held /\ a + 1 < c + 1 /\ k \in 1 .. i
        /\ rest[a] = held[a + 1] /\ rest[c] = held[c + 1] /\ held[a + 1] \in Stages
    BY <1>1, <1>7, <1>10
  <2>2. k \in 1 .. (i - 1) /\ EnteredAt(held[a + 1], k, i)
    BY <1>2, <1>10, <2>1
  <2> QED
    BY <2>1, <2>2 DEF Stack
<1>11. Elements(rest) = Inside(i + 1)
  BY <1>2, <1>9 DEF Stack
<1>12. Stack(rest, i + 1)
  BY <1>8, <1>10, <1>11 DEF Stack
<1> QED
  BY <1>4, <1>6, <1>12 DEF rest

-----------------------------------------------------------------------------
(* The pools. *)

Tasks == [row : Rows \cup {NoRow}, ip : 1 .. End,
          phase : {"off", "run", "got", "completed"}, held : Seq(Stages),
          registered : BOOLEAN, leaving : {"no", "failed", "cancelled"}]

\* What holds of a thread: the leases it is inside of are those its program has
\* entered, until an exception makes it leave them one by one.
TaskOK(r) ==
  /\ Once(r.held)
  /\ r.phase = "off" => r.held = <<>> /\ ~r.registered
  /\ r.phase # "off" /\ r.leaving = "no" => Stack(r.held, r.ip)
  /\ r.phase = "got" \/ r.registered => /\ r.leaving = "no" /\ r.ip < End
                                        /\ Program[r.ip][1] = "in"
  /\ r.registered => r.phase \in {"run", "got"}
  /\ r.phase = "completed" =>
       /\ r.held # <<>>
       /\ r.leaving = "no" => r.ip < End /\ Program[r.ip][1] = "out"

Got(s) == {t \in Threads : task[t].phase = "got" /\ Stage(t) = s}

PoolInv ==
  /\ task \in [Threads -> Tasks]
  /\ permits \in [Stages -> Int] /\ queueDepth \in [Stages -> Int] /\ lost \in [Stages -> Int]
  /\ \A t \in Threads : TaskOK(task[t])
  /\ PermitsConserved

\* The permits a thread has of a stage, and its places in the queue.
Use(r, s) == (IF s \in Elements(r.held) THEN 1 ELSE 0)
               + (IF r.phase = "got" /\ Program[r.ip][2] = s THEN 1 ELSE 0)
Waits(r, s) == IF r.registered /\ Program[r.ip][2] = s THEN 1 ELSE 0

\* A set of threads that one of them may enter or leave.
LEMMA OneMoves ==
  ASSUME NEW A \in SUBSET Threads, NEW B \in SUBSET Threads, NEW t \in Threads,
         \A u \in Threads \ {t} : u \in A <=> u \in B
  PROVE  /\ Cardinality(A) \in Nat /\ Cardinality(B) \in Nat
         /\ Cardinality(B) = Cardinality(A) + (IF t \in B THEN 1 ELSE 0)
                                            - (IF t \in A THEN 1 ELSE 0)
<1> DEFINE C == A \ {t}
<1>1. /\ IsFiniteSet(C) /\ Cardinality(C) \in Nat /\ t \notin C
      /\ IsFiniteSet(A) /\ IsFiniteSet(B) /\ Cardinality(A) \in Nat /\ Cardinality(B) \in Nat
  BY StageAssumption, FS_Subset, FS_CardinalityType
<1>2. A = (IF t \in A THEN C \cup {t} ELSE C) /\ B = (IF t \in B THEN C \cup {t} ELSE C)
  OBVIOUS
<1>3. Cardinality(C \cup {t}) = Cardinality(C) + 1
  BY <1>1, FS_AddElement
<1> HIDE DEF C
<1>4. Cardinality(A) = Cardinality(C) + (IF t \in A THEN 1 ELSE 0)
  BY <1>1, <1>2, <1>3
<1>5. Cardinality(B) = Cardinality(C) + (IF t \in B THEN 1 ELSE 0)
  BY <1>1, <1>2, <1>3
<1> QED
  BY <1>1, <1>4, <1>5

LEMMA CountsMove ==
  ASSUME task \in [Threads -> Tasks], NEW t \in Threads, NEW r \in Tasks,
         task' = [task EXCEPT ![t] = r], NEW s \in Stages
  PROVE  /\ Cardinality(Holders(s)) \in Nat /\ Cardinality(Holders(s)') \in Nat
         /\ Cardinality(Got(s)) \in Nat /\ Cardinality(Got(s)') \in Nat
         /\ Cardinality(Registered(s)) \in Nat /\ Cardinality(Registered(s)') \in Nat
         /\ Cardinality(Holders(s)') + Cardinality(Got(s)') =
              Cardinality(Holders(s)) + Cardinality(Got(s)) + Use(r, s) - Use(task[t], s)
         /\ Cardinality(Registered(s)') =
              Cardinality(Registered(s)) + Waits(r, s) - Waits(task[t], s)
<1>1. task'[t] = r /\ \A u \in Threads \ {t} : task'[u] = task[u]
  OBVIOUS
<1>2. /\ Holders(s) \in SUBSET Threads /\ Holders(s)' \in SUBSET Threads
      /\ Got(s) \in SUBSET Threads /\ Got(s)' \in SUBSET Threads
      /\ Registered(s) \in SUBSET Threads /\ Registered(s)' \in SUBSET Threads
  BY DEF Holders, Got, Registered
<1>3. /\ t \in Holders(s) <=> s \in Elements(task[t].held)
      /\ t \in Holders(s)' <=> s \in Elements(r.held)
      /\ t \in Got(s) <=> task[t].phase = "got" /\ Program[task[t].ip][2] = s
      /\ t \in Got(s)' <=> r.phase = "got" /\ Program[r.ip][2] = s
      /\ t \in Registered(s) <=> task[t].registered /\ Program[task[t].ip][2] = s
      /\ t \in Registered(s)' <=> r.registered /\ Program[r.ip][2] = s
  BY <1>1 DEF Holders, Got, Registered, Elements, Stage
<1>4. \A u \in Threads \ {t} : /\ u \in Holders(s) <=> u \in Holders(s)'
                               /\ u \in Got(s) <=> u \in Got(s)'
                               /\ u \in Registered(s) <=> u \in Registered(s)'
  BY <1>1 DEF Holders, Got, Registered, Stage
<1> DEFINE h == Cardinality(Holders(s))  hh == Cardinality(Holders(s)')
           g == Cardinality(Got(s))  gg == Cardinality(Got(s)')
           w == Cardinality(Registered(s))  ww == Cardinality(Registered(s)')
<1>5. /\ h \in Nat /\ hh \in Nat
      /\ hh = h + (IF s \in Elements(r.held) THEN 1 ELSE 0)
                - (IF s \in Elements(task[t].held) THEN 1 ELSE 0)
  BY <1>2, <1>3, <1>4, OneMoves
<1>6. /\ g \in Nat /\ gg \in Nat
      /\ gg = g + (IF r.phase = "got" /\ Program[r.ip][2] = s THEN 1 ELSE 0)
                - (IF task[t].phase = "got" /\ Program[task[t].ip][2] = s THEN 1 ELSE 0)
  BY <1>2, <1>3, <1>4, OneMoves
<1>7. w \in Nat /\ ww \in Nat /\ ww = w + Waits(r, s) - Waits(task[t], s)
  BY <1>2, <1>3, <1>4, OneMoves DEF Waits
<1> HIDE DEF h, hh, g, gg, w, ww
<1>8. hh + gg = h + g + Use(r, s) - Use(task[t], s)
  BY <1>5, <1>6 DEF Use
<1> QED
  BY <1>5, <1>6, <1>7, <1>8 DEF h, hh, g, gg, w, ww

\* A step of one thread keeps the account if the pools move by what it moves.
LEMMA TaskStep ==
  ASSUME PoolInv, NEW t \in Threads, NEW r \in Tasks, TaskOK(r), task' = [task EXCEPT ![t] = r],
         permits' \in [Stages -> Int], queueDepth' \in [Stages -> Int], lost' \in [Stages -> Int],
         \A s \in Stages : permits'[s] = permits[s] + Use(task[t], s) - Use(r, s),
         \A s \in Stages : queueDepth'[s] - lost'[s] =
                             queueDepth[s] - lost[s] + Waits(r, s) - Waits(task[t], s)
  PROVE  PoolInv'
<1>1. task \in [Threads -> Tasks] /\ task' \in [Threads -> Tasks]
  BY DEF PoolInv
<1>2. \A u \in Threads : TaskOK(task'[u])
  BY <1>1 DEF PoolInv
<1>3. ASSUME NEW s \in Stages
      PROVE  /\ permits'[s] + Cardinality(Holders(s)') + Cardinality(Got(s)') = Budget[s]
             /\ queueDepth'[s] = Cardinality(Registered(s)') + lost'[s]
  <2>1. /\ permits[s] + Cardinality(Holders(s)) + Cardinality(Got(s)) = Budget[s]
        /\ queueDepth[s] = Cardinality(Registered(s)) + lost[s]
    BY DEF PoolInv, PermitsConserved, Got
  <2>2. /\ permits[s] \in Int /\ permits'[s] \in Int /\ queueDepth[s] \in Int
        /\ queueDepth'[s] \in Int /\ lost[s] \in Int /\ lost'[s] \in Int
    BY DEF PoolInv
  <2>3. /\ Use(r, s) \in Int /\ Use(task[t], s) \in Int
        /\ Waits(r, s) \in Int /\ Waits(task[t], s) \in Int
    BY DEF Use, Waits
  <2>4. /\ permits'[s] = permits[s] + Use(task[t], s) - Use(r, s)
        /\ queueDepth'[s] - lost'[s] = queueDepth[s] - lost[s] + Waits(r, s) - Waits(task[t], s)
    OBVIOUS
  <2> DEFINE h == Cardinality(Holders(s))  hh == Cardinality(Holders(s)')
             g == Cardinality(Got(s))  gg == Cardinality(Got(s)')
             w == Cardinality(Registered(s))  ww == Cardinality(Registered(s)')
  <2>5. /\ h \in Nat /\ hh \in Nat /\ g \in Nat /\ gg \in Nat /\ w \in Nat /\ ww \in Nat
        /\ hh + gg = h + g + Use(r, s) - Use(task[t], s)
        /\ ww = w + Waits(r, s) - Waits(task[t], s)
    BY <1>1, CountsMove
  <2>6. permits[s] + h + g = Budget[s] /\ queueDepth[s] = w + lost[s]
    BY <2>1
  <2>7. Budget[s] \in Int
    BY StageAssumption
  <2> HIDE DEF h, hh, g, gg, w, ww
  <2>8. permits'[s] + hh + gg = Budget[s]
    BY <2>2, <2>3, <2>4, <2>5, <2>6, <2>7
  <2>9. queueDepth'[s] = ww + lost'[s]
    BY <2>2, <2>3, <2>4, <2>5, <2>6
  <2> QED
    BY <2>8, <2>9 DEF hh, gg, ww
<1>4. PermitsConserved'
  BY <1>3 DEF PermitsConserved, Got
<1> QED
  BY <1>1, <1>2, <1>4 DEF PoolInv

\* The innermost lease ends, whatever the reason.
LEMMA TopLeaves ==
  ASSUME NEW held \in Seq(Stages), held # <<>>, Once(held)
  PROVE  /\ Head(held) \in Elements(held) /\ Head(held) \in Stages /\ Tail(held) \in Seq(Stages)
         /\ Once(Tail(held)) /\ Elements(Tail(held)) = Elements(held) \ {Head(held)}
<1> DEFINE rest == Tail(held)
<1>1. /\ 1 \in DOMAIN held /\ DOMAIN held = 1 .. Len(held) /\ Len(held) \in Nat \ {0}
      /\ Head(held) = held[1] /\ held[1] \in Stages
  OBVIOUS
<1>2. /\ rest \in Seq(Stages) /\ DOMAIN rest = 1 .. (Len(held) - 1)
      /\ \A a \in DOMAIN rest : a + 1 \in DOMAIN held /\ rest[a] = held[a + 1]
  BY <1>1
<1> HIDE DEF rest
<1>3. Once(rest)
  BY <1>1, <1>2 DEF Once
<1>4. ASSUME NEW a \in DOMAIN held, held[a] # held[1] PROVE held[a] \in Elements(rest)
  <2>1. a - 1 \in DOMAIN rest
    BY <1>1, <1>2, <1>4
  <2>2. rest[a - 1] = held[a]
    BY <1>1, <1>2, <2>1
  <2> QED
    BY <2>1, <2>2 DEF Elements
<1>5. ASSUME NEW a \in DOMAIN rest PROVE rest[a] \in Elements(held) \ {held[1]}
  <2>1. a + 1 # 1
    BY <1>2
  <2> QED
    BY <1>1, <1>2, <2>1 DEF Once, Elements
<1>6. Elements(rest) = Elements(held) \ {held[1]}
  BY <1>4, <1>5 DEF Elements
<1> QED
  BY <1>1, <1>2, <1>3, <1>6 DEF Elements, rest

\* What a thread at a bracket is known to be.
LEMMA ThreadFacts ==
  ASSUME PoolInv, NEW t \in Threads
  PROVE  /\ task[t] \in Tasks /\ TaskOK(task[t])
         /\ task[t].row \in Rows \cup {NoRow} /\ task[t].ip \in 1 .. End
         /\ task[t].held \in Seq(Stages) /\ task[t].registered \in BOOLEAN
         /\ task[t].phase \in {"off", "run", "got", "completed"}
         /\ task[t].leaving \in {"no", "failed", "cancelled"}
         /\ task[t].ip < End => /\ task[t].ip \in DOMAIN Program /\ Stage(t) \in Stages
                                /\ Program[task[t].ip] = <<Kind(t), Stage(t)>>
                                /\ task[t].ip + 1 \in 1 .. End
<1>1. task[t] \in Tasks /\ TaskOK(task[t])
  BY DEF PoolInv
<1>2. End \in Nat /\ End = Len(Program) + 1
  BY ProgramType DEF End
<1> QED
  BY <1>1, <1>2, ProgramType DEF Tasks, Stage, Kind

LEMMA PoolTypes ==
  ASSUME PoolInv
  PROVE  /\ permits \in [Stages -> Int] /\ queueDepth \in [Stages -> Int] /\ lost \in [Stages -> Int]
         /\ \A s \in Stages : permits[s] \in Int /\ queueDepth[s] \in Int /\ lost[s] \in Int
         /\ \A f \in [Stages -> Int], s \in Stages :
              /\ [f EXCEPT ![s] = @ + 1] \in [Stages -> Int]
              /\ [f EXCEPT ![s] = @ - 1] \in [Stages -> Int]
              /\ \A b \in BOOLEAN : [f EXCEPT ![s] = @ - IF b THEN 1 ELSE 0] \in [Stages -> Int]
BY DEF PoolInv

LEMMA BeginWaitKeeps ==
  ASSUME PoolInv, NEW t \in Threads, BeginWait(t) PROVE PoolInv'
<1> DEFINE r == [task[t] EXCEPT !.registered = TRUE]
<1>1. /\ task[t] \in Tasks /\ TaskOK(task[t]) /\ task[t].ip < End /\ Stage(t) \in Stages
  BY ThreadFacts DEF BeginWait, Entering
<1>2. /\ r \in Tasks /\ r.row = task[t].row /\ r.ip = task[t].ip /\ r.phase = task[t].phase
      /\ r.held = task[t].held /\ r.registered = TRUE /\ r.leaving = task[t].leaving
  BY <1>1 DEF Tasks
<1>3. task' = [task EXCEPT ![t] = r]
  BY DEF BeginWait
<1> HIDE DEF r
<1>4. TaskOK(r)
  BY <1>1, <1>2 DEF BeginWait, Entering, TaskOK, Kind
<1>5. /\ permits' \in [Stages -> Int] /\ queueDepth' \in [Stages -> Int] /\ lost' \in [Stages -> Int]
  BY <1>1, PoolTypes DEF BeginWait
<1>6. ASSUME NEW s \in Stages PROVE permits'[s] = permits[s] + Use(task[t], s) - Use(r, s)
  <2>1. Use(r, s) = Use(task[t], s) /\ Use(r, s) \in Int /\ permits[s] \in Int
    BY <1>2 DEF Use, PoolInv
  <2> QED
    BY <2>1 DEF BeginWait
<1>7. ASSUME NEW s \in Stages
      PROVE  queueDepth'[s] - lost'[s] =
               queueDepth[s] - lost[s] + Waits(r, s) - Waits(task[t], s)
  <2>1. queueDepth[s] \in Int /\ lost[s] \in Int /\ lost'[s] = lost[s]
    BY DEF PoolInv, BeginWait
  <2>2. Waits(task[t], s) = 0 /\ Waits(r, s) = IF Stage(t) = s THEN 1 ELSE 0
    BY <1>2 DEF Waits, BeginWait, Stage
  <2>3. queueDepth'[s] = queueDepth[s] + IF Stage(t) = s THEN 1 ELSE 0
    BY <1>1 DEF BeginWait, PoolInv
  <2> QED
    BY <2>1, <2>2, <2>3
<1> QED
  BY <1>2, <1>3, <1>4, <1>5, <1>6, <1>7, TaskStep

LEMMA CancelWaitKeeps ==
  ASSUME PoolInv, NEW t \in Threads, CancelWait(t) PROVE PoolInv'
<1> DEFINE r == [task[t] EXCEPT !.leaving = "cancelled", !.registered = FALSE]
<1>1. /\ task[t] \in Tasks /\ TaskOK(task[t]) /\ task[t].ip < End /\ Stage(t) \in Stages
      /\ task[t].phase = "run" /\ task[t].registered \in BOOLEAN
  BY ThreadFacts DEF CancelWait, Entering
<1>2. /\ r \in Tasks /\ r.row = task[t].row /\ r.ip = task[t].ip /\ r.phase = task[t].phase
      /\ r.held = task[t].held /\ r.registered = FALSE /\ r.leaving = "cancelled"
  BY <1>1 DEF Tasks
<1>3. task' = [task EXCEPT ![t] = r]
  BY DEF CancelWait
<1> HIDE DEF r
<1>4. TaskOK(r)
  BY <1>1, <1>2 DEF TaskOK
<1>5. /\ permits' \in [Stages -> Int] /\ queueDepth' \in [Stages -> Int] /\ lost' \in [Stages -> Int]
  BY <1>1, PoolTypes DEF CancelWait
<1>6. ASSUME NEW s \in Stages PROVE permits'[s] = permits[s] + Use(task[t], s) - Use(r, s)
  <2>1. Use(r, s) = Use(task[t], s) /\ Use(r, s) \in Int /\ permits[s] \in Int
    BY <1>2 DEF Use, PoolInv
  <2> QED
    BY <2>1 DEF CancelWait
<1>7. ASSUME NEW s \in Stages
      PROVE  queueDepth'[s] - lost'[s] =
               queueDepth[s] - lost[s] + Waits(r, s) - Waits(task[t], s)
  <2>1. queueDepth[s] \in Int /\ lost[s] \in Int /\ lost'[s] = lost[s]
    BY DEF PoolInv, CancelWait
  <2>2. /\ Waits(r, s) = 0
        /\ Waits(task[t], s) = IF task[t].registered /\ Stage(t) = s THEN 1 ELSE 0
    BY <1>2 DEF Waits, Stage
  <2>3. queueDepth'[s] = queueDepth[s] - IF task[t].registered /\ Stage(t) = s THEN 1 ELSE 0
    BY <1>1 DEF CancelWait, PoolInv
  <2> QED
    BY <2>1, <2>2, <2>3
<1> QED
  BY <1>2, <1>3, <1>4, <1>5, <1>6, <1>7, TaskStep

LEMMA TickFailsKeeps ==
  ASSUME PoolInv, NEW t \in Threads, TickFails(t) PROVE PoolInv'
<1> DEFINE r == [task[t] EXCEPT !.leaving = "failed", !.registered = FALSE]
<1>1. /\ task[t] \in Tasks /\ TaskOK(task[t]) /\ task[t].ip < End /\ Stage(t) \in Stages
      /\ task[t].phase = "run" /\ task[t].registered
  BY ThreadFacts DEF TickFails, Entering
<1>2. /\ r \in Tasks /\ r.row = task[t].row /\ r.ip = task[t].ip /\ r.phase = task[t].phase
      /\ r.held = task[t].held /\ r.registered = FALSE /\ r.leaving = "failed"
  BY <1>1 DEF Tasks
<1>3. task' = [task EXCEPT ![t] = r]
  BY DEF TickFails
<1> HIDE DEF r
<1>4. TaskOK(r)
  BY <1>1, <1>2 DEF TaskOK
<1>5. /\ permits' \in [Stages -> Int] /\ queueDepth' \in [Stages -> Int] /\ lost' \in [Stages -> Int]
  BY <1>1, PoolTypes DEF TickFails
<1>6. ASSUME NEW s \in Stages PROVE permits'[s] = permits[s] + Use(task[t], s) - Use(r, s)
  <2>1. Use(r, s) = Use(task[t], s) /\ Use(r, s) \in Int /\ permits[s] \in Int
    BY <1>2 DEF Use, PoolInv
  <2> QED
    BY <2>1 DEF TickFails
<1>7. ASSUME NEW s \in Stages
      PROVE  queueDepth'[s] - lost'[s] =
               queueDepth[s] - lost[s] + Waits(r, s) - Waits(task[t], s)
  <2>1. queueDepth[s] \in Int /\ lost[s] \in Int /\ queueDepth'[s] = queueDepth[s]
    BY DEF PoolInv, TickFails
  <2>2. Waits(r, s) = 0 /\ Waits(task[t], s) = IF Stage(t) = s THEN 1 ELSE 0
    BY <1>1, <1>2 DEF Waits, Stage
  <2>3. lost'[s] = lost[s] + IF Stage(t) = s THEN 1 ELSE 0
    BY <1>1 DEF TickFails, PoolInv
  <2> QED
    BY <2>1, <2>2, <2>3
<1> QED
  BY <1>2, <1>3, <1>4, <1>5, <1>6, <1>7, TaskStep

LEMMA AcquireKeeps ==
  ASSUME PoolInv, NEW t \in Threads, Acquire(t) PROVE PoolInv'
<1> DEFINE r == [task[t] EXCEPT !.phase = "got"]
<1>1. /\ task[t] \in Tasks /\ TaskOK(task[t]) /\ task[t].ip < End /\ Stage(t) \in Stages
      /\ task[t].phase = "run"
  BY ThreadFacts DEF Acquire, Entering
<1>2. /\ r \in Tasks /\ r.row = task[t].row /\ r.ip = task[t].ip /\ r.phase = "got"
      /\ r.held = task[t].held /\ r.registered = task[t].registered /\ r.leaving = task[t].leaving
  BY <1>1 DEF Tasks
<1>3. task' = [task EXCEPT ![t] = r]
  BY DEF Acquire
<1> HIDE DEF r
<1>4. TaskOK(r)
  BY <1>1, <1>2 DEF Acquire, Entering, TaskOK, Kind
<1>5. /\ permits' \in [Stages -> Int] /\ queueDepth' \in [Stages -> Int] /\ lost' \in [Stages -> Int]
  BY <1>1, PoolTypes DEF Acquire
<1>6. ASSUME NEW s \in Stages PROVE permits'[s] = permits[s] + Use(task[t], s) - Use(r, s)
  <2>1. /\ Use(r, s) = Use(task[t], s) + (IF Stage(t) = s THEN 1 ELSE 0)
        /\ Use(task[t], s) \in Int /\ permits[s] \in Int
    BY <1>1, <1>2 DEF Use, PoolInv, Stage
  <2>2. permits'[s] = permits[s] - (IF Stage(t) = s THEN 1 ELSE 0)
    BY <1>1 DEF Acquire, PoolInv
  <2> QED
    BY <2>1, <2>2
<1>7. ASSUME NEW s \in Stages
      PROVE  queueDepth'[s] - lost'[s] =
               queueDepth[s] - lost[s] + Waits(r, s) - Waits(task[t], s)
  <2>1. /\ queueDepth[s] \in Int /\ lost[s] \in Int /\ queueDepth'[s] = queueDepth[s]
        /\ lost'[s] = lost[s]
    BY DEF PoolInv, Acquire
  <2>2. Waits(r, s) = Waits(task[t], s) /\ Waits(r, s) \in Int
    BY <1>1, <1>2 DEF Waits
  <2> QED
    BY <2>1, <2>2
<1> QED
  BY <1>2, <1>3, <1>4, <1>5, <1>6, <1>7, TaskStep

LEMMA MarkStartedKeeps ==
  ASSUME PoolInv, NEW t \in Threads, MarkStarted(t) PROVE PoolInv'
<1> DEFINE held == task[t].held
           r == [task[t] EXCEPT !.phase = "run", !.registered = FALSE, !.ip = @ + 1,
                                !.held = <<Stage(t)>> \o @]
<1>1. /\ task[t] \in Tasks /\ TaskOK(task[t]) /\ task[t].phase = "got"
      /\ task[t].ip < End /\ Stage(t) \in Stages /\ task[t].leaving = "no" /\ held \in Seq(Stages)
      /\ task[t].ip \in DOMAIN Program /\ Program[task[t].ip] = <<"in", Stage(t)>>
      /\ Stack(held, task[t].ip) /\ task[t].ip + 1 \in 1 .. End /\ task[t].registered \in BOOLEAN
  BY ThreadFacts DEF MarkStarted, TaskOK, Kind
<1>2. <<Stage(t)>> \o held \in Seq(Stages)
  BY <1>1
<1>3. /\ r \in Tasks /\ r.row = task[t].row /\ r.ip = task[t].ip + 1 /\ r.phase = "run"
      /\ r.held = <<Stage(t)>> \o held /\ r.registered = FALSE /\ r.leaving = "no"
  BY <1>1, <1>2 DEF Tasks
<1>4. task' = [task EXCEPT ![t] = r]
  BY DEF MarkStarted
<1> HIDE DEF r, held
<1>5. Stack(r.held, r.ip)
  BY <1>1, <1>3, PushStack
<1>6. TaskOK(r)
  BY <1>3, <1>5 DEF TaskOK, Stack
<1>7. /\ permits' \in [Stages -> Int] /\ queueDepth' \in [Stages -> Int] /\ lost' \in [Stages -> Int]
  BY <1>1, PoolTypes DEF MarkStarted
<1>8. ASSUME NEW s \in Stages PROVE permits'[s] = permits[s] + Use(task[t], s) - Use(r, s)
  <2>1. /\ Stage(t) \notin Inside(task[t].ip)
        /\ Inside(task[t].ip + 1) = Inside(task[t].ip) \cup {Stage(t)}
    BY <1>1, InsideIn
  <2>2. /\ Stage(t) \notin Elements(task[t].held)
        /\ Elements(r.held) = Elements(task[t].held) \cup {Stage(t)}
    BY <1>1, <1>3, <1>5, <2>1 DEF Stack, held
  <2>3. Use(r, s) = Use(task[t], s) /\ Use(r, s) \in Int
    BY <1>1, <1>3, <2>2 DEF Use, Stage
  <2>4. permits'[s] = permits[s] /\ permits[s] \in Int
    BY DEF MarkStarted, PoolInv
  <2> QED
    BY <2>3, <2>4
<1>9. ASSUME NEW s \in Stages
      PROVE  queueDepth'[s] - lost'[s] =
               queueDepth[s] - lost[s] + Waits(r, s) - Waits(task[t], s)
  <2>1. queueDepth[s] \in Int /\ lost[s] \in Int /\ lost'[s] = lost[s]
    BY DEF PoolInv, MarkStarted
  <2>2. /\ Waits(r, s) = 0
        /\ Waits(task[t], s) = IF task[t].registered /\ Stage(t) = s THEN 1 ELSE 0
    BY <1>3 DEF Waits, Stage
  <2>3. queueDepth'[s] = queueDepth[s] - IF task[t].registered /\ Stage(t) = s THEN 1 ELSE 0
    BY <1>1 DEF MarkStarted, PoolInv
  <2> QED
    BY <2>1, <2>2, <2>3
<1> QED
  BY <1>3, <1>4, <1>6, <1>7, <1>8, <1>9, TaskStep

LEMMA MarkCompletedKeeps ==
  ASSUME PoolInv, NEW t \in Threads, MarkCompleted(t) PROVE PoolInv'
<1> DEFINE r == [task[t] EXCEPT !.phase = "completed"]
<1>1. task[t] \in Tasks /\ TaskOK(task[t]) /\ task[t].phase = "run" /\ task[t].held # <<>>
  BY ThreadFacts DEF MarkCompleted, LeavingLease
<1>2. ~ task[t].registered
  BY <1>1 DEF MarkCompleted, LeavingLease, TaskOK, Kind
<1>3. /\ r \in Tasks /\ r.row = task[t].row /\ r.ip = task[t].ip /\ r.phase = "completed"
      /\ r.held = task[t].held /\ r.registered = task[t].registered /\ r.leaving = task[t].leaving
  BY <1>1 DEF Tasks
<1>4. task' = [task EXCEPT ![t] = r]
  BY DEF MarkCompleted
<1> HIDE DEF r
<1>5. TaskOK(r)
  BY <1>1, <1>2, <1>3 DEF MarkCompleted, LeavingLease, TaskOK, Kind
<1>6. /\ permits' \in [Stages -> Int] /\ queueDepth' \in [Stages -> Int] /\ lost' \in [Stages -> Int]
      /\ permits' = permits /\ queueDepth' = queueDepth /\ lost' = lost
  BY PoolTypes DEF MarkCompleted
<1>7. ASSUME NEW s \in Stages
      PROVE  /\ permits'[s] = permits[s] + Use(task[t], s) - Use(r, s)
             /\ queueDepth'[s] - lost'[s] =
                  queueDepth[s] - lost[s] + Waits(r, s) - Waits(task[t], s)
  <2>1. /\ Use(r, s) = Use(task[t], s) /\ Use(r, s) \in Int
        /\ Waits(r, s) = Waits(task[t], s) /\ Waits(r, s) \in Int
    BY <1>1, <1>3 DEF Use, Waits
  <2>2. permits[s] \in Int /\ queueDepth[s] \in Int /\ lost[s] \in Int
    BY DEF PoolInv
  <2> QED
    BY <1>6, <2>1, <2>2
<1> QED
  BY <1>3, <1>4, <1>5, <1>6, <1>7, TaskStep

LEMMA ReleaseKeeps ==
  ASSUME PoolInv, NEW t \in Threads, Release(t) PROVE PoolInv'
<1> DEFINE held == task[t].held
           r == [task[t] EXCEPT !.phase = "run", !.held = Tail(@),
                                !.ip = @ + IF task[t].leaving = "no" THEN 1 ELSE 0]
<1>1. /\ task[t] \in Tasks /\ TaskOK(task[t]) /\ task[t].phase = "completed" /\ held # <<>>
      /\ held \in Seq(Stages) /\ Once(held) /\ ~ task[t].registered /\ task[t].ip \in 1 .. End
      /\ task[t].leaving = "no" =>
           /\ task[t].ip \in DOMAIN Program /\ Program[task[t].ip] = <<"out", Stage(t)>>
           /\ Stage(t) \in Stages /\ Stack(held, task[t].ip) /\ task[t].ip + 1 \in 1 .. End
  BY ThreadFacts DEF Release, TaskOK, Kind
<1>2. /\ Head(held) \in Elements(held) /\ Head(held) \in Stages /\ Tail(held) \in Seq(Stages)
      /\ Once(Tail(held)) /\ Elements(Tail(held)) = Elements(held) \ {Head(held)}
  BY <1>1, TopLeaves
<1> DEFINE ip == task[t].ip + (IF task[t].leaving = "no" THEN 1 ELSE 0)
<1>0. ip \in 1 .. End
  BY <1>1
<1>3. /\ r \in Tasks /\ r.row = task[t].row /\ r.phase = "run" /\ r.held = Tail(held)
      /\ r.ip = task[t].ip + (IF task[t].leaving = "no" THEN 1 ELSE 0)
      /\ r.registered = task[t].registered /\ r.leaving = task[t].leaving
  BY <1>0, <1>1, <1>2 DEF Tasks
<1>4. task' = [task EXCEPT ![t] = r]
  BY DEF Release
<1> HIDE DEF r, held
<1>5. r.leaving = "no" => Stack(r.held, r.ip)
  BY <1>1, <1>3, PopStack
<1>6. TaskOK(r)
  BY <1>1, <1>2, <1>3, <1>5 DEF TaskOK
<1>7. /\ permits' \in [Stages -> Int] /\ queueDepth' \in [Stages -> Int] /\ lost' \in [Stages -> Int]
      /\ queueDepth' = queueDepth /\ lost' = lost
  BY <1>2, PoolTypes DEF Release, held
<1>8. ASSUME NEW s \in Stages PROVE permits'[s] = permits[s] + Use(task[t], s) - Use(r, s)
  <2>1. permits'[s] = permits[s] + (IF Head(held) = s THEN 1 ELSE 0) /\ permits[s] \in Int
    BY <1>2 DEF Release, PoolInv, held
  <2>2. Use(r, s) = Use(task[t], s) - (IF Head(held) = s THEN 1 ELSE 0) /\ Use(task[t], s) \in Int
    BY <1>1, <1>2, <1>3 DEF Use, held
  <2> QED
    BY <2>1, <2>2
<1>9. ASSUME NEW s \in Stages
      PROVE  queueDepth'[s] - lost'[s] =
               queueDepth[s] - lost[s] + Waits(r, s) - Waits(task[t], s)
  <2>1. queueDepth[s] \in Int /\ lost[s] \in Int
    BY DEF PoolInv
  <2>2. Waits(r, s) = 0 /\ Waits(task[t], s) = 0
    BY <1>1, <1>3 DEF Waits
  <2> QED
    BY <1>7, <2>1, <2>2
<1> QED
  BY <1>3, <1>4, <1>6, <1>7, <1>8, <1>9, TaskStep

LEMMA LeaseKeeps ==
  ASSUME PoolInv, NEW t \in Threads, LeaseStep(t) PROVE PoolInv'
BY BeginWaitKeeps, CancelWaitKeeps, TickFailsKeeps, AcquireKeeps, MarkStartedKeeps,
   MarkCompletedKeeps, ReleaseKeeps DEF LeaseStep, LeaseGoesOn

-----------------------------------------------------------------------------
(* The row loop. *)

Mains == [pc : {"row", "sources", "drain", "ready", "select", "inline", "final", "cleanup",
                "cancel", "join", "finished"},
          next : 1 .. (NRows + 1), cur : Rows \cup {NoRow},
          back : {"row", "sources", "ready", "final"}, raised : BOOLEAN]

\* What the main thread has at hand where it is: the row it works on, one it took
\* out of the deque, and after a stop the one it left there.
Placed(m, halt) ==
  /\ m.pc \in {"sources", "select"} => m.next \in Rows
  /\ m.pc = "drain" /\ m.back = "sources" => m.next \in Rows
  /\ m.pc \in {"select", "inline", "drain"} => ~halt
  /\ m.pc \in {"inline", "drain"} => m.cur \in Rows
  /\ m.cur # NoRow => halt \/ m.pc \in {"drain", "inline", "cleanup", "cancel", "join", "finished"}

\* Its own task goes on only where it selects sites or prepares a row itself.
MainOK ==
  /\ Placed(main, stop)
  /\ main.pc \notin {"select", "inline"} => ~Working(Main)
  /\ AtSelection(Main) => ~task[Main].registered

\* A running future has its thread, and the end of the run waits for both.
FutureOK ==
  /\ \A r \in Rows : future[r] = "running" => \E w \in Workers : Working(w) /\ task[w].row = r
  /\ main.pc \in {"join", "finished"} => \A r \in Rows : future[r] # "queued"
  /\ main.pc = "finished" => \A w \in Workers : ~Working(w)

LoopInv == TypeOK /\ PoolInv /\ RowsAccounted /\ MainOK /\ FutureOK

LEMMA EmptyStack ==
  ASSUME NEW held \in Seq(Stages), NEW i, Inside(i) = {}
  PROVE  /\ Stack(held, i) => held = <<>>
         /\ Stack(<<>>, i)
<1>1. ASSUME Stack(held, i), held # <<>> PROVE FALSE
  <2>1. 1 \in DOMAIN held
    BY <1>1
  <2> QED
    BY <1>1, <2>1 DEF Stack, Elements
<1>2. Stack(<<>>, i)
  <2>1. DOMAIN <<>> = {}
    OBVIOUS
  <2> QED
    BY <2>1 DEF Stack, Once, Elements
<1> QED
  BY <1>1, <1>2

\* A thread without leases and without a place in a queue.
LEMMA FreshTask ==
  ASSUME NEW r, r \in Tasks, r.held = <<>>, ~r.registered, r.leaving = "no",
         r.phase \in {"off", "run"}, Inside(r.ip) = {}
  PROVE  TaskOK(r) /\ \A s \in Stages : Use(r, s) = 0 /\ Waits(r, s) = 0
<1>1. DOMAIN <<>> = {}
  OBVIOUS
<1>2. Once(r.held) /\ Elements(r.held) = {}
  BY <1>1 DEF Once, Elements
<1>3. Stack(r.held, r.ip)
  BY EmptyStack DEF Tasks
<1>4. TaskOK(r)
  BY <1>2, <1>3 DEF TaskOK
<1>5. \A s \in Stages : Use(r, s) = 0 /\ Waits(r, s) = 0
  BY <1>2 DEF Use, Waits
<1> QED
  BY <1>4, <1>5

\* A thread may change while its leases stay.
LEMMA PoolQuiet ==
  ASSUME PoolInv, NEW t \in Threads, NEW r \in Tasks, TaskOK(r), task' = [task EXCEPT ![t] = r],
         permits' = permits, queueDepth' = queueDepth, lost' = lost,
         \A s \in Stages : Use(r, s) = Use(task[t], s) /\ Waits(r, s) = Waits(task[t], s)
  PROVE  PoolInv'
<1>1. ASSUME NEW s \in Stages
      PROVE  /\ permits'[s] = permits[s] + Use(task[t], s) - Use(r, s)
             /\ queueDepth'[s] - lost'[s] =
                  queueDepth[s] - lost[s] + Waits(r, s) - Waits(task[t], s)
  <2>1. permits[s] \in Int /\ queueDepth[s] \in Int /\ lost[s] \in Int
    BY PoolTypes
  <2>2. Use(r, s) \in Int /\ Waits(r, s) \in Int
    BY DEF Use, Waits
  <2> QED
    BY <2>1, <2>2
<1> QED
  BY <1>1, PoolTypes, TaskStep

\* A thread that is off, or has left its last lease, counts for nothing.
LEMMA NothingHeld ==
  ASSUME PoolInv, NEW t \in Threads, ~Working(t) \/ Ended(t)
  PROVE  \A s \in Stages : Use(task[t], s) = 0 /\ Waits(task[t], s) = 0
<1>1. task[t].held = <<>> /\ ~task[t].registered /\ task[t].phase # "got"
  BY ThreadFacts DEF Working, Ended, TaskOK
<1>2. Elements(task[t].held) = {}
  <2>1. DOMAIN <<>> = {}
    OBVIOUS
  <2> QED
    BY <1>1, <2>1 DEF Elements
<1> QED
  BY <1>1, <1>2 DEF Use, Waits

LEMMA IdleTask == Idle \in Tasks /\ TaskOK(Idle) /\ \A s \in Stages : Use(Idle, s) = 0 /\ Waits(Idle, s) = 0
<1>1. 1 \in 1 .. End
  BY ProgramType DEF End
<1>2. <<>> \in Seq(Stages)
  OBVIOUS
<1>3. Idle \in Tasks
  BY <1>1, <1>2 DEF Idle, Tasks, NoRow
<1>4. Inside(Idle.ip) = {} /\ Idle.held = <<>> /\ ~Idle.registered /\ Idle.leaving = "no" /\ Idle.phase = "off"
  BY InsideStart DEF Idle
<1> QED
  BY <1>3, <1>4, FreshTask

\* A thread begins a row at the start of the program or where deep parse begins.
LEMMA BegunTask ==
  ASSUME NEW row \in Rows, NEW from \in {1, DeepParseFrom}
  PROVE  LET r == [Idle EXCEPT !.row = row, !.phase = "run", !.ip = from]
         IN  /\ r \in Tasks /\ TaskOK(r) /\ \A s \in Stages : Use(r, s) = 0 /\ Waits(r, s) = 0
             /\ r.row = row /\ r.phase = "run" /\ ~r.registered /\ r.ip = from
<1> DEFINE r == [Idle EXCEPT !.row = row, !.phase = "run", !.ip = from]
<1>1. from \in 1 .. End
  BY ProgramType, PrefetchAssumption DEF End
<1>2. <<>> \in Seq(Stages)
  OBVIOUS
<1>3. Idle.held = <<>> /\ ~Idle.registered /\ Idle.leaving = "no"
  BY DEF Idle
<1>4. /\ r \in Tasks /\ r.row = row /\ r.ip = from /\ r.phase = "run" /\ r.held = <<>>
      /\ ~r.registered /\ r.leaving = "no"
  BY <1>1, <1>2, <1>3, IdleTask DEF Tasks
<1>5. Inside(from) = {}
  BY InsideStart, PrefetchAssumption
<1> HIDE DEF r
<1>6. TaskOK(r) /\ \A s \in Stages : Use(r, s) = 0 /\ Waits(r, s) = 0
  BY <1>4, <1>5, FreshTask
<1> QED
  BY <1>4, <1>6 DEF r

LEMMA StartedTask ==
  ASSUME NEW row \in Rows
  PROVE  LET r == [Idle EXCEPT !.row = row, !.phase = "run"]
         IN  /\ r \in Tasks /\ TaskOK(r) /\ \A s \in Stages : Use(r, s) = 0 /\ Waits(r, s) = 0
             /\ r.row = row /\ r.phase = "run" /\ ~r.registered
<1> DEFINE r == [Idle EXCEPT !.row = row, !.phase = "run"]
<1>1. Idle.ip = 1 /\ Idle.held = <<>> /\ ~Idle.registered /\ Idle.leaving = "no"
  BY DEF Idle
<1>2. /\ r \in Tasks /\ r.row = row /\ r.ip = 1 /\ r.phase = "run" /\ r.held = <<>>
      /\ ~r.registered /\ r.leaving = "no"
  BY <1>1, IdleTask DEF Tasks
<1> HIDE DEF r
<1>3. TaskOK(r) /\ \A s \in Stages : Use(r, s) = 0 /\ Waits(r, s) = 0
  BY <1>2, InsideStart, FreshTask
<1> QED
  BY <1>2, <1>3 DEF r

\* Between two rows a thread may take or end a row.
LEMMA TaskReplaced ==
  ASSUME PoolInv, NEW t \in Threads, ~Working(t) \/ Ended(t), NEW r \in Tasks, TaskOK(r),
         \A s \in Stages : Use(r, s) = 0 /\ Waits(r, s) = 0, task' = [task EXCEPT ![t] = r],
         permits' = permits, queueDepth' = queueDepth, lost' = lost
  PROVE  PoolInv'
BY NothingHeld, PoolQuiet

\* What a step of a lease leaves of its thread.
LEMMA LeaseShape ==
  ASSUME PoolInv, NEW t \in Threads, LeaseStep(t)
  PROVE  /\ Working(t) /\ \A u \in Threads \ {t} : task'[u] = task[u]
         /\ \A u \in Threads : task'[u].row = task[u].row /\ (Working(u)' <=> Working(u))
         /\ task'[t].ip = task[t].ip \/ ~task'[t].registered
<1>1. task \in [Threads -> Tasks] /\ task[t] \in Tasks /\ TaskOK(task[t])
  BY ThreadFacts DEF PoolInv
<1>2. CASE BeginWait(t)
  BY <1>1, <1>2 DEF BeginWait, Entering, Tasks, Working
<1>3. CASE CancelWait(t)
  BY <1>1, <1>3 DEF CancelWait, Entering, Tasks, Working
<1>4. CASE TickFails(t)
  BY <1>1, <1>4 DEF TickFails, Entering, Tasks, Working
<1>5. CASE Acquire(t)
  BY <1>1, <1>5 DEF Acquire, Entering, Tasks, Working
<1>6. CASE MarkStarted(t)
  BY <1>1, <1>6 DEF MarkStarted, Tasks, Working
<1>7. CASE MarkCompleted(t)
  BY <1>1, <1>7 DEF MarkCompleted, LeavingLease, Tasks, Working
<1>8. CASE Release(t)
  <2>1. ~task[t].registered
    BY <1>1, <1>8 DEF Release, TaskOK
  <2> QED
    BY <1>1, <1>8, <2>1 DEF Release, Tasks, Working
<1> QED
  BY <1>2, <1>3, <1>4, <1>5, <1>6, <1>7, <1>8 DEF LeaseStep, LeaseGoesOn

LEMMA NoDeepParseKeeps ==
  ASSUME PoolInv, NEW t \in Threads, NoDeepParse(t) PROVE PoolInv'
<1> DEFINE r == [task[t] EXCEPT !.ip = End]
<1>1. /\ task[t] \in Tasks /\ TaskOK(task[t]) /\ task[t].phase = "run" /\ task[t].leaving = "no"
      /\ task[t].held \in Seq(Stages) /\ ~task[t].registered /\ task[t].ip = DeepParseFrom
  BY ThreadFacts DEF NoDeepParse, Entering
<1>2. End \in 1 .. End /\ Inside(End) = {} /\ Inside(DeepParseFrom) = {}
  BY ProgramType, StageAssumption, PrefetchAssumption DEF End
<1>3. task[t].held = <<>>
  BY <1>1, <1>2, EmptyStack DEF TaskOK
<1>4. /\ r \in Tasks /\ r.ip = End /\ r.phase = "run" /\ r.held = <<>>
      /\ ~r.registered /\ r.leaving = "no"
  BY <1>1, <1>2, <1>3 DEF Tasks
<1>5. task' = [task EXCEPT ![t] = r] /\ permits' = permits /\ queueDepth' = queueDepth /\ lost' = lost
  BY DEF NoDeepParse
<1> HIDE DEF r
<1>6. TaskOK(r)
  BY <1>2, <1>4, FreshTask
<1>7. \A s \in Stages : Use(r, s) = Use(task[t], s) /\ Waits(r, s) = Waits(task[t], s)
  BY <1>1, <1>3, <1>4 DEF Use, Waits
<1> QED
  BY <1>4, <1>5, <1>6, <1>7, PoolQuiet

LEMMA NoOcrKeeps ==
  ASSUME PoolInv, NEW t \in Threads, NoOcr(t) PROVE PoolInv'
<1> DEFINE held == task[t].held  ip == task[t].ip  r == [task[t] EXCEPT !.ip = @ + 2]
<1>1. /\ task[t] \in Tasks /\ TaskOK(task[t]) /\ task[t].phase = "run" /\ task[t].leaving = "no"
      /\ held \in Seq(Stages) /\ ~task[t].registered /\ ip \in DOMAIN Program /\ "ocr" \in Stages
      /\ Program[ip] = <<"in", "ocr">> /\ Stack(held, ip)
  BY ThreadFacts DEF NoOcr, Entering, TaskOK
<1>2. ip + 1 \in DOMAIN Program /\ Program[ip + 1] = <<"out", "ocr">> /\ ip \in Nat
  BY <1>1, ProgramType, PrefetchAssumption
<1>3. ip + 2 \in 1 .. End /\ ip + 1 + 1 = ip + 2
  BY <1>2, ProgramType DEF End
<1>4. /\ <<"ocr">> \o held \in Seq(Stages) /\ Stack(<<"ocr">> \o held, ip + 1)
      /\ Tail(<<"ocr">> \o held) = held
  <2>1. <<"ocr">> \o held \in Seq(Stages) /\ Tail(<<"ocr">> \o held) = held
    BY <1>1
  <2> QED
    BY <1>1, <2>1, PushStack
<1>5. Stack(held, ip + 1 + 1)
  BY <1>1, <1>2, <1>4, PopStack
<1>6. /\ r \in Tasks /\ r.ip = ip + 2 /\ r.phase = "run" /\ r.held = held
      /\ ~r.registered /\ r.leaving = "no"
  BY <1>1, <1>3 DEF Tasks
<1>7. task' = [task EXCEPT ![t] = r] /\ permits' = permits /\ queueDepth' = queueDepth /\ lost' = lost
  BY DEF NoOcr
<1>8. Stack(held, ip + 2)
  BY <1>3, <1>5
<1> HIDE DEF r
<1>9. TaskOK(r)
  BY <1>6, <1>8 DEF TaskOK, Stack
<1>10. \A s \in Stages : Use(r, s) = Use(task[t], s) /\ Waits(r, s) = Waits(task[t], s)
  BY <1>1, <1>6 DEF Use, Waits
<1> QED
  BY <1>6, <1>7, <1>9, <1>10, PoolQuiet

LEMMA StageFailsKeeps ==
  ASSUME PoolInv, NEW t \in Threads, StageFails(t) PROVE PoolInv'
<1> DEFINE r == [task[t] EXCEPT !.leaving = "failed"]
<1>1. /\ task[t] \in Tasks /\ TaskOK(task[t]) /\ task[t].phase = "run" /\ ~task[t].registered
  BY ThreadFacts DEF StageFails
<1>2. /\ r \in Tasks /\ r.ip = task[t].ip /\ r.phase = "run" /\ r.held = task[t].held
      /\ ~r.registered /\ r.leaving = "failed"
  BY <1>1 DEF Tasks
<1>3. task' = [task EXCEPT ![t] = r] /\ permits' = permits /\ queueDepth' = queueDepth /\ lost' = lost
  BY DEF StageFails
<1> HIDE DEF r
<1>4. TaskOK(r)
  BY <1>1, <1>2 DEF TaskOK
<1>5. \A s \in Stages : Use(r, s) = Use(task[t], s) /\ Waits(r, s) = Waits(task[t], s)
  BY <1>1, <1>2 DEF Use, Waits
<1> QED
  BY <1>2, <1>3, <1>4, <1>5, PoolQuiet

-----------------------------------------------------------------------------
(* The rows in the deque. *)

Increasing(rows) == \A i, j \in DOMAIN rows : i < j => rows[i] < rows[j]

LEMMA RowNumbers == Rows \subseteq Nat /\ NoRow \notin Rows
BY PrefetchAssumption DEF Rows, NoRow

\* One of them is taken out of its place.
LEMMA TakenOut ==
  ASSUME NEW rows \in Seq(Rows), Increasing(rows), NEW i \in DOMAIN rows, NEW rest \in Seq(Rows),
         Len(rest) = Len(rows) - 1,
         \A j \in DOMAIN rest : rest[j] = IF j < i THEN rows[j] ELSE rows[j + 1]
  PROVE  Increasing(rest) /\ Elements(rest) = Elements(rows) \ {rows[i]}
<1>1. /\ DOMAIN rows = 1 .. Len(rows) /\ DOMAIN rest = 1 .. (Len(rows) - 1) /\ Len(rows) \in Nat
      /\ \A j \in DOMAIN rows : rows[j] \in Nat
  <2>1. DOMAIN rows = 1 .. Len(rows) /\ \A j \in DOMAIN rows : rows[j] \in Rows
    OBVIOUS
  <2>2. DOMAIN rest = 1 .. Len(rest) /\ Len(rows) \in Nat
    OBVIOUS
  <2> QED
    BY <2>1, <2>2, RowNumbers
<1>2. Increasing(rest)
  <2> SUFFICES ASSUME NEW j \in DOMAIN rest, NEW k \in DOMAIN rest, j < k PROVE rest[j] < rest[k]
    BY DEF Increasing
  <2>1. /\ j \in DOMAIN rows /\ j + 1 \in DOMAIN rows /\ k \in DOMAIN rows /\ k + 1 \in DOMAIN rows
        /\ j < k + 1 /\ j + 1 < k + 1
    BY <1>1
  <2>2. rows[j] < rows[k] /\ rows[j] < rows[k + 1] /\ rows[j + 1] < rows[k + 1]
    BY <2>1 DEF Increasing
  <2> QED
    BY <1>1, <2>1, <2>2
<1>3. ASSUME NEW j \in DOMAIN rest PROVE rest[j] \in Elements(rows) \ {rows[i]}
  <2>1. PICK k \in DOMAIN rows : rest[j] = rows[k] /\ k # i
    BY <1>1
  <2>2. rows[k] # rows[i]
    BY <1>1, <2>1 DEF Increasing
  <2> QED
    BY <2>1, <2>2 DEF Elements
<1>4. ASSUME NEW j \in DOMAIN rows, rows[j] # rows[i] PROVE rows[j] \in Elements(rest)
  <2>1. CASE j < i
    <3>1. j \in DOMAIN rest /\ rest[j] = rows[j]
      BY <1>1, <2>1
    <3> QED
      BY <3>1 DEF Elements
  <2>2. CASE j > i
    <3>1. j - 1 \in DOMAIN rest /\ ~(j - 1 < i) /\ j - 1 + 1 = j
      BY <1>1, <2>2
    <3>2. rest[j - 1] = rows[j]
      BY <3>1
    <3> QED
      BY <3>1, <3>2 DEF Elements
  <2> QED
    BY <1>1, <1>4, <2>1, <2>2
<1>5. Elements(rest) = Elements(rows) \ {rows[i]}
  BY <1>3, <1>4 DEF Elements
<1> QED
  BY <1>2, <1>5

LEMMA WithoutRow ==
  ASSUME NEW rows \in Seq(Rows), Increasing(rows), NEW i \in DOMAIN rows
  PROVE  /\ Without(rows, i) \in Seq(Rows) /\ Increasing(Without(rows, i))
         /\ Elements(Without(rows, i)) = Elements(rows) \ {rows[i]}
<1> DEFINE front == SubSeq(rows, 1, i - 1)  back == SubSeq(rows, i + 1, Len(rows))
           rest == front \o back
<1>1. i \in 1 .. Len(rows) /\ Len(rows) \in Nat
  OBVIOUS
<1>2. /\ front \in Seq(Rows) /\ Len(front) = i - 1
      /\ \A j \in 1 .. (i - 1) : front[j] = rows[j]
  BY <1>1, SubSeqProperties
<1>3. /\ back \in Seq(Rows) /\ Len(back) = Len(rows) - i
      /\ \A j \in 1 .. (Len(rows) - i) : back[j] = rows[j + i]
  <2>1. \A j \in 1 .. (Len(rows) - i) : i + 1 + j - 1 = j + i
    BY <1>1
  <2> QED
    BY <1>1, <2>1, SubSeqProperties
<1> HIDE DEF front, back
<1>4. rest \in Seq(Rows) /\ Len(rest) = Len(rows) - 1
  BY <1>1, <1>2, <1>3
<1>5. ASSUME NEW j \in DOMAIN rest PROVE rest[j] = IF j < i THEN rows[j] ELSE rows[j + 1]
  <2>1. j \in 1 .. (Len(rows) - 1)
    BY <1>1, <1>4
  <2>2. CASE j < i
    BY <1>1, <1>2, <1>3, <2>1, <2>2
  <2>3. CASE ~(j < i)
    <3>1. j - (i - 1) \in 1 .. (Len(rows) - i) /\ j - (i - 1) + i = j + 1
      BY <1>1, <2>1, <2>3
    <3>2. rest[j] = back[j - (i - 1)]
      BY <1>1, <1>2, <1>3, <2>1, <2>3
    <3>3. back[j - (i - 1)] = rows[j - (i - 1) + i]
      BY <1>3, <3>1
    <3> QED
      BY <2>3, <3>1, <3>2, <3>3
  <2> QED
    BY <2>2, <2>3
<1> HIDE DEF rest
<1>6. Increasing(rest) /\ Elements(rest) = Elements(rows) \ {rows[i]}
  BY <1>4, <1>5, TakenOut
<1> QED
  BY <1>4, <1>6 DEF Without, rest, front, back

LEMMA FirstRow ==
  ASSUME NEW rows \in Seq(Rows), Increasing(rows), rows # <<>>
  PROVE  /\ Head(rows) \in Elements(rows) /\ Head(rows) \in Rows /\ Tail(rows) \in Seq(Rows)
         /\ Increasing(Tail(rows)) /\ Elements(Tail(rows)) = Elements(rows) \ {Head(rows)}
<1> DEFINE rest == Tail(rows)
<1>1. /\ 1 \in DOMAIN rows /\ DOMAIN rows = 1 .. Len(rows) /\ Len(rows) \in Nat \ {0}
      /\ Head(rows) = rows[1] /\ rows[1] \in Rows
  OBVIOUS
<1>2. rest \in Seq(Rows) /\ Len(rest) = Len(rows) - 1 /\ \A j \in DOMAIN rest : rest[j] = rows[j + 1]
  BY <1>1
<1> HIDE DEF rest
<1>3. \A j \in DOMAIN rest : rest[j] = IF j < 1 THEN rows[j] ELSE rows[j + 1]
  BY <1>2
<1>4. Increasing(rest) /\ Elements(rest) = Elements(rows) \ {rows[1]}
  BY <1>1, <1>2, <1>3, TakenOut
<1> QED
  BY <1>1, <1>2, <1>4 DEF rest, Elements

\* A later row comes to the end.
LEMMA LaterRow ==
  ASSUME NEW rows \in Seq(Rows), Increasing(rows), NEW n \in Rows, \A r \in Elements(rows) : r < n
  PROVE  /\ Append(rows, n) \in Seq(Rows) /\ Append(rows, n) # <<>>
         /\ Increasing(Append(rows, n)) /\ Elements(Append(rows, n)) = Elements(rows) \cup {n}
<1> DEFINE more == Append(rows, n)
<1>1. /\ more \in Seq(Rows) /\ Len(more) = Len(rows) + 1 /\ Len(rows) \in Nat
      /\ DOMAIN more = 1 .. (Len(rows) + 1) /\ DOMAIN rows = 1 .. Len(rows)
      /\ more[Len(rows) + 1] = n /\ \A j \in DOMAIN rows : more[j] = rows[j]
  OBVIOUS
<1> HIDE DEF more
<1>2. \A j \in DOMAIN more : j \in DOMAIN rows \/ j = Len(rows) + 1
  BY <1>1
<1>3. Increasing(more)
  <2> SUFFICES ASSUME NEW i \in DOMAIN more, NEW j \in DOMAIN more, i < j PROVE more[i] < more[j]
    BY DEF Increasing
  <2>1. i \in DOMAIN rows
    BY <1>1, <1>2
  <2>2. more[i] \in Elements(rows) /\ more[i] = rows[i]
    BY <1>1, <2>1 DEF Elements
  <2> QED
    BY <1>1, <1>2, <2>1, <2>2 DEF Increasing
<1>4. Elements(more) = Elements(rows) \cup {n}
  <2>1. \A j \in DOMAIN rows : j \in DOMAIN more /\ more[j] = rows[j]
    BY <1>1
  <2>2. Len(rows) + 1 \in DOMAIN more
    BY <1>1
  <2> QED
    BY <1>1, <1>2, <2>1, <2>2 DEF Elements
<1>5. more # <<>>
  BY <1>1
<1> QED
  BY <1>1, <1>3, <1>4, <1>5 DEF more

\* The first row that is ready.
LEMMA FirstIsReady == ASSUME ReadyAt # {}, pending \in Seq(Rows) PROVE FirstReady \in DOMAIN pending
<1>1. ReadyAt \in SUBSET Nat /\ ReadyAt \subseteq DOMAIN pending
  BY DEF ReadyAt
<1>2. \E k \in ReadyAt : \A j \in ReadyAt : k <= j
  <2> DEFINE S == ReadyAt
  <2>1. IsWellFoundedOn(OpToRel(<, Nat), Nat)
    BY NatLessThanWellFounded
  <2> HIDE DEF S
  <2>2. PICK k \in S : \A j \in S : ~ (<<j, k>> \in OpToRel(<, Nat))
    BY <1>1, <2>1, WFMin DEF S
  <2>3. ASSUME NEW j \in S PROVE k <= j
    <3>1. ~ (j < k)
      BY <1>1, <2>2 DEF OpToRel, S
    <3> QED
      BY <1>1, <3>1 DEF S
  <2> QED
    BY <2>3 DEF S
<1> QED
  BY <1>1, <1>2 DEF FirstReady

\* The account of rows p in the deque, d stored, c in hand, x dropped, before row n.
Accounted(p, d, c, n, x) ==
  /\ Increasing(p) /\ Cardinality(Elements(d)) = Len(d)
  /\ Elements(p) \cap Elements(d) = {} /\ x \cap (Elements(p) \cup Elements(d)) = {}
  /\ c \notin Elements(p) \cup Elements(d) \cup x
  /\ (Elements(p) \cup Elements(d) \cup {c} \cup x) \ {NoRow} = 1 .. (n - 1)

LEMMA Account ==
  /\ RowsAccounted <=> Accounted(pending, drained, main.cur, main.next, dropped)
  /\ RowsAccounted' <=> Accounted(pending', drained', main'.cur, main'.next, dropped')
<1>1. Elements(pending) = InPending /\ Elements(drained) = Stored
  BY DEF Elements, InPending, Stored
<1>2. Elements(pending') = InPending' /\ Elements(drained') = Stored'
  BY DEF Elements, InPending, Stored
<1>3. RowsAccounted <=> Accounted(pending, drained, main.cur, main.next, dropped)
  BY <1>1 DEF RowsAccounted, Increasing, Accounted
<1>4. RowsAccounted' <=> Accounted(pending', drained', main'.cur, main'.next, dropped')
  BY <1>2 DEF RowsAccounted, Increasing, Accounted
<1> QED
  BY <1>3, <1>4

LEMMA TakeRow ==
  ASSUME NEW p \in Seq(Rows), NEW d, NEW n, NEW x, Accounted(p, d, NoRow, n, x),
         NEW i \in DOMAIN p
  PROVE  Accounted(Without(p, i), d, p[i], n, x) /\ Without(p, i) \in Seq(Rows) /\ p[i] \in Rows
<1>1. /\ Without(p, i) \in Seq(Rows) /\ Increasing(Without(p, i))
      /\ Elements(Without(p, i)) = Elements(p) \ {p[i]}
  BY WithoutRow DEF Accounted
<1>2. p[i] \in Rows /\ p[i] \in Elements(p) /\ p[i] # NoRow
  BY RowNumbers DEF Elements
<1>3. p[i] \notin Elements(d) /\ p[i] \notin x
  BY <1>2 DEF Accounted
<1>4. (Elements(Without(p, i)) \cup Elements(d) \cup {p[i]} \cup x) \ {NoRow}
        = (Elements(p) \cup Elements(d) \cup {NoRow} \cup x) \ {NoRow}
  BY <1>1, <1>2
<1> QED
  BY <1>1, <1>2, <1>3, <1>4 DEF Accounted

LEMMA StoreRow ==
  ASSUME NEW p \in Seq(Rows), NEW d \in Seq(Rows), NEW c \in Rows, NEW n, NEW x \in SUBSET Rows,
         Accounted(p, d, c, n, x)
  PROVE  Accounted(p, Append(d, c), NoRow, n, x) /\ Append(d, c) \in Seq(Rows)
<1> DEFINE more == Append(d, c)
<1>1. /\ more \in Seq(Rows) /\ Len(more) = Len(d) + 1 /\ Len(d) \in Nat
      /\ DOMAIN more = 1 .. (Len(d) + 1) /\ DOMAIN d = 1 .. Len(d)
      /\ more[Len(d) + 1] = c /\ \A j \in DOMAIN d : more[j] = d[j]
  OBVIOUS
<1> HIDE DEF more
<1>2. Elements(more) = Elements(d) \cup {c}
  <2>1. \A j \in DOMAIN more : j \in DOMAIN d \/ j = Len(d) + 1
    BY <1>1
  <2>2. \A j \in DOMAIN d : j \in DOMAIN more
    BY <1>1
  <2>3. Len(d) + 1 \in DOMAIN more
    BY <1>1
  <2> QED
    BY <1>1, <2>1, <2>2, <2>3 DEF Elements
<1>3. IsFiniteSet(Elements(d))
  <2>1. Elements(d) \subseteq Rows
    BY DEF Elements
  <2>2. IsFiniteSet(Rows)
    BY PrefetchAssumption, FS_Interval DEF Rows
  <2> QED
    BY <2>1, <2>2, FS_Subset
<1>4. c \notin Elements(d) /\ c \notin Elements(p) /\ c # NoRow
  BY RowNumbers DEF Accounted
<1>5. Cardinality(Elements(more)) = Len(more)
  <2>1. Cardinality(Elements(d) \cup {c}) = Cardinality(Elements(d)) + 1
    BY <1>3, <1>4, FS_AddElement
  <2> QED
    BY <1>1, <1>2, <2>1 DEF Accounted
<1>6. NoRow \notin Elements(p) \cup Elements(more) \cup x
  <2>1. Elements(p) \subseteq Rows /\ Elements(d) \subseteq Rows
    BY DEF Elements
  <2> QED
    BY <1>2, <2>1, RowNumbers
<1>7. (Elements(p) \cup Elements(more) \cup {NoRow} \cup x) \ {NoRow}
        = (Elements(p) \cup Elements(d) \cup {c} \cup x) \ {NoRow}
  BY <1>2
<1>8. Elements(p) \cap Elements(more) = {} /\ x \cap (Elements(p) \cup Elements(more)) = {}
  BY <1>2, <1>4 DEF Accounted
<1> QED
  BY <1>1, <1>5, <1>6, <1>7, <1>8 DEF Accounted, more

\* The row at hand is later than every row before it.
LEMMA NewRow ==
  ASSUME NEW p \in Seq(Rows), NEW d \in Seq(Rows), NEW n \in Rows, NEW x \in SUBSET Rows,
         Accounted(p, d, NoRow, n, x)
  PROVE  /\ \A r \in Elements(p) : r < n
         /\ n \notin Elements(p) /\ n \notin Elements(d) /\ n \notin x /\ n # NoRow
         /\ 1 .. (n + 1 - 1) = (1 .. (n - 1)) \cup {n}
<1>1. n \in Nat \ {0} /\ n # NoRow
  BY PrefetchAssumption DEF Rows, NoRow
<1>2. Elements(p) \subseteq Rows /\ Elements(d) \subseteq Rows
  BY DEF Elements
<1>3. \A r \in Elements(p) \cup Elements(d) \cup x : r \in 1 .. (n - 1)
  BY <1>2, RowNumbers DEF Accounted
<1>4. \A r \in Elements(p) \cup Elements(d) \cup x : r < n
  BY <1>1, <1>3
<1>5. 1 .. (n + 1 - 1) = (1 .. (n - 1)) \cup {n}
  BY <1>1
<1> QED
  BY <1>1, <1>4, <1>5

LEMMA DropRow ==
  ASSUME NEW p \in Seq(Rows), NEW d \in Seq(Rows), NEW n \in Rows, NEW x \in SUBSET Rows,
         Accounted(p, d, NoRow, n, x)
  PROVE  Accounted(p, d, NoRow, n + 1, x \cup {n})
<1>1. n \notin Elements(p) /\ n \notin Elements(d) /\ n # NoRow
  BY NewRow
<1>2. 1 .. (n + 1 - 1) = (1 .. (n - 1)) \cup {n}
  BY NewRow
<1>3. (Elements(p) \cup Elements(d) \cup {NoRow} \cup (x \cup {n})) \ {NoRow}
        = ((Elements(p) \cup Elements(d) \cup {NoRow} \cup x) \ {NoRow}) \cup {n}
  BY <1>1
<1> QED
  BY <1>1, <1>2, <1>3 DEF Accounted

LEMMA RecoverRow ==
  ASSUME NEW p \in Seq(Rows), NEW d \in Seq(Rows), NEW n \in Rows, NEW x \in SUBSET Rows,
         Accounted(p, d, NoRow, n, x)
  PROVE  Accounted(p, d, n, n + 1, x)
<1>1. n \notin Elements(p) /\ n \notin Elements(d) /\ n \notin x /\ n # NoRow
  BY NewRow
<1>2. 1 .. (n + 1 - 1) = (1 .. (n - 1)) \cup {n}
  BY NewRow
<1>3. (Elements(p) \cup Elements(d) \cup {n} \cup x) \ {NoRow}
        = ((Elements(p) \cup Elements(d) \cup {NoRow} \cup x) \ {NoRow}) \cup {n}
  BY <1>1
<1> QED
  BY <1>1, <1>2, <1>3 DEF Accounted

\* It goes to the end of the deque; the first one may be taken out at once.
LEMMA QueueRow ==
  ASSUME NEW p \in Seq(Rows), NEW d \in Seq(Rows), NEW n \in Rows, NEW x \in SUBSET Rows,
         Accounted(p, d, NoRow, n, x)
  PROVE  LET rows == Append(p, n)
         IN  /\ rows \in Seq(Rows) /\ Tail(rows) \in Seq(Rows) /\ Head(rows) \in Rows
             /\ Accounted(rows, d, NoRow, n + 1, x)
             /\ Accounted(Tail(rows), d, Head(rows), n + 1, x)
<1> DEFINE rows == Append(p, n)
<1>1. \A r \in Elements(p) : r < n
  BY NewRow
<1>2. n \notin Elements(d) /\ n \notin x /\ n # NoRow /\ 1 .. (n + 1 - 1) = (1 .. (n - 1)) \cup {n}
  BY NewRow
<1>3. /\ rows \in Seq(Rows) /\ rows # <<>> /\ Increasing(rows)
      /\ Elements(rows) = Elements(p) \cup {n}
  BY <1>1, LaterRow DEF Accounted
<1> HIDE DEF rows
<1>4. /\ Head(rows) \in Elements(rows) /\ Head(rows) \in Rows /\ Tail(rows) \in Seq(Rows)
      /\ Increasing(Tail(rows)) /\ Elements(Tail(rows)) = Elements(rows) \ {Head(rows)}
  BY <1>3, FirstRow
<1>5. Elements(rows) \cap Elements(d) = {} /\ x \cap (Elements(rows) \cup Elements(d)) = {}
  BY <1>2, <1>3 DEF Accounted
<1>6. (Elements(rows) \cup Elements(d) \cup {NoRow} \cup x) \ {NoRow} = 1 .. (n + 1 - 1)
  BY <1>2, <1>3 DEF Accounted
<1>7. Accounted(rows, d, NoRow, n + 1, x)
  <2>1. NoRow \notin Elements(rows) \cup Elements(d) \cup x
    BY <1>2, <1>3 DEF Accounted
  <2>2. Cardinality(Elements(d)) = Len(d)
    BY DEF Accounted
  <2>3. x \cap (Elements(rows) \cup Elements(d)) = {} /\ Elements(rows) \cap Elements(d) = {}
    BY <1>5
  <2>4. Increasing(rows)
    BY <1>3
  <2>5. (n + 1) - 1 = n + 1 - 1
    BY RowNumbers
  <2> QED
    BY <1>6, <2>1, <2>2, <2>3, <2>4, <2>5, Zenon DEF Accounted
<1>8. Accounted(Tail(rows), d, Head(rows), n + 1, x)
  <2>1. Head(rows) # NoRow
    BY <1>4, RowNumbers
  <2>2. (Elements(Tail(rows)) \cup Elements(d) \cup {Head(rows)} \cup x) \ {NoRow}
          = (Elements(rows) \cup Elements(d) \cup {NoRow} \cup x) \ {NoRow}
    BY <1>4, <2>1
  <2> QED
    BY <1>4, <1>5, <1>6, <1>7, <2>2 DEF Accounted
<1> QED
  BY <1>3, <1>4, <1>7, <1>8 DEF rows

-----------------------------------------------------------------------------
(* The steps of the threads. *)

LEMMA LoopTypes ==
  ASSUME LoopInv
  PROVE  /\ main \in Mains /\ main.next \in 1 .. (NRows + 1) /\ main.cur \in Rows \cup {NoRow}
         /\ pending \in Seq(Rows) /\ drained \in Seq(Rows) /\ dropped \subseteq Rows
         /\ stop \in BOOLEAN /\ Main \in Threads /\ Main \notin Workers /\ Workers \subseteq Threads
         /\ future \in [Rows -> {"none", "queued", "running", "done", "failed", "cancelled"}]
         /\ Accounted(pending, drained, main.cur, main.next, dropped) /\ Placed(main, stop)
         /\ task \in [Threads -> Tasks]
BY Account, PrefetchAssumption DEF LoopInv, TypeOK, Mains, MainOK, PoolInv

\* A step of a thread leaves the loop where it is.
LEMMA ThreadKeeps ==
  ASSUME LoopInv, PoolInv', FutureOK', Working(Main)' => Working(Main),
         AtSelection(Main)' => ~task'[Main].registered,
         future' \in [Rows -> {"none", "queued", "running", "done", "failed", "cancelled"}],
         UNCHANGED <<main, pending, drained, dropped, stop>>
  PROVE  LoopInv'
<1>1. TypeOK'
  <2>1. task' \in [Threads -> Tasks]
    BY DEF PoolInv
  <2> QED
    BY <2>1, LoopTypes DEF TypeOK, Tasks, Mains
<1>2. RowsAccounted'
  BY LoopTypes, Account
<1>3. MainOK'
  BY LoopTypes DEF LoopInv, MainOK
<1> QED
  BY <1>1, <1>2, <1>3 DEF LoopInv

LEMMA LeaseLoop ==
  ASSUME LoopInv, NEW t \in Threads, ~AtSelection(t), LeaseStep(t), UNCHANGED loop
  PROVE  LoopInv'
<1>1. PoolInv'
  BY LeaseKeeps DEF LoopInv
<1>2. /\ Working(t) /\ \A u \in Threads \ {t} : task'[u] = task[u]
      /\ \A u \in Threads : task'[u].row = task[u].row /\ (Working(u)' <=> Working(u))
      /\ task'[t].ip = task[t].ip \/ ~task'[t].registered
  BY LeaseShape DEF LoopInv
<1>3. FutureOK'
  BY <1>2, LoopTypes DEF FutureOK, LoopInv, loop
<1>4. AtSelection(Main)' => ~task'[Main].registered
  BY <1>2, LoopTypes DEF AtSelection, LoopInv, MainOK, loop
<1> QED
  BY <1>1, <1>2, <1>3, <1>4, LoopTypes, ThreadKeeps DEF loop

\* A step that changes neither the row nor the pool of its thread, which waits for
\* no lease.
LEMMA QuietLoop ==
  ASSUME LoopInv, PoolInv', NEW t \in Threads, UNCHANGED loop,
         \A u \in Threads : task'[u].row = task[u].row /\ task'[u].phase = task[u].phase,
         \A u \in Threads \ {t} : task'[u] = task[u], ~task'[t].registered
  PROVE  LoopInv'
<1>1. FutureOK'
  BY LoopTypes DEF FutureOK, LoopInv, loop, Working
<1>2. AtSelection(Main)' => ~task'[Main].registered
  BY LoopTypes DEF AtSelection, LoopInv, MainOK, loop
<1>3. Working(Main)' => Working(Main)
  BY LoopTypes DEF Working
<1> QED
  BY <1>1, <1>2, <1>3, LoopTypes, ThreadKeeps DEF loop

LEMMA BranchLoop ==
  ASSUME LoopInv, NEW t \in Threads, NoDeepParse(t) \/ NoOcr(t) \/ StageFails(t)
  PROVE  LoopInv'
<1>1. PoolInv'
  BY NoDeepParseKeeps, NoOcrKeeps, StageFailsKeeps DEF LoopInv
<1>2. task \in [Threads -> Tasks] /\ task[t] \in Tasks
  BY LoopTypes
<1>3. UNCHANGED loop
  BY DEF NoDeepParse, NoOcr, StageFails
<1>4. /\ \A u \in Threads : task'[u].row = task[u].row /\ task'[u].phase = task[u].phase
      /\ \A u \in Threads \ {t} : task'[u] = task[u]
      /\ ~task'[t].registered
  <2>1. CASE NoDeepParse(t)
    BY <1>2, <2>1 DEF NoDeepParse, Tasks
  <2>2. CASE NoOcr(t)
    BY <1>2, <2>2 DEF NoOcr, Tasks
  <2>3. CASE StageFails(t)
    BY <1>2, <2>3 DEF StageFails, Tasks
  <2> QED
    BY <2>1, <2>2, <2>3
<1> QED
  BY <1>1, <1>3, <1>4, QuietLoop

LEMMA StartTaskLoop ==
  ASSUME LoopInv, NEW w \in Threads, StartTask(w) PROVE LoopInv'
<1>1. PICK q \in Rows :
        /\ future[q] = "queued" /\ future' = [future EXCEPT ![q] = "running"]
        /\ task' = [task EXCEPT ![w] = [Idle EXCEPT !.row = q, !.phase = "run"]]
  BY DEF StartTask
<1> DEFINE r == [Idle EXCEPT !.row = q, !.phase = "run"]
<1>2. /\ w \in Workers /\ ~Working(w) /\ UNCHANGED <<main, pending, drained, dropped, stop>>
      /\ permits' = permits /\ queueDepth' = queueDepth /\ lost' = lost
  BY DEF StartTask
<1>3. /\ r \in Tasks /\ TaskOK(r) /\ \A s \in Stages : Use(r, s) = 0 /\ Waits(r, s) = 0
      /\ r.row = q /\ r.phase = "run" /\ ~r.registered
  BY StartedTask
<1>4. task' = [task EXCEPT ![w] = r]
  BY <1>1
<1> HIDE DEF r
<1>5. PoolInv'
  BY <1>2, <1>3, <1>4, TaskReplaced DEF LoopInv
<1>6. /\ task'[w] = r /\ \A u \in Threads \ {w} : task'[u] = task[u]
      /\ w # Main /\ Working(w)'
  BY <1>2, <1>3, <1>4, LoopTypes DEF Working
<1>7. future' \in [Rows -> {"none", "queued", "running", "done", "failed", "cancelled"}]
  BY <1>1, LoopTypes
<1>8. FutureOK'
  <2>1. main.pc \notin {"join", "finished"}
    BY <1>1 DEF LoopInv, FutureOK
  <2>2. ASSUME NEW x \in Rows, future'[x] = "running"
        PROVE  \E u \in Workers : Working(u)' /\ task'[u].row = x
    <3>1. CASE x = q
      BY <1>2, <1>3, <1>6, <3>1
    <3>2. CASE x # q
      <4>1. PICK u \in Workers : Working(u) /\ task[u].row = x
        BY <1>1, <2>2, <3>2, LoopTypes DEF LoopInv, FutureOK
      <4>2. u # w /\ u \in Threads
        BY <1>2, <4>1, LoopTypes
      <4> QED
        BY <1>6, <4>1, <4>2 DEF Working
    <3> QED
      BY <3>1, <3>2
  <2> QED
    BY <1>2, <2>1, <2>2 DEF FutureOK
<1>9. (Working(Main)' => Working(Main)) /\ (AtSelection(Main)' => ~task'[Main].registered)
  BY <1>2, <1>6, LoopTypes DEF Working, AtSelection, LoopInv, MainOK
<1> QED
  BY <1>2, <1>5, <1>7, <1>8, <1>9, ThreadKeeps

LEMMA EndTaskLoop ==
  ASSUME LoopInv, NEW w \in Threads, EndTask(w) PROVE LoopInv'
<1>1. /\ w \in Workers /\ Ended(w) /\ UNCHANGED <<main, pending, drained, dropped, stop>>
      /\ permits' = permits /\ queueDepth' = queueDepth /\ lost' = lost
      /\ task' = [task EXCEPT ![w] = Idle]
  BY DEF EndTask
<1>2. PoolInv'
  BY <1>1, IdleTask, TaskReplaced DEF LoopInv
<1>3. task'[w] = Idle /\ (\A u \in Threads \ {w} : task'[u] = task[u]) /\ w # Main
  BY <1>1, LoopTypes
<1> DEFINE end == IF task[w].leaving = "no" THEN "done" ELSE task[w].leaving
<1>4. end \in {"done", "failed", "cancelled"}
  BY ThreadFacts DEF LoopInv
<1>5. future' = [future EXCEPT ![task[w].row] = end]
  BY DEF EndTask
<1> HIDE DEF end
<1>6. future' \in [Rows -> {"none", "queued", "running", "done", "failed", "cancelled"}]
  BY <1>4, <1>5, LoopTypes
<1>7. ASSUME NEW x \in Rows, future'[x] \in {"running", "queued"}
      PROVE  x # task[w].row /\ future'[x] = future[x]
  BY <1>4, <1>5, <1>7, LoopTypes
<1>8. FutureOK'
  <2>1. ASSUME NEW x \in Rows, future'[x] = "running"
        PROVE  \E u \in Workers : Working(u)' /\ task'[u].row = x
    <3>1. PICK u \in Workers : Working(u) /\ task[u].row = x
      BY <1>7, <2>1 DEF LoopInv, FutureOK
    <3>2. u # w /\ u \in Threads
      BY <1>7, <2>1, <3>1, LoopTypes
    <3> QED
      BY <1>3, <3>1, <3>2 DEF Working
  <2>2. main'.pc \in {"join", "finished"} => \A x \in Rows : future'[x] # "queued"
    BY <1>1, <1>7 DEF LoopInv, FutureOK
  <2>3. main'.pc = "finished" => \A u \in Workers : ~Working(u)'
    BY <1>1, <1>3, LoopTypes DEF LoopInv, FutureOK, Working, Idle
  <2> QED
    BY <2>1, <2>2, <2>3 DEF FutureOK
<1>9. (Working(Main)' => Working(Main)) /\ (AtSelection(Main)' => ~task'[Main].registered)
  BY <1>1, <1>3, LoopTypes DEF Working, AtSelection, LoopInv, MainOK
<1> QED
  BY <1>1, <1>2, <1>6, <1>8, <1>9, ThreadKeeps

LEMMA ThreadStepKeeps ==
  ASSUME LoopInv, NEW t \in Threads, ThreadStep(t) PROVE LoopInv'
BY LeaseLoop, BranchLoop, StartTaskLoop, EndTaskLoop
   DEF ThreadStep, ThreadGoesOn, ThreadFails, LeaseStep

-----------------------------------------------------------------------------
(* The steps of the row loop. *)

LEMMA MainKeeps ==
  ASSUME LoopInv, PoolInv', FutureOK', main' \in Mains,
         pending' \in Seq(Rows), drained' \in Seq(Rows), dropped' \subseteq Rows, stop' \in BOOLEAN,
         future' \in [Rows -> {"none", "queued", "running", "done", "failed", "cancelled"}],
         Accounted(pending', drained', main'.cur, main'.next, dropped'), Placed(main', stop'),
         main'.pc \notin {"select", "inline"} => ~Working(Main)',
         AtSelection(Main)' => ~task'[Main].registered
  PROVE  LoopInv'
<1>1. TypeOK'
  <2>1. task' \in [Threads -> Tasks]
    BY DEF PoolInv
  <2> QED
    BY <2>1 DEF TypeOK, Tasks, Mains
<1>2. RowsAccounted'
  BY Account
<1>3. MainOK'
  BY DEF MainOK
<1> QED
  BY <1>1, <1>2, <1>3 DEF LoopInv

\* Threads and leases stay as they are.
LEMMA PoolStays ==
  ASSUME PoolInv, UNCHANGED <<task, permits, queueDepth, lost>> PROVE PoolInv'
<1>1. \A s \in Stages : /\ Holders(s)' = Holders(s) /\ Registered(s)' = Registered(s)
                        /\ {t \in Threads : task'[t].phase = "got" /\ Stage(t)' = s}
                             = {t \in Threads : task[t].phase = "got" /\ Stage(t) = s}
  BY DEF Holders, Registered, Stage
<1>2. PermitsConserved'
  BY <1>1 DEF PoolInv, PermitsConserved
<1> QED
  BY <1>2 DEF PoolInv

\* A step between rows, before the run cancels what is queued.
LEMMA LoopOnly ==
  ASSUME LoopInv, UNCHANGED <<task, permits, queueDepth, lost, future>>, main' \in Mains,
         pending' \in Seq(Rows), drained' \in Seq(Rows), dropped' \subseteq Rows, stop' \in BOOLEAN,
         Accounted(pending', drained', main'.cur, main'.next, dropped'), Placed(main', stop'),
         main.pc \notin {"select", "inline"},
         main'.pc \notin {"select", "inline", "join", "finished"}
  PROVE  LoopInv'
<1>1. PoolInv'
  BY PoolStays DEF LoopInv
<1>2. FutureOK'
  BY DEF LoopInv, FutureOK, Working
<1>3. ~Working(Main)' /\ ~AtSelection(Main)'
  BY DEF LoopInv, MainOK, Working, AtSelection
<1> QED
  BY <1>1, <1>2, <1>3, LoopTypes, MainKeeps

LEMMA BeforeRowKeeps == ASSUME LoopInv, BeforeRow PROVE LoopInv'
<1>1. /\ main.pc = "row" /\ main \in Mains
      /\ UNCHANGED <<task, permits, queueDepth, lost, future, pending, drained, dropped>>
  BY LoopTypes DEF BeforeRow, stages
<1>2. PICK place \in {"sources", "cleanup", "final"} :
        /\ main' = [main EXCEPT !.pc = place] /\ stop' \in BOOLEAN
        /\ place = "sources" => ~stop' /\ main.next <= NRows
        /\ ~stop' => ~stop
  <2>1. CASE main.next <= NRows /\ ~stop /\ UNCHANGED stop /\ GoTo("sources")
    <3>1. stop' \in BOOLEAN
      BY <2>1, LoopTypes
    <3> QED
      BY <2>1, <3>1 DEF GoTo
  <2>2. CASE main.next <= NRows /\ stop' = TRUE /\ GoTo("cleanup")
    BY <2>2 DEF GoTo
  <2>3. CASE main.next > NRows /\ UNCHANGED stop /\ GoTo("final")
    <3>1. stop' \in BOOLEAN
      BY <2>3, LoopTypes
    <3> QED
      BY <2>3, <3>1 DEF GoTo
  <2> QED
    BY <2>1, <2>2, <2>3 DEF BeforeRow
<1>3. main' \in Mains /\ main'.pc = place /\ main'.next = main.next /\ main'.cur = main.cur
  BY <1>1, <1>2 DEF Mains
<1>4. Placed(main', stop')
  <2>1. place = "sources" => main.next \in Rows
    BY <1>2, LoopTypes, PrefetchAssumption DEF Rows
  <2> QED
    BY <1>1, <1>2, <1>3, <2>1, LoopTypes DEF Placed
<1> QED
  BY <1>1, <1>2, <1>3, <1>4, LoopTypes, LoopOnly

LEMMA ServeTailKeeps == ASSUME LoopInv, ServeTail PROVE LoopInv'
<1>1. /\ main.pc = "sources" /\ main \in Mains /\ ReadyAt # {} /\ ~stop
      /\ main' = [main EXCEPT !.pc = "drain", !.cur = pending[FirstReady], !.back = "sources"]
      /\ pending' = Without(pending, FirstReady)
      /\ UNCHANGED <<task, permits, queueDepth, lost, future, drained, dropped, stop>>
  BY LoopTypes DEF ServeTail, stages
<1>2. FirstReady \in DOMAIN pending
  BY <1>1, FirstIsReady, LoopTypes
<1>3. main.cur = NoRow /\ main.next \in Rows
  BY <1>1, LoopTypes DEF Placed
<1>4. /\ Accounted(pending', drained, pending[FirstReady], main.next, dropped)
      /\ pending' \in Seq(Rows) /\ pending[FirstReady] \in Rows
  BY <1>1, <1>2, <1>3, LoopTypes, TakeRow
<1>5. /\ main' \in Mains /\ main'.pc = "drain" /\ main'.next = main.next
      /\ main'.cur = pending[FirstReady] /\ main'.back = "sources"
  BY <1>1, <1>4 DEF Mains
<1>6. Placed(main', stop')
  BY <1>1, <1>3, <1>4, <1>5 DEF Placed
<1> QED
  BY <1>1, <1>4, <1>5, <1>6, LoopTypes, LoopOnly

LEMMA DeferKeeps == ASSUME LoopInv, Defer PROVE LoopInv'
<1>1. /\ main.pc = "sources" /\ main \in Mains
      /\ main' = [main EXCEPT !.pc = "row", !.next = @ + 1]
      /\ dropped' = dropped \cup {main.next}
      /\ UNCHANGED <<task, permits, queueDepth, lost, future, pending, drained, stop>>
  BY LoopTypes DEF Defer, stages
<1>2. main.next \in Rows /\ main.cur = NoRow
  BY <1>1, LoopTypes DEF Placed, Defer
<1>3. main.next + 1 \in 1 .. (NRows + 1)
  BY <1>2, PrefetchAssumption DEF Rows
<1>4. main' \in Mains /\ main'.pc = "row" /\ main'.next = main.next + 1 /\ main'.cur = main.cur
  BY <1>1, <1>3 DEF Mains
<1>5. Accounted(pending, drained, main.cur, main.next + 1, dropped') /\ dropped' \subseteq Rows
  BY <1>1, <1>2, LoopTypes, DropRow
<1>6. Placed(main', stop')
  BY <1>1, <1>4, LoopTypes DEF Placed
<1> QED
  BY <1>1, <1>4, <1>5, <1>6, LoopTypes, LoopOnly

\* The run goes to its end, with what it has at hand.
LEMMA GoesToTheEnd ==
  ASSUME LoopInv, UNCHANGED <<task, permits, queueDepth, lost, future, pending, drained, dropped, stop>>,
         main.pc \notin {"select", "inline"}, GoTo("cleanup") \/ GoTo("cancel") \/ Raise
  PROVE  LoopInv'
<1>1. /\ main' \in Mains /\ main'.pc \in {"cleanup", "cancel"}
      /\ main'.next = main.next /\ main'.cur = main.cur
  BY LoopTypes DEF GoTo, Raise, Mains
<1>2. Placed(main', stop')
  BY <1>1 DEF Placed
<1> QED
  BY <1>1, <1>2, LoopTypes, LoopOnly

LEMMA EndingKeeps ==
  ASSUME LoopInv, FailFast \/ StopInSources \/ SetShutdown PROVE LoopInv'
<1>1. CASE FailFast
  BY <1>1, GoesToTheEnd DEF FailFast, stages
<1>2. CASE StopInSources
  BY <1>2, GoesToTheEnd DEF StopInSources, stages
<1>3. CASE SetShutdown
  BY <1>3, GoesToTheEnd DEF SetShutdown
<1> QED
  BY <1>1, <1>2, <1>3

LEMMA DrainReadyKeeps == ASSUME LoopInv, DrainReady PROVE LoopInv'
<1>1. /\ main.pc = "ready" /\ main \in Mains
      /\ UNCHANGED <<task, permits, queueDepth, lost, future, drained, dropped, stop>>
  BY LoopTypes DEF DrainReady, stages
<1>2. CASE stop
  BY <1>1, <1>2, GoesToTheEnd DEF DrainReady
<1>3. CASE ~stop /\ ReadyAt = {}
  <2>1. main' = [main EXCEPT !.pc = "row"] /\ pending' = pending
    BY <1>3 DEF DrainReady, GoTo
  <2>2. main' \in Mains /\ main'.pc = "row" /\ main'.next = main.next /\ main'.cur = main.cur
    BY <1>1, <2>1 DEF Mains
  <2>3. Placed(main', stop')
    BY <1>1, <2>2, LoopTypes DEF Placed
  <2> QED
    BY <1>1, <2>1, <2>2, <2>3, LoopTypes, LoopOnly
<1>4. CASE ~stop /\ ReadyAt # {}
  <2>1. /\ main' = [main EXCEPT !.pc = "drain", !.cur = pending[FirstReady], !.back = "ready"]
        /\ pending' = Without(pending, FirstReady)
    BY <1>4 DEF DrainReady
  <2>2. FirstReady \in DOMAIN pending
    BY <1>4, FirstIsReady, LoopTypes
  <2>3. main.cur = NoRow
    BY <1>1, <1>4, LoopTypes DEF Placed
  <2>4. /\ Accounted(pending', drained, pending[FirstReady], main.next, dropped)
        /\ pending' \in Seq(Rows) /\ pending[FirstReady] \in Rows
    BY <2>1, <2>2, <2>3, LoopTypes, TakeRow
  <2>5. /\ main' \in Mains /\ main'.pc = "drain" /\ main'.next = main.next
        /\ main'.cur = pending[FirstReady] /\ main'.back = "ready"
    BY <1>1, <2>1, <2>4 DEF Mains
  <2>6. Placed(main', stop')
    BY <1>1, <1>4, <2>4, <2>5 DEF Placed
  <2> QED
    BY <1>1, <2>4, <2>5, <2>6, LoopTypes, LoopOnly
<1> QED
  BY <1>2, <1>3, <1>4

LEMMA FinalDrainKeeps == ASSUME LoopInv, FinalDrain PROVE LoopInv'
<1>1. /\ main.pc = "final" /\ main \in Mains
      /\ UNCHANGED <<task, permits, queueDepth, lost, future, drained, dropped, stop>>
  BY LoopTypes DEF FinalDrain, stages
<1>2. CASE stop \/ pending = <<>>
  BY <1>1, <1>2, GoesToTheEnd DEF FinalDrain
<1>3. CASE ~stop /\ pending # <<>>
  <2> DEFINE i == IF ReadyAt = {} THEN 1 ELSE FirstReady
  <2>1. /\ main' = [main EXCEPT !.pc = "drain", !.cur = pending[i], !.back = "final"]
        /\ pending' = Without(pending, i)
    BY <1>3 DEF FinalDrain
  <2>2. i \in DOMAIN pending
    <3>1. 1 \in DOMAIN pending
      BY <1>3, LoopTypes
    <3> QED
      BY <3>1, FirstIsReady, LoopTypes
  <2> HIDE DEF i
  <2>3. main.cur = NoRow
    BY <1>1, <1>3, LoopTypes DEF Placed
  <2>4. /\ Accounted(pending', drained, pending[i], main.next, dropped)
        /\ pending' \in Seq(Rows) /\ pending[i] \in Rows
    BY <2>1, <2>2, <2>3, LoopTypes, TakeRow
  <2>5. /\ main' \in Mains /\ main'.pc = "drain" /\ main'.next = main.next
        /\ main'.cur = pending[i] /\ main'.back = "final"
    BY <1>1, <2>1, <2>4 DEF Mains
  <2>6. Placed(main', stop')
    BY <1>1, <1>3, <2>4, <2>5 DEF Placed
  <2> QED
    BY <1>1, <2>4, <2>5, <2>6, LoopTypes, LoopOnly
<1> QED
  BY <1>2, <1>3

LEMMA DrainKeeps == ASSUME LoopInv, Drain PROVE LoopInv'
<1>1. /\ main.pc = "drain" /\ main \in Mains /\ main.cur \in Rows /\ ~stop
      /\ main.back \in {"row", "sources", "ready", "final"}
      /\ main.back = "sources" => main.next \in Rows
      /\ UNCHANGED <<task, permits, queueDepth, lost, future, pending, dropped>>
  BY LoopTypes DEF Drain, stages, Placed, Mains
<1>2. CASE Resolves(main.cur, TRUE) /\ drained' = Append(drained, main.cur) /\ UNCHANGED stop
           /\ main' = [main EXCEPT !.pc = main.back, !.cur = NoRow]
  <2>1. main' \in Mains /\ main'.pc = main.back /\ main'.next = main.next /\ main'.cur = NoRow
    BY <1>1, <1>2 DEF Mains
  <2>2. Accounted(pending, drained', NoRow, main.next, dropped) /\ drained' \in Seq(Rows)
    BY <1>1, <1>2, LoopTypes, StoreRow
  <2>3. Placed(main', stop')
    BY <1>1, <1>2, <2>1 DEF Placed
  <2> QED
    BY <1>1, <1>2, <2>1, <2>2, <2>3, LoopTypes, LoopOnly
<1>3. CASE stop' = TRUE /\ GoTo(main.back) /\ UNCHANGED drained
  <2>1. main' \in Mains /\ main'.pc = main.back /\ main'.next = main.next /\ main'.cur = main.cur
    BY <1>1, <1>3 DEF Mains, GoTo
  <2>2. Placed(main', stop')
    BY <1>1, <1>3, <2>1 DEF Placed
  <2> QED
    BY <1>1, <1>3, <2>1, <2>2, LoopTypes, LoopOnly
<1>4. CASE Raise /\ UNCHANGED <<drained, stop>>
  BY <1>1, <1>4, GoesToTheEnd
<1> QED
  BY <1>2, <1>3, <1>4 DEF Drain

\* The task of the main thread begins or ends.
LEMMA MainTask ==
  ASSUME LoopInv, NEW r \in Tasks, TaskOK(r), \A s \in Stages : Use(r, s) = 0 /\ Waits(r, s) = 0,
         \A s \in Stages : Use(task[Main], s) = 0 /\ Waits(task[Main], s) = 0,
         task' = [task EXCEPT ![Main] = r], UNCHANGED <<permits, queueDepth, lost>>,
         \A x \in Rows : future'[x] = "running" => future[x] = "running",
         main'.pc \notin {"join", "finished"}
  PROVE  PoolInv' /\ FutureOK' /\ task'[Main] = r
<1>1. PoolInv'
  BY LoopTypes, PoolQuiet DEF LoopInv
<1>2. task'[Main] = r /\ \A w \in Workers : task'[w] = task[w]
  BY LoopTypes
<1>3. FutureOK'
  BY <1>2 DEF LoopInv, FutureOK, Working
<1> QED
  BY <1>1, <1>2, <1>3

LEMMA SelectSitesKeeps == ASSUME LoopInv, SelectSites PROVE LoopInv'
<1> DEFINE r == [Idle EXCEPT !.row = main.next, !.phase = "run"]
<1>1. /\ main.pc = "sources" /\ main \in Mains /\ ~stop /\ main' = [main EXCEPT !.pc = "select"]
      /\ task' = [task EXCEPT ![Main] = r]
      /\ UNCHANGED <<permits, queueDepth, lost, future, pending, drained, dropped, stop>>
  BY LoopTypes DEF SelectSites, GoTo
<1>2. main.next \in Rows /\ ~Working(Main) /\ main.cur = NoRow
  BY <1>1, LoopTypes DEF Placed, LoopInv, MainOK
<1>3. /\ r \in Tasks /\ TaskOK(r) /\ \A s \in Stages : Use(r, s) = 0 /\ Waits(r, s) = 0
      /\ ~r.registered
  BY <1>2, StartedTask
<1> HIDE DEF r
<1>4. /\ main' \in Mains /\ main'.pc = "select" /\ main'.next = main.next
      /\ main'.cur = main.cur /\ main'.back = main.back
  BY <1>1 DEF Mains
<1>5. PoolInv' /\ FutureOK' /\ task'[Main] = r
  <2>1. \A s \in Stages : Use(task[Main], s) = 0 /\ Waits(task[Main], s) = 0
    BY <1>2, LoopTypes, NothingHeld DEF LoopInv
  <2> QED
    BY <1>1, <1>3, <1>4, <2>1, MainTask
<1>6. Placed(main', stop')
  BY <1>1, <1>2, <1>4 DEF Placed
<1> QED
  BY <1>1, <1>3, <1>4, <1>5, <1>6, LoopTypes, MainKeeps

LEMMA RecoverKeeps == ASSUME LoopInv, Recover PROVE LoopInv'
<1>1. PICK from \in {1, DeepParseFrom} :
        task' = [task EXCEPT ![Main] = [Idle EXCEPT !.row = main.next, !.phase = "run", !.ip = from]]
  BY DEF Recover
<1> DEFINE r == [Idle EXCEPT !.row = main.next, !.phase = "run", !.ip = from]
<1>2. /\ main.pc = "sources" /\ main \in Mains /\ ~stop
      /\ main' = [main EXCEPT !.pc = "inline", !.next = @ + 1, !.cur = main.next, !.back = "row"]
      /\ task' = [task EXCEPT ![Main] = r]
      /\ UNCHANGED <<permits, queueDepth, lost, future, pending, drained, dropped, stop>>
  BY <1>1, LoopTypes DEF Recover
<1>3. main.next \in Rows /\ ~Working(Main) /\ main.cur = NoRow
  BY <1>2, LoopTypes DEF Placed, LoopInv, MainOK
<1>4. /\ r \in Tasks /\ TaskOK(r) /\ \A s \in Stages : Use(r, s) = 0 /\ Waits(r, s) = 0
  BY <1>3, BegunTask
<1> HIDE DEF r
<1>5. main.next + 1 \in 1 .. (NRows + 1)
  BY <1>3, PrefetchAssumption DEF Rows
<1>6. /\ main' \in Mains /\ main'.pc = "inline" /\ main'.next = main.next + 1
      /\ main'.cur = main.next /\ main'.back = "row"
  BY <1>2, <1>3, <1>5 DEF Mains
<1>7. PoolInv' /\ FutureOK' /\ task'[Main] = r
  <2>1. \A s \in Stages : Use(task[Main], s) = 0 /\ Waits(task[Main], s) = 0
    BY <1>3, LoopTypes, NothingHeld DEF LoopInv
  <2> QED
    BY <1>2, <1>4, <1>6, <2>1, MainTask
<1>8. Accounted(pending, drained, main.next, main.next + 1, dropped)
  BY <1>3, LoopTypes, RecoverRow
<1>9. Placed(main', stop') /\ ~AtSelection(Main)'
  BY <1>2, <1>3, <1>6 DEF Placed, AtSelection
<1> QED
  BY <1>2, <1>6, <1>7, <1>8, <1>9, LoopTypes, MainKeeps

LEMMA SelectionFailsKeeps == ASSUME LoopInv, SelectionFails PROVE LoopInv'
<1>1. /\ main.pc = "select" /\ main \in Mains
      /\ main' = [main EXCEPT !.pc = "cleanup", !.raised = TRUE]
      /\ task' = [task EXCEPT ![Main] = Idle] /\ Ended(Main)
      /\ UNCHANGED <<permits, queueDepth, lost, future, pending, drained, dropped, stop>>
  BY LoopTypes DEF SelectionFails, Raise
<1>2. main' \in Mains /\ main'.pc = "cleanup" /\ main'.next = main.next /\ main'.cur = main.cur
  BY <1>1 DEF Mains
<1>3. PoolInv' /\ FutureOK' /\ task'[Main] = Idle
  <2>1. \A s \in Stages : Use(task[Main], s) = 0 /\ Waits(task[Main], s) = 0
    BY <1>1, LoopTypes, NothingHeld DEF LoopInv
  <2> QED
    BY <1>1, <1>2, <2>1, IdleTask, MainTask
<1>4. Placed(main', stop') /\ ~Working(Main)' /\ ~AtSelection(Main)'
  BY <1>1, <1>2, <1>3 DEF Placed, Working, Idle, AtSelection
<1> QED
  BY <1>1, <1>2, <1>3, <1>4, LoopTypes, MainKeeps

LEMMA EndInlineKeeps == ASSUME LoopInv, EndInline PROVE LoopInv'
<1>1. /\ main.pc = "inline" /\ main \in Mains /\ main.cur \in Rows /\ ~stop
      /\ task' = [task EXCEPT ![Main] = Idle] /\ Ended(Main)
      /\ UNCHANGED <<permits, queueDepth, lost, future, pending, dropped, stop>>
  BY LoopTypes DEF EndInline, Placed
<1>2. ASSUME main'.pc \in {"row", "cleanup"}
      PROVE  /\ PoolInv' /\ FutureOK' /\ task'[Main] = Idle
             /\ ~Working(Main)' /\ ~AtSelection(Main)'
  <2>1. \A s \in Stages : Use(task[Main], s) = 0 /\ Waits(task[Main], s) = 0
    BY <1>1, LoopTypes, NothingHeld DEF LoopInv
  <2>2. PoolInv' /\ FutureOK' /\ task'[Main] = Idle
    BY <1>1, <1>2, <2>1, IdleTask, MainTask
  <2> QED
    BY <1>2, <2>2 DEF Working, Idle, AtSelection
<1>3. CASE task[Main].leaving = "no"
  <2>1. drained' = Append(drained, main.cur) /\ main' = [main EXCEPT !.pc = "row", !.cur = NoRow]
    BY <1>3 DEF EndInline
  <2>2. main' \in Mains /\ main'.pc = "row" /\ main'.next = main.next /\ main'.cur = NoRow
    BY <1>1, <2>1 DEF Mains
  <2>3. Accounted(pending, drained', NoRow, main.next, dropped) /\ drained' \in Seq(Rows)
    BY <1>1, <2>1, LoopTypes, StoreRow
  <2>4. Placed(main', stop')
    BY <2>2 DEF Placed
  <2> QED
    BY <1>1, <1>2, <2>2, <2>3, <2>4, LoopTypes, MainKeeps
<1>4. CASE task[Main].leaving # "no"
  <2>1. drained' = drained /\ main' = [main EXCEPT !.pc = "cleanup", !.raised = TRUE]
    BY <1>4 DEF EndInline, Raise
  <2>2. main' \in Mains /\ main'.pc = "cleanup" /\ main'.next = main.next /\ main'.cur = main.cur
    BY <1>1, <2>1 DEF Mains
  <2>3. Placed(main', stop')
    BY <2>2 DEF Placed
  <2> QED
    BY <1>1, <1>2, <2>1, <2>2, <2>3, LoopTypes, MainKeeps
<1> QED
  BY <1>3, <1>4

LEMMA AdmitKeeps == ASSUME LoopInv, Admit PROVE LoopInv'
<1> DEFINE rows == Append(pending, main.next)
<1>1. /\ AtSelection(Main) /\ task[Main].phase = "run" /\ task[Main].leaving = "no"
      /\ task' = [task EXCEPT ![Main] = Idle] /\ future' = [future EXCEPT ![main.next] = "queued"]
      /\ UNCHANGED <<permits, queueDepth, lost, drained, dropped, stop>>
  BY DEF Admit
<1>2. /\ main.pc = "select" /\ main \in Mains /\ ~stop /\ main.next \in Rows /\ main.cur = NoRow
      /\ ~task[Main].registered /\ task[Main].ip = DeepParseFrom
  BY <1>1, LoopTypes DEF AtSelection, Placed, LoopInv, MainOK
<1>3. \A s \in Stages : Use(task[Main], s) = 0 /\ Waits(task[Main], s) = 0
  <2>1. /\ task[Main].held \in Seq(Stages) /\ Stack(task[Main].held, DeepParseFrom)
        /\ task[Main].phase = "run"
    BY <1>1, <1>2, LoopTypes, ThreadFacts DEF LoopInv, TaskOK
  <2>2. Elements(task[Main].held) = {}
    BY <2>1, PrefetchAssumption DEF Stack
  <2> QED
    BY <1>2, <2>1, <2>2 DEF Use, Waits
<1>4. /\ future' \in [Rows -> {"none", "queued", "running", "done", "failed", "cancelled"}]
      /\ \A x \in Rows : future'[x] = "running" => future[x] = "running"
  BY <1>1, <1>2, LoopTypes
<1>5. ASSUME main'.pc \in {"row", "ready", "drain"}
      PROVE  /\ PoolInv' /\ FutureOK'
             /\ ~Working(Main)' /\ ~AtSelection(Main)'
  <2>1. PoolInv' /\ FutureOK' /\ task'[Main] = Idle
    BY <1>1, <1>3, <1>4, <1>5, IdleTask, MainTask
  <2> QED
    BY <1>5, <2>1 DEF Working, Idle, AtSelection
<1>6. /\ rows \in Seq(Rows) /\ Tail(rows) \in Seq(Rows) /\ Head(rows) \in Rows
      /\ Accounted(rows, drained, NoRow, main.next + 1, dropped)
      /\ Accounted(Tail(rows), drained, Head(rows), main.next + 1, dropped)
  BY <1>2, LoopTypes, QueueRow
<1>7. main.next + 1 \in 1 .. (NRows + 1)
  BY <1>2, PrefetchAssumption DEF Rows
<1>8. AfterAppend(rows, Cardinality(ReadyAt))
  BY DEF Admit
<1> HIDE DEF rows
<1>9. \/ /\ pending' = rows
         /\ \E place \in {"row", "ready"} : main' = [main EXCEPT !.pc = place, !.next = @ + 1]
      \/ /\ pending' = Tail(rows)
         /\ main' = [main EXCEPT !.pc = "drain", !.next = @ + 1, !.cur = Head(rows), !.back = "row"]
  BY <1>8 DEF AfterAppend
<1>10. ASSUME NEW place \in {"row", "ready"}, pending' = rows,
              main' = [main EXCEPT !.pc = place, !.next = @ + 1]
       PROVE  LoopInv'
  <2>1. main' \in Mains /\ main'.pc = place /\ main'.next = main.next + 1 /\ main'.cur = NoRow
    BY <1>2, <1>7, <1>10 DEF Mains
  <2>2. Placed(main', stop')
    BY <2>1 DEF Placed
  <2> QED
    BY <1>1, <1>4, <1>5, <1>6, <1>10, <2>1, <2>2, LoopTypes, MainKeeps
<1>11. CASE /\ pending' = Tail(rows)
            /\ main' = [main EXCEPT !.pc = "drain", !.next = @ + 1, !.cur = Head(rows), !.back = "row"]
  <2>1. /\ main' \in Mains /\ main'.pc = "drain" /\ main'.next = main.next + 1
        /\ main'.cur = Head(rows) /\ main'.back = "row"
    BY <1>2, <1>6, <1>7, <1>11 DEF Mains
  <2>2. Placed(main', stop')
    BY <1>1, <1>2, <1>6, <2>1 DEF Placed
  <2> QED
    BY <1>1, <1>4, <1>5, <1>6, <1>11, <2>1, <2>2, LoopTypes, MainKeeps
<1> QED
  BY <1>9, <1>10, <1>11

LEMMA CancelQueuedKeeps == ASSUME LoopInv, CancelQueued PROVE LoopInv'
<1>1. /\ main.pc = "cancel" /\ main \in Mains /\ main' = [main EXCEPT !.pc = "join"]
      /\ future' = [x \in Rows |-> IF future[x] = "queued" THEN "cancelled" ELSE future[x]]
      /\ UNCHANGED <<task, permits, queueDepth, lost, pending, drained, dropped, stop>>
  BY LoopTypes DEF CancelQueued, GoTo, stages
<1>2. main' \in Mains /\ main'.pc = "join" /\ main'.next = main.next /\ main'.cur = main.cur
  BY <1>1 DEF Mains
<1>3. PoolInv'
  BY <1>1, PoolStays DEF LoopInv
<1>4. /\ future' \in [Rows -> {"none", "queued", "running", "done", "failed", "cancelled"}]
      /\ \A x \in Rows : future'[x] # "queued" /\ (future'[x] = "running" => future[x] = "running")
  BY <1>1, LoopTypes
<1>5. FutureOK'
  BY <1>1, <1>2, <1>4 DEF LoopInv, FutureOK, Working
<1>6. Placed(main', stop') /\ ~Working(Main)' /\ ~AtSelection(Main)'
  BY <1>1, <1>2 DEF Placed, LoopInv, MainOK, Working, AtSelection
<1> QED
  BY <1>1, <1>2, <1>3, <1>4, <1>5, <1>6, LoopTypes, MainKeeps

LEMMA JoinKeeps == ASSUME LoopInv, Join PROVE LoopInv'
<1>1. /\ main.pc = "join" /\ main \in Mains /\ main' = [main EXCEPT !.pc = "finished"] /\ Joined
      /\ UNCHANGED <<task, permits, queueDepth, lost, future, pending, drained, dropped, stop>>
  BY LoopTypes DEF Join, GoTo, stages
<1>2. main' \in Mains /\ main'.pc = "finished" /\ main'.next = main.next /\ main'.cur = main.cur
  BY <1>1 DEF Mains
<1>3. PoolInv'
  BY <1>1, PoolStays DEF LoopInv
<1>4. FutureOK'
  BY <1>1, <1>2 DEF LoopInv, FutureOK, Working, Joined
<1>5. Placed(main', stop') /\ ~Working(Main)' /\ ~AtSelection(Main)'
  BY <1>1, <1>2 DEF Placed, LoopInv, MainOK, Working, AtSelection
<1> QED
  BY <1>1, <1>2, <1>3, <1>4, <1>5, LoopTypes, MainKeeps

LEMMA MainStepKeeps == ASSUME LoopInv, MainStep PROVE LoopInv'
BY BeforeRowKeeps, ServeTailKeeps, DeferKeeps, EndingKeeps, SelectSitesKeeps, AdmitKeeps,
   SelectionFailsKeeps, RecoverKeeps, EndInlineKeeps, DrainReadyKeeps, DrainKeeps, FinalDrainKeeps,
   CancelQueuedKeeps, JoinKeeps DEF MainStep

LEMMA LoopInit == ASSUME Init PROVE LoopInv
<1>1. /\ permits = Budget /\ queueDepth = [s \in Stages |-> 0] /\ lost = [s \in Stages |-> 0]
      /\ task = [t \in Threads |-> Idle] /\ main = [pc |-> "row", next |-> 1, cur |-> NoRow, back |-> "row", raised |-> FALSE]
      /\ future = [r \in Rows |-> "none"] /\ pending = <<>> /\ drained = <<>> /\ dropped = {}
      /\ stop = FALSE
  BY DEF Init, StagesInit
<1>2. task \in [Threads -> Tasks] /\ \A t \in Threads : task[t] = Idle /\ TaskOK(task[t])
  BY <1>1, IdleTask
<1>3. main \in Mains /\ main.pc = "row" /\ main.next = 1 /\ main.cur = NoRow
  <2>1. 1 \in 1 .. (NRows + 1)
    BY PrefetchAssumption
  <2> QED
    BY <1>1, <2>1 DEF Mains
<1>4. TypeOK
  <2>1. <<>> \in Seq(Rows)
    OBVIOUS
  <2> QED
    BY <1>1, <1>2, <1>3, <2>1 DEF TypeOK, Mains, Tasks
<1>5. PoolInv
  <2>1. \A s \in Stages : Holders(s) = {} /\ Got(s) = {} /\ Registered(s) = {}
    <3>1. DOMAIN <<>> = {}
      OBVIOUS
    <3> QED
      BY <1>2, <3>1 DEF Holders, Got, Registered, Idle
  <2>2. \A s \in Stages : permits[s] = Budget[s] /\ Budget[s] \in Nat /\ queueDepth[s] = 0 /\ lost[s] = 0
    BY <1>1, StageAssumption
  <2>3. PermitsConserved
    <3>1. ASSUME NEW s \in Stages
          PROVE  /\ permits[s] + Cardinality(Holders(s)) + Cardinality(Got(s)) = Budget[s]
                 /\ queueDepth[s] = Cardinality(Registered(s)) + lost[s]
      <4>1. /\ Cardinality(Holders(s)) = 0 /\ Cardinality(Got(s)) = 0
            /\ Cardinality(Registered(s)) = 0
        BY <2>1, FS_EmptySet
      <4> QED
        BY <2>2, <4>1
    <3> QED
      BY <3>1 DEF PermitsConserved, Got
  <2>4. permits \in [Stages -> Int] /\ queueDepth \in [Stages -> Int] /\ lost \in [Stages -> Int]
    BY <1>1, StageAssumption
  <2> QED
    BY <1>2, <2>3, <2>4 DEF PoolInv
<1>6. RowsAccounted
  <2>1. Elements(<<>>) = {} /\ Increasing(<<>>) /\ Len(<<>>) = 0
    BY DEF Elements, Increasing
  <2>2. 1 .. (1 - 1) = {}
    OBVIOUS
  <2>3. Accounted(pending, drained, main.cur, main.next, dropped)
    BY <1>1, <1>3, <2>1, <2>2, FS_EmptySet DEF Accounted
  <2> QED
    BY <2>3, Account
<1>7. MainOK
  BY <1>1, <1>2, <1>3, PrefetchAssumption DEF MainOK, Placed, Working, Idle, AtSelection
<1>8. FutureOK
  BY <1>1, <1>3 DEF FutureOK
<1> QED
  BY <1>4, <1>5, <1>6, <1>7, <1>8 DEF LoopInv

\* The last rows are drained when every row was taken up, and without a stop or
\* an exception the loop is left with nothing in the deque or at hand.
EndOK ==
  /\ main.pc = "final" \/ (main.pc = "drain" /\ main.back = "final") => main.next = NRows + 1
  /\ main.pc \in {"cleanup", "cancel", "join", "finished"} /\ ~stop /\ ~main.raised =>
       main.next = NRows + 1 /\ main.cur = NoRow /\ pending = <<>>

LEMMA EndKeeps ==
  ASSUME LoopInv, EndOK, MainStep PROVE EndOK'
<1>1. /\ main \in Mains /\ NRows \in Nat /\ stop \in BOOLEAN /\ Placed(main, stop)
      /\ main.next \in 1 .. (NRows + 1) /\ main.next > NRows => main.next = NRows + 1
  BY LoopTypes, PrefetchAssumption DEF Mains
<1>2. CASE BeforeRow
  BY <1>1, <1>2 DEF BeforeRow, GoTo, EndOK, Mains
<1>3. CASE FailFast \/ StopInSources \/ SelectionFails \/ EndInline \/ SelectSites \/ Recover
  <2>1. /\ main'.pc \notin {"final", "drain", "cancel", "join", "finished"}
        /\ main'.pc = "cleanup" => main'.raised \/ stop'
    BY <1>1, <1>3 DEF FailFast, StopInSources, SelectionFails, EndInline, SelectSites, Recover,
                      Raise, GoTo, Mains
  <2> QED
    BY <2>1 DEF EndOK
<1>4. CASE ServeTail \/ Defer \/ DrainReady
  <2>1. /\ main'.pc \notin {"final", "cancel", "join", "finished"}
        /\ main'.pc = "drain" => main'.back # "final"
        /\ main'.pc = "cleanup" => stop'
    BY <1>1, <1>4 DEF ServeTail, Defer, DrainReady, GoTo, Mains
  <2> QED
    BY <2>1 DEF EndOK
<1>5. CASE Admit
  <2>1. AfterAppend(Append(pending, main.next), Cardinality(ReadyAt))
    BY <1>5 DEF Admit
  <2>2. /\ main'.pc \in {"row", "ready", "drain"}
        /\ main'.pc = "drain" => main'.back = "row"
    BY <1>1, <2>1 DEF AfterAppend, Mains
  <2> QED
    BY <2>2 DEF EndOK
<1>6. CASE Drain
  <2>1. CASE main' = [main EXCEPT !.pc = main.back, !.cur = NoRow] \/ GoTo(main.back)
    <3>1. main.pc = "drain" /\ main.back \in {"row", "sources", "ready", "final"}
      BY <1>1, <1>6 DEF Drain, Mains
    <3>2. main'.pc = main.back /\ main'.next = main.next
      BY <1>1, <2>1 DEF GoTo, Mains
    <3> QED
      BY <3>1, <3>2 DEF EndOK
  <2>2. CASE Raise
    BY <1>1, <2>2 DEF Raise, Mains, EndOK
  <2> QED
    BY <1>6, <2>1, <2>2 DEF Drain
<1>7. CASE FinalDrain
  <2>1. main.pc = "final" /\ main.next = NRows + 1 /\ (~stop => main.cur = NoRow) /\ stop' = stop
    BY <1>1, <1>7 DEF FinalDrain, EndOK, Placed
  <2>2. CASE GoTo("cleanup") /\ UNCHANGED pending /\ (stop \/ pending = <<>>)
    BY <1>1, <2>1, <2>2 DEF GoTo, Mains, EndOK
  <2>3. CASE main'.pc = "drain" /\ main'.next = main.next
    BY <2>1, <2>3 DEF EndOK
  <2> QED
    BY <1>1, <1>7, <2>2, <2>3 DEF FinalDrain, Mains
<1>8. CASE SetShutdown \/ CancelQueued \/ Join
  BY <1>1, <1>8 DEF SetShutdown, CancelQueued, Join, GoTo, Mains, EndOK
<1> QED
  BY <1>2, <1>3, <1>4, <1>5, <1>6, <1>7, <1>8 DEF MainStep

LEMMA LoopInvariant == Spec => []LoopInv
<1>1. Init => LoopInv
  BY LoopInit
<1>2. LoopInv /\ [Next]_vars => LoopInv'
  <2> SUFFICES ASSUME LoopInv, [Next]_vars PROVE LoopInv'
    OBVIOUS
  <2>1. ASSUME NEW t \in Threads, ThreadStep(t) PROVE LoopInv'
    BY <2>1, ThreadStepKeeps
  <2>2. CASE MainStep
    BY <2>2, MainStepKeeps
  <2>3. CASE UNCHANGED vars
    <3>1. /\ UNCHANGED <<task, permits, queueDepth, lost, future, main, pending>>
          /\ UNCHANGED <<drained, dropped, stop>>
      BY <2>3 DEF vars, stages, loop
    <3>2. PoolInv'
      BY <3>1, PoolStays DEF LoopInv
    <3>3. FutureOK' /\ MainOK'
      BY <3>1 DEF LoopInv, FutureOK, MainOK, Working, AtSelection
    <3> QED
      BY <3>1, <3>2, <3>3, LoopTypes, MainKeeps DEF MainOK
  <2> QED
    BY <2>1, <2>2, <2>3 DEF Next, Finished
<1> QED
  BY <1>1, <1>2, PTL DEF Spec

LEMMA EndInvariant == Spec => []EndOK
<1>1. Init => EndOK
  BY DEF Init, EndOK
<1>2. LoopInv /\ EndOK /\ [Next]_vars => EndOK'
  <2> SUFFICES ASSUME LoopInv, EndOK, [Next]_vars PROVE EndOK'
    OBVIOUS
  <2>1. ASSUME NEW t \in Threads, ThreadStep(t) PROVE UNCHANGED <<main, pending, stop>>
    BY <2>1 DEF ThreadStep, ThreadGoesOn, ThreadFails, StartTask, NoDeepParse, NoOcr, StageFails,
                EndTask, loop
  <2>2. CASE UNCHANGED <<main, pending, stop>>
    BY <2>2 DEF EndOK
  <2>3. CASE MainStep
    BY <2>3, EndKeeps
  <2> QED
    BY <2>1, <2>2, <2>3 DEF Next, Finished, vars, loop
<1> QED
  BY <1>1, <1>2, LoopInvariant, PTL DEF Spec

-----------------------------------------------------------------------------
(* Theorems. *)

\* Every variable keeps its type, whatever the threads, the limits and the program.
THEOREM TypeCorrect == Spec => []TypeOK
<1>1. LoopInv => TypeOK
  BY DEF LoopInv
<1> QED
  BY <1>1, LoopInvariant, PTL

\* However threads wait, are cancelled, fail and leave their leases, the permits of
\* every stage add up to its budget and the queue depth counts who waits.
THEOREM PermitsAreConserved == Spec => []PermitsConserved
<1>1. LoopInv => PermitsConserved
  BY DEF LoopInv, PoolInv
<1> QED
  BY <1>1, LoopInvariant, PTL

\* Every row the loop has taken up is deferred, stored once, at hand or in the
\* deque, in order; a run that ends without a stop or an exception has stored every
\* row it did not defer; and one that says it is finished has no thread at work, no
\* lease out and no future open.
THEOREM NothingIsLeftBehind == Spec => []NothingLeftBehind
<1>1. LoopInv /\ EndOK => NothingLeftBehind
  <2> SUFFICES ASSUME LoopInv, EndOK, main.pc = "finished"
               PROVE  AllStored /\ AloneAtTheEnd
    BY DEF LoopInv, NothingLeftBehind, AllStored, AloneAtTheEnd
  <2>1. \A t \in Threads : ~Working(t)
    BY PrefetchAssumption DEF LoopInv, FutureOK, MainOK
  <2>2. \A r \in Rows : future[r] \notin {"queued", "running"}
    BY DEF LoopInv, FutureOK
  <2>3. ASSUME NEW s \in Stages PROVE permits[s] = Budget[s]
    <3>1. Holders(s) = {} /\ Got(s) = {}
      <4>1. DOMAIN <<>> = {}
        OBVIOUS
      <4> QED
        BY <2>1, <4>1 DEF LoopInv, PoolInv, TaskOK, Working, Holders, Got
    <3>2. permits[s] + Cardinality(Holders(s)) + Cardinality(Got(s)) = Budget[s]
      BY DEF LoopInv, PoolInv, PermitsConserved, Got
    <3>3. permits[s] \in Int
      BY PoolTypes DEF LoopInv
    <3> QED
      BY <3>1, <3>2, <3>3, FS_EmptySet
  <2>4. AllStored
    <3> SUFFICES ASSUME ~stop, ~main.raised PROVE Stored \cup dropped = Rows
      BY DEF AllStored
    <3>1. main.next = NRows + 1 /\ main.cur = NoRow /\ pending = <<>>
      BY DEF EndOK
    <3>2. InPending = {}
      BY <3>1 DEF InPending
    <3>3. 1 .. (main.next - 1) = Rows
      <4>1. main.next - 1 = NRows
        BY <3>1, PrefetchAssumption
      <4> QED
        BY <4>1, Zenon DEF Rows
    <3>4. NoRow \notin Stored \cup dropped
      BY LoopTypes, RowNumbers DEF Stored
    <3>5. (InPending \cup Stored \cup {main.cur} \cup dropped) \ {NoRow} = 1 .. (main.next - 1)
      BY DEF LoopInv, RowsAccounted
    <3>6. (InPending \cup Stored \cup {main.cur} \cup dropped) \ {NoRow} = Stored \cup dropped
      BY <3>1, <3>2, <3>4
    <3> QED
      BY <3>3, <3>5, <3>6, Zenon
  <2> QED
    BY <2>1, <2>2, <2>3, <2>4 DEF AloneAtTheEnd
<1> QED
  BY <1>1, LoopInvariant, EndInvariant, PTL
===============================================================================
