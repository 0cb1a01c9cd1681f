------------------------ MODULE RollingExecutorProofs ------------------------
(*****************************************************************************)
(* Theorems about RollingExecutor for every number of rows and workers,      *)
(* every ready limit and every assignment of hosts; and about RunCapacity,   *)
(* that the limits it works out for the executor, the lanes and the prefetch *)
(* fit each other, for every set of sources, concurrency and proxies.        *)
(*****************************************************************************)
EXTENDS RollingExecutor, RunCapacity, FiniteSetTheorems, WellFoundedInduction, TLAPS

\* Submissions stop for one of two reasons only: every worker is busy or the
\* ready queue is at its limit.
RefillInv ==
  ~error /\ ~closed /\ submitted < NRows =>
    Cardinality(InFlight) = Workers \/ Cardinality(ready) >= ReadyLimit

\* What the position of the consumer says about the rows before it.
ConsumerInv ==
  /\ closed <=> cpc \in {"shutdown", "closed"}
  /\ closed => ready = {}
  /\ cpc = "take" => pos \in Rows \ consumed
  /\ cpc \in {"row", "take"} => 1..(pos - 1) \subseteq consumed \cup SkipRows

\* The inductive invariant.
IInv == /\ TypeOK
        /\ RowConservation
        /\ WorkerBound
        /\ ReadyBound
        /\ RefillInv
        /\ ConsumerInv

----------------------------------------------------------------------------
(* Lemmas about the operators                                              *)

\* The sets whose sizes the executor compares are finite.
LEMMA FiniteRows ==
  ASSUME NEW S \in SUBSET Rows
  PROVE  IsFiniteSet(S) /\ Cardinality(S) \in Nat
<1>1. IsFiniteSet(Rows)
  BY ExecutorAssumption, FS_Interval DEF Rows
<1>2. IsFiniteSet(S)
  BY <1>1, FS_Subset
<1> QED
  BY <1>2, FS_CardinalityType

\* A refill never exceeds the free workers, the remaining rows or, beyond the
\* rows already running, the ready limit; and it leaves no room unused.
LEMMA RefillBounds ==
  ASSUME NEW sub \in 0..NRows, NEW i \in Nat, NEW w \in Nat, i <= Workers,
         w + i <= ReadyLimit + Workers - 1
  PROVE  LET k == RefillCount(sub, i, w)
         IN  /\ k \in Nat
             /\ sub + k <= NRows
             /\ i + k <= Workers
             /\ w + i + k <= ReadyLimit + Workers - 1
             /\ sub + k = NRows \/ i + k = Workers \/ w >= ReadyLimit
BY ExecutorAssumption DEF RefillCount, Smaller

\* Submitting k rows adds exactly those rows to the running tasks.
LEMMA SubmitAdds ==
  ASSUME submitted \in 0..NRows, NEW k \in Nat, submitted + k <= NRows,
         NEW tasks \in [Rows -> TaskState],
         {r \in Rows : tasks[r] # "idle"} \subseteq 1..submitted
  PROVE  LET old == {r \in Rows : tasks[r] # "idle"}
             new == {r \in Rows : Submit(tasks, k)[r] # "idle"}
             add == (submitted + 1)..(submitted + k)
         IN  /\ Submit(tasks, k) \in [Rows -> TaskState]
             /\ new = old \cup add
             /\ add \subseteq Rows
             /\ Cardinality(new) = Cardinality(old) + k
<1> DEFINE old == {r \in Rows : tasks[r] # "idle"}
           new == {r \in Rows : Submit(tasks, k)[r] # "idle"}
           add == (submitted + 1)..(submitted + k)
<1>1. add \subseteq Rows
  BY ExecutorAssumption DEF Rows
<1>2. Submit(tasks, k) \in [Rows -> TaskState]
  BY DEF Submit, TaskState
<1>3. new = old \cup add
  BY <1>1 DEF Submit
<1>4. old \cap add = {}
  BY DEF Rows
<1>5. IsFiniteSet(add) /\ Cardinality(add) = k
  BY FS_Interval
<1>6. IsFiniteSet(old) /\ Cardinality(old) \in Nat
  BY FiniteRows
<1>7. Cardinality(new) = Cardinality(old) + Cardinality(add) - Cardinality(old \cap add)
  BY <1>3, <1>5, <1>6, FS_Union
<1>8. Cardinality(old \cap add) = 0
  BY <1>4, FS_EmptySet
<1> QED
  BY <1>1, <1>2, <1>3, <1>5, <1>6, <1>7, <1>8

----------------------------------------------------------------------------
(* The invariant holds initially                                           *)

LEMMA InitInv == Init => IInv
<1> SUFFICES ASSUME Init PROVE IInv
  OBVIOUS
<1> DEFINE first == Smaller(Workers, NRows)
<1>1. first \in 0..NRows /\ first <= Workers /\ (first = NRows \/ first = Workers)
  BY ExecutorAssumption DEF Smaller
<1>2. /\ submitted = first /\ ready = {} /\ consumed = {} /\ closed = FALSE /\ error = FALSE
      /\ task = [r \in Rows |-> IF r <= first THEN "queued" ELSE "idle"]
  BY DEF Init
<1> HIDE DEF first
<1>3. InFlight = 1..first
  <2>1. task = [r \in Rows |-> IF r <= first THEN "queued" ELSE "idle"]
    BY <1>2
  <2>2. InFlight = {r \in Rows : r <= first}
    BY <2>1 DEF InFlight
  <2> QED
    BY <1>1, <2>2, ExecutorAssumption DEF Rows
<1>4. Cardinality(InFlight) = first
  BY <1>1, <1>3, FS_Interval
<1>5. Cardinality(ready) = 0
  BY <1>2, FS_EmptySet
<1>6. TypeOK
  <2>1. task \in [Rows -> TaskState]
    BY <1>2 DEF TaskState
  <2>2. completed \in BOOLEAN
    BY DEF Init
  <2>3. lease \in [Hosts -> Nat] /\ cpc = "row" /\ pos = 1 /\ outcome = "running"
    BY DEF Init
  <2>4. buffer \in SUBSET (Rows \X Phases)
    BY DEF Init
  <2>5. submitted \in 0..NRows /\ pos \in 1..(NRows + 1)
    BY <1>1, <1>2, <2>3, ExecutorAssumption
  <2>6. ready \in SUBSET Rows /\ consumed \in SUBSET Rows
    BY <1>2
  <2>7. error \in BOOLEAN /\ closed \in BOOLEAN
    BY <1>2
  <2> QED
    BY <2>1, <2>2, <2>3, <2>4, <2>5, <2>6, <2>7 DEF TypeOK
<1>7. RowConservation
  BY <1>2, <1>3 DEF RowConservation
<1>8. WorkerBound /\ ReadyBound /\ RefillInv
  BY <1>1, <1>2, <1>4, <1>5, ExecutorAssumption DEF WorkerBound, ReadyBound, RefillInv
<1>9. ConsumerInv
  BY DEF Init, ConsumerInv
<1> QED
  BY <1>6, <1>7, <1>8, <1>9 DEF IInv

----------------------------------------------------------------------------
(* Every step preserves the invariant                                      *)

\* A step that moves no row between the sets the executor keeps.
LEMMA QuietStep ==
  ASSUME IInv, TypeOK', ConsumerInv', InFlight' = InFlight,
         UNCHANGED <<submitted, ready, consumed, error, closed>>
  PROVE  IInv'
BY DEF IInv, RowConservation, WorkerBound, ReadyBound, RefillInv

\* A worker moves its task on; the row stays in flight.
LEMMA StepInv ==
  ASSUME IInv, NEW r \in Rows, NEW from \in TaskState \ {"idle"},
         NEW to \in TaskState \ {"idle"}, Step(r, from, to),
         lease' \in [Hosts -> Nat], buffer' \in SUBSET (Rows \X Phases)
  PROVE  IInv'
<1>1. TypeOK'
  BY DEF IInv, TypeOK, Step, consumerVars
<1>2. InFlight' = InFlight
  BY DEF IInv, TypeOK, Step, InFlight
<1>3. ConsumerInv'
  BY DEF IInv, ConsumerInv, Step, consumerVars
<1> QED
  BY <1>1, <1>2, <1>3, QuietStep DEF Step, consumerVars

LEMMA WorkerInv ==
  ASSUME IInv, NEW r \in Rows,
         \/ Start(r) \/ SearchDone(r) \/ SearchFails(r) \/ ResolveHosts(r)
         \/ AcquireHosts(r) \/ AcquireCancelled(r) \/ CheckAfterAcquire(r)
         \/ DownstreamDone(r) \/ DownstreamFails(r) \/ CancelQueued(r)
  PROVE  IInv'
<1> USE DEF TaskState, Working, Resolved
<1>1. /\ lease \in [Hosts -> Nat]
      /\ buffer \in SUBSET (Rows \X Phases)
      /\ Released(r) \in [Hosts -> Nat]
  BY DEF IInv, TypeOK, Released
<1>2. \A phase \in Phases : MayEmit(r, phase) => buffer' \in SUBSET (Rows \X Phases)
  BY <1>1 DEF MayEmit
<1>3. \A phase \in Phases : TakeBucket(r, phase) \in SUBSET (Rows \X Phases)
  BY <1>1 DEF TakeBucket
<1>4. "source_search" \in Phases
  BY DEF Phases
<1>5. CASE Start(r)
  BY <1>1, <1>5, StepInv DEF Start
<1>6. CASE SearchDone(r)
  BY <1>1, <1>2, <1>3, <1>4, <1>6, StepInv DEF SearchDone
<1>7. CASE SearchFails(r)
  BY <1>1, <1>2, <1>4, <1>7, StepInv DEF SearchFails
<1>8. CASE ResolveHosts(r)
  BY <1>1, <1>8, StepInv DEF ResolveHosts
<1>9. CASE AcquireHosts(r)
  <2>1. lease' \in [Hosts -> Nat]
    BY <1>1, <1>9 DEF AcquireHosts
  <2> QED
    BY <1>1, <1>9, <2>1, StepInv DEF AcquireHosts
<1>10. CASE AcquireCancelled(r)
  BY <1>1, <1>10, StepInv DEF AcquireCancelled
<1>11. CASE CheckAfterAcquire(r)
  BY <1>1, <1>11, StepInv DEF CheckAfterAcquire
<1>12. CASE DownstreamDone(r)
  BY <1>1, <1>3, <1>4, <1>12, StepInv DEF DownstreamDone
<1>13. CASE DownstreamFails(r)
  BY <1>1, <1>13, StepInv DEF DownstreamFails
<1>14. CASE CancelQueued(r)
  BY <1>1, <1>14, StepInv DEF CancelQueued
<1> QED
  BY <1>5, <1>6, <1>7, <1>8, <1>9, <1>10, <1>11, <1>12, <1>13, <1>14

\* The completion callback: the row leaves the in-flight map, its batch may
\* become ready, and new rows are submitted.
LEMMA HandleInv ==
  ASSUME IInv, NEW r \in Rows, HandleCompletion(r)
  PROVE  IInv'
<1> DEFINE err  == error \/ FailsRun(r)
           rest == [task EXCEPT ![r] = "idle"]
           i    == Cardinality(InFlight \ {r})
           w    == Cardinality(ReadyAfter(r))
           k    == IF err \/ closed THEN 0 ELSE RefillCount(submitted, i, w)
           add  == (submitted + 1)..(submitted + k)
<1>1. /\ task[r] \in Resolved
      /\ error' = err /\ ready' = ReadyAfter(r) /\ submitted' = submitted + k
      /\ task' = Submit(rest, k)
      /\ completed' = (completed \/ (InFlight \ {r} = {} /\ submitted = NRows))
      /\ UNCHANGED <<consumed, closed, lease, buffer, cpc, pos, outcome>>
  BY DEF HandleCompletion, consumerVars
<1>2. /\ InFlight \in SUBSET Rows /\ ready \in SUBSET Rows
      /\ r \in InFlight /\ r \notin ready /\ r \notin consumed /\ r \in 1..submitted
      /\ submitted \in 0..NRows
  BY <1>1 DEF InFlight, IInv, TypeOK, RowConservation, Resolved
<1>3. i \in Nat /\ i = Cardinality(InFlight) - 1
  BY <1>2, FiniteRows, FS_RemoveElement
<1>4. ReadyAfter(r) \in SUBSET Rows /\ w \in Nat /\ w <= Cardinality(ready) + 1
  <2>1. ReadyAfter(r) \in {ready, ready \cup {r}}
    BY DEF ReadyAfter
  <2>2. Cardinality(ready) \in Nat /\ Cardinality(ready \cup {r}) = Cardinality(ready) + 1
    BY <1>2, FiniteRows, FS_AddElement
  <2> HIDE DEF w
  <2>3. w = Cardinality(ReadyAfter(r))
    BY DEF w
  <2>4. CASE ReadyAfter(r) = ready
    BY <1>2, <2>2, <2>3, <2>4
  <2>5. CASE ReadyAfter(r) = ready \cup {r}
    BY <1>2, <2>2, <2>3, <2>5
  <2> QED
    BY <2>1, <2>4, <2>5
<1>5. /\ i <= Workers
      /\ w + i <= ReadyLimit + Workers - 1
  <2>1. Cardinality(ready) \in Nat /\ Cardinality(InFlight) \in Nat
    BY <1>2, FiniteRows
  <2> HIDE DEF i, w
  <2> QED
    BY <1>3, <1>4, <2>1, ExecutorAssumption DEF IInv, WorkerBound, ReadyBound
<1>6. /\ k \in Nat
      /\ submitted + k <= NRows
      /\ i + k <= Workers
      /\ w + i + k <= ReadyLimit + Workers - 1
      /\ ~err /\ ~closed => submitted + k = NRows \/ i + k = Workers \/ w >= ReadyLimit
  <2> HIDE DEF i, w, err
  <2>1. CASE err \/ closed
    BY <1>2, <1>3, <1>4, <1>5, <2>1, ExecutorAssumption
  <2>2. CASE ~(err \/ closed)
    BY <1>2, <1>3, <1>4, <1>5, <2>2, RefillBounds
  <2> QED
    BY <2>1, <2>2
<1>7. /\ task' \in [Rows -> TaskState]
      /\ InFlight' = (InFlight \ {r}) \cup add
      /\ add \subseteq Rows
      /\ Cardinality(InFlight') = i + k
  <2>1. rest \in [Rows -> TaskState]
    BY DEF IInv, TypeOK, TaskState
  <2>2. {x \in Rows : rest[x] # "idle"} = InFlight \ {r}
    BY DEF InFlight, IInv, TypeOK
  <2>3. InFlight \ {r} \subseteq 1..submitted
    BY DEF IInv, RowConservation
  <2>4. InFlight' = {x \in Rows : Submit(rest, k)[x] # "idle"}
    BY <1>1 DEF InFlight
  <2> HIDE DEF k, rest
  <2> QED
    BY <1>1, <1>2, <1>6, <2>1, <2>2, <2>3, <2>4, SubmitAdds
<1>8. RowConservation'
  <2>1. ready \cap consumed = {} /\ InFlight \cap (ready \cup consumed) = {}
        /\ InFlight \cup ready \cup consumed \subseteq 1..submitted
    BY DEF IInv, RowConservation
  <2>2. add \cap (1..submitted) = {} /\ 1..(submitted + k) = 1..submitted \cup add
    <3> HIDE DEF k
    <3> QED
      BY <1>2, <1>6
  <2>3. ready' \subseteq ready \cup {r}
    BY <1>1 DEF ReadyAfter
  <2>4. ready' \cap consumed' = {}
    BY <1>1, <1>2, <2>1, <2>3
  <2>5. InFlight' \cap (ready' \cup consumed') = {}
    BY <1>1, <1>2, <1>7, <2>1, <2>2, <2>3
  <2>6. InFlight' \cup ready' \cup consumed' \subseteq 1..submitted'
    BY <1>1, <1>2, <1>7, <2>1, <2>2, <2>3
  <2>7. ASSUME ~error', ~closed'
        PROVE  1..submitted' = InFlight' \cup ready' \cup consumed'
    <3>1. ~error /\ ~closed /\ task[r] = "returned"
      BY <1>1, <2>7 DEF FailsRun, Resolved
    <3>2. ready' = ready \cup {r}
      BY <1>1, <3>1 DEF ReadyAfter
    <3>3. 1..submitted = InFlight \cup ready \cup consumed
      BY <3>1 DEF IInv, RowConservation
    <3> QED
      BY <1>1, <1>2, <1>7, <2>2, <3>2, <3>3
  <2> QED
    BY <2>4, <2>5, <2>6, <2>7 DEF RowConservation
<1>9. TypeOK'
  <2>1. error' \in BOOLEAN /\ completed' \in BOOLEAN
    BY <1>1 DEF IInv, TypeOK
  <2>2. submitted' \in 0..NRows
    BY <1>1, <1>2, <1>6
  <2>3. ready' \in SUBSET Rows
    BY <1>1, <1>4
  <2> QED
    BY <1>1, <1>7, <2>1, <2>2, <2>3 DEF IInv, TypeOK
<1>10. WorkerBound' /\ ReadyBound'
  <2> HIDE DEF i, w, k
  <2>1. Cardinality(ready') = w
    BY <1>1 DEF w
  <2> QED
    BY <1>3, <1>4, <1>6, <1>7, <2>1, ExecutorAssumption DEF WorkerBound, ReadyBound
<1>11. RefillInv'
  <2> HIDE DEF i, k, err
  <2>1. Cardinality(ready') = w
    BY <1>1
  <2> HIDE DEF w
  <2> QED
    BY <1>1, <1>2, <1>3, <1>4, <1>6, <1>7, <2>1 DEF RefillInv
<1>12. ConsumerInv'
  BY <1>1 DEF IInv, ConsumerInv, ReadyAfter
<1> QED
  BY <1>8, <1>9, <1>10, <1>11, <1>12 DEF IInv

\* take or take_ready: a ready batch becomes a consumed row, and new rows are
\* submitted.
LEMMA ConsumeInv ==
  ASSUME IInv, NEW r \in ready, Consume(r), cpc \in {"row", "take"},
         cpc' = "row", outcome' = outcome,
         pos' = pos \/ (pos' = pos + 1 /\ pos = r)
  PROVE  IInv'
<1> DEFINE i    == Cardinality(InFlight)
           w    == Cardinality(ready \ {r})
           k    == IF error \/ closed THEN 0 ELSE RefillCount(submitted, i, w)
           add  == (submitted + 1)..(submitted + k)
<1>1. /\ ready' = ready \ {r} /\ consumed' = consumed \cup {r}
      /\ submitted' = submitted + k /\ task' = Submit(task, k)
      /\ UNCHANGED <<error, completed, closed, lease, buffer>>
  BY DEF Consume
<1>2. /\ InFlight \in SUBSET Rows /\ ready \in SUBSET Rows /\ r \in Rows
      /\ r \notin InFlight /\ r \notin consumed /\ r \in 1..submitted
      /\ submitted \in 0..NRows /\ pos \in 1..(NRows + 1)
  BY DEF InFlight, IInv, TypeOK, RowConservation
<1>3. i \in Nat /\ w \in Nat /\ Cardinality(ready) \in Nat /\ w = Cardinality(ready) - 1
  BY <1>2, FiniteRows, FS_RemoveElement
<1>4. i <= Workers /\ w + i <= ReadyLimit + Workers - 1
  <2>1. i <= Workers /\ Cardinality(ready) + i <= ReadyLimit + Workers - 1
    BY DEF IInv, WorkerBound, ReadyBound
  <2> HIDE DEF i, w
  <2> QED
    BY <1>3, <2>1, ExecutorAssumption
<1>5. /\ k \in Nat
      /\ submitted + k <= NRows
      /\ i + k <= Workers
      /\ w + i + k <= ReadyLimit + Workers - 1
      /\ ~error /\ ~closed => submitted + k = NRows \/ i + k = Workers \/ w >= ReadyLimit
  <2> HIDE DEF i, w
  <2>1. CASE error \/ closed
    BY <1>2, <1>3, <1>4, <2>1, ExecutorAssumption
  <2>2. CASE ~(error \/ closed)
    BY <1>2, <1>3, <1>4, <2>2, RefillBounds
  <2> QED
    BY <2>1, <2>2
<1>6. /\ task' \in [Rows -> TaskState]
      /\ InFlight' = InFlight \cup add
      /\ add \subseteq Rows
      /\ Cardinality(InFlight') = i + k
  <2>1. task \in [Rows -> TaskState] /\ InFlight \subseteq 1..submitted
    BY DEF IInv, TypeOK, RowConservation
  <2>2. {x \in Rows : task[x] # "idle"} = InFlight
    BY DEF InFlight
  <2>3. InFlight' = {x \in Rows : Submit(task, k)[x] # "idle"}
    BY <1>1 DEF InFlight
  <2> HIDE DEF k
  <2> QED
    BY <1>1, <1>2, <1>5, <2>1, <2>2, <2>3, SubmitAdds
<1>7. RowConservation'
  <2>1. ready \cap consumed = {} /\ InFlight \cap (ready \cup consumed) = {}
        /\ InFlight \cup ready \cup consumed \subseteq 1..submitted
    BY DEF IInv, RowConservation
  <2>2. add \cap (1..submitted) = {} /\ 1..(submitted + k) = 1..submitted \cup add
    <3> HIDE DEF k
    <3> QED
      BY <1>2, <1>5
  <2>3. ready' \cup consumed' = ready \cup consumed /\ ready' \cap consumed' = {}
    BY <1>1, <1>2, <2>1
  <2>4. InFlight' \cap (ready' \cup consumed') = {}
    BY <1>6, <2>1, <2>2, <2>3
  <2>5. InFlight' \cup ready' \cup consumed' \subseteq 1..submitted'
    BY <1>1, <1>6, <2>1, <2>2, <2>3
  <2>6. ASSUME ~error', ~closed'
        PROVE  1..submitted' = InFlight' \cup ready' \cup consumed'
    <3>1. 1..submitted = InFlight \cup ready \cup consumed
      BY <1>1, <2>6 DEF IInv, RowConservation
    <3> QED
      BY <1>1, <1>6, <2>2, <2>3, <3>1
  <2> QED
    BY <2>3, <2>4, <2>5, <2>6 DEF RowConservation
<1>8. TypeOK'
  <2>1. submitted' \in 0..NRows
    <3> HIDE DEF k
    <3> QED
      BY <1>1, <1>2, <1>5
  <2>2. ready' \in SUBSET Rows /\ consumed' \in SUBSET Rows
    BY <1>1, <1>2 DEF IInv, TypeOK
  <2>3. pos' \in 1..(NRows + 1)
    BY <1>2, ExecutorAssumption DEF Rows
  <2> QED
    BY <1>1, <1>6, <2>1, <2>2, <2>3 DEF IInv, TypeOK
<1>9. WorkerBound' /\ ReadyBound' /\ RefillInv'
  <2>1. Cardinality(ready') = w
    BY <1>1
  <2> HIDE DEF i, w, k
  <2> QED
    BY <1>1, <1>2, <1>3, <1>5, <1>6, <2>1, ExecutorAssumption
    DEF WorkerBound, ReadyBound, RefillInv
<1>10. ConsumerInv'
  <2>1. closed = FALSE /\ 1..(pos - 1) \subseteq consumed \cup SkipRows
    BY DEF IInv, ConsumerInv
  <2>2. 1..(pos' - 1) \subseteq consumed' \cup SkipRows
    BY <1>1, <1>2, <2>1 DEF Rows
  <2> QED
    BY <1>1, <2>1, <2>2 DEF ConsumerInv
<1> QED
  BY <1>7, <1>8, <1>9, <1>10 DEF IInv

\* The consumer's own steps.
LEMMA ConsumerStepInv ==
  ASSUME IInv, ConsumerStep \/ TakeReady \/ StopEarly
  PROVE  IInv'
<1>1. CASE VisitRow
  <2>1. TypeOK' /\ ConsumerInv'
    BY <1>1, ExecutorAssumption
    DEF VisitRow, taskVars, IInv, TypeOK, ConsumerInv, RowConservation, Rows
  <2>2. InFlight' = InFlight
    BY <1>1 DEF VisitRow, taskVars, InFlight
  <2> QED
    BY <1>1, <2>1, <2>2, QuietStep DEF VisitRow, taskVars
<1>2. CASE TakeReturns
  BY <1>2, ConsumeInv DEF TakeReturns
<1>3. CASE TakeReady
  BY <1>3, ConsumeInv DEF TakeReady, consumerVars
<1>4. ASSUME NEW why \in {"drained", "failed", "stopped"}, Leave(why),
             cpc \in {"row", "take", "drain"}
      PROVE  IInv'
  <2>1. TypeOK' /\ ConsumerInv'
    BY <1>4 DEF Leave, taskVars, IInv, TypeOK, ConsumerInv
  <2>2. InFlight' = InFlight
    BY <1>4 DEF Leave, taskVars, InFlight
  <2> QED
    BY <1>4, <2>1, <2>2, QuietStep DEF Leave, taskVars
<1>5. CASE TakeRaises
  BY <1>4, <1>5 DEF TakeRaises
<1>6. CASE StopEarly
  BY <1>4, <1>6 DEF StopEarly
<1>7. CASE EnsureDrained
  <2>1. (IF Drained THEN "drained" ELSE "failed") \in {"drained", "failed", "stopped"}
    OBVIOUS
  <2> QED
    BY <1>4, <1>7, <2>1 DEF EnsureDrained
<1>8. CASE RowsDone
  <2>1. TypeOK' /\ ConsumerInv'
    BY <1>8 DEF RowsDone, taskVars, IInv, TypeOK, ConsumerInv
  <2>2. InFlight' = InFlight
    BY <1>8 DEF RowsDone, taskVars, InFlight
  <2> QED
    BY <1>8, <2>1, <2>2, QuietStep DEF RowsDone, taskVars
<1>9. CASE CloseEnd
  <2>1. TypeOK' /\ ConsumerInv'
    BY <1>9 DEF CloseEnd, taskVars, IInv, TypeOK, ConsumerInv
  <2>2. InFlight' = InFlight
    BY <1>9 DEF CloseEnd, taskVars, InFlight
  <2> QED
    BY <1>9, <2>1, <2>2, QuietStep DEF CloseEnd, taskVars
<1>10. CASE CloseBegin
  <2>1. TypeOK' /\ ConsumerInv'
    BY <1>10 DEF CloseBegin, IInv, TypeOK, ConsumerInv
  <2>2. InFlight' = InFlight
    BY <1>10 DEF CloseBegin, InFlight
  <2>3. ready' = {} /\ closed' = TRUE /\ consumed' = consumed /\ submitted' = submitted
    BY <1>10 DEF CloseBegin
  <2>4. Cardinality(ready') = 0
    BY <2>3, FS_EmptySet
  <2>5. InFlight \in SUBSET Rows
    BY DEF InFlight
  <2>6. Cardinality(InFlight) \in Nat
    BY <2>5, FiniteRows
  <2> QED
    BY <2>1, <2>2, <2>3, <2>4, <2>6, ExecutorAssumption
    DEF IInv, RowConservation, WorkerBound, ReadyBound, RefillInv
<1> QED
  BY <1>1, <1>2, <1>3, <1>5, <1>6, <1>7, <1>8, <1>9, <1>10 DEF ConsumerStep

LEMMA NextInv == IInv /\ [Next]_vars => IInv'
<1> SUFFICES ASSUME IInv, [Next]_vars PROVE IInv'
  OBVIOUS
<1>1. CASE UNCHANGED vars
  BY <1>1 DEF vars, IInv, TypeOK, RowConservation, WorkerBound, ReadyBound, RefillInv,
              ConsumerInv, InFlight
<1>2. ASSUME NEW r \in Rows, TaskStep(r) \/ CancelQueued(r) PROVE IInv'
  BY <1>2, WorkerInv, HandleInv DEF TaskStep
<1> QED
  BY <1>1, <1>2, ConsumerStepInv DEF Next

THEOREM Invariance == Spec => []IInv
BY InitInv, NextInv, PTL DEF Spec

----------------------------------------------------------------------------
(* The theorems                                                            *)

\* Type correctness of the executor.
THEOREM TypeCorrect == Spec => []TypeOK
<1>1. IInv => TypeOK
  BY DEF IInv
<1> QED
  BY <1>1, Invariance, PTL

\* No batch is lost or handed over twice (RollingCompanySourceBatchExecutor).
THEOREM NoBatchLost == Spec => []RowConservation
<1>1. IInv => RowConservation
  BY DEF IInv
<1> QED
  BY <1>1, Invariance, PTL

\* Batches ready or in flight stay within the ready limit plus the workers
\* less one, and calls in flight within the workers (_update_backpressure).
THEOREM Bounded == Spec => []ReadyBound /\ []WorkerBound
<1>1. IInv => ReadyBound /\ WorkerBound
  BY DEF IInv
<1> QED
  BY <1>1, Invariance, PTL

\* When the row loop asks for every row it does not pass over, a blocked take
\* always has a call in flight to wait for.  All rows before its own are
\* consumed, so a ready queue at its limit holds a later row, hence its own
\* was submitted: it is in flight, ready or failed.
THEOREM TakeNeverStarves ==
  ASSUME SkipRows = {}
  PROVE  Spec => []NoStuckTaker
<1>1. IInv => NoStuckTaker
  <2> SUFFICES ASSUME IInv, cpc = "take", error = FALSE, pos \notin ready, InFlight = {}
               PROVE  FALSE
    BY DEF NoStuckTaker, IInv, TypeOK
  <2>1. /\ closed = FALSE /\ pos \in Rows \ consumed
        /\ 1..(pos - 1) \subseteq consumed
    BY DEF IInv, ConsumerInv
  <2>2. /\ 1..submitted = ready \cup consumed
        /\ ready \cap consumed = {}
        /\ submitted \in 0..NRows
    BY <2>1 DEF IInv, RowConservation, TypeOK
  <2>3. pos \notin 1..submitted
    BY <2>1, <2>2
  <2>4. submitted < pos /\ submitted < NRows
    BY <2>1, <2>2, <2>3, ExecutorAssumption DEF Rows
  <2>5. ready = {}
    BY <2>1, <2>2, <2>4 DEF Rows
  <2>6. Cardinality(ready) = 0 /\ Cardinality(InFlight) = 0
    BY <2>5, FS_EmptySet
  <2> QED
    BY <2>1, <2>4, <2>6, ExecutorAssumption DEF IInv, RefillInv
<1> QED
  BY <1>1, Invariance, PTL

----------------------------------------------------------------------------
(* What a drained run leaves behind                                        *)

\* Until the executor fails or closes, a bucket of events belongs to a row that
\* still runs and will take it away, or whose failure is about to be noticed;
\* and the consumer that drains has passed every row.
TidyInv ==
  /\ ~error /\ ~closed =>
       buffer \subseteq {r \in Rows : task[r] \in {"resolve", "waiting", "leased", "downstream",
                                                   "raised", "cancelled"}} \X {"source_search"}
  /\ cpc = "drain" => Rows \subseteq consumed \cup SkipRows

\* A task that goes on keeps its bucket, one that ends well has taken it.
LEMMA BucketStep ==
  ASSUME IInv, TidyInv, NEW r \in Rows, NEW from, NEW to, Step(r, from, to),
         to \in {"resolve", "waiting", "leased", "downstream", "raised", "cancelled"}
           \/ <<r, "source_search">> \notin buffer',
         buffer' \subseteq buffer \cup {<<r, "source_search">>}
  PROVE  TidyInv'
<1>1. /\ task' = [task EXCEPT ![r] = to] /\ task \in [Rows -> TaskState]
      /\ UNCHANGED <<error, closed, consumed, cpc>>
  BY DEF IInv, TypeOK, Step, consumerVars
<1>2. ASSUME ~error, ~closed, NEW b \in buffer'
      PROVE  b \in {x \in Rows : task'[x] \in {"resolve", "waiting", "leased", "downstream",
                                               "raised", "cancelled"}} \X {"source_search"}
  <2>1. CASE b = <<r, "source_search">>
    BY <1>1, <1>2, <2>1
  <2>2. CASE b # <<r, "source_search">>
    <3>1. PICK x \in Rows :
            /\ b = <<x, "source_search">>
            /\ task[x] \in {"resolve", "waiting", "leased", "downstream", "raised", "cancelled"}
      BY <1>2, <2>2 DEF TidyInv
    <3>2. x # r
      BY <2>2, <3>1
    <3> QED
      BY <1>1, <3>1, <3>2
  <2> QED
    BY <2>1, <2>2
<1> QED
  BY <1>1, <1>2 DEF TidyInv

LEMMA WorkerTidy ==
  ASSUME IInv, TidyInv, NEW r \in Rows,
         \/ Start(r) \/ SearchDone(r) \/ SearchFails(r) \/ ResolveHosts(r)
         \/ AcquireHosts(r) \/ AcquireCancelled(r) \/ CheckAfterAcquire(r)
         \/ DownstreamDone(r) \/ DownstreamFails(r) \/ CancelQueued(r)
  PROVE  TidyInv'
<1>1. CASE Start(r)
  <2>1. /\ Step(r, "queued", "search") /\ buffer' = buffer
    BY <1>1 DEF Start
  <2>2. TidyInv'
    <3>1. /\ task' = [task EXCEPT ![r] = "search"] /\ task[r] = "queued"
          /\ task \in [Rows -> TaskState] /\ UNCHANGED <<error, closed, consumed, cpc>>
      BY <2>1 DEF IInv, TypeOK, Step, consumerVars
    <3>2. \A x \in Rows : task[x] \in {"resolve", "waiting", "leased", "downstream", "raised",
                                       "cancelled"} => task'[x] = task[x]
      BY <3>1
    <3> QED
      BY <2>1, <3>1, <3>2 DEF TidyInv
  <2> QED
    BY <2>2
<1>2. CASE SearchDone(r)
  <2>1. CASE HasDownstream
    BY <1>2, <2>1, BucketStep DEF SearchDone, MayEmit
  <2>2. CASE ~HasDownstream
    BY <1>2, <2>2, BucketStep DEF SearchDone, TakeBucket
  <2> QED
    BY <2>1, <2>2
<1>3. CASE SearchFails(r)
  BY <1>3, BucketStep DEF SearchFails, MayEmit
<1>4. CASE ResolveHosts(r)
  BY <1>4, BucketStep DEF ResolveHosts
<1>5. CASE AcquireHosts(r)
  BY <1>5, BucketStep DEF AcquireHosts
<1>6. CASE AcquireCancelled(r)
  BY <1>6, BucketStep DEF AcquireCancelled
<1>7. CASE CheckAfterAcquire(r)
  BY <1>7, BucketStep DEF CheckAfterAcquire
<1>8. CASE DownstreamDone(r)
  BY <1>8, BucketStep DEF DownstreamDone, TakeBucket
<1>9. CASE DownstreamFails(r)
  BY <1>9, BucketStep DEF DownstreamFails
<1>10. CASE CancelQueued(r)
  BY <1>10, BucketStep DEF CancelQueued
<1> QED
  BY <1>1, <1>2, <1>3, <1>4, <1>5, <1>6, <1>7, <1>8, <1>9, <1>10

\* New submissions touch no row that has a bucket.
LEMMA SubmitTidy ==
  ASSUME IInv, TidyInv, NEW tasks \in [Rows -> TaskState], NEW k \in Nat,
         task' = Submit(tasks, k), buffer' = buffer, closed' = closed, ~error' => ~error,
         \A x \in Rows : ~error' /\ ~closed /\ tasks[x] # task[x] =>
           task[x] \notin {"resolve", "waiting", "leased", "downstream", "raised", "cancelled"},
         cpc' # "drain" \/ (cpc = "drain" /\ consumed' = consumed)
  PROVE  TidyInv'
<1>1. ASSUME ~error', ~closed', NEW b \in buffer'
      PROVE  b \in {x \in Rows : task'[x] \in {"resolve", "waiting", "leased", "downstream",
                                               "raised", "cancelled"}} \X {"source_search"}
  <2>1. PICK x \in Rows :
          /\ b = <<x, "source_search">>
          /\ task[x] \in {"resolve", "waiting", "leased", "downstream", "raised", "cancelled"}
    BY <1>1 DEF TidyInv
  <2>2. x \in 1..submitted /\ tasks[x] = task[x] /\ submitted \in 0..NRows
    BY <1>1, <2>1 DEF IInv, TypeOK, RowConservation, InFlight
  <2>3. task'[x] = task[x]
    BY <2>2 DEF Submit
  <2> QED
    BY <2>1, <2>3
<1> QED
  BY <1>1 DEF TidyInv

LEMMA HandleTidy ==
  ASSUME IInv, TidyInv, NEW r \in Rows, HandleCompletion(r)
  PROVE  TidyInv'
<1> DEFINE err  == error \/ FailsRun(r)
           rest == [task EXCEPT ![r] = "idle"]
           n    == RefillCount(submitted, Cardinality(InFlight \ {r}), Cardinality(ReadyAfter(r)))
           k    == IF err \/ closed THEN 0 ELSE n
<1>1. /\ task[r] \in Resolved /\ error' = err /\ task' = Submit(rest, k)
      /\ UNCHANGED <<consumed, closed, buffer, cpc>>
  BY DEF HandleCompletion, consumerVars
<1>2. task \in [Rows -> TaskState] /\ rest \in [Rows -> TaskState]
  BY DEF IInv, TypeOK, TaskState
<1>3. k \in Nat
  <2>1. /\ InFlight \ {r} \in SUBSET Rows /\ ReadyAfter(r) \in SUBSET Rows
        /\ InFlight \in SUBSET Rows /\ r \in InFlight /\ submitted \in 0..NRows
    BY <1>1 DEF IInv, TypeOK, InFlight, ReadyAfter, Resolved
  <2>2. /\ Cardinality(InFlight \ {r}) \in Nat /\ Cardinality(InFlight \ {r}) <= Workers
        /\ Cardinality(ReadyAfter(r)) \in Nat
    <3>1. Cardinality(InFlight \ {r}) = Cardinality(InFlight) - 1 /\ Cardinality(InFlight) \in Nat
      BY <2>1, FiniteRows, FS_RemoveElement
    <3>2. Cardinality(InFlight \ {r}) \in Nat /\ Cardinality(ReadyAfter(r)) \in Nat
      BY <2>1, FiniteRows
    <3>3. Cardinality(InFlight) <= Workers
      BY DEF IInv, WorkerBound
    <3> QED
      BY <3>1, <3>2, <3>3, ExecutorAssumption
  <2>3. n \in Nat
    BY <2>1, <2>2, ExecutorAssumption DEF RefillCount, Smaller
  <2> QED
    BY <2>3
<1>4. \A x \in Rows : ~error' /\ ~closed /\ rest[x] # task[x] =>
        task[x] \notin {"resolve", "waiting", "leased", "downstream", "raised", "cancelled"}
  BY <1>1, <1>2 DEF FailsRun, Resolved
<1> HIDE DEF rest, k
<1> QED
  BY <1>1, <1>2, <1>3, <1>4, SubmitTidy

LEMMA ConsumeTidy ==
  ASSUME IInv, TidyInv, NEW r \in ready, Consume(r), cpc' = "row"
  PROVE  TidyInv'
<1> DEFINE k == IF error \/ closed THEN 0
                ELSE RefillCount(submitted, Cardinality(InFlight), Cardinality(ready \ {r}))
<1>1. task' = Submit(task, k) /\ UNCHANGED <<error, closed, buffer>>
  BY DEF Consume
<1>2. task \in [Rows -> TaskState]
  BY DEF IInv, TypeOK
<1>3. k \in Nat
  <2>1. /\ InFlight \in SUBSET Rows /\ ready \ {r} \in SUBSET Rows /\ submitted \in 0..NRows
    BY DEF IInv, TypeOK, InFlight
  <2>2. /\ Cardinality(InFlight) \in Nat /\ Cardinality(InFlight) <= Workers
        /\ Cardinality(ready \ {r}) \in Nat
    BY <2>1, FiniteRows DEF IInv, WorkerBound
  <2> QED
    BY <2>1, <2>2, ExecutorAssumption DEF RefillCount, Smaller
<1> HIDE DEF k
<1> QED
  BY <1>1, <1>2, <1>3, SubmitTidy

LEMMA TidyNext == IInv /\ TidyInv /\ [Next]_vars => TidyInv'
<1> SUFFICES ASSUME IInv, TidyInv, [Next]_vars PROVE TidyInv'
  OBVIOUS
<1>1. CASE UNCHANGED vars
  BY <1>1 DEF vars, TidyInv
<1>2. ASSUME NEW r \in Rows, TaskStep(r) \/ CancelQueued(r) PROVE TidyInv'
  BY <1>2, WorkerTidy, HandleTidy DEF TaskStep
<1>3. CASE VisitRow
  BY <1>3 DEF VisitRow, taskVars, TidyInv
<1>4. CASE TakeReturns
  BY <1>4, ConsumeTidy DEF TakeReturns
<1>5. CASE TakeReady
  BY <1>5, ConsumeTidy DEF TakeReady, consumerVars
<1>6. CASE TakeRaises \/ StopEarly \/ EnsureDrained
  BY <1>6 DEF TakeRaises, StopEarly, EnsureDrained, Leave, taskVars, TidyInv
<1>7. CASE RowsDone
  <2>1. pos \in 1..(NRows + 1) /\ pos \notin Rows
    BY <1>7 DEF RowsDone, IInv, TypeOK
  <2>2. Rows = 1..(pos - 1)
    BY <2>1, ExecutorAssumption DEF Rows
  <2>3. Rows \subseteq consumed \cup SkipRows
    BY <1>7, <2>2 DEF RowsDone, IInv, ConsumerInv
  <2> QED
    BY <1>7, <2>3 DEF RowsDone, taskVars, TidyInv
<1>8. CASE CloseBegin
  BY <1>8 DEF CloseBegin, TidyInv
<1>9. CASE CloseEnd
  BY <1>9 DEF CloseEnd, taskVars, TidyInv
<1> QED
  BY <1>1, <1>2, <1>3, <1>4, <1>5, <1>6, <1>7, <1>8, <1>9 DEF Next, ConsumerStep

LEMMA Tidiness == Spec => []TidyInv
<1>1. Init => TidyInv
  BY DEF Init, TidyInv
<1> QED
  BY <1>1, TidyNext, Invariance, PTL DEF Spec

\* When the row loop asks for every row and nothing failed, ensure_drained finds
\* every row taken and no batch and no bucket of events left, for any number of
\* rows, workers and hosts.
THEOREM DrainIsClean ==
  ASSUME SkipRows = {}
  PROVE  Spec => []DrainSucceeds
<1>1. IInv /\ TidyInv => DrainSucceeds
  <2> SUFFICES ASSUME IInv, TidyInv, cpc = "drain", ~error PROVE Drained
    BY DEF DrainSucceeds
  <2>1. ~closed /\ consumed = Rows
    BY DEF IInv, TypeOK, ConsumerInv, TidyInv
  <2>2. ready = {} /\ InFlight = {}
    BY <2>1 DEF IInv, TypeOK, RowConservation, InFlight
  <2>3. \A r \in Rows : task[r] = "idle"
    BY <2>2 DEF InFlight
  <2>4. buffer = {}
    BY <2>1, <2>3 DEF TidyInv
  <2> QED
    BY <2>1, <2>2, <2>4 DEF Drained
<1> QED
  BY <1>1, Invariance, Tidiness, PTL

----------------------------------------------------------------------------
(* The limits of a run (RunCapacity).                                      *)

\* A set of naturals that is not empty has a least element.
LEMMA LeastExists ==
  ASSUME NEW S \in SUBSET Nat, S # {}
  PROVE  \E x \in S : \A y \in S : x <= y
<1>1. IsWellFoundedOn(OpToRel(<, Nat), Nat)
  BY NatLessThanWellFounded
<1>2. PICK x \in S : \A y \in S : ~ (<<y, x>> \in OpToRel(<, Nat))
  BY <1>1, WFMin
<1>3. \A y \in S : x <= y
  <2>1. TAKE y \in S
  <2>2. ~ (y < x)
    BY <1>2 DEF OpToRel
  <2> QED
    BY <2>2
<1> QED
  BY <1>3

\* A lane never has more workers than companies are asked for at a time, a lane
\* that goes through proxies never more than there are usable proxies, and it
\* has none at all rather than a single one (concurrency.py:180-297).
THEOREM LanesFit ==
  ASSUME NEW source, NEW requested \in Nat \ {0}, NEW proxies \in Nat
  PROVE  LET lane == WorkerLaneBudget(source, requested, proxies)
         IN  /\ lane = 0 \/ lane \in 2 .. requested
             /\ source \in ProxyBound => lane <= proxies
             /\ LaneBudget(source, requested, proxies) \in 1 .. requested
             /\ lane # 0 => LaneBudget(source, requested, proxies) = lane
<1>1. CapacityCap(source, requested, proxies) \in 0 .. requested
  BY DEF CapacityCap, Lesser
<1>2. source \in ProxyBound => CapacityCap(source, requested, proxies) <= proxies
  BY DEF CapacityCap, Lesser, ProxyBound, SessionBound
<1> DEFINE cap == CapacityCap(source, requested, proxies)
<1> HIDE DEF cap
<1>3. /\ cap \in 0 .. requested
      /\ source \in ProxyBound => cap <= proxies
  BY <1>1, <1>2 DEF cap
<1>4. WorkerLaneBudget(source, requested, proxies) =
        IF source \in SessionBound \cup Offline \/ requested = 1 \/ cap <= 1 THEN 0 ELSE cap
  BY DEF WorkerLaneBudget, cap
<1>5. LaneBudget(source, requested, proxies) =
        IF source \in SessionBound \cup Offline \/ requested = 1 THEN 1 ELSE Greater(cap, 1)
  BY DEF LaneBudget, cap
<1> QED
  BY <1>3, <1>4, <1>5 DEF Greater

\* The lane of checko, opened for a number of rows, is within the same bounds
\* (run_company_enrichment_pipeline.py:348-361, 3952-3972).
THEOREM CheckoFits ==
  ASSUME NEW active, NEW requested \in Nat \ {0}, NEW proxies \in Nat, NEW rows \in Nat
  PROVE  LET workers == CheckoWorkers(active, requested, proxies, rows)
         IN  workers \in 0 .. requested /\ workers <= proxies /\ workers <= rows
<1>1. LET lane == WorkerLaneBudget("checko", requested, proxies)
      IN  lane \in 0 .. requested /\ lane <= proxies
  BY LanesFit DEF ProxyBound
<1> QED
  BY <1>1 DEF CheckoWorkers, Lesser

\* The least of some budgets and of what was asked for is no more than that.
LEMMA EffectiveCapFits ==
  ASSUME NEW requested \in Nat \ {0}, NEW budgets \in SUBSET Nat
  PROVE  EffectiveCap(requested, budgets) \in 1 .. requested
<1> DEFINE all == {requested} \cup {Greater(b, 1) : b \in budgets}
           cap == CHOOSE x \in all : \A other \in all : x <= other
<1>1. all \in SUBSET (Nat \ {0})
  BY DEF Greater
<1>2. requested \in all
  OBVIOUS
<1>3. EffectiveCap(requested, budgets) = cap
  BY DEF EffectiveCap
<1> HIDE DEF all
<1>4. \E x \in all : \A other \in all : x <= other
  BY <1>1, <1>2, LeastExists
<1>5. cap \in all /\ \A other \in all : cap <= other
  BY <1>4
<1> HIDE DEF cap
<1> QED
  BY <1>1, <1>2, <1>3, <1>5

\* The source executor has a worker at least and no more than companies are
\* asked for at a time; so has the number reported for the whole run
\* (bounded_executor.py:102-144, concurrency.py:98-178).
THEOREM WorkersFit ==
  ASSUME NEW active, NEW requested \in Nat \ {0}, NEW proxies \in Nat
  PROVE  /\ MaxWorkers(active, requested, proxies) \in 1 .. requested
         /\ ReportedCap(active, requested, proxies) \in 1 .. requested
<1>1. \A s : /\ LaneBudget(s, requested, proxies) \in 1 .. requested
             /\ WorkerLaneBudget(s, requested, proxies) \in Nat
  BY LanesFit
<1>2. MaxWorkers(active, requested, proxies) \in 1 .. requested
  <2> DEFINE budgets == {LaneBudget(s, requested, proxies) : s \in active \cap Direct}
  <2>1. budgets \in SUBSET Nat
    BY <1>1
  <2>2. EffectiveCap(requested, budgets) \in 1 .. requested
    BY <2>1, EffectiveCapFits
  <2>3. MaxWorkers(active, requested, proxies) \in {1, EffectiveCap(requested, budgets)}
    BY DEF MaxWorkers
  <2> HIDE DEF budgets
  <2> QED
    BY <2>2, <2>3
<1>3. ReportedCap(active, requested, proxies) \in 1 .. requested
  <2> DEFINE lanes == {WorkerLaneBudget(s, requested, proxies) : s \in active} \ {0}
             budgets == IF lanes # {} THEN lanes
                        ELSE {LaneBudget(s, requested, proxies) : s \in active}
  <2>1. budgets \in SUBSET Nat
    BY <1>1
  <2>2. ReportedCap(active, requested, proxies) = EffectiveCap(requested, budgets)
    BY DEF ReportedCap
  <2> HIDE DEF budgets
  <2> QED
    BY <2>1, <2>2, EffectiveCapFits
<1> QED
  BY <1>2, <1>3

\* What DownstreamPrefetch assumes of its limits holds, and more: the queue has
\* room for a row of every worker and one to wait, all of its rows may be ready
\* before the limit for those stops the intake, and a drain of ready rows that
\* begins above the limit has a lower mark to go down to
\* (run_company_enrichment_pipeline.py:296-345, 3591-3620).
THEOREM QueueFits ==
  ASSUME NEW workers \in Nat \ {0}, NEW selected \in Nat
  PROVE  LET limit == QueueLimitFor(workers, selected)
             drain == ReadyDrainLimit(workers, limit)
         IN  /\ limit \in Nat /\ limit > workers
             /\ drain \in workers + 1 .. limit
             /\ LowWatermarkFor(drain) \in 1 .. drain - 1
<1> DEFINE product == workers * PerWorker
           limit == QueueLimitFor(workers, selected)
           drain == ReadyDrainLimit(workers, limit)
<1>0. product \in Nat
  BY CapacityAssumption
<1>1. /\ QueueMin \in Nat /\ QueueMax \in Nat /\ SurfaceMax \in Nat
  BY CapacityAssumption
<1>2. limit = LET asked == Greater(workers + 1, Greater(product, QueueMin))
                  bound == Greater(QueueMax, workers + 1)
                  surface == Lesser(selected, SurfaceMax)
              IN  Lesser(Greater(asked, surface), Greater(bound, surface))
  BY DEF QueueLimitFor
<1> HIDE DEF product, limit
<1>3. limit \in Nat /\ limit > workers
  BY <1>0, <1>1, <1>2 DEF Greater, Lesser
<1>4. drain \in workers + 1 .. limit
  BY <1>1, <1>3 DEF ReadyDrainLimit, Greater, Lesser
<1> HIDE DEF drain
<1>5. LowWatermarkFor(drain) \in 1 .. drain - 1
  BY <1>3, <1>4 DEF LowWatermarkFor, Greater
<1> QED
  BY <1>3, <1>4, <1>5 DEF limit, drain

\* The ready queue of the source executor holds a batch of each of its workers,
\* so no more are in flight than it has room for (Bounded
\* says what that bounds); and where rows are prefetched, they are prefetched
\* by two workers at least (run_company_enrichment_pipeline.py:1313-1332).
THEOREM ReadyQueueFits ==
  ASSUME NEW active, NEW requested \in Nat \ {0}, NEW proxies \in Nat,
         NEW rows \in Nat \ {0}, NEW selected \in Nat
  PROVE  /\ WorkerCount(active, requested, proxies, rows) \in 1 .. requested
         /\ ReadyQueueLimit(active, requested, proxies, selected)
              >= WorkerCount(active, requested, proxies, rows)
         /\ PrefetchEnabled(active, requested, proxies)
              => MaxWorkers(active, requested, proxies) >= 2
<1> DEFINE workers == MaxWorkers(active, requested, proxies)
           limit == QueueLimitFor(workers, selected)
<1>1. workers \in 1 .. requested
  BY WorkersFit
<1>2. limit \in Nat /\ limit > workers
  <2> HIDE DEF workers
  <2>1. workers \in Nat \ {0}
    BY <1>1
  <2> QED
    BY <2>1, QueueFits
<1>3. WorkerCount(active, requested, proxies, rows) \in 1 .. workers
  <2>1. WorkerCount(active, requested, proxies, rows) = Lesser(workers, rows)
    BY DEF WorkerCount
  <2> HIDE DEF workers
  <2> QED
    BY <1>1, <2>1 DEF Lesser
<1>4. ReadyQueueLimit(active, requested, proxies, selected) \in {workers, Greater(limit, 1), Greater(0, 1)}
  BY DEF ReadyQueueLimit, PrefetchQueueLimit
<1>5. ReadyQueueLimit(active, requested, proxies, selected) = Greater(0, 1) => workers <= 1
  BY <1>1, <1>2 DEF ReadyQueueLimit, PrefetchQueueLimit, ExecutorEnabled, Greater
<1>6. PrefetchEnabled(active, requested, proxies) => workers > 1
  BY DEF PrefetchEnabled, ExecutorEnabled
<1> HIDE DEF workers, limit
<1> QED
  BY <1>1, <1>2, <1>3, <1>4, <1>5, <1>6 DEF Greater, workers
=============================================================================
