--------------------------- MODULE RunLedgerProofs ---------------------------
(***************************************************************************)
(* Theorems about RunLedger for every number of companies, failures and    *)
(* retries, and about LedgerDossier for every material a dossier is built  *)
(* from.                                                                   *)
(***************************************************************************)
EXTENDS LedgerDossier, FiniteSetTheorems, WellFoundedInduction, SequenceTheorems, TLAPS

Admitted(c) == Explicit(unit["agg"][c])

\* Where the thread has a row, drains it, and works on one of its surfaces.
SurfacePlaces == {"consume", "gated", "checkpoint", "done", "completed", "sync",
                  "ack", "result"}
DrainPlaces == SurfacePlaces \cup {"drain", "handover", "prefetched"}
RowPlaces == DrainPlaces \cup {"sources", "candidates", "unit"}

\* The thread is there, or will be when it has read the outbox.
At(places) == pc \in places \/ (pc = "read" /\ next \in places)

\* What the place of the thread says about its row and its session.
PlaceInv ==
  /\ At(RowPlaces) => cur.inn \in Companies
  /\ At(DrainPlaces) => Admitted(cur.inn)
  /\ At(SurfacePlaces) => Explicit(unit[cur.surface][cur.inn])
  /\ pc \in {"handover", "prefetched"} => Explicit(unit["deep"][cur.inn])
  /\ pc \in {"off", "loaded", "fresh", "reset"} => queue = {}
  /\ pc \in {"fresh", "reset"} => recovering = {}
  /\ pc = "reset" => outbox = <<>>

\* Every trace a company leaves in the ledger comes after its admission, so no
\* ready handoff ever needs a legacy unit.
TraceInv ==
  /\ \A s \in Surface, c \in Companies : unit[s][c].st # "legacy"
  /\ \A c \in Companies : Explicit(unit["deep"][c]) => Admitted(c)
  /\ \A c \in queue \cup recovering : Admitted(c)
  /\ \A c \in Companies : Ready(handoff[c]) => Admitted(c)
  /\ \A i \in 1..Len(outbox) : outbox[i].kind = "completed" => Admitted(outbox[i].inn)

\* The inductive invariant.
IInv == TypeOK /\ EvidenceMirrorsUnits /\ PlaceInv /\ TraceInv

UnitsType == [Surface -> [Companies -> UnitType]]

\* The parts of TypeOK that only depend on the thread.
SessionTypeOK ==
  /\ pc \in {"off", "loaded", "fresh", "reset", "read", "loop"} \cup RowPlaces
  /\ next \in {"loop", "candidates", "unit", "gated", "completed", "sync"}
  /\ cur \in RowType
  /\ pos \in 1..(NCompanies + 1)
  /\ selected \in SUBSET Companies
  /\ recovering \in SUBSET Companies
  /\ mode \in {"none", "resume", "retry", "resume_retry", "fresh"}
  /\ queue \in SUBSET Companies
  /\ deferred \in SUBSET Companies
  /\ raised \in {"none", "missing_unit", "truncated"}
  /\ budget \in 0..MaxFailures

\* The parts that only depend on the files.
FilesTypeOK ==
  /\ outbox \in Seq([inn : Companies, kind : Kind])
  /\ cursor \in Nat
  /\ handoff \in [Companies -> [last : Kind \cup {"none"}, gate : BOOLEAN, done : BOOLEAN,
                                completed : BOOLEAN, picked : BOOLEAN]]
  /\ unit \in UnitsType
  /\ evidence \in UnitsType
  /\ result \in [Companies -> Nat]
  /\ admissions \in [Companies -> Nat]
  /\ terminal \in BOOLEAN

LEMMA TypeParts == TypeOK <=> SessionTypeOK /\ FilesTypeOK
BY DEF TypeOK, SessionTypeOK, FilesTypeOK, UnitsType, RowPlaces, DrainPlaces, SurfacePlaces

LEMMA NextTypeParts == SessionTypeOK' /\ FilesTypeOK' => TypeOK'
BY DEF TypeOK, SessionTypeOK, FilesTypeOK, UnitsType, RowPlaces, DrainPlaces, SurfacePlaces

----------------------------------------------------------------------------
(* Lemmas about the operators                                              *)

\* A file the thread leaves alone keeps its type and its traces.
LEMMA SameFiles ==
  ASSUME IInv, UNCHANGED <<outbox, cursor, handoff, unit, evidence, result, admissions>>,
         terminal' \in BOOLEAN,
         \A c \in (queue \cup recovering)' : Admitted(c)
  PROVE  FilesTypeOK' /\ EvidenceMirrorsUnits' /\ TraceInv'
BY TypeParts DEF IInv, FilesTypeOK, EvidenceMirrorsUnits, TraceInv, Admitted, Explicit, Ready

\* A process that ends leaves a session that is well typed and empty.
LEMMA ExitInv ==
  ASSUME IInv, Exit, raised' \in {"none", "missing_unit", "truncated"},
         budget' \in 0..MaxFailures
  PROVE  SessionTypeOK' /\ PlaceInv' /\ (queue \cup recovering)' = {}
<1>1. SessionTypeOK'
  BY LedgerAssumption DEF Exit, SessionTypeOK, RowType, NoRow, Companies, Surface
<1>2. PlaceInv'
  BY DEF Exit, PlaceInv, At, RowPlaces, DrainPlaces, SurfacePlaces
<1> QED
  BY <1>1, <1>2 DEF Exit

\* A row the thread takes up is well typed.
LEMMA RowFields ==
  ASSUME NEW c \in Companies, NEW a \in BOOLEAN, NEW b \in BOOLEAN
  PROVE  /\ [NoRow EXCEPT !.inn = c, !.recovery = a, !.existing = b] \in RowType
         /\ [NoRow EXCEPT !.inn = c, !.recovery = a, !.existing = b].inn = c
BY DEF NoRow, RowType, Surface

LEMMA RowOfType ==
  ASSUME NEW c \in Companies
  PROVE  RowOf(c) \in RowType /\ RowOf(c).inn = c
<1>1. (c \in recovering) \in BOOLEAN /\ (result[c] # 0) \in BOOLEAN
  OBVIOUS
<1> QED
  BY <1>1, RowFields, Zenon DEF RowOf

----------------------------------------------------------------------------

LEMMA InitInv == Init => IInv
<1> SUFFICES ASSUME Init PROVE IInv
  OBVIOUS
<1>1. SessionTypeOK
  BY LedgerAssumption DEF Init, SessionTypeOK, RowType, NoRow, Companies, Surface
<1>2. unit \in UnitsType
  BY DEF Init, UnitsType, UnitType, NoUnit
<1>3. FilesTypeOK
  <2>1. outbox \in Seq([inn : Companies, kind : Kind])
    BY DEF Init
  <2>2. handoff \in [Companies -> [last : Kind \cup {"none"}, gate : BOOLEAN, done : BOOLEAN,
                                   completed : BOOLEAN, picked : BOOLEAN]]
    BY DEF Init, NoHandoff
  <2> QED
    BY <1>2, <2>1, <2>2 DEF Init, FilesTypeOK
<1>4. PlaceInv
  BY DEF Init, PlaceInv, At, RowPlaces, DrainPlaces, SurfacePlaces
<1>5. TraceInv
  <2>1. Len(outbox) = 0 /\ queue = {} /\ recovering = {}
    BY DEF Init
  <2>2. \A s \in Surface, c \in Companies : unit[s][c].st = "none"
    BY DEF Init, NoUnit
  <2>3. \A c \in Companies : handoff[c].last = "none"
    BY DEF Init, NoHandoff
  <2> QED
    BY <2>1, <2>2, <2>3 DEF TraceInv, Explicit, Ready, Surface
<1>6. EvidenceMirrorsUnits
  BY DEF Init, EvidenceMirrorsUnits
<1> QED
  BY <1>1, <1>3, <1>4, <1>5, <1>6, TypeParts DEF IInv

----------------------------------------------------------------------------
(* Steps that leave the files alone                                        *)

LEMMA QuietSteps ==
  ASSUME IInv,
         \/ RunStarted \/ ReadTruncated \/ SkipRow \/ VisitRow \/ DeferRow
         \/ DrainPending \/ Finish \/ LookUpFails \/ Crash \/ Interrupt
  PROVE  IInv'
<1> USE LedgerAssumption DEF IInv
<1>t. SessionTypeOK /\ FilesTypeOK
  BY TypeParts
<1>n. NCompanies \in Nat /\ MaxFailures \in Nat /\ Companies = 1..NCompanies
  BY DEF Companies
<1>1. CASE RunStarted
  <2>1. SessionTypeOK'
    BY <1>1, <1>t DEF RunStarted, session, SessionTypeOK
  <2>2. FilesTypeOK' /\ EvidenceMirrorsUnits' /\ TraceInv'
    BY <1>1, SameFiles DEF RunStarted, session, TraceInv
  <2>3. PlaceInv'
    BY <1>1 DEF RunStarted, session, PlaceInv, At, RowPlaces, DrainPlaces, SurfacePlaces
  <2> QED
    BY <2>1, <2>2, <2>3, NextTypeParts
<1>2. CASE ReadTruncated \/ Finish \/ LookUpFails \/ Crash \/ Interrupt
  <2>0. /\ terminal \in BOOLEAN
        /\ raised \in {"none", "missing_unit", "truncated"}
        /\ budget \in 0..MaxFailures
        /\ budget > 0 => budget - 1 \in 0..MaxFailures
    BY <1>t, <1>n DEF SessionTypeOK, FilesTypeOK
  <2>e. Exit /\ UNCHANGED <<outbox, cursor, handoff, unit, evidence, result, admissions>>
    BY <1>2 DEF ReadTruncated, Finish, LookUpFails, Raise, Crash, Interrupt, files
  <2>m. terminal' \in BOOLEAN
    BY <1>2, <2>0, Zenon DEF ReadTruncated, Finish, LookUpFails, Raise, Crash, Interrupt, files
  <2>r. raised' \in {"none", "missing_unit", "truncated"}
    BY <1>2, <2>0 DEF ReadTruncated, Finish, LookUpFails, Raise, Crash, Interrupt
  <2>b. budget' \in 0..MaxFailures
    BY <1>2, <2>0 DEF ReadTruncated, Finish, LookUpFails, Raise, Crash, Interrupt
  <2>1. /\ Exit
        /\ UNCHANGED <<outbox, cursor, handoff, unit, evidence, result, admissions>>
        /\ terminal' \in BOOLEAN
        /\ raised' \in {"none", "missing_unit", "truncated"}
        /\ budget' \in 0..MaxFailures
    BY <2>e, <2>m, <2>r, <2>b
  <2>2. SessionTypeOK' /\ PlaceInv' /\ (queue \cup recovering)' = {}
    BY <2>1, ExitInv
  <2>3. FilesTypeOK' /\ EvidenceMirrorsUnits' /\ TraceInv'
    BY <2>1, <2>2, SameFiles
  <2> QED
    BY <2>2, <2>3, NextTypeParts
<1>3. CASE SkipRow
  <2>1. SessionTypeOK'
    BY <1>3, <1>t, <1>n DEF SkipRow, LedgerUnchanged, SessionTypeOK
  <2>2. FilesTypeOK' /\ EvidenceMirrorsUnits' /\ TraceInv'
    BY <1>3, <1>t, SameFiles DEF SkipRow, LedgerUnchanged, TraceInv, FilesTypeOK
  <2>3. PlaceInv'
    BY <1>3 DEF SkipRow, LedgerUnchanged, PlaceInv, At, RowPlaces, DrainPlaces, SurfacePlaces
  <2> QED
    BY <2>1, <2>2, <2>3, NextTypeParts
<1>4. CASE VisitRow
  <2>1. cur' \in RowType /\ cur'.inn = pos /\ pos \in Companies
    BY <1>4, <1>t, RowOfType DEF VisitRow, SessionTypeOK
  <2>2. SessionTypeOK'
    BY <1>4, <1>t, <1>n, <2>1 DEF VisitRow, LedgerUnchanged, SessionTypeOK, RowPlaces, DrainPlaces
  <2>3. FilesTypeOK' /\ EvidenceMirrorsUnits' /\ TraceInv'
    BY <1>4, <1>t, SameFiles DEF VisitRow, LedgerUnchanged, TraceInv, FilesTypeOK
  <2>4. PlaceInv'
    BY <1>4, <2>1 DEF VisitRow, LedgerUnchanged, PlaceInv, TraceInv, At, RowPlaces,
       DrainPlaces, SurfacePlaces, Admitted
  <2> QED
    BY <2>2, <2>3, <2>4, NextTypeParts
<1>5. CASE DeferRow
  <2>1. cur.inn \in Companies
    BY <1>5 DEF DeferRow, PlaceInv, At, RowPlaces
  <2>2. SessionTypeOK'
    <3>1. budget' \in 0..MaxFailures
      BY <1>5, <1>t, <1>n DEF DeferRow, SessionTypeOK
    <3>2. cur' \in RowType
      BY <1>5 DEF DeferRow, RowType, NoRow, Surface
    <3> QED
      BY <1>5, <1>t, <2>1, <3>1, <3>2 DEF DeferRow, SessionTypeOK
  <2>3. FilesTypeOK' /\ EvidenceMirrorsUnits' /\ TraceInv'
    BY <1>5, <1>t, SameFiles DEF DeferRow, files, TraceInv, FilesTypeOK
  <2>4. PlaceInv'
    BY <1>5 DEF DeferRow, PlaceInv, At, RowPlaces, DrainPlaces, SurfacePlaces
  <2> QED
    BY <2>2, <2>3, <2>4, NextTypeParts
<1>6. CASE DrainPending
  <2> PICK c \in queue : queue' = queue \ {c} /\ cur' = RowOf(c)
    BY <1>6 DEF DrainPending
  <2>1. c \in Companies /\ cur' \in RowType /\ cur'.inn = c
    BY <1>t, RowOfType DEF SessionTypeOK
  <2>2. SessionTypeOK'
    BY <1>6, <1>t, <2>1 DEF DrainPending, LedgerUnchanged, SessionTypeOK, RowPlaces, DrainPlaces
  <2>3. FilesTypeOK' /\ EvidenceMirrorsUnits' /\ TraceInv'
    BY <1>6, <1>t, SameFiles DEF DrainPending, LedgerUnchanged, TraceInv, FilesTypeOK
  <2>4. PlaceInv'
    BY <1>6, <2>1 DEF DrainPending, LedgerUnchanged, PlaceInv, TraceInv, At, RowPlaces,
       DrainPlaces, SurfacePlaces, Admitted
  <2> QED
    BY <2>2, <2>3, <2>4, NextTypeParts
<1> QED
  BY <1>1, <1>2, <1>3, <1>4, <1>5, <1>6
----------------------------------------------------------------------------
(* Steps that append to the outbox, or read it                             *)

LEMMA EmitInv ==
  ASSUME IInv, NEW kind \in Kind, Emit(kind), cur.inn \in Companies,
         kind = "completed" => Admitted(cur.inn),
         UNCHANGED <<cursor, handoff, unit, evidence, result, admissions, terminal,
                     queue, recovering>>
  PROVE  FilesTypeOK' /\ EvidenceMirrorsUnits' /\ TraceInv'
<1> DEFINE m == [inn |-> cur.inn, kind |-> kind]
<1>1. outbox \in Seq([inn : Companies, kind : Kind]) /\ m \in [inn : Companies, kind : Kind]
  BY DEF IInv, TypeOK
<1>2. /\ outbox' \in Seq([inn : Companies, kind : Kind])
      /\ Len(outbox') = Len(outbox) + 1
      /\ \A i \in 1..Len(outbox) : outbox'[i] = outbox[i]
      /\ outbox'[Len(outbox) + 1] = m
  <2> HIDE DEF m
  <2>1. outbox' = Append(outbox, m)
    BY DEF Emit, m
  <2> QED
    BY <1>1, <2>1, AppendProperties
<1>3. \A i \in 1..Len(outbox') : outbox'[i].kind = "completed" => Admitted(outbox'[i].inn)
  <2> SUFFICES ASSUME NEW i \in 1..Len(outbox'), outbox'[i].kind = "completed"
               PROVE  Admitted(outbox'[i].inn)
    OBVIOUS
  <2>0. Len(outbox) \in Nat
    BY <1>1
  <2>1. CASE i \in 1..Len(outbox)
    BY <1>2, <2>1 DEF IInv, TraceInv
  <2>2. CASE i = Len(outbox) + 1
    BY <1>2, <2>2
  <2> QED
    BY <1>2, <2>0, <2>1, <2>2
<1>4. FilesTypeOK'
  BY <1>2, TypeParts DEF IInv, FilesTypeOK
<1>5. TraceInv'
  BY <1>3 DEF IInv, TraceInv, Admitted, Explicit, Ready
<1> QED
  BY <1>4, <1>5 DEF IInv, EvidenceMirrorsUnits

\* A step that appends and goes on to read the outbox.
LEMMA EmitThenInv ==
  ASSUME IInv, NEW kind \in Kind,
         NEW to \in {"candidates", "unit", "gated", "completed", "sync"},
         EmitThen(kind, to), UNCHANGED cur, cur.inn \in Companies,
         to \in DrainPlaces => Admitted(cur.inn) /\ Explicit(unit[cur.surface][cur.inn]),
         kind = "completed" => Admitted(cur.inn)
  PROVE  IInv'
<1>1. FilesTypeOK' /\ EvidenceMirrorsUnits' /\ TraceInv'
  BY EmitInv DEF EmitThen, session
<1>2. SessionTypeOK'
  BY TypeParts DEF IInv, EmitThen, session, SessionTypeOK
<1>3. PlaceInv'
  BY DEF EmitThen, session, PlaceInv, At, RowPlaces, DrainPlaces, SurfacePlaces, Admitted, Explicit
<1> QED
  BY <1>1, <1>2, <1>3, NextTypeParts DEF IInv

LEMMA EmittingSteps ==
  ASSUME IInv,
         \/ CollectSources \/ EmitDone \/ EmitCompleted
         \/ \E k \in {"candidate"} : pc = "candidates" /\ EmitThen(k, "unit") /\ UNCHANGED cur
         \/ pc = "consume" /\ EmitThen("gate", "gated") /\ UNCHANGED cur
  PROVE  IInv'
<1> USE DEF Kind
<1>p. PlaceInv
  BY DEF IInv
<1>1. CASE CollectSources
  <2>1. cur.inn \in Companies
    BY <1>1, <1>p DEF CollectSources, PlaceInv, At, RowPlaces
  <2> QED
    BY <1>1, <2>1, EmitThenInv DEF CollectSources, DrainPlaces, SurfacePlaces
<1>2. CASE \E k \in {"candidate"} : pc = "candidates" /\ EmitThen(k, "unit") /\ UNCHANGED cur
  <2>1. cur.inn \in Companies
    BY <1>2, <1>p DEF PlaceInv, At, RowPlaces
  <2> QED
    BY <1>2, <2>1, EmitThenInv DEF DrainPlaces, SurfacePlaces
<1>3. ASSUME NEW k \in {"gate", "done", "completed"}, NEW to \in {"gated", "completed", "sync"},
             pc \in {"consume", "done", "completed"}, EmitThen(k, to), UNCHANGED cur
      PROVE  IInv'
  <2>1. /\ cur.inn \in Companies
        /\ Admitted(cur.inn)
        /\ Explicit(unit[cur.surface][cur.inn])
    BY <1>3, <1>p DEF PlaceInv, At, RowPlaces, DrainPlaces, SurfacePlaces
  <2> QED
    BY <1>3, <2>1, EmitThenInv
<1>4. CASE EmitDone
  BY <1>3, <1>4 DEF EmitDone, AnnounceCompletion
<1>5. CASE EmitCompleted
  BY <1>3, <1>5 DEF EmitCompleted
<1>6. CASE pc = "consume" /\ EmitThen("gate", "gated") /\ UNCHANGED cur
  BY <1>3, <1>6
<1> QED
  BY <1>1, <1>2, <1>4, <1>5, <1>6

\* A set of unread messages that is not empty has a newest one.
LEMMA NewestExists ==
  ASSUME NEW n \in Nat, NEW k \in Nat, NEW S, S \subseteq (k + 1)..n, S # {}
  PROVE  \E i \in S : \A j \in S : j <= i
<1> DEFINE T == {n - i : i \in S}
<1>1. T \subseteq Nat /\ T # {}
  OBVIOUS
<1>2. PICK x \in T : \A y \in T : <<y, x>> \notin OpToRel(<, Nat)
  <2> HIDE DEF T
  <2> QED
    BY <1>1, NatLessThanWellFounded, WFMin
<1>3. \A y \in T : x <= y
  <2> SUFFICES ASSUME NEW y \in T PROVE x <= y
    OBVIOUS
  <2>1. ~(y < x)
    BY <1>1, <1>2 DEF OpToRel
  <2> QED
    BY <1>1, <2>1
<1>4. PICK i \in S : x = n - i
  OBVIOUS
<1>5. \A j \in S : j <= i
  <2> SUFFICES ASSUME NEW j \in S PROVE j <= i
    OBVIOUS
  <2>1. n - j \in T
    OBVIOUS
  <2>2. n - i <= n - j
    BY <1>3, <1>4, <2>1
  <2> QED
    BY <2>2
<1> QED
  BY <1>5

HandoffType == [last : Kind \cup {"none"}, gate : BOOLEAN, done : BOOLEAN,
                completed : BOOLEAN, picked : BOOLEAN]

LEMMA HandoffFields ==
  ASSUME NEW k \in Kind, NEW g \in BOOLEAN, NEW d \in BOOLEAN, NEW e \in BOOLEAN
  PROVE  /\ [last |-> k, gate |-> g, done |-> d, completed |-> e, picked |-> FALSE] \in HandoffType
         /\ [last |-> k, gate |-> g, done |-> d, completed |-> e, picked |-> FALSE].last = k
BY DEF HandoffType

\* What the messages fold into is a handoff, and it is ready only when it was
\* before or a completion was read.
LEMMA AppliedInv ==
  ASSUME IInv, NEW c \in Companies
  PROVE  /\ Applied(c) \in HandoffType
         /\ Ready(Applied(c)) => Admitted(c)
<1>t. /\ outbox \in Seq([inn : Companies, kind : Kind])
      /\ cursor \in Nat
      /\ handoff[c] \in HandoffType
      /\ Len(outbox) \in Nat
      /\ \A i \in 1..Len(outbox) : outbox[i] \in [inn : Companies, kind : Kind]
  <2>1. /\ outbox \in Seq([inn : Companies, kind : Kind])
        /\ cursor \in Nat
        /\ handoff[c] \in HandoffType
    BY DEF IInv, TypeOK, HandoffType
  <2>2. Len(outbox) \in Nat /\ \A i \in 1..Len(outbox) : outbox[i] \in [inn : Companies, kind : Kind]
    BY <2>1, ElementOfSeq, LenProperties
  <2> QED
    BY <2>1, <2>2
<1>1. CASE Unread(c) = {}
  BY <1>1, <1>t DEF Applied, IInv, TraceInv
<1>2. CASE Unread(c) # {}
  <2> DEFINE newest == CHOOSE i \in Unread(c) : \A j \in Unread(c) : j <= i
  <2>1. newest \in Unread(c)
    <3>1. \E i \in Unread(c) : \A j \in Unread(c) : j <= i
      BY <1>2, <1>t, NewestExists DEF Unread
    <3> QED
      BY <3>1
  <2>2. newest \in 1..Len(outbox) /\ outbox[newest].inn = c
    BY <2>1, <1>t DEF Unread
  <2> DEFINE k == outbox[newest].kind
             g == handoff[c].gate \/ "gate" \in UnreadKinds(c)
             d == handoff[c].done \/ "done" \in UnreadKinds(c)
             e == handoff[c].completed \/ "completed" \in UnreadKinds(c)
  <2>3. Applied(c) = [last |-> k, gate |-> g, done |-> d, completed |-> e, picked |-> FALSE]
    BY <1>2 DEF Applied
  <2>4. k \in Kind
    <3> HIDE DEF newest
    <3> QED
      BY <2>2, <1>t
  <2>5. g \in BOOLEAN /\ d \in BOOLEAN /\ e \in BOOLEAN
    OBVIOUS
  <2>6. Applied(c) \in HandoffType /\ Applied(c).last = k
    <3> HIDE DEF k, g, d, e
    <3> QED
      BY <2>3, <2>4, <2>5, HandoffFields
  <2> QED
    BY <2>2, <2>6 DEF Ready, IInv, TraceInv
<1> QED
  BY <1>1, <1>2

LEMMA ReadOutboxInv ==
  ASSUME IInv, ReadOutbox
  PROVE  IInv'
<1>1. handoff' \in [Companies -> HandoffType] /\ \A c \in Companies : Ready(handoff'[c]) => Admitted(c)
  BY AppliedInv DEF ReadOutbox
<1>2. FilesTypeOK'
  BY <1>1, TypeParts DEF IInv, FilesTypeOK, ReadOutbox, HandoffType
<1>3. TraceInv'
  BY <1>1 DEF IInv, TraceInv, ReadOutbox, session, Admitted, Explicit
<1>4. SessionTypeOK'
  BY TypeParts DEF IInv, SessionTypeOK, ReadOutbox, session, RowPlaces, DrainPlaces, SurfacePlaces
<1>5. PlaceInv'
  BY DEF IInv, TypeOK, PlaceInv, ReadOutbox, session, At, RowPlaces, DrainPlaces, SurfacePlaces, Admitted
<1>6. EvidenceMirrorsUnits'
  BY DEF IInv, EvidenceMirrorsUnits, ReadOutbox
<1> QED
  BY <1>2, <1>3, <1>4, <1>5, <1>6, NextTypeParts DEF IInv
----------------------------------------------------------------------------
(* Steps that write the work units                                         *)

\* The units change together with their evidence, and no explicit unit is lost.
UnitsGrow ==
  /\ unit' \in UnitsType
  /\ evidence' = unit'
  /\ \A s \in Surface, c \in Companies :
       /\ Explicit(unit[s][c]) => Explicit(unit'[s][c])
       /\ unit'[s][c].st # "legacy"
  /\ \A c \in Companies : Explicit(unit'["deep"][c]) => Explicit(unit'["agg"][c])

LEMMA GrowingFiles ==
  ASSUME IInv, UnitsGrow, UNCHANGED <<outbox, cursor>>,
         result' \in [Companies -> Nat], admissions' \in [Companies -> Nat],
         terminal' \in BOOLEAN,
         handoff' \in [Companies -> HandoffType],
         \A c \in Companies : Ready(handoff'[c]) => Explicit(unit'["agg"][c]),
         \A c \in (queue \cup recovering)' : Explicit(unit'["agg"][c])
  PROVE  FilesTypeOK' /\ EvidenceMirrorsUnits' /\ TraceInv'
<1>1. FilesTypeOK'
  BY TypeParts DEF IInv, FilesTypeOK, UnitsGrow, HandoffType
<1>2. EvidenceMirrorsUnits'
  BY DEF EvidenceMirrorsUnits, UnitsGrow
<1>3. \A i \in 1..Len(outbox') : outbox'[i].kind = "completed"
                                 => Explicit(unit'["agg"][outbox'[i].inn])
  <2> SUFFICES ASSUME NEW i \in 1..Len(outbox), outbox[i].kind = "completed"
               PROVE  Explicit(unit'["agg"][outbox[i].inn])
    OBVIOUS
  <2>1. outbox[i] \in [inn : Companies, kind : Kind]
    BY ElementOfSeq DEF IInv, TypeOK
  <2>2. Admitted(outbox[i].inn)
    BY DEF IInv, TraceInv
  <2> QED
    BY <2>1, <2>2 DEF UnitsGrow, Admitted, Surface
<1>4. TraceInv'
  BY <1>3 DEF TraceInv, UnitsGrow, Admitted, Ready
<1> QED
  BY <1>1, <1>2, <1>4

\* Writing one unit, whatever it was.
Written(units, s, c, u) == [units EXCEPT ![s][c] = u]

LEMMA WriteUnit ==
  ASSUME NEW units \in UnitsType, NEW s \in Surface, NEW c \in Companies, NEW u \in UnitType
  PROVE  /\ Written(units, s, c, u) \in UnitsType
         /\ Written(units, s, c, u)[s][c] = u
         /\ \A s2 \in Surface, c2 \in Companies :
              s2 # s \/ c2 # c => Written(units, s, c, u)[s2][c2] = units[s2][c2]
BY DEF UnitsType, Written

\* An explicit unit, written where the aggregator unit already is or is written.
LEMMA WriteGrows ==
  ASSUME IInv, NEW s \in Surface, NEW c \in Companies, NEW u \in UnitType,
         Explicit(u), s = "deep" => Admitted(c),
         unit' = Written(unit, s, c, u), evidence' = unit'
  PROVE  UnitsGrow /\ unit'[s][c] = u
<1>1. unit \in UnitsType
  BY TypeParts DEF IInv, FilesTypeOK
<1>2. /\ unit' \in UnitsType
      /\ unit'[s][c] = u
      /\ \A s2 \in Surface, c2 \in Companies : s2 # s \/ c2 # c => unit'[s2][c2] = unit[s2][c2]
  BY <1>1, WriteUnit
<1>3. /\ \A s2 \in Surface, c2 \in Companies :
           /\ Explicit(unit[s2][c2]) => Explicit(unit'[s2][c2])
           /\ unit'[s2][c2].st # "legacy"
  BY <1>2 DEF Explicit, IInv, TraceInv
<1>4. \A c2 \in Companies : Explicit(unit'["deep"][c2]) => Explicit(unit'["agg"][c2])
  BY <1>2 DEF IInv, TraceInv, Surface, Admitted
<1> QED
  BY <1>2, <1>3, <1>4 DEF UnitsGrow

\* The three ways a step writes one explicit unit and its evidence.
LEMMA UpsertGrows ==
  ASSUME IInv, NEW s \in Surface, NEW c \in Companies, NEW g \in Nat, NEW same \in BOOLEAN,
         s = "deep" => Admitted(c), UpsertUnit(s, c, g, same)
  PROVE  UnitsGrow /\ Explicit(unit'[s][c])
<1> DEFINE fresh == [st |-> "pending", gen |-> g, ckpt |-> 0]
           u == IF Kept(unit[s][c], same) THEN unit[s][c] ELSE fresh
<1>1. unit \in UnitsType /\ evidence = unit
  BY TypeParts DEF IInv, FilesTypeOK, EvidenceMirrorsUnits
<1>2. fresh \in UnitType /\ Explicit(fresh)
  BY DEF UnitType, Explicit
<1>3. u \in UnitType /\ Explicit(u)
  BY <1>1, <1>2 DEF Kept, UnitsType
<1>4. unit' = Written(unit, s, c, u) /\ evidence' = unit'
  BY <1>1 DEF Written, UpsertUnit, Kept, UnitsType
<1> QED
  <2> HIDE DEF u, fresh
  <2> QED
    BY <1>3, <1>4, WriteGrows

LEMMA CheckpointGrows ==
  ASSUME IInv, NEW s \in Surface, NEW c \in Companies, NEW g \in Nat,
         Explicit(unit[s][c]), MergeCheckpoint(s, c, g)
  PROVE  UnitsGrow /\ Explicit(unit'[s][c])
<1> DEFINE u == [unit[s][c] EXCEPT !.ckpt = g]
<1>1. unit \in UnitsType /\ evidence = unit
  BY TypeParts DEF IInv, FilesTypeOK, EvidenceMirrorsUnits
<1>2. unit[s][c] \in UnitType
  BY <1>1 DEF UnitsType
<1>3. u \in UnitType /\ Explicit(u)
  BY <1>2 DEF UnitType, Explicit
<1>4. unit' = Written(unit, s, c, u) /\ evidence' = unit'
  BY <1>1 DEF Written, MergeCheckpoint, UnitsType
<1>5. s = "deep" => Admitted(c)
  BY DEF IInv, TraceInv
<1> QED
  <2> HIDE DEF u
  <2> QED
    BY <1>3, <1>4, <1>5, WriteGrows

LEMMA AckGrows ==
  ASSUME IInv, NEW s \in Surface, NEW c \in Companies, Explicit(unit[s][c]), Ack(s, c)
  PROVE  UnitsGrow
<1> DEFINE u == Acked(unit[s][c])
<1>1. unit \in UnitsType /\ evidence = unit
  BY TypeParts DEF IInv, FilesTypeOK, EvidenceMirrorsUnits
<1>2. unit[s][c] \in UnitType
  BY <1>1 DEF UnitsType
<1>3. u \in UnitType /\ Explicit(u)
  BY <1>2 DEF UnitType, Explicit, Acked
<1>4. unit' = Written(unit, s, c, u) /\ evidence' = unit'
  BY <1>1 DEF Written, Ack, UnitsType
<1>5. s = "deep" => Admitted(c)
  BY DEF IInv, TraceInv
<1> QED
  <2> HIDE DEF u
  <2> QED
    BY <1>3, <1>4, <1>5, WriteGrows

\* Looking up the units changes nothing: the evidence agrees with every
\* explicit unit, and no company whose handoff is ready is without one.
LEMMA SynchronizedSame ==
  ASSUME NEW units \in UnitsType, NEW h,
         \A c \in Companies : Ready(h[c]) => Explicit(units["agg"][c])
  PROVE  Synchronized(units, units, h) = units
BY DEF Synchronized, UnitsType

LEMMA SyncedIsUnit ==
  ASSUME IInv
  PROVE  SyncedUnits = unit
<1>1. unit \in UnitsType /\ evidence = unit
  BY TypeParts DEF IInv, FilesTypeOK, EvidenceMirrorsUnits
<1>2. \A c \in Companies : Ready(handoff[c]) => Explicit(unit["agg"][c])
  BY DEF IInv, TraceInv, Admitted
<1> QED
  BY <1>1, <1>2, SynchronizedSame DEF SyncedUnits

LEMMA DuplicatesGone ==
  ASSUME NEW units \in UnitsType, NEW results
  PROVE  /\ WithoutDuplicates(units, results) \in UnitsType
         /\ \A s \in Surface, c \in Companies :
              WithoutDuplicates(units, results)[s][c].st = units[s][c].st
<1> DEFINE w(s, c) == IF results[c] # 0 THEN [units[s][c] EXCEPT !.ckpt = 0] ELSE units[s][c]
<1>1. \A u \in UnitType : [u EXCEPT !.ckpt = 0] \in UnitType /\ [u EXCEPT !.ckpt = 0].st = u.st
  BY DEF UnitType
<1>2. \A s \in Surface, c \in Companies : units[s][c] \in UnitType
  BY DEF UnitsType
<1>3. \A s \in Surface, c \in Companies : w(s, c) \in UnitType /\ w(s, c).st = units[s][c].st
  BY <1>1, <1>2
<1>4. WithoutDuplicates(units, results) = [s \in Surface |-> [c \in Companies |-> w(s, c)]]
  BY DEF WithoutDuplicates
<1> QED
  <2> HIDE DEF w
  <2> QED
    BY <1>3, <1>4 DEF UnitsType
----------------------------------------------------------------------------
(* The drain of a row                                                      *)

LEMMA SameUnits ==
  ASSUME IInv, UNCHANGED <<unit, evidence>>
  PROVE  UnitsGrow
BY TypeParts DEF IInv, FilesTypeOK, EvidenceMirrorsUnits, TraceInv, UnitsGrow, Admitted

\* No handoff becomes ready.
HandoffsKept ==
  /\ handoff' \in [Companies -> HandoffType]
  /\ \A c \in Companies : Ready(handoff'[c]) => Ready(handoff[c])

LEMMA SameHandoffs ==
  ASSUME IInv, UNCHANGED handoff
  PROVE  HandoffsKept
BY DEF IInv, TypeOK, HandoffsKept, HandoffType

\* A step inside the drain of a row, with what it has to say about its place.
LEMMA DrainInv ==
  ASSUME IInv, UnitsGrow, HandoffsKept, cur' \in RowType, cur'.inn = cur.inn,
         pc \in DrainPlaces, pc' \in DrainPlaces,
         pc' \in SurfacePlaces => Explicit(unit'[cur'.surface][cur.inn]),
         pc' \in {"handover", "prefetched"} => Explicit(unit'["deep"][cur.inn]),
         UNCHANGED <<outbox, cursor, result, admissions, terminal, next, session,
                     raised, budget>>
  PROVE  IInv'
<1>1. cur.inn \in Companies /\ Admitted(cur.inn)
  BY DEF IInv, PlaceInv, At, RowPlaces
<1>2. SessionTypeOK'
  BY TypeParts DEF IInv, session, SessionTypeOK, RowPlaces
<1>3. \A c \in Companies : Admitted(c) => Explicit(unit'["agg"][c])
  BY DEF UnitsGrow, Surface, Admitted
<1>4. FilesTypeOK' /\ EvidenceMirrorsUnits' /\ TraceInv'
  <2>1. /\ result' \in [Companies -> Nat]
        /\ admissions' \in [Companies -> Nat]
        /\ terminal' \in BOOLEAN
        /\ queue \subseteq Companies /\ recovering \subseteq Companies
    BY DEF IInv, TypeOK
  <2>2. \A c \in (queue \cup recovering)' : Explicit(unit'["agg"][c])
    BY <1>3, <2>1 DEF IInv, TraceInv, session
  <2>3. \A c \in Companies : Ready(handoff'[c]) => Explicit(unit'["agg"][c])
    BY <1>3 DEF IInv, TraceInv, HandoffsKept
  <2> QED
    BY <2>1, <2>2, <2>3, GrowingFiles DEF HandoffsKept
<1>5. PlaceInv'
  BY <1>1, <1>3 DEF PlaceInv, At, RowPlaces, DrainPlaces, SurfacePlaces, Admitted
<1> QED
  BY <1>2, <1>4, <1>5, NextTypeParts DEF IInv

\* The thread only changes what it will store and where it is.
LEMMA DecideInv ==
  ASSUME IInv, NEW keep \in Nat, NEW to \in SurfacePlaces, Decide(keep, to),
         pc \in SurfacePlaces
  PROVE  IInv'
<1>1. cur \in RowType
  BY DEF IInv, TypeOK
<1>2. cur' \in RowType /\ cur'.inn = cur.inn /\ cur'.surface = cur.surface
  BY <1>1 DEF Decide, RowType
<1>3. Explicit(unit[cur.surface][cur.inn])
  BY DEF IInv, PlaceInv, At
<1>4. to \notin {"handover", "prefetched"} /\ pc' = to
  BY DEF SurfacePlaces, Decide, Goto
<1>5. UnitsGrow /\ HandoffsKept
  BY SameUnits, SameHandoffs DEF Decide
<1> QED
  BY <1>2, <1>3, <1>4, <1>5, DrainInv DEF Decide, Goto, DrainPlaces

LEMMA DecidingSteps ==
  ASSUME IInv, \/ RestoreStored \/ RestoreCheckpoint \/ HaveResult
               \/ pc = "consume" /\ Decide(0, "gated")
  PROVE  IInv'
<1>1. pc = "consume" => unit[cur.surface][cur.inn].ckpt \in Nat
  <2> SUFFICES ASSUME pc = "consume" PROVE unit[cur.surface][cur.inn].ckpt \in Nat
    OBVIOUS
  <2>1. cur.inn \in Companies /\ cur.surface \in Surface
    BY DEF IInv, TypeOK, PlaceInv, At, RowPlaces, DrainPlaces, SurfacePlaces, RowType
  <2> QED
    BY <2>1 DEF IInv, TypeOK, UnitType
<1>2. cur.gen \in Nat
  BY DEF IInv, TypeOK, RowType
<1>3. AnnounceCompletion \in SurfacePlaces
  BY DEF AnnounceCompletion, SurfacePlaces
<1>4. CASE RestoreStored
  BY <1>3, <1>4, DecideInv DEF RestoreStored, SurfacePlaces
<1>5. CASE RestoreCheckpoint
  <2>1. (IF cur.hasDone THEN AnnounceCompletion ELSE "done") \in SurfacePlaces
    BY <1>3 DEF SurfacePlaces
  <2>2. pc \in SurfacePlaces /\ Ckpt \in Nat
    BY <1>1, <1>5 DEF RestoreCheckpoint, SurfacePlaces, Ckpt, Inn
  <2> QED
    BY <1>5, <2>1, <2>2, DecideInv DEF RestoreCheckpoint
<1>6. CASE HaveResult
  BY <1>2, <1>6, DecideInv DEF HaveResult, SurfacePlaces
<1>7. CASE pc = "consume" /\ Decide(0, "gated")
  BY <1>7, DecideInv DEF SurfacePlaces
<1> QED
  BY <1>4, <1>5, <1>6, <1>7

\* The pending unit that is looked up is one the thread can work on.
LEMMA LookUpInv ==
  ASSUME IInv, LookUp
  PROVE  IInv'
<1> DEFINE s == IF "deep" \in PendingFor(Inn) THEN "deep" ELSE "agg"
           a == cur.recovery /\ handoff[Inn].done
           b == cur.recovery /\ handoff[Inn].completed
           g == unit[s][Inn].gen
<1>1. SyncedUnits = unit
  BY SyncedIsUnit
<1>2. cur.inn \in Companies /\ cur \in RowType /\ unit \in UnitsType
  BY DEF IInv, TypeOK, PlaceInv, At, RowPlaces, DrainPlaces, LookUp, UnitsType
<1>3. s \in Surface /\ unit[s][cur.inn].st = "pending"
  BY <1>1 DEF LookUp, PendingFor, Inn, Surface
<1>4. g \in Nat
  <2> HIDE DEF s
  <2> QED
    BY <1>2, <1>3 DEF UnitsType, UnitType, Inn
<1>5. a \in BOOLEAN /\ b \in BOOLEAN
  OBVIOUS
<1>6. cur' = [cur EXCEPT !.surface = s, !.gen = g, !.keep = 0,
                         !.hasDone = a, !.hasCompleted = b]
  BY <1>1 DEF LookUp
<1>7. cur' \in RowType /\ cur'.inn = cur.inn /\ cur'.surface = s
  <2> HIDE DEF s, a, b, g
  <2> QED
    BY <1>2, <1>3, <1>4, <1>5, <1>6 DEF RowType
<1>8. UNCHANGED <<unit, evidence, handoff>> /\ pc = "drain" /\ pc' = "consume"
  BY <1>1 DEF LookUp, Goto
<1>9. UnitsGrow /\ HandoffsKept /\ Explicit(unit'[cur'.surface][cur.inn])
  BY <1>3, <1>7, <1>8, SameUnits, SameHandoffs DEF Explicit
<1> QED
  <2> HIDE DEF s, a, b, g
  <2> QED
    BY <1>7, <1>8, <1>9, DrainInv DEF LookUp, Goto, DrainPlaces, SurfacePlaces
\* The row and the surface of the thread are those of explicit units.
LEMMA AtSurface ==
  ASSUME IInv, pc \in DrainPlaces
  PROVE  /\ cur \in RowType
         /\ cur.inn \in Companies
         /\ Explicit(unit["agg"][cur.inn])
         /\ pc \in SurfacePlaces => Explicit(unit[cur.surface][cur.inn])
         /\ pc \in {"handover", "prefetched"} => Explicit(unit["deep"][cur.inn])
         /\ cur.surface \in Surface
         /\ cur.gen \in Nat /\ cur.keep \in Nat
BY DEF IInv, TypeOK, PlaceInv, At, RowPlaces, Admitted, RowType

LEMMA UnitWritingSteps ==
  ASSUME IInv, \/ HandOver \/ CheckpointPrefetched \/ AckHandedOver \/ Checkpoint \/ AckUnit
  PROVE  IInv'
<1> USE DEF Goto, Inn
<1>1. CASE HandOver
  <2>1. pc = "gated" /\ pc' = "handover" /\ UNCHANGED <<cur, handoff>>
    BY <1>1 DEF HandOver
  <2>2. cur.inn \in Companies /\ Admitted(cur.inn) /\ cur.gen \in Nat /\ cur \in RowType
    BY <2>1, AtSurface DEF DrainPlaces, SurfacePlaces, Admitted
  <2>3. UnitsGrow /\ Explicit(unit'["deep"][cur.inn])
    BY <1>1, <2>2, UpsertGrows DEF HandOver, Surface
  <2> QED
    BY <1>1, <2>1, <2>2, <2>3, SameHandoffs, DrainInv DEF HandOver, DrainPlaces, SurfacePlaces
<1>2. CASE CheckpointPrefetched
  <2>1. pc = "handover" /\ pc' = "prefetched" /\ UNCHANGED <<cur, handoff>>
    BY <1>2 DEF CheckpointPrefetched
  <2>2. cur.inn \in Companies /\ Explicit(unit["deep"][cur.inn]) /\ cur.gen \in Nat /\ cur \in RowType
    BY <2>1, AtSurface DEF DrainPlaces
  <2>3. UnitsGrow /\ Explicit(unit'["deep"][cur.inn])
    BY <1>2, <2>2, CheckpointGrows DEF CheckpointPrefetched, Surface
  <2> QED
    BY <1>2, <2>1, <2>2, <2>3, SameHandoffs, DrainInv
       DEF CheckpointPrefetched, DrainPlaces, SurfacePlaces
<1>3. CASE AckHandedOver
  <2>1. pc \in {"handover", "prefetched"} /\ pc' = "drain" /\ UNCHANGED <<cur, handoff>>
    BY <1>3 DEF AckHandedOver
  <2>2. cur.inn \in Companies /\ Explicit(unit["agg"][cur.inn]) /\ cur \in RowType
    BY <2>1, AtSurface DEF DrainPlaces
  <2>3. UnitsGrow
    BY <1>3, <2>2, AckGrows DEF AckHandedOver, Surface
  <2> QED
    BY <1>3, <2>1, <2>2, <2>3, SameHandoffs, DrainInv DEF AckHandedOver, DrainPlaces, SurfacePlaces
<1>4. CASE Checkpoint
  <2> DEFINE to == IF cur.hasDone THEN AnnounceCompletion ELSE "done"
  <2>1. pc = "checkpoint" /\ pc' = to /\ UNCHANGED <<cur, handoff>>
    BY <1>4 DEF Checkpoint
  <2>t. to \in {"done", "completed", "sync"}
    BY DEF AnnounceCompletion
  <2>2. /\ cur.inn \in Companies /\ cur.surface \in Surface /\ cur.keep \in Nat
        /\ Explicit(unit[cur.surface][cur.inn]) /\ cur \in RowType
    BY <2>1, AtSurface DEF DrainPlaces, SurfacePlaces
  <2>3. UnitsGrow /\ Explicit(unit'[cur.surface][cur.inn])
    BY <1>4, <2>2, CheckpointGrows DEF Checkpoint
  <2> HIDE DEF to
  <2>4. pc' \in DrainPlaces /\ pc' \notin {"handover", "prefetched"} /\ pc \in DrainPlaces
    BY <2>1, <2>t DEF DrainPlaces, SurfacePlaces
  <2> QED
    BY <1>4, <2>1, <2>2, <2>3, <2>4, SameHandoffs, DrainInv DEF Checkpoint
<1>5. CASE AckUnit
  <2>1. pc = "ack" /\ pc' = "result" /\ UNCHANGED <<cur, handoff>>
    BY <1>5 DEF AckUnit
  <2>2. /\ cur.inn \in Companies /\ cur.surface \in Surface
        /\ Explicit(unit[cur.surface][cur.inn]) /\ cur \in RowType
    BY <2>1, AtSurface DEF DrainPlaces, SurfacePlaces
  <2>3. UnitsGrow
    BY <1>5, <2>2, AckGrows DEF AckUnit
  <2>4. Explicit(unit'[cur.surface][cur.inn])
    BY <2>2, <2>3 DEF UnitsGrow
  <2> QED
    BY <1>5, <2>1, <2>2, <2>3, <2>4, SameHandoffs, DrainInv
       DEF AckUnit, DrainPlaces, SurfacePlaces
<1> QED
  BY <1>1, <1>2, <1>3, <1>4, <1>5

\* Picking up a handoff marks it, and leaves the units alone: a ready handoff
\* has an explicit aggregator unit.
LEMMA SyncPickupsInv ==
  ASSUME IInv, SyncPickups
  PROVE  IInv'
<1> DEFINE fresh == {c \in Companies : Ready(handoff[c]) /\ ~handoff[c].picked}
           row == [c \in Companies |-> IF c \in fresh /\ ~Explicit(unit["agg"][c])
                                       THEN LegacyUnit ELSE unit["agg"][c]]
<1>1. unit \in UnitsType /\ handoff \in [Companies -> HandoffType]
  BY TypeParts DEF IInv, FilesTypeOK, HandoffType
<1>2. \A c \in fresh : Explicit(unit["agg"][c])
  BY DEF IInv, TraceInv, Admitted
<1>3. row = unit["agg"]
  <2> HIDE DEF fresh
  <2> QED
    BY <1>1, <1>2 DEF UnitsType, Surface
<1>4. unit' = [unit EXCEPT !["agg"] = row]
  BY SyncedIsUnit DEF SyncPickups
<1>5. unit' = unit
  <2> HIDE DEF row
  <2> QED
    BY <1>1, <1>3, <1>4 DEF UnitsType
<1>6. HandoffsKept
  <2>1. handoff' = [c \in Companies |->
                      IF c \in fresh THEN [handoff[c] EXCEPT !.picked = TRUE] ELSE handoff[c]]
    BY DEF SyncPickups
  <2>2. \A h \in HandoffType : /\ [h EXCEPT !.picked = TRUE] \in HandoffType
                               /\ [h EXCEPT !.picked = TRUE].last = h.last
    BY DEF HandoffType
  <2> HIDE DEF fresh
  <2> QED
    BY <1>1, <2>1, <2>2 DEF HandoffsKept, Ready
<1>7. /\ pc = "sync" /\ pc' = "ack" /\ UNCHANGED <<cur, evidence>>
  BY DEF SyncPickups, Goto
<1>8. /\ cur \in RowType
      /\ Explicit(unit[cur.surface][cur.inn])
  BY <1>7, AtSurface DEF DrainPlaces, SurfacePlaces
<1> QED
  BY <1>5, <1>6, <1>7, <1>8, SameUnits, DrainInv
     DEF SyncPickups, Goto, DrainPlaces, SurfacePlaces
----------------------------------------------------------------------------
(* Steps that begin or end the work on a row, and the start of a process   *)

LEMMA MaterializeInv ==
  ASSUME IInv, MaterializeUnit
  PROVE  IInv'
<1>1. cur.inn \in Companies
  BY DEF IInv, PlaceInv, At, RowPlaces, MaterializeUnit
<1>2. /\ admissions \in [Companies -> Nat]
      /\ admissions[cur.inn] + 1 \in Nat
      /\ admissions' \in [Companies -> Nat]
  BY <1>1 DEF IInv, TypeOK, MaterializeUnit
<1>3. PICK same \in BOOLEAN : UpsertUnit("agg", cur.inn, admissions[cur.inn] + 1, same)
  BY DEF MaterializeUnit
<1>4. UnitsGrow /\ Explicit(unit'["agg"][cur.inn])
  BY <1>1, <1>2, <1>3, UpsertGrows DEF Surface
<1>5. \A c \in Companies : Admitted(c) => Explicit(unit'["agg"][c])
  BY <1>4 DEF UnitsGrow, Admitted, Surface
<1>6. FilesTypeOK' /\ EvidenceMirrorsUnits' /\ TraceInv'
  <2>1. /\ result' \in [Companies -> Nat]
        /\ terminal' \in BOOLEAN
        /\ handoff' \in [Companies -> HandoffType]
        /\ UNCHANGED <<outbox, cursor>>
        /\ queue \subseteq Companies /\ recovering \subseteq Companies
    BY DEF IInv, TypeOK, MaterializeUnit, HandoffType
  <2>2. \A c \in Companies : Ready(handoff'[c]) => Explicit(unit'["agg"][c])
    BY <1>5 DEF IInv, TraceInv, MaterializeUnit
  <2>3. \A c \in (queue \cup recovering)' : Explicit(unit'["agg"][c])
    BY <1>4, <1>5, <2>1 DEF IInv, TraceInv, MaterializeUnit
  <2> QED
    BY <1>2, <1>4, <2>1, <2>2, <2>3, GrowingFiles
<1>7. SessionTypeOK'
  <2>1. NoRow \in RowType
    BY DEF NoRow, RowType, Surface
  <2> QED
    BY <1>1, <2>1, TypeParts DEF IInv, SessionTypeOK, MaterializeUnit
<1>8. PlaceInv'
  BY DEF MaterializeUnit, PlaceInv, At, RowPlaces, DrainPlaces, SurfacePlaces
<1> QED
  BY <1>6, <1>7, <1>8, NextTypeParts DEF IInv

\* A step that may clear checkpoints, and that leaves the thread without a row.
LEMMA ClearedInv ==
  ASSUME IInv, NEW results,
         unit' = WithoutDuplicates(unit, results), evidence' = WithoutDuplicates(evidence, results)
  PROVE  /\ UnitsGrow
         /\ \A s \in Surface, c \in Companies : unit'[s][c].st = unit[s][c].st
<1>1. unit \in UnitsType /\ evidence = unit
  BY TypeParts DEF IInv, FilesTypeOK, EvidenceMirrorsUnits
<1>2. unit' \in UnitsType /\ \A s \in Surface, c \in Companies : unit'[s][c].st = unit[s][c].st
  BY <1>1, DuplicatesGone
<1> QED
  BY <1>1, <1>2 DEF UnitsGrow, Explicit, IInv, TraceInv, Surface, Admitted

LEMMA StoreResultInv ==
  ASSUME IInv, StoreResult
  PROVE  IInv'
<1> DEFINE results == IF cur.keep = 0 THEN result ELSE [result EXCEPT ![Inn] = cur.keep]
<1>1. cur.inn \in Companies /\ cur.keep \in Nat
  BY AtSurface DEF StoreResult, DrainPlaces, SurfacePlaces
<1>2. result' \in [Companies -> Nat]
  BY <1>1 DEF IInv, TypeOK, StoreResult, Inn
<1>3. UnitsGrow
  <2>1. CASE cur.keep = 0
    BY <2>1, SameUnits DEF StoreResult
  <2>2. CASE cur.keep # 0
    <3>1. unit' = WithoutDuplicates(unit, results) /\ evidence' = WithoutDuplicates(evidence, results)
      BY <2>2 DEF StoreResult
    <3> HIDE DEF results
    <3> QED
      BY <3>1, ClearedInv
  <2> QED
    BY <2>1, <2>2
<1>4. \A c \in Companies : Admitted(c) => Explicit(unit'["agg"][c])
  BY <1>3 DEF UnitsGrow, Admitted, Surface
<1>5. FilesTypeOK' /\ EvidenceMirrorsUnits' /\ TraceInv'
  <2>1. /\ admissions' \in [Companies -> Nat]
        /\ terminal' \in BOOLEAN
        /\ handoff' \in [Companies -> HandoffType]
        /\ UNCHANGED <<outbox, cursor, handoff, queue, recovering>>
        /\ queue \subseteq Companies /\ recovering \subseteq Companies
    BY DEF IInv, TypeOK, StoreResult, Goto, session, HandoffType
  <2>2. \A c \in Companies : Ready(handoff'[c]) => Explicit(unit'["agg"][c])
    BY <1>4, <2>1 DEF IInv, TraceInv
  <2>3. \A c \in (queue \cup recovering)' : Explicit(unit'["agg"][c])
    BY <1>4, <2>1 DEF IInv, TraceInv
  <2> QED
    BY <1>2, <1>3, <2>1, <2>2, <2>3, GrowingFiles
<1>6. SessionTypeOK'
  <2>1. NoRow \in RowType
    BY DEF NoRow, RowType, Surface
  <2>2. cur' = NoRow /\ pc' = "loop" /\ UNCHANGED <<next, session, raised, budget>>
    BY DEF StoreResult, Goto
  <2> QED
    BY <2>1, <2>2, TypeParts DEF IInv, SessionTypeOK, session
<1>7. PlaceInv'
  BY DEF StoreResult, Goto, PlaceInv, At, RowPlaces, DrainPlaces, SurfacePlaces
<1> QED
  BY <1>5, <1>6, <1>7, NextTypeParts DEF IInv

LEMMA LoadInv ==
  ASSUME IInv, pc = "off", NEW m \in {"resume", "retry", "resume_retry", "fresh"},
         NEW sel \in SUBSET Companies, Load(m, sel),
         pc' \in {"loaded", "fresh"}, pc' = "fresh" => m = "fresh",
         budget' \in 0..MaxFailures
  PROVE  IInv'
<1>1. unit \in UnitsType /\ evidence = unit /\ result \in [Companies -> Nat]
  BY TypeParts DEF IInv, FilesTypeOK, EvidenceMirrorsUnits
<1>2. Reconciled = unit /\ Converged \in [Companies -> Nat]
  <2>1. Reconciled = unit
    BY SyncedIsUnit DEF SyncedUnits, Reconciled
  <2>2. \A s \in Surface, c \in Companies : Reconciled[s][c].ckpt \in Nat
    BY <1>1, <2>1 DEF UnitsType, UnitType
  <2> QED
    BY <1>1, <2>1, <2>2 DEF Converged, Surface
<1> DEFINE loaded == WithoutDuplicates(unit, Converged)
<1>3. loaded \in UnitsType /\ \A s \in Surface, c \in Companies : loaded[s][c].st = unit[s][c].st
  <2> HIDE DEF Converged
  <2> QED
    BY <1>1, DuplicatesGone
<1>4. Synchronized(loaded, loaded, handoff) = loaded
  <2>1. \A c \in Companies : Ready(handoff[c]) => Explicit(loaded["agg"][c])
    BY <1>3 DEF IInv, TraceInv, Admitted, Explicit, Surface
  <2> HIDE DEF loaded
  <2> QED
    BY <1>3, <2>1, SynchronizedSame
<1>5. /\ unit' = loaded /\ evidence' = loaded /\ result' = Converged
      /\ mode' = m /\ selected' = sel /\ raised' = "none"
      /\ UNCHANGED <<outbox, cursor, handoff, admissions, terminal, next, cur, pos, queue, deferred>>
  BY <1>1, <1>2, <1>4 DEF Load
<1>6. recovering' = {c \in sel : m \in ResumeModes
                                 /\ \E s \in Surface : unit'[s][c].st = "pending"}
  BY <1>1, <1>2, <1>4 DEF Load
<1>7. UnitsGrow
  BY <1>1, <1>5, ClearedInv
<1> HIDE DEF loaded
<1>8. recovering' \subseteq Companies /\ \A c \in recovering' : Explicit(unit'["agg"][c])
  BY <1>6, <1>7 DEF UnitsGrow, Explicit, Surface
<1>9. FilesTypeOK' /\ EvidenceMirrorsUnits' /\ TraceInv'
  <2>1. /\ admissions' \in [Companies -> Nat]
        /\ terminal' \in BOOLEAN
        /\ handoff' \in [Companies -> HandoffType]
        /\ queue' = {}
    BY <1>5 DEF IInv, TypeOK, HandoffType, PlaceInv
  <2>2. \A c \in Companies : Ready(handoff'[c]) => Explicit(unit'["agg"][c])
    BY <1>5, <1>7 DEF IInv, TraceInv, UnitsGrow, Admitted, Surface
  <2>3. \A c \in (queue \cup recovering)' : Explicit(unit'["agg"][c])
    BY <1>8, <2>1
  <2> QED
    BY <1>2, <1>5, <1>7, <2>1, <2>2, <2>3, GrowingFiles
<1>10. SessionTypeOK'
  BY <1>5, <1>8, TypeParts DEF IInv, SessionTypeOK
<1>11. PlaceInv'
  <2>1. pc' = "fresh" => recovering' = {}
    BY <1>6 DEF ResumeModes
  <2>2. queue' = {}
    BY <1>5 DEF IInv, PlaceInv
  <2> QED
    BY <2>1, <2>2 DEF PlaceInv, At, RowPlaces, DrainPlaces, SurfacePlaces
<1> QED
  BY <1>9, <1>10, <1>11, NextTypeParts DEF IInv

LEMMA StartingSteps ==
  ASSUME IInv, StartResume \/ StartRetry \/ StartFresh
  PROVE  IInv'
<1>1. budget \in 0..MaxFailures /\ (budget > 0 => budget - 1 \in 0..MaxFailures)
  BY LedgerAssumption DEF IInv, TypeOK
<1>2. CASE StartResume
  BY <1>1, <1>2, LoadInv DEF StartResume
<1>3. CASE StartRetry
  <2>1. PICK m \in {"retry", "resume_retry"},
             rows \in SUBSET {c \in Companies : Converged[c] # 0} \ {{}} : Load(m, rows)
    BY <1>3 DEF StartRetry
  <2>2. rows \in SUBSET Companies
    OBVIOUS
  <2> QED
    BY <1>1, <1>3, <2>1, <2>2, LoadInv DEF StartRetry
<1>4. CASE StartFresh
  BY <1>1, <1>4, LoadInv DEF StartFresh
<1> QED
  BY <1>2, <1>3, <1>4

LEMMA ResettingSteps ==
  ASSUME IInv, ResetLogs \/ ResetState
  PROVE  IInv'
<1>1. CASE ResetLogs
  <2>1. SessionTypeOK'
    BY <1>1, TypeParts DEF IInv, SessionTypeOK, ResetLogs, session
  <2>2. FilesTypeOK'
    BY <1>1, TypeParts DEF IInv, FilesTypeOK, ResetLogs
  <2>3. TraceInv'
    BY <1>1 DEF IInv, TraceInv, ResetLogs, session, Admitted
  <2>4. PlaceInv'
    BY <1>1 DEF IInv, PlaceInv, ResetLogs, session, At, RowPlaces, DrainPlaces, SurfacePlaces
  <2>5. EvidenceMirrorsUnits'
    BY <1>1 DEF IInv, EvidenceMirrorsUnits, ResetLogs
  <2> QED
    BY <2>1, <2>2, <2>3, <2>4, <2>5, NextTypeParts DEF IInv
<1>2. CASE ResetState
  <2>1. SessionTypeOK'
    BY <1>2, TypeParts DEF IInv, SessionTypeOK, ResetState, session
  <2>u. NoUnit \in UnitType /\ NoUnit.st = "none"
    BY DEF NoUnit, UnitType
  <2>h. NoHandoff \in HandoffType /\ NoHandoff.last = "none"
    BY DEF NoHandoff, HandoffType
  <2>2. /\ unit' \in UnitsType
        /\ evidence' = unit'
        /\ \A s \in Surface, c \in Companies : unit'[s][c].st = "none"
        /\ handoff' \in [Companies -> HandoffType]
        /\ \A c \in Companies : handoff'[c].last = "none"
    <3>1. /\ unit' = [s \in Surface |-> [c \in Companies |-> NoUnit]]
          /\ evidence' = unit'
          /\ handoff' = [c \in Companies |-> NoHandoff]
      BY <1>2 DEF ResetState
    <3> QED
      BY <2>u, <2>h, <3>1 DEF UnitsType
  <2>3. outbox' = <<>> /\ queue' = {} /\ recovering' = {}
    BY <1>2 DEF IInv, PlaceInv, ResetState, session
  <2>4. FilesTypeOK'
    <3>1. outbox' \in Seq([inn : Companies, kind : Kind])
      BY <2>3
    <3>2. /\ cursor' \in Nat /\ terminal' \in BOOLEAN
          /\ result' \in [Companies -> Nat] /\ admissions' \in [Companies -> Nat]
      BY <1>2 DEF ResetState
    <3> QED
      BY <2>2, <3>1, <3>2 DEF FilesTypeOK, HandoffType
  <2>5. TraceInv'
    BY <2>2, <2>3 DEF TraceInv, Explicit, Ready, Surface
  <2>6. PlaceInv'
    BY <1>2 DEF PlaceInv, ResetState, session, At, RowPlaces, DrainPlaces, SurfacePlaces
  <2> QED
    BY <2>1, <2>2, <2>4, <2>5, <2>6, NextTypeParts DEF IInv, EvidenceMirrorsUnits
<1> QED
  BY <1>1, <1>2
----------------------------------------------------------------------------
(* The theorems                                                            *)

LEMMA NextInv == IInv /\ [Next]_vars => IInv'
<1> SUFFICES ASSUME IInv, [Next]_vars PROVE IInv'
  OBVIOUS
<1>1. CASE StartResume \/ StartRetry \/ StartFresh
  BY <1>1, StartingSteps
<1>2. CASE ResetLogs \/ ResetState
  BY <1>2, ResettingSteps
<1>3. CASE \/ RunStarted \/ ReadTruncated \/ SkipRow \/ VisitRow \/ DeferRow
           \/ DrainPending \/ Finish \/ LookUpFails \/ Crash \/ Interrupt
  BY <1>3, QuietSteps
<1>4. CASE ReadOutbox
  BY <1>4, ReadOutboxInv
<1>5. CASE CollectSources \/ EmitDone \/ EmitCompleted
  BY <1>5, EmittingSteps
<1>6. CASE ChooseCandidates
  <2>1. CASE EmitThen("candidate", "unit") /\ UNCHANGED cur
    BY <1>6, <2>1, EmittingSteps DEF ChooseCandidates
  <2>2. CASE /\ pc' = "unit"
             /\ UNCHANGED <<outbox, next, cur, session>>
             /\ LedgerUnchanged
    <3>1. pc = "candidates"
      BY <1>6 DEF ChooseCandidates
    <3>2. FilesTypeOK' /\ EvidenceMirrorsUnits' /\ TraceInv'
      BY <2>2, SameFiles DEF LedgerUnchanged, session, IInv, TypeOK, TraceInv
    <3>3. SessionTypeOK'
      BY <2>2, TypeParts DEF IInv, SessionTypeOK, LedgerUnchanged, session, RowPlaces
    <3>4. PlaceInv'
      BY <2>2, <3>1 DEF IInv, PlaceInv, LedgerUnchanged, session, At, RowPlaces, DrainPlaces,
         SurfacePlaces
    <3> QED
      BY <3>2, <3>3, <3>4, NextTypeParts DEF IInv
  <2> QED
    BY <1>6, <2>1, <2>2 DEF ChooseCandidates
<1>7. CASE MaterializeUnit
  BY <1>7, MaterializeInv
<1>8. CASE LookUp
  BY <1>8, LookUpInv
<1>9. CASE RestoreStored \/ RestoreCheckpoint \/ HaveResult
  BY <1>9, DecidingSteps
<1>10. CASE Gate
  <2>1. CASE EmitThen("gate", "gated") /\ UNCHANGED cur
    BY <1>10, <2>1, EmittingSteps DEF Gate
  <2>2. CASE Decide(0, "gated")
    BY <1>10, <2>2, DecidingSteps DEF Gate
  <2> QED
    BY <1>10, <2>1, <2>2 DEF Gate
<1>11. CASE HandOver \/ CheckpointPrefetched \/ AckHandedOver \/ Checkpoint \/ AckUnit
  BY <1>11, UnitWritingSteps
<1>12. CASE SyncPickups
  BY <1>12, SyncPickupsInv
<1>13. CASE StoreResult
  BY <1>13, StoreResultInv
<1>14. CASE UNCHANGED vars
  <2>1. FilesTypeOK' /\ EvidenceMirrorsUnits' /\ TraceInv'
    <3>1. UNCHANGED <<outbox, cursor, handoff, unit, evidence, result, admissions, terminal,
                      queue, recovering>>
      BY <1>14 DEF vars
    <3> QED
      BY <3>1, SameFiles DEF IInv, TypeOK, TraceInv
  <2>2. SessionTypeOK'
    BY <1>14, TypeParts DEF vars, IInv, SessionTypeOK
  <2>3. PlaceInv'
    BY <1>14 DEF vars, IInv, PlaceInv, At, Admitted, Explicit
  <2> QED
    BY <2>1, <2>2, <2>3, NextTypeParts DEF IInv
<1> QED
  BY <1>1, <1>2, <1>3, <1>4, <1>5, <1>6, <1>7, <1>8, <1>9, <1>10, <1>11, <1>12, <1>13, <1>14
     DEF Next, Step, Proceed

LEMMA Invariance == Spec => []IInv
BY InitInv, NextInv, PTL DEF Spec

\* The ledger keeps its types in every run: TypeOK.
THEOREM TypeCorrect == Spec => []TypeOK
<1>1. IInv => TypeOK
  BY DEF IInv
<1> QED
  BY <1>1, Invariance, PTL

\* Whatever crashes, failures, resumes and retries do, the execution evidence
\* agrees with the work units it overrides, so a lookup of pending units
\* (consume_pending_stage_work_units) undoes no acknowledgement and no
\* checkpoint: EvidenceMirrorsUnits.
THEOREM EvidenceAgrees == Spec => []EvidenceMirrorsUnits
<1>1. IInv => EvidenceMirrorsUnits
  BY DEF IInv
<1> QED
  BY <1>1, Invariance, PTL

\* The units a lookup works on are the units that were written: the
\* synchronization that precedes it changes nothing.
THEOREM LookupChangesNothing == Spec => [](SyncedUnits = unit)
<1>1. IInv => SyncedUnits = unit
  BY SyncedIsUnit
<1> QED
  BY <1>1, Invariance, PTL

\* No ready handoff is ever without an explicit work unit, so the legacy units
\* the ledger can make of a handoff never come into being.
NoLegacyUnit == \A s \in Surface, c \in Companies : unit[s][c].st # "legacy"

THEOREM LegacyUnitsAreUnused == Spec => []NoLegacyUnit
<1>1. IInv => NoLegacyUnit
  BY DEF IInv, TraceInv, NoLegacyUnit
<1> QED
  BY <1>1, Invariance, PTL

----------------------------------------------------------------------------
(* The cursor                                                              *)

\* Between the deletion of the outbox and the reset of the cursor, and only
\* there, the cursor is ahead of the outbox.
CursorInv == /\ cursor \in Nat
             /\ Len(outbox) \in Nat
             /\ pc = "reset" => outbox = <<>>
             /\ pc # "reset" => cursor <= Len(outbox)

LEMMA CursorStep ==
  ASSUME IInv, CursorInv, ~CrashInReset, [Next]_vars
  PROVE  (pc # "reset" => cursor <= Len(outbox))'
<1> SUFFICES ASSUME pc' # "reset" PROVE cursor' <= Len(outbox')
  OBVIOUS
<1>1. CASE UNCHANGED <<outbox, cursor>> /\ pc # "reset"
  BY <1>1 DEF CursorInv
<1>2. CASE ReadOutbox
  <2>1. outbox' = outbox /\ cursor' = IF outbox = <<>> THEN cursor ELSE Len(outbox)
    BY <1>2 DEF ReadOutbox
  <2>2. pc # "reset"
    BY <1>2 DEF ReadOutbox
  <2> QED
    BY <2>1, <2>2 DEF CursorInv
<1>3. CASE ResetState
  BY <1>3 DEF CursorInv, ResetState
<1>4. ASSUME NEW k, Emit(k), UNCHANGED cursor, pc # "reset" PROVE cursor' <= Len(outbox')
  <2>1. outbox' = Append(outbox, [inn |-> cur.inn, kind |-> k])
    BY <1>4 DEF Emit
  <2>2. Len(outbox') = Len(outbox) + 1
    BY <2>1 DEF IInv, TypeOK
  <2> QED
    BY <1>4, <2>2 DEF CursorInv
<1>5. CASE UNCHANGED vars
  BY <1>5, <1>1 DEF vars
<1>6. CASE CollectSources \/ ChooseCandidates \/ Gate \/ EmitDone \/ EmitCompleted
  BY <1>6, <1>1, <1>4 DEF CollectSources, ChooseCandidates, Gate, EmitDone, EmitCompleted,
     EmitThen, LedgerUnchanged, Decide, Goto
<1>7. CASE StartResume \/ StartRetry \/ StartFresh
  BY <1>7, <1>1 DEF StartResume, StartRetry, StartFresh, Load
<1>8. CASE RunStarted \/ ReadTruncated \/ SkipRow \/ VisitRow \/ DeferRow
           \/ DrainPending \/ Finish \/ LookUpFails \/ Crash \/ Interrupt
  BY <1>8, <1>1 DEF RunStarted, ReadTruncated, SkipRow, VisitRow, DeferRow, DrainPending,
     Finish, RowsDone, LookUpFails, Raise, Crash, Interrupt, LedgerUnchanged, files
<1>9. CASE MaterializeUnit \/ LookUp \/ RestoreStored \/ RestoreCheckpoint \/ HaveResult
           \/ HandOver \/ CheckpointPrefetched
  BY <1>9, <1>1 DEF MaterializeUnit, LookUp, RestoreStored, RestoreCheckpoint, HaveResult,
     HandOver, CheckpointPrefetched, Decide, Goto
<1>10. CASE AckHandedOver \/ Checkpoint \/ AckUnit \/ SyncPickups \/ StoreResult
  BY <1>10, <1>1 DEF AckHandedOver, Checkpoint, AckUnit, SyncPickups, StoreResult, Goto
<1>11. CASE ResetLogs
  BY <1>11 DEF ResetLogs
<1> QED
  BY <1>2, <1>3, <1>5, <1>6, <1>7, <1>8, <1>9, <1>10, <1>11 DEF Next, Step, Proceed

\* As long as no crash hits the reset of a fresh run, the cursor of the stage
\* messages never points behind the end of the outbox, so
\* read_unconsumed_stage_messages never raises: CursorInOutbox.
THEOREM CursorIsValid == ~CrashInReset => (Spec => []CursorInOutbox)
<1> SUFFICES ASSUME ~CrashInReset PROVE Spec => []CursorInOutbox
  OBVIOUS
<1>1. Init => CursorInv
  BY DEF Init, CursorInv
<1>2. IInv /\ IInv' /\ CursorInv /\ [Next]_vars => CursorInv'
  <2> SUFFICES ASSUME IInv, IInv', CursorInv, [Next]_vars PROVE CursorInv'
    OBVIOUS
  <2>1. (pc # "reset" => cursor <= Len(outbox))'
    BY CursorStep
  <2>2. cursor' \in Nat /\ Len(outbox') \in Nat
    BY DEF IInv, TypeOK
  <2>3. pc' = "reset" => outbox' = <<>>
    BY DEF IInv, PlaceInv
  <2> QED
    BY <2>1, <2>2, <2>3 DEF CursorInv
<1>3. CursorInv => CursorInOutbox
  BY DEF CursorInv, CursorInOutbox
<1> QED
  BY <1>1, <1>2, <1>3, Invariance, PTL DEF Spec
----------------------------------------------------------------------------
(* What the steps do to single units                                       *)

\* Only the unit of company c on surface s may change.
OnlyUnit(s, c) ==
  \A s2 \in Surface, c2 \in Companies : s2 # s \/ c2 # c => unit'[s2][c2] = unit[s2][c2]

LEMMA UpsertEffect ==
  ASSUME IInv, NEW s \in Surface, NEW c \in Companies, NEW g \in Nat, NEW same \in BOOLEAN,
         UpsertUnit(s, c, g, same)
  PROVE  /\ OnlyUnit(s, c)
         /\ \/ Explicit(unit[s][c]) /\ same /\ unit'[s][c] = unit[s][c]
            \/ /\ ~(Explicit(unit[s][c]) /\ same)
               /\ unit'[s][c].st = "pending" /\ unit'[s][c].gen = g /\ unit'[s][c].ckpt = 0
<1> DEFINE fresh == [st |-> "pending", gen |-> g, ckpt |-> 0]
           u == IF Kept(unit[s][c], same) THEN unit[s][c] ELSE fresh
<1>1. unit \in UnitsType
  BY TypeParts DEF IInv, FilesTypeOK
<1>2. fresh \in UnitType
  BY DEF UnitType
<1>3. u \in UnitType
  BY <1>1, <1>2 DEF UnitsType
<1>4. unit' = Written(unit, s, c, u)
  BY DEF Written, UpsertUnit
<1>5. unit'[s][c] = u /\ OnlyUnit(s, c)
  <2> HIDE DEF u
  <2> QED
    BY <1>1, <1>3, <1>4, WriteUnit DEF OnlyUnit
<1> QED
  BY <1>5 DEF Kept

LEMMA CheckpointEffect ==
  ASSUME IInv, NEW s \in Surface, NEW c \in Companies, NEW g \in Nat, MergeCheckpoint(s, c, g)
  PROVE  /\ OnlyUnit(s, c)
         /\ unit'[s][c].st = unit[s][c].st /\ unit'[s][c].gen = unit[s][c].gen
         /\ unit'[s][c].ckpt = g
<1> DEFINE u == [unit[s][c] EXCEPT !.ckpt = g]
<1>1. unit \in UnitsType /\ unit[s][c] \in UnitType
  BY TypeParts DEF IInv, FilesTypeOK, UnitsType
<1>2. /\ u \in UnitType
      /\ u.st = unit[s][c].st /\ u.gen = unit[s][c].gen /\ u.ckpt = g
  BY <1>1 DEF UnitType
<1>3. unit' = Written(unit, s, c, u)
  BY <1>1 DEF Written, MergeCheckpoint, UnitsType
<1> HIDE DEF u
<1> QED
  BY <1>1, <1>2, <1>3, WriteUnit DEF OnlyUnit

LEMMA AckEffect ==
  ASSUME IInv, NEW s \in Surface, NEW c \in Companies, Explicit(unit[s][c]), Ack(s, c)
  PROVE  /\ OnlyUnit(s, c)
         /\ unit'[s][c].st = "acked" /\ unit'[s][c].gen = unit[s][c].gen
         /\ unit'[s][c].ckpt = unit[s][c].ckpt
<1> DEFINE u == Acked(unit[s][c])
<1>1. unit \in UnitsType /\ unit[s][c] \in UnitType
  BY TypeParts DEF IInv, FilesTypeOK, UnitsType
<1>2. /\ u \in UnitType
      /\ u.st = "acked" /\ u.gen = unit[s][c].gen /\ u.ckpt = unit[s][c].ckpt
  BY <1>1 DEF UnitType, Acked, Explicit
<1>3. unit' = Written(unit, s, c, u)
  BY <1>1 DEF Written, Ack, UnitsType
<1> HIDE DEF u
<1> QED
  BY <1>1, <1>2, <1>3, WriteUnit DEF OnlyUnit

LEMMA ClearEffect ==
  ASSUME IInv, NEW results, unit' = WithoutDuplicates(unit, results)
  PROVE  \A s \in Surface, c \in Companies :
           /\ unit'[s][c].st = unit[s][c].st /\ unit'[s][c].gen = unit[s][c].gen
           /\ unit'[s][c].ckpt = IF results[c] # 0 THEN 0 ELSE unit[s][c].ckpt
<1>1. \A s \in Surface, c \in Companies : unit[s][c] \in UnitType
  BY TypeParts DEF IInv, FilesTypeOK, UnitsType
<1>2. \A u \in UnitType : /\ [u EXCEPT !.ckpt = 0].st = u.st
                         /\ [u EXCEPT !.ckpt = 0].gen = u.gen
                         /\ [u EXCEPT !.ckpt = 0].ckpt = 0
  BY DEF UnitType
<1>3. \A s \in Surface, c \in Companies :
        unit'[s][c] = IF results[c] # 0 THEN [unit[s][c] EXCEPT !.ckpt = 0] ELSE unit[s][c]
  BY DEF WithoutDuplicates
<1> TAKE s \in Surface, c \in Companies
<1>4. CASE results[c] # 0
  <2>1. unit[s][c] \in UnitType /\ unit'[s][c] = [unit[s][c] EXCEPT !.ckpt = 0]
    BY <1>1, <1>3, <1>4
  <2> QED
    BY <1>2, <1>4, <2>1
<1>5. CASE results[c] = 0
  BY <1>3, <1>5
<1> QED
  BY <1>4, <1>5

\* A process that loads the ledger takes every result it may, clears the
\* checkpoints of what it took, and leaves the units otherwise as they are.
LEMMA LoadEffect ==
  ASSUME IInv, NEW m, NEW sel, Load(m, sel)
  PROVE  /\ result' = Converged /\ Reconciled = unit
         /\ unit' = WithoutDuplicates(unit, Converged)
         /\ recovering' = {c \in sel : m \in ResumeModes
                                       /\ \E s \in Surface : unit'[s][c].st = "pending"}
<1>1. unit \in UnitsType /\ evidence = unit
  BY TypeParts DEF IInv, FilesTypeOK, EvidenceMirrorsUnits
<1>2. Reconciled = unit
  BY SyncedIsUnit DEF SyncedUnits, Reconciled
<1> DEFINE loaded == WithoutDuplicates(unit, Converged)
<1>3. loaded \in UnitsType /\ \A s \in Surface, c \in Companies : loaded[s][c].st = unit[s][c].st
  <2> HIDE DEF Converged
  <2> QED
    BY <1>1, DuplicatesGone
<1>4. Synchronized(loaded, loaded, handoff) = loaded
  <2>1. \A c \in Companies : Ready(handoff[c]) => Explicit(loaded["agg"][c])
    BY <1>3 DEF IInv, TraceInv, Admitted, Explicit, Surface
  <2> HIDE DEF loaded
  <2> QED
    BY <1>3, <2>1, SynchronizedSame
<1> QED
  BY <1>1, <1>2, <1>4 DEF Load

\* Synchronization before a pickup changes no unit.
LEMMA PickupEffect ==
  ASSUME IInv, SyncPickups
  PROVE  unit' = unit
<1> DEFINE fresh == {c \in Companies : Ready(handoff[c]) /\ ~handoff[c].picked}
           row == [c \in Companies |-> IF c \in fresh /\ ~Explicit(unit["agg"][c])
                                       THEN LegacyUnit ELSE unit["agg"][c]]
<1>1. unit \in UnitsType
  BY TypeParts DEF IInv, FilesTypeOK
<1>2. \A c \in fresh : Explicit(unit["agg"][c])
  BY DEF IInv, TraceInv, Admitted
<1>3. row = unit["agg"]
  <2> HIDE DEF fresh
  <2> QED
    BY <1>1, <1>2 DEF UnitsType, Surface
<1>4. unit' = [unit EXCEPT !["agg"] = row]
  BY SyncedIsUnit DEF SyncPickups
<1> HIDE DEF row
<1> QED
  BY <1>1, <1>3, <1>4 DEF UnitsType

----------------------------------------------------------------------------
(* No admitted company is lost                                             *)

\* What the two units a and d and the stored result r of a company say: an
\* acknowledgement comes after a checkpoint, or after the hand-over to a unit
\* that is still there.
UnitsSafe(a, d, r) ==
  /\ Explicit(a) => a.gen # 0
  /\ Explicit(d) => d.gen # 0
  /\ d.st = "acked" => r # 0 \/ d.ckpt # 0
  /\ a.st = "acked" => r # 0 \/ a.ckpt # 0 \/ Explicit(d)

\* What the thread knows of the row in hand before it acknowledges its unit.
RowSafe ==
  /\ At(RowPlaces) /\ cur.existing => result[cur.inn] # 0
  /\ At(SurfacePlaces \cup {"handover", "prefetched"}) => cur.gen # 0
  /\ pc = "checkpoint" => cur.keep # 0
  /\ At({"done", "completed", "sync", "ack"}) =>
       result[cur.inn] # 0 \/ unit[cur.surface][cur.inn].ckpt # 0

AllSafe == \A c \in Companies : UnitsSafe(unit["agg"][c], unit["deep"][c], result[c])

RecoverInv == AllSafe /\ RowSafe

LEMMA RecoverInit == Init => RecoverInv
<1> SUFFICES ASSUME Init PROVE RecoverInv
  OBVIOUS
<1>1. AllSafe
  BY DEF Init, AllSafe, UnitsSafe, NoUnit, Explicit, Surface
<1>2. RowSafe
  BY DEF Init, RowSafe, At, RowPlaces, DrainPlaces, SurfacePlaces
<1> QED
  BY <1>1, <1>2 DEF RecoverInv

\* A thread without a row has nothing to know.
LEMMA NoRowSafe ==
  ASSUME \/ pc' \in {"off", "loaded", "fresh", "reset", "loop"}
         \/ pc' = "read" /\ next' = "loop"
  PROVE  RowSafe'
BY DEF RowSafe, At, RowPlaces, DrainPlaces, SurfacePlaces

LEMMA RecoverLoad ==
  ASSUME IInv, RecoverInv, NEW m, NEW sel, Load(m, sel)
  PROVE  AllSafe'
<1>1. /\ result' = Converged /\ Reconciled = unit /\ unit' = WithoutDuplicates(unit, Converged)
      /\ result \in [Companies -> Nat]
  BY LoadEffect DEF IInv, TypeOK
<1>2. \A s \in Surface, c \in Companies :
        /\ unit'[s][c].st = unit[s][c].st /\ unit'[s][c].gen = unit[s][c].gen
        /\ unit'[s][c].ckpt = IF Converged[c] # 0 THEN 0 ELSE unit[s][c].ckpt
  BY <1>1, ClearEffect
<1>3. \A c \in Companies : result[c] # 0 => Converged[c] # 0
  BY DEF Converged
<1> QED
  BY <1>1, <1>2, <1>3 DEF AllSafe, RecoverInv, UnitsSafe, Explicit, Surface

\* Steps that leave units and results alone.
LEMMA RecoverSameFiles ==
  ASSUME RecoverInv, UNCHANGED <<unit, result>>
  PROVE  AllSafe'
BY DEF RecoverInv, AllSafe

LEMMA RecoverQuiet ==
  ASSUME IInv, RecoverInv,
         \/ RunStarted \/ ReadTruncated \/ SkipRow \/ VisitRow \/ DeferRow
         \/ DrainPending \/ Finish \/ LookUpFails \/ Crash \/ Interrupt \/ ResetLogs
  PROVE  RecoverInv'
<1>1. UNCHANGED <<unit, result>>
  BY DEF RunStarted, ReadTruncated, SkipRow, VisitRow, DeferRow, DrainPending, Finish,
     LookUpFails, Crash, Interrupt, ResetLogs, LedgerUnchanged, Raise, files
<1>2. CASE VisitRow \/ DrainPending
  <2>1. PICK c \in Companies : cur' = RowOf(c)
    BY <1>2 DEF VisitRow, DrainPending, IInv, TypeOK
  <2>2. cur'.inn = c /\ (cur'.existing => result[c] # 0)
    BY <2>1 DEF RowOf, NoRow
  <2>3. pc' \in {"sources", "drain"}
    BY <1>2 DEF VisitRow, DrainPending
  <2>4. RowSafe'
    BY <1>1, <2>2, <2>3 DEF RowSafe, At, RowPlaces, DrainPlaces, SurfacePlaces
  <2> QED
    BY <1>1, <2>4, RecoverSameFiles DEF RecoverInv
<1>3. CASE \/ RunStarted \/ ReadTruncated \/ SkipRow \/ DeferRow
           \/ Finish \/ LookUpFails \/ Crash \/ Interrupt \/ ResetLogs
  <2>1. pc' \in {"off", "loaded", "fresh", "reset", "loop"} \/ (pc' = "read" /\ next' = "loop")
    BY <1>3 DEF RunStarted, ReadTruncated, SkipRow, DeferRow, Finish, LookUpFails, Crash,
       Interrupt, ResetLogs, Raise, Exit, RowsDone
  <2> QED
    BY <1>1, <2>1, NoRowSafe, RecoverSameFiles DEF RecoverInv
<1> QED
  BY <1>2, <1>3

\* Steps of the thread with its row that leave the row, units and results alone.
LEMMA RecoverSameRow ==
  ASSUME IInv, RecoverInv, UNCHANGED <<unit, result, cur>>,
         \/ CollectSources \/ ChooseCandidates \/ EmitDone \/ EmitCompleted \/ ReadOutbox
         \/ pc = "consume" /\ EmitThen("gate", "gated")
  PROVE  RecoverInv'
<1>1. CASE ReadOutbox
  <2>1. pc = "read" /\ pc' = next /\ next' = next
    BY <1>1 DEF ReadOutbox
  <2>2. next # "read" /\ next # "checkpoint"
    BY DEF IInv, TypeOK
  <2> QED
    BY <2>1, <2>2, RecoverSameFiles
       DEF RecoverInv, RowSafe, At, RowPlaces, DrainPlaces, SurfacePlaces
<1>2. CASE CollectSources \/ ChooseCandidates
  <2>1. At(RowPlaces) /\ ~At(DrainPlaces)' /\ pc' # "checkpoint"
    BY <1>2 DEF CollectSources, ChooseCandidates, EmitThen, At, RowPlaces, DrainPlaces, SurfacePlaces
  <2> QED
    BY <2>1, RecoverSameFiles DEF RecoverInv, RowSafe, At, RowPlaces, DrainPlaces, SurfacePlaces
<1>3. CASE EmitDone \/ EmitCompleted
  BY <1>3, RecoverSameFiles
     DEF EmitDone, EmitCompleted, EmitThen, AnnounceCompletion, RecoverInv, RowSafe, At,
         RowPlaces, DrainPlaces, SurfacePlaces
<1>4. CASE pc = "consume" /\ EmitThen("gate", "gated")
  BY <1>4, RecoverSameFiles
     DEF EmitThen, RecoverInv, RowSafe, At, RowPlaces, DrainPlaces, SurfacePlaces
<1> QED
  BY <1>1, <1>2, <1>3, <1>4

\* One unit of the row in hand changes, and the others keep what they say.
LEMMA OneUnitSafe ==
  ASSUME RecoverInv, NEW s \in Surface, NEW c \in Companies, OnlyUnit(s, c), result' = result,
         UnitsSafe(unit'["agg"][c], unit'["deep"][c], result[c])
  PROVE  AllSafe'
BY DEF RecoverInv, AllSafe, OnlyUnit, Surface

LEMMA RecoverDecide ==
  ASSUME IInv, RecoverInv,
         \/ RestoreStored \/ RestoreCheckpoint \/ HaveResult
         \/ pc = "consume" /\ Decide(0, "gated")
  PROVE  RecoverInv'
<1> USE DEF Goto, Decide
<1>1. /\ pc \in {"consume", "gated"} /\ UNCHANGED <<unit, result>>
      /\ pc' \in {"checkpoint", "gated", "done", "completed", "sync"}
      /\ pc' = "checkpoint" => HaveResult
      /\ HaveResult => pc' = "checkpoint"
      /\ pc' = "gated" => pc = "consume" /\ Decide(0, "gated")
  BY DEF RestoreStored, RestoreCheckpoint, HaveResult, AnnounceCompletion
<1>2. cur \in RowType /\ cur.gen # 0 /\ (cur.existing => result[cur.inn] # 0)
  BY <1>1 DEF IInv, TypeOK, RecoverInv, RowSafe, At, RowPlaces, DrainPlaces, SurfacePlaces
<1>3. PICK k : cur' = [cur EXCEPT !.keep = k] /\ (HaveResult => k = cur.gen)
  BY DEF RestoreStored, RestoreCheckpoint, HaveResult
<1>4. /\ cur'.inn = cur.inn /\ cur'.gen = cur.gen /\ cur'.surface = cur.surface
      /\ cur'.existing = cur.existing /\ cur'.keep = k
  BY <1>2, <1>3 DEF RowType
<1>5. RestoreStored => result[cur.inn] # 0
  BY <1>2 DEF RestoreStored, KeepStored
<1>6. RestoreCheckpoint => unit[cur.surface][cur.inn].ckpt # 0
  BY DEF RestoreCheckpoint, KeepCheckpoint, Ckpt, Inn
<1>7. pc' \in {"done", "completed", "sync"} => RestoreStored \/ RestoreCheckpoint
  BY <1>1
<1>8. RowSafe'
  <2>1. /\ (At(RowPlaces) /\ cur.existing => result[cur.inn] # 0)'
        /\ (At(SurfacePlaces \cup {"handover", "prefetched"}) => cur.gen # 0)'
    BY <1>1, <1>2, <1>4
  <2>2. (pc = "checkpoint" => cur.keep # 0)'
    BY <1>1, <1>2, <1>3, <1>4
  <2>3. pc' # "read"
    BY <1>1
  <2>4. (At({"done", "completed", "sync", "ack"}) =>
           result[cur.inn] # 0 \/ unit[cur.surface][cur.inn].ckpt # 0)'
    BY <1>1, <1>4, <1>5, <1>6, <1>7, <2>3 DEF At
  <2> QED
    BY <2>1, <2>2, <2>4 DEF RowSafe
<1> QED
  BY <1>1, <1>8, RecoverSameFiles DEF RecoverInv

LEMMA RecoverLookUp ==
  ASSUME IInv, RecoverInv, LookUp
  PROVE  RecoverInv'
<1> DEFINE s == IF "deep" \in PendingFor(Inn) THEN "deep" ELSE "agg"
<1>1. SyncedUnits = unit
  BY SyncedIsUnit
<1>2. /\ pc = "drain" /\ pc' = "consume" /\ UNCHANGED <<unit, result>>
      /\ cur.inn \in Companies /\ cur \in RowType
  BY <1>1, AtSurface DEF LookUp, Goto, DrainPlaces
<1>3. /\ s \in Surface /\ Explicit(unit[s][cur.inn])
      /\ cur'.inn = cur.inn /\ cur'.gen = unit[s][cur.inn].gen /\ cur'.existing = cur.existing
  <2>1. s \in Surface /\ unit[s][cur.inn].st = "pending"
    BY <1>1 DEF LookUp, PendingFor, Inn, Surface
  <2>2. PICK a, b : cur' = [cur EXCEPT !.surface = s, !.gen = unit[s][cur.inn].gen, !.keep = 0,
                                       !.hasDone = a, !.hasCompleted = b]
    BY <1>1 DEF LookUp, Inn
  <2> HIDE DEF s
  <2> QED
    BY <1>2, <2>1, <2>2 DEF RowType, Explicit
<1> HIDE DEF s
<1>4. cur'.gen # 0
  BY <1>2, <1>3 DEF RecoverInv, AllSafe, UnitsSafe, Surface
<1>5. RowSafe'
  BY <1>2, <1>3, <1>4 DEF RecoverInv, RowSafe, At, RowPlaces, DrainPlaces, SurfacePlaces
<1> QED
  BY <1>2, <1>5, RecoverSameFiles DEF RecoverInv

LEMMA RecoverUnitSteps ==
  ASSUME IInv, RecoverInv,
         \/ HandOver \/ CheckpointPrefetched \/ AckHandedOver \/ Checkpoint \/ AckUnit
  PROVE  RecoverInv'
<1> USE DEF Goto, Inn
<1>1. /\ pc \in DrainPlaces /\ UNCHANGED <<result, cur, next>>
      /\ HandOver => pc = "gated" /\ pc' = "handover"
      /\ CheckpointPrefetched => pc = "handover" /\ pc' = "prefetched"
      /\ AckHandedOver => pc \in {"handover", "prefetched"} /\ pc' = "drain"
      /\ Checkpoint => pc = "checkpoint" /\ pc' \in {"done", "completed", "sync"}
      /\ AckUnit => pc = "ack" /\ pc' = "result"
  BY DEF HandOver, CheckpointPrefetched, AckHandedOver, Checkpoint, AckUnit, AnnounceCompletion,
     DrainPlaces, SurfacePlaces
<1> DEFINE c == cur.inn
           a == unit["agg"][c]
           d == unit["deep"][c]
<1>2. /\ c \in Companies /\ cur.surface \in Surface /\ cur.gen \in Nat /\ cur.keep \in Nat
      /\ Explicit(a)
      /\ pc \in SurfacePlaces => Explicit(unit[cur.surface][c])
      /\ pc \in {"handover", "prefetched"} => Explicit(d)
  BY <1>1, AtSurface
<1>3. /\ UnitsSafe(a, d, result[c])
      /\ pc \in {"gated", "handover", "prefetched", "ack", "checkpoint"} => cur.gen # 0
      /\ pc \in DrainPlaces /\ cur.existing => result[c] # 0
      /\ pc = "checkpoint" => cur.keep # 0
      /\ pc = "ack" => result[c] # 0 \/ unit[cur.surface][c].ckpt # 0
  BY <1>1, <1>2 DEF RecoverInv, AllSafe, RowSafe, At, RowPlaces, DrainPlaces, SurfacePlaces
<1>4. CASE HandOver
  <2>1. PICK same \in BOOLEAN : UpsertUnit("deep", c, cur.gen, same)
    BY <1>4 DEF HandOver
  <2>2. /\ OnlyUnit("deep", c)
        /\ \/ unit'["deep"][c] = d
           \/ unit'["deep"][c].st = "pending" /\ unit'["deep"][c].gen = cur.gen
    BY <1>2, <2>1, UpsertEffect DEF Surface
  <2>3. unit'["agg"][c] = a /\ cur.gen # 0
    BY <1>1, <1>2, <1>3, <1>4, <2>2 DEF OnlyUnit, Surface
  <2>4. UnitsSafe(unit'["agg"][c], unit'["deep"][c], result[c])
    BY <1>3, <2>2, <2>3 DEF UnitsSafe, Explicit
  <2>5. RowSafe'
    BY <1>1, <1>3, <1>4 DEF RowSafe, At, RowPlaces, DrainPlaces, SurfacePlaces
  <2> QED
    BY <1>1, <1>2, <2>2, <2>4, <2>5, OneUnitSafe DEF RecoverInv, Surface
<1>5. CASE CheckpointPrefetched
  <2>1. MergeCheckpoint("deep", c, cur.gen)
    BY <1>5 DEF CheckpointPrefetched
  <2>2. /\ OnlyUnit("deep", c)
        /\ unit'["deep"][c].st = d.st /\ unit'["deep"][c].gen = d.gen
        /\ unit'["deep"][c].ckpt = cur.gen
    BY <1>2, <2>1, CheckpointEffect DEF Surface
  <2>3. unit'["agg"][c] = a /\ cur.gen # 0
    BY <1>1, <1>2, <1>3, <1>5, <2>2 DEF OnlyUnit, Surface
  <2>4. UnitsSafe(unit'["agg"][c], unit'["deep"][c], result[c])
    BY <1>3, <2>2, <2>3 DEF UnitsSafe, Explicit
  <2>5. RowSafe'
    BY <1>1, <1>3, <1>5 DEF RowSafe, At, RowPlaces, DrainPlaces, SurfacePlaces
  <2> QED
    BY <1>1, <1>2, <2>2, <2>4, <2>5, OneUnitSafe DEF RecoverInv, Surface
<1>6. CASE AckHandedOver
  <2>1. Ack("agg", c)
    BY <1>6 DEF AckHandedOver
  <2>2. /\ OnlyUnit("agg", c)
        /\ unit'["agg"][c].st = "acked" /\ unit'["agg"][c].gen = a.gen
    BY <1>2, <2>1, AckEffect DEF Surface
  <2>3. unit'["deep"][c] = d /\ Explicit(d)
    BY <1>1, <1>2, <1>6, <2>2 DEF OnlyUnit, Surface
  <2>4. UnitsSafe(unit'["agg"][c], unit'["deep"][c], result[c])
    BY <1>2, <1>3, <2>2, <2>3 DEF UnitsSafe, Explicit
  <2>5. RowSafe'
    BY <1>1, <1>3, <1>6 DEF RowSafe, At, RowPlaces, DrainPlaces, SurfacePlaces
  <2> QED
    BY <1>1, <1>2, <2>2, <2>4, <2>5, OneUnitSafe DEF RecoverInv, Surface
<1>7. CASE Checkpoint
  <2>1. MergeCheckpoint(cur.surface, c, cur.keep)
    BY <1>7 DEF Checkpoint
  <2>2. /\ OnlyUnit(cur.surface, c)
        /\ unit'[cur.surface][c].st = unit[cur.surface][c].st
        /\ unit'[cur.surface][c].gen = unit[cur.surface][c].gen
        /\ unit'[cur.surface][c].ckpt = cur.keep
    BY <1>2, <2>1, CheckpointEffect
  <2>3. UnitsSafe(unit'["agg"][c], unit'["deep"][c], result[c])
    <3>1. cur.keep # 0
      BY <1>1, <1>3, <1>7
    <3>2. CASE cur.surface = "agg"
      BY <1>2, <1>3, <2>2, <3>1, <3>2 DEF UnitsSafe, Explicit, OnlyUnit, Surface
    <3>3. CASE cur.surface = "deep"
      BY <1>2, <1>3, <2>2, <3>1, <3>3 DEF UnitsSafe, Explicit, OnlyUnit, Surface
    <3> QED
      BY <1>2, <3>2, <3>3 DEF Surface
  <2>4. RowSafe'
    BY <1>1, <1>3, <1>7, <2>2 DEF RowSafe, At, RowPlaces, DrainPlaces, SurfacePlaces
  <2> QED
    BY <1>1, <1>2, <2>2, <2>3, <2>4, OneUnitSafe DEF RecoverInv
<1>8. CASE AckUnit
  <2>1. pc = "ack" /\ Ack(cur.surface, c) /\ Explicit(unit[cur.surface][c])
    BY <1>1, <1>2, <1>8 DEF AckUnit, SurfacePlaces
  <2>2. /\ OnlyUnit(cur.surface, c)
        /\ unit'[cur.surface][c].st = "acked"
        /\ unit'[cur.surface][c].gen = unit[cur.surface][c].gen
        /\ unit'[cur.surface][c].ckpt = unit[cur.surface][c].ckpt
    BY <1>2, <2>1, AckEffect
  <2>3. UnitsSafe(unit'["agg"][c], unit'["deep"][c], result[c])
    <3>2. CASE cur.surface = "agg"
      BY <1>2, <1>3, <2>1, <2>2, <3>2 DEF UnitsSafe, Explicit, OnlyUnit, Surface
    <3>3. CASE cur.surface = "deep"
      BY <1>2, <1>3, <2>1, <2>2, <3>3 DEF UnitsSafe, Explicit, OnlyUnit, Surface
    <3> QED
      BY <1>2, <3>2, <3>3 DEF Surface
  <2>4. RowSafe'
    BY <1>1, <1>3, <1>8 DEF RowSafe, At, RowPlaces, DrainPlaces, SurfacePlaces
  <2> QED
    BY <1>1, <1>2, <2>2, <2>3, <2>4, OneUnitSafe DEF RecoverInv
<1> QED
  BY <1>4, <1>5, <1>6, <1>7, <1>8

LEMMA RecoverPickups ==
  ASSUME IInv, RecoverInv, SyncPickups
  PROVE  RecoverInv'
<1>1. /\ UNCHANGED <<unit, result, cur>> /\ pc = "sync" /\ pc' = "ack"
  BY PickupEffect DEF SyncPickups, Goto
<1>2. RowSafe'
  BY <1>1 DEF RecoverInv, RowSafe, At, RowPlaces, DrainPlaces, SurfacePlaces
<1> QED
  BY <1>1, <1>2, RecoverSameFiles DEF RecoverInv

LEMMA RecoverMaterialize ==
  ASSUME IInv, RecoverInv, MaterializeUnit
  PROVE  RecoverInv'
<1> DEFINE c == cur.inn
<1>1. /\ c \in Companies /\ admissions[c] \in Nat /\ pc' = "loop" /\ result' = result
  BY DEF IInv, TypeOK, PlaceInv, At, RowPlaces, MaterializeUnit
<1>2. PICK same \in BOOLEAN : UpsertUnit("agg", c, admissions[c] + 1, same)
  BY DEF MaterializeUnit
<1>3. /\ OnlyUnit("agg", c)
      /\ \/ unit'["agg"][c] = unit["agg"][c]
         \/ unit'["agg"][c].st = "pending" /\ unit'["agg"][c].gen = admissions[c] + 1
  BY <1>1, <1>2, UpsertEffect DEF Surface
<1>4. unit'["deep"][c] = unit["deep"][c] /\ UnitsSafe(unit["agg"][c], unit["deep"][c], result[c])
  BY <1>1, <1>3 DEF OnlyUnit, Surface, RecoverInv, AllSafe
<1>5. UnitsSafe(unit'["agg"][c], unit'["deep"][c], result[c])
  BY <1>1, <1>3, <1>4 DEF UnitsSafe, Explicit
<1> QED
  BY <1>1, <1>3, <1>5, OneUnitSafe, NoRowSafe DEF RecoverInv, Surface

LEMMA RecoverStore ==
  ASSUME IInv, RecoverInv, StoreResult
  PROVE  RecoverInv'
<1> DEFINE c == cur.inn
<1>1. c \in Companies /\ cur.keep \in Nat /\ pc' = "loop" /\ result \in [Companies -> Nat]
  BY AtSurface DEF StoreResult, Goto, DrainPlaces, SurfacePlaces, IInv, TypeOK
<1>2. CASE cur.keep = 0
  BY <1>1, <1>2, RecoverSameFiles, NoRowSafe DEF StoreResult, RecoverInv
<1>3. CASE cur.keep # 0
  <2> DEFINE results == [result EXCEPT ![c] = cur.keep]
  <2>1. result' = results /\ unit' = WithoutDuplicates(unit, results)
    BY <1>3 DEF StoreResult, Inn
  <2>2. \A s \in Surface, x \in Companies :
          /\ unit'[s][x].st = unit[s][x].st /\ unit'[s][x].gen = unit[s][x].gen
          /\ unit'[s][x].ckpt = IF results[x] # 0 THEN 0 ELSE unit[s][x].ckpt
    <3> HIDE DEF results
    <3> QED
      BY <2>1, ClearEffect
  <2>3. \A x \in Companies : result[x] # 0 => results[x] # 0
    BY <1>1, <1>3
  <2>4. AllSafe'
    <3> HIDE DEF results
    <3> QED
      BY <2>1, <2>2, <2>3 DEF AllSafe, RecoverInv, UnitsSafe, Explicit, Surface
  <2> QED
    BY <1>1, <2>4, NoRowSafe DEF RecoverInv
<1> QED
  BY <1>2, <1>3

LEMMA RecoverReset ==
  ASSUME IInv, RecoverInv, ResetState
  PROVE  RecoverInv'
<1>1. AllSafe'
  BY DEF ResetState, AllSafe, UnitsSafe, NoUnit, Explicit, Surface
<1> QED
  BY <1>1, NoRowSafe DEF RecoverInv, ResetState

LEMMA RecoverNext == IInv /\ RecoverInv /\ [Next]_vars => RecoverInv'
<1> SUFFICES ASSUME IInv, RecoverInv, [Next]_vars PROVE RecoverInv'
  OBVIOUS
<1>1. CASE StartResume \/ StartRetry \/ StartFresh
  <2>1. AllSafe'
    BY <1>1, RecoverLoad DEF StartResume, StartRetry, StartFresh
  <2> QED
    BY <1>1, <2>1, NoRowSafe DEF RecoverInv, StartResume, StartRetry, StartFresh
<1>2. CASE ResetState
  BY <1>2, RecoverReset
<1>3. CASE \/ RunStarted \/ ReadTruncated \/ SkipRow \/ VisitRow \/ DeferRow
           \/ DrainPending \/ Finish \/ LookUpFails \/ Crash \/ Interrupt \/ ResetLogs
  BY <1>3, RecoverQuiet
<1>4. CASE CollectSources \/ ChooseCandidates \/ EmitDone \/ EmitCompleted \/ ReadOutbox
  <2>1. UNCHANGED <<unit, result, cur>>
    BY <1>4 DEF CollectSources, ChooseCandidates, EmitDone, EmitCompleted, ReadOutbox,
       EmitThen, LedgerUnchanged
  <2> QED
    BY <1>4, <2>1, RecoverSameRow
<1>5. CASE Gate
  <2>1. CASE EmitThen("gate", "gated") /\ UNCHANGED cur
    BY <1>5, <2>1, RecoverSameRow DEF Gate, EmitThen
  <2>2. CASE Decide(0, "gated")
    BY <1>5, <2>2, RecoverDecide DEF Gate
  <2> QED
    BY <1>5, <2>1, <2>2 DEF Gate
<1>6. CASE RestoreStored \/ RestoreCheckpoint \/ HaveResult
  BY <1>6, RecoverDecide
<1>7. CASE LookUp
  BY <1>7, RecoverLookUp
<1>8. CASE HandOver \/ CheckpointPrefetched \/ AckHandedOver \/ Checkpoint \/ AckUnit
  BY <1>8, RecoverUnitSteps
<1>9. CASE SyncPickups
  BY <1>9, RecoverPickups
<1>10. CASE MaterializeUnit
  BY <1>10, RecoverMaterialize
<1>11. CASE StoreResult
  BY <1>11, RecoverStore
<1>12. CASE UNCHANGED vars
  BY <1>12 DEF vars, RecoverInv, AllSafe, RowSafe, At
<1> QED
  BY <1>1, <1>2, <1>3, <1>4, <1>5, <1>6, <1>7, <1>8, <1>9, <1>10, <1>11, <1>12
     DEF Next, Step, Proceed

LEMMA RecoverIsEnough == IInv /\ RecoverInv => AdmittedIsRecoverable
<1> SUFFICES ASSUME IInv, RecoverInv, NEW c \in Companies, Explicit(unit["agg"][c]),
                    Pending(c) = {}, result[c] = 0
             PROVE  \E s \in Surface : RestoreSafe(s, c)
  BY DEF AdmittedIsRecoverable
<1>1. Reconciled = unit
  BY SyncedIsUnit DEF SyncedUnits, Reconciled
<1>2. UnitsSafe(unit["agg"][c], unit["deep"][c], 0)
  BY DEF RecoverInv, AllSafe
<1>3. unit["agg"][c].st # "pending" /\ unit["deep"][c].st # "pending"
  BY DEF Pending, Surface
<1>4. \E s \in Surface : unit[s][c].st = "acked" /\ unit[s][c].ckpt # 0
  BY <1>2, <1>3 DEF UnitsSafe, Explicit, Surface
<1> QED
  BY <1>1, <1>4 DEF RestoreSafe

\* An admitted company is never lost, however often the run is killed, retried
\* and started afresh: wherever its process stops, the company has a pending
\* unit, a stored result, or a checkpoint that will be promoted:
\* AdmittedIsRecoverable.
THEOREM AdmittedSurvives == Spec => []AdmittedIsRecoverable
<1> QED
  BY RecoverIsEnough, RecoverInit, RecoverNext, Invariance, PTL DEF Spec

----------------------------------------------------------------------------
(***************************************************************************)
(* The runs that are killed, interrupted, resumed and started afresh, but  *)
(* never asked to do rows again: what a company has announced, what its    *)
(* units say and what a session has still to do agree, so no session is    *)
(* stopped by the ledger, no result is stale and no announcement is lost   *)
(* or repeated, for every number of companies and failures.  A crash       *)
(* inside the reset of a fresh run is excluded: it leaves the cursor ahead *)
(* of the outbox.                                                          *)
(***************************************************************************)

Idle == {"off", "loaded", "fresh", "reset"}

\* Where the thread is, or goes on when it has read the outbox.
Place == IF pc = "read" THEN next ELSE pc

Agg(c) == unit["agg"][c]
Deep(c) == unit["deep"][c]
Open(a, d) == a.st = "pending" \/ d.st = "pending"

\* What a company has announced, and what of it the cursor has passed.
SaidAt(i, c, k) == outbox[i].inn = c /\ outbox[i].kind = k
Said(c) == {k \in Kind : \E i \in 1..Len(outbox) : SaidAt(i, c, k)}
Heard(c) == {k \in Kind : \E i \in 1..Len(outbox) : i <= cursor /\ SaidAt(i, c, k)}

----------------------------------------------------------------------------
(* The invariant                                                           *)

\* The units of a company and its result belong to the same admission.
UnitsOK(a, d, r) ==
  /\ ~Explicit(a) => a.st = "none" /\ a.ckpt = 0 /\ ~Explicit(d) /\ r = 0
  /\ ~Explicit(d) => d.st = "none" /\ d.ckpt = 0
  /\ Explicit(a) => r \in {0, a.gen} /\ a.ckpt \in {0, a.gen}
  /\ Explicit(d) => d.gen = a.gen /\ d.ckpt \in {0, a.gen}

\* What it announced, s, agrees with its units: a finished deep parse left a
\* result or a checkpoint, and nothing is acknowledged before its completion.
SaidOK(a, d, r, s) ==
  /\ s \cap {"gate", "done", "completed"} # {} => Explicit(a)
  /\ "completed" \in s => "done" \in s
  /\ "done" \in s => \/ r # 0
                     \/ Explicit(d) /\ d.ckpt # 0
                     \/ ~Explicit(d) /\ a.ckpt # 0
  /\ d.st = "acked" => "completed" \in s
  /\ a.st = "acked" /\ ~Explicit(d) => "completed" \in s

\* Nothing is announced after the completion of a company.
CompletedIsLast ==
  \A i, j \in 1..Len(outbox) :
    outbox[i].kind = "completed" /\ outbox[j].inn = outbox[i].inn => j <= i

\* A handoff h knows what was heard of its company.
HandoffKnows(h, s) ==
  /\ h.gate <=> "gate" \in s
  /\ h.done <=> "done" \in s
  /\ h.completed <=> "completed" \in s
  /\ h.completed => h.last = "completed"

OutboxOK ==
  /\ AnnouncedOnce
  /\ CompletedIsLast
  /\ cursor <= Len(outbox)
  /\ \A c \in Companies : HandoffKnows(handoff[c], Heard(c))

UnitsInv == \A c \in Companies : UnitsOK(Agg(c), Deep(c), result[c])
SaidInv == \A c \in Companies : SaidOK(Agg(c), Deep(c), result[c], Said(c))

\* While a fresh run is reset, the outbox is gone and the units are not.
MessagesInv == pc # "reset" => SaidInv /\ OutboxOK

\* A thread at work has read the whole outbox.
ReadInv == pc \notin Idle \cup {"read"} => cursor = Len(outbox)

Announced(h) == h.done /\ h.completed /\ Ready(h)

SettledInv ==
  \A c \in Companies :
    Explicit(Agg(c)) /\ ~Open(Agg(c), Deep(c)) => Announced(handoff[c])

\* A session over all rows, that resumes a run or begins a new one.
SessionInv ==
  /\ pc \in Idle => pos = 1 /\ queue = {} /\ deferred = {}
  /\ Place \in Idle \cup {"loop"} => cur.inn = 0
  /\ pc # "off" => selected = Companies /\ mode \in {"resume", "fresh"}
  /\ pc \in {"fresh", "reset"} => mode = "fresh"
  /\ mode = "fresh" => recovering = {}

\* A row the loop has still to come to ...
Coming(c, a, d, r) ==
  IF c \in recovering THEN Open(a, d) /\ (d.st = "acked" => r # 0)
  ELSE ~Explicit(a) \/ (mode = "resume" /\ r # 0 /\ ~Open(a, d))

\* ... one that waits in the deque ...
Waiting(a, d, s) ==
  /\ a.st = "pending" /\ ~Explicit(d)
  /\ s \cap {"gate", "done", "completed"} = {}

\* ... and one the session is through with.
Through(a, d, r) ==
  r # 0 /\ d.st # "pending" /\ (a.st = "pending" => d.st = "acked")

RowsInv ==
  pc \notin {"off", "fresh", "reset"} =>
    \A c \in Companies :
      /\ c >= pos => Coming(c, Agg(c), Deep(c), result[c])
      /\ c \in queue => /\ c < pos /\ c \notin recovering /\ c # cur.inn
                        /\ Waiting(Agg(c), Deep(c), Said(c))
      /\ c < pos /\ c \notin queue \cup deferred \cup {cur.inn} =>
           Through(Agg(c), Deep(c), result[c])

\* The row w in hand at place p, with its units a and d, its result r and what
\* it announced, s.
RowOK(p, w, a, d, r, s) ==
  LET u == IF w.surface = "deep" THEN d ELSE a
  IN  /\ w.existing <=> r # 0
      /\ p \in {"sources", "candidates", "unit"} => ~w.recovery /\ ~Explicit(a)
      /\ p = "drain" => /\ Open(a, d)
                        /\ d.st = "acked" => w.recovery /\ r # 0
                        /\ ~w.recovery => "done" \notin s /\ (Explicit(d) \/ "gate" \notin s)
      /\ p \in {"handover", "prefetched"} =>
           a.st = "pending" /\ d.st = "pending" /\ w.gen = a.gen /\ "done" \notin s
      /\ p \in SurfacePlaces =>
           /\ w.gen = a.gen
           /\ u.st = IF p = "result" THEN "acked" ELSE "pending"
           /\ w.surface = "agg" => d.st # "pending" /\ (d.st = "acked" => r # 0)
      /\ p = "consume" =>
           /\ w.hasDone <=> "done" \in s
           /\ w.hasCompleted <=> "completed" \in s
           /\ ~w.recovery => "done" \notin s
           /\ w.surface = "agg" /\ ~w.recovery => "gate" \notin s
      /\ p \in {"gated", "checkpoint", "done"} => "done" \notin s /\ ~w.hasCompleted
      /\ p \in {"gated", "checkpoint"} => ~w.hasDone
      /\ p = "gated" => w.surface = "agg" /\ ~Explicit(d)
      /\ p = "checkpoint" => w.keep = a.gen
      /\ p = "completed" => "done" \in s /\ "completed" \notin s
      /\ p \in {"sync", "ack", "result"} => "completed" \in s
      /\ p \in {"done", "completed", "sync", "ack", "result"} =>
           \/ w.keep = 0 /\ r # 0
           \/ w.keep = a.gen /\ u.ckpt = a.gen

InHand(c) == RowOK(Place, cur, Agg(c), Deep(c), result[c], Said(c))

RowInv ==
  Place \in RowPlaces =>
    /\ cur.inn \in Companies \ queue
    /\ cur.inn < pos
    /\ cur.recovery <=> cur.inn \in recovering
    /\ InHand(cur.inn)

\* The inductive invariant of a run that is killed and resumed, next to those of
\* every run.
KilledInv ==
  UnitsInv /\ MessagesInv /\ ReadInv /\ SettledInv /\ SessionInv /\ RowsInv /\ RowInv

Known == IInv /\ RecoverInv /\ KilledInv
----------------------------------------------------------------------------
(* The outbox                                                              *)

Messages == [inn : Companies, kind : Kind]

LEMMA OutboxType ==
  ASSUME IInv
  PROVE  /\ outbox \in Seq(Messages) /\ Len(outbox) \in Nat /\ cursor \in Nat
         /\ \A i \in 1..Len(outbox) : outbox[i] \in Messages
<1>1. outbox \in Seq(Messages) /\ cursor \in Nat
  BY DEF IInv, TypeOK, Messages
<1> QED
  BY <1>1, ElementOfSeq, LenProperties

LEMMA SameOutbox ==
  ASSUME UNCHANGED outbox
  PROVE  /\ \A c \in Companies : Said(c)' = Said(c)
         /\ AnnouncedOnce => AnnouncedOnce'
         /\ CompletedIsLast => CompletedIsLast'
         /\ UNCHANGED cursor => \A c \in Companies : Heard(c)' = Heard(c)
BY DEF Said, Heard, SaidAt, AnnouncedOnce, CompletedIsLast

\* A message of the row in hand that was not announced before.
LEMMA EmitEffect ==
  ASSUME IInv, OutboxOK, NEW kind \in Kind, Emit(kind), cur.inn \in Companies,
         kind \in {"gate", "done", "completed"} => kind \notin Said(cur.inn),
         "completed" \notin Said(cur.inn), UNCHANGED <<cursor, handoff>>
  PROVE  /\ OutboxOK'
         /\ \A c \in Companies : Said(c)' = IF c = cur.inn THEN Said(c) \cup {kind} ELSE Said(c)
<1> DEFINE m == [inn |-> cur.inn, kind |-> kind]
           n == Len(outbox)
<1>1. /\ outbox \in Seq(Messages) /\ n \in Nat /\ cursor \in Nat /\ m \in Messages
      /\ \A i \in 1..n : outbox[i] \in Messages
  BY OutboxType DEF Messages
<1>2. /\ Len(outbox') = n + 1
      /\ \A i \in 1..n : outbox'[i] = outbox[i]
      /\ outbox'[n + 1] = m
  <2>1. outbox' = Append(outbox, m)
    BY DEF Emit
  <2> HIDE DEF m
  <2> QED
    BY <1>1, <2>1, AppendProperties
<1>3. m.inn = cur.inn /\ m.kind = kind
  OBVIOUS
<1> HIDE DEF m
<1>4. \A c \in Companies, k \in Kind :
        k \in Said(c)' <=> k \in Said(c) \/ (c = cur.inn /\ k = kind)
  <2> SUFFICES ASSUME NEW c \in Companies, NEW k \in Kind
               PROVE  k \in Said(c)' <=> k \in Said(c) \/ (c = cur.inn /\ k = kind)
    OBVIOUS
  <2>1. k \in Said(c) <=> \E i \in 1..n : outbox[i].inn = c /\ outbox[i].kind = k
    BY DEF Said, SaidAt
  <2>2. k \in Said(c)' <=> \E i \in 1..Len(outbox') : outbox'[i].inn = c /\ outbox'[i].kind = k
    BY DEF Said, SaidAt
  <2>3. \A i : i \in 1..Len(outbox') <=> i \in 1..n \/ i = n + 1
    BY <1>1, <1>2
  <2> HIDE DEF n
  <2> QED
    BY <1>2, <1>3, <2>1, <2>2, <2>3
<1>5. \A c \in Companies : Said(c)' = IF c = cur.inn THEN Said(c) \cup {kind} ELSE Said(c)
  <2> TAKE c \in Companies
  <2>1. Said(c) \subseteq Kind /\ Said(c)' \subseteq Kind
    BY DEF Said
  <2>2. \A k : k \in Said(c)' <=> k \in Said(c) \/ (c = cur.inn /\ k = kind)
    BY <1>4, <2>1
  <2> QED
    BY <2>2
<1>6. \A c \in Companies : Heard(c)' = Heard(c)
  <2> SUFFICES ASSUME NEW c \in Companies PROVE Heard(c)' = Heard(c)
    OBVIOUS
  <2>1. \A k \in Kind : \A i : i \in 1..Len(outbox') /\ i <= cursor' /\ SaidAt(i, c, k)'
                         <=> i \in 1..n /\ i <= cursor /\ SaidAt(i, c, k)
    BY <1>1, <1>2 DEF OutboxOK, SaidAt
  <2> QED
    BY <2>1 DEF Heard
<1>7. AnnouncedOnce'
  <2> SUFFICES ASSUME NEW i \in 1..Len(outbox'), NEW j \in 1..Len(outbox'),
                      outbox'[i] = outbox'[j], i # j,
                      outbox'[i].kind \in {"gate", "done", "completed"}
               PROVE  FALSE
    BY DEF AnnouncedOnce
  <2>1. \A x \in 1..n : outbox[x] = m => m.kind \in Said(cur.inn)
    BY <1>1, <1>3 DEF Said, SaidAt
  <2>2. \/ i \in 1..n /\ j \in 1..n
        \/ i \in 1..n /\ j = n + 1
        \/ i = n + 1 /\ j \in 1..n
    BY <1>1, <1>2
  <2> HIDE DEF n
  <2>3. CASE i \in 1..n /\ j \in 1..n
    BY <1>2, <2>3 DEF OutboxOK, AnnouncedOnce, n
  <2>4. CASE i \in 1..n /\ j = n + 1
    BY <1>2, <1>3, <2>1, <2>4
  <2>5. CASE i = n + 1 /\ j \in 1..n
    BY <1>2, <1>3, <2>1, <2>5
  <2> QED
    BY <2>2, <2>3, <2>4, <2>5
<1>8. CompletedIsLast'
  <2> SUFFICES ASSUME NEW i \in 1..Len(outbox'), NEW j \in 1..Len(outbox'),
                      outbox'[i].kind = "completed", outbox'[j].inn = outbox'[i].inn
               PROVE  j <= i
    BY DEF CompletedIsLast
  <2>1. \A x \in 1..n : outbox[x].kind = "completed" => outbox[x].inn # cur.inn
    BY <1>1 DEF Said, SaidAt, Kind
  <2>2. i \in 1..n + 1 /\ j \in 1..n + 1
    BY <1>2
  <2>3. CASE i = n + 1
    BY <1>1, <2>2, <2>3
  <2>4. CASE i \in 1..n /\ j \in 1..n
    BY <1>2, <2>4 DEF OutboxOK, CompletedIsLast
  <2>5. CASE i \in 1..n /\ j = n + 1
    BY <1>2, <1>3, <2>1, <2>5
  <2> QED
    BY <1>1, <2>2, <2>3, <2>4, <2>5
<1>9. cursor' <= Len(outbox')
  BY <1>1, <1>2 DEF OutboxOK
<1> QED
  BY <1>5, <1>6, <1>7, <1>8, <1>9 DEF OutboxOK

\* What was heard was said, and all of it once the outbox was read.
LEMMA AllHeard ==
  ASSUME IInv
  PROVE  /\ \A c \in Companies : Heard(c) \subseteq Said(c)
         /\ cursor = Len(outbox) => \A c \in Companies : Heard(c) = Said(c)
<1>1. Len(outbox) \in Nat
  BY OutboxType
<1> QED
  BY <1>1 DEF Heard, Said

\* Reading the outbox leaves each handoff with what was said of its company.
LEMMA ReadEffect ==
  ASSUME IInv, OutboxOK, ReadOutbox
  PROVE  /\ OutboxOK'
         /\ cursor' = Len(outbox')
         /\ \A c \in Companies : Said(c)' = Said(c)
         /\ \A c \in Companies : Announced(handoff[c]) => Announced(handoff'[c])
<1>1. /\ Len(outbox) \in Nat /\ cursor \in Nat
      /\ \A i \in 1..Len(outbox) : outbox[i] \in Messages
  BY OutboxType
<1>2. outbox' = outbox /\ cursor' = Len(outbox) /\ handoff' = [c \in Companies |-> Applied(c)]
  <2>1. outbox = <<>> => Len(outbox) = 0
    OBVIOUS
  <2> QED
    BY <1>1, <2>1 DEF ReadOutbox, OutboxOK
<1>3. ASSUME NEW c \in Companies
      PROVE  /\ HandoffKnows(Applied(c), Said(c))
             /\ Announced(handoff[c]) => Announced(Applied(c))
  <2>0. HandoffKnows(handoff[c], Heard(c))
    BY DEF OutboxOK
  <2>1. \A k \in Kind : k \in Said(c) <=> k \in Heard(c) \/ k \in UnreadKinds(c)
    <3> SUFFICES ASSUME NEW k \in Kind
                 PROVE  k \in Said(c) <=> k \in Heard(c) \/ k \in UnreadKinds(c)
      OBVIOUS
    <3>1. k \in Said(c) <=> \E i \in 1..Len(outbox) : SaidAt(i, c, k)
      BY DEF Said
    <3>2. k \in Heard(c) <=> \E i \in 1..Len(outbox) : i <= cursor /\ SaidAt(i, c, k)
      BY DEF Heard
    <3>3. k \in UnreadKinds(c) <=> \E i \in 1..Len(outbox) : i > cursor /\ SaidAt(i, c, k)
      BY <1>1 DEF UnreadKinds, Unread, SaidAt
    <3> QED
      BY <1>1, <3>1, <3>2, <3>3
  <2>2. CASE Unread(c) = {}
    <3>1. UnreadKinds(c) = {} /\ Applied(c) = handoff[c]
      BY <2>2 DEF UnreadKinds, Applied
    <3> QED
      BY <2>0, <2>1, <3>1 DEF HandoffKnows, Kind
  <2>3. CASE Unread(c) # {}
    <3> DEFINE newest == CHOOSE i \in Unread(c) : \A j \in Unread(c) : j <= i
    <3>1. newest \in Unread(c) /\ \A j \in Unread(c) : j <= newest
      <4>1. \E i \in Unread(c) : \A j \in Unread(c) : j <= i
        BY <2>3, <1>1, NewestExists DEF Unread
      <4> QED
        BY <4>1
    <3>2. /\ Applied(c).last = outbox[newest].kind
          /\ Applied(c).gate <=> handoff[c].gate \/ "gate" \in UnreadKinds(c)
          /\ Applied(c).done <=> handoff[c].done \/ "done" \in UnreadKinds(c)
          /\ Applied(c).completed <=> handoff[c].completed \/ "completed" \in UnreadKinds(c)
      BY <2>3 DEF Applied
    <3> HIDE DEF newest
    <3>3. "completed" \in Said(c) => outbox[newest].kind = "completed"
      <4> SUFFICES ASSUME "completed" \in Said(c) PROVE outbox[newest].kind = "completed"
        OBVIOUS
      <4>1. PICK i \in 1..Len(outbox) : outbox[i].inn = c /\ outbox[i].kind = "completed"
        BY DEF Said, SaidAt
      <4>2. newest \in 1..Len(outbox) /\ newest > cursor /\ outbox[newest].inn = c
        BY <1>1, <3>1 DEF Unread
      <4>3. newest <= i
        BY <4>1, <4>2 DEF OutboxOK, CompletedIsLast
      <4>4. i \in Unread(c)
        BY <1>1, <4>1, <4>2, <4>3 DEF Unread
      <4>5. i = newest
        BY <1>1, <3>1, <4>2, <4>3, <4>4
      <4> QED
        BY <4>1, <4>5
    <3>4. HandoffKnows(Applied(c), Said(c))
      BY <2>0, <2>1, <3>2, <3>3 DEF HandoffKnows, Kind
    <3>5. Announced(handoff[c]) => Announced(Applied(c))
      BY <3>2, <3>4 DEF Announced, HandoffKnows, Ready
    <3> QED
      BY <3>4, <3>5
  <2> QED
    BY <2>2, <2>3
<1>4. \A c \in Companies : Said(c)' = Said(c) /\ Heard(c)' = Said(c)
  <2>1. \A c \in Companies : Said(c)' = Said(c)
    BY <1>2, SameOutbox
  <2>2. \A c \in Companies : Heard(c)' = Said(c)
    BY <1>1, <1>2 DEF Heard, Said, SaidAt
  <2> QED
    BY <2>1, <2>2
<1>5. AnnouncedOnce' /\ CompletedIsLast'
  BY <1>2, SameOutbox DEF OutboxOK
<1>6. \A c \in Companies : HandoffKnows(handoff'[c], Heard(c)')
  BY <1>2, <1>3, <1>4
<1> QED
  BY <1>1, <1>2, <1>3, <1>4, <1>5, <1>6 DEF OutboxOK

----------------------------------------------------------------------------
(* What is known of the row in hand, and what a step has to say of it      *)

\* The invariant, looked at from the place of a thread with a row.
LEMMA RowFacts ==
  ASSUME Known, pc \in RowPlaces, NEW c, c = cur.inn
  PROVE  /\ c \in Companies /\ c \notin queue /\ c < pos
         /\ cur \in RowType /\ (cur.recovery <=> c \in recovering)
         /\ Agg(c) \in UnitType /\ Deep(c) \in UnitType /\ result[c] \in Nat
         /\ UnitsOK(Agg(c), Deep(c), result[c])
         /\ SaidOK(Agg(c), Deep(c), result[c], Said(c))
         /\ RowOK(pc, cur, Agg(c), Deep(c), result[c], Said(c))
         /\ OutboxOK /\ HandoffKnows(handoff[c], Said(c))
         /\ pc \in DrainPlaces => Explicit(Agg(c))
         /\ pc \in {"handover", "prefetched"} => Explicit(Deep(c))
         /\ Explicit(Agg(c)) => Agg(c).gen # 0
<1>1. /\ Place = pc /\ pc # "reset" /\ pc \notin Idle \cup {"read"}
      /\ At(RowPlaces) /\ (pc \in DrainPlaces => At(DrainPlaces))
  BY DEF Place, At, RowPlaces, DrainPlaces, SurfacePlaces, Idle
<1>2. /\ c \in Companies /\ c \notin queue /\ c < pos
      /\ (cur.recovery <=> c \in recovering)
      /\ RowOK(pc, cur, Agg(c), Deep(c), result[c], Said(c))
  BY <1>1 DEF Known, KilledInv, RowInv, InHand
<1>3. Agg(c) \in UnitType /\ Deep(c) \in UnitType /\ result[c] \in Nat /\ cur \in RowType
  BY <1>2 DEF Known, IInv, TypeOK, Agg, Deep, Surface
<1>4. /\ UnitsOK(Agg(c), Deep(c), result[c])
      /\ SaidOK(Agg(c), Deep(c), result[c], Said(c))
      /\ OutboxOK /\ cursor = Len(outbox)
  BY <1>1, <1>2 DEF Known, KilledInv, UnitsInv, MessagesInv, SaidInv, ReadInv
<1>5. HandoffKnows(handoff[c], Said(c))
  <2>1. Heard(c) = Said(c)
    BY <1>2, <1>4, AllHeard DEF Known
  <2> QED
    BY <1>2, <1>4, <2>1 DEF OutboxOK
<1>6. /\ pc \in DrainPlaces => Explicit(Agg(c))
      /\ pc \in {"handover", "prefetched"} => Explicit(Deep(c))
  BY <1>1 DEF Known, IInv, PlaceInv, Admitted, Agg, Deep
<1>7. Explicit(Agg(c)) => Agg(c).gen # 0
  BY <1>2 DEF Known, RecoverInv, AllSafe, UnitsSafe, Agg
<1> QED
  BY <1>2, <1>3, <1>4, <1>5, <1>6, <1>7

\* Every company but c is as it was.
OthersSame(c) ==
  \A x \in Companies \ {c} :
    /\ Agg(x)' = Agg(x) /\ Deep(x)' = Deep(x)
    /\ result'[x] = result[x] /\ Said(x)' = Said(x)

\* No company loses an announcement that was heard.
AnnouncedStays == \A x \in Companies : Announced(handoff[x]) => Announced(handoff'[x])

\* A step of the thread that goes on with its row.
LEMMA RowStep ==
  ASSUME Known, NEW c, c = cur.inn, Place \in RowPlaces, Place' \in RowPlaces,
         cur'.inn = c, cur'.recovery = cur.recovery, UNCHANGED session,
         OthersSame(c),
         UnitsOK(Agg(c)', Deep(c)', result'[c]),
         SaidOK(Agg(c)', Deep(c)', result'[c], Said(c)'),
         RowOK(Place', cur', Agg(c)', Deep(c)', result'[c], Said(c)'),
         OutboxOK', ReadInv', AnnouncedStays,
         Explicit(Agg(c)') /\ ~Open(Agg(c)', Deep(c)') => Announced(handoff'[c])
  PROVE  KilledInv'
<1>1. /\ pc \notin Idle /\ pc' \notin Idle
      /\ Place \notin Idle \cup {"loop"} /\ Place' \notin Idle \cup {"loop"}
  BY DEF Place, Idle, RowPlaces, DrainPlaces, SurfacePlaces
<1>2. /\ c \in Companies \ queue /\ c < pos /\ (cur.recovery <=> c \in recovering)
  BY DEF Known, KilledInv, RowInv
<1>3. UnitsInv'
  BY <1>2 DEF UnitsInv, Known, KilledInv, OthersSame
<1>4. MessagesInv'
  <2>1. SaidInv
    BY <1>1 DEF Known, KilledInv, MessagesInv, Idle
  <2>2. SaidInv'
    BY <1>2, <2>1 DEF SaidInv, OthersSame
  <2> QED
    BY <2>2 DEF MessagesInv
<1>5. SettledInv'
  <2> SUFFICES ASSUME NEW x \in Companies, Explicit(Agg(x)'), ~Open(Agg(x)', Deep(x)')
               PROVE  Announced(handoff'[x])
    BY DEF SettledInv
  <2>1. CASE x = c
    BY <2>1
  <2>2. CASE x # c
    <3>1. Explicit(Agg(x)) /\ ~Open(Agg(x), Deep(x))
      BY <2>2 DEF OthersSame
    <3> QED
      BY <3>1 DEF Known, KilledInv, SettledInv, AnnouncedStays
  <2> QED
    BY <2>1, <2>2
<1>6. SessionInv'
  BY <1>1 DEF Known, KilledInv, SessionInv, session, Idle
<1>7. RowsInv'
  <2>1. pc \notin {"off", "fresh", "reset"}
    BY <1>1 DEF Idle
  <2>2. \A x \in Companies :
          /\ x >= pos => Coming(x, Agg(x), Deep(x), result[x])
          /\ x \in queue => /\ x < pos /\ x \notin recovering /\ x # cur.inn
                            /\ Waiting(Agg(x), Deep(x), Said(x))
          /\ x < pos /\ x \notin queue \cup deferred \cup {cur.inn} =>
               Through(Agg(x), Deep(x), result[x])
    BY <2>1 DEF Known, KilledInv, RowsInv
  <2>3. \A x, a, d, r : Coming(x, a, d, r)' <=> Coming(x, a, d, r)
    BY DEF Coming, session
  <2>4. pos \in Nat /\ Companies \subseteq Nat
    BY LedgerAssumption DEF Known, IInv, TypeOK, Companies
  <2> SUFFICES ASSUME NEW x \in Companies
               PROVE  /\ x >= pos' => Coming(x, Agg(x), Deep(x), result[x])'
                      /\ x \in queue' => /\ x < pos' /\ x \notin recovering' /\ x # cur'.inn
                                         /\ Waiting(Agg(x)', Deep(x)', Said(x)')
                      /\ x < pos' /\ x \notin queue' \cup deferred' \cup {cur'.inn} =>
                           Through(Agg(x)', Deep(x)', result'[x])
    BY DEF RowsInv
  <2>5. CASE x = c
    BY <1>2, <2>4, <2>5 DEF session
  <2>6. CASE x # c
    <3>1. /\ Agg(x)' = Agg(x) /\ Deep(x)' = Deep(x)
          /\ result'[x] = result[x] /\ Said(x)' = Said(x)
      BY <2>6 DEF OthersSame
    <3>2. Coming(x, Agg(x), Deep(x), result[x])' <=> Coming(x, Agg(x), Deep(x), result[x])
      BY <3>1 DEF Coming, session
    <3> QED
      BY <2>2, <2>6, <3>1, <3>2 DEF session
  <2> QED
    BY <2>5, <2>6
<1>8. RowInv'
  BY <1>2 DEF RowInv, InHand, session
<1> QED
  BY <1>3, <1>4, <1>5, <1>6, <1>7, <1>8 DEF KilledInv

\* A step of the thread with its row that leaves the outbox alone.
LEMMA WorkStep ==
  ASSUME Known, NEW c, c = cur.inn, pc \in RowPlaces, pc' \in RowPlaces,
         cur'.inn = c, cur'.recovery = cur.recovery,
         UNCHANGED <<session, outbox, cursor, handoff>>,
         \A x \in Companies \ {c} :
           Agg(x)' = Agg(x) /\ Deep(x)' = Deep(x) /\ result'[x] = result[x],
         UnitsOK(Agg(c)', Deep(c)', result'[c]),
         SaidOK(Agg(c)', Deep(c)', result'[c], Said(c)),
         RowOK(pc', cur', Agg(c)', Deep(c)', result'[c], Said(c)),
         Explicit(Agg(c)') /\ ~Open(Agg(c)', Deep(c)') => Announced(handoff[c])
  PROVE  KilledInv'
<1>1. /\ Place = pc /\ Place' = pc' /\ pc \notin Idle \cup {"read"}
      /\ pc # "reset"
  BY DEF Place, Idle, RowPlaces, DrainPlaces, SurfacePlaces
<1>2. c \in Companies
  BY RowFacts
<1>3. /\ \A x \in Companies : Said(x)' = Said(x) /\ Heard(x)' = Heard(x)
      /\ AnnouncedOnce => AnnouncedOnce'
      /\ CompletedIsLast => CompletedIsLast'
  BY SameOutbox
<1>4. OutboxOK'
  BY <1>1, <1>3 DEF Known, KilledInv, MessagesInv, OutboxOK
<1>5. ReadInv'
  BY <1>1 DEF Known, KilledInv, ReadInv
<1>6. OthersSame(c) /\ AnnouncedStays
  BY <1>3 DEF OthersSame, AnnouncedStays
<1> QED
  BY <1>1, <1>2, <1>3, <1>4, <1>5, <1>6, RowStep

\* A step of the thread with its row that appends a message and goes on to
\* read the outbox.
LEMMA EmitStep ==
  ASSUME Known, NEW c, c = cur.inn, NEW kind \in Kind, NEW to \in RowPlaces,
         pc \in RowPlaces, EmitThen(kind, to), UNCHANGED cur,
         kind \in {"gate", "done", "completed"} => kind \notin Said(c),
         "completed" \notin Said(c),
         SaidOK(Agg(c), Deep(c), result[c], Said(c) \cup {kind}),
         RowOK(to, cur, Agg(c), Deep(c), result[c], Said(c) \cup {kind})
  PROVE  KilledInv'
<1>1. /\ Place = pc /\ pc' = "read" /\ next' = to /\ Place' = to /\ ReadInv'
      /\ UNCHANGED <<session, cursor, handoff, unit, result>> /\ Emit(kind)
  BY DEF Place, RowPlaces, DrainPlaces, SurfacePlaces, EmitThen, ReadInv
<1>2. c \in Companies /\ OutboxOK /\ UnitsOK(Agg(c), Deep(c), result[c]) /\ IInv
  BY RowFacts DEF Known
<1>3. /\ OutboxOK'
      /\ \A x \in Companies : Said(x)' = IF x = c THEN Said(x) \cup {kind} ELSE Said(x)
  BY <1>1, <1>2, EmitEffect
<1>4. \A x \in Companies : Agg(x)' = Agg(x) /\ Deep(x)' = Deep(x)
  BY <1>1 DEF Agg, Deep
<1>5. OthersSame(c) /\ AnnouncedStays
  BY <1>1, <1>3, <1>4 DEF OthersSame, AnnouncedStays
<1>6. Said(c)' = Said(c) \cup {kind} /\ Agg(c)' = Agg(c) /\ Deep(c)' = Deep(c)
  BY <1>2, <1>3, <1>4
<1>7. Explicit(Agg(c)) /\ ~Open(Agg(c), Deep(c)) => Announced(handoff[c])
  BY <1>2 DEF Known, KilledInv, SettledInv
<1> QED
  BY <1>1, <1>2, <1>3, <1>5, <1>6, <1>7, RowStep

----------------------------------------------------------------------------
(* The steps of the thread with its row                                    *)

LEMMA KilledCollect ==
  ASSUME Known, NEW c, c = cur.inn, CollectSources \/ ChooseCandidates
  PROVE  KilledInv'
<1> DEFINE a == Agg(c)
           d == Deep(c)
           s == Said(c)
<1>1. pc \in {"sources", "candidates"} /\ pc \in RowPlaces
  BY DEF CollectSources, ChooseCandidates, RowPlaces
<1>2. /\ UnitsOK(a, d, result[c]) /\ SaidOK(a, d, result[c], s) /\ c \in Companies
      /\ RowOK(pc, cur, a, d, result[c], s)
  BY <1>1, RowFacts
<1> HIDE DEF a, d, s
<1>3. ~Explicit(a) /\ s \cap {"gate", "done", "completed"} = {}
  BY <1>1, <1>2 DEF RowOK, SaidOK
<1>4. ASSUME NEW k \in {"source", "candidate"}
      PROVE  /\ SaidOK(a, d, result[c], s \cup {k})
             /\ RowOK("candidates", cur, a, d, result[c], s \cup {k})
             /\ RowOK("unit", cur, a, d, result[c], s \cup {k})
             /\ RowOK("unit", cur, a, d, result[c], s)
  <2>1. SaidOK(a, d, result[c], s \cup {k})
    BY <1>2, <1>3, <1>4 DEF SaidOK
  <2>2. /\ RowOK("candidates", cur, a, d, result[c], s \cup {k})
        /\ RowOK("unit", cur, a, d, result[c], s \cup {k})
        /\ RowOK("unit", cur, a, d, result[c], s)
    BY <1>1, <1>2, <1>4 DEF RowOK, SurfacePlaces
  <2> QED
    BY <2>1, <2>2
<1>5. CASE CollectSources
  <2>1. EmitThen("source", "candidates") /\ UNCHANGED cur
    BY <1>5 DEF CollectSources
  <2> QED
    BY <1>1, <1>3, <1>4, <2>1, EmitStep DEF a, d, s, Kind, RowPlaces
<1>6. CASE ChooseCandidates /\ EmitThen("candidate", "unit") /\ UNCHANGED cur
  BY <1>1, <1>3, <1>4, <1>6, EmitStep DEF a, d, s, Kind, RowPlaces
<1>7. CASE pc' = "unit" /\ UNCHANGED <<outbox, next, cur, session>> /\ LedgerUnchanged
  <2>1. /\ UNCHANGED <<outbox, cursor, handoff, session, cur, unit, result>>
        /\ pc' \in RowPlaces
    BY <1>7 DEF LedgerUnchanged, RowPlaces
  <2>2. \A x \in Companies : Agg(x)' = Agg(x) /\ Deep(x)' = Deep(x)
    BY <2>1 DEF Agg, Deep
  <2>3. /\ Agg(c)' = a /\ Deep(c)' = d /\ result'[c] = result[c]
        /\ RowOK(pc', cur', a, d, result[c], s)
    BY <1>2, <1>4, <1>7, <2>1, <2>2 DEF a, d
  <2> QED
    BY <1>1, <1>2, <1>3, <2>1, <2>2, <2>3, WorkStep DEF s, a
<1> QED
  BY <1>5, <1>6, <1>7 DEF ChooseCandidates

\* The row as it was, but for what the thread decided to store.
LEMMA DecideFields ==
  ASSUME Known, NEW k, cur' = [cur EXCEPT !.keep = k]
  PROVE  /\ cur'.inn = cur.inn /\ cur'.recovery = cur.recovery /\ cur'.existing = cur.existing
         /\ cur'.surface = cur.surface /\ cur'.gen = cur.gen /\ cur'.hasDone = cur.hasDone
         /\ cur'.hasCompleted = cur.hasCompleted /\ cur'.keep = k
BY DEF Known, IInv, TypeOK, RowType

\* A decision of the thread, with what it has to say at its next place.
LEMMA DecideStep ==
  ASSUME Known, NEW c, c = cur.inn, pc \in DrainPlaces, NEW k, NEW to \in RowPlaces,
         Decide(k, to),
         RowOK(to, cur', Agg(c), Deep(c), result[c], Said(c))
  PROVE  KilledInv'
<1>1. /\ UNCHANGED <<session, outbox, cursor, handoff, unit, result>> /\ pc' = to
      /\ cur' = [cur EXCEPT !.keep = k] /\ pc \in RowPlaces
  BY DEF Decide, Goto, RowPlaces
<1>2. cur'.inn = c /\ cur'.recovery = cur.recovery
  BY <1>1, DecideFields
<1>3. \A x : Agg(x)' = Agg(x) /\ Deep(x)' = Deep(x)
  BY <1>1 DEF Agg, Deep
<1>4. /\ c \in Companies /\ UnitsOK(Agg(c), Deep(c), result[c])
      /\ SaidOK(Agg(c), Deep(c), result[c], Said(c))
  BY <1>1, RowFacts
<1>5. Explicit(Agg(c)) /\ ~Open(Agg(c), Deep(c)) => Announced(handoff[c])
  BY <1>4 DEF Known, KilledInv, SettledInv
<1> QED
  BY <1>1, <1>2, <1>3, <1>4, <1>5, WorkStep

\* Where no shortcut applies, the deep parse was not announced as done.
LEMMA NothingDone ==
  ASSUME Known, NEW c, c = cur.inn, pc = "consume", ~KeepStored, ~KeepCheckpoint
  PROVE  "done" \notin Said(c) /\ ~cur.hasDone /\ ~cur.hasCompleted
<1> DEFINE a == Agg(c)
           d == Deep(c)
           s == Said(c)
           r == result[c]
<1>1. pc \in RowPlaces /\ pc \in DrainPlaces /\ pc \in SurfacePlaces
  BY DEF RowPlaces, DrainPlaces, SurfacePlaces
<1>2. /\ SaidOK(a, d, r, s) /\ RowOK("consume", cur, a, d, r, s) /\ Explicit(a)
      /\ cur.surface \in Surface
  BY <1>1, RowFacts DEF RowType
<1>3. ~(cur.recovery /\ cur.existing /\ cur.hasDone)
  BY DEF KeepStored
<1>4. cur.recovery /\ ~cur.existing /\ cur.hasDone =>
        /\ cur.surface = "agg" => a.ckpt = 0
        /\ cur.surface = "deep" => d.ckpt = 0
  BY DEF KeepCheckpoint, Ckpt, Agg, Deep, Inn
<1> HIDE DEF a, d, s, r
<1>5. /\ cur.hasDone <=> "done" \in s
      /\ cur.hasCompleted <=> "completed" \in s
      /\ ~cur.recovery => "done" \notin s
      /\ cur.existing <=> r # 0
      /\ cur.surface = "agg" => d.st # "pending" /\ (d.st = "acked" => r # 0)
      /\ cur.surface = "deep" => d.st = "pending"
  BY <1>2 DEF RowOK, SurfacePlaces
<1>6. "done" \notin s
  BY <1>2, <1>3, <1>4, <1>5 DEF SaidOK, Surface, Explicit
<1>7. "completed" \notin s
  BY <1>2, <1>6 DEF SaidOK
<1> QED
  BY <1>5, <1>6, <1>7 DEF s

LEMMA KilledGate ==
  ASSUME Known, NEW c, c = cur.inn, Gate
  PROVE  KilledInv'
<1> DEFINE a == Agg(c)
           d == Deep(c)
           s == Said(c)
           r == result[c]
<1>1. /\ pc = "consume" /\ cur.surface = "agg" /\ ~KeepStored /\ ~KeepCheckpoint
      /\ pc \in RowPlaces /\ pc \in DrainPlaces
  BY DEF Gate, RowPlaces, DrainPlaces, SurfacePlaces
<1>2. /\ SaidOK(a, d, r, s) /\ RowOK("consume", cur, a, d, r, s) /\ Explicit(a)
      /\ HandoffKnows(handoff[c], s)
  BY <1>1, RowFacts
<1>3. "done" \notin s /\ ~cur.hasDone /\ ~cur.hasCompleted
  BY <1>1, NothingDone
<1> HIDE DEF a, d, s, r
<1>4. "completed" \notin s
  BY <1>2, <1>3 DEF SaidOK
<1>5. ~Explicit(d)
  BY <1>1, <1>2, <1>4 DEF SaidOK, RowOK, SurfacePlaces, Explicit
<1>6. ASSUME NEW w, w.surface = "agg", w.gen = cur.gen, w.existing = cur.existing,
             ~w.hasDone, ~w.hasCompleted, NEW s2, s2 \in {s, s \cup {"gate"}}
      PROVE  RowOK("gated", w, a, d, r, s2)
  BY <1>1, <1>2, <1>3, <1>5, <1>6 DEF RowOK, SurfacePlaces, Explicit
<1>7. CASE ~(cur.recovery /\ handoff[c].gate) /\ EmitThen("gate", "gated") /\ UNCHANGED cur
  <2>1. "gate" \notin s
    BY <1>1, <1>2, <1>7 DEF RowOK, HandoffKnows
  <2>2. SaidOK(a, d, r, s \cup {"gate"})
    BY <1>2 DEF SaidOK
  <2>3. RowOK("gated", cur, a, d, r, s \cup {"gate"})
    BY <1>1, <1>3, <1>6
  <2> QED
    BY <1>1, <1>4, <1>7, <2>1, <2>2, <2>3, EmitStep
       DEF a, d, s, r, Kind, RowPlaces, DrainPlaces, SurfacePlaces
<1>8. CASE Decide(0, "gated")
  <2>1. /\ cur'.surface = "agg" /\ cur'.gen = cur.gen /\ cur'.existing = cur.existing
        /\ ~cur'.hasDone /\ ~cur'.hasCompleted
    BY <1>1, <1>3, <1>8, DecideFields DEF Decide
  <2>2. RowOK("gated", cur', a, d, r, s)
    BY <1>6, <2>1
  <2> QED
    BY <1>1, <1>8, <2>2, DecideStep
       DEF a, d, s, r, RowPlaces, DrainPlaces, SurfacePlaces
<1> QED
  BY <1>7, <1>8 DEF Gate, Inn

LEMMA KilledLookUp ==
  ASSUME Known, NEW c, c = cur.inn, LookUp
  PROVE  KilledInv'
<1> DEFINE a == Agg(c)
           d == Deep(c)
           s == Said(c)
           r == result[c]
           u == IF d.st = "pending" THEN d ELSE a
<1>1. pc = "drain" /\ pc \in RowPlaces /\ pc \in DrainPlaces
  BY DEF LookUp, RowPlaces, DrainPlaces
<1>2. /\ UnitsOK(a, d, r) /\ SaidOK(a, d, r, s) /\ RowOK("drain", cur, a, d, r, s)
      /\ Explicit(a) /\ HandoffKnows(handoff[c], s) /\ c \in Companies /\ cur \in RowType
  BY <1>1, RowFacts
<1>3. /\ UNCHANGED <<session, outbox, cursor, handoff, unit, result>> /\ pc' = "consume"
  BY SyncedIsUnit DEF LookUp, Goto, Known
<1>4. \A x \in Surface : x \in PendingFor(c) <=> unit[x][c].st = "pending"
  BY SyncedIsUnit DEF PendingFor, Known
<1>5. /\ cur'.inn = c /\ cur'.recovery = cur.recovery /\ cur'.existing = cur.existing
      /\ cur'.surface = IF d.st = "pending" THEN "deep" ELSE "agg"
      /\ cur'.gen = u.gen
      /\ cur'.hasDone <=> cur.recovery /\ handoff[c].done
      /\ cur'.hasCompleted <=> cur.recovery /\ handoff[c].completed
  <2> DEFINE t == IF "deep" \in PendingFor(Inn) THEN "deep" ELSE "agg"
             hd == cur.recovery /\ handoff[Inn].done
             hc == cur.recovery /\ handoff[Inn].completed
  <2>1. cur' = [cur EXCEPT !.surface = t, !.gen = SyncedUnits[t][Inn].gen, !.keep = 0,
                           !.hasDone = hd, !.hasCompleted = hc]
    BY DEF LookUp
  <2>2. t = (IF d.st = "pending" THEN "deep" ELSE "agg") /\ SyncedUnits[t][Inn].gen = u.gen
    BY <1>4, SyncedIsUnit DEF Known, Inn, Deep, Agg, Surface
  <2>3. hd = (cur.recovery /\ handoff[c].done) /\ hc = (cur.recovery /\ handoff[c].completed)
    BY DEF Inn
  <2> HIDE DEF t, hd, hc, u
  <2> QED
    BY <1>2, <2>1, <2>2, <2>3 DEF RowType
<1> HIDE DEF a, d, s, r
<1>6. RowOK("consume", cur', a, d, r, s)
  BY <1>2, <1>5 DEF RowOK, UnitsOK, SaidOK, HandoffKnows, SurfacePlaces, Open, Explicit
<1>7. \A x : Agg(x)' = Agg(x) /\ Deep(x)' = Deep(x)
  BY <1>3 DEF Agg, Deep
<1>8. Open(a, d)
  BY <1>2 DEF RowOK
<1>9. pc' \in RowPlaces
  BY <1>3 DEF RowPlaces, DrainPlaces, SurfacePlaces
<1> QED
  BY <1>1, <1>2, <1>3, <1>5, <1>6, <1>7, <1>8, <1>9, WorkStep DEF a, d, s, r

LEMMA KilledDecide ==
  ASSUME Known, NEW c, c = cur.inn, RestoreStored \/ RestoreCheckpoint \/ HaveResult
  PROVE  KilledInv'
<1> DEFINE a == Agg(c)
           d == Deep(c)
           s == Said(c)
           r == result[c]
           u == IF cur.surface = "deep" THEN d ELSE a
<1>1. pc \in {"consume", "gated"} /\ pc \in RowPlaces /\ pc \in DrainPlaces /\ pc \in SurfacePlaces
  BY DEF RestoreStored, RestoreCheckpoint, HaveResult, RowPlaces, DrainPlaces, SurfacePlaces
<1>2. /\ UnitsOK(a, d, r) /\ SaidOK(a, d, r, s) /\ RowOK(pc, cur, a, d, r, s)
      /\ Explicit(a) /\ a.gen # 0 /\ c \in Companies /\ cur \in RowType
  BY <1>1, RowFacts
<1>3. Ckpt = u.ckpt
  BY <1>2 DEF Ckpt, Inn, Deep, Agg, RowType, Surface
<1>4. /\ cur.surface \in Surface /\ cur.hasDone \in BOOLEAN /\ cur.hasCompleted \in BOOLEAN
  BY <1>2 DEF RowType
<1>f. \A k : cur' = [cur EXCEPT !.keep = k] =>
        /\ cur'.recovery = cur.recovery /\ cur'.existing = cur.existing
        /\ cur'.surface = cur.surface /\ cur'.gen = cur.gen /\ cur'.hasDone = cur.hasDone
        /\ cur'.hasCompleted = cur.hasCompleted /\ cur'.keep = k
  BY DecideFields
<1> HIDE DEF a, d, s, r
<1>5. CASE RestoreStored
  <2>1. /\ pc = "consume" /\ cur.existing /\ cur.hasDone
        /\ Decide(0, AnnounceCompletion)
    BY <1>5 DEF RestoreStored, KeepStored
  <2>2. AnnounceCompletion = IF cur.hasCompleted THEN "sync" ELSE "completed"
    BY DEF AnnounceCompletion
  <2>3. /\ cur'.existing = cur.existing /\ cur'.surface = cur.surface
        /\ cur'.gen = cur.gen /\ cur'.hasDone = cur.hasDone
        /\ cur'.hasCompleted = cur.hasCompleted /\ cur'.keep = 0
    BY <1>f, <2>1 DEF Decide
  <2>4. RowOK(AnnounceCompletion, cur', a, d, r, s)
    BY <1>2, <1>4, <2>1, <2>2, <2>3 DEF RowOK, SurfacePlaces
  <2>5. AnnounceCompletion \in RowPlaces
    BY <2>2 DEF RowPlaces, DrainPlaces, SurfacePlaces
  <2> QED
    BY <1>1, <2>1, <2>4, <2>5, DecideStep DEF a, d, s, r
<1>6. CASE RestoreCheckpoint
  <2> DEFINE to == IF cur.hasDone THEN AnnounceCompletion ELSE "done"
  <2>1. /\ pc = "consume" /\ u.ckpt # 0
        /\ Decide(u.ckpt, to)
    BY <1>3, <1>6 DEF RestoreCheckpoint, KeepCheckpoint
  <2>2. to \in {"sync", "completed", "done"}
        /\ (to = "sync" => cur.hasDone /\ cur.hasCompleted)
        /\ (to = "completed" => cur.hasDone /\ ~cur.hasCompleted)
        /\ (to = "done" => ~cur.hasDone)
    BY DEF AnnounceCompletion
  <2> HIDE DEF to
  <2>3. /\ cur'.existing = cur.existing /\ cur'.surface = cur.surface
        /\ cur'.gen = cur.gen /\ cur'.hasDone = cur.hasDone
        /\ cur'.hasCompleted = cur.hasCompleted /\ cur'.keep = u.ckpt
    BY <1>f, <2>1 DEF Decide
  <2>4. u.ckpt = a.gen
    BY <1>2, <1>4, <2>1 DEF RowOK, UnitsOK, SurfacePlaces, Explicit, Surface
  <2>5. RowOK(to, cur', a, d, r, s)
    <3>1. "completed" \in s => "done" \in s
      BY <1>2 DEF SaidOK
    <3> QED
      BY <1>2, <1>4, <2>1, <2>2, <2>3, <2>4, <3>1 DEF RowOK, SurfacePlaces, Surface
  <2>6. to \in RowPlaces
    BY <2>2 DEF RowPlaces, DrainPlaces, SurfacePlaces
  <2> QED
    BY <1>1, <2>1, <2>5, <2>6, DecideStep DEF a, d, s, r
<1>7. CASE HaveResult
  <2>1. /\ Decide(cur.gen, "checkpoint")
        /\ \/ pc = "gated"
           \/ pc = "consume" /\ cur.surface = "deep" /\ ~KeepStored /\ ~KeepCheckpoint
    BY <1>7 DEF HaveResult
  <2>2. /\ cur'.existing = cur.existing /\ cur'.surface = cur.surface
        /\ cur'.gen = cur.gen /\ cur'.hasDone = cur.hasDone
        /\ cur'.hasCompleted = cur.hasCompleted /\ cur'.keep = cur.gen
    BY <1>f, <2>1 DEF Decide
  <2>3. "done" \notin s /\ ~cur.hasDone /\ ~cur.hasCompleted
    <3>1. CASE pc = "gated"
      BY <1>2, <3>1 DEF RowOK
    <3>2. CASE pc = "consume"
      BY <2>1, <3>2, NothingDone DEF s
    <3> QED
      BY <1>1, <3>1, <3>2
  <2>4. RowOK("checkpoint", cur', a, d, r, s)
    BY <1>1, <1>2, <1>4, <2>2, <2>3 DEF RowOK, SurfacePlaces, Surface
  <2> QED
    BY <1>1, <2>1, <2>4, DecideStep DEF a, d, s, r, RowPlaces, DrainPlaces, SurfacePlaces
<1> QED
  BY <1>5, <1>6, <1>7

LEMMA KilledEmit ==
  ASSUME Known, NEW c, c = cur.inn, EmitDone \/ EmitCompleted
  PROVE  KilledInv'
<1> DEFINE a == Agg(c)
           d == Deep(c)
           s == Said(c)
           r == result[c]
<1>1. pc \in {"done", "completed"} /\ pc \in RowPlaces /\ pc \in DrainPlaces
  BY DEF EmitDone, EmitCompleted, RowPlaces, DrainPlaces, SurfacePlaces
<1>2. /\ UnitsOK(a, d, r) /\ SaidOK(a, d, r, s) /\ RowOK(pc, cur, a, d, r, s)
      /\ Explicit(a) /\ a.gen # 0 /\ c \in Companies /\ cur \in RowType
      /\ cur.surface \in Surface
  BY <1>1, RowFacts DEF RowType
<1> HIDE DEF a, d, s, r
<1>3. CASE EmitDone
  <2>1. pc = "done" /\ "done" \notin s /\ ~cur.hasCompleted /\ "completed" \notin s
    BY <1>2, <1>3 DEF EmitDone, RowOK, SaidOK
  <2>2. EmitThen("done", "completed") /\ UNCHANGED cur
    BY <1>3, <2>1 DEF EmitDone, AnnounceCompletion
  <2>3. \/ r # 0
        \/ Explicit(d) /\ d.ckpt # 0
        \/ ~Explicit(d) /\ a.ckpt # 0
    BY <1>2, <2>1 DEF RowOK, SurfacePlaces, Surface, Explicit
  <2>4. SaidOK(a, d, r, s \cup {"done"})
    BY <1>2, <2>1, <2>3 DEF SaidOK
  <2>5. RowOK("completed", cur, a, d, r, s \cup {"done"})
    BY <1>2, <2>1 DEF RowOK, SurfacePlaces
  <2> QED
    BY <1>1, <2>1, <2>2, <2>4, <2>5, EmitStep
       DEF a, d, s, r, Kind, RowPlaces, DrainPlaces, SurfacePlaces
<1>4. CASE EmitCompleted
  <2>1. pc = "completed" /\ "done" \in s /\ "completed" \notin s
    BY <1>2, <1>4 DEF EmitCompleted, RowOK
  <2>2. EmitThen("completed", "sync") /\ UNCHANGED cur
    BY <1>4 DEF EmitCompleted
  <2>3. SaidOK(a, d, r, s \cup {"completed"})
    BY <1>2, <2>1 DEF SaidOK
  <2>4. RowOK("sync", cur, a, d, r, s \cup {"completed"})
    BY <1>2, <2>1 DEF RowOK, SurfacePlaces
  <2> QED
    BY <1>1, <2>1, <2>2, <2>3, <2>4, EmitStep
       DEF a, d, s, r, Kind, RowPlaces, DrainPlaces, SurfacePlaces
<1> QED
  BY <1>3, <1>4

\* A write of one unit of the row in hand.
LEMMA UnitStep ==
  ASSUME Known, NEW c, c = cur.inn, pc \in DrainPlaces, NEW to \in RowPlaces, Goto(to),
         UNCHANGED <<cursor, handoff, result, cur>>,
         NEW k \in Surface, OnlyUnit(k, c),
         UnitsOK(Agg(c)', Deep(c)', result[c]),
         SaidOK(Agg(c)', Deep(c)', result[c], Said(c)),
         RowOK(to, cur, Agg(c)', Deep(c)', result[c], Said(c)),
         Explicit(Agg(c)') /\ ~Open(Agg(c)', Deep(c)') => Announced(handoff[c])
  PROVE  KilledInv'
<1>1. /\ UNCHANGED <<session, outbox, cursor, handoff>> /\ pc \in RowPlaces /\ pc' = to
  BY DEF Goto, RowPlaces
<1>2. \A x \in Companies \ {c} : Agg(x)' = Agg(x) /\ Deep(x)' = Deep(x)
  BY DEF OnlyUnit, Agg, Deep, Surface
<1> QED
  BY <1>1, <1>2, WorkStep

LEMMA KilledHandOver ==
  ASSUME Known, NEW c, c = cur.inn, HandOver \/ CheckpointPrefetched \/ AckHandedOver
  PROVE  KilledInv'
<1> USE DEF Inn
<1> DEFINE a == Agg(c)
           d == Deep(c)
           s == Said(c)
           r == result[c]
           d2 == Deep(c)'
           a2 == Agg(c)'
<1>1. pc \in {"gated", "handover", "prefetched"} /\ pc \in RowPlaces /\ pc \in DrainPlaces
  BY DEF HandOver, CheckpointPrefetched, AckHandedOver, RowPlaces, DrainPlaces, SurfacePlaces
<1>2. /\ UnitsOK(a, d, r) /\ SaidOK(a, d, r, s) /\ RowOK(pc, cur, a, d, r, s)
      /\ Explicit(a) /\ c \in Companies /\ cur \in RowType
      /\ pc \in {"handover", "prefetched"} => Explicit(d)
  BY <1>1, RowFacts
<1>3. cur.gen \in Nat /\ IInv /\ UNCHANGED <<cursor, handoff, result, cur>>
  BY <1>2 DEF RowType, Known, HandOver, CheckpointPrefetched, AckHandedOver
<1>4. CASE HandOver
  <2>1. PICK same \in BOOLEAN : UpsertUnit("deep", c, cur.gen, same)
    BY <1>4 DEF HandOver
  <2>2. /\ OnlyUnit("deep", c)
        /\ \/ Explicit(d) /\ d2 = d
           \/ d2.st = "pending" /\ d2.gen = cur.gen /\ d2.ckpt = 0
    BY <1>2, <1>3, <2>1, UpsertEffect DEF Surface, Deep
  <2>3. a2 = a
    BY <1>2, <2>2 DEF OnlyUnit, Agg, Surface
  <2>4. pc = "gated" /\ Goto("handover")
    BY <1>4 DEF HandOver
  <2> HIDE DEF a, d, s, r, a2, d2
  <2>5. ~Explicit(d) /\ "done" \notin s /\ a.st = "pending" /\ cur.gen = a.gen
    BY <1>2, <2>4 DEF RowOK, SurfacePlaces
  <2>6. d2.st = "pending" /\ d2.gen = cur.gen /\ d2.ckpt = 0
    BY <2>2, <2>5
  <2>7. UnitsOK(a2, d2, r)
    BY <1>2, <2>3, <2>5, <2>6 DEF UnitsOK, Explicit
  <2>8. SaidOK(a2, d2, r, s)
    BY <1>2, <2>3, <2>5, <2>6 DEF SaidOK, Explicit
  <2>9. RowOK("handover", cur, a2, d2, r, s)
    BY <1>2, <2>3, <2>4, <2>5, <2>6 DEF RowOK, SurfacePlaces
  <2>10. Open(a2, d2)
    BY <2>6 DEF Open
  <2> QED
    BY <1>1, <1>3, <2>2, <2>4, <2>7, <2>8, <2>9, <2>10, UnitStep
       DEF a, d, s, r, a2, d2, Surface, RowPlaces, DrainPlaces
<1>5. CASE CheckpointPrefetched
  <2>1. MergeCheckpoint("deep", c, cur.gen) /\ pc = "handover" /\ Goto("prefetched")
    BY <1>5 DEF CheckpointPrefetched
  <2>2. /\ OnlyUnit("deep", c)
        /\ d2.st = d.st /\ d2.gen = d.gen /\ d2.ckpt = cur.gen
    BY <1>2, <1>3, <2>1, CheckpointEffect DEF Surface, Deep
  <2>3. a2 = a
    BY <1>2, <2>2 DEF OnlyUnit, Agg, Surface
  <2> HIDE DEF a, d, s, r, a2, d2
  <2>4. d.st = "pending" /\ "done" \notin s /\ a.st = "pending" /\ cur.gen = a.gen
    BY <1>2, <2>1 DEF RowOK
  <2>5. UnitsOK(a2, d2, r)
    BY <1>2, <2>2, <2>3, <2>4 DEF UnitsOK, Explicit
  <2>6. SaidOK(a2, d2, r, s)
    BY <1>2, <2>2, <2>3, <2>4 DEF SaidOK, Explicit
  <2>7. RowOK("prefetched", cur, a2, d2, r, s)
    BY <1>2, <2>1, <2>2, <2>3, <2>4 DEF RowOK, SurfacePlaces
  <2>8. Open(a2, d2)
    BY <2>2, <2>4 DEF Open
  <2> QED
    BY <1>1, <1>3, <2>1, <2>2, <2>5, <2>6, <2>7, <2>8, UnitStep
       DEF a, d, s, r, a2, d2, Surface, RowPlaces, DrainPlaces
<1>6. CASE AckHandedOver
  <2>1. Ack("agg", c) /\ pc \in {"handover", "prefetched"} /\ Goto("drain")
    BY <1>6 DEF AckHandedOver
  <2>2. /\ OnlyUnit("agg", c)
        /\ a2.st = "acked" /\ a2.gen = a.gen /\ a2.ckpt = a.ckpt
    <3>1. Explicit(unit["agg"][c])
      BY <1>2 DEF Agg
    <3> QED
      BY <1>2, <1>3, <2>1, <3>1, AckEffect DEF Surface, Agg
  <2>3. d2 = d
    BY <1>2, <2>2 DEF OnlyUnit, Deep, Surface
  <2> HIDE DEF a, d, s, r, a2, d2
  <2>4. d.st = "pending" /\ "done" \notin s
    BY <1>2, <2>1 DEF RowOK
  <2>5. UnitsOK(a2, d2, r)
    BY <1>2, <2>2, <2>3, <2>4 DEF UnitsOK, Explicit
  <2>6. SaidOK(a2, d2, r, s)
    BY <1>2, <2>2, <2>3, <2>4 DEF SaidOK, Explicit
  <2>7. RowOK("drain", cur, a2, d2, r, s)
    BY <1>2, <2>1, <2>2, <2>3, <2>4 DEF RowOK, SurfacePlaces, Explicit, Open
  <2>8. Open(a2, d2)
    BY <2>3, <2>4 DEF Open
  <2> QED
    BY <1>1, <1>3, <2>1, <2>2, <2>5, <2>6, <2>7, <2>8, UnitStep
       DEF a, d, s, r, a2, d2, Surface, RowPlaces, DrainPlaces
<1> QED
  BY <1>4, <1>5, <1>6

LEMMA KilledStoreUnit ==
  ASSUME Known, NEW c, c = cur.inn, Checkpoint \/ AckUnit
  PROVE  KilledInv'
<1> USE DEF Inn
<1> DEFINE a == Agg(c)
           d == Deep(c)
           s == Said(c)
           r == result[c]
           d2 == Deep(c)'
           a2 == Agg(c)'
           agg == cur.surface = "agg"
<1>1. pc \in {"checkpoint", "ack"} /\ pc \in RowPlaces /\ pc \in DrainPlaces
  BY DEF Checkpoint, AckUnit, RowPlaces, DrainPlaces, SurfacePlaces
<1>2. /\ UnitsOK(a, d, r) /\ SaidOK(a, d, r, s) /\ RowOK(pc, cur, a, d, r, s)
      /\ Explicit(a) /\ a.gen # 0 /\ c \in Companies /\ cur \in RowType
      /\ cur.surface \in Surface /\ cur.keep \in Nat
      /\ HandoffKnows(handoff[c], s)
  BY <1>1, RowFacts DEF RowType
<1>3. IInv /\ UNCHANGED <<cursor, handoff, result, cur>>
  BY DEF Known, Checkpoint, AckUnit
<1>4. CASE Checkpoint
  <2>1. pc = "checkpoint" /\ MergeCheckpoint(cur.surface, c, cur.keep)
    BY <1>4 DEF Checkpoint
  <2>2. /\ OnlyUnit(cur.surface, c)
        /\ unit'[cur.surface][c].st = unit[cur.surface][c].st
        /\ unit'[cur.surface][c].gen = unit[cur.surface][c].gen
        /\ unit'[cur.surface][c].ckpt = cur.keep
    BY <1>2, <1>3, <2>1, CheckpointEffect
  <2>3. /\ agg => a2.st = a.st /\ a2.gen = a.gen /\ a2.ckpt = cur.keep /\ d2 = d
        /\ ~agg => d2.st = d.st /\ d2.gen = d.gen /\ d2.ckpt = cur.keep /\ a2 = a
    BY <1>2, <2>2 DEF OnlyUnit, Agg, Deep, Surface
  <2> HIDE DEF a, d, s, r, a2, d2
  <2>4. /\ "done" \notin s /\ ~cur.hasDone /\ cur.keep = a.gen
        /\ cur.surface = "deep" => Explicit(d)
    BY <1>2, <2>1 DEF RowOK, SurfacePlaces, Explicit
  <2>5. Goto("done")
    BY <1>4, <2>4 DEF Checkpoint
  <2>6. UnitsOK(a2, d2, r)
    BY <1>2, <2>3, <2>4 DEF UnitsOK, Explicit, Surface
  <2>7. SaidOK(a2, d2, r, s)
    BY <1>2, <2>3, <2>4 DEF SaidOK, Explicit
  <2>8. RowOK("done", cur, a2, d2, r, s)
    BY <1>2, <2>1, <2>3, <2>4 DEF RowOK, SurfacePlaces, Explicit, Surface
  <2>9. Open(a2, d2)
    BY <1>2, <2>1, <2>3 DEF Open, RowOK, SurfacePlaces, Surface
  <2> QED
    BY <1>1, <1>2, <1>3, <2>2, <2>5, <2>6, <2>7, <2>8, <2>9, UnitStep
       DEF a, d, s, r, a2, d2, Surface, RowPlaces, DrainPlaces, SurfacePlaces
<1>5. CASE AckUnit
  <2>1. pc = "ack" /\ Ack(cur.surface, c) /\ Goto("result")
    BY <1>5 DEF AckUnit
  <2>2. cur.surface = "deep" => Explicit(d)
    BY <1>2, <2>1 DEF RowOK, SurfacePlaces, Explicit
  <2>3. Explicit(unit[cur.surface][c])
    BY <1>2, <2>2 DEF Agg, Deep, Surface
  <2>4. /\ OnlyUnit(cur.surface, c)
        /\ unit'[cur.surface][c].st = "acked"
        /\ unit'[cur.surface][c].gen = unit[cur.surface][c].gen
        /\ unit'[cur.surface][c].ckpt = unit[cur.surface][c].ckpt
    BY <1>2, <1>3, <2>1, <2>3, AckEffect
  <2>5. /\ agg => a2.st = "acked" /\ a2.gen = a.gen /\ a2.ckpt = a.ckpt /\ d2 = d
        /\ ~agg => d2.st = "acked" /\ d2.gen = d.gen /\ d2.ckpt = d.ckpt /\ a2 = a
    BY <1>2, <2>4 DEF OnlyUnit, Agg, Deep, Surface
  <2> HIDE DEF a, d, s, r, a2, d2
  <2>6. "completed" \in s
    BY <1>2, <2>1 DEF RowOK
  <2>7. UnitsOK(a2, d2, r)
    BY <1>2, <2>2, <2>5 DEF UnitsOK, Explicit, Surface
  <2>8. SaidOK(a2, d2, r, s)
    BY <1>2, <2>2, <2>5, <2>6 DEF SaidOK, Explicit, Surface
  <2>9. RowOK("result", cur, a2, d2, r, s)
    BY <1>2, <2>1, <2>2, <2>5, <2>6 DEF RowOK, SurfacePlaces, Explicit, Surface
  <2>10. Announced(handoff[c])
    BY <1>2, <2>6 DEF Announced, HandoffKnows, SaidOK, Ready
  <2> QED
    BY <1>1, <1>2, <1>3, <2>1, <2>4, <2>7, <2>8, <2>9, <2>10, UnitStep
       DEF a, d, s, r, a2, d2, RowPlaces, DrainPlaces, SurfacePlaces
<1> QED
  BY <1>4, <1>5

LEMMA KilledPickups ==
  ASSUME Known, NEW c, c = cur.inn, SyncPickups
  PROVE  KilledInv'
<1>1. /\ pc = "sync" /\ pc' = "ack" /\ UNCHANGED <<session, outbox, cursor, unit, result, cur>>
      /\ Place = "sync" /\ Place' = "ack" /\ Place \in RowPlaces /\ Place' \in RowPlaces
  BY PickupEffect DEF Known, SyncPickups, Goto, Place, RowPlaces, DrainPlaces, SurfacePlaces
<1>2. /\ c \in Companies /\ OutboxOK
      /\ UnitsOK(Agg(c), Deep(c), result[c])
      /\ SaidOK(Agg(c), Deep(c), result[c], Said(c))
      /\ RowOK("sync", cur, Agg(c), Deep(c), result[c], Said(c))
  BY <1>1, RowFacts DEF Place
<1>3. /\ \A x \in Companies : Said(x)' = Said(x) /\ Heard(x)' = Heard(x)
      /\ AnnouncedOnce' /\ CompletedIsLast'
  BY <1>1, <1>2, SameOutbox DEF OutboxOK
<1>4. \A x \in Companies : /\ handoff'[x].last = handoff[x].last
                           /\ handoff'[x].gate = handoff[x].gate
                           /\ handoff'[x].done = handoff[x].done
                           /\ handoff'[x].completed = handoff[x].completed
  <2> TAKE x \in Companies
  <2> DEFINE fresh == {y \in Companies : Ready(handoff[y]) /\ ~handoff[y].picked}
  <2>1. handoff'[x] = IF x \in fresh THEN [handoff[x] EXCEPT !.picked = TRUE] ELSE handoff[x]
    BY DEF SyncPickups
  <2>2. handoff[x] \in HandoffType
    BY DEF Known, IInv, TypeOK, HandoffType
  <2> HIDE DEF fresh
  <2> QED
    BY <2>1, <2>2 DEF HandoffType
<1>5. AnnouncedStays
  BY <1>4 DEF AnnouncedStays, Announced, Ready
<1>6. OutboxOK'
  <2>1. \A x \in Companies : HandoffKnows(handoff'[x], Heard(x)')
    BY <1>2, <1>3, <1>4 DEF OutboxOK, HandoffKnows
  <2> QED
    BY <1>1, <1>2, <1>3, <2>1 DEF OutboxOK
<1>7. RowOK("ack", cur, Agg(c), Deep(c), result[c], Said(c))
  BY <1>2 DEF RowOK, SurfacePlaces
<1>8. \A x : Agg(x)' = Agg(x) /\ Deep(x)' = Deep(x)
  BY <1>1 DEF Agg, Deep
<1>9. OthersSame(c)
  BY <1>1, <1>3, <1>8 DEF OthersSame
<1>10. ReadInv'
  BY <1>1 DEF Known, KilledInv, ReadInv, Idle
<1>11. Explicit(Agg(c)) /\ ~Open(Agg(c), Deep(c)) => Announced(handoff'[c])
  BY <1>2, <1>5 DEF Known, KilledInv, SettledInv, AnnouncedStays
<1> QED
  BY <1>1, <1>2, <1>3, <1>5, <1>6, <1>7, <1>8, <1>9, <1>10, <1>11, RowStep

LEMMA KilledRead ==
  ASSUME Known, ReadOutbox
  PROVE  KilledInv'
<1>1. /\ pc = "read" /\ pc' = next /\ UNCHANGED <<next, cur, session, unit, result, outbox>>
      /\ next \notin Idle \cup {"read"} /\ Place = next /\ Place' = next
  BY DEF ReadOutbox, Known, IInv, TypeOK, Place, Idle
<1>2. OutboxOK /\ SaidInv
  BY <1>1 DEF Known, KilledInv, MessagesInv
<1>3. /\ OutboxOK' /\ cursor' = Len(outbox')
      /\ \A x \in Companies : Said(x)' = Said(x)
      /\ \A x \in Companies : Announced(handoff[x]) => Announced(handoff'[x])
  BY <1>2, ReadEffect DEF Known
<1>4. \A x : Agg(x)' = Agg(x) /\ Deep(x)' = Deep(x)
  BY <1>1 DEF Agg, Deep
<1>5. UnitsInv' /\ SaidInv' /\ ReadInv' /\ SettledInv'
  BY <1>1, <1>2, <1>3, <1>4 DEF Known, KilledInv, UnitsInv, SaidInv, ReadInv, SettledInv
<1>6. SessionInv'
  BY <1>1 DEF Known, KilledInv, SessionInv, session, Idle
<1>7. RowsInv'
  BY <1>1, <1>3, <1>4 DEF Known, KilledInv, RowsInv, session, Coming, Idle
<1>8. RowInv'
  <2> SUFFICES ASSUME Place \in RowPlaces
               PROVE  /\ cur.inn \in Companies \ queue /\ cur.inn < pos
                      /\ cur.recovery <=> cur.inn \in recovering
                      /\ RowOK(Place, cur, Agg(cur.inn)', Deep(cur.inn)', result[cur.inn],
                               Said(cur.inn)')
    BY <1>1 DEF RowInv, InHand, session
  <2> QED
    BY <1>1, <1>3, <1>4 DEF Known, KilledInv, RowInv, InHand
<1> QED
  BY <1>3, <1>5, <1>6, <1>7, <1>8 DEF KilledInv, MessagesInv

----------------------------------------------------------------------------
(* The row loop                                                            *)

\* What a step that writes no file leaves as it was.
LEMMA SameLedger ==
  ASSUME Known, UNCHANGED <<outbox, cursor, handoff, unit, result>>, pc # "reset"
  PROVE  /\ \A x : Agg(x)' = Agg(x) /\ Deep(x)' = Deep(x)
         /\ \A x \in Companies : Said(x)' = Said(x)
         /\ UnitsInv' /\ MessagesInv' /\ SettledInv'
<1>1. \A x : Agg(x)' = Agg(x) /\ Deep(x)' = Deep(x)
  BY DEF Agg, Deep
<1>2. /\ \A x \in Companies : Said(x)' = Said(x) /\ Heard(x)' = Heard(x)
      /\ AnnouncedOnce => AnnouncedOnce'
      /\ CompletedIsLast => CompletedIsLast'
  BY SameOutbox
<1>3. SaidInv' /\ OutboxOK'
  BY <1>1, <1>2 DEF Known, KilledInv, MessagesInv, SaidInv, OutboxOK
<1>4. UnitsInv' /\ SettledInv'
  BY <1>1 DEF Known, KilledInv, UnitsInv, SettledInv
<1> QED
  BY <1>1, <1>2, <1>3, <1>4 DEF MessagesInv

\* What is known of every row from the row loop.
LEMMA LoopFacts ==
  ASSUME Known, pc = "loop"
  PROVE  /\ pos \in Nat /\ Companies \subseteq Nat /\ queue \subseteq Companies
         /\ cur.inn = 0 /\ cur.inn \notin Companies
         /\ selected = Companies /\ mode \in {"resume", "fresh"} /\ UnitsInv
         /\ mode = "fresh" => recovering = {}
         /\ cursor = Len(outbox)
         /\ \A x \in Companies :
              /\ x >= pos => Coming(x, Agg(x), Deep(x), result[x])
              /\ x \in queue => /\ x < pos /\ x \notin recovering
                                /\ Waiting(Agg(x), Deep(x), Said(x))
              /\ x < pos /\ x \notin queue \cup deferred => Through(Agg(x), Deep(x), result[x])
<1>1. pos \in Nat /\ Companies \subseteq Nat /\ 0 \notin Companies /\ queue \subseteq Companies
  BY LedgerAssumption DEF Known, IInv, TypeOK, Companies
<1>2. SessionInv /\ RowsInv /\ ReadInv /\ UnitsInv
  BY DEF Known, KilledInv
<1>3. cur.inn = 0
  BY <1>2 DEF SessionInv, Place
<1>4. /\ selected = Companies /\ mode \in {"resume", "fresh"}
      /\ mode = "fresh" => recovering = {}
  BY <1>2 DEF SessionInv
<1>5. cursor = Len(outbox)
  BY <1>2 DEF ReadInv, Idle
<1>6. \A x \in Companies :
        /\ x >= pos => Coming(x, Agg(x), Deep(x), result[x])
        /\ x \in queue => /\ x < pos /\ x \notin recovering
                          /\ Waiting(Agg(x), Deep(x), Said(x))
        /\ x < pos /\ x \notin queue \cup deferred => Through(Agg(x), Deep(x), result[x])
  BY <1>1, <1>2, <1>3 DEF RowsInv
<1> QED
  BY <1>1, <1>2, <1>3, <1>4, <1>5, <1>6

\* A session at its row loop, or with a row: what it says of all rows.
LEMMA LoopSession ==
  ASSUME Known, pc \notin Idle, pc' \in {"loop"} \cup RowPlaces,
         UNCHANGED <<selected, recovering, mode>>,
         pc' = "loop" => cur'.inn = 0
  PROVE  SessionInv'
<1>1. pc' \notin Idle /\ pc' # "read"
  BY DEF Idle, RowPlaces, DrainPlaces, SurfacePlaces
<1>2. "loop" \notin RowPlaces /\ pc # "off" /\ Idle \cap RowPlaces = {}
  BY DEF Idle, RowPlaces, DrainPlaces, SurfacePlaces
<1> QED
  BY <1>1, <1>2 DEF Known, KilledInv, SessionInv, Place, Idle

LEMMA KilledSkip ==
  ASSUME Known, SkipRow
  PROVE  KilledInv'
<1>1. /\ pc = "loop" /\ pc' = "loop" /\ pos' = pos + 1 /\ pos \in Companies
      /\ UNCHANGED <<outbox, cursor, handoff, unit, result, next, cur, selected, recovering,
                     mode, queue, deferred>>
  BY DEF SkipRow, LedgerUnchanged
<1>2. /\ mode = "resume" /\ pos \notin recovering /\ result[pos] # 0
  BY <1>1, LoopFacts DEF SkipRow
<1>3. /\ \A x : Agg(x)' = Agg(x) /\ Deep(x)' = Deep(x)
      /\ \A x \in Companies : Said(x)' = Said(x)
      /\ UnitsInv' /\ MessagesInv' /\ SettledInv'
  BY <1>1, SameLedger
<1>4. Through(Agg(pos), Deep(pos), result[pos])
  <2>1. Coming(pos, Agg(pos), Deep(pos), result[pos]) /\ UnitsOK(Agg(pos), Deep(pos), result[pos])
    BY <1>1, LoopFacts DEF UnitsInv
  <2> QED
    BY <1>2, <2>1 DEF Coming, UnitsOK, Through, Open
<1>5. SessionInv'
  BY <1>1, LoopFacts, LoopSession DEF Idle
<1>6. RowsInv'
  <2> SUFFICES ASSUME NEW x \in Companies
               PROVE  /\ x >= pos + 1 => Coming(x, Agg(x), Deep(x), result[x])
                      /\ x \in queue => /\ x < pos + 1 /\ x \notin recovering /\ x # cur.inn
                                        /\ Waiting(Agg(x), Deep(x), Said(x))
                      /\ x < pos + 1 /\ x \notin queue \cup deferred \cup {cur.inn} =>
                           Through(Agg(x), Deep(x), result[x])
    BY <1>1, <1>3 DEF RowsInv, Coming
  <2>1. x \in Nat /\ pos \in Nat /\ x # cur.inn
    BY <1>1, LoopFacts
  <2>2. CASE x = pos
    BY <1>1, <1>4, <2>1, <2>2, LoopFacts
  <2>3. CASE x # pos
    BY <1>1, <2>1, <2>3, LoopFacts
  <2> QED
    BY <2>2, <2>3
<1>7. RowInv' /\ ReadInv'
  BY <1>1, LoopFacts DEF RowInv, ReadInv, Place, RowPlaces, DrainPlaces, SurfacePlaces
<1> QED
  BY <1>3, <1>5, <1>6, <1>7 DEF KilledInv

\* The fields of a row the thread takes up.
LEMMA FieldsOfRow ==
  ASSUME NEW c
  PROVE  /\ RowOf(c).inn = c /\ (RowOf(c).recovery <=> c \in recovering)
         /\ (RowOf(c).existing <=> result[c] # 0)
BY DEF RowOf, NoRow

\* The thread takes up a row, the next one or one from the deque.
LEMMA TakeRow ==
  ASSUME Known, NEW c \in Companies, pc = "loop", NEW to \in RowPlaces, pc' = to,
         cur' = RowOf(c), c \notin queue', queue' \subseteq queue,
         queue \subseteq queue' \cup {c}, c < pos', pos' \in Nat, pos' >= pos,
         \A x \in Companies : x < pos' => x < pos \/ x = c,
         UNCHANGED <<outbox, cursor, handoff, unit, result, selected, recovering, mode, deferred>>,
         RowOK(to, RowOf(c), Agg(c), Deep(c), result[c], Said(c))
  PROVE  KilledInv'
<1>1. /\ \A x : Agg(x)' = Agg(x) /\ Deep(x)' = Deep(x)
      /\ \A x \in Companies : Said(x)' = Said(x)
      /\ UnitsInv' /\ MessagesInv' /\ SettledInv'
  BY SameLedger
<1>2. cur'.inn = c /\ (cur'.recovery <=> c \in recovering)
  BY FieldsOfRow
<1>3. SessionInv'
  <2>1. pc \notin Idle /\ pc' # "loop"
    BY DEF Idle, RowPlaces, DrainPlaces, SurfacePlaces
  <2> QED
    BY <2>1, LoopSession
<1>4. RowsInv'
  <2> SUFFICES ASSUME NEW x \in Companies
               PROVE  /\ x >= pos' => Coming(x, Agg(x), Deep(x), result[x])
                      /\ x \in queue' => /\ x < pos' /\ x \notin recovering /\ x # c
                                         /\ Waiting(Agg(x), Deep(x), Said(x))
                      /\ x < pos' /\ x \notin queue' \cup deferred \cup {c} =>
                           Through(Agg(x), Deep(x), result[x])
    BY <1>1, <1>2 DEF RowsInv, Coming
  <2>1. x \in Nat /\ pos \in Nat
    BY LoopFacts
  <2>2. x >= pos' => Coming(x, Agg(x), Deep(x), result[x])
    BY <2>1, LoopFacts
  <2>3. x \in queue' => x < pos /\ x < pos' /\ x \notin recovering /\ x # c
                        /\ Waiting(Agg(x), Deep(x), Said(x))
    BY <2>1, LoopFacts
  <2>4. x < pos' /\ x \notin queue' \cup deferred \cup {c} =>
          Through(Agg(x), Deep(x), result[x])
    BY <2>1, LoopFacts
  <2> QED
    BY <2>2, <2>3, <2>4
<1>5. RowInv'
  <2>1. Place' = to
    BY DEF Place, RowPlaces, DrainPlaces, SurfacePlaces
  <2>2. Agg(c)' = Agg(c) /\ Deep(c)' = Deep(c) /\ Said(c)' = Said(c)
    BY <1>1
  <2>3. RowOK(Place', cur', Agg(c)', Deep(c)', result'[c], Said(c)')
    BY <2>1, <2>2
  <2> QED
    BY <1>2, <2>3 DEF RowInv, InHand
<1>6. ReadInv'
  BY LoopFacts DEF ReadInv
<1> QED
  BY <1>1, <1>3, <1>4, <1>5, <1>6 DEF KilledInv

LEMMA KilledTake ==
  ASSUME Known, VisitRow \/ DrainPending
  PROVE  KilledInv'
<1>1. /\ pc = "loop"
      /\ UNCHANGED <<outbox, cursor, handoff, unit, result, selected, recovering, mode, deferred>>
  BY DEF VisitRow, DrainPending, LedgerUnchanged
<1>2. /\ pos \in Nat /\ Companies \subseteq Nat /\ queue \subseteq Companies
      /\ selected = Companies /\ mode \in {"resume", "fresh"} /\ UnitsInv
      /\ mode = "fresh" => recovering = {}
  BY <1>1, LoopFacts
<1>3. CASE VisitRow
  <2>1. /\ pos \in Companies /\ cur' = RowOf(pos) /\ pos' = pos + 1 /\ queue' = queue
        /\ pc' = IF pos \in recovering THEN "drain" ELSE "sources"
        /\ ~(mode = "resume" /\ pos \notin recovering /\ result[pos] # 0)
    BY <1>2, <1>3 DEF VisitRow
  <2>2. Coming(pos, Agg(pos), Deep(pos), result[pos]) /\ pos \notin queue
    BY <1>1, <1>2, <2>1, LoopFacts
  <2>3. UnitsOK(Agg(pos), Deep(pos), result[pos])
    BY <1>2, <2>1 DEF UnitsInv
  <2>4. RowOK(pc', RowOf(pos), Agg(pos), Deep(pos), result[pos], Said(pos))
    BY <2>1, <2>2, FieldsOfRow DEF RowOK, Coming, SurfacePlaces
  <2>5. pc' \in RowPlaces
    BY <2>1 DEF RowPlaces, DrainPlaces
  <2>6. \A x \in Companies : x < pos' => x < pos \/ x = pos
    BY <1>2, <2>1
  <2>7. pos' \in Nat /\ pos' >= pos /\ pos < pos'
    BY <1>2, <2>1
  <2> QED
    BY <1>1, <2>1, <2>2, <2>4, <2>5, <2>6, <2>7, TakeRow
<1>4. CASE DrainPending
  <2> PICK c \in queue : queue' = queue \ {c} /\ cur' = RowOf(c)
    BY <1>4 DEF DrainPending
  <2>1. c \in Companies /\ pc' = "drain" /\ pos' = pos
    BY <1>2, <1>4 DEF DrainPending
  <2>2. c < pos /\ c \notin recovering /\ Waiting(Agg(c), Deep(c), Said(c))
    BY <1>1, <2>1, LoopFacts
  <2>3. RowOK("drain", RowOf(c), Agg(c), Deep(c), result[c], Said(c))
    BY <2>2, FieldsOfRow DEF RowOK, Waiting, SurfacePlaces, Open, Explicit
  <2>4. "drain" \in RowPlaces
    BY DEF RowPlaces, DrainPlaces
  <2> QED
    BY <1>1, <1>2, <2>1, <2>2, <2>3, <2>4, TakeRow
<1> QED
  BY <1>3, <1>4

\* The thread puts its row away: what it says of that row, and the others are
\* as they were.
LEMMA PutRow ==
  ASSUME Known, NEW c, c = cur.inn, pc \in RowPlaces, pc' = "loop", cur' = NoRow,
         UNCHANGED <<outbox, cursor, handoff, pos, selected, recovering, mode>>,
         queue \subseteq queue', queue' \subseteq queue \cup {c},
         deferred \subseteq deferred', deferred' \subseteq deferred \cup {c},
         \A x \in Companies \ {c} : /\ Agg(x)'.st = Agg(x).st /\ Agg(x)'.gen = Agg(x).gen
                                    /\ Deep(x)'.st = Deep(x).st /\ Deep(x)'.gen = Deep(x).gen
                                    /\ result'[x] = result[x],
         UnitsInv', MessagesInv',
         Explicit(Agg(c)') /\ ~Open(Agg(c)', Deep(c)') => Announced(handoff[c]),
         c \in queue' => c \notin recovering /\ Waiting(Agg(c)', Deep(c)', Said(c)),
         c \notin queue' \cup deferred' => Through(Agg(c)', Deep(c)', result'[c])
  PROVE  KilledInv'
<1>1. /\ c \in Companies /\ c \notin queue /\ c < pos /\ IInv
  BY RowFacts DEF Known
<1>2. /\ pc \notin Idle \cup {"read"} /\ Place' = "loop" /\ cur'.inn = 0
  BY DEF Idle, Place, RowPlaces, DrainPlaces, SurfacePlaces, NoRow
<1>3. pos \in Nat /\ Companies \subseteq Nat /\ 0 \notin Companies
  BY LedgerAssumption DEF Known, IInv, TypeOK, Companies
<1>4. SettledInv'
  <2> SUFFICES ASSUME NEW x \in Companies, Explicit(Agg(x)'), ~Open(Agg(x)', Deep(x)')
               PROVE  Announced(handoff[x])
    BY DEF SettledInv
  <2>1. CASE x # c
    <3>1. Explicit(Agg(x)) /\ ~Open(Agg(x), Deep(x))
      BY <2>1 DEF Explicit, Open
    <3> QED
      BY <3>1 DEF Known, KilledInv, SettledInv
  <2> QED
    BY <2>1
<1>5. SessionInv'
  BY <1>2, LoopSession
<1>6. \A x \in Companies : Said(x)' = Said(x)
  BY SameOutbox
<1>7. RowsInv'
  <2> SUFFICES ASSUME NEW x \in Companies
               PROVE  /\ x >= pos => Coming(x, Agg(x)', Deep(x)', result'[x])
                      /\ x \in queue' => /\ x < pos /\ x \notin recovering /\ x # 0
                                         /\ Waiting(Agg(x)', Deep(x)', Said(x))
                      /\ x < pos /\ x \notin queue' \cup deferred' \cup {0} =>
                           Through(Agg(x)', Deep(x)', result'[x])
    BY <1>2, <1>6 DEF RowsInv, Coming
  <2>1. /\ x >= pos => Coming(x, Agg(x), Deep(x), result[x])
        /\ x \in queue => /\ x < pos /\ x \notin recovering
                          /\ Waiting(Agg(x), Deep(x), Said(x))
        /\ x < pos /\ x \notin queue \cup deferred \cup {c} =>
             Through(Agg(x), Deep(x), result[x])
    BY <1>2 DEF Known, KilledInv, RowsInv, Idle
  <2>2. CASE x = c
    BY <1>1, <1>3, <2>2
  <2>3. CASE x # c
    <3>1. /\ Agg(x)'.st = Agg(x).st /\ Deep(x)'.st = Deep(x).st
          /\ result'[x] = result[x]
      BY <2>3
    <3>2. Coming(x, Agg(x), Deep(x), result[x]) => Coming(x, Agg(x)', Deep(x)', result'[x])
      BY <3>1 DEF Coming, Open, Explicit
    <3>3. Waiting(Agg(x), Deep(x), Said(x)) => Waiting(Agg(x)', Deep(x)', Said(x))
      BY <3>1 DEF Waiting, Explicit
    <3>4. Through(Agg(x), Deep(x), result[x]) => Through(Agg(x)', Deep(x)', result'[x])
      BY <3>1 DEF Through
    <3> QED
      BY <1>3, <2>1, <2>3, <3>2, <3>3, <3>4
  <2> QED
    BY <2>2, <2>3
<1>8. RowInv' /\ ReadInv'
  BY <1>2 DEF RowInv, RowPlaces, DrainPlaces, SurfacePlaces, Known, KilledInv, ReadInv
<1> QED
  BY <1>4, <1>5, <1>7, <1>8 DEF KilledInv

LEMMA KilledDefer ==
  ASSUME Known, NEW c, c = cur.inn, DeferRow
  PROVE  KilledInv'
<1>1. /\ pc = "candidates" /\ pc' = "loop" /\ cur' = NoRow /\ deferred' = deferred \cup {c}
      /\ UNCHANGED <<outbox, cursor, handoff, unit, result, pos, selected, recovering, mode, queue>>
      /\ pc \in RowPlaces
  BY DEF DeferRow, files, RowPlaces
<1>2. /\ \A x : Agg(x)' = Agg(x) /\ Deep(x)' = Deep(x)
      /\ UnitsInv' /\ MessagesInv' /\ SettledInv'
  BY <1>1, SameLedger
<1>3. c \in Companies /\ c \notin queue
  BY <1>1, RowFacts
<1>4. Explicit(Agg(c)') /\ ~Open(Agg(c)', Deep(c)') => Announced(handoff[c])
  BY <1>2, <1>3 DEF Known, KilledInv, SettledInv
<1> QED
  BY <1>1, <1>2, <1>3, <1>4, PutRow

LEMMA KilledMaterialize ==
  ASSUME Known, NEW c, c = cur.inn, MaterializeUnit
  PROVE  KilledInv'
<1> DEFINE a == Agg(c)
           d == Deep(c)
           s == Said(c)
           r == result[c]
           a2 == Agg(c)'
           g == admissions[c] + 1
<1>1. /\ pc = "unit" /\ pc' = "loop" /\ cur' = NoRow /\ queue' = queue \cup {c}
      /\ UNCHANGED <<outbox, cursor, handoff, result, pos, selected, recovering, mode, deferred>>
      /\ pc \in RowPlaces /\ pc # "reset" /\ pc' # "reset"
  BY DEF MaterializeUnit, RowPlaces
<1>2. /\ UnitsOK(a, d, r) /\ SaidOK(a, d, r, s) /\ RowOK("unit", cur, a, d, r, s)
      /\ c \in Companies /\ (cur.recovery <=> c \in recovering) /\ c \notin queue /\ c < pos
      /\ OutboxOK
  BY <1>1, RowFacts
<1>3. g \in Nat /\ IInv /\ SaidInv /\ UnitsInv
  BY <1>1, <1>2 DEF Known, IInv, TypeOK, KilledInv, MessagesInv
<1>4. PICK same \in BOOLEAN : UpsertUnit("agg", c, g, same)
  BY DEF MaterializeUnit
<1>5. ~Explicit(a) /\ ~cur.recovery
  BY <1>2 DEF RowOK
<1>6. OnlyUnit("agg", c) /\ a2.st = "pending" /\ a2.gen = g /\ a2.ckpt = 0
  <2>1. ~Explicit(unit["agg"][c])
    BY <1>5 DEF Agg
  <2> HIDE DEF g
  <2>2. /\ OnlyUnit("agg", c)
        /\ unit'["agg"][c].st = "pending" /\ unit'["agg"][c].gen = g /\ unit'["agg"][c].ckpt = 0
    BY <1>2, <1>3, <1>4, <2>1, UpsertEffect DEF Surface
  <2> QED
    BY <2>2 DEF Agg
<1>7. /\ \A x \in Companies \ {c} : Agg(x)' = Agg(x)
      /\ \A x \in Companies : Deep(x)' = Deep(x)
  BY <1>6 DEF OnlyUnit, Agg, Deep, Surface
<1>8. /\ \A x \in Companies : Said(x)' = Said(x) /\ Heard(x)' = Heard(x)
      /\ AnnouncedOnce' /\ CompletedIsLast'
  BY <1>1, <1>2, SameOutbox DEF OutboxOK
<1> HIDE DEF a, d, s, r, a2, g
<1>9. s \cap {"gate", "done", "completed"} = {} /\ ~Explicit(d) /\ r = 0 /\ d.st = "none" /\ d.ckpt = 0
  BY <1>2, <1>5 DEF SaidOK, UnitsOK
<1>10. UnitsOK(a2, d, r) /\ SaidOK(a2, d, r, s) /\ Waiting(a2, d, s) /\ Open(a2, d)
  BY <1>6, <1>9 DEF UnitsOK, SaidOK, Waiting, Explicit, Open
<1>11. Deep(c)' = d /\ a2 = Agg(c)' /\ result'[c] = r /\ s = Said(c)
  BY <1>1, <1>2, <1>7 DEF d, a2, r, s
<1>12. UnitsInv'
  BY <1>1, <1>3, <1>7, <1>10, <1>11 DEF UnitsInv
<1>13. MessagesInv'
  <2>1. SaidInv'
    BY <1>1, <1>3, <1>7, <1>8, <1>10, <1>11 DEF SaidInv
  <2>2. OutboxOK'
    BY <1>1, <1>2, <1>8 DEF OutboxOK
  <2> QED
    BY <2>1, <2>2 DEF MessagesInv
<1> QED
  BY <1>1, <1>2, <1>5, <1>7, <1>10, <1>11, <1>12, <1>13, PutRow

LEMMA KilledStore ==
  ASSUME Known, NEW c, c = cur.inn, StoreResult
  PROVE  KilledInv'
<1> DEFINE a == Agg(c)
           d == Deep(c)
           s == Said(c)
           r == result[c]
<1>1. /\ pc = "result" /\ pc' = "loop" /\ cur' = NoRow
      /\ UNCHANGED <<outbox, cursor, handoff, session>>
      /\ pc \in RowPlaces /\ pc \in DrainPlaces /\ pc' # "reset"
  BY DEF StoreResult, Goto, RowPlaces, DrainPlaces, SurfacePlaces
<1>2. /\ UnitsOK(a, d, r) /\ SaidOK(a, d, r, s) /\ RowOK("result", cur, a, d, r, s)
      /\ c \in Companies /\ Explicit(a) /\ a.gen # 0
      /\ cur \in RowType /\ cur.surface \in Surface /\ cur.keep \in Nat
      /\ OutboxOK
  BY <1>1, RowFacts DEF RowType
<1>3. IInv /\ SaidInv /\ UnitsInv /\ result \in [Companies -> Nat]
  BY <1>1 DEF Known, IInv, TypeOK, KilledInv, MessagesInv
<1>4. /\ \A x \in Companies : Said(x)' = Said(x) /\ Heard(x)' = Heard(x)
      /\ AnnouncedOnce' /\ CompletedIsLast'
  BY <1>1, <1>2, SameOutbox DEF OutboxOK
<1>5. OutboxOK'
  BY <1>1, <1>2, <1>4 DEF OutboxOK
<1>6. /\ \A x \in Companies : /\ Agg(x)'.st = Agg(x).st /\ Agg(x)'.gen = Agg(x).gen
                              /\ Deep(x)'.st = Deep(x).st /\ Deep(x)'.gen = Deep(x).gen
                              /\ Agg(x)'.ckpt \in {0, Agg(x).ckpt}
                              /\ Deep(x)'.ckpt \in {0, Deep(x).ckpt}
                              /\ result'[x] = 0 => Agg(x)'.ckpt = Agg(x).ckpt
                                                   /\ Deep(x)'.ckpt = Deep(x).ckpt
      /\ \A x \in Companies \ {c} : result'[x] = result[x]
      /\ result'[c] = IF cur.keep = 0 THEN result[c] ELSE cur.keep
  <2>1. CASE cur.keep = 0
    <3>1. unit' = unit /\ result' = result
      BY <2>1 DEF StoreResult
    <3> QED
      BY <2>1, <3>1 DEF Agg, Deep
  <2>2. CASE cur.keep # 0
    <3> DEFINE results == [result EXCEPT ![c] = cur.keep]
    <3>1. result' = results /\ unit' = WithoutDuplicates(unit, results)
      BY <2>2 DEF StoreResult, Inn
    <3>2. \A k \in Surface, x \in Companies :
            /\ unit'[k][x].st = unit[k][x].st /\ unit'[k][x].gen = unit[k][x].gen
            /\ unit'[k][x].ckpt = IF results[x] # 0 THEN 0 ELSE unit[k][x].ckpt
      <4> HIDE DEF results
      <4> QED
        BY <1>3, <3>1, ClearEffect
    <3>3. /\ \A x \in Companies \ {c} : results[x] = result[x]
          /\ results[c] = cur.keep
      BY <1>2, <1>3
    <3> HIDE DEF results
    <3> QED
      BY <2>2, <3>1, <3>2, <3>3 DEF Agg, Deep, Surface
  <2> QED
    BY <2>1, <2>2
<1>7. result'[c] # 0 /\ result'[c] \in {r, a.gen}
  BY <1>2, <1>6 DEF RowOK
<1>8. UnitsInv'
  <2> SUFFICES ASSUME NEW x \in Companies PROVE UnitsOK(Agg(x)', Deep(x)', result'[x])
    BY DEF UnitsInv
  <2>1. UnitsOK(Agg(x), Deep(x), result[x])
    BY <1>3 DEF UnitsInv
  <2>2. result'[x] \in {result[x], Agg(x).gen} /\ (x # c => result'[x] = result[x])
    BY <1>6, <1>7
  <2> QED
    BY <1>2, <1>6, <2>1, <2>2 DEF UnitsOK, Explicit
<1>9. SaidInv'
  <2> SUFFICES ASSUME NEW x \in Companies PROVE SaidOK(Agg(x)', Deep(x)', result'[x], Said(x))
    BY <1>4 DEF SaidInv
  <2>1. SaidOK(Agg(x), Deep(x), result[x], Said(x))
    BY <1>3 DEF SaidInv
  <2>2. result[x] # 0 => result'[x] # 0
    BY <1>6, <1>7
  <2>3. /\ Agg(x)'.st = Agg(x).st /\ Deep(x)'.st = Deep(x).st
        /\ result'[x] = 0 => Agg(x)'.ckpt = Agg(x).ckpt /\ Deep(x)'.ckpt = Deep(x).ckpt
    BY <1>6
  <2> QED
    BY <2>1, <2>2, <2>3 DEF SaidOK, Explicit
<1>10. Through(Agg(c)', Deep(c)', result'[c])
  <2>1. Agg(c)'.st = a.st /\ Deep(c)'.st = d.st
    BY <1>2, <1>6
  <2> QED
    BY <1>2, <1>7, <2>1 DEF RowOK, Through, SurfacePlaces, Surface
<1>11. Explicit(Agg(c)') /\ ~Open(Agg(c)', Deep(c)') => Announced(handoff[c])
  <2>1. Agg(c)'.st = a.st /\ Deep(c)'.st = d.st
    BY <1>2, <1>6
  <2> QED
    BY <1>2, <2>1 DEF Known, KilledInv, SettledInv, Explicit, Open
<1>12. c \notin queue'
  BY <1>1, RowFacts DEF session
<1> QED
  BY <1>1, <1>5, <1>6, <1>8, <1>9, <1>10, <1>11, <1>12, PutRow DEF MessagesInv, session

----------------------------------------------------------------------------
(* A process that ends, or begins                                          *)

LEMMA KilledExit ==
  ASSUME Known, ~CrashInReset, Finish \/ Crash \/ Interrupt
  PROVE  KilledInv'
<1>1. /\ UNCHANGED <<outbox, cursor, handoff, unit, result>> /\ Exit /\ pc # "reset"
  BY DEF Finish, Crash, Interrupt, files, RowsDone
<1>2. UnitsInv' /\ MessagesInv' /\ SettledInv'
  BY <1>1, SameLedger
<1>3. pc' = "off" /\ Place' = "off" /\ cur'.inn = 0 /\ pos' = 1 /\ queue' = {} /\ deferred' = {}
      /\ mode' = "none" /\ recovering' = {}
  BY <1>1 DEF Exit, Place, NoRow
<1>4. SessionInv' /\ ReadInv'
  BY <1>3 DEF SessionInv, ReadInv, Idle
<1>5. RowsInv' /\ RowInv'
  BY <1>3 DEF RowsInv, RowInv, RowPlaces, DrainPlaces, SurfacePlaces
<1> QED
  BY <1>2, <1>4, <1>5 DEF KilledInv

\* What a process that is started now takes for the result of a company.
LEMMA ConvergedRow ==
  ASSUME Known, NEW c \in Companies
  PROVE  /\ result[c] # 0 => Converged[c] = result[c]
         /\ result[c] = 0 => Converged[c] \in {0, Agg(c).ckpt, Deep(c).ckpt}
         /\ Explicit(Agg(c)) /\ ~Open(Agg(c), Deep(c)) => Converged[c] # 0
         /\ Deep(c).st = "acked" => Converged[c] # 0
<1>1. Reconciled = unit
  BY SyncedIsUnit DEF Known, SyncedUnits, Reconciled
<1>2. Converged[c] = IF result[c] # 0 THEN result[c]
                     ELSE IF RestoreSafe("deep", c) THEN Deep(c).ckpt
                     ELSE IF RestoreSafe("agg", c) THEN Agg(c).ckpt
                     ELSE 0
  BY <1>1 DEF Converged, Deep, Agg
<1>3. /\ RestoreSafe("deep", c) => Deep(c).ckpt # 0
      /\ RestoreSafe("agg", c) => Agg(c).ckpt # 0
      /\ Deep(c).st = "acked" /\ Deep(c).ckpt # 0 => RestoreSafe("deep", c)
      /\ Agg(c).st = "acked" /\ Agg(c).ckpt # 0 => RestoreSafe("agg", c)
  BY <1>1 DEF RestoreSafe, Deep, Agg
<1>4. UnitsSafe(Agg(c), Deep(c), result[c])
  BY DEF Known, RecoverInv, AllSafe, Agg, Deep
<1>5. Deep(c).st = "acked" => Converged[c] # 0
  BY <1>2, <1>3, <1>4 DEF UnitsSafe
<1>6. Explicit(Agg(c)) /\ ~Open(Agg(c), Deep(c)) => Converged[c] # 0
  <2>1. Agg(c).st = "acked" /\ ~Explicit(Deep(c)) => Converged[c] # 0
    BY <1>2, <1>3, <1>4 DEF UnitsSafe
  <2> QED
    BY <1>5, <2>1 DEF Explicit, Open
<1> QED
  BY <1>2, <1>5, <1>6

\* What it makes of the units of the company when it loads them.
LEMMA LoadedRow ==
  ASSUME Known, NEW m, NEW sel, Load(m, sel), NEW c \in Companies
  PROVE  /\ Agg(c)'.st = Agg(c).st /\ Agg(c)'.gen = Agg(c).gen
         /\ Deep(c)'.st = Deep(c).st /\ Deep(c)'.gen = Deep(c).gen
         /\ Agg(c)'.ckpt = IF result'[c] # 0 THEN 0 ELSE Agg(c).ckpt
         /\ Deep(c)'.ckpt = IF result'[c] # 0 THEN 0 ELSE Deep(c).ckpt
         /\ result[c] # 0 => result'[c] = result[c]
         /\ result[c] = 0 => result'[c] \in {0, Agg(c).ckpt, Deep(c).ckpt}
         /\ Explicit(Agg(c)) /\ ~Open(Agg(c), Deep(c)) => result'[c] # 0
         /\ Deep(c).st = "acked" => result'[c] # 0
<1>1. result' = Converged /\ unit' = WithoutDuplicates(unit, Converged)
  BY LoadEffect DEF Known
<1>2. \A s \in Surface, x \in Companies :
        /\ unit'[s][x].st = unit[s][x].st /\ unit'[s][x].gen = unit[s][x].gen
        /\ unit'[s][x].ckpt = IF Converged[x] # 0 THEN 0 ELSE unit[s][x].ckpt
  BY <1>1, ClearEffect DEF Known
<1>3. result'[c] = Converged[c]
  BY <1>1
<1> HIDE DEF Converged
<1> QED
  BY <1>2, <1>3, ConvergedRow DEF Agg, Deep, Surface

\* Loading keeps what the ledger and the announcements of a company say.
LEMMA LoadedLedger ==
  ASSUME Known, NEW m, NEW sel, Load(m, sel), pc = "off"
  PROVE  UnitsInv' /\ SaidInv' /\ OutboxOK' /\ SettledInv'
<1>1. UNCHANGED <<outbox, cursor, handoff>>
  BY DEF Load
<1>2. /\ UnitsInv /\ SaidInv /\ OutboxOK /\ SettledInv
  BY DEF Known, KilledInv, MessagesInv
<1>3. /\ \A x \in Companies : Said(x)' = Said(x) /\ Heard(x)' = Heard(x)
      /\ AnnouncedOnce' /\ CompletedIsLast'
  BY <1>1, <1>2, SameOutbox DEF OutboxOK
<1>4. UnitsInv'
  <2> SUFFICES ASSUME NEW x \in Companies PROVE UnitsOK(Agg(x)', Deep(x)', result'[x])
    BY DEF UnitsInv
  <2>1. UnitsOK(Agg(x), Deep(x), result[x])
    BY <1>2 DEF UnitsInv
  <2> QED
    BY <2>1, LoadedRow DEF UnitsOK, Explicit
<1>5. SaidInv'
  <2> SUFFICES ASSUME NEW x \in Companies PROVE SaidOK(Agg(x)', Deep(x)', result'[x], Said(x))
    BY <1>3 DEF SaidInv
  <2>1. SaidOK(Agg(x), Deep(x), result[x], Said(x))
    BY <1>2 DEF SaidInv
  <2> QED
    BY <2>1, LoadedRow DEF SaidOK, Explicit
<1>6. OutboxOK'
  BY <1>1, <1>2, <1>3 DEF OutboxOK
<1>7. SettledInv'
  <2> SUFFICES ASSUME NEW x \in Companies, Explicit(Agg(x)'), ~Open(Agg(x)', Deep(x)')
               PROVE  Announced(handoff[x])
    BY <1>1 DEF SettledInv
  <2>1. Explicit(Agg(x)) /\ ~Open(Agg(x), Deep(x))
    BY LoadedRow DEF Explicit, Open
  <2> QED
    BY <1>2, <2>1 DEF SettledInv
<1> QED
  BY <1>4, <1>5, <1>6, <1>7

LEMMA KilledStart ==
  ASSUME Known, StartResume \/ StartFresh
  PROVE  KilledInv'
<1>1. /\ pc = "off" /\ pc' \in {"loaded", "fresh"} /\ UNCHANGED <<cur, pos, queue, deferred>>
      /\ cur.inn = 0 /\ pos = 1 /\ queue = {} /\ deferred = {}
  BY DEF StartResume, StartFresh, Load, Known, KilledInv, SessionInv, Idle, Place
<1>2. UnitsInv' /\ MessagesInv' /\ SettledInv'
  BY <1>1, LoadedLedger DEF StartResume, StartFresh, MessagesInv
<1>3. Place' = pc' /\ Place' \notin RowPlaces
  BY <1>1 DEF Place, RowPlaces, DrainPlaces, SurfacePlaces
<1>4. ReadInv' /\ RowInv'
  BY <1>1, <1>3 DEF ReadInv, RowInv, Idle
<1>5. CASE StartResume
  <2>1. /\ pc' = "loaded" /\ Load("resume", Companies) /\ mode' = "resume" /\ selected' = Companies
    BY <1>5 DEF StartResume, Load
  <2>2. SessionInv'
    BY <1>1, <1>3, <2>1 DEF SessionInv, Idle
  <2>3. recovering' = {x \in Companies : \E s \in Surface : unit'[s][x].st = "pending"}
    BY <2>1, LoadEffect DEF Known, ResumeModes
  <2>4. \A x \in Companies : x \in recovering' <=> Open(Agg(x)', Deep(x)')
    BY <2>3 DEF Open, Agg, Deep, Surface
  <2>5. ASSUME NEW x \in Companies
        PROVE  Coming(x, Agg(x), Deep(x), result[x])'
    <3>1. x \notin recovering' /\ Explicit(Agg(x)') => result'[x] # 0
      BY <2>1, <2>4, LoadedRow DEF Open, Explicit
    <3>2. Deep(x)'.st = "acked" => result'[x] # 0
      BY <2>1, LoadedRow
    <3> QED
      BY <2>1, <2>4, <3>1, <3>2 DEF Coming
  <2>6. \A x \in Companies : ~(x < pos)
    BY <1>1 DEF Companies
  <2>7. RowsInv'
    BY <1>1, <2>5, <2>6 DEF RowsInv
  <2> QED
    BY <1>2, <1>4, <2>2, <2>7 DEF KilledInv
<1>6. CASE StartFresh
  <2>1. /\ pc' = "fresh" /\ Load("fresh", Companies) /\ mode' = "fresh" /\ selected' = Companies
        /\ recovering' = {}
    BY <1>6 DEF StartFresh, Load, ResumeModes
  <2>2. SessionInv' /\ RowsInv'
    BY <1>1, <1>3, <2>1 DEF SessionInv, Idle, RowsInv
  <2> QED
    BY <1>2, <1>4, <2>2 DEF KilledInv
<1> QED
  BY <1>5, <1>6

LEMMA KilledReset ==
  ASSUME Known, ResetLogs \/ ResetState \/ RunStarted
  PROVE  KilledInv'
<1>1. /\ UNCHANGED <<cur, session>> /\ pc \in {"loaded", "fresh", "reset"}
      /\ cur.inn = 0 /\ pos = 1 /\ queue = {} /\ deferred = {}
      /\ selected = Companies /\ mode \in {"resume", "fresh"}
      /\ mode = "fresh" => recovering = {}
      /\ pc \in {"fresh", "reset"} => mode = "fresh"
  BY DEF ResetLogs, ResetState, RunStarted, Known, KilledInv, SessionInv, Idle, Place
<1>2. CASE ResetLogs
  <2>1. pc' = "reset" /\ pc = "fresh" /\ UNCHANGED <<unit, result, handoff>>
    BY <1>2 DEF ResetLogs
  <2>2. \A x : Agg(x)' = Agg(x) /\ Deep(x)' = Deep(x)
    BY <2>1 DEF Agg, Deep
  <2>3. UnitsInv' /\ SettledInv' /\ MessagesInv'
    BY <2>1, <2>2 DEF Known, KilledInv, UnitsInv, SettledInv, MessagesInv
  <2>4. ReadInv' /\ RowsInv' /\ RowInv'
    BY <2>1 DEF ReadInv, RowsInv, RowInv, Idle, Place, RowPlaces, DrainPlaces, SurfacePlaces
  <2>5. SessionInv'
    BY <1>1, <2>1 DEF SessionInv, session, Idle
  <2> QED
    BY <2>3, <2>4, <2>5 DEF KilledInv
<1>3. CASE ResetState \/ RunStarted
  <2>1. pc' = "read" /\ next' = "loop" /\ Place' = "loop" /\ UNCHANGED <<outbox, cur, session>>
    BY <1>3 DEF ResetState, RunStarted, Place
  <2>2. SessionInv' /\ ReadInv' /\ RowInv'
    BY <1>1, <2>1 DEF SessionInv, ReadInv, RowInv, session, Idle, RowPlaces, DrainPlaces,
       SurfacePlaces
  <2>3. \A x \in Companies : ~(x < pos)
    BY <1>1 DEF Companies
  <2>4. CASE RunStarted
    <3>1. UNCHANGED <<outbox, cursor, handoff, unit, result>> /\ pc = "loaded"
      BY <2>4 DEF RunStarted
    <3>2. /\ \A x : Agg(x)' = Agg(x) /\ Deep(x)' = Deep(x)
          /\ UnitsInv' /\ MessagesInv' /\ SettledInv'
      BY <3>1, SameLedger
    <3>3. \A x \in Companies : x >= pos => Coming(x, Agg(x), Deep(x), result[x])
      BY <3>1 DEF Known, KilledInv, RowsInv
    <3>4. RowsInv'
      BY <1>1, <2>1, <2>3, <3>1, <3>2, <3>3 DEF RowsInv, session, Coming
    <3> QED
      BY <2>2, <3>2, <3>4 DEF KilledInv
  <2>5. CASE ResetState
    <3>1. /\ pc = "reset" /\ outbox' = <<>> /\ cursor' = 0
          /\ \A x \in Companies : /\ Agg(x)' = NoUnit /\ Deep(x)' = NoUnit
                                  /\ result'[x] = 0 /\ handoff'[x] = NoHandoff
      BY <2>1, <2>5 DEF ResetState, Known, IInv, PlaceInv, Agg, Deep, Surface
    <3>2. Len(outbox') = 0
      BY <3>1
    <3>3. \A x \in Companies : Said(x)' = {} /\ Heard(x)' = {}
      BY <3>2 DEF Said, Heard
    <3>4. OutboxOK'
      BY <3>1, <3>2, <3>3 DEF OutboxOK, AnnouncedOnce, CompletedIsLast, HandoffKnows, NoHandoff
    <3>5. UnitsInv' /\ SaidInv' /\ SettledInv'
      BY <3>1, <3>3 DEF UnitsInv, UnitsOK, SaidInv, SaidOK, SettledInv, NoUnit, Explicit
    <3>6. RowsInv'
      BY <1>1, <2>1, <2>3, <3>1 DEF RowsInv, session, Coming, NoUnit, Explicit
    <3> QED
      BY <2>2, <3>4, <3>5, <3>6 DEF KilledInv, MessagesInv
  <2> QED
    BY <1>3, <2>4, <2>5
<1> QED
  BY <1>2, <1>3

----------------------------------------------------------------------------

LEMMA KilledInit == Init => KilledInv
<1> SUFFICES ASSUME Init PROVE KilledInv
  OBVIOUS
<1>1. /\ \A x \in Companies : /\ Agg(x) = NoUnit /\ Deep(x) = NoUnit
                              /\ result[x] = 0 /\ handoff[x] = NoHandoff
      /\ outbox = <<>> /\ cursor = 0 /\ Len(outbox) = 0
  BY DEF Init, Agg, Deep, Surface
<1>2. \A x \in Companies : Said(x) = {} /\ Heard(x) = {}
  BY <1>1 DEF Said, Heard
<1>3. UnitsInv /\ SaidInv /\ SettledInv
  BY <1>1, <1>2 DEF UnitsInv, UnitsOK, SaidInv, SaidOK, SettledInv, NoUnit, Explicit
<1>4. OutboxOK
  BY <1>1, <1>2 DEF OutboxOK, AnnouncedOnce, CompletedIsLast, HandoffKnows, NoHandoff
<1>5. ReadInv /\ SessionInv /\ RowsInv /\ RowInv
  BY DEF Init, ReadInv, SessionInv, RowsInv, RowInv, Idle, Place, NoRow, RowPlaces, DrainPlaces,
     SurfacePlaces
<1> QED
  BY <1>3, <1>4, <1>5 DEF KilledInv, MessagesInv

LEMMA KilledStutter == KilledInv /\ UNCHANGED vars => KilledInv'
<1> SUFFICES ASSUME KilledInv, UNCHANGED vars PROVE KilledInv'
  OBVIOUS
<1>1. /\ UNCHANGED <<outbox, cursor, handoff, unit, result, pc, next, cur, pos, selected,
                     recovering, mode, queue, deferred>>
  BY DEF vars
<1>2. /\ \A x : Agg(x)' = Agg(x) /\ Deep(x)' = Deep(x)
      /\ \A x : Said(x)' = Said(x) /\ Heard(x)' = Heard(x)
      /\ Place' = Place
  BY <1>1 DEF Agg, Deep, Said, Heard, SaidAt, Place
<1>3. UnitsInv' /\ SaidInv' = SaidInv /\ SettledInv' /\ ReadInv' /\ SessionInv'
  BY <1>1, <1>2 DEF KilledInv, UnitsInv, SaidInv, SettledInv, ReadInv, SessionInv
<1>4. OutboxOK' = OutboxOK
  BY <1>1, <1>2 DEF OutboxOK, AnnouncedOnce, CompletedIsLast
<1>5. RowsInv'
  BY <1>1, <1>2 DEF KilledInv, RowsInv, Coming
<1>6. RowInv'
  BY <1>1, <1>2 DEF KilledInv, RowInv, InHand
<1> QED
  BY <1>1, <1>3, <1>4, <1>5, <1>6 DEF KilledInv, MessagesInv

\* A step of a killed system is one of the system.
LEMMA KilledIsNext == KilledNext => Next
BY DEF KilledNext, Next, Step

LEMMA KilledNextInv == Known /\ ~CrashInReset /\ [KilledNext]_vars => Known'
<1> SUFFICES ASSUME Known, ~CrashInReset, [KilledNext]_vars PROVE Known'
  OBVIOUS
<1>1. IInv' /\ RecoverInv'
  BY KilledIsNext, NextInv, RecoverNext DEF Known
<1>2. KilledInv'
  <2>1. CASE UNCHANGED vars
    BY <2>1, KilledStutter DEF Known
  <2>2. CASE StartResume \/ StartFresh
    BY <2>2, KilledStart
  <2>3. CASE ResetLogs \/ ResetState \/ RunStarted
    BY <2>3, KilledReset
  <2>4. CASE ReadOutbox
    BY <2>4, KilledRead
  <2>5. CASE SkipRow
    BY <2>5, KilledSkip
  <2>6. CASE VisitRow \/ DrainPending
    BY <2>6, KilledTake
  <2>7. CASE CollectSources \/ ChooseCandidates
    BY <2>7, KilledCollect
  <2>8. CASE DeferRow
    BY <2>8, KilledDefer
  <2>9. CASE MaterializeUnit
    BY <2>9, KilledMaterialize
  <2>10. CASE LookUp
    BY <2>10, KilledLookUp
  <2>11. CASE RestoreStored \/ RestoreCheckpoint \/ HaveResult
    BY <2>11, KilledDecide
  <2>12. CASE Gate
    BY <2>12, KilledGate
  <2>13. CASE HandOver \/ CheckpointPrefetched \/ AckHandedOver
    BY <2>13, KilledHandOver
  <2>14. CASE Checkpoint \/ AckUnit
    BY <2>14, KilledStoreUnit
  <2>15. CASE EmitDone \/ EmitCompleted
    BY <2>15, KilledEmit
  <2>16. CASE SyncPickups
    BY <2>16, KilledPickups
  <2>17. CASE StoreResult
    BY <2>17, KilledStore
  <2>18. CASE Finish \/ Crash \/ Interrupt
    BY <2>18, KilledExit
  <2> QED
    BY <2>1, <2>2, <2>3, <2>4, <2>5, <2>6, <2>7, <2>8, <2>9, <2>10, <2>11, <2>12, <2>13,
       <2>14, <2>15, <2>16, <2>17, <2>18 DEF KilledNext, Proceed
<1> QED
  BY <1>1, <1>2 DEF Known

LEMMA KnownInit == Init => Known
BY InitInv, RecoverInit, KilledInit DEF Known

LEMMA KilledInvariance == ~CrashInReset => (KilledSpec => []Known)
<1> SUFFICES ASSUME ~CrashInReset PROVE KilledSpec => []Known
  OBVIOUS
<1>1. Known /\ [KilledNext]_vars => Known'
  BY KilledNextInv
<1> QED
  BY <1>1, KnownInit, PTL DEF KilledSpec

----------------------------------------------------------------------------
(* The theorems                                                            *)

LEMMA UnitsThere == Known => UnitsAreThere
<1> SUFFICES ASSUME Known PROVE UnitsAreThere
  OBVIOUS
<1> DEFINE c == cur.inn
<1>1. ASSUME pc \in RowPlaces
      PROVE  RowOK(pc, cur, Agg(c), Deep(c), result[c], Said(c)) /\ cur.surface \in Surface
  BY <1>1, RowFacts DEF RowType
<1>2. pc \in {"drain", "handover", "prefetched", "ack"} => pc \in RowPlaces
  BY DEF RowPlaces, DrainPlaces, SurfacePlaces
<1>3. CASE pc = "drain"
  <2>1. Open(Agg(c), Deep(c))
    BY <1>1, <1>2, <1>3 DEF RowOK
  <2>2. PendingFor(Inn) # {}
    BY <2>1, SyncedIsUnit DEF PendingFor, Known, Open, Agg, Deep, Inn, Surface
  <2> QED
    BY <1>3, <2>2 DEF UnitsAreThere
<1>4. CASE pc \in {"handover", "prefetched"}
  <2>1. Agg(c).st = "pending"
    BY <1>1, <1>2, <1>4 DEF RowOK
  <2> QED
    BY <1>4, <2>1 DEF UnitsAreThere, CanAck, Agg, Inn
<1>5. CASE pc = "ack"
  <2>1. unit[cur.surface][c].st = "pending"
    BY <1>1, <1>2, <1>5 DEF RowOK, SurfacePlaces, Surface, Agg, Deep
  <2> QED
    BY <1>5, <2>1 DEF UnitsAreThere, CanAck, Inn
<1> QED
  BY <1>3, <1>4, <1>5 DEF UnitsAreThere

\* A run that is only killed, interrupted, resumed and started afresh is never
\* stopped by its own ledger: every unit the drain of a row relies on is there, and
\* a session over all rows that reaches its end leaves a result for every row it
\* did not defer: SessionsComplete.
THEOREM NoSessionIsStopped == ~CrashInReset => (KilledSpec => []SessionsComplete)
<1> SUFFICES ASSUME ~CrashInReset PROVE KilledSpec => []SessionsComplete
  OBVIOUS
<1>1. ASSUME Known PROVE SessionsComplete
  <2>1. UnitsAreThere
    BY <1>1, UnitsThere
  <2>2. CompleteAtTheEnd
    <3> SUFFICES ASSUME RowsDone, NEW c \in Companies \ deferred
                 PROVE  /\ result[c] # 0
                        /\ Pending(c) # {} =>
                             Pending(c) = {"agg"} /\ unit["deep"][c].st = "acked"
      BY DEF CompleteAtTheEnd
    <3>1. pc = "loop" /\ queue = {} /\ pos \notin Companies
      BY DEF RowsDone
    <3>2. c < pos
      BY <1>1, <3>1, LedgerAssumption DEF Known, IInv, TypeOK, Companies
    <3>3. Through(Agg(c), Deep(c), result[c])
      BY <1>1, <3>1, <3>2, LoopFacts
    <3> QED
      BY <3>3 DEF Through, Pending, Agg, Deep, Surface
  <2> QED
    BY <2>1, <2>2 DEF SessionsComplete
<1> QED
  BY <1>1, KilledInvariance, PTL

\* However often such a run is killed, a company that is settled has the result of
\* its last admission: ResultIsCurrent.
THEOREM ResultsAreCurrent == ~CrashInReset => (KilledSpec => []ResultIsCurrent)
<1> SUFFICES ASSUME ~CrashInReset PROVE KilledSpec => []ResultIsCurrent
  OBVIOUS
<1>1. ASSUME Known PROVE ResultIsCurrent
  <2> SUFFICES ASSUME NEW c \in Companies, Explicit(unit["agg"][c]), Pending(c) = {}
               PROVE  Converged[c] = unit["agg"][c].gen
    BY DEF ResultIsCurrent
  <2>1. Explicit(Agg(c)) /\ ~Open(Agg(c), Deep(c))
    BY DEF Agg, Deep, Pending, Open, Surface
  <2>2. UnitsOK(Agg(c), Deep(c), result[c])
    BY <1>1 DEF Known, KilledInv, UnitsInv
  <2>3. Converged[c] = Agg(c).gen
    BY <1>1, <2>1, <2>2, ConvergedRow DEF UnitsOK
  <2> QED
    BY <2>3 DEF Agg
<1> QED
  BY <1>1, KilledInvariance, PTL

\* The announcements of a company are made once and not a second time after a
\* crash, and a settled company has made them all: AnnouncedExactlyOnce.
THEOREM AnnouncementsAreExact == ~CrashInReset => (KilledSpec => []AnnouncedExactlyOnce)
<1> SUFFICES ASSUME ~CrashInReset PROVE KilledSpec => []AnnouncedExactlyOnce
  OBVIOUS
<1>1. ASSUME Known PROVE AnnouncedExactlyOnce
  <2>1. AnnouncedOnce
    <3>1. CASE pc = "reset"
      <4>1. Len(outbox) = 0
        BY <1>1, <3>1 DEF Known, IInv, PlaceInv
      <4> QED
        BY <4>1 DEF AnnouncedOnce
    <3>2. CASE pc # "reset"
      BY <1>1, <3>2 DEF Known, KilledInv, MessagesInv, OutboxOK
    <3> QED
      BY <3>1, <3>2
  <2>2. SettledIsAnnounced
    <3> SUFFICES ASSUME NEW c \in Companies, Explicit(unit["agg"][c]), Pending(c) = {}
                 PROVE  handoff[c].done /\ handoff[c].completed /\ Ready(handoff[c])
      BY DEF SettledIsAnnounced
    <3>1. Explicit(Agg(c)) /\ ~Open(Agg(c), Deep(c))
      BY DEF Agg, Deep, Pending, Open, Surface
    <3> QED
      BY <1>1, <3>1 DEF Known, KilledInv, SettledInv, Announced
  <2> QED
    BY <2>1, <2>2 DEF AnnouncedExactlyOnce
<1> QED
  BY <1>1, KilledInvariance, PTL

\* Neither error of the drain and no truncated outbox ever stops a run that does
\* no row again (LookUpFails, ReadTruncated): all it does are steps that go on, so
\* the theorems of this module hold of it.
THEOREM NothingIsRaised == ~CrashInReset /\ ~Reprocess => (Spec => KilledSpec)
<1> SUFFICES ASSUME ~CrashInReset, ~Reprocess PROVE Spec => KilledSpec
  OBVIOUS
<1>1. Known /\ [Next]_vars => [KilledNext]_vars
  <2> SUFFICES ASSUME Known, Next PROVE KilledNext
    OBVIOUS
  <2>1. ~LookUpFails
    BY UnitsThere DEF LookUpFails, UnitsAreThere, Inn
  <2>2. ~ReadTruncated
    <3> SUFFICES ASSUME pc = "read" PROVE ~Truncated
      BY DEF ReadTruncated
    <3>1. cursor <= Len(outbox)
      BY DEF Known, KilledInv, MessagesInv, OutboxOK
    <3> QED
      BY <3>1, OutboxType DEF Truncated, Known
  <2>3. ~StartRetry
    BY DEF StartRetry
  <2> QED
    BY <2>1, <2>2, <2>3 DEF Next, Step, KilledNext
<1>2. Known /\ [KilledNext]_vars => Known'
  BY KilledNextInv
<1> QED
  BY <1>1, <1>2, KnownInit, PTL DEF Spec, KilledSpec

----------------------------------------------------------------------------
(* The refinement of the company lifecycle                                 *)

\* The lifecycle of a company with units a and d and result r.
StageOf(a, d) ==
  IF ~Explicit(a) THEN "waiting" ELSE IF Open(a, d) THEN "open" ELSE "settled"

IsStored(a, d, r) ==
  \/ r # 0
  \/ a.st = "acked" /\ a.ckpt # 0
  \/ d.st = "acked" /\ d.ckpt # 0

LEMMA LifecycleOf ==
  /\ Stage = [c \in Companies |-> StageOf(Agg(c), Deep(c))]
  /\ Stored = {c \in Companies : IsStored(Agg(c), Deep(c), result[c])}
<1>1. \A c \in Companies : (Pending(c) # {}) <=> Open(Agg(c), Deep(c))
  BY DEF Pending, Open, Agg, Deep, Surface
<1>2. Stage = [c \in Companies |-> StageOf(Agg(c), Deep(c))]
  BY <1>1 DEF Stage, StageOf, Agg
<1>3. Stored = {c \in Companies : IsStored(Agg(c), Deep(c), result[c])}
  BY DEF Stored, IsStored, Agg, Deep, Surface
<1> QED
  BY <1>2, <1>3

LEMMA LifecycleNext ==
  /\ Stage' = [c \in Companies |-> StageOf(Agg(c)', Deep(c)')]
  /\ Stored' = {c \in Companies : IsStored(Agg(c)', Deep(c)', result'[c])}
<1>1. \A c \in Companies : (Pending(c)' # {}) <=> Open(Agg(c)', Deep(c)')
  BY DEF Pending, Open, Agg, Deep, Surface
<1>2. Stage' = [c \in Companies |-> StageOf(Agg(c)', Deep(c)')]
  BY <1>1 DEF Stage, StageOf, Agg
<1>3. Stored' = {c \in Companies : IsStored(Agg(c)', Deep(c)', result'[c])}
  BY DEF Stored, IsStored, Agg, Deep, Surface
<1> QED
  BY <1>2, <1>3

\* The units and the result of a company are as they were, or say the same.
SameOf(c) == /\ StageOf(Agg(c)', Deep(c)') = StageOf(Agg(c), Deep(c))
             /\ IsStored(Agg(c)', Deep(c)', result'[c]) <=> IsStored(Agg(c), Deep(c), result[c])

LifecycleStep == [Lifecycle!Next]_(Lifecycle!vars)

\* No company changes its stage, and results of open ones are stored: a step of
\* the lifecycle, or none.
LEMMA StoreOnly ==
  ASSUME \A c \in Companies :
           /\ StageOf(Agg(c)', Deep(c)') = StageOf(Agg(c), Deep(c))
           /\ IsStored(Agg(c), Deep(c), result[c]) => IsStored(Agg(c)', Deep(c)', result'[c])
           /\ IsStored(Agg(c)', Deep(c)', result'[c]) =>
                \/ IsStored(Agg(c), Deep(c), result[c])
                \/ StageOf(Agg(c), Deep(c)) = "open"
  PROVE  LifecycleStep
<1> DEFINE new == {c \in Companies : StageOf(Agg(c), Deep(c)) = "open"
                                     /\ IsStored(Agg(c)', Deep(c)', result'[c])}
<1>1. /\ Stage = [c \in Companies |-> StageOf(Agg(c), Deep(c))]
      /\ Stored = {c \in Companies : IsStored(Agg(c), Deep(c), result[c])}
      /\ Stage' = [c \in Companies |-> StageOf(Agg(c)', Deep(c)')]
      /\ Stored' = {c \in Companies : IsStored(Agg(c)', Deep(c)', result'[c])}
  BY LifecycleOf, LifecycleNext
<1>2. Stage' = Stage
  BY <1>1
<1>3. Stored' = Stored \cup new
  BY <1>1
<1>4. new \in SUBSET Lifecycle!Open
  BY <1>1 DEF Lifecycle!Open
<1> HIDE DEF new
<1>5. Lifecycle!Store
  BY <1>2, <1>3, <1>4 DEF Lifecycle!Store
<1> QED
  BY <1>5 DEF LifecycleStep, Lifecycle!Next

\* Every other company is as it was, and company c is admitted ...
LEMMA AdmitOne ==
  ASSUME NEW c \in Companies, \A x \in Companies \ {c} : SameOf(x),
         StageOf(Agg(c), Deep(c)) = "waiting", StageOf(Agg(c)', Deep(c)') = "open",
         IsStored(Agg(c)', Deep(c)', result'[c]) <=> IsStored(Agg(c), Deep(c), result[c])
  PROVE  LifecycleStep
<1>1. /\ Stage = [x \in Companies |-> StageOf(Agg(x), Deep(x))]
      /\ Stored = {x \in Companies : IsStored(Agg(x), Deep(x), result[x])}
      /\ Stage' = [x \in Companies |-> StageOf(Agg(x)', Deep(x)')]
      /\ Stored' = {x \in Companies : IsStored(Agg(x)', Deep(x)', result'[x])}
  BY LifecycleOf, LifecycleNext
<1>2. Stage[c] = "waiting" /\ Stage' = [Stage EXCEPT ![c] = "open"]
  BY <1>1 DEF SameOf
<1>3. Stored' = Stored
  BY <1>1 DEF SameOf
<1>4. Lifecycle!Admit(c)
  BY <1>2, <1>3 DEF Lifecycle!Admit
<1> QED
  BY <1>4 DEF LifecycleStep, Lifecycle!Next

\* ... or settled.
LEMMA SettleOne ==
  ASSUME NEW c \in Companies, \A x \in Companies \ {c} : SameOf(x),
         StageOf(Agg(c), Deep(c)) = "open", StageOf(Agg(c)', Deep(c)') = "settled",
         IsStored(Agg(c)', Deep(c)', result'[c])
  PROVE  LifecycleStep
<1>1. /\ Stage = [x \in Companies |-> StageOf(Agg(x), Deep(x))]
      /\ Stored = {x \in Companies : IsStored(Agg(x), Deep(x), result[x])}
      /\ Stage' = [x \in Companies |-> StageOf(Agg(x)', Deep(x)')]
      /\ Stored' = {x \in Companies : IsStored(Agg(x)', Deep(x)', result'[x])}
  BY LifecycleOf, LifecycleNext
<1>2. Stage[c] = "open" /\ Stage' = [Stage EXCEPT ![c] = "settled"]
  BY <1>1 DEF SameOf
<1>3. Stored' = Stored \cup {c}
  BY <1>1 DEF SameOf
<1>4. Lifecycle!Settle(c)
  BY <1>2, <1>3 DEF Lifecycle!Settle
<1> QED
  BY <1>4 DEF LifecycleStep, Lifecycle!Next

\* Steps that leave the units and the results alone are no steps of the lifecycle.
LEMMA SameLifecycle ==
  ASSUME UNCHANGED <<unit, result>>
  PROVE  LifecycleStep
<1>1. \A c : Agg(c)' = Agg(c) /\ Deep(c)' = Deep(c)
  BY DEF Agg, Deep
<1> QED
  BY <1>1, StoreOnly

LEMMA LoadLifecycle ==
  ASSUME Known, NEW m, NEW sel, Load(m, sel)
  PROVE  LifecycleStep
<1> SUFFICES ASSUME NEW c \in Companies
             PROVE  /\ StageOf(Agg(c)', Deep(c)') = StageOf(Agg(c), Deep(c))
                    /\ IsStored(Agg(c), Deep(c), result[c]) =>
                         IsStored(Agg(c)', Deep(c)', result'[c])
                    /\ IsStored(Agg(c)', Deep(c)', result'[c]) =>
                         \/ IsStored(Agg(c), Deep(c), result[c])
                         \/ StageOf(Agg(c), Deep(c)) = "open"
  BY StoreOnly
<1>1. /\ Agg(c)'.st = Agg(c).st /\ Deep(c)'.st = Deep(c).st
      /\ Agg(c)'.ckpt = IF result'[c] # 0 THEN 0 ELSE Agg(c).ckpt
      /\ Deep(c)'.ckpt = IF result'[c] # 0 THEN 0 ELSE Deep(c).ckpt
      /\ result[c] # 0 => result'[c] = result[c]
      /\ result[c] = 0 => result'[c] \in {0, Agg(c).ckpt, Deep(c).ckpt}
  BY LoadedRow
<1>2. StageOf(Agg(c)', Deep(c)') = StageOf(Agg(c), Deep(c))
  BY <1>1 DEF StageOf, Explicit, Open
<1>3. UnitsOK(Agg(c), Deep(c), result[c])
  BY DEF Known, KilledInv, UnitsInv
<1>4. IsStored(Agg(c)', Deep(c)', result'[c]) =>
        IsStored(Agg(c), Deep(c), result[c]) \/ StageOf(Agg(c), Deep(c)) = "open"
  BY <1>1, <1>3 DEF IsStored, StageOf, UnitsOK, Explicit, Open
<1>5. IsStored(Agg(c), Deep(c), result[c]) => IsStored(Agg(c)', Deep(c)', result'[c])
  <2>1. /\ Deep(c).st = "acked" /\ Deep(c).ckpt # 0 => result'[c] # 0
        /\ Agg(c).st = "acked" /\ Agg(c).ckpt # 0 => result'[c] # 0 \/ Agg(c)'.ckpt # 0
    BY <1>1, LoadedRow
  <2> QED
    BY <1>1, <2>1 DEF IsStored
<1> QED
  BY <1>2, <1>4, <1>5

\* The steps of the drain that write a unit of the row in hand.
LEMMA UnitLifecycle ==
  ASSUME Known, NEW c, c = cur.inn,
         HandOver \/ CheckpointPrefetched \/ AckHandedOver \/ Checkpoint \/ AckUnit
  PROVE  LifecycleStep
<1> USE DEF Inn
<1> DEFINE a == Agg(c)
           d == Deep(c)
           r == result[c]
           a2 == Agg(c)'
           d2 == Deep(c)'
<1>1. /\ pc \in {"gated", "handover", "prefetched", "checkpoint", "ack"}
      /\ pc \in RowPlaces /\ pc \in DrainPlaces /\ result' = result
      /\ HandOver => pc = "gated"
      /\ CheckpointPrefetched \/ AckHandedOver => pc \in {"handover", "prefetched"}
      /\ Checkpoint => pc = "checkpoint"
      /\ AckUnit => pc = "ack"
  BY DEF HandOver, CheckpointPrefetched, AckHandedOver, Checkpoint, AckUnit, RowPlaces,
     DrainPlaces, SurfacePlaces
<1>2. /\ UnitsOK(a, d, r) /\ RowOK(pc, cur, a, d, r, Said(c)) /\ Explicit(a) /\ a.gen # 0
      /\ c \in Companies /\ cur \in RowType /\ cur.surface \in Surface /\ cur.gen \in Nat
      /\ cur.keep \in Nat /\ IInv
  BY <1>1, RowFacts DEF RowType, Known
<1>3. /\ a = unit["agg"][c] /\ d = unit["deep"][c] /\ Surface = {"agg", "deep"}
      /\ a2 = unit'["agg"][c] /\ d2 = unit'["deep"][c]
  BY DEF Agg, Deep, Surface
<1>4. ASSUME NEW k \in Surface, OnlyUnit(k, c)
      PROVE  /\ \A x \in Companies \ {c} : SameOf(x)
             /\ k = "agg" => d2 = d
             /\ k = "deep" => a2 = a
  <2>1. \A x \in Companies \ {c} : Agg(x)' = Agg(x) /\ Deep(x)' = Deep(x)
    BY <1>4 DEF OnlyUnit, Agg, Deep, Surface
  <2> QED
    BY <1>1, <1>2, <1>3, <1>4, <2>1 DEF SameOf, OnlyUnit
<1>5. ASSUME \A x \in Companies \ {c} : SameOf(x), StageOf(a, d) = "open",
             StageOf(a2, d2) = "open", IsStored(a, d, r) => IsStored(a2, d2, r)
      PROVE  LifecycleStep
  <2> SUFFICES ASSUME NEW x \in Companies
               PROVE  /\ StageOf(Agg(x)', Deep(x)') = StageOf(Agg(x), Deep(x))
                      /\ IsStored(Agg(x), Deep(x), result[x]) =>
                           IsStored(Agg(x)', Deep(x)', result'[x])
                      /\ IsStored(Agg(x)', Deep(x)', result'[x]) =>
                           \/ IsStored(Agg(x), Deep(x), result[x])
                           \/ StageOf(Agg(x), Deep(x)) = "open"
    BY StoreOnly
  <2>1. CASE x = c
    BY <1>1, <1>5, <2>1
  <2>2. CASE x # c
    BY <1>5, <2>2 DEF SameOf
  <2> QED
    BY <2>1, <2>2
<1>6. CASE HandOver
  <2>1. PICK same \in BOOLEAN : UpsertUnit("deep", c, cur.gen, same)
    BY <1>6 DEF HandOver
  <2>2. /\ OnlyUnit("deep", c)
        /\ \/ Explicit(d) /\ d2 = d
           \/ d2.st = "pending" /\ d2.ckpt = 0
    BY <1>2, <1>3, <2>1, UpsertEffect
  <2>3. a.st = "pending" /\ ~Explicit(d) /\ a2 = a
    BY <1>1, <1>2, <1>3, <1>4, <1>6, <2>2 DEF RowOK, SurfacePlaces
  <2> HIDE DEF a, d, r, a2, d2
  <2>4. StageOf(a, d) = "open" /\ StageOf(a2, d2) = "open"
    BY <2>2, <2>3 DEF StageOf, Explicit, Open
  <2>5. IsStored(a, d, r) => IsStored(a2, d2, r)
    BY <2>2, <2>3 DEF IsStored, Explicit
  <2> QED
    BY <1>3, <1>4, <1>5, <2>2, <2>4, <2>5
<1>7. CASE CheckpointPrefetched
  <2>1. MergeCheckpoint("deep", c, cur.gen)
    BY <1>7 DEF CheckpointPrefetched
  <2>2. OnlyUnit("deep", c) /\ d2.st = d.st
    BY <1>2, <1>3, <2>1, CheckpointEffect
  <2>3. a.st = "pending" /\ d.st = "pending" /\ a2 = a
    BY <1>1, <1>2, <1>3, <1>4, <1>7, <2>2 DEF RowOK
  <2> HIDE DEF a, d, r, a2, d2
  <2>4. StageOf(a, d) = "open" /\ StageOf(a2, d2) = "open"
    BY <2>2, <2>3 DEF StageOf, Explicit, Open
  <2>5. IsStored(a, d, r) => IsStored(a2, d2, r)
    BY <2>2, <2>3 DEF IsStored
  <2> QED
    BY <1>3, <1>4, <1>5, <2>2, <2>4, <2>5
<1>8. CASE AckHandedOver
  <2>1. Ack("agg", c)
    BY <1>8 DEF AckHandedOver
  <2>2. OnlyUnit("agg", c) /\ a2.st = "acked"
    BY <1>2, <1>3, <2>1, AckEffect
  <2>3. a.st = "pending" /\ d.st = "pending" /\ d2 = d
    BY <1>1, <1>2, <1>3, <1>4, <1>8, <2>2 DEF RowOK
  <2> HIDE DEF a, d, r, a2, d2
  <2>4. StageOf(a, d) = "open" /\ StageOf(a2, d2) = "open"
    BY <2>2, <2>3 DEF StageOf, Explicit, Open
  <2>5. IsStored(a, d, r) => IsStored(a2, d2, r)
    BY <2>2, <2>3 DEF IsStored
  <2> QED
    BY <1>3, <1>4, <1>5, <2>2, <2>4, <2>5
<1>9. CASE Checkpoint
  <2>1. MergeCheckpoint(cur.surface, c, cur.keep)
    BY <1>9 DEF Checkpoint
  <2>2. /\ OnlyUnit(cur.surface, c)
        /\ unit'[cur.surface][c].st = unit[cur.surface][c].st
    BY <1>2, <2>1, CheckpointEffect
  <2>3. /\ cur.surface = "agg" => a2.st = a.st /\ d2 = d /\ a.st = "pending"
        /\ cur.surface = "deep" => d2.st = d.st /\ a2 = a /\ d.st = "pending"
    BY <1>1, <1>2, <1>3, <1>4, <1>9, <2>2 DEF RowOK, SurfacePlaces
  <2> HIDE DEF a, d, r, a2, d2
  <2>4. StageOf(a, d) = "open" /\ StageOf(a2, d2) = "open"
    BY <1>2, <1>3, <2>3 DEF StageOf, Explicit, Open
  <2>5. IsStored(a, d, r) => IsStored(a2, d2, r)
    BY <1>2, <1>3, <2>3 DEF IsStored
  <2> QED
    BY <1>2, <1>4, <1>5, <2>2, <2>4, <2>5
<1>10. CASE AckUnit
  <2>1. Ack(cur.surface, c) /\ pc = "ack"
    BY <1>10 DEF AckUnit
  <2>2. /\ cur.surface = "agg" => a.st = "pending" /\ d.st # "pending"
        /\ cur.surface = "deep" => d.st = "pending"
        /\ \/ r # 0
           \/ cur.surface = "agg" /\ a.ckpt # 0
           \/ cur.surface = "deep" /\ d.ckpt # 0
    BY <1>2, <1>3, <2>1 DEF RowOK, SurfacePlaces
  <2>3. Explicit(unit[cur.surface][c])
    BY <1>2, <1>3, <2>2 DEF Explicit
  <2>4. /\ OnlyUnit(cur.surface, c)
        /\ unit'[cur.surface][c].st = "acked"
        /\ unit'[cur.surface][c].ckpt = unit[cur.surface][c].ckpt
    BY <1>2, <2>1, <2>3, AckEffect
  <2>5. /\ cur.surface = "agg" => a2.st = "acked" /\ d2 = d /\ a2.ckpt = a.ckpt
        /\ cur.surface = "deep" => d2.st = "acked" /\ a2 = a /\ d2.ckpt = d.ckpt
    BY <1>2, <1>3, <1>4, <2>4
  <2>6. \A x \in Companies \ {c} : SameOf(x)
    BY <1>2, <1>4, <2>4
  <2> HIDE DEF a, d, r, a2, d2
  <2>7. StageOf(a, d) = "open" /\ StageOf(a2, d2) \in {"open", "settled"}
    BY <1>2, <1>3, <2>2, <2>5 DEF StageOf, Explicit, Open
  <2>8. IsStored(a2, d2, r)
    BY <1>2, <1>3, <2>2, <2>5 DEF IsStored
  <2>9. CASE StageOf(a2, d2) = "open"
    BY <1>5, <2>6, <2>7, <2>8, <2>9
  <2>10. CASE StageOf(a2, d2) = "settled"
    BY <1>1, <1>2, <2>6, <2>7, <2>8, <2>10, SettleOne DEF a, d, r, a2, d2
  <2> QED
    BY <2>7, <2>9, <2>10
<1> QED
  BY <1>6, <1>7, <1>8, <1>9, <1>10

LEMMA MaterializeLifecycle ==
  ASSUME Known, NEW c, c = cur.inn, MaterializeUnit
  PROVE  LifecycleStep
<1> DEFINE a == Agg(c)
           d == Deep(c)
           r == result[c]
           a2 == Agg(c)'
           g == admissions[c] + 1
<1>1. pc = "unit" /\ pc \in RowPlaces /\ result' = result
  BY DEF MaterializeUnit, RowPlaces
<1>2. UnitsOK(a, d, r) /\ RowOK("unit", cur, a, d, r, Said(c)) /\ c \in Companies
  BY <1>1, RowFacts
<1>3. g \in Nat /\ IInv
  BY <1>2 DEF Known, IInv, TypeOK
<1>4. PICK same \in BOOLEAN : UpsertUnit("agg", c, g, same)
  BY DEF MaterializeUnit
<1>5. ~Explicit(a) /\ a = unit["agg"][c] /\ a2 = unit'["agg"][c]
  BY <1>2 DEF RowOK, Agg
<1>6. OnlyUnit("agg", c) /\ a2.st = "pending"
  <2> HIDE DEF g, a, a2
  <2> QED
    BY <1>2, <1>3, <1>4, <1>5, UpsertEffect DEF Surface
<1>7. /\ \A x \in Companies \ {c} : Agg(x)' = Agg(x) /\ Deep(x)' = Deep(x)
      /\ Deep(c)' = d
  BY <1>2, <1>6 DEF OnlyUnit, Agg, Deep, Surface
<1>8. \A x \in Companies \ {c} : SameOf(x)
  BY <1>1, <1>7 DEF SameOf
<1> HIDE DEF a, d, r, a2
<1>9. StageOf(a, d) = "waiting" /\ StageOf(a2, d) = "open"
  BY <1>5, <1>6 DEF StageOf, Explicit, Open
<1>10. IsStored(a2, d, r) <=> IsStored(a, d, r)
  BY <1>2, <1>5, <1>6 DEF IsStored, UnitsOK, Explicit
<1> QED
  BY <1>1, <1>2, <1>7, <1>8, <1>9, <1>10, AdmitOne DEF a, d, r, a2

LEMMA StoreLifecycle ==
  ASSUME Known, NEW c, c = cur.inn, StoreResult
  PROVE  LifecycleStep
<1> DEFINE u == IF cur.surface = "deep" THEN Deep(c) ELSE Agg(c)
<1>1. pc = "result" /\ pc \in RowPlaces
  BY DEF StoreResult, RowPlaces, DrainPlaces, SurfacePlaces
<1>2. /\ RowOK("result", cur, Agg(c), Deep(c), result[c], Said(c)) /\ c \in Companies
      /\ cur.keep \in Nat /\ IInv /\ result \in [Companies -> Nat]
      /\ Agg(c).gen # 0
  BY <1>1, RowFacts DEF RowType, Known, IInv, TypeOK, DrainPlaces, SurfacePlaces
<1>3. u.st = "acked" /\ (result[c] # 0 \/ u.ckpt # 0) /\ (cur.keep = 0 => result[c] # 0)
  BY <1>2 DEF RowOK, SurfacePlaces
<1>4. IsStored(Agg(c), Deep(c), result[c])
  BY <1>3 DEF IsStored
<1>5. CASE cur.keep = 0
  BY <1>5, SameLifecycle DEF StoreResult
<1>6. CASE cur.keep # 0
  <2> DEFINE results == [result EXCEPT ![c] = cur.keep]
  <2>1. result' = results /\ unit' = WithoutDuplicates(unit, results)
    BY <1>6 DEF StoreResult, Inn
  <2>2. (\A x \in Companies \ {c} : results[x] = result[x]) /\ results[c] # 0
    BY <1>2, <1>6
  <2> HIDE DEF results
  <2>3. \A x \in Companies :
          /\ Agg(x)'.st = Agg(x).st /\ Deep(x)'.st = Deep(x).st
          /\ Agg(x)'.ckpt = IF results[x] # 0 THEN 0 ELSE Agg(x).ckpt
          /\ Deep(x)'.ckpt = IF results[x] # 0 THEN 0 ELSE Deep(x).ckpt
    BY <1>2, <2>1, ClearEffect DEF Agg, Deep, Surface
  <2> SUFFICES ASSUME NEW x \in Companies
               PROVE  /\ StageOf(Agg(x)', Deep(x)') = StageOf(Agg(x), Deep(x))
                      /\ IsStored(Agg(x), Deep(x), result[x]) =>
                           IsStored(Agg(x)', Deep(x)', result'[x])
                      /\ IsStored(Agg(x)', Deep(x)', result'[x]) =>
                           \/ IsStored(Agg(x), Deep(x), result[x])
                           \/ StageOf(Agg(x), Deep(x)) = "open"
    BY StoreOnly
  <2>4. StageOf(Agg(x)', Deep(x)') = StageOf(Agg(x), Deep(x))
    BY <2>3 DEF StageOf, Explicit, Open
  <2>5. CASE x = c
    BY <1>4, <2>1, <2>2, <2>4, <2>5 DEF IsStored
  <2>6. CASE x # c
    BY <2>1, <2>2, <2>3, <2>4, <2>6 DEF IsStored
  <2> QED
    BY <2>5, <2>6
<1> QED
  BY <1>5, <1>6

LEMMA ResetLifecycle == ResetState => LifecycleStep
<1> SUFFICES ASSUME ResetState PROVE LifecycleStep
  OBVIOUS
<1>1. \A c \in Companies : Agg(c)' = NoUnit /\ Deep(c)' = NoUnit /\ result'[c] = 0
  BY DEF ResetState, Agg, Deep, Surface
<1>2. \A c \in Companies : /\ StageOf(Agg(c)', Deep(c)') = "waiting"
                           /\ ~IsStored(Agg(c)', Deep(c)', result'[c])
  BY <1>1 DEF StageOf, IsStored, NoUnit, Explicit
<1>3. Stage' = [c \in Companies |-> "waiting"] /\ Stored' = {}
  BY <1>2, LifecycleNext
<1> QED
  BY <1>3 DEF LifecycleStep, Lifecycle!Next, Lifecycle!Restart

LEMMA KilledLifecycle == Known /\ [KilledNext]_vars => LifecycleStep
<1> SUFFICES ASSUME Known, [KilledNext]_vars PROVE LifecycleStep
  OBVIOUS
<1>1. CASE StartResume \/ StartFresh
  BY <1>1, LoadLifecycle DEF StartResume, StartFresh
<1>2. CASE ResetState
  BY <1>2, ResetLifecycle
<1>3. CASE MaterializeUnit
  BY <1>3, MaterializeLifecycle
<1>4. CASE HandOver \/ CheckpointPrefetched \/ AckHandedOver \/ Checkpoint \/ AckUnit
  BY <1>4, UnitLifecycle
<1>5. CASE StoreResult
  BY <1>5, StoreLifecycle
<1>6. CASE LookUp
  <2>1. UNCHANGED <<unit, result>>
    BY <1>6, SyncedIsUnit DEF LookUp, Known
  <2> QED
    BY <2>1, SameLifecycle
<1>7. CASE SyncPickups
  <2>1. UNCHANGED <<unit, result>>
    BY <1>7, PickupEffect DEF SyncPickups, Known
  <2> QED
    BY <2>1, SameLifecycle
<1>8. CASE \/ ResetLogs \/ RunStarted \/ ReadOutbox \/ SkipRow \/ VisitRow \/ DeferRow
           \/ DrainPending \/ Finish \/ Crash \/ Interrupt
  BY <1>8, SameLifecycle DEF ResetLogs, RunStarted, ReadOutbox, SkipRow, VisitRow, DeferRow,
     DrainPending, Finish, Crash, Interrupt, LedgerUnchanged, files
<1>9. CASE CollectSources \/ ChooseCandidates \/ Gate \/ EmitDone \/ EmitCompleted
  BY <1>9, SameLifecycle DEF CollectSources, ChooseCandidates, Gate, EmitDone, EmitCompleted,
     EmitThen, LedgerUnchanged, Decide
<1>10. CASE RestoreStored \/ RestoreCheckpoint \/ HaveResult
  BY <1>10, SameLifecycle DEF RestoreStored, RestoreCheckpoint, HaveResult, Decide
<1>11. CASE UNCHANGED vars
  BY <1>11, SameLifecycle DEF vars
<1> QED
  BY <1>1, <1>2, <1>3, <1>4, <1>5, <1>6, <1>7, <1>8, <1>9, <1>10, <1>11 DEF KilledNext, Proceed

\* Through every crash and resume the ledger behaves as CompanyLifecycle promises:
\* no company is settled without a stored result, reopened or forgotten:
\* ImplementsLifecycle.
THEOREM LifecycleIsImplemented == ~CrashInReset => (KilledSpec => ImplementsLifecycle)
<1> SUFFICES ASSUME ~CrashInReset PROVE KilledSpec => ImplementsLifecycle
  OBVIOUS
<1>1. Init => Lifecycle!Init
  <2> SUFFICES ASSUME Init PROVE Lifecycle!Init
    OBVIOUS
  <2>1. \A c \in Companies : Agg(c) = NoUnit /\ Deep(c) = NoUnit /\ result[c] = 0
    BY DEF Init, Agg, Deep, Surface
  <2>2. \A c \in Companies : /\ StageOf(Agg(c), Deep(c)) = "waiting"
                             /\ ~IsStored(Agg(c), Deep(c), result[c])
    BY <2>1 DEF StageOf, IsStored, NoUnit, Explicit
  <2> QED
    BY <2>2, LifecycleOf DEF Lifecycle!Init
<1>2. Known /\ [KilledNext]_vars => [Lifecycle!Next]_(Lifecycle!vars)
  BY KilledLifecycle DEF LifecycleStep
<1> QED
  BY <1>1, <1>2, KilledInvariance, PTL DEF KilledSpec, ImplementsLifecycle, Lifecycle!Spec

----------------------------------------------------------------------------
(* The dossier of a company *)

\* What is downloaded for a dossier, and what its revision holds of it.
Downloaded(m) == Store!Assemble(m.items)
Placed(m) == Store!WithFiles(Downloaded(m))

LEMMA OldestExists ==
  ASSUME NEW S, S \subseteq Nat, S # {}
  PROVE  \E i \in S : \A j \in S : i <= j
<1>1. PICK x \in S : \A y \in S : <<y, x>> \notin OpToRel(<, Nat)
  BY NatLessThanWellFounded, WFMin
<1>2. \A y \in S : x <= y
  <2> SUFFICES ASSUME NEW y \in S PROVE x <= y
    OBVIOUS
  <2>1. ~(y < x) /\ x \in Nat /\ y \in Nat
    BY <1>1 DEF OpToRel
  <2> QED
    BY <2>1
<1> QED
  BY <1>2

LEMMA DownloadedItems ==
  ASSUME NEW m \in Materials
  PROVE  /\ DOMAIN Downloaded(m) \subseteq 1..Len(m.items) /\ Len(m.items) \in Nat
         /\ \A i \in DOMAIN Downloaded(m) :
              /\ Downloaded(m)[i] =
                   [type |-> Downloaded(m)[i].type, url |-> Downloaded(m)[i].url,
                    name |-> Downloaded(m)[i].name, sum |-> Downloaded(m)[i].sum,
                    fp |-> Downloaded(m)[i].fp, local |-> Downloaded(m)[i].local, file |-> None]
              /\ Downloaded(m)[i].local => Downloaded(m)[i].sum # None
BY DossierAssumption, SMTT(30) DEF Downloaded, Store!Assemble, Store!Restrict, IsItem, Store!Item

\* The items with a copy, and their names in the revision.
LEMMA KeptItems ==
  ASSUME NEW m \in Materials
  PROVE  /\ DOMAIN Placed(m) = DOMAIN Downloaded(m)
         /\ \A i \in DOMAIN Placed(m) :
              LET item == Downloaded(m)[i]
                  kept == Placed(m)[i]
              IN  /\ kept.type = item.type /\ kept.url = item.url /\ kept.name = item.name
                  /\ kept.sum = item.sum /\ kept.fp = item.fp /\ kept.local = item.local
                  /\ kept.file = Store!CopyOf(Downloaded(m), i)
                  /\ item.file = None
<1>1. DOMAIN Placed(m) = DOMAIN Downloaded(m)
  BY DEF Placed, Store!WithFiles
<1>2. \A i \in DOMAIN Downloaded(m) :
         Placed(m)[i] = [Downloaded(m)[i] EXCEPT !.file = Store!CopyOf(Downloaded(m), i)]
  BY DEF Placed, Store!WithFiles
<1> QED
  BY <1>1, <1>2, DownloadedItems

LEMMA PairsDiffer ==
  ASSUME NEW a, NEW b, NEW c, NEW d, <<a, b>> = <<c, d>>
  PROVE  a = c /\ b = d
OBVIOUS

\* Two items share a file of the revision only when they have the same content.
LEMMA SameFileSameSum ==
  ASSUME NEW m \in Materials, NEW i \in DOMAIN Downloaded(m), NEW k \in DOMAIN Downloaded(m),
         Store!CopyOf(Downloaded(m), i) = Store!CopyOf(Downloaded(m), k),
         Store!CopyOf(Downloaded(m), i) # None
  PROVE  Downloaded(m)[i].sum = Downloaded(m)[k].sum
<1> DEFINE items == Downloaded(m)
           copied == {j \in DOMAIN items : items[j].type = "document" /\ items[j].local}
           Named(n) == {j \in copied : items[j].name = items[n].name}
           Same(n) == {j \in Named(n) : items[j].sum = items[n].sum}
           Taken(n) == \E other \in Named(n) : \A j \in Same(n) : other < j
<1>1. \A n \in DOMAIN items :
        Store!CopyOf(items, n) = IF n \notin copied THEN None
                                 ELSE IF Taken(n) THEN <<items[n].name, items[n].sum>>
                                 ELSE <<items[n].name, None>>
  BY DEF Store!CopyOf
<1>0. Store!CopyOf(items, i) = Store!CopyOf(items, k) /\ Store!CopyOf(items, i) # None
  OBVIOUS
<1>2. i \in copied /\ k \in copied
  BY <1>0, <1>1
<1>3. items[i].sum # None /\ items[k].sum # None /\ DOMAIN items \subseteq Nat
  BY <1>2, DownloadedItems
<1> SUFFICES items[i].sum = items[k].sum
  OBVIOUS
<1> HIDE DEF items
<1>9. \A n \in copied : Store!CopyOf(items, n) \in {<<items[n].name, items[n].sum>>, <<items[n].name, None>>}
                       /\ (Taken(n) => Store!CopyOf(items, n) = <<items[n].name, items[n].sum>>)
  BY <1>1
<1>4. items[i].name = items[k].name
  <2> HIDE DEF Taken, copied
  <2> QED
    BY <1>0, <1>9, <1>2, PairsDiffer
<1>5. CASE Taken(i)
  <2> HIDE DEF Taken, copied
  <2> QED
    BY <1>0, <1>9, <1>2, <1>3, <1>5, PairsDiffer
<1>6. CASE Taken(k)
  <2> HIDE DEF Taken, copied
  <2> QED
    BY <1>0, <1>9, <1>2, <1>3, <1>6, PairsDiffer
<1>7. CASE ~Taken(i) /\ ~Taken(k)
  <2>1. Same(i) \subseteq Nat /\ i \in Same(i) /\ Same(k) \subseteq Nat /\ k \in Same(k)
    BY <1>2, <1>3
  <2>2. PICK a \in Same(i) : \A j \in Same(i) : a <= j
    <3> HIDE DEF Same
    <3> QED
      BY <2>1, OldestExists
  <2>3. PICK b \in Same(k) : \A j \in Same(k) : b <= j
    <3> HIDE DEF Same
    <3> QED
      BY <2>1, OldestExists
  <2>4. a \in Named(k) /\ b \in Named(i) /\ a \in Nat /\ b \in Nat
    BY <1>4, <2>1, <2>2, <2>3
  <2>5. ~(a < b)
    <3>1. PICK j \in Same(k) : ~(a < j)
      BY <1>7, <2>4
    <3>2. b <= j /\ j \in Nat
      BY <2>1, <2>3, <3>1
    <3> QED
      BY <2>4, <3>1, <3>2
  <2>6. ~(b < a)
    <3>1. PICK j \in Same(i) : ~(b < j)
      BY <1>7, <2>4
    <3>2. a <= j /\ j \in Nat
      BY <2>1, <2>2, <3>1
    <3> QED
      BY <2>4, <3>1, <3>2
  <2>7. a = b
    BY <2>4, <2>5, <2>6
  <2> QED
    BY <2>2, <2>3, <2>7
<1> QED
  BY <1>5, <1>6, <1>7

\* A revision when it is begun, and when its attachments were copied and some of
\* its files written.
Records(m) == Store!BuildRecords(m.lead, Downloaded(m))
BegunRevision(m, g) ==
  [gen |-> g, items |-> Downloaded(m), attached |-> <<>>, archive |-> {},
   records |-> Records(m), files |-> {}]
CopiedRevision(m, g, done) ==
  [gen |-> g, items |-> Placed(m), attached |-> Store!Copies(Downloaded(m)),
   archive |-> Store!ArchiveOf(Placed(m)), records |-> Store!Rebind(Records(m), Placed(m)),
   files |-> done]

\* The files of a revision are bound to its items and are all there, and each
\* copy has the content of every item it stands for.
LEMMA WrittenIsBound ==
  ASSUME NEW m \in Materials, NEW g, NEW done
  PROVE  LET rev == CopiedRevision(m, g, done) IN
           /\ Store!BindingsHold(rev) /\ Store!FilesThere(rev)
           /\ \A i \in DOMAIN rev.items : rev.items[i].file # None =>
                rev.attached[rev.items[i].file] = rev.items[i].sum
<1> DEFINE items == Placed(m)
           old == Downloaded(m)
           archive == Store!ArchiveOf(items)
           Copy(i) == Store!CopyOf(old, i)
<1>1. /\ DOMAIN items = DOMAIN old
      /\ \A i \in DOMAIN old : items[i].file = Copy(i) /\ items[i].sum = old[i].sum
  BY KeptItems
<1>2. /\ \A e \in archive : \A i \in e.items : items[i].file = e.file
      /\ \A i \in DOMAIN items : items[i].file # None =>
           \E e \in archive : i \in e.items /\ e.file = items[i].file
      /\ \A e \in archive : e.file # None /\ \E i \in DOMAIN items : e.file = items[i].file
  <2> HIDE DEF items
  <2> DEFINE named == {items[i].file : i \in DOMAIN items} \ {None}
             Entry(f) == [file |-> f, items |-> {i \in DOMAIN items : items[i].file = f}]
  <2>1. archive = {Entry(f) : f \in named}
    BY DEF Store!ArchiveOf
  <2>2. \A f : Entry(f).file = f /\ Entry(f).items = {i \in DOMAIN items : items[i].file = f}
    OBVIOUS
  <2> HIDE DEF archive, Entry
  <2> QED
    BY <2>1, <2>2
<1> DEFINE copies == {Copy(i) : i \in DOMAIN old} \ {None}
           Last(f, i) == Copy(i) = f /\ \A j \in DOMAIN old : Copy(j) = f => j <= i
<1>3. Store!Copies(old) = [f \in copies |-> old[CHOOSE i \in DOMAIN old : Last(f, i)].sum]
  BY DEF Store!Copies
<1>4. ASSUME NEW i \in DOMAIN old, Copy(i) # None
      PROVE  Copy(i) \in copies /\ Store!Copies(old)[Copy(i)] = old[i].sum
  <2> DEFINE S == {j \in DOMAIN old : Copy(j) = Copy(i)}
  <2>1. S \subseteq (0 + 1)..Len(m.items) /\ S # {} /\ Len(m.items) \in Nat
    BY DownloadedItems
  <2>2. PICK n \in S : \A j \in S : j <= n
    <3> HIDE DEF S
    <3> QED
      BY <2>1, NewestExists
  <2>3. \E k \in DOMAIN old : Last(Copy(i), k)
    BY <2>2
  <2> DEFINE k == CHOOSE k \in DOMAIN old : Last(Copy(i), k)
  <2>4. k \in DOMAIN old /\ Copy(k) = Copy(i)
    BY <2>3
  <2>5. old[k].sum = old[i].sum
    <3> HIDE DEF k
    <3> QED
      BY <1>4, <2>4, SameFileSameSum
  <2> QED
    BY <1>3, <1>4, <2>5
<1> HIDE DEF archive, Copy
<1> DEFINE rev == CopiedRevision(m, g, done)
<1>5. rev.items = items /\ rev.archive = archive /\ rev.attached = Store!Copies(old)
  BY DEF CopiedRevision, archive
<1>6. DOMAIN rev.attached = copies
  BY <1>3, <1>5
<1>7. Store!BindingsHold(rev)
  <2> HIDE DEF items, rev
  <2> QED
    BY <1>2, <1>5 DEF Store!BindingsHold
<1>8. Store!FilesThere(rev)
  <2>1. \A e \in rev.archive : e.file \in DOMAIN rev.attached
    <3> SUFFICES ASSUME NEW e \in archive PROVE e.file \in copies
      BY <1>5, <1>6
    <3>1. PICK i \in DOMAIN old : e.file = Copy(i) /\ Copy(i) # None
      BY <1>1, <1>2
    <3> QED
      BY <3>1
  <2>2. \A i \in DOMAIN rev.items : rev.items[i].file # None =>
          \E e \in rev.archive : e.file = rev.items[i].file
    <3> HIDE DEF items, rev
    <3> QED
      BY <1>2, <1>5
  <2> HIDE DEF rev
  <2> QED
    BY <2>1, <2>2 DEF Store!FilesThere
<1>9. \A i \in DOMAIN rev.items : rev.items[i].file # None =>
        rev.attached[rev.items[i].file] = rev.items[i].sum
  <2> HIDE DEF items, old, rev, copies
  <2> QED
    BY <1>1, <1>4, <1>5
<1> QED
  BY <1>7, <1>8, <1>9

\* A tier decides when it has one match and those before it have none.
LEMMA UniqueMatch ==
  ASSUME NEW a, NEW b, NEW c, NEW d, NEW x
  PROVE  x \in Store!UniqueTier(<<a, b, c, d>>) <=>
           \/ a = {x}
           \/ a = {} /\ b = {x}
           \/ a = {} /\ b = {} /\ c = {x}
           \/ a = {} /\ b = {} /\ c = {} /\ d = {x}
<1> DEFINE t == <<a, b, c, d>>
<1>1. DOMAIN t = 1..4 /\ t[1] = a /\ t[2] = b /\ t[3] = c /\ t[4] = d
  OBVIOUS
<1>2. Store!Range(t) = {a, b, c, d}
  <2>1. 1 \in DOMAIN t /\ 2 \in DOMAIN t /\ 3 \in DOMAIN t /\ 4 \in DOMAIN t
    BY <1>1
  <2>2. \A n \in DOMAIN t : n \in {1, 2, 3, 4}
    BY <1>1
  <2> HIDE DEF t
  <2>3. Store!Range(t) = {t[n] : n \in DOMAIN t}
    BY DEF Store!Range
  <2> QED
    BY <1>1, <2>1, <2>2, <2>3
<1>3. x \in Store!UniqueTier(t) <=>
        x \in UNION {a, b, c, d} /\ \E n \in 1..4 : t[n] = {x} /\ \A k \in 1..(n - 1) : t[k] = {}
  <2> HIDE DEF t
  <2> QED
    BY <1>1, <1>2 DEF Store!UniqueTier
<1> HIDE DEF t
<1>4. (\E n \in 1..4 : t[n] = {x} /\ \A k \in 1..(n - 1) : t[k] = {}) <=>
           \/ a = {x}
           \/ a = {} /\ b = {x}
           \/ a = {} /\ b = {} /\ c = {x}
           \/ a = {} /\ b = {} /\ c = {} /\ d = {x}
  <2>1. \A n \in 1..4 : n = 1 \/ n = 2 \/ n = 3 \/ n = 4
    OBVIOUS
  <2>2. 1..(1 - 1) = {} /\ 1..(2 - 1) = {1} /\ 1..(3 - 1) = {1, 2} /\ 1..(4 - 1) = {1, 2, 3}
    OBVIOUS
  <2> QED
    BY <1>1, <2>1, <2>2
<1> QED
  BY <1>3, <1>4 DEF t

\* What a reference is looked for in a pool of items.
Tiers(x, pool) ==
  LET weak == x.locator \in {x.sum, x.url, x.file} IN
  [file |-> {Store!Ref(j) : j \in {i \in pool : x.file # None /\ i.file = x.file}},
   locator |-> {Store!Ref(j) : j \in {i \in pool : ~weak /\ x.locator \in Store!Locators(i)}},
   sum |-> {Store!Ref(j) : j \in {i \in pool : x.sum # None /\ i.sum = x.sum}},
   url |-> {Store!Ref(j) : j \in {i \in pool : x.url # None /\ i.url = x.url}}]

LEMMA MatchOf ==
  ASSUME NEW x, NEW pool, NEW y
  PROVE  y \in Store!Matches(x, pool) <=>
           LET t == Tiers(x, pool) IN
             \/ t.file = {y}
             \/ t.file = {} /\ t.locator = {y}
             \/ t.file = {} /\ t.locator = {} /\ t.sum = {y}
             \/ t.file = {} /\ t.locator = {} /\ t.sum = {} /\ t.url = {y}
<1> DEFINE t == Tiers(x, pool)
<1>1. Store!Matches(x, pool) = Store!UniqueTier(<<t.file, t.locator, t.sum, t.url>>)
  BY DEF Store!Matches, Tiers
<1> HIDE DEF t
<1> QED
  BY <1>1, UniqueMatch DEF t

\* A reference found once is found again: what a reference of a downloaded item
\* is bound to among the items kept, it is itself bound to.
LEMMA FoundAgain ==
  ASSUME NEW m \in Materials, NEW i \in DOMAIN Downloaded(m),
         NEW pool, pool \subseteq {Placed(m)[k] : k \in DOMAIN Placed(m)}, Placed(m)[i] \in pool,
         NEW y \in Store!Matches(Store!Ref(Downloaded(m)[i]), pool)
  PROVE  Store!Matches(y, pool) = {y}
<1> DEFINE old == Downloaded(m)[i]
           own == Placed(m)[i]
           x == Store!Ref(old)
           t == Tiers(x, pool)
<1>1. /\ old.file = None /\ own.sum = old.sum /\ own.url = old.url /\ own.fp = old.fp
      /\ own.type = old.type /\ own.file = Store!CopyOf(Downloaded(m), i)
  BY KeptItems
<1>2. old.sum = None => own.file = None
  BY <1>1, DownloadedItems DEF Store!CopyOf
<1>3. /\ x.sum = old.sum /\ x.file = None /\ x.url = old.url /\ x.type = old.type
      /\ x.locator = IF old.sum # None THEN old.sum ELSE IF old.fp # None THEN old.fp ELSE old.url
  BY <1>1 DEF Store!Ref, Store!Locator
<1>4. t.file = {}
  <2> HIDE DEF x
  <2> QED
    BY <1>3 DEF Tiers
<1>5. \/ t.locator = {y}
      \/ t.locator = {} /\ t.sum = {y}
      \/ t.locator = {} /\ t.sum = {} /\ t.url = {y}
  <2> HIDE DEF t
  <2>1. y \in Store!Matches(x, pool)
    OBVIOUS
  <2> HIDE DEF x
  <2> QED
    BY <1>4, <2>1, MatchOf DEF t
<1>6. CASE old.sum # None
  <2>1. t.locator = {} /\ Store!Ref(own) \in t.sum
    <3> HIDE DEF x
    <3> QED
      BY <1>1, <1>3, <1>6 DEF Tiers
  <2>2. t.sum = {y} /\ y = Store!Ref(own)
    <3> HIDE DEF t
    <3> QED
      BY <1>5, <2>1
  <2>3. /\ y.sum = old.sum /\ y.file = own.file /\ y.url = old.url /\ y.locator = old.sum
    BY <1>1, <1>6, <2>2 DEF Store!Ref, Store!Locator
  <2> DEFINE u == Tiers(y, pool)
  <2>4. u.sum = t.sum /\ u.locator = {}
    <3> HIDE DEF x
    <3> QED
      BY <1>3, <1>6, <2>3 DEF Tiers
  <2>5. u.file \subseteq t.sum
    <3>1. SUFFICES ASSUME NEW j \in pool, own.file # None, j.file = own.file
                   PROVE  j.sum = old.sum
      <4> HIDE DEF x, own
      <4> QED
        BY <1>3, <1>6, <2>3 DEF Tiers
    <3>2. PICK k \in DOMAIN Downloaded(m) : j = Placed(m)[k]
      BY KeptItems
    <3>3. Store!CopyOf(Downloaded(m), k) = Store!CopyOf(Downloaded(m), i)
      BY <1>1, <3>1, <3>2, KeptItems
    <3>4. Downloaded(m)[k].sum = old.sum
      BY <1>1, <3>1, <3>3, SameFileSameSum
    <3> QED
      BY <3>2, <3>4, KeptItems
  <2>6. own.file # None => y \in u.file
    <3>1. own \in pool
      OBVIOUS
    <3> HIDE DEF own
    <3> QED
      BY <2>2, <2>3, <3>1 DEF Tiers
  <2>7. own.file = None => u.file = {}
    <3> HIDE DEF own
    <3> QED
      BY <2>3 DEF Tiers
  <2>8. u.file = {y} \/ (u.file = {} /\ u.locator = {} /\ u.sum = {y})
    <3> HIDE DEF u, t
    <3> QED
      BY <2>2, <2>4, <2>5, <2>6, <2>7
  <2>9. \A z : z \in Store!Matches(y, pool) <=> z = y
    <3> HIDE DEF u, t
    <3> QED
      BY <2>8, MatchOf DEF u
  <2> QED
    BY <2>9
<1>7. CASE old.sum = None
  <2>1. Store!Ref(own) = x
    BY <1>1, <1>2, <1>7 DEF Store!Ref, Store!Locator
  <2>2. x \in t.locator \/ (t.locator = {} /\ t.sum = {} /\ (old.url # None => x \in t.url))
    <3>1. Store!Locator(own) = x.locator
      BY <1>1, <1>2, <1>3, <1>7 DEF Store!Locator
    <3>2. t.sum = {}
      <4> HIDE DEF x
      <4> QED
        BY <1>3, <1>7 DEF Tiers
    <3>3. CASE x.locator \in {x.sum, x.url, x.file}
      <4>1. t.locator = {}
        <5> HIDE DEF x
        <5> QED
          BY <3>3 DEF Tiers
      <4>2. old.url # None => x \in t.url
        <5> HIDE DEF x
        <5> QED
          BY <1>1, <1>3, <2>1 DEF Tiers
      <4> QED
        BY <3>2, <4>1, <4>2
    <3>4. CASE x.locator \notin {x.sum, x.url, x.file}
      <4>1. x.locator # None /\ x.locator \in Store!Locators(own)
        BY <1>3, <1>7, <3>1, <3>4 DEF Store!Locators
      <4>2. x \in t.locator
        <5> HIDE DEF x
        <5> QED
          BY <2>1, <3>4, <4>1 DEF Tiers
      <4> QED
        BY <4>2
    <3> QED
      BY <3>3, <3>4
  <2>3. old.url = None => t.url = {}
    <3> HIDE DEF x
    <3> QED
      BY <1>3 DEF Tiers
  <2>4. y = x
    <3> HIDE DEF t, x
    <3> QED
      BY <1>5, <2>2, <2>3
  <2>5. \A z : z \in Store!Matches(x, pool) <=> z = y
    <3> HIDE DEF t, x
    <3> QED
      BY <1>4, <1>5, MatchOf DEF t
  <2> QED
    BY <2>4, <2>5
<1> QED
  BY <1>6, <1>7

\* The references of the records of a dossier are those of its items.
LEMMA RecordsRefer ==
  ASSUME NEW m \in Materials, NEW r \in Records(m)
  PROVE  /\ r = [evidence |-> r.evidence, documents |-> r.documents]
         /\ \A x \in r.evidence : \E i \in DOMAIN Downloaded(m) : x = Store!Ref(Downloaded(m)[i])
         /\ \A x \in r.documents : \E i \in DOMAIN Downloaded(m) :
              x = Store!Ref(Downloaded(m)[i]) /\ Downloaded(m)[i].type = "document"
<1> DEFINE items == Downloaded(m)
           all == Store!ToSet(items)
           Good(q) == /\ q = [evidence |-> q.evidence, documents |-> q.documents]
                      /\ \A x \in q.evidence : \E i \in DOMAIN items : x = Store!Ref(items[i])
                      /\ \A x \in q.documents : \E i \in DOMAIN items :
                           x = Store!Ref(items[i]) /\ items[i].type = "document"
<1>1. all = {items[i] : i \in DOMAIN items}
  BY DEF Store!ToSet
<1>2. \A cited \in SUBSET all : Good(Store!RecordOf(cited))
  <2> SUFFICES ASSUME NEW cited \in SUBSET all PROVE Good(Store!RecordOf(cited))
    OBVIOUS
  <2> DEFINE q == Store!RecordOf(cited)
  <2>1. q = [evidence |-> {Store!Ref(i) : i \in cited},
             documents |-> {Store!Ref(i) : i \in {j \in cited : j.type = "document"}}]
    BY DEF Store!RecordOf
  <2>2. /\ q = [evidence |-> q.evidence, documents |-> q.documents]
        /\ q.evidence = {Store!Ref(i) : i \in cited}
        /\ q.documents = {Store!Ref(i) : i \in {j \in cited : j.type = "document"}}
    BY <2>1
  <2> HIDE DEF items, q
  <2>3. Good(q)
    BY <1>1, <2>2
  <2> QED
    BY <2>3 DEF q
<1> HIDE DEF Good
<1>3. \A urls, prints : Good(Store!Citing(urls, prints, items))
  BY <1>2 DEF Store!Citing
<1> HIDE DEF items
<1>4. \A q \in Store!Referring(Store!FromCards(m.lead, items) \cup Store!FromEvidence(m.lead, items)) : Good(q)
  BY <1>3 DEF Store!Referring, Store!FromCards, Store!FromEvidence
<1>5. \A q \in Store!Referring(Store!FromSummary(m.lead, items)) : Good(q)
  BY <1>3 DEF Store!Referring, Store!FromSummary
<1>6. Good(r)
  BY <1>4, <1>5 DEF Records, Store!BuildRecords, items
<1> QED
  BY <1>6 DEF Good, items

\* Binding the records of a dossier to its items again changes nothing.
LEMMA ReboundAgain ==
  ASSUME NEW m \in Materials
  PROVE  Store!Rebind(Store!Rebind(Records(m), Placed(m)), Placed(m)) = Store!Rebind(Records(m), Placed(m))
<1> DEFINE items == Placed(m)
           pool == Store!ToSet(items)
           documents == {i \in pool : i.type = "document"}
           Bound(r) == [evidence |-> UNION {Store!Matches(x, pool) : x \in r.evidence},
                        documents |-> UNION {Store!Matches(x, documents) : x \in r.documents}]
<1>1. \A R : Store!Rebind(R, items) = Store!Referring({Bound(r) : r \in R})
  <2> HIDE DEF items
  <2> QED
    BY DEF Store!Rebind
<1>2. pool = {items[k] : k \in DOMAIN items}
  BY DEF Store!ToSet
<1>3. ASSUME NEW r \in Records(m) PROVE Bound(Bound(r)) = Bound(r)
  <2> DEFINE b == Bound(r)
  <2>1. \A y \in b.evidence : Store!Matches(y, pool) = {y}
    <3> SUFFICES ASSUME NEW y \in b.evidence PROVE Store!Matches(y, pool) = {y}
      OBVIOUS
    <3>1. PICK x \in r.evidence : y \in Store!Matches(x, pool)
      OBVIOUS
    <3>2. PICK i \in DOMAIN Downloaded(m) : x = Store!Ref(Downloaded(m)[i])
      BY RecordsRefer
    <3>3. items[i] \in pool
      BY <1>2, KeptItems
    <3>4. pool \subseteq {Placed(m)[k] : k \in DOMAIN Placed(m)} /\ Placed(m)[i] \in pool
      BY <1>2, <3>3
    <3>5. y \in Store!Matches(Store!Ref(Downloaded(m)[i]), pool)
      BY <3>1, <3>2
    <3> HIDE DEF pool, b
    <3> QED
      BY <3>4, <3>5, FoundAgain
  <2>2. \A y \in b.documents : Store!Matches(y, documents) = {y}
    <3> SUFFICES ASSUME NEW y \in b.documents PROVE Store!Matches(y, documents) = {y}
      OBVIOUS
    <3>1. PICK x \in r.documents : y \in Store!Matches(x, documents)
      OBVIOUS
    <3>2. PICK i \in DOMAIN Downloaded(m) :
            x = Store!Ref(Downloaded(m)[i]) /\ Downloaded(m)[i].type = "document"
      BY RecordsRefer
    <3>3. items[i] \in documents
      BY <1>2, <3>2, KeptItems
    <3>4. documents \subseteq {Placed(m)[k] : k \in DOMAIN Placed(m)} /\ Placed(m)[i] \in documents
      BY <1>2, <3>3
    <3>5. y \in Store!Matches(Store!Ref(Downloaded(m)[i]), documents)
      BY <3>1, <3>2
    <3> HIDE DEF documents, b
    <3> QED
      BY <3>4, <3>5, FoundAgain
  <2>3. UNION {Store!Matches(y, pool) : y \in b.evidence} = b.evidence
    <3> HIDE DEF b, pool
    <3> QED
      BY <2>1
  <2>4. UNION {Store!Matches(y, documents) : y \in b.documents} = b.documents
    <3> HIDE DEF b, documents
    <3> QED
      BY <2>2
  <2>5. b = [evidence |-> b.evidence, documents |-> b.documents]
    OBVIOUS
  <2>6. Bound(b) = b
    <3> HIDE DEF b
    <3> QED
      BY <2>3, <2>4, <2>5
  <2> QED
    BY <2>6
<1> HIDE DEF Bound, items
<1>4. Store!Rebind(Store!Rebind(Records(m), items), items) = Store!Rebind(Records(m), items)
  <2> DEFINE X == Store!Rebind(Records(m), items)
  <2>1. X = Store!Referring({Bound(r) : r \in Records(m)})
    BY <1>1
  <2>2. \A q \in X : Bound(q) = q /\ (q.evidence # {} \/ q.documents # {})
    BY <1>3, <2>1 DEF Store!Referring
  <2>3. Store!Rebind(X, items) = Store!Referring({Bound(q) : q \in X})
    BY <1>1
  <2> HIDE DEF X
  <2>4. {Bound(q) : q \in X} = X
    BY <2>2
  <2>5. Store!Referring(X) = X
    BY <2>2 DEF Store!Referring
  <2> QED
    BY <2>3, <2>4, <2>5 DEF X
<1> QED
  BY <1>4 DEF items


FilesDone == {{}, {"snapshot"}, {"snapshot", "archive"}, {"snapshot", "archive", "revision"}}
AllFiles == {"snapshot", "archive", "revision"}

\* Every revision was begun from what was downloaded for it, and most were copied
\* and written on.
Revisions ==
  {BegunRevision(m, g) : m \in Materials, g \in Nat}
  \cup {CopiedRevision(m, g, done) : m \in Materials, g \in Nat, done \in FilesDone}

FileType(V) == [st : {"absent", "torn", "whole"}, value : V]
DirType == [revisions : Seq(Revisions), company : FileType(Names \cup {None}),
            latest : FileType(Nat \cup {None})]
WriteType == [at : {"idle", "attachments", "snapshot", "archive", "revision", "company",
                    "latest", "written"},
              dir : Names \cup {None}, name : Names \cup {None}]
DirsType == dirs \in [Names -> DirType] /\ writing \in WriteType

\* How much of the newest revision is there when its next file is written.
DoneAt == [snapshot |-> {}, archive |-> {"snapshot"}, revision |-> {"snapshot", "archive"},
           company |-> AllFiles, latest |-> AllFiles, written |-> AllFiles]

\* A dossier is written for the result the thread is about to store, and its
\* newest revision is as far as the writer is.
WriterInv ==
  writing.at # "idle" =>
    /\ Storing
    /\ writing.dir \in Names /\ writing.name \in Names
    /\ Len(dirs[writing.dir].revisions) # 0
    /\ \E m \in Materials :
         dirs[writing.dir].revisions[Store!Newest] =
           IF writing.at = "attachments" THEN BegunRevision(m, cur.keep)
           ELSE CopiedRevision(m, cur.keep, DoneAt[writing.at])
    /\ writing.at = "written" => /\ dirs[writing.dir].latest.st = "whole"
                                 /\ dirs[writing.dir].latest.value = Store!Newest

\* There is one directory, and it is where the writer is.
OneDirectory ==
  /\ \A a, b \in Store!KnownDirectories : a = b
  /\ writing.at # "idle" => \A a \in Store!KnownDirectories : a = writing.dir

\* The company manifest and the pointer to the latest come after a revision.
PointersHold ==
  \A n \in Names :
    /\ dirs[n].company.st = "whole" => Store!Visible(dirs[n]) # {}
    /\ dirs[n].latest.st = "whole" => dirs[n].latest.value \in Store!Visible(dirs[n])

\* A stored reference names a revision of its result, and none newer than the
\* latest.
RefInv ==
  ref # NoRef =>
    /\ result[Company] # 0
    /\ ref.dir \in Store!KnownDirectories
    /\ ref.revision \in Store!Visible(dirs[ref.dir])
    /\ dirs[ref.dir].revisions[ref.revision].gen = result[Company]
    /\ dirs[ref.dir].latest.st = "whole" => ref.revision <= dirs[ref.dir].latest.value

StoreInv == DirsType /\ WriterInv /\ OneDirectory /\ PointersHold /\ RefInv

\* What the two forms of a revision have.
LEMMA RevisionParts ==
  ASSUME NEW m \in Materials, NEW g \in Nat, NEW done \in FilesDone
  PROVE  /\ BegunRevision(m, g) \in Revisions /\ CopiedRevision(m, g, done) \in Revisions
         /\ BegunRevision(m, g).gen = g /\ CopiedRevision(m, g, done).gen = g
         /\ BegunRevision(m, g).files = {} /\ CopiedRevision(m, g, done).files = done
<1>1. BegunRevision(m, g) \in Revisions /\ CopiedRevision(m, g, done) \in Revisions
  BY DEF Revisions
<1> QED
  BY <1>1 DEF BegunRevision, CopiedRevision

LEMMA RevisionCases ==
  ASSUME NEW rev \in Revisions
  PROVE  \E m \in Materials, g \in Nat :
           \/ rev = BegunRevision(m, g)
           \/ \E done \in FilesDone : rev = CopiedRevision(m, g, done)
BY DEF Revisions

LEMMA DirFields ==
  ASSUME NEW d \in DirType
  PROVE  /\ d.revisions \in Seq(Revisions) /\ Len(d.revisions) \in Nat
         /\ DOMAIN d.revisions = 1..Len(d.revisions)
         /\ \A r \in DOMAIN d.revisions : d.revisions[r] \in Revisions
         /\ d.latest.st \in {"absent", "torn", "whole"} /\ d.latest.value \in Nat \cup {None}
         /\ d.company.st \in {"absent", "torn", "whole"}
         /\ d = [revisions |-> d.revisions, company |-> d.company, latest |-> d.latest]
<1>1. d.revisions \in Seq(Revisions)
  BY DEF DirType
<1> QED
  BY <1>1 DEF DirType, FileType

\* A revision that can be seen can be loaded, and is read as it was written.
LEMMA VisibleLoads ==
  ASSUME NEW d \in DirType, NEW r \in Store!Visible(d)
  PROVE  /\ r \in 1..Len(d.revisions)
         /\ \E m \in Materials, g \in Nat : d.revisions[r] = CopiedRevision(m, g, AllFiles)
         /\ Store!Loads(d, r)
<1>1. r \in DOMAIN d.revisions /\ "revision" \in d.revisions[r].files
  BY DEF Store!Visible
<1>2. PICK m \in Materials, g \in Nat :
        \/ d.revisions[r] = BegunRevision(m, g)
        \/ \E done \in FilesDone : d.revisions[r] = CopiedRevision(m, g, done)
  BY <1>1, DirFields, RevisionCases
<1>3. {} \in FilesDone
  BY DEF FilesDone
<1>4. d.revisions[r] # BegunRevision(m, g)
  BY <1>1, <1>3, RevisionParts
<1>5. PICK done \in FilesDone : d.revisions[r] = CopiedRevision(m, g, done)
  BY <1>2, <1>4
<1>6. done = AllFiles
  <2>1. "revision" \in done
    BY <1>1, <1>5, RevisionParts
  <2> QED
    BY <2>1 DEF FilesDone, AllFiles
<1>7. d.revisions[r] = CopiedRevision(m, g, AllFiles) /\ d.revisions[r].files = AllFiles
  BY <1>5, <1>6, RevisionParts
<1>8. Store!BindingsHold(d.revisions[r]) /\ Store!FilesThere(d.revisions[r])
  BY <1>7, WrittenIsBound
<1>9. Store!Loads(d, r)
  BY <1>7, <1>8 DEF Store!Loads, AllFiles
<1> QED
  BY <1>1, <1>7, <1>9, DirFields

\* The revision a reader finds is one that can be seen, and the newest one unless
\* the pointer says otherwise.
LEMMA LatestIsVisible ==
  ASSUME NEW d \in DirType, Store!Visible(d) # {},
         d.latest.st = "whole" => d.latest.value \in Store!Visible(d)
  PROVE  /\ Store!LatestOf(d) \in Store!Visible(d)
         /\ d.latest.st # "whole" => \A r \in Store!Visible(d) : r <= Store!LatestOf(d)
         /\ d.latest.st = "whole" => Store!LatestOf(d) = d.latest.value
<1>1. Store!Visible(d) \subseteq (0 + 1)..Len(d.revisions) /\ Len(d.revisions) \in Nat
  BY DirFields DEF Store!Visible
<1>2. \E r \in Store!Visible(d) : \A q \in Store!Visible(d) : q <= r
  BY <1>1, NewestExists
<1> DEFINE last == CHOOSE r \in Store!Visible(d) : \A q \in Store!Visible(d) : q <= r
<1>3. last \in Store!Visible(d) /\ \A q \in Store!Visible(d) : q <= last
  BY <1>2
<1>4. Store!LatestOf(d) = IF d.latest.st = "whole" THEN d.latest.value ELSE last
  BY DEF Store!LatestOf
<1> QED
  BY <1>3, <1>4

----------------------------------------------------------------------------

\* A directory that keeps the revisions that can be seen, with pointers that are
\* still good.
Follows(old, d) ==
  /\ Len(old.revisions) <= Len(d.revisions)
  /\ \A r \in Store!Visible(old) : r \in Store!Visible(d) /\ d.revisions[r] = old.revisions[r]
  /\ d.company.st = "whole" => Store!Visible(d) # {}
  /\ \/ d.latest = old.latest
     \/ d.latest.st # "whole"
     \/ d.latest.value \in Store!Visible(d) /\ d.latest.value = Len(d.revisions)

\* A step of the writer changes one directory, the only one that is known.
LEMMA DirectoryStep ==
  ASSUME StoreInv, NEW w \in Names, NEW d \in DirType,
         \A a \in Store!KnownDirectories : a = w,
         dirs' = [dirs EXCEPT ![w] = d], Follows(dirs[w], d),
         ref' = ref, ref # NoRef => result'[Company] = result[Company]
  PROVE  /\ dirs' \in [Names -> DirType] /\ dirs'[w] = d
         /\ \A a \in Store!KnownDirectories' : a = w
         /\ PointersHold' /\ RefInv'
<1>1. dirs \in [Names -> DirType]
  BY DEF StoreInv, DirsType
<1>2. dirs' \in [Names -> DirType] /\ dirs'[w] = d /\ \A n \in Names : n # w => dirs'[n] = dirs[n]
  BY <1>1
<1>3. Store!KnownDirectories \subseteq Store!KnownDirectories'
  <2> SUFFICES ASSUME NEW n \in Names, dirs[n].company.st = "whole" \/ Store!Visible(dirs[n]) # {}
               PROVE  dirs'[n].company.st = "whole" \/ Store!Visible(dirs'[n]) # {}
    BY DEF Store!KnownDirectories
  <2>1. Store!Visible(dirs[n]) # {}
    BY DEF StoreInv, PointersHold
  <2> QED
    BY <1>2, <2>1 DEF Follows
<1>4. \A a \in Store!KnownDirectories' : a = w
  BY <1>2 DEF Store!KnownDirectories
<1>5. PointersHold'
  <2> SUFFICES ASSUME NEW n \in Names
               PROVE  /\ dirs'[n].company.st = "whole" => Store!Visible(dirs'[n]) # {}
                      /\ dirs'[n].latest.st = "whole" => dirs'[n].latest.value \in Store!Visible(dirs'[n])
    BY DEF PointersHold
  <2>1. /\ dirs[n].company.st = "whole" => Store!Visible(dirs[n]) # {}
        /\ dirs[n].latest.st = "whole" => dirs[n].latest.value \in Store!Visible(dirs[n])
    BY DEF StoreInv, PointersHold
  <2> QED
    BY <1>2, <2>1 DEF Follows
<1>6. RefInv'
  <2> SUFFICES ASSUME ref # NoRef PROVE RefInv'
    BY DEF RefInv
  <2>1. /\ ref.dir = w /\ ref.revision \in Store!Visible(dirs[w])
        /\ dirs[w].revisions[ref.revision].gen = result[Company] /\ result[Company] # 0
        /\ dirs[w].latest.st = "whole" => ref.revision <= dirs[w].latest.value
        /\ ref.dir \in Store!KnownDirectories
    BY DEF StoreInv, RefInv
  <2>2. ref.revision \in Store!Visible(d) /\ d.revisions[ref.revision].gen = result[Company]
    BY <2>1 DEF Follows
  <2>3. d.latest.st = "whole" => ref.revision <= d.latest.value
    <3>1. ref.revision \in 1..Len(d.revisions)
      BY <2>2, VisibleLoads
    <3> QED
      BY <2>1, <3>1, DirFields DEF Follows
  <2> QED
    BY <1>2, <1>3, <2>1, <2>2, <2>3 DEF RefInv
<1> QED
  BY <1>2, <1>4, <1>5, <1>6

\* A revision added or written on.
LEMMA NewestStep ==
  ASSUME NEW old \in DirType, NEW d \in DirType, NEW rev \in Revisions,
         old.company.st = "whole" => Store!Visible(old) # {},
         d.company = old.company, d.latest = old.latest,
         \/ d.revisions = Append(old.revisions, rev)
         \/ /\ Len(old.revisions) # 0
            /\ d.revisions = [old.revisions EXCEPT ![Len(old.revisions)] = rev]
            /\ "revision" \notin old.revisions[Len(old.revisions)].files
  PROVE  Follows(old, d) /\ d.revisions[Len(d.revisions)] = rev /\ Len(d.revisions) # 0
<1>1. /\ old.revisions \in Seq(Revisions) /\ Len(old.revisions) \in Nat
      /\ DOMAIN old.revisions = 1..Len(old.revisions)
      /\ d.revisions \in Seq(Revisions) /\ Len(d.revisions) \in Nat
      /\ DOMAIN d.revisions = 1..Len(d.revisions)
  BY DirFields
<1>2. /\ Len(old.revisions) <= Len(d.revisions) /\ Len(d.revisions) # 0
      /\ d.revisions[Len(d.revisions)] = rev
      /\ \A r \in Store!Visible(old) : r \in DOMAIN d.revisions /\ d.revisions[r] = old.revisions[r]
  <2>1. CASE d.revisions = Append(old.revisions, rev)
    BY <1>1, <2>1 DEF Store!Visible
  <2>2. CASE /\ Len(old.revisions) # 0
             /\ d.revisions = [old.revisions EXCEPT ![Len(old.revisions)] = rev]
             /\ "revision" \notin old.revisions[Len(old.revisions)].files
    BY <1>1, <2>2 DEF Store!Visible
  <2> QED
    BY <2>1, <2>2
<1>3. \A r \in Store!Visible(old) : r \in Store!Visible(d) /\ d.revisions[r] = old.revisions[r]
  BY <1>2 DEF Store!Visible
<1> QED
  BY <1>2, <1>3 DEF Follows

LEMMA DirOfType ==
  ASSUME NEW d \in DirType, NEW rev \in Revisions
  PROVE  /\ [d EXCEPT !.revisions = Append(@, rev)] \in DirType
         /\ Len(d.revisions) # 0 =>
              [d EXCEPT !.revisions = [@ EXCEPT ![Len(d.revisions)] = rev]] \in DirType
<1>1. d.revisions \in Seq(Revisions) /\ Append(d.revisions, rev) \in Seq(Revisions)
  BY DirFields
<1>2. Len(d.revisions) # 0 => [d.revisions EXCEPT ![Len(d.revisions)] = rev] \in Seq(Revisions)
  BY <1>1
<1> QED
  BY <1>1, <1>2 DEF DirType

\* build_and_store_company_dossier begins a revision, in the known directory or
\* in a new one.
LEMMA BeginStep ==
  ASSUME IInv, StoreInv, BuildDossier
  PROVE  StoreInv'
<1>1. PICK m \in Materials : Store!Begin(m.name, m.items, m.lead, cur.keep)
  BY DEF BuildDossier
<1> DEFINE w == IF Store!KnownDirectories = {} THEN m.name
                ELSE CHOOSE n \in Store!KnownDirectories : TRUE
           rev == BegunRevision(m, cur.keep)
           d == [dirs[w] EXCEPT !.revisions = Append(@, rev)]
<1>2. /\ writing.at = "idle"
      /\ dirs' = [dirs EXCEPT ![w].revisions = Append(@, rev)]
      /\ writing' = [at |-> "attachments", dir |-> w, name |-> m.name]
  BY <1>1 DEF Store!Begin, BegunRevision, Records, Downloaded
<1>3. w \in Names /\ m.name \in Names /\ \A a \in Store!KnownDirectories : a = w
  BY DossierAssumption DEF StoreInv, OneDirectory, Store!KnownDirectories
<1>4. cur.keep \in Nat /\ rev \in Revisions
  BY DEF IInv, TypeOK, RowType, Revisions
<1> HIDE DEF w, rev
<1>5. dirs[w] \in DirType /\ dirs' = [dirs EXCEPT ![w] = d]
  BY <1>2, <1>3 DEF StoreInv, DirsType
<1>6. d \in DirType /\ d.revisions = Append(dirs[w].revisions, rev)
      /\ d.company = dirs[w].company /\ d.latest = dirs[w].latest
  BY <1>4, <1>5, DirOfType DEF DirType
<1> HIDE DEF d
<1>7. Follows(dirs[w], d) /\ d.revisions[Len(d.revisions)] = rev /\ Len(d.revisions) # 0
  <2>1. dirs[w].company.st = "whole" => Store!Visible(dirs[w]) # {}
    BY <1>3 DEF StoreInv, PointersHold
  <2> QED
    BY <1>4, <1>5, <1>6, <2>1, NewestStep
<1>8. /\ UNCHANGED <<ref, result, cur, pc>> /\ Storing
  BY DEF BuildDossier, vars
<1>9. /\ dirs' \in [Names -> DirType] /\ dirs'[w] = d
      /\ \A a \in Store!KnownDirectories' : a = w
      /\ PointersHold' /\ RefInv'
  BY <1>3, <1>5, <1>6, <1>7, <1>8, DirectoryStep
<1>10. WriterInv'
  <2>1. Storing'
    BY <1>8 DEF Storing, Inn
  <2> QED
    BY <1>2, <1>3, <1>7, <1>8, <1>9, <2>1 DEF WriterInv, Store!Newest, rev
<1>11. writing' \in WriteType
  BY <1>2, <1>3 DEF WriteType
<1> QED
  BY <1>2, <1>9, <1>10, <1>11 DEF StoreInv, DirsType, OneDirectory

\* The writer changes the directory it is in.
LEMMA WriterStep ==
  ASSUME IInv, StoreInv, Storing, writing.at # "idle",
         NEW d \in DirType, NEW place \in {"snapshot", "archive", "revision", "company",
                                            "latest", "written"},
         dirs' = [dirs EXCEPT ![writing.dir] = d], writing' = [writing EXCEPT !.at = place],
         UNCHANGED <<vars, ref>>, Follows(dirs[writing.dir], d), Len(d.revisions) # 0,
         NEW m \in Materials,
         d.revisions[Len(d.revisions)] = CopiedRevision(m, cur.keep, DoneAt[place]),
         place = "written" => d.latest.st = "whole" /\ d.latest.value = Len(d.revisions)
  PROVE  StoreInv'
<1> DEFINE w == writing.dir
<1>1. w \in Names /\ writing.name \in Names /\ \A a \in Store!KnownDirectories : a = w
  BY DEF StoreInv, WriterInv, OneDirectory
<1>2. UNCHANGED <<ref, result, cur, pc>>
  BY DEF vars
<1>3. writing' \in WriteType /\ writing'.at = place /\ writing'.dir = w /\ writing'.name = writing.name
  BY DEF StoreInv, DirsType, WriteType
<1>4. /\ dirs' \in [Names -> DirType] /\ dirs'[w] = d
      /\ \A a \in Store!KnownDirectories' : a = w
      /\ PointersHold' /\ RefInv'
  BY <1>1, <1>2, DirectoryStep
<1>5. WriterInv'
  <2>1. Storing'
    BY <1>2 DEF Storing, Inn
  <2>2. Store!Newest' = Len(d.revisions)
    BY <1>3, <1>4 DEF Store!Newest
  <2> QED
    BY <1>1, <1>2, <1>3, <1>4, <2>1, <2>2 DEF WriterInv
<1> QED
  BY <1>3, <1>4, <1>5 DEF StoreInv, DirsType, OneDirectory

\* write writes the files of the newest revision one after another, then the
\* manifest of the company and the pointer to the latest revision.
LEMMA WriteStep ==
  ASSUME IInv, StoreInv, WriteDossier
  PROVE  StoreInv'
<1> DEFINE w == writing.dir
           old == dirs[w]
           n == Len(old.revisions)
<1>1. Storing /\ UNCHANGED <<vars, ref>> /\ Store!Write
  BY DEF WriteDossier
<1>2. writing.at # "idle" /\ Store!Newest = n
  BY <1>1 DEF Store!Write, Store!CopyAttachments, Store!WriteFile, Store!WriteCompany,
              Store!WriteLatest, Store!After, Store!Newest
<1>3. PICK m \in Materials :
        old.revisions[n] = IF writing.at = "attachments" THEN BegunRevision(m, cur.keep)
                           ELSE CopiedRevision(m, cur.keep, DoneAt[writing.at])
  BY <1>2 DEF StoreInv, WriterInv
<1>4. /\ w \in Names /\ n # 0 /\ old \in DirType /\ cur.keep \in Nat
      /\ dirs \in [Names -> DirType]
      /\ old.company.st = "whole" => Store!Visible(old) # {}
  BY <1>2 DEF StoreInv, DirsType, WriterInv, PointersHold, IInv, TypeOK, RowType
<1>5. /\ n \in Nat /\ n \in DOMAIN old.revisions /\ old.revisions \in Seq(Revisions)
      /\ DOMAIN old.revisions = 1..n
      /\ old = [revisions |-> old.revisions, company |-> old.company, latest |-> old.latest]
  BY <1>4, DirFields
<1>6. ASSUME NEW rev \in Revisions, NEW place \in {"snapshot", "archive", "revision", "company"},
             rev = CopiedRevision(m, cur.keep, DoneAt[place]),
             "revision" \notin old.revisions[n].files,
             dirs' = [dirs EXCEPT ![w].revisions[n] = rev],
             writing' = [writing EXCEPT !.at = place]
      PROVE  StoreInv'
  <2> DEFINE d == [old EXCEPT !.revisions = [@ EXCEPT ![n] = rev]]
  <2>1. d \in DirType
    BY <1>4, DirOfType
  <2>2. /\ d.revisions = [old.revisions EXCEPT ![n] = rev]
        /\ d.company = old.company /\ d.latest = old.latest
    BY <1>4 DEF DirType
  <2>3. dirs' = [dirs EXCEPT ![w] = d]
    BY <1>4, <1>5, <1>6
  <2> HIDE DEF d
  <2>4. Follows(old, d) /\ d.revisions[Len(d.revisions)] = rev /\ Len(d.revisions) # 0
    BY <1>4, <1>6, <2>1, <2>2, NewestStep
  <2> QED
    BY <1>1, <1>2, <1>6, <2>1, <2>3, <2>4, WriterStep
<1>7. CASE Store!CopyAttachments
  <2> DEFINE rev == CopiedRevision(m, cur.keep, DoneAt["snapshot"])
  <2>1. /\ writing.at = "attachments" /\ old.revisions[n] = BegunRevision(m, cur.keep)
        /\ writing' = [writing EXCEPT !.at = "snapshot"]
    BY <1>3, <1>7 DEF Store!CopyAttachments
  <2>2. dirs' = [dirs EXCEPT ![w].revisions[n] =
                   [gen |-> old.revisions[n].gen,
                    items |-> Store!WithFiles(old.revisions[n].items),
                    attached |-> Store!Copies(old.revisions[n].items),
                    archive |-> Store!ArchiveOf(Store!WithFiles(old.revisions[n].items)),
                    records |-> Store!Rebind(old.revisions[n].records,
                                             Store!WithFiles(old.revisions[n].items)),
                    files |-> old.revisions[n].files]]
    BY <1>2, <1>7 DEF Store!CopyAttachments
  <2>3. /\ BegunRevision(m, cur.keep).gen = cur.keep
        /\ BegunRevision(m, cur.keep).items = Downloaded(m)
        /\ BegunRevision(m, cur.keep).records = Records(m)
        /\ BegunRevision(m, cur.keep).files = {}
        /\ Store!WithFiles(Downloaded(m)) = Placed(m)
    BY DEF BegunRevision, Placed
  <2>4. {} \in FilesDone /\ DoneAt["snapshot"] = {}
    BY DEF FilesDone, DoneAt
  <2>5. rev \in Revisions
    BY <1>4, <2>4, RevisionParts
  <2>6. dirs' = [dirs EXCEPT ![w].revisions[n] = rev]
    BY <2>1, <2>2, <2>3, <2>4 DEF CopiedRevision
  <2> HIDE DEF rev
  <2> QED
    BY <1>6, <2>1, <2>3, <2>5, <2>6 DEF rev
<1>8. CASE Store!WriteFile
  <2> DEFINE done == DoneAt[writing.at]
             place == Store!After[writing.at]
             rev == CopiedRevision(m, cur.keep, DoneAt[place])
  <2>1. /\ writing.at \in {"snapshot", "archive", "revision"}
        /\ writing' = [writing EXCEPT !.at = place]
        /\ dirs' = [dirs EXCEPT ![w].revisions[n].files = @ \cup {writing.at}]
    BY <1>2, <1>8 DEF Store!WriteFile, Store!After
  <2>2. /\ place \in {"archive", "revision", "company"}
        /\ DoneAt[place] = done \cup {writing.at} /\ "revision" \notin done
        /\ done \in FilesDone /\ DoneAt[place] \in FilesDone
    BY <2>1 DEF Store!After, DoneAt, FilesDone, AllFiles
  <2>3. old.revisions[n] = CopiedRevision(m, cur.keep, done)
    BY <1>3, <2>1
  <2>4. /\ CopiedRevision(m, cur.keep, done).files = done
        /\ rev \in Revisions
    BY <1>4, <2>2, RevisionParts
  <2>5. rev = [CopiedRevision(m, cur.keep, done) EXCEPT !.files = done \cup {writing.at}]
    BY <2>2 DEF CopiedRevision
  <2> HIDE DEF rev, done, place
  <2>6. dirs' = [dirs EXCEPT ![w].revisions[n] = rev]
    BY <1>4, <1>5, <2>1, <2>3, <2>4, <2>5
  <2> QED
    BY <1>6, <2>1, <2>2, <2>3, <2>4, <2>6 DEF rev
<1>9. ASSUME writing.at \in {"company", "latest"}
      PROVE  /\ old.revisions[n] = CopiedRevision(m, cur.keep, AllFiles)
             /\ n \in Store!Visible(old)
  <2>1. old.revisions[n] = CopiedRevision(m, cur.keep, AllFiles)
    BY <1>3, <1>9 DEF DoneAt
  <2>2. AllFiles \in FilesDone /\ "revision" \in AllFiles
    BY DEF FilesDone, AllFiles
  <2>3. "revision" \in old.revisions[n].files
    BY <1>4, <2>1, <2>2, RevisionParts
  <2> QED
    BY <1>5, <2>1, <2>3 DEF Store!Visible
<1>10. CASE Store!WriteCompany
  <2> DEFINE d == [old EXCEPT !.company = Store!Whole(writing.name)]
  <2>1. writing.at = "company" /\ writing' = [writing EXCEPT !.at = "latest"]
        /\ dirs' = [dirs EXCEPT ![w] = d]
    BY <1>4, <1>10 DEF Store!WriteCompany
  <2>2. /\ d.revisions = old.revisions /\ d.latest = old.latest /\ d \in DirType
    <3>1. Store!Whole(writing.name) \in FileType(Names \cup {None})
      BY <1>2 DEF Store!Whole, FileType, StoreInv, WriterInv
    <3> QED
      BY <1>4, <3>1 DEF DirType
  <2> HIDE DEF d
  <2>3. Follows(old, d)
    BY <1>5, <1>9, <2>1, <2>2 DEF Follows, Store!Visible
  <2>4. DoneAt["latest"] = AllFiles
    BY DEF DoneAt
  <2> QED
    BY <1>1, <1>2, <1>4, <1>9, <2>1, <2>2, <2>3, <2>4, WriterStep
<1>11. CASE Store!WriteLatest
  <2> DEFINE d == [old EXCEPT !.latest = Store!Whole(n)]
  <2>1. writing.at = "latest" /\ writing' = [writing EXCEPT !.at = "written"]
        /\ dirs' = [dirs EXCEPT ![w] = d]
    BY <1>2, <1>4, <1>11 DEF Store!WriteLatest
  <2>2. /\ d.revisions = old.revisions /\ d.company = old.company /\ d \in DirType
        /\ d.latest.st = "whole" /\ d.latest.value = n
    <3>1. Store!Whole(n) \in FileType(Nat \cup {None}) /\ Store!Whole(n).st = "whole"
          /\ Store!Whole(n).value = n
      BY <1>5 DEF Store!Whole, FileType
    <3> QED
      BY <1>4, <3>1 DEF DirType
  <2> HIDE DEF d
  <2>3. Follows(old, d)
    BY <1>4, <1>5, <1>9, <2>1, <2>2 DEF Follows, Store!Visible
  <2>4. DoneAt["written"] = AllFiles
    BY DEF DoneAt
  <2> QED
    BY <1>1, <1>2, <1>4, <1>9, <2>1, <2>2, <2>3, <2>4, WriterStep
<1> QED
  BY <1>1, <1>7, <1>8, <1>10, <1>11 DEF Store!Write

\* A step of the thread that does not store the result of the company keeps it, or
\* clears all results.
LEMMA ResultKept ==
  ASSUME IInv, Step, ~(StoreResult /\ Storing)
  PROVE  result'[Company] \in {result[Company], 0}
<1>1. Company \in Companies /\ result \in [Companies -> Nat]
  BY DossierAssumption DEF IInv, TypeOK
<1>2. CASE \/ ResetLogs \/ RunStarted \/ ReadOutbox \/ SkipRow \/ VisitRow \/ CollectSources
           \/ ChooseCandidates \/ MaterializeUnit \/ DrainPending \/ Finish \/ ReadTruncated
  BY <1>2 DEF ResetLogs, RunStarted, ReadOutbox, SkipRow, VisitRow, CollectSources,
     ChooseCandidates, MaterializeUnit, DrainPending, Finish, ReadTruncated, LedgerUnchanged,
     EmitThen
<1>3. CASE \/ LookUp \/ LookUpFails \/ RestoreStored \/ RestoreCheckpoint \/ Gate \/ HandOver
           \/ CheckpointPrefetched \/ AckHandedOver \/ HaveResult \/ Checkpoint \/ EmitDone
           \/ EmitCompleted \/ SyncPickups \/ AckUnit
  BY <1>3 DEF LookUp, LookUpFails, RestoreStored, RestoreCheckpoint, Gate, HandOver,
     CheckpointPrefetched, AckHandedOver, HaveResult, Checkpoint, EmitDone, EmitCompleted,
     SyncPickups, AckUnit, Decide, EmitThen, Raise
<1>4. CASE ResetState
  BY <1>1, <1>4 DEF ResetState
<1>5. CASE StoreResult
  BY <1>1, <1>5 DEF StoreResult, Storing
<1> QED
  BY <1>2, <1>3, <1>4, <1>5 DEF Step, Proceed

\* A load keeps a stored result, and so does the end of a process.
LEMMA OutsideKeeps ==
  ASSUME IInv, Outside, result[Company] # 0
  PROVE  result'[Company] = result[Company]
<1>1. CASE StartResume \/ StartRetry \/ StartFresh
  <2>1. result' = Converged
    BY <1>1 DEF StartResume, StartRetry, StartFresh, Load
  <2> QED
    BY <2>1, DossierAssumption DEF Converged
<1>2. CASE DeferRow \/ Crash \/ Interrupt
  BY <1>2 DEF DeferRow, Crash, Interrupt, files, LedgerUnchanged
<1> QED
  BY <1>1, <1>2 DEF Outside

\* The writer at rest, with a reference that is kept or given up.
LEMMA QuietStep ==
  ASSUME StoreInv, dirs' = dirs, writing' \in {writing, Store!Idle},
         writing'.at = "idle",
         ref' \in {ref, NoRef}, ref' # NoRef => result'[Company] = result[Company]
  PROVE  StoreInv'
<1>1. writing'.at = "idle" /\ writing' \in WriteType
  BY DEF Store!Idle, WriteType, StoreInv, DirsType
<1>2. DirsType' /\ WriterInv' /\ PointersHold'
  BY <1>1 DEF StoreInv, DirsType, WriterInv, PointersHold, Store!Visible
<1>3. Store!KnownDirectories' = Store!KnownDirectories
  BY DEF Store!KnownDirectories, Store!Visible
<1>4. OneDirectory'
  BY <1>1, <1>3 DEF StoreInv, OneDirectory
<1>5. RefInv'
  BY <1>3 DEF StoreInv, RefInv, Store!Visible, NoRef
<1> QED
  BY <1>2, <1>4, <1>5 DEF StoreInv

\* The steps of the thread that store no result with its dossier.
LEMMA LedgerKeepsStore ==
  ASSUME IInv, StoreInv, LedgerStep
  PROVE  StoreInv'
<1>1. Step /\ ~Storing /\ dirs' = dirs /\ writing' = writing
      /\ ref' = IF result'[Company] = 0 THEN NoRef ELSE ref
  BY DEF LedgerStep
<1>2. writing'.at = "idle"
  BY <1>1 DEF StoreInv, WriterInv
<1>3. ref' # NoRef => result'[Company] = result[Company]
  BY <1>1, ResultKept DEF StoreInv, RefInv
<1> QED
  BY <1>1, <1>2, <1>3, QuietStep

\* upsert stores the result with the reference to the revision just written.
LEMMA StoreDossierStep ==
  ASSUME IInv, StoreInv, StoreWithDossier
  PROVE  StoreInv'
<1> DEFINE w == writing.dir
           n == Len(dirs[w].revisions)
<1>1. /\ Storing /\ StoreResult /\ writing.at = "written" /\ dirs' = dirs
      /\ writing' = Store!Idle /\ ref' = [dir |-> w, revision |-> n]
  BY DEF StoreWithDossier, Store!Newest
<1>2. PICK m \in Materials : dirs[w].revisions[n] = CopiedRevision(m, cur.keep, DoneAt["written"])
  BY <1>1 DEF StoreInv, WriterInv, Store!Newest
<1>3. /\ w \in Names /\ n # 0 /\ dirs[w] \in DirType /\ cur.keep \in Nat /\ cur.keep # 0
      /\ dirs[w].latest.st = "whole" /\ dirs[w].latest.value = n
  BY <1>1 DEF StoreInv, DirsType, WriterInv, Store!Newest, Storing, IInv, TypeOK, RowType
<1>4. n \in DOMAIN dirs[w].revisions /\ n \in Nat
  BY <1>3, DirFields
<1>5. dirs[w].revisions[n].gen = cur.keep /\ "revision" \in dirs[w].revisions[n].files
  <2>1. AllFiles \in FilesDone /\ DoneAt["written"] = AllFiles /\ "revision" \in AllFiles
    BY DEF FilesDone, AllFiles, DoneAt
  <2> QED
    BY <1>2, <1>3, <2>1, RevisionParts
<1>6. n \in Store!Visible(dirs[w]) /\ w \in Store!KnownDirectories
  BY <1>3, <1>4, <1>5 DEF Store!Visible, Store!KnownDirectories
<1>7. result'[Company] = cur.keep
  <2>1. result \in [Companies -> Nat] /\ Company \in Companies
    BY DossierAssumption DEF IInv, TypeOK
  <2> QED
    BY <1>1, <2>1 DEF StoreResult, Storing
<1>8. Store!KnownDirectories' = Store!KnownDirectories
  BY <1>1 DEF Store!KnownDirectories, Store!Visible
<1>9. writing'.at = "idle" /\ writing' \in WriteType
  BY <1>1 DEF Store!Idle, WriteType
<1>10. DirsType' /\ WriterInv' /\ PointersHold'
  BY <1>1, <1>9 DEF StoreInv, DirsType, WriterInv, PointersHold, Store!Visible
<1>11. OneDirectory'
  BY <1>8, <1>9 DEF StoreInv, OneDirectory
<1>12. RefInv'
  BY <1>1, <1>3, <1>4, <1>5, <1>6, <1>7, <1>8 DEF RefInv, Store!Visible
<1> QED
  BY <1>10, <1>11, <1>12 DEF StoreInv

\* A process that ends or begins while the writer is at rest, or is stopped with
\* the file torn that it was writing.
LEMMA OutsideStep ==
  ASSUME IInv, StoreInv, Outside
  PROVE  StoreInv'
<1>1. /\ ref' = ref
      /\ IF writing.at = "idle" THEN UNCHANGED <<dirs, writing>> ELSE Store!Stop
  BY DEF Outside
<1>2. ref # NoRef => result'[Company] = result[Company]
  BY OutsideKeeps DEF StoreInv, RefInv
<1>3. CASE writing.at = "idle"
  BY <1>1, <1>2, <1>3, QuietStep
<1>4. CASE writing.at # "idle" /\ dirs' = dirs
  <2>1. writing' = Store!Idle /\ writing'.at = "idle"
    BY <1>1, <1>4 DEF Store!Stop, Store!Idle
  <2> QED
    BY <1>1, <1>2, <1>4, <2>1, QuietStep
<1>5. CASE writing.at # "idle" /\ dirs' # dirs
  <2> DEFINE w == writing.dir
             old == dirs[w]
  <2>1. PICK d \in {[old EXCEPT !.company = Store!Torn], [old EXCEPT !.latest = Store!Torn]} :
          dirs' = [dirs EXCEPT ![w] = d]
    BY <1>1, <1>5 DEF Store!Stop
  <2>2. /\ writing.at \in {"company", "latest"} /\ writing' = Store!Idle
    BY <1>1, <1>5 DEF Store!Stop
  <2>3. w \in Names /\ old \in DirType /\ \A a \in Store!KnownDirectories : a = w
    BY <1>5 DEF StoreInv, DirsType, WriterInv, OneDirectory
  <2>4. Store!Torn \in FileType(Names \cup {None}) /\ Store!Torn \in FileType(Nat \cup {None})
        /\ Store!Torn.st = "torn"
    BY DEF Store!Torn, FileType
  <2>5. /\ d \in DirType /\ d.revisions = old.revisions
        /\ d.company = old.company \/ d.company.st = "torn"
        /\ d.latest = old.latest \/ d.latest.st = "torn"
    BY <2>3, <2>4 DEF DirType
  <2>6. old.company.st = "whole" => Store!Visible(old) # {}
    BY <2>3 DEF StoreInv, PointersHold
  <2>7. Follows(old, d)
    BY <2>3, <2>5, <2>6, DirFields DEF Follows, Store!Visible
  <2>8. /\ dirs' \in [Names -> DirType]
        /\ \A a \in Store!KnownDirectories' : a = w
        /\ PointersHold' /\ RefInv'
    BY <1>1, <1>2, <2>1, <2>3, <2>5, <2>7, DirectoryStep
  <2>9. writing'.at = "idle" /\ writing' \in WriteType
    BY <2>2 DEF Store!Idle, WriteType
  <2> QED
    BY <2>8, <2>9 DEF StoreInv, DirsType, WriterInv, OneDirectory
<1> QED
  BY <1>3, <1>4, <1>5

LEMMA StoreInit == LDInit => StoreInv
<1> SUFFICES ASSUME LDInit PROVE StoreInv
  OBVIOUS
<1>1. dirs = [n \in Names |-> Store!NoDirectory] /\ writing = Store!Idle /\ ref = NoRef
  BY DEF LDInit, Store!StoreInit
<1>2. Store!NoDirectory \in DirType /\ Store!NoDirectory.revisions = <<>>
      /\ Store!NoDirectory.company.st = "absent" /\ Store!NoDirectory.latest.st = "absent"
  BY DEF Store!NoDirectory, Store!Absent, DirType, FileType
<1>3. writing \in WriteType /\ writing.at = "idle"
  BY <1>1 DEF Store!Idle, WriteType
<1>4. \A n \in Names : Store!Visible(dirs[n]) = {}
  BY <1>1, <1>2 DEF Store!Visible
<1>5. Store!KnownDirectories = {}
  BY <1>1, <1>2, <1>4 DEF Store!KnownDirectories
<1> QED
  BY <1>1, <1>2, <1>3, <1>5 DEF StoreInv, DirsType, WriterInv, OneDirectory, PointersHold, RefInv

DossierInv == IInv /\ RecoverInv /\ StoreInv

LEMMA LedgerSteps == LDNext => Next \/ UNCHANGED vars
BY DEF LDNext, BuildDossier, WriteDossier, StoreWithDossier, LedgerStep, Outside, Next, Step,
   Proceed

LEMMA DossierInductive == DossierInv /\ [LDNext]_<<vars, dossier>> => DossierInv'
<1> SUFFICES ASSUME DossierInv, [LDNext]_<<vars, dossier>> PROVE DossierInv'
  OBVIOUS
<1>1. [Next]_vars
  BY LedgerSteps
<1>2. IInv' /\ RecoverInv'
  BY <1>1, NextInv, RecoverNext DEF DossierInv
<1>3. StoreInv'
  <2>1. CASE UNCHANGED <<vars, dossier>>
    <3>1. UNCHANGED <<dirs, writing, ref, result, cur, pc>>
      BY <2>1 DEF vars, dossier
    <3>2. Store!KnownDirectories' = Store!KnownDirectories
      BY <3>1 DEF Store!KnownDirectories, Store!Visible
    <3> QED
      BY <3>1, <3>2 DEF DossierInv, StoreInv, DirsType, WriterInv, Storing, Inn, Store!Newest,
         OneDirectory, PointersHold, RefInv, Store!Visible
  <2> QED
    BY <2>1, BeginStep, WriteStep, StoreDossierStep, LedgerKeepsStore, OutsideStep
       DEF DossierInv, LDNext
<1> QED
  BY <1>2, <1>3 DEF DossierInv

LEMMA DossierInvariance == LDSpec => []DossierInv
<1>1. LDInit => DossierInv
  BY InitInv, RecoverInit, StoreInit DEF LDInit, DossierInv
<1> QED
  BY <1>1, DossierInductive, PTL DEF LDSpec

\* A reference that is stored with a result names a revision of that result, and
\* it can be loaded and is found again, whatever was interrupted since and whatever
\* the company is called now (progress.py persist_completed_company_result,
\* store.py load_latest).
THEOREM ReferencesHold == LDSpec => []ReferenceHolds
<1>1. DossierInv => ReferenceHolds
  <2> SUFFICES ASSUME DossierInv PROVE ReferenceHolds
    OBVIOUS
  <2>1. AdmittedIsRecoverable
    BY RecoverIsEnough DEF DossierInv
  <2>2. ASSUME ref # NoRef
        PROVE  /\ Store!KnownDirectories = {ref.dir}
               /\ Store!Loads(dirs[ref.dir], ref.revision)
               /\ dirs[ref.dir].revisions[ref.revision].gen = result[Company]
               /\ Store!LatestOf(dirs[ref.dir]) >= ref.revision
    <3> DEFINE d == dirs[ref.dir]
    <3>1. /\ ref.dir \in Store!KnownDirectories /\ ref.revision \in Store!Visible(d)
          /\ d.revisions[ref.revision].gen = result[Company]
          /\ d.latest.st = "whole" => ref.revision <= d.latest.value
      BY <2>2 DEF DossierInv, StoreInv, RefInv
    <3>2. Store!KnownDirectories = {ref.dir}
      BY <3>1 DEF DossierInv, StoreInv, OneDirectory
    <3>3. ref.dir \in Names /\ d \in DirType
          /\ (d.latest.st = "whole" => d.latest.value \in Store!Visible(d))
      BY <3>1 DEF DossierInv, StoreInv, DirsType, PointersHold, Store!KnownDirectories
    <3> HIDE DEF d
    <3>4. Store!Loads(d, ref.revision) /\ ref.revision \in 1..Len(d.revisions)
      BY <3>1, <3>3, VisibleLoads
    <3>5. /\ Store!LatestOf(d) \in Store!Visible(d)
          /\ d.latest.st # "whole" => \A r \in Store!Visible(d) : r <= Store!LatestOf(d)
          /\ d.latest.st = "whole" => Store!LatestOf(d) = d.latest.value
      BY <3>1, <3>3, LatestIsVisible
    <3>6. Store!LatestOf(d) \in 1..Len(d.revisions) /\ Len(d.revisions) \in Nat
      BY <3>3, <3>5, VisibleLoads, DirFields
    <3>7. ref.revision <= Store!LatestOf(d)
      BY <3>1, <3>5
    <3>8. Store!LatestOf(d) >= ref.revision
      BY <3>4, <3>6, <3>7
    <3> QED
      BY <3>1, <3>2, <3>4, <3>8 DEF d
  <2> QED
    BY <2>1, <2>2 DEF ReferenceHolds
<1> QED
  BY <1>1, DossierInvariance, PTL

\* The writer keeps to one directory, and the revision that load_latest chooses is
\* a complete one, after any number of interrupted writes (store.py write,
\* _company_directory_for_write, load_latest).
THEOREM DirectoriesAreSound == LDSpec => []DirectoryIsSound
<1>1. DossierInv => DirectoryIsSound
  <2> SUFFICES ASSUME DossierInv PROVE DirectoryIsSound
    OBVIOUS
  <2>1. Cardinality(Store!KnownDirectories) <= 1
    <3>1. CASE Store!KnownDirectories = {}
      BY <3>1, FS_EmptySet
    <3>2. CASE Store!KnownDirectories # {}
      <4>1. PICK a : Store!KnownDirectories = {a}
        BY <3>2 DEF DossierInv, StoreInv, OneDirectory
      <4> QED
        BY <4>1, FS_Singleton
    <3> QED
      BY <3>1, <3>2
  <2>2. ASSUME NEW n \in Store!KnownDirectories
        PROVE  Store!Loads(dirs[n], Store!LatestOf(dirs[n]))
    <3>1. n \in Names /\ dirs[n] \in DirType /\ Store!Visible(dirs[n]) # {}
          /\ (dirs[n].latest.st = "whole" => dirs[n].latest.value \in Store!Visible(dirs[n]))
      BY DEF DossierInv, StoreInv, DirsType, PointersHold, Store!KnownDirectories
    <3> QED
      BY <3>1, LatestIsVisible, VisibleLoads
  <2> QED
    BY <2>1, <2>2 DEF DirectoryIsSound
<1> QED
  BY <1>1, DossierInvariance, PTL

\* Re-binding on read changes nothing that was written, and every document still
\* leads to the content that was downloaded for it, even where two downloads have
\* one name (store.py _copy_local_attachments, _refresh_procedure_records).
THEOREM ReadsAreWrites == LDSpec => []ReadIsWritten
<1>1. DossierInv => ReadIsWritten
  <2> SUFFICES ASSUME DossierInv, NEW n \in Names, NEW r \in DOMAIN dirs[n].revisions,
                      Store!Loads(dirs[n], r)
               PROVE  LET written == dirs[n].revisions[r]
                          read == Store!Loaded(dirs[n], r)
                      IN  /\ read.records = written.records
                          /\ \A i \in DOMAIN read.items : read.items[i].file # None =>
                               written.attached[read.items[i].file] = read.items[i].sum
    BY DEF ReadIsWritten
  <2> DEFINE written == dirs[n].revisions[r]
             read == Store!Loaded(dirs[n], r)
  <2>1. dirs[n] \in DirType /\ r \in Store!Visible(dirs[n])
    BY DEF DossierInv, StoreInv, DirsType, Store!Loads
  <2>2. PICK m \in Materials, g \in Nat : written = CopiedRevision(m, g, AllFiles)
    BY <2>1, VisibleLoads
  <2>3. /\ written.records = Store!Rebind(Records(m), Placed(m)) /\ written.items = Placed(m)
        /\ written = [gen |-> written.gen, items |-> written.items,
                      attached |-> written.attached, archive |-> written.archive,
                      records |-> written.records, files |-> written.files]
    BY <2>2 DEF CopiedRevision
  <2>4. read = [written EXCEPT !.records = Store!Rebind(written.records, written.items)]
    BY DEF Store!Loaded
  <2> HIDE DEF written, read
  <2>5. read.records = Store!Rebind(written.records, written.items) /\ read.items = written.items
    BY <2>3, <2>4
  <2>6. read.records = written.records
    BY <2>3, <2>5, ReboundAgain
  <2>7. \A i \in DOMAIN read.items : read.items[i].file # None =>
          written.attached[read.items[i].file] = read.items[i].sum
    BY <2>2, <2>5, WrittenIsBound
  <2> QED
    BY <2>6, <2>7 DEF written, read
<1> QED
  BY <1>1, DossierInvariance, PTL
=============================================================================
