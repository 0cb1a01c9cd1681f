------------------------- MODULE ProgressStoreProofs -------------------------
(***************************************************************************)
(* Theorems about the ProgressStore (app/runtime/progress.py).             *)
(*                                                                         *)
(* First the threads that write runtime_state.json (StateWriters), for any *)
(* number of companies, worker threads, LLM events, restarts and moments;  *)
(* then the publication of the outputs rendered from it (PublicPublish),   *)
(* for any number of rows, generations and failures.                       *)
(***************************************************************************)
EXTENDS StateWriters, PublicPublish, FiniteSetTheorems, TLAPS

----------------------------------------------------------------------------
(* Places                                                                  *)

Reporting == {"advance", "measure", "count", "set", "publish"}
Writing == {"results", "metadata", "replace"}
OnTheWay == Reporting \cup Writing

\* Where a thread is, or goes on once its report is stored and persisted.
At(t) == IF pc[t] \in Writing \/ (pc[t] \in Reporting /\ report[t].next = "results")
         THEN back[t]
         ELSE IF pc[t] \in Reporting THEN report[t].next ELSE pc[t]

WorkerPlaces == {"off", "idle", "read", "add", "ended"}

\* No worker is at work before the pools are opened and after they are shut
\* down, and what a thread reports and persists it does on the way to one of
\* its places.
PlaceInv ==
  /\ \A t \in Threads : At(t) \notin OnTheWay
  /\ \A w \in Workers : At(w) \in WorkerPlaces /\ (pc[w] # At(w) => At(w) = "idle")
  /\ pc[Main] # At(Main) => At(Main) \notin {"off", "start", "read", "add"}
  /\ \A t \in Threads : pc[t] \in Reporting => report[t].next # "ended"
  /\ At(Main) \in {"off", "start", "begin"} => \A w \in Workers : pc[w] = "off"
  /\ At(Main) \in {"finish", "ended"} => AllEnded
  /\ pc[Main] = "off" => restarts < MaxRestarts

----------------------------------------------------------------------------
(* One writer                                                              *)

\* A worker that reported nothing persists nothing.
SilentInv ==
  WorkersSilent => \A w \in Workers : pc[w] \in {"off", "idle", "ended"}

\* What the main thread persists while nobody else does is what it has.
SnapInv ==
  WorkersSilent \/ At(Main) = "ended" =>
    /\ pc[Main] = "metadata" => snap[Main].result = mem.result
    /\ pc[Main] = "replace" => snap[Main] = mem

Recoverable(s) == s.acked \subseteq s.result \cup s.ckpt

\* A unit is acknowledged when its company has a checkpoint or a result.
RowInv ==
  WorkersSilent =>
    /\ Recoverable(mem)
    /\ At(Main) \in {"ack", "acked"} =>
         \E c \in Companies : IsCurrent(c) /\ c \in mem.result \cup mem.ckpt

\* The cost of the summary is that of the log, but for the event in hand.
CostInv ==
  WorkersSilent /\ ~torn /\ pc[Main] # "off" =>
    /\ events = mem.cost + IF pc[Main] \in {"read", "add"} THEN 1 ELSE 0
    /\ pc[Main] = "add" => seen[Main] = mem.cost

WriterInv ==
  /\ TypeOK /\ PlaceInv /\ SilentInv /\ SnapInv /\ RowInv /\ CostInv
  /\ FinalFileIsMemory
  /\ WorkersSilent => FileRecoverable

----------------------------------------------------------------------------
(* The clock                                                               *)

\* Moments from a to before b that no process, or some process, worked in.
Slept(a, b, S) == Cardinality({s \in a..b - 1 : s \in S})
Lived(a, b, S) == Cardinality({s \in a..b - 1 : s \notin S})

\* A clock counts no more work than was done since it started, and its pauses
\* make up for all the time that was slept until its last tick, up to the time
\* that passed since.
Sound(clock, time, S) ==
  \/ clock.start = NoTime /\ clock.tick = NoTime /\ clock.active = 0
  \/ /\ NoTime < clock.start /\ clock.start <= clock.tick /\ clock.tick <= time
     /\ clock.active <= Lived(clock.start, time, S)
     /\ Slept(clock.start, clock.tick, S) <= clock.pause + Lived(clock.tick, time, S)

\* A clock of the present process counts no work since its last report.
Current(clock, start, last, S) ==
  clock.start = start /\ clock.active + Lived(1, start, S) <= last

Running == pc[Main] \notin {"off", "start"}

\* A thread in hand of a clock that counts no work since the last report; the
\* one that took the time will set it to a later one.
ReportInv(t) ==
  /\ pc[t] \in {"advance", "measure", "count"} => report[t].at \in mem.clock.start..now
  /\ pc[t] \in {"measure", "count", "set", "publish"} => Sound(report[t].clock, now, asleep)
  /\ pc[t] \in {"measure", "count", "publish"} =>
       Current(report[t].clock, mem.clock.start, mono, asleep)
  /\ pc[t] = "set" => Current(report[t].clock, mem.clock.start, report[t].upto, asleep)
  /\ pc[t] \in {"count", "set"} =>
       mono <= report[t].upto /\ report[t].upto <= Lived(1, now, asleep)

SoundInv ==
  /\ Sound(mem.clock, now, asleep) /\ Sound(file.clock, now, asleep)
  /\ \A t \in Threads : Sound(snap[t].clock, now, asleep) /\ ReportInv(t)
  /\ \A t, u \in Measuring : t = u
  /\ Running => /\ mem.clock.start # NoTime
                /\ Current(mem.clock, mem.clock.start, mono, asleep)
                /\ mono <= Lived(1, now, asleep)
  /\ span # NoTime => Running /\ span \in mem.clock.start..now

ClockInv == apart => SoundInv

----------------------------------------------------------------------------
(* Moments                                                                 *)

LEMMA Disjoint ==
  ASSUME NEW A, NEW B, IsFiniteSet(A), IsFiniteSet(B), A \cap B = {}
  PROVE  /\ Cardinality(A \cup B) = Cardinality(A) + Cardinality(B)
         /\ Cardinality(A) \in Nat /\ Cardinality(B) \in Nat
<1>1. Cardinality(A) \in Nat /\ Cardinality(B) \in Nat
  BY FS_CardinalityType
<1>2. Cardinality(A \cap B) = 0
  BY FS_EmptySet
<1>3. Cardinality(A \cup B) = Cardinality(A) + Cardinality(B) - Cardinality(A \cap B)
  BY FS_Union
<1> QED
  BY <1>1, <1>2, <1>3

\* The moments from a to before b.
LEMMA Moments ==
  ASSUME NEW a \in Int, NEW b \in Int
  PROVE  /\ IsFiniteSet(a..b - 1)
         /\ a <= b => Cardinality(a..b - 1) = b - a
         /\ \A S : /\ IsFiniteSet({s \in a..b - 1 : s \in S})
                   /\ IsFiniteSet({s \in a..b - 1 : s \notin S})
<1> DEFINE d == b - 1
<1> d \in Int
  OBVIOUS
<1>1. IsFiniteSet(a..d) /\ Cardinality(a..d) = IF a > d THEN 0 ELSE d - a + 1
  <2> HIDE DEF d
  <2> QED
    BY FS_Interval
<1>2. \A S : IsFiniteSet({s \in a..b - 1 : s \in S}) /\ IsFiniteSet({s \in a..b - 1 : s \notin S})
  <2>1. TAKE S
  <2>2. {s \in a..d : s \in S} \in SUBSET (a..d) /\ {s \in a..d : s \notin S} \in SUBSET (a..d)
    OBVIOUS
  <2> QED
    BY <1>1, <2>2, FS_Subset
<1>3. a <= b => Cardinality(a..b - 1) = b - a
  BY <1>1
<1> QED
  BY <1>1, <1>2, <1>3

LEMMA MomentsType ==
  ASSUME NEW a \in Int, NEW b \in Int, NEW S
  PROVE  Slept(a, b, S) \in Nat /\ Lived(a, b, S) \in Nat
BY Moments, FS_CardinalityType DEF Slept, Lived

\* Every moment is slept or lived.
LEMMA MomentsAddUp ==
  ASSUME NEW a \in Int, NEW b \in Int, NEW S, a <= b
  PROVE  Slept(a, b, S) + Lived(a, b, S) = b - a
<1> DEFINE All == a..b - 1
           In == {s \in All : s \in S}
           Out == {s \in All : s \notin S}
<1>1. Cardinality(All) = b - a /\ IsFiniteSet(In) /\ IsFiniteSet(Out)
  BY Moments
<1>2. In \cup Out = All /\ In \cap Out = {}
  OBVIOUS
<1>3. Slept(a, b, S) = Cardinality(In) /\ Lived(a, b, S) = Cardinality(Out)
  BY DEF Slept, Lived
<1> HIDE DEF All, In, Out
<1> QED
  BY <1>1, <1>2, <1>3, Disjoint

\* The time lived until c is lived until b or from b on.
LEMMA LivedSplits ==
  ASSUME NEW a \in Int, NEW b \in Int, NEW c \in Int, NEW S, a <= b, b <= c
  PROVE  Lived(a, c, S) = Lived(a, b, S) + Lived(b, c, S)
<1> DEFINE All == {s \in a..c - 1 : s \notin S}
           One == {s \in a..b - 1 : s \notin S}
           Two == {s \in b..c - 1 : s \notin S}
<1>1. IsFiniteSet(One) /\ IsFiniteSet(Two)
  BY Moments
<1>2. One \cup Two = All /\ One \cap Two = {}
  OBVIOUS
<1>3. /\ Lived(a, c, S) = Cardinality(All) /\ Lived(a, b, S) = Cardinality(One)
      /\ Lived(b, c, S) = Cardinality(Two)
  BY DEF Lived
<1> HIDE DEF All, One, Two
<1> QED
  BY <1>1, <1>2, <1>3, Disjoint

\* What is slept now was not lived before, and takes nothing from it.
LEMMA PastStays ==
  ASSUME NEW a \in Int, NEW b \in Int, NEW n \in Int, NEW S, NEW T, S \subseteq T,
         T \subseteq S \cup {n}, b <= n
  PROVE  /\ Lived(a, b, T) = Lived(a, b, S) /\ Slept(a, b, T) = Slept(a, b, S)
         /\ Lived(a, n, S) <= Lived(a, n + 1, T)
<1>1. Lived(a, b, T) = Lived(a, b, S)
  <2>1. {s \in a..b - 1 : s \notin T} = {s \in a..b - 1 : s \notin S}
    OBVIOUS
  <2> QED
    BY <2>1 DEF Lived
<1>2. Slept(a, b, T) = Slept(a, b, S)
  <2>1. {s \in a..b - 1 : s \in T} = {s \in a..b - 1 : s \in S}
    OBVIOUS
  <2> QED
    BY <2>1 DEF Slept
<1>3. Lived(a, n, S) <= Lived(a, n + 1, T)
  <2>1. IsFiniteSet({s \in a..(n + 1) - 1 : s \notin T})
    <3>1. n + 1 \in Int
      OBVIOUS
    <3> QED
      BY <3>1, Moments
  <2>2. {s \in a..n - 1 : s \notin S} \subseteq {s \in a..(n + 1) - 1 : s \notin T}
    OBVIOUS
  <2> QED
    BY <2>1, <2>2, FS_Subset DEF Lived
<1> QED
  BY <1>1, <1>2, <1>3

----------------------------------------------------------------------------
(* The clock is sound                                                      *)

\* A sound clock tells the truth.
LEMMA SoundIsTruthful ==
  ASSUME NEW c \in Clocks, now \in Nat, asleep \subseteq Int, Sound(c, now, asleep)
  PROVE  Truthful(c)
<1> Threshold \in Nat
  BY ClockAssumption
<1> c.start \in Nat /\ c.tick \in Nat /\ c.active \in Nat /\ c.pause \in Nat
  BY DEF Clocks
<1>1. Monotonic = Lived(1, now, asleep)
  <2>1. (1..now - 1) \ asleep = {s \in 1..now - 1 : s \notin asleep}
    OBVIOUS
  <2> QED
    BY <2>1 DEF Monotonic, Lived
<1>2. LivedSince(c.tick) = Lived(c.tick, now, asleep)
  BY DEF LivedSince, Lived
<1>3. AsleepIn(c.start, c.tick) = Slept(c.start, c.tick, asleep)
  <2> DEFINE past == c.start
             to == c.tick
  <2>1. {s \in asleep : past <= s /\ s < to} = {s \in past..to - 1 : s \in asleep}
    <3>1. past \in Int /\ to \in Int
      OBVIOUS
    <3> HIDE DEF past, to
    <3>2. \A s \in Int : past <= s /\ s < to <=> s \in past..to - 1
      BY <3>1
    <3>3. \A s : s \in past..to - 1 => s \in Int
      OBVIOUS
    <3> QED
      BY <3>2, <3>3
  <2> QED
    BY <2>1 DEF AsleepIn, Slept
<1>4. /\ Lived(1, now, asleep) \in Nat /\ Lived(c.tick, now, asleep) \in Nat
      /\ Slept(c.start, c.tick, asleep) \in Nat
  BY MomentsType
<1>5. CASE c.start = NoTime /\ c.tick = NoTime /\ c.active = 0
  <2>1. Slept(c.start, c.tick, asleep) = 0
    <3>1. {s \in c.start..c.tick - 1 : s \in asleep} = {}
      BY <1>5 DEF NoTime
    <3> QED
      BY <3>1, FS_EmptySet DEF Slept
  <2> QED
    BY <1>1, <1>2, <1>3, <1>4, <1>5, <2>1 DEF Truthful
<1>6. CASE ~ (c.start = NoTime /\ c.tick = NoTime /\ c.active = 0)
  <2>1. /\ 1 <= c.start /\ c.start <= c.tick /\ c.tick <= now
        /\ c.active <= Lived(c.start, now, asleep)
        /\ Slept(c.start, c.tick, asleep) <= c.pause + Lived(c.tick, now, asleep)
    BY <1>6 DEF Sound, NoTime
  <2>2. /\ Lived(1, now, asleep) = Lived(1, c.start, asleep) + Lived(c.start, now, asleep)
        /\ Lived(1, c.start, asleep) \in Nat /\ Lived(c.start, now, asleep) \in Nat
    BY <2>1, LivedSplits, MomentsType
  <2> QED
    BY <1>1, <1>2, <1>3, <1>4, <2>1, <2>2 DEF Truthful, IsEvidence
<1> QED
  BY <1>5, <1>6

\* Time passes over a clock.
LEMMA SoundStays ==
  ASSUME NEW c \in Clocks, NEW n \in Nat, NEW S, NEW T, S \subseteq T, T \subseteq S \cup {n},
         Sound(c, n, S)
  PROVE  Sound(c, n + 1, T)
<1> c.start \in Nat /\ c.tick \in Nat /\ c.active \in Nat /\ c.pause \in Nat
  BY DEF Clocks
<1>1. CASE c.start = NoTime /\ c.tick = NoTime /\ c.active = 0
  BY <1>1 DEF Sound
<1>2. CASE ~ (c.start = NoTime /\ c.tick = NoTime /\ c.active = 0)
  <2>1. /\ NoTime < c.start /\ c.start <= c.tick /\ c.tick <= n
        /\ c.active <= Lived(c.start, n, S)
        /\ Slept(c.start, c.tick, S) <= c.pause + Lived(c.tick, n, S)
    BY <1>2 DEF Sound
  <2>2. /\ Slept(c.start, c.tick, T) = Slept(c.start, c.tick, S)
        /\ Lived(c.start, n, S) <= Lived(c.start, n + 1, T)
        /\ Lived(c.tick, n, S) <= Lived(c.tick, n + 1, T)
    <3>1. ASSUME NEW a \in Int, NEW b \in Int, b <= n
          PROVE  /\ Lived(a, b, T) = Lived(a, b, S) /\ Slept(a, b, T) = Slept(a, b, S)
                 /\ Lived(a, n, S) <= Lived(a, n + 1, T)
      <4>1. n \in Int
        OBVIOUS
      <4> QED
        BY <3>1, <4>1, PastStays
    <3> QED
      BY <2>1, <3>1
  <2>3. /\ Slept(c.start, c.tick, S) \in Nat
        /\ Lived(c.start, n, S) \in Nat /\ Lived(c.start, n + 1, T) \in Nat
        /\ Lived(c.tick, n, S) \in Nat /\ Lived(c.tick, n + 1, T) \in Nat
    BY MomentsType
  <2> QED
    BY <2>1, <2>2, <2>3 DEF Sound, NoTime
<1> QED
  BY <1>1, <1>2

\* A run is started or continued: what passed since the last tick is a pause.
LEMMA SoundStart ==
  ASSUME NEW c \in Clocks, NEW n \in Nat \ {0}, NEW S, Sound(c, n, S)
  PROVE  /\ StartClock(c, n) \in Clocks /\ Sound(StartClock(c, n), n, S)
         /\ StartClock(c, n).start \in 1..n
         /\ StartClock(c, n).active + Lived(1, StartClock(c, n).start, S) <= Lived(1, n, S)
<1> DEFINE d == StartClock(c, n)
<1> c.start \in Nat /\ c.tick \in Nat /\ c.active \in Nat /\ c.pause \in Nat
  BY DEF Clocks
<1>1. d = [start |-> OrElse(c.start, n), tick |-> n, active |-> c.active,
           pause |-> c.pause + Elapsed(c.tick, n)]
  BY DEF StartClock
<1>2. Elapsed(c.tick, n) \in Nat
  BY DEF Elapsed, NoTime
<1>3. d \in Clocks
  BY <1>1, <1>2 DEF Clocks, OrElse
<1>4. Lived(1, n, S) \in Nat
  BY MomentsType
<1>5. CASE c.start = NoTime /\ c.tick = NoTime /\ c.active = 0
  <2>1. d.start = n /\ d.tick = n /\ d.active = 0 /\ d.pause \in Nat
    BY <1>1, <1>2, <1>5 DEF OrElse
  <2>2. Slept(n, n, S) = 0 /\ Lived(n, n, S) = 0
    BY MomentsType, MomentsAddUp
  <2> QED
    BY <1>3, <1>4, <2>1, <2>2 DEF Sound, NoTime
<1>6. CASE ~ (c.start = NoTime /\ c.tick = NoTime /\ c.active = 0)
  <2>1. /\ 1 <= c.start /\ c.start <= c.tick /\ c.tick <= n
        /\ c.active <= Lived(c.start, n, S)
        /\ Slept(c.start, c.tick, S) <= c.pause + Lived(c.tick, n, S)
    BY <1>6 DEF Sound, NoTime
  <2>2. d.start = c.start /\ d.tick = n /\ d.active = c.active /\ d.pause = c.pause + (n - c.tick)
    BY <1>1, <2>1 DEF OrElse, Elapsed, NoTime
  <2>3. /\ Lived(c.start, n, S) = Lived(c.start, c.tick, S) + Lived(c.tick, n, S)
        /\ Lived(1, n, S) = Lived(1, c.start, S) + Lived(c.start, n, S)
    BY <2>1, LivedSplits
  <2>4. /\ Slept(c.start, n, S) + Lived(c.start, n, S) = n - c.start
        /\ Slept(c.start, c.tick, S) + Lived(c.start, c.tick, S) = c.tick - c.start
        /\ Lived(n, n, S) = 0
    <3>1. Slept(n, n, S) + Lived(n, n, S) = 0 /\ Slept(n, n, S) \in Nat /\ Lived(n, n, S) \in Nat
      BY MomentsAddUp, MomentsType
    <3> QED
      BY <2>1, <3>1, MomentsAddUp
  <2>5. /\ Slept(c.start, n, S) \in Nat /\ Slept(c.start, c.tick, S) \in Nat
        /\ Lived(c.start, n, S) \in Nat /\ Lived(c.start, c.tick, S) \in Nat
        /\ Lived(c.tick, n, S) \in Nat /\ Lived(1, c.start, S) \in Nat
    BY MomentsType
  <2>6. Slept(c.start, n, S) <= d.pause + Lived(n, n, S)
    BY <2>1, <2>2, <2>3, <2>4, <2>5
  <2>7. Sound(d, n, S)
    BY <2>1, <2>2, <2>6 DEF Sound, NoTime
  <2>8. d.active + Lived(1, d.start, S) <= Lived(1, n, S)
    BY <2>1, <2>2, <2>3, <2>5, <1>4
  <2> QED
    BY <1>3, <2>1, <2>2, <2>7, <2>8
<1> QED
  BY <1>5, <1>6

\* Work is reported as of t: what was neither worked nor a pause before is one.
LEMMA SoundAdvance ==
  ASSUME NEW c \in Clocks, NEW n \in Nat, NEW S, NEW t \in c.start..n, NEW worked \in Nat,
         Sound(c, n, S), c.start # NoTime,
         c.active + worked + Lived(1, c.start, S) <= Lived(1, n, S)
  PROVE  /\ AdvanceClock(c, t, worked) \in Clocks /\ Sound(AdvanceClock(c, t, worked), n, S)
         /\ AdvanceClock(c, t, worked).start = c.start
         /\ AdvanceClock(c, t, worked).active = c.active + worked
<1> DEFINE d == AdvanceClock(c, t, worked)
           standing == (t - c.start) - (c.active + worked)
<1> /\ c.start \in Nat /\ c.tick \in Nat /\ c.active \in Nat /\ c.pause \in Nat
    /\ t \in Nat /\ 1 <= c.start /\ c.start <= t /\ t <= n
  BY DEF Clocks, NoTime
<1>1. OrElse(c.start, t) = c.start /\ Elapsed(c.start, t) = t - c.start
  BY DEF OrElse, Elapsed, NoTime
<1>2. d = [start |-> c.start, tick |-> t, active |-> c.active + worked,
           pause |-> IF standing > c.pause THEN standing ELSE c.pause]
  BY <1>1 DEF AdvanceClock
<1>3. /\ d.start = c.start /\ d.tick = t /\ d.active = c.active + worked
      /\ d.pause \in Nat /\ d.pause >= standing
  BY <1>2
<1>4. d \in Clocks
  BY <1>2, <1>3 DEF Clocks
<1>5. /\ Lived(1, n, S) = Lived(1, c.start, S) + Lived(c.start, n, S)
      /\ Lived(c.start, n, S) = Lived(c.start, t, S) + Lived(t, n, S)
      /\ Slept(c.start, t, S) + Lived(c.start, t, S) = t - c.start
  BY LivedSplits, MomentsAddUp
<1>6. /\ Lived(1, n, S) \in Nat /\ Lived(1, c.start, S) \in Nat /\ Lived(c.start, n, S) \in Nat
      /\ Lived(c.start, t, S) \in Nat /\ Lived(t, n, S) \in Nat /\ Slept(c.start, t, S) \in Nat
  BY MomentsType
<1>7. d.active <= Lived(c.start, n, S)
  BY <1>3, <1>5, <1>6
<1>8. Slept(c.start, t, S) <= d.pause + Lived(t, n, S)
  BY <1>3, <1>5, <1>6
<1>9. Sound(d, n, S)
  BY <1>3, <1>7, <1>8 DEF Sound, NoTime
<1> QED
  BY <1>3, <1>4, <1>9
----------------------------------------------------------------------------
(* Types and places                                                        *)

LEMMA Bounds ==
  /\ NCompanies \in Nat /\ MaxCalls \in Nat /\ MaxRestarts \in Nat
  /\ MaxTime \in Nat \ {0} /\ Threshold \in Nat
BY WritersAssumption, ClockAssumption

LEMMA EmptyTypes ==
  Empty \in State /\ NoReport \in Reports /\ NoClock \in Clocks
BY DEF Empty, State, NoReport, NoClock, Clocks, Places, NoTime, Reports

LEMMA TypesInit == Init => TypeOK /\ PlaceInv
<1> SUFFICES ASSUME Init PROVE TypeOK /\ PlaceInv
  OBVIOUS
<1>1. TypeOK
  <2>1. pc \in [Threads -> Places] /\ back \in [Threads -> Places]
    BY DEF Init, Places
  <2>2. calls \in [Threads -> 0..MaxCalls] /\ span \in 0..MaxTime /\ restarts \in 0..MaxRestarts
        /\ now \in 1..MaxTime /\ asleep \in SUBSET (1..MaxTime)
    BY Bounds DEF Init, NoTime
  <2>3. /\ mem \in State /\ file \in State /\ snap \in [Threads -> State]
        /\ report \in [Threads -> Reports]
    BY EmptyTypes DEF Init
  <2> QED
    BY <2>1, <2>2, <2>3 DEF Init, TypeOK
<1>2. PlaceInv
  BY WritersAssumption DEF Init, PlaceInv, At, OnTheWay, Reporting, Writing, WorkerPlaces,
     AllEnded,
     Threads, Main
<1> QED
  BY <1>1, <1>2

LEMMA StateFields ==
  ASSUME NEW m \in State
  PROVE  /\ m.result \subseteq Companies /\ m.acked \subseteq Companies
         /\ m.ckpt \subseteq Companies
         /\ m.cost \in Nat /\ m.finished \in BOOLEAN /\ m.clock \in Clocks
BY DEF State

\* The changes a method makes to the state keep its type.
LEMMA StateUpdates ==
  ASSUME NEW m \in State
  PROVE  /\ \A R \in SUBSET Companies : [m EXCEPT !.result = R] \in State
         /\ \A A \in SUBSET Companies : [m EXCEPT !.acked = A] \in State
         /\ \A C \in SUBSET Companies : [m EXCEPT !.ckpt = C] \in State
         /\ \A C, A \in SUBSET Companies : [m EXCEPT !.ckpt = C, !.acked = A] \in State
         /\ \A n \in Nat : [m EXCEPT !.cost = n] \in State
         /\ \A b \in BOOLEAN : [m EXCEPT !.finished = b] \in State
         /\ \A k \in Clocks : [m EXCEPT !.clock = k] \in State
         /\ \A b \in BOOLEAN, k \in Clocks : [m EXCEPT !.finished = b, !.clock = k] \in State
         /\ \A R, C \in SUBSET Companies, n \in Nat :
              [m EXCEPT !.result = R, !.ckpt = C, !.cost = n] \in State
BY DEF State

\* What a report does to the types.
LEMMA ReportTypes ==
  ASSUME TypeOK, NEW t \in Threads, NEW moment \in Nat, NEW to \in Places, Report(t, moment, to)
  PROVE  /\ report' \in [Threads -> Reports]
         /\ pc' \in [Threads -> Places]
<1>1. [NoReport EXCEPT !.at = moment, !.next = to] \in Reports
  BY DEF NoReport, NoClock, Clocks, NoTime, Reports
<1>2. "advance" \in Places
  BY DEF Places
<1> QED
  BY <1>1, <1>2 DEF Report, TypeOK, Goto

LEMMA MainIsThread == Main \in Threads
BY DEF Threads

LEMMA MonotonicIsLived ==
  Monotonic = Lived(1, now, asleep)
<1>1. (1..now - 1) \ asleep = {s \in 1..now - 1 : s \notin asleep}
  OBVIOUS
<1> QED
  BY <1>1 DEF Monotonic, Lived

\* A thread in the middle of something belongs to a process at work.
LEMMA ThreadsRun ==
  ASSUME TypeOK, PlaceInv, NEW t \in Threads, pc[t] \notin {"off", "start"}
  PROVE  Running
BY DEF TypeOK, PlaceInv, Running, At, Threads, Reporting, Writing

LEMMA TypesNext ==
  ASSUME TypeOK, PlaceInv, [Next]_vars
  PROVE  TypeOK'
<1>1. ASSUME NEW t \in Threads, TakeResults(t)
      PROVE  TypeOK'
  <2>1. [snap[t] EXCEPT !.result = mem.result] \in State
    BY StateFields, StateUpdates DEF TypeOK
  <2> QED
    BY <1>1, <2>1 DEF TakeResults, Places, TypeOK, Goto, store, disk, outside
<1>2. ASSUME NEW t \in Threads, TakeMetadata(t)
      PROVE  TypeOK'
  <2>1. [mem EXCEPT !.result = snap[t].result] \in State
    BY StateFields, StateUpdates DEF TypeOK
  <2> QED
    BY <1>2, <2>1 DEF TakeMetadata, Places, TypeOK, Goto, store, disk, outside
<1>3. ASSUME NEW t \in Threads, ReplaceFile(t)
      PROVE  TypeOK'
  BY <1>3, EmptyTypes DEF ReplaceFile, Places, TypeOK, Goto, store, disk, outside
<1>4. ASSUME NEW t \in Threads, ReadClock(t)
      PROVE  TypeOK'
  <2>1. [report[t] EXCEPT !.clock = mem.clock] \in Reports
    BY StateFields DEF TypeOK, Reports
  <2> QED
    BY <1>4, <2>1 DEF ReadClock, Places, TypeOK, Goto, store, disk, outside
<1>29. ASSUME NEW t \in Threads, TakeTime(t)
      PROVE  TypeOK'
  <2>1. Monotonic \in Nat
    BY MonotonicIsLived, MomentsType DEF TypeOK
  <2>2. [report[t] EXCEPT !.upto = Monotonic] \in Reports
    BY <2>1 DEF TypeOK, Reports
  <2>3. apart' \in BOOLEAN
    BY <1>29 DEF TakeTime, TypeOK
  <2> QED
    BY <1>29, <2>2, <2>3 DEF TakeTime, Places, TypeOK, Goto, store, disk, outside
<1>30. ASSUME NEW t \in Threads, CountWork(t)
      PROVE  TypeOK'
  <2> DEFINE worked == IF report[t].upto < mono THEN 0 ELSE report[t].upto - mono
             clock == AdvanceClock(report[t].clock, report[t].at, worked)
  <2>1. clock \in Clocks
    <3>1. report[t].clock \in Clocks /\ report[t].at \in Nat /\ worked \in Nat
      BY DEF TypeOK, Reports
    <3> QED
      BY <3>1 DEF AdvanceClock, Clocks, OrElse, Elapsed, NoTime
  <2>2. [report[t] EXCEPT !.at = NoTime, !.clock = clock] \in Reports
    <3> HIDE DEF clock
    <3> QED
      BY <2>1 DEF TypeOK, Reports, NoTime
  <2>3. report' = [report EXCEPT ![t] = [report[t] EXCEPT !.at = NoTime, !.clock = clock]]
    BY <1>30 DEF CountWork, TypeOK, Reports
  <2> HIDE DEF clock
  <2> QED
    BY <1>30, <2>2, <2>3 DEF CountWork, Places, TypeOK, Goto, store, disk, outside
<1>31. ASSUME NEW t \in Threads, SetTime(t)
      PROVE  TypeOK'
  <2>1. [report[t] EXCEPT !.upto = 0] \in Reports /\ report[t].upto \in Nat
    BY DEF TypeOK, Reports
  <2> QED
    BY <1>31, <2>1 DEF SetTime, Places, TypeOK, Goto, store, disk, outside
<1>5. ASSUME NEW t \in Threads, StoreReport(t)
      PROVE  TypeOK'
  <2>1. [mem EXCEPT !.clock = report[t].clock] \in State /\ report[t].next \in Places
    BY StateFields, StateUpdates DEF TypeOK, Reports
  <2> QED
    BY <1>5, <2>1, EmptyTypes DEF StoreReport, TypeOK, Goto, store, disk, outside
<1>6. ASSUME NEW t \in Threads, ReadCost(t)
      PROVE  TypeOK'
  <2>1. mem.cost \in Nat
    BY StateFields DEF TypeOK
  <2> QED
    BY <1>6, <2>1 DEF ReadCost, Places, TypeOK, Goto, store, disk, outside
<1>7. ASSUME NEW t \in Threads, AddCost(t)
      PROVE  TypeOK'
  <2>1. [mem EXCEPT !.cost = seen[t] + 1] \in State
    <3>1. seen[t] + 1 \in Nat
      BY DEF TypeOK
    <3> QED
      BY <3>1, StateUpdates DEF TypeOK
  <2>2. /\ report' \in [Threads -> Reports]
        /\ pc' \in [Threads -> Places]
    BY <1>7, ReportTypes DEF AddCost, TypeOK, Places
  <2> QED
    BY <1>7, <2>1, <2>2 DEF AddCost, Places, TypeOK, Goto, store, disk, outside
<1>8. ASSUME NEW t \in Threads, AppendEvent(t)
      PROVE  TypeOK'
  BY <1>8, Bounds DEF AppendEvent, Places, TypeOK, Goto, store, disk, outside
<1>9. ASSUME NEW t \in Threads, StageDone(t)
      PROVE  TypeOK'
  BY <1>9 DEF StageDone, TypeOK, Goto, store, disk, outside
<1>10. ASSUME NEW t \in Threads, WorkerEnds(t)
      PROVE  TypeOK'
  BY <1>10 DEF WorkerEnds, Places, TypeOK, Goto, store, disk, outside
<1>11. CASE Capture
  <2>1. /\ report' \in [Threads -> Reports]
        /\ pc' \in [Threads -> Places]
    BY <1>11, ReportTypes, MainIsThread DEF Capture, TypeOK, Places
  <2> QED
    BY <1>11, <2>1, Bounds DEF Capture, NoTime, Places, TypeOK, Goto, store, disk, outside
<1>12. CASE ReplaySpan
  <2>1. /\ report' \in [Threads -> Reports]
        /\ pc' \in [Threads -> Places]
    BY <1>12, ReportTypes, MainIsThread DEF ReplaySpan, TypeOK, Places
  <2> QED
    BY <1>12, <2>1, Bounds DEF ReplaySpan, NoTime, Places, TypeOK, Goto, store, disk, outside
<1>13. CASE ReplayBatch
  <2>1. /\ report' \in [Threads -> Reports]
        /\ pc' \in [Threads -> Places]
    BY <1>13, ReportTypes, MainIsThread DEF ReplayBatch, TypeOK, Places
  <2> QED
    BY <1>13, <2>1, Bounds DEF ReplayBatch, NoTime, Places, TypeOK, Goto, store, disk, outside
<1>14. CASE Checkpoint
  <2>1. mem' \in State
    <3>1. PICK c \in Companies :
            mem' = [mem EXCEPT !.ckpt = mem.ckpt \cup {c}, !.acked = mem.acked \ {c}]
      BY <1>14 DEF Checkpoint, Update
    <3>2. mem.ckpt \cup {c} \in SUBSET Companies /\ mem.acked \ {c} \in SUBSET Companies
      BY StateFields DEF TypeOK
    <3> QED
      BY <3>1, <3>2, StateUpdates DEF TypeOK
  <2> QED
    BY <1>14, <2>1, MainIsThread DEF Checkpoint, Update, Persist, Places, TypeOK, Goto, store,
       disk, outside
<1>15. CASE ReportAck
  <2>1. /\ report' \in [Threads -> Reports]
        /\ pc' \in [Threads -> Places]
    BY <1>15, ReportTypes, MainIsThread DEF ReportAck, TypeOK, Places
  <2> QED
    BY <1>15, <2>1, Bounds DEF ReportAck, NoTime, Places, TypeOK, Goto, store, disk, outside
<1>16. CASE AckUnit
  <2>1. mem' \in State
    <3>1. PICK c \in Companies : mem' = [mem EXCEPT !.acked = mem.acked \cup {c}]
      BY <1>16 DEF AckUnit, Update
    <3>2. mem.acked \cup {c} \in SUBSET Companies
      BY StateFields DEF TypeOK
    <3> QED
      BY <3>1, <3>2, StateUpdates DEF TypeOK
  <2> QED
    BY <1>16, <2>1, MainIsThread DEF AckUnit, Update, Persist, Places, TypeOK, Goto, store,
       disk, outside
<1>17. CASE StoreResult
  <2>1. mem' \in State
    <3>1. PICK c \in Companies : mem' = [mem EXCEPT !.result = mem.result \cup {c}]
      BY <1>17 DEF StoreResult
    <3>2. mem.result \cup {c} \in SUBSET Companies
      BY StateFields DEF TypeOK
    <3> QED
      BY <3>1, <3>2, StateUpdates DEF TypeOK
  <2> QED
    BY <1>17, <2>1, MainIsThread DEF StoreResult, Update, Persist, Places, TypeOK, Goto, store,
       disk, outside
<1>18. CASE DropCheckpoint
  <2>1. mem' \in State
    BY <1>18, StateFields, StateUpdates DEF DropCheckpoint, Update, TypeOK
  <2> QED
    BY <1>18, <2>1, MainIsThread DEF DropCheckpoint, Update, Persist, Places, TypeOK, Goto,
       store, disk, outside
<1>19. CASE ReportFinal
  <2>1. /\ report' \in [Threads -> Reports]
        /\ pc' \in [Threads -> Places]
    BY <1>19, ReportTypes, MainIsThread DEF ReportFinal, TypeOK, Places
  <2> QED
    BY <1>19, <2>1, Bounds DEF ReportFinal, NoTime, Places, TypeOK, Goto, store, disk, outside
<1>20. CASE ReportEnd
  <2>1. /\ report' \in [Threads -> Reports]
        /\ pc' \in [Threads -> Places]
    BY <1>20, ReportTypes, MainIsThread DEF ReportEnd, TypeOK, Places
  <2> QED
    BY <1>20, <2>1, Bounds DEF ReportEnd, NoTime, Places, TypeOK, Goto, store, disk, outside
<1>21. CASE RunFinished
  <2>1. mem' \in State
    BY <1>21, StateFields, StateUpdates DEF RunFinished, Update, TypeOK
  <2> QED
    BY <1>21, <2>1, MainIsThread DEF RunFinished, Update, Persist, Places, TypeOK, Goto, store,
       disk, outside
<1>22. CASE Stop
  BY <1>22, MainIsThread DEF Stop, Places, TypeOK, Goto, store, disk, outside
<1>23. CASE RunStarted
  <2>1. mem' \in State
    <3>1. StartClock(mem.clock, now) \in Clocks
      BY StateFields DEF StartClock, Clocks, OrElse, Elapsed, NoTime, TypeOK
    <3> QED
      BY <1>23, <3>1, StateUpdates DEF RunStarted, TypeOK
  <2>2. Monotonic \in Nat
    BY MonotonicIsLived, MomentsType DEF TypeOK
  <2> QED
    BY <1>23, <2>1, <2>2, MainIsThread DEF RunStarted, Persist, Places, TypeOK, Goto, store,
       disk, outside
<1>24. CASE OpenPools
  BY <1>24 DEF OpenPools, Places, TypeOK, Goto, store, disk, outside
<1>25. CASE Kill
  <2>1. pc' \in [Threads -> Places] /\ back' \in [Threads -> Places]
    BY <1>25 DEF Kill, Places
  <2>2. torn' \in BOOLEAN /\ span' \in 0..MaxTime
    <3>1. torn' \in BOOLEAN
      BY <1>25 DEF Kill, TypeOK
    <3>2. span' = 0
      BY <1>25 DEF Kill, NoTime
    <3> QED
      BY <3>1, <3>2, Bounds
  <2>3. /\ mem' \in State /\ snap' \in [Threads -> State]
        /\ report' \in [Threads -> Reports]
    BY <1>25, EmptyTypes DEF Kill
  <2> QED
    BY <1>25, <2>1, <2>2, <2>3 DEF Kill, TypeOK, outside
<1>26. CASE Load
  <2>1. mem' \in State
    <3>1. Promoted \in SUBSET Companies /\ CostOfLog \in Nat
      BY StateFields DEF Promoted, CostOfLog, TypeOK
    <3> DEFINE results == file.result \cup Promoted
    <3>2. results \in SUBSET Companies /\ file.ckpt \ results \in SUBSET Companies
      BY <3>1, StateFields DEF TypeOK
    <3>3. mem' = [file EXCEPT !.result = results, !.ckpt = @ \ results, !.cost = CostOfLog]
      BY <1>26 DEF Load
    <3> HIDE DEF results
    <3> QED
      BY <3>1, <3>2, <3>3, StateUpdates DEF TypeOK
  <2>2. restarts' \in 0..MaxRestarts
    BY <1>26, Bounds DEF Load, PlaceInv, TypeOK
  <2> QED
    BY <1>26, <2>1, <2>2, MainIsThread DEF Load, Places, TypeOK, Goto, store, disk, outside
<1>27. CASE TimePasses
  BY <1>27, Bounds DEF TimePasses, TypeOK, Goto, store, disk, outside
<1>28. CASE UNCHANGED vars
  BY <1>28 DEF vars, TypeOK, Goto, store, disk, outside
<1> QED
  BY <1>1, <1>2, <1>3, <1>4, <1>5, <1>6, <1>7, <1>8, <1>9, <1>10, <1>11, <1>12, <1>13, <1>14,
     <1>15, <1>16, <1>17, <1>18, <1>19, <1>20, <1>21, <1>22, <1>23, <1>24, <1>25, <1>26, <1>27,
     <1>28, <1>29, <1>30, <1>31 DEF Next, ThreadStep, MainStep

\* Threads keep to their places.
LEMMA PlacesNext ==
  ASSUME TypeOK, TypeOK', PlaceInv, [Next]_vars
  PROVE  PlaceInv'
<1> USE WritersAssumption DEF TypeOK, PlaceInv, At, OnTheWay, Reporting, Writing, WorkerPlaces,
        AllEnded, Goto, Threads, store, disk, outside
<1>1. ASSUME NEW t \in Threads, TakeResults(t)
      PROVE  PlaceInv'
  BY <1>1 DEF TakeResults
<1>2. ASSUME NEW t \in Threads, TakeMetadata(t)
      PROVE  PlaceInv'
  BY <1>2 DEF TakeMetadata
<1>3. ASSUME NEW t \in Threads, ReplaceFile(t)
      PROVE  PlaceInv'
  BY <1>3 DEF ReplaceFile
<1>4. ASSUME NEW t \in Threads, ReadClock(t)
      PROVE  PlaceInv'
  BY <1>4 DEF ReadClock
<1>29. ASSUME NEW t \in Threads, TakeTime(t)
      PROVE  PlaceInv'
  BY <1>29 DEF TakeTime
<1>30. ASSUME NEW t \in Threads, CountWork(t)
      PROVE  PlaceInv'
  BY <1>30 DEF CountWork
<1>31. ASSUME NEW t \in Threads, SetTime(t)
      PROVE  PlaceInv'
  BY <1>31 DEF SetTime
<1>5. ASSUME NEW t \in Threads, StoreReport(t)
      PROVE  PlaceInv'
  BY <1>5 DEF StoreReport
<1>6. ASSUME NEW t \in Threads, ReadCost(t)
      PROVE  PlaceInv'
  BY <1>6 DEF ReadCost
<1>7. ASSUME NEW t \in Threads, AddCost(t)
      PROVE  PlaceInv'
  BY <1>7 DEF AddCost, Report
<1>8. ASSUME NEW t \in Threads, AppendEvent(t)
      PROVE  PlaceInv'
  BY <1>8 DEF AppendEvent
<1>9. ASSUME NEW t \in Threads, StageDone(t)
      PROVE  PlaceInv'
  BY <1>9 DEF StageDone
<1>10. ASSUME NEW t \in Threads, WorkerEnds(t)
      PROVE  PlaceInv'
  BY <1>10 DEF WorkerEnds
<1>11. CASE Capture
  BY <1>11 DEF Capture, Report
<1>12. CASE ReplaySpan
  BY <1>12 DEF ReplaySpan, Report
<1>13. CASE ReplayBatch
  BY <1>13 DEF ReplayBatch, Report
<1>14. CASE Checkpoint
  BY <1>14 DEF Checkpoint, Update, Persist, IsCurrent, Unsettled
<1>15. CASE ReportAck
  BY <1>15 DEF ReportAck, Report
<1>16. CASE AckUnit
  BY <1>16 DEF AckUnit, Update, Persist, IsCurrent, Unsettled
<1>17. CASE StoreResult
  BY <1>17 DEF StoreResult, IsCurrent, Unsettled
<1>18. CASE DropCheckpoint
  BY <1>18 DEF DropCheckpoint, Update, Persist
<1>19. CASE ReportFinal
  BY <1>19 DEF ReportFinal, Report
<1>20. CASE ReportEnd
  BY <1>20 DEF ReportEnd, Report
<1>21. CASE RunFinished
  BY <1>21 DEF RunFinished, Update, Persist
<1>22. CASE Stop
  BY <1>22 DEF Stop
<1>23. CASE RunStarted
  BY <1>23 DEF RunStarted, Persist
<1>24. CASE OpenPools
  BY <1>24 DEF OpenPools
<1>25. CASE Kill
  BY <1>25 DEF Kill, Empty, NoReport, NoClock
<1>26. CASE Load
  BY <1>26 DEF Load, Promoted, CostOfLog
<1>27. CASE TimePasses
  BY <1>27 DEF TimePasses
<1>28. CASE UNCHANGED vars
  BY <1>28 DEF vars, store, disk, outside
<1> QED
  BY <1>1, <1>2, <1>3, <1>4, <1>5, <1>6, <1>7, <1>8, <1>9, <1>10, <1>11, <1>12, <1>13, <1>14,
     <1>15, <1>16, <1>17, <1>18, <1>19, <1>20, <1>21, <1>22, <1>23, <1>24, <1>25, <1>26, <1>27,
     <1>28, <1>29, <1>30, <1>31 DEF Next, ThreadStep, MainStep

----------------------------------------------------------------------------
(* One writer                                                              *)

\* A worker that has spoken never becomes silent again.
LEMMA SilenceEnds ==
  ASSUME TypeOK, TypeOK', WorkersSilent', [Next]_vars
  PROVE  WorkersSilent
<1> USE DEF TypeOK, WorkersSilent, Goto, Threads, store, disk, outside
<1>1. ASSUME NEW t \in Threads, TakeResults(t)
      PROVE  WorkersSilent
  BY <1>1 DEF TakeResults
<1>2. ASSUME NEW t \in Threads, TakeMetadata(t)
      PROVE  WorkersSilent
  BY <1>2 DEF TakeMetadata
<1>3. ASSUME NEW t \in Threads, ReplaceFile(t)
      PROVE  WorkersSilent
  BY <1>3 DEF ReplaceFile
<1>4. ASSUME NEW t \in Threads, ReadClock(t)
      PROVE  WorkersSilent
  BY <1>4 DEF ReadClock
<1>29. ASSUME NEW t \in Threads, TakeTime(t)
      PROVE  WorkersSilent
  BY <1>29 DEF TakeTime
<1>30. ASSUME NEW t \in Threads, CountWork(t)
      PROVE  WorkersSilent
  BY <1>30 DEF CountWork
<1>31. ASSUME NEW t \in Threads, SetTime(t)
      PROVE  WorkersSilent
  BY <1>31 DEF SetTime
<1>5. ASSUME NEW t \in Threads, StoreReport(t)
      PROVE  WorkersSilent
  BY <1>5 DEF StoreReport
<1>6. ASSUME NEW t \in Threads, ReadCost(t)
      PROVE  WorkersSilent
  BY <1>6 DEF ReadCost
<1>7. ASSUME NEW t \in Threads, AddCost(t)
      PROVE  WorkersSilent
  BY <1>7 DEF AddCost, Report
<1>8. ASSUME NEW t \in Threads, AppendEvent(t)
      PROVE  WorkersSilent
  BY <1>8 DEF AppendEvent
<1>9. ASSUME NEW t \in Threads, StageDone(t)
      PROVE  WorkersSilent
  BY <1>9 DEF StageDone
<1>10. ASSUME NEW t \in Threads, WorkerEnds(t)
      PROVE  WorkersSilent
  BY <1>10 DEF WorkerEnds
<1>11. CASE Capture
  BY <1>11 DEF Capture, Report
<1>12. CASE ReplaySpan
  BY <1>12 DEF ReplaySpan, Report
<1>13. CASE ReplayBatch
  BY <1>13 DEF ReplayBatch, Report
<1>14. CASE Checkpoint
  BY <1>14 DEF Checkpoint, Update, Persist, IsCurrent, Unsettled
<1>15. CASE ReportAck
  BY <1>15 DEF ReportAck, Report
<1>16. CASE AckUnit
  BY <1>16 DEF AckUnit, Update, Persist, IsCurrent, Unsettled
<1>17. CASE StoreResult
  BY <1>17 DEF StoreResult, IsCurrent, Unsettled
<1>18. CASE DropCheckpoint
  BY <1>18 DEF DropCheckpoint, Update, Persist
<1>19. CASE ReportFinal
  BY <1>19 DEF ReportFinal, Report
<1>20. CASE ReportEnd
  BY <1>20 DEF ReportEnd, Report
<1>21. CASE RunFinished
  BY <1>21 DEF RunFinished, Update, Persist
<1>22. CASE Stop
  BY <1>22 DEF Stop
<1>23. CASE RunStarted
  BY <1>23 DEF RunStarted, Persist
<1>24. CASE OpenPools
  BY <1>24 DEF OpenPools
<1>25. CASE Kill
  BY <1>25 DEF Kill, Empty, NoReport, NoClock
<1>26. CASE Load
  BY <1>26 DEF Load, Promoted, CostOfLog
<1>27. CASE TimePasses
  BY <1>27 DEF TimePasses
<1>28. CASE UNCHANGED vars
  BY <1>28 DEF vars, store, disk, outside
<1> QED
  BY <1>1, <1>2, <1>3, <1>4, <1>5, <1>6, <1>7, <1>8, <1>9, <1>10, <1>11, <1>12, <1>13, <1>14,
     <1>15, <1>16, <1>17, <1>18, <1>19, <1>20, <1>21, <1>22, <1>23, <1>24, <1>25, <1>26, <1>27,
     <1>28, <1>29, <1>30, <1>31 DEF Next, ThreadStep, MainStep

\* A silent worker stays out of the state.
LEMMA SilentNext ==
  ASSUME TypeOK, TypeOK', PlaceInv, SilentInv, [Next]_vars
  PROVE  SilentInv'
<1> USE WritersAssumption DEF TypeOK, SilentInv, WorkersSilent, Goto, Threads, store, disk,
        outside
<1>1. ASSUME NEW t \in Threads, TakeResults(t)
      PROVE  SilentInv'
  BY <1>1 DEF TakeResults
<1>2. ASSUME NEW t \in Threads, TakeMetadata(t)
      PROVE  SilentInv'
  BY <1>2 DEF TakeMetadata
<1>3. ASSUME NEW t \in Threads, ReplaceFile(t)
      PROVE  SilentInv'
  BY <1>3 DEF ReplaceFile
<1>4. ASSUME NEW t \in Threads, ReadClock(t)
      PROVE  SilentInv'
  BY <1>4 DEF ReadClock
<1>29. ASSUME NEW t \in Threads, TakeTime(t)
      PROVE  SilentInv'
  BY <1>29 DEF TakeTime
<1>30. ASSUME NEW t \in Threads, CountWork(t)
      PROVE  SilentInv'
  BY <1>30 DEF CountWork
<1>31. ASSUME NEW t \in Threads, SetTime(t)
      PROVE  SilentInv'
  BY <1>31 DEF SetTime
<1>5. ASSUME NEW t \in Threads, StoreReport(t)
      PROVE  SilentInv'
  BY <1>5 DEF StoreReport
<1>6. ASSUME NEW t \in Threads, ReadCost(t)
      PROVE  SilentInv'
  BY <1>6 DEF ReadCost
<1>7. ASSUME NEW t \in Threads, AddCost(t)
      PROVE  SilentInv'
  BY <1>7 DEF AddCost, Report
<1>8. ASSUME NEW t \in Threads, AppendEvent(t)
      PROVE  SilentInv'
  BY <1>8 DEF AppendEvent
<1>9. ASSUME NEW t \in Threads, StageDone(t)
      PROVE  SilentInv'
  BY <1>9 DEF StageDone
<1>10. ASSUME NEW t \in Threads, WorkerEnds(t)
      PROVE  SilentInv'
  BY <1>10 DEF WorkerEnds
<1>11. CASE Capture
  BY <1>11 DEF Capture, Report
<1>12. CASE ReplaySpan
  BY <1>12 DEF ReplaySpan, Report
<1>13. CASE ReplayBatch
  BY <1>13 DEF ReplayBatch, Report
<1>14. CASE Checkpoint
  BY <1>14 DEF Checkpoint, Update, Persist, IsCurrent, Unsettled
<1>15. CASE ReportAck
  BY <1>15 DEF ReportAck, Report
<1>16. CASE AckUnit
  BY <1>16 DEF AckUnit, Update, Persist, IsCurrent, Unsettled
<1>17. CASE StoreResult
  BY <1>17 DEF StoreResult, IsCurrent, Unsettled
<1>18. CASE DropCheckpoint
  BY <1>18 DEF DropCheckpoint, Update, Persist
<1>19. CASE ReportFinal
  BY <1>19 DEF ReportFinal, Report
<1>20. CASE ReportEnd
  BY <1>20 DEF ReportEnd, Report
<1>21. CASE RunFinished
  BY <1>21 DEF RunFinished, Update, Persist
<1>22. CASE Stop
  BY <1>22 DEF Stop
<1>23. CASE RunStarted
  BY <1>23 DEF RunStarted, Persist
<1>24. CASE OpenPools
  BY <1>24 DEF OpenPools
<1>25. CASE Kill
  BY <1>25 DEF Kill, Empty, NoReport, NoClock
<1>26. CASE Load
  BY <1>26 DEF Load, Promoted, CostOfLog
<1>27. CASE TimePasses
  BY <1>27 DEF TimePasses
<1>28. CASE UNCHANGED vars
  BY <1>28 DEF vars, store, disk, outside
<1> QED
  BY <1>1, <1>2, <1>3, <1>4, <1>5, <1>6, <1>7, <1>8, <1>9, <1>10, <1>11, <1>12, <1>13, <1>14,
     <1>15, <1>16, <1>17, <1>18, <1>19, <1>20, <1>21, <1>22, <1>23, <1>24, <1>25, <1>26, <1>27,
     <1>28, <1>29, <1>30, <1>31 DEF Next, ThreadStep, MainStep

\* The only writer writes what it has.
LEMMA SnapNext ==
  ASSUME TypeOK, TypeOK', PlaceInv, PlaceInv', SilentInv, SilentInv', SnapInv, [Next]_vars
  PROVE  SnapInv'
<1> USE WritersAssumption, SilenceEnds DEF TypeOK, PlaceInv, At, OnTheWay, Reporting, Writing,
        SilentInv, SnapInv, AllEnded, Goto, Threads, store, disk, outside
<1>1. ASSUME NEW t \in Threads, TakeResults(t)
      PROVE  SnapInv'
  BY <1>1 DEF TakeResults
<1>2. ASSUME NEW t \in Threads, TakeMetadata(t)
      PROVE  SnapInv'
  <2>1. CASE t = Main
    <3>1. snap[Main].result = mem.result => [mem EXCEPT !.result = snap[Main].result] = mem
      BY DEF State
    <3> QED
      BY <1>2, <2>1, <3>1, MainIsThread DEF TakeMetadata
  <2>2. CASE t # Main
    BY <1>2, <2>2 DEF TakeMetadata
  <2> QED
    BY <2>1, <2>2
<1>3. ASSUME NEW t \in Threads, ReplaceFile(t)
      PROVE  SnapInv'
  BY <1>3 DEF ReplaceFile
<1>4. ASSUME NEW t \in Threads, ReadClock(t)
      PROVE  SnapInv'
  BY <1>4 DEF ReadClock
<1>29. ASSUME NEW t \in Threads, TakeTime(t)
      PROVE  SnapInv'
  BY <1>29 DEF TakeTime
<1>30. ASSUME NEW t \in Threads, CountWork(t)
      PROVE  SnapInv'
  BY <1>30 DEF CountWork
<1>31. ASSUME NEW t \in Threads, SetTime(t)
      PROVE  SnapInv'
  BY <1>31 DEF SetTime
<1>5. ASSUME NEW t \in Threads, StoreReport(t)
      PROVE  SnapInv'
  BY <1>5 DEF StoreReport
<1>6. ASSUME NEW t \in Threads, ReadCost(t)
      PROVE  SnapInv'
  BY <1>6 DEF ReadCost
<1>7. ASSUME NEW t \in Threads, AddCost(t)
      PROVE  SnapInv'
  BY <1>7 DEF AddCost, Report
<1>8. ASSUME NEW t \in Threads, AppendEvent(t)
      PROVE  SnapInv'
  BY <1>8 DEF AppendEvent
<1>9. ASSUME NEW t \in Threads, StageDone(t)
      PROVE  SnapInv'
  BY <1>9 DEF StageDone
<1>10. ASSUME NEW t \in Threads, WorkerEnds(t)
      PROVE  SnapInv'
  BY <1>10 DEF WorkerEnds
<1>11. CASE Capture
  BY <1>11 DEF Capture, Report
<1>12. CASE ReplaySpan
  BY <1>12 DEF ReplaySpan, Report
<1>13. CASE ReplayBatch
  BY <1>13 DEF ReplayBatch, Report
<1>14. CASE Checkpoint
  BY <1>14 DEF Checkpoint, Update, Persist, IsCurrent, Unsettled
<1>15. CASE ReportAck
  BY <1>15 DEF ReportAck, Report
<1>16. CASE AckUnit
  BY <1>16 DEF AckUnit, Update, Persist, IsCurrent, Unsettled
<1>17. CASE StoreResult
  BY <1>17 DEF StoreResult, IsCurrent, Unsettled
<1>18. CASE DropCheckpoint
  BY <1>18 DEF DropCheckpoint, Update, Persist
<1>19. CASE ReportFinal
  BY <1>19 DEF ReportFinal, Report
<1>20. CASE ReportEnd
  BY <1>20 DEF ReportEnd, Report
<1>21. CASE RunFinished
  BY <1>21 DEF RunFinished, Update, Persist
<1>22. CASE Stop
  BY <1>22 DEF Stop
<1>23. CASE RunStarted
  BY <1>23 DEF RunStarted, Persist
<1>24. CASE OpenPools
  BY <1>24 DEF OpenPools
<1>25. CASE Kill
  BY <1>25 DEF Kill, Empty, NoReport, NoClock
<1>26. CASE Load
  BY <1>26 DEF Load, Promoted, CostOfLog
<1>27. CASE TimePasses
  BY <1>27 DEF TimePasses
<1>28. CASE UNCHANGED vars
  BY <1>28 DEF vars, store, disk, outside
<1> QED
  BY <1>1, <1>2, <1>3, <1>4, <1>5, <1>6, <1>7, <1>8, <1>9, <1>10, <1>11, <1>12, <1>13, <1>14,
     <1>15, <1>16, <1>17, <1>18, <1>19, <1>20, <1>21, <1>22, <1>23, <1>24, <1>25, <1>26, <1>27,
     <1>28, <1>29, <1>30, <1>31 DEF Next, ThreadStep, MainStep

\* When the run has ended nobody writes.
LEMMA FinalNext ==
  ASSUME TypeOK, TypeOK', PlaceInv, PlaceInv', SnapInv, FinalFileIsMemory, [Next]_vars
  PROVE  FinalFileIsMemory'
<1> USE WritersAssumption DEF TypeOK, PlaceInv, At, OnTheWay, Reporting, Writing, SnapInv,
        FinalFileIsMemory, AllEnded, Goto, Threads, store, disk, outside
<1>1. ASSUME NEW t \in Threads, TakeResults(t)
      PROVE  FinalFileIsMemory'
  BY <1>1 DEF TakeResults
<1>2. ASSUME NEW t \in Threads, TakeMetadata(t)
      PROVE  FinalFileIsMemory'
  BY <1>2 DEF TakeMetadata
<1>3. ASSUME NEW t \in Threads, ReplaceFile(t)
      PROVE  FinalFileIsMemory'
  BY <1>3 DEF ReplaceFile
<1>4. ASSUME NEW t \in Threads, ReadClock(t)
      PROVE  FinalFileIsMemory'
  BY <1>4 DEF ReadClock
<1>29. ASSUME NEW t \in Threads, TakeTime(t)
      PROVE  FinalFileIsMemory'
  BY <1>29 DEF TakeTime
<1>30. ASSUME NEW t \in Threads, CountWork(t)
      PROVE  FinalFileIsMemory'
  BY <1>30 DEF CountWork
<1>31. ASSUME NEW t \in Threads, SetTime(t)
      PROVE  FinalFileIsMemory'
  BY <1>31 DEF SetTime
<1>5. ASSUME NEW t \in Threads, StoreReport(t)
      PROVE  FinalFileIsMemory'
  BY <1>5 DEF StoreReport
<1>6. ASSUME NEW t \in Threads, ReadCost(t)
      PROVE  FinalFileIsMemory'
  BY <1>6 DEF ReadCost
<1>7. ASSUME NEW t \in Threads, AddCost(t)
      PROVE  FinalFileIsMemory'
  BY <1>7 DEF AddCost, Report
<1>8. ASSUME NEW t \in Threads, AppendEvent(t)
      PROVE  FinalFileIsMemory'
  BY <1>8 DEF AppendEvent
<1>9. ASSUME NEW t \in Threads, StageDone(t)
      PROVE  FinalFileIsMemory'
  BY <1>9 DEF StageDone
<1>10. ASSUME NEW t \in Threads, WorkerEnds(t)
      PROVE  FinalFileIsMemory'
  BY <1>10 DEF WorkerEnds
<1>11. CASE Capture
  BY <1>11 DEF Capture, Report
<1>12. CASE ReplaySpan
  BY <1>12 DEF ReplaySpan, Report
<1>13. CASE ReplayBatch
  BY <1>13 DEF ReplayBatch, Report
<1>14. CASE Checkpoint
  BY <1>14 DEF Checkpoint, Update, Persist, IsCurrent, Unsettled
<1>15. CASE ReportAck
  BY <1>15 DEF ReportAck, Report
<1>16. CASE AckUnit
  BY <1>16 DEF AckUnit, Update, Persist, IsCurrent, Unsettled
<1>17. CASE StoreResult
  BY <1>17 DEF StoreResult, IsCurrent, Unsettled
<1>18. CASE DropCheckpoint
  BY <1>18 DEF DropCheckpoint, Update, Persist
<1>19. CASE ReportFinal
  BY <1>19 DEF ReportFinal, Report
<1>20. CASE ReportEnd
  BY <1>20 DEF ReportEnd, Report
<1>21. CASE RunFinished
  BY <1>21 DEF RunFinished, Update, Persist
<1>22. CASE Stop
  BY <1>22 DEF Stop
<1>23. CASE RunStarted
  BY <1>23 DEF RunStarted, Persist
<1>24. CASE OpenPools
  BY <1>24 DEF OpenPools
<1>25. CASE Kill
  BY <1>25 DEF Kill, Empty, NoReport, NoClock
<1>26. CASE Load
  BY <1>26 DEF Load, Promoted, CostOfLog
<1>27. CASE TimePasses
  BY <1>27 DEF TimePasses
<1>28. CASE UNCHANGED vars
  BY <1>28 DEF vars, store, disk, outside
<1> QED
  BY <1>1, <1>2, <1>3, <1>4, <1>5, <1>6, <1>7, <1>8, <1>9, <1>10, <1>11, <1>12, <1>13, <1>14,
     <1>15, <1>16, <1>17, <1>18, <1>19, <1>20, <1>21, <1>22, <1>23, <1>24, <1>25, <1>26, <1>27,
     <1>28, <1>29, <1>30, <1>31 DEF Next, ThreadStep, MainStep

\* The only writer loses no event.
LEMMA CostNext ==
  ASSUME TypeOK, TypeOK', PlaceInv, SilentInv, CostInv, [Next]_vars
  PROVE  CostInv'
<1> USE WritersAssumption, SilenceEnds DEF TypeOK, State, PlaceInv, At, OnTheWay, Reporting,
        Writing, SilentInv, CostInv, Goto, Threads, store, disk, outside
<1>1. ASSUME NEW t \in Threads, TakeResults(t)
      PROVE  CostInv'
  BY <1>1 DEF TakeResults
<1>2. ASSUME NEW t \in Threads, TakeMetadata(t)
      PROVE  CostInv'
  BY <1>2 DEF TakeMetadata
<1>3. ASSUME NEW t \in Threads, ReplaceFile(t)
      PROVE  CostInv'
  <2>1. CASE t = Main
    BY <1>3, <2>1 DEF ReplaceFile
  <2>2. CASE t # Main
    BY <1>3, <2>2 DEF ReplaceFile, WorkersSilent
  <2> QED
    BY <2>1, <2>2
<1>4. ASSUME NEW t \in Threads, ReadClock(t)
      PROVE  CostInv'
  BY <1>4 DEF ReadClock
<1>29. ASSUME NEW t \in Threads, TakeTime(t)
      PROVE  CostInv'
  BY <1>29 DEF TakeTime
<1>30. ASSUME NEW t \in Threads, CountWork(t)
      PROVE  CostInv'
  BY <1>30 DEF CountWork
<1>31. ASSUME NEW t \in Threads, SetTime(t)
      PROVE  CostInv'
  BY <1>31 DEF SetTime
<1>5. ASSUME NEW t \in Threads, StoreReport(t)
      PROVE  CostInv'
  <2>1. CASE t = Main
    BY <1>5, <2>1 DEF StoreReport
  <2>2. CASE t # Main
    BY <1>5, <2>2 DEF StoreReport, WorkersSilent
  <2> QED
    BY <2>1, <2>2
<1>6. ASSUME NEW t \in Threads, ReadCost(t)
      PROVE  CostInv'
  BY <1>6 DEF ReadCost
<1>7. ASSUME NEW t \in Threads, AddCost(t)
      PROVE  CostInv'
  <2>1. CASE t = Main
    BY <1>7, <2>1 DEF AddCost, Report
  <2>2. CASE t # Main
    BY <1>7, <2>2 DEF AddCost, Report, WorkersSilent
  <2> QED
    BY <2>1, <2>2
<1>8. ASSUME NEW t \in Threads, AppendEvent(t)
      PROVE  CostInv'
  <2>1. CASE t = Main
    BY <1>8, <2>1 DEF AppendEvent
  <2>2. CASE t # Main
    BY <1>8, <2>2 DEF AppendEvent, WorkersSilent
  <2> QED
    BY <2>1, <2>2
<1>9. ASSUME NEW t \in Threads, StageDone(t)
      PROVE  CostInv'
  BY <1>9 DEF StageDone
<1>10. ASSUME NEW t \in Threads, WorkerEnds(t)
      PROVE  CostInv'
  BY <1>10 DEF WorkerEnds
<1>11. CASE Capture
  BY <1>11 DEF Capture, Report
<1>12. CASE ReplaySpan
  BY <1>12 DEF ReplaySpan, Report
<1>13. CASE ReplayBatch
  BY <1>13 DEF ReplayBatch, Report
<1>14. CASE Checkpoint
  BY <1>14 DEF Checkpoint, Update, Persist, IsCurrent, Unsettled
<1>15. CASE ReportAck
  BY <1>15 DEF ReportAck, Report
<1>16. CASE AckUnit
  BY <1>16 DEF AckUnit, Update, Persist, IsCurrent, Unsettled
<1>17. CASE StoreResult
  BY <1>17 DEF StoreResult, IsCurrent, Unsettled
<1>18. CASE DropCheckpoint
  BY <1>18 DEF DropCheckpoint, Update, Persist
<1>19. CASE ReportFinal
  BY <1>19 DEF ReportFinal, Report
<1>20. CASE ReportEnd
  BY <1>20 DEF ReportEnd, Report
<1>21. CASE RunFinished
  BY <1>21 DEF RunFinished, Update, Persist
<1>22. CASE Stop
  BY <1>22 DEF Stop
<1>23. CASE RunStarted
  BY <1>23 DEF RunStarted, Persist
<1>24. CASE OpenPools
  BY <1>24 DEF OpenPools
<1>25. CASE Kill
  BY <1>25 DEF Kill, Empty, NoReport, NoClock
<1>26. CASE Load
  BY <1>26 DEF Load, Promoted, CostOfLog
<1>27. CASE TimePasses
  BY <1>27 DEF TimePasses
<1>28. CASE UNCHANGED vars
  BY <1>28 DEF vars, store, disk, outside
<1> QED
  BY <1>1, <1>2, <1>3, <1>4, <1>5, <1>6, <1>7, <1>8, <1>9, <1>10, <1>11, <1>12, <1>13, <1>14,
     <1>15, <1>16, <1>17, <1>18, <1>19, <1>20, <1>21, <1>22, <1>23, <1>24, <1>25, <1>26, <1>27,
     <1>28, <1>29, <1>30, <1>31 DEF Next, ThreadStep, MainStep

\* The main thread works on one company.
LEMMA OneIsCurrent ==
  ASSUME NEW c \in Companies, NEW d \in Companies, IsCurrent(c), IsCurrent(d)
  PROVE  c = d
<1>1. c \in Int /\ d \in Int /\ c <= d /\ d <= c
  BY Bounds DEF IsCurrent, Companies
<1> QED
  BY <1>1

\* A unit is acknowledged only after its checkpoint or result.
LEMMA RowNext ==
  ASSUME TypeOK, TypeOK', PlaceInv, SilentInv, RowInv, WorkersSilent => FileRecoverable,
         [Next]_vars
  PROVE  RowInv'
<1> USE WritersAssumption, SilenceEnds DEF TypeOK, State, PlaceInv, At, OnTheWay, Reporting,
        Writing, SilentInv, RowInv, IsCurrent, Unsettled, Recoverable, FileRecoverable, Goto,
        Threads, store, disk, outside
<1>1. ASSUME NEW t \in Threads, TakeResults(t)
      PROVE  RowInv'
  BY <1>1 DEF TakeResults
<1>2. ASSUME NEW t \in Threads, TakeMetadata(t)
      PROVE  RowInv'
  BY <1>2 DEF TakeMetadata
<1>3. ASSUME NEW t \in Threads, ReplaceFile(t)
      PROVE  RowInv'
  BY <1>3 DEF ReplaceFile
<1>4. ASSUME NEW t \in Threads, ReadClock(t)
      PROVE  RowInv'
  BY <1>4 DEF ReadClock
<1>29. ASSUME NEW t \in Threads, TakeTime(t)
      PROVE  RowInv'
  BY <1>29 DEF TakeTime
<1>30. ASSUME NEW t \in Threads, CountWork(t)
      PROVE  RowInv'
  BY <1>30 DEF CountWork
<1>31. ASSUME NEW t \in Threads, SetTime(t)
      PROVE  RowInv'
  BY <1>31 DEF SetTime
<1>5. ASSUME NEW t \in Threads, StoreReport(t)
      PROVE  RowInv'
  BY <1>5 DEF StoreReport
<1>6. ASSUME NEW t \in Threads, ReadCost(t)
      PROVE  RowInv'
  BY <1>6 DEF ReadCost
<1>7. ASSUME NEW t \in Threads, AddCost(t)
      PROVE  RowInv'
  BY <1>7 DEF AddCost, Report
<1>8. ASSUME NEW t \in Threads, AppendEvent(t)
      PROVE  RowInv'
  BY <1>8 DEF AppendEvent
<1>9. ASSUME NEW t \in Threads, StageDone(t)
      PROVE  RowInv'
  BY <1>9 DEF StageDone
<1>10. ASSUME NEW t \in Threads, WorkerEnds(t)
      PROVE  RowInv'
  BY <1>10 DEF WorkerEnds
<1>11. CASE Capture
  BY <1>11 DEF Capture, Report
<1>12. CASE ReplaySpan
  BY <1>12 DEF ReplaySpan, Report
<1>13. CASE ReplayBatch
  BY <1>13 DEF ReplayBatch, Report
<1>14. CASE Checkpoint
  BY <1>14 DEF Checkpoint, Update, Persist, IsCurrent, Unsettled
<1>15. CASE ReportAck
  BY <1>15 DEF ReportAck, Report
<1>16. CASE AckUnit
  <2> SUFFICES ASSUME WorkersSilent'
               PROVE  Recoverable(mem)' /\ At(Main)' \notin {"ack", "acked"}
    OBVIOUS
  <2>1. At(Main) = "acked" /\ At(Main)' \in {"idle", "store"}
    BY <1>16, MainIsThread DEF AckUnit, Update, Persist
  <2>2. PICK c \in Companies : IsCurrent(c) /\ mem' = [mem EXCEPT !.acked = @ \cup {c}]
    BY <1>16 DEF AckUnit, Update
  <2>3. PICK d \in Companies : IsCurrent(d) /\ d \in mem.result \cup mem.ckpt
    BY <2>1
  <2>4. c = d
    BY <2>2, <2>3, OneIsCurrent
  <2> QED
    BY <2>1, <2>2, <2>3, <2>4
<1>17. CASE StoreResult
  BY <1>17 DEF StoreResult, IsCurrent, Unsettled
<1>18. CASE DropCheckpoint
  BY <1>18 DEF DropCheckpoint, Update, Persist
<1>19. CASE ReportFinal
  BY <1>19 DEF ReportFinal, Report
<1>20. CASE ReportEnd
  BY <1>20 DEF ReportEnd, Report
<1>21. CASE RunFinished
  BY <1>21 DEF RunFinished, Update, Persist
<1>22. CASE Stop
  BY <1>22 DEF Stop
<1>23. CASE RunStarted
  BY <1>23 DEF RunStarted, Persist
<1>24. CASE OpenPools
  BY <1>24 DEF OpenPools
<1>25. CASE Kill
  BY <1>25 DEF Kill, Empty, NoReport, NoClock
<1>26. CASE Load
  BY <1>26 DEF Load, Promoted, CostOfLog
<1>27. CASE TimePasses
  BY <1>27 DEF TimePasses
<1>28. CASE UNCHANGED vars
  BY <1>28 DEF vars, store, disk, outside
<1> QED
  BY <1>1, <1>2, <1>3, <1>4, <1>5, <1>6, <1>7, <1>8, <1>9, <1>10, <1>11, <1>12, <1>13, <1>14,
     <1>15, <1>16, <1>17, <1>18, <1>19, <1>20, <1>21, <1>22, <1>23, <1>24, <1>25, <1>26, <1>27,
     <1>28, <1>29, <1>30, <1>31 DEF Next, ThreadStep, MainStep

\* Every file is one to resume from.
LEMMA FileNext ==
  ASSUME TypeOK, TypeOK', PlaceInv, SilentInv, SnapInv, RowInv,
         WorkersSilent => FileRecoverable, [Next]_vars
  PROVE  (WorkersSilent => FileRecoverable)'
<1> USE WritersAssumption, SilenceEnds DEF TypeOK, PlaceInv, At, OnTheWay, Reporting, Writing,
        SilentInv, SnapInv, RowInv, Recoverable, FileRecoverable, Goto, Threads, store, disk,
        outside
<1>1. ASSUME NEW t \in Threads, TakeResults(t)
      PROVE  (WorkersSilent => FileRecoverable)'
  BY <1>1 DEF TakeResults
<1>2. ASSUME NEW t \in Threads, TakeMetadata(t)
      PROVE  (WorkersSilent => FileRecoverable)'
  BY <1>2 DEF TakeMetadata
<1>3. ASSUME NEW t \in Threads, ReplaceFile(t)
      PROVE  (WorkersSilent => FileRecoverable)'
  BY <1>3 DEF ReplaceFile
<1>4. ASSUME NEW t \in Threads, ReadClock(t)
      PROVE  (WorkersSilent => FileRecoverable)'
  BY <1>4 DEF ReadClock
<1>29. ASSUME NEW t \in Threads, TakeTime(t)
      PROVE  (WorkersSilent => FileRecoverable)'
  BY <1>29 DEF TakeTime
<1>30. ASSUME NEW t \in Threads, CountWork(t)
      PROVE  (WorkersSilent => FileRecoverable)'
  BY <1>30 DEF CountWork
<1>31. ASSUME NEW t \in Threads, SetTime(t)
      PROVE  (WorkersSilent => FileRecoverable)'
  BY <1>31 DEF SetTime
<1>5. ASSUME NEW t \in Threads, StoreReport(t)
      PROVE  (WorkersSilent => FileRecoverable)'
  BY <1>5 DEF StoreReport
<1>6. ASSUME NEW t \in Threads, ReadCost(t)
      PROVE  (WorkersSilent => FileRecoverable)'
  BY <1>6 DEF ReadCost
<1>7. ASSUME NEW t \in Threads, AddCost(t)
      PROVE  (WorkersSilent => FileRecoverable)'
  BY <1>7 DEF AddCost, Report
<1>8. ASSUME NEW t \in Threads, AppendEvent(t)
      PROVE  (WorkersSilent => FileRecoverable)'
  BY <1>8 DEF AppendEvent
<1>9. ASSUME NEW t \in Threads, StageDone(t)
      PROVE  (WorkersSilent => FileRecoverable)'
  BY <1>9 DEF StageDone
<1>10. ASSUME NEW t \in Threads, WorkerEnds(t)
      PROVE  (WorkersSilent => FileRecoverable)'
  BY <1>10 DEF WorkerEnds
<1>11. CASE Capture
  BY <1>11 DEF Capture, Report
<1>12. CASE ReplaySpan
  BY <1>12 DEF ReplaySpan, Report
<1>13. CASE ReplayBatch
  BY <1>13 DEF ReplayBatch, Report
<1>14. CASE Checkpoint
  BY <1>14 DEF Checkpoint, Update, Persist, IsCurrent, Unsettled
<1>15. CASE ReportAck
  BY <1>15 DEF ReportAck, Report
<1>16. CASE AckUnit
  BY <1>16 DEF AckUnit, Update, Persist, IsCurrent, Unsettled
<1>17. CASE StoreResult
  BY <1>17 DEF StoreResult, IsCurrent, Unsettled
<1>18. CASE DropCheckpoint
  BY <1>18 DEF DropCheckpoint, Update, Persist
<1>19. CASE ReportFinal
  BY <1>19 DEF ReportFinal, Report
<1>20. CASE ReportEnd
  BY <1>20 DEF ReportEnd, Report
<1>21. CASE RunFinished
  BY <1>21 DEF RunFinished, Update, Persist
<1>22. CASE Stop
  BY <1>22 DEF Stop
<1>23. CASE RunStarted
  BY <1>23 DEF RunStarted, Persist
<1>24. CASE OpenPools
  BY <1>24 DEF OpenPools
<1>25. CASE Kill
  BY <1>25 DEF Kill, Empty, NoReport, NoClock
<1>26. CASE Load
  BY <1>26 DEF Load, Promoted, CostOfLog
<1>27. CASE TimePasses
  BY <1>27 DEF TimePasses
<1>28. CASE UNCHANGED vars
  BY <1>28 DEF vars, store, disk, outside
<1> QED
  BY <1>1, <1>2, <1>3, <1>4, <1>5, <1>6, <1>7, <1>8, <1>9, <1>10, <1>11, <1>12, <1>13, <1>14,
     <1>15, <1>16, <1>17, <1>18, <1>19, <1>20, <1>21, <1>22, <1>23, <1>24, <1>25, <1>26, <1>27,
     <1>28, <1>29, <1>30, <1>31 DEF Next, ThreadStep, MainStep

----------------------------------------------------------------------------
(* The clock of the threads                                                *)

LEMMA NoClockIsSound ==
  ASSUME NEW n, NEW S
  PROVE  Sound(NoClock, n, S) /\ Empty.clock = NoClock
BY DEF Sound, NoClock, Empty

\* A sound clock started in the past.
LEMMA StartIsPast ==
  ASSUME NEW c \in Clocks, NEW n \in Nat, NEW S, Sound(c, n, S)
  PROVE  c.start \in 0..n
<1> c.start \in Nat /\ c.tick \in Nat
  BY DEF Clocks
<1> QED
  BY DEF Sound, NoTime

\* The store of a process that works is one of a run that has started.
LEMMA NowIsReported ==
  ASSUME TypeOK, SoundInv
  PROVE  now \in mem.clock.start..now
<1>1. mem.clock \in Clocks /\ now \in Nat /\ Sound(mem.clock, now, asleep)
  BY StateFields DEF TypeOK, SoundInv
<1>2. mem.clock.start \in 0..now
  BY <1>1, StartIsPast
<1> QED
  BY <1>1, <1>2

\* Threads that were apart until now were so before.
LEMMA ApartBefore ==
  ASSUME [Next]_vars, apart'
  PROVE  apart
<1> USE DEF outside
<1>1. ASSUME NEW t \in Threads, TakeResults(t)
      PROVE  apart
  BY <1>1 DEF TakeResults
<1>2. ASSUME NEW t \in Threads, TakeMetadata(t)
      PROVE  apart
  BY <1>2 DEF TakeMetadata
<1>3. ASSUME NEW t \in Threads, ReplaceFile(t)
      PROVE  apart
  BY <1>3 DEF ReplaceFile
<1>4. ASSUME NEW t \in Threads, ReadClock(t)
      PROVE  apart
  BY <1>4 DEF ReadClock
<1>29. ASSUME NEW t \in Threads, TakeTime(t)
      PROVE  apart
  BY <1>29 DEF TakeTime
<1>30. ASSUME NEW t \in Threads, CountWork(t)
      PROVE  apart
  BY <1>30 DEF CountWork
<1>31. ASSUME NEW t \in Threads, SetTime(t)
      PROVE  apart
  BY <1>31 DEF SetTime
<1>5. ASSUME NEW t \in Threads, StoreReport(t)
      PROVE  apart
  BY <1>5 DEF StoreReport
<1>6. ASSUME NEW t \in Threads, ReadCost(t)
      PROVE  apart
  BY <1>6 DEF ReadCost
<1>7. ASSUME NEW t \in Threads, AddCost(t)
      PROVE  apart
  BY <1>7 DEF AddCost, Report
<1>8. ASSUME NEW t \in Threads, AppendEvent(t)
      PROVE  apart
  BY <1>8 DEF AppendEvent
<1>9. ASSUME NEW t \in Threads, StageDone(t)
      PROVE  apart
  BY <1>9 DEF StageDone
<1>10. ASSUME NEW t \in Threads, WorkerEnds(t)
      PROVE  apart
  BY <1>10 DEF WorkerEnds
<1>11. CASE Capture
  BY <1>11 DEF Capture, Report
<1>12. CASE ReplaySpan
  BY <1>12 DEF ReplaySpan, Report
<1>13. CASE ReplayBatch
  BY <1>13 DEF ReplayBatch, Report
<1>14. CASE Checkpoint
  BY <1>14 DEF Checkpoint, Update, Persist, IsCurrent, Unsettled
<1>15. CASE ReportAck
  BY <1>15 DEF ReportAck, Report
<1>16. CASE AckUnit
  BY <1>16 DEF AckUnit, Update, Persist, IsCurrent, Unsettled
<1>17. CASE StoreResult
  BY <1>17 DEF StoreResult, IsCurrent, Unsettled
<1>18. CASE DropCheckpoint
  BY <1>18 DEF DropCheckpoint, Update, Persist
<1>19. CASE ReportFinal
  BY <1>19 DEF ReportFinal, Report
<1>20. CASE ReportEnd
  BY <1>20 DEF ReportEnd, Report
<1>21. CASE RunFinished
  BY <1>21 DEF RunFinished, Update, Persist
<1>22. CASE Stop
  BY <1>22 DEF Stop
<1>23. CASE RunStarted
  BY <1>23 DEF RunStarted, Persist
<1>24. CASE OpenPools
  BY <1>24 DEF OpenPools
<1>25. CASE Kill
  BY <1>25 DEF Kill, Empty, NoReport, NoClock
<1>26. CASE Load
  BY <1>26 DEF Load, Promoted, CostOfLog
<1>27. CASE TimePasses
  BY <1>27 DEF TimePasses
<1>28. CASE UNCHANGED vars
  BY <1>28 DEF vars, store, disk, outside
<1> QED
  BY <1>1, <1>2, <1>3, <1>4, <1>5, <1>6, <1>7, <1>8, <1>9, <1>10, <1>11, <1>12, <1>13, <1>14, <1>15, <1>16, <1>17, <1>18, <1>19, <1>20, <1>21, <1>22, <1>23, <1>24, <1>25, <1>26, <1>27, <1>28, <1>29, <1>30, <1>31
     DEF Next, ThreadStep, MainStep

\* Time passes over the clocks.
LEMMA TimeIsKept ==
  ASSUME TypeOK, SoundInv, TimePasses
  PROVE  SoundInv'
<1> DEFINE S == asleep
           T == asleep'
<1>1. now' = now + 1 /\ now \in Nat /\ S \subseteq T /\ T \subseteq S \cup {now}
  BY DEF TimePasses, TypeOK, store, disk
<1>2. \A c \in Clocks : Sound(c, now, S) => Sound(c, now', T)
  <2> HIDE DEF S, T
  <2> QED
    BY <1>1, SoundStays
<1>3. /\ mem.clock \in Clocks /\ file.clock \in Clocks
      /\ \A t \in Threads : snap[t].clock \in Clocks /\ report[t].clock \in Clocks
  BY StateFields DEF TypeOK, Reports
<1>4. mem.clock.start \in 0..now
  BY <1>1, <1>3, StartIsPast DEF SoundInv
<1>5. /\ Lived(1, mem.clock.start, T) = Lived(1, mem.clock.start, S)
      /\ Lived(1, now, S) <= Lived(1, now + 1, T)
  <2> DEFINE start == mem.clock.start
  <2>1. start \in Int /\ start <= now
    BY <1>1, <1>4
  <2> HIDE DEF S, T, start
  <2>2. /\ Lived(1, start, T) = Lived(1, start, S) /\ Slept(1, start, T) = Slept(1, start, S)
        /\ Lived(1, now, S) <= Lived(1, now + 1, T)
    <3>1. 1 \in Int /\ now \in Int /\ S \subseteq T /\ T \subseteq S \cup {now}
      BY <1>1
    <3> QED
      BY <3>1, <2>1, PastStays
  <2> QED
    BY <2>2 DEF start
<1>6. \A c, last : Current(c, mem.clock.start, last, S) => Current(c, mem.clock.start, last, T)
  BY <1>5 DEF Current
<1>7. /\ Lived(1, now, S) \in Nat /\ Lived(1, now + 1, T) \in Nat
      /\ \A last \in Nat : last <= Lived(1, now, S) => last <= Lived(1, now + 1, T)
  BY <1>1, <1>5, MomentsType DEF TypeOK
<1>8. /\ mem' = mem /\ mono' = mono /\ file' = file /\ snap' = snap /\ report' = report
      /\ span' = span /\ pc' = pc
  BY DEF TimePasses, store, disk
<1> HIDE DEF S, T
<1>9. \A x : x \in mem.clock.start..now => x \in mem.clock.start..(now + 1)
  BY <1>1, <1>4
<1>10. ASSUME NEW t \in Threads PROVE Sound(snap'[t].clock, now + 1, T) /\ ReportInv(t)'
  <2>1. Sound(snap[t].clock, now, S) /\ ReportInv(t)
    BY DEF S, SoundInv
  <2>2. Sound(snap[t].clock, now + 1, T)
    BY <1>1, <1>2, <1>3, <2>1
  <2>3. Sound(report[t].clock, now, S) => Sound(report[t].clock, now + 1, T)
    BY <1>1, <1>2, <1>3
  <2>4. report[t].upto \in Nat
    BY DEF TypeOK, Reports
  <2> QED
    BY <1>1, <1>6, <1>7, <1>8, <1>9, <2>1, <2>2, <2>3, <2>4 DEF S, T, ReportInv
<1>11. Sound(mem.clock, now + 1, T) /\ Sound(file.clock, now + 1, T)
  BY <1>1, <1>2, <1>3 DEF S, SoundInv
<1>12. Running => /\ mem.clock.start # NoTime
                  /\ Current(mem.clock, mem.clock.start, mono, T)
                  /\ mono <= Lived(1, now + 1, T)
  BY <1>6, <1>7 DEF S, SoundInv, TypeOK
<1>13. span # NoTime => Running /\ span \in mem.clock.start..(now + 1)
  BY <1>9 DEF SoundInv
<1>14. \A t, u \in Measuring' : t = u
  BY <1>8 DEF SoundInv, Measuring
<1> QED
  BY <1>1, <1>8, <1>10, <1>11, <1>12, <1>13, <1>14 DEF T, Running, SoundInv

\* Clocks stay sound, whoever stores them and whenever.
LEMMA ClockNext ==
  ASSUME TypeOK, TypeOK', PlaceInv, ClockInv, [Next]_vars
  PROVE  ClockInv'
<1> SUFFICES ASSUME apart'
             PROVE  SoundInv'
  BY DEF ClockInv
<1>a. SoundInv
  BY ApartBefore DEF ClockInv
<1>27. CASE TimePasses
  BY <1>27, <1>a, TimeIsKept
<1>28. CASE UNCHANGED vars
  BY <1>28, <1>a DEF vars, store, disk, outside, SoundInv, ReportInv, Measuring, Running
<1>0. Empty \in State /\ Sound(Empty.clock, now, asleep)
  BY EmptyTypes, NoClockIsSound
<1> USE <1>a, WritersAssumption DEF TypeOK, State, SoundInv, ReportInv, Measuring, Goto, Threads,
        store, disk, outside
<1>1. ASSUME NEW t \in Threads, TakeResults(t)
      PROVE  SoundInv'
  BY <1>1 DEF TakeResults, Running
<1>2. ASSUME NEW t \in Threads, TakeMetadata(t)
      PROVE  SoundInv'
  BY <1>2 DEF TakeMetadata, Running
<1>3. ASSUME NEW t \in Threads, ReplaceFile(t)
      PROVE  SoundInv'
  <2>1. pc'[t] \notin Reporting /\ (Running => Running')
    BY <1>3, MainIsThread DEF ReplaceFile, PlaceInv, At, OnTheWay, Reporting, Writing, Running
  <2>2. \A u \in Threads : Sound(snap'[u].clock, now, asleep)
    BY <1>3, <1>0 DEF ReplaceFile
  <2>3. UNCHANGED <<mem, mono, report, span, now, asleep>> /\ file' = snap[t]
    BY <1>3 DEF ReplaceFile
  <2>4. \A u \in Threads : pc'[u] \in Reporting => pc'[u] = pc[u]
    BY <1>3, <2>1 DEF ReplaceFile
  <2>5. \A u \in Threads : ReportInv(u)'
    BY <2>3, <2>4 DEF Reporting
  <2>6. \A u, v \in Measuring' : u = v
    BY <2>4 DEF Reporting
  <2>7. Sound(file'.clock, now, asleep)
    BY <2>3
  <2>8. span # NoTime => Running' /\ span \in mem.clock.start..now
    BY <2>1
  <2>9. Running' => Running
    BY <1>3 DEF ReplaceFile, PlaceInv, At, OnTheWay, Reporting, Writing, Running
  <2> QED
    BY <2>2, <2>3, <2>5, <2>6, <2>7, <2>8, <2>9
<1>4. ASSUME NEW t \in Threads, ReadClock(t)
      PROVE  SoundInv'
  <2>1. Running /\ Running'
    BY <1>4, ThreadsRun, MainIsThread DEF ReadClock, Running
  <2>2. /\ UNCHANGED <<mem, mono, file, snap, span, now, asleep>>
        /\ pc' = [pc EXCEPT ![t] = "measure"]
        /\ report' = [report EXCEPT ![t] = [report[t] EXCEPT !.clock = mem.clock]]
    BY <1>4 DEF ReadClock, Reports
  <2>3. report'[t].clock = mem.clock /\ report'[t].at = report[t].at
    BY <2>2 DEF Reports
  <2>4. ReportInv(t)'
    BY <1>4, <2>1, <2>2, <2>3 DEF ReadClock
  <2>5. ASSUME NEW u \in Threads, u # t PROVE ReportInv(u)'
    BY <2>2, <2>5
  <2>6. \A u, v \in Measuring' : u = v
    BY <2>2
  <2> QED
    BY <2>1, <2>2, <2>4, <2>5, <2>6
<1>29. ASSUME NEW t \in Threads, TakeTime(t)
      PROVE  SoundInv'
  <2>1. Running /\ Monotonic = Lived(1, now, asleep) /\ Lived(1, now, asleep) \in Nat
    <3>1. Running
      BY <1>29, ThreadsRun DEF TakeTime
    <3>2. now \in Int
      OBVIOUS
    <3> QED
      BY <3>1, <3>2, MonotonicIsLived, MomentsType
  <2>2. \A u \in Threads : pc[u] \notin {"count", "set"}
    BY <1>29 DEF TakeTime
  <2>3. \A u, v \in Measuring' : u = v
    BY <1>29, <2>2 DEF TakeTime
  <2>4. /\ UNCHANGED <<mem, mono, file, snap, span, now, asleep>>
        /\ pc' = [pc EXCEPT ![t] = "count"]
        /\ report' = [report EXCEPT ![t] = [report[t] EXCEPT !.upto = Monotonic]]
    BY <1>29 DEF TakeTime, Reports
  <2>5. report'[t].clock = report[t].clock /\ report'[t].at = report[t].at
        /\ report'[t].upto = Monotonic
    BY <2>4 DEF Reports
  <2>6. mono <= Monotonic /\ Monotonic <= Lived(1, now, asleep)
    BY <2>1
  <2>7. ReportInv(t)'
    BY <1>29, <2>4, <2>5, <2>6 DEF TakeTime
  <2>8. ASSUME NEW u \in Threads, u # t PROVE ReportInv(u)'
    BY <2>4, <2>8
  <2>9. Running'
    BY <2>1, <2>4, MainIsThread DEF Running
  <2> QED
    BY <2>1, <2>3, <2>4, <2>7, <2>8, <2>9
<1>30. ASSUME NEW t \in Threads, CountWork(t)
      PROVE  SoundInv'
  <2> DEFINE base == report[t].clock
             worked == report[t].upto - mono
             clock == AdvanceClock(base, report[t].at, worked)
             before == Lived(1, mem.clock.start, asleep)
             lived == Lived(1, now, asleep)
  <2>1. /\ base \in Clocks /\ base.active \in Nat /\ now \in Nat /\ before \in Nat
        /\ lived \in Nat /\ report[t].upto \in Nat /\ mono \in Nat
    <3>1. base \in Clocks /\ now \in Nat /\ report[t].upto \in Nat /\ mono \in Nat
      BY DEF Reports
    <3>2. base.active \in Nat
      BY <3>1 DEF Clocks
    <3>3. mem.clock.start \in Int
      BY StateFields DEF Clocks
    <3> QED
      BY <3>1, <3>2, <3>3, MomentsType
  <2>2. Running /\ mem.clock.start # NoTime
    BY <1>30, ThreadsRun DEF CountWork
  <2>3. /\ Sound(base, now, asleep) /\ base.start = mem.clock.start
        /\ base.active + before <= mono /\ mono <= report[t].upto /\ report[t].upto <= lived
        /\ report[t].at \in base.start..now
    BY <1>30 DEF CountWork, Current
  <2>4. worked \in Nat /\ base.active + worked + Lived(1, base.start, asleep) <= lived
    BY <2>1, <2>3
  <2>5. /\ clock \in Clocks /\ Sound(clock, now, asleep) /\ clock.start = mem.clock.start
        /\ clock.active = base.active + worked
    <3> HIDE DEF base, worked
    <3> QED
      BY <2>1, <2>2, <2>3, <2>4, SoundAdvance
  <2>6. Current(clock, mem.clock.start, report[t].upto, asleep)
    BY <2>1, <2>3, <2>5 DEF Current
  <2>7. /\ report' = [report EXCEPT ![t] = [report[t] EXCEPT !.at = NoTime, !.clock = clock]]
        /\ pc' = [pc EXCEPT ![t] = "set"]
    <3>1. (IF report[t].upto < mono THEN 0 ELSE report[t].upto - mono) = worked
      BY <2>1, <2>3
    <3> HIDE DEF worked
    <3> QED
      BY <1>30, <3>1 DEF CountWork, Reports
  <2>8. report'[t].clock = clock /\ report'[t].upto = report[t].upto /\ pc'[t] = "set"
    BY <2>7 DEF Reports
  <2>9. UNCHANGED <<mem, mono, file, snap, span, now, asleep>>
    BY <1>30 DEF CountWork
  <2> HIDE DEF clock, base, worked
  <2>10. ReportInv(t)'
    BY <1>30, <2>3, <2>5, <2>6, <2>8, <2>9 DEF lived
  <2>11. ASSUME NEW u \in Threads, u # t PROVE ReportInv(u)'
    BY <2>7, <2>9, <2>11
  <2>12. \A u, v \in Measuring' : u = v
    BY <1>30, <2>7 DEF CountWork
  <2> QED
    BY <2>2, <2>7, <2>9, <2>10, <2>11, <2>12, MainIsThread DEF Running
<1>31. ASSUME NEW t \in Threads, SetTime(t)
      PROVE  SoundInv'
  <2>1. /\ pc[t] = "set" /\ mono' = report[t].upto /\ pc' = [pc EXCEPT ![t] = "publish"]
        /\ report' = [report EXCEPT ![t] = [report[t] EXCEPT !.upto = 0]]
        /\ UNCHANGED <<mem, file, snap, span, now, asleep>>
    BY <1>31 DEF SetTime, Reports
  <2>2. mono <= mono' /\ mono' <= Lived(1, now, asleep) /\ mono \in Nat /\ mono' \in Nat
    BY <2>1 DEF Reports
  <2>3. Running /\ mem.clock.start # NoTime /\ Running'
    BY <1>31, <2>1, ThreadsRun, MainIsThread DEF Running
  <2>4. ASSUME NEW c \in Clocks, Current(c, mem.clock.start, mono, asleep)
        PROVE  Current(c, mem.clock.start, mono', asleep)
    <3>1. c.active \in Nat /\ Lived(1, mem.clock.start, asleep) \in Nat
      BY MomentsType, StateFields DEF Clocks
    <3> QED
      BY <2>2, <2>4, <3>1 DEF Current
  <2>5. ASSUME NEW u \in Threads, u # t PROVE ReportInv(u)'
    <3>1. pc'[u] = pc[u] /\ report'[u] = report[u] /\ pc[u] \notin {"count", "set"}
      BY <2>1, <2>5
    <3>2. report[u].clock \in Clocks
      BY DEF Reports
    <3> QED
      BY <2>1, <2>4, <3>1, <3>2
  <2>6. ReportInv(t)'
    <3>1. report'[t].clock = report[t].clock /\ pc'[t] = "publish"
      BY <2>1 DEF Reports
    <3> QED
      BY <2>1, <3>1
  <2>7. \A u, v \in Measuring' : u = v
    BY <2>1
  <2>8. Current(mem.clock, mem.clock.start, mono', asleep)
    BY <2>3, <2>4, StateFields
  <2> QED
    BY <2>1, <2>2, <2>3, <2>5, <2>6, <2>7, <2>8
<1>5. ASSUME NEW t \in Threads, StoreReport(t)
      PROVE  SoundInv'
  <2>1. pc'[t] \notin Reporting /\ (Running => Running')
    BY <1>5, MainIsThread DEF StoreReport, PlaceInv, At, OnTheWay, Reporting, Writing, Running
  <2>2. Running /\ pc[t] = "publish"
    BY <1>5, ThreadsRun DEF StoreReport
  <2>3. mem'.clock = report[t].clock /\ mem'.clock.start = mem.clock.start
    BY <1>5, <2>2 DEF StoreReport, Current
  <2>4. /\ Sound(mem'.clock, now, asleep)
        /\ Current(mem'.clock, mem'.clock.start, mono, asleep)
        /\ mem'.clock.start # NoTime /\ mono <= Lived(1, now, asleep)
    BY <2>2, <2>3
  <2>5. \A u \in Threads : pc'[u] \in Reporting => pc'[u] = pc[u] /\ report'[u] = report[u]
    BY <1>5, <2>1 DEF StoreReport
  <2>6. UNCHANGED <<mono, file, snap, span, now, asleep>>
    BY <1>5 DEF StoreReport
  <2>7. \A u \in Threads : ReportInv(u)'
    BY <2>3, <2>5, <2>6 DEF Reporting
  <2>8. \A u, v \in Measuring' : u = v
    BY <2>5 DEF Reporting
  <2> QED
    BY <2>1, <2>2, <2>3, <2>4, <2>6, <2>7, <2>8
<1>6. ASSUME NEW t \in Threads, ReadCost(t)
      PROVE  SoundInv'
  BY <1>6 DEF ReadCost, Running
<1>7. ASSUME NEW t \in Threads, AddCost(t)
      PROVE  SoundInv'
  BY <1>7, ThreadsRun, NowIsReported, MainIsThread DEF AddCost, Running, Report
<1>8. ASSUME NEW t \in Threads, AppendEvent(t)
      PROVE  SoundInv'
  BY <1>8 DEF AppendEvent, Running
<1>9. ASSUME NEW t \in Threads, StageDone(t)
      PROVE  SoundInv'
  BY <1>9, ThreadsRun, NowIsReported DEF StageDone, Running
<1>10. ASSUME NEW t \in Threads, WorkerEnds(t)
      PROVE  SoundInv'
  BY <1>10 DEF WorkerEnds, Running
<1>11. CASE Capture
  BY <1>11, NowIsReported, MainIsThread DEF Capture, Running, Report
<1>12. CASE ReplaySpan
  BY <1>12, MainIsThread DEF ReplaySpan, Running, Report
<1>13. CASE ReplayBatch
  BY <1>13, NowIsReported, MainIsThread DEF ReplayBatch, Running, Report
<1>14. CASE Checkpoint
  BY <1>14, MainIsThread DEF Checkpoint, Running, Update, Persist, IsCurrent, Unsettled
<1>15. CASE ReportAck
  BY <1>15, NowIsReported, MainIsThread DEF ReportAck, Running, Report
<1>16. CASE AckUnit
  BY <1>16, MainIsThread DEF AckUnit, Running, Update, Persist, IsCurrent, Unsettled
<1>17. CASE StoreResult
  BY <1>17, MainIsThread DEF StoreResult, Running, IsCurrent, Unsettled
<1>18. CASE DropCheckpoint
  BY <1>18, MainIsThread DEF DropCheckpoint, Running, Update, Persist
<1>19. CASE ReportFinal
  BY <1>19, NowIsReported, MainIsThread DEF ReportFinal, Running, Report
<1>20. CASE ReportEnd
  BY <1>20, NowIsReported, MainIsThread DEF ReportEnd, Running, Report
<1>21. CASE RunFinished
  BY <1>21, MainIsThread DEF RunFinished, Running, Update, Persist
<1>22. CASE Stop
  BY <1>22, MainIsThread DEF Stop, Running
<1>23. CASE RunStarted
  <2> DEFINE clock == StartClock(mem.clock, now)
             lived == Lived(1, now, asleep)
  <2>1. mem.clock \in Clocks /\ now \in Nat \ {0} /\ Sound(mem.clock, now, asleep)
    BY StateFields
  <2>2. /\ clock \in Clocks /\ Sound(clock, now, asleep) /\ clock.start \in 1..now
        /\ clock.active + Lived(1, clock.start, asleep) <= lived
    BY <2>1, SoundStart
  <2>3. Monotonic = lived /\ lived \in Nat
    BY <2>1, MonotonicIsLived, MomentsType
  <2>4. /\ mem'.clock = clock /\ mono' = lived /\ file' = file /\ snap' = snap /\ span' = span
        /\ now' = now /\ asleep' = asleep /\ ~ Running
    <3> HIDE DEF clock, lived
    <3> QED
      BY <1>23, <2>3 DEF RunStarted, clock, Running
  <2>5. \A t \in Threads : pc'[t] \notin Reporting
    BY <1>23 DEF RunStarted, Persist, PlaceInv, At, Reporting, Writing
  <2> HIDE DEF clock, lived
  <2>6. clock.start # NoTime /\ Current(clock, clock.start, lived, asleep)
    BY <2>1, <2>2 DEF Current, NoTime, lived
  <2> QED
    BY <2>2, <2>3, <2>4, <2>5, <2>6 DEF lived, Reporting
<1>24. CASE OpenPools
  BY <1>24, MainIsThread DEF OpenPools, Running
<1>25. CASE Kill
  <2>1. \A t \in Threads : pc'[t] = "off" /\ snap'[t] = Empty
    BY <1>25 DEF Kill
  <2>2. mem' = Empty /\ file' = file /\ now' = now /\ asleep' = asleep /\ span' = NoTime
    BY <1>25 DEF Kill
  <2> QED
    BY <1>0, <2>1, <2>2, MainIsThread DEF Running
<1>26. CASE Load
  <2>1. \A t \in Threads : pc'[t] \in {"off", "start"}
    BY <1>26 DEF Load, PlaceInv, At, Reporting, Writing
  <2>2. mem'.clock = file.clock
    BY <1>26 DEF Load
  <2> QED
    BY <1>26, <2>1, <2>2, MainIsThread DEF Load, Running
<1> QED
  BY <1>1, <1>2, <1>3, <1>4, <1>5, <1>6, <1>7, <1>8, <1>9, <1>10, <1>11, <1>12, <1>13, <1>14,
     <1>15, <1>16, <1>17, <1>18, <1>19, <1>20, <1>21, <1>22, <1>23, <1>24, <1>25, <1>26, <1>27,
     <1>28, <1>29, <1>30, <1>31 DEF Next, ThreadStep, MainStep

----------------------------------------------------------------------------
(* Theorems                                                                *)

IInv == WriterInv /\ ClockInv

LEMMA StartsRight == Init => IInv
<1> SUFFICES ASSUME Init PROVE IInv
  OBVIOUS
<1>1. TypeOK /\ PlaceInv
  BY TypesInit
<1>2. SilentInv /\ SnapInv /\ FinalFileIsMemory
  <2>1. pc[Main] = "start" /\ \A w \in Workers : pc[w] = "off"
    BY WritersAssumption, MainIsThread DEF Init, Threads
  <2> QED
    BY <2>1 DEF SilentInv, SnapInv, FinalFileIsMemory
<1>3. RowInv /\ CostInv /\ FileRecoverable
  BY MainIsThread DEF Init, RowInv, CostInv, FileRecoverable, Recoverable, At, Reporting, Writing,
     Empty
<1>4. ClockInv
  BY NoClockIsSound, MainIsThread, WritersAssumption DEF Init, ClockInv, SoundInv, ReportInv,
     Measuring, Running, Threads
<1> QED
  BY <1>1, <1>2, <1>3, <1>4 DEF IInv, WriterInv

LEMMA StaysRight == IInv /\ [Next]_vars => IInv'
<1> SUFFICES ASSUME IInv, [Next]_vars PROVE IInv'
  OBVIOUS
<1> USE DEF IInv, WriterInv
<1>1. TypeOK'
  BY TypesNext
<1>2. PlaceInv'
  BY <1>1, PlacesNext
<1>3. SilentInv'
  BY <1>1, SilentNext
<1>4. SnapInv'
  BY <1>1, <1>2, <1>3, SnapNext
<1>5. FinalFileIsMemory'
  BY <1>1, <1>2, FinalNext
<1>6. CostInv'
  BY <1>1, CostNext
<1>7. RowInv'
  BY <1>1, RowNext
<1>8. (WorkersSilent => FileRecoverable)'
  BY <1>1, FileNext
<1>9. ClockInv'
  BY <1>1, ClockNext
<1> QED
  BY <1>1, <1>2, <1>3, <1>4, <1>5, <1>6, <1>7, <1>8, <1>9

LEMMA Invariance == Spec => []IInv
BY StartsRight, StaysRight, PTL DEF Spec

\* The store, its file and the threads keep their types.
THEOREM TypeCorrect == Spec => []TypeOK
<1>1. IInv => TypeOK
  BY DEF IInv, WriterInv
<1> QED
  BY <1>1, Invariance, PTL

\* The file of a run that ended is the state of run_finished: the workers
\* were joined first, so none is left to put an older payload over it.
THEOREM FinalFileIsFresh == Spec => []FinalFileIsMemory
<1>1. IInv => FinalFileIsMemory
  BY DEF IInv, WriterInv
<1> QED
  BY <1>1, Invariance, PTL

\* Without a second writer, every file is one to resume from, and the cost of
\* a run that ended is that of all the events its processes reported.
THEOREM AloneIsSafe == Spec => []RecoverableAlone
<1>1. IInv => RecoverableAlone
  <2> SUFFICES ASSUME IInv, WorkersSilent PROVE FileRecoverable /\ CostIsComplete
    BY DEF RecoverableAlone
  <2>1. FileRecoverable
    BY DEF IInv, WriterInv
  <2>2. ASSUME pc[Main] = "ended", ~ torn PROVE file.cost = events
    <3>1. file = mem /\ events = mem.cost + 0 /\ mem.cost \in Nat
      BY <2>2, StateFields DEF IInv, WriterInv, FinalFileIsMemory, CostInv, TypeOK
    <3> QED
      BY <3>1
  <2> QED
    BY <2>1, <2>2 DEF CostIsComplete
<1> QED
  BY <1>1, Invariance, PTL

\* As long as no two threads took the time at once, neither the clock in memory
\* nor the one in the file counts work that was not done, or hides a long pause,
\* whoever stored it last and in whatever order the reports were begun.
THEOREM ClocksAreHonest == Spec => []EvidenceIsHonest
<1>1. IInv => EvidenceIsHonest
  <2> SUFFICES ASSUME IInv, apart PROVE Truthful(mem.clock) /\ Truthful(file.clock)
    BY DEF EvidenceIsHonest
  <2>1. /\ mem.clock \in Clocks /\ file.clock \in Clocks /\ now \in Nat /\ asleep \subseteq Int
        /\ Sound(mem.clock, now, asleep) /\ Sound(file.clock, now, asleep)
    BY StateFields DEF IInv, WriterInv, ClockInv, SoundInv, TypeOK
  <2> QED
    BY <2>1, SoundIsTruthful
<1> QED
  BY <1>1, Invariance, PTL

------------------------------------------------------------------------------
(* The publication of the public outputs.                                 *)

\* A directory shows no result and no report beyond the first n companies.
Behind(d, n) ==
  /\ d.reports \subseteq 1..n
  /\ \A f \in Files \ {"summary"} : d.file[f] # Missing => d.file[f].n <= n

\* The snapshot of a generation is what was rendered for it.
Whole(g) ==
  /\ snapshots[g] \in Dirs
  /\ snapshots[g].reports = made[g].reports
  /\ \A f \in Files \ {"summary"} : snapshots[g].file[f] = made[g].file[f]

\* What a directory has of another, but for the summary.
CopyOf(e, d) ==
  /\ e.reports \subseteq d.reports
  /\ \A f \in Files \ {"summary"} : e.file[f] \in {Missing, d.file[f]}

\* What the place of the process says about the publication under way.
StepInv ==
  /\ why = "fresh" => phase \in {"off", "forget", "clear", "begin"}
  /\ phase = "stage" => changed \subseteq 1..state.n
  /\ phase = "copy" => /\ from = NoGen
                       /\ active \in Gens /\ active # committed
                       /\ staging \in Dirs /\ staging.reports = made[active].reports
                       /\ staging.file["results"] # Missing
                       /\ \A f \in Files \ {"summary"} : staging.file[f] = made[active].file[f]
                       /\ CopyOf(Snapshot, staging)
  /\ phase \in {"apply", "reports"} /\ from = NoGen =>
       /\ active \in Gens /\ active # committed
       /\ staging \in Dirs
       /\ Whole(active)
  /\ phase \in {"apply", "reports"} /\ from # NoGen => from = committed /\ replays > 0
  /\ phase = "commit" => active \in Gens /\ Whole(active)
  /\ phase \in {"clear", "show", "begin"} => active = NoGen /\ committed = NoGen

\* The committed generation has a snapshot, whole until a restore.
SnapshotsInv ==
  /\ committed # NoGen => snapshots[committed] \in Dirs
  /\ committed # NoGen /\ replays = 0 => Whole(committed)

\* No directory that may still reach the root is ahead of the state, and the
\* root is empty while a fresh run is prepared.
BehindInv ==
  /\ Behind(root, state.n)
  /\ \A g \in {active, committed} : g # NoGen /\ snapshots[g] \in Dirs => Behind(snapshots[g], state.n)
  /\ phase = "copy" \/ (phase \in {"apply", "reports"} /\ from = NoGen) => Behind(staging, state.n)
  /\ phase \in {"forget", "clear", "begin"} => Behind(root, 0)

\* The first restore: what was moved is in the root, the rest still in the
\* snapshot.
RestoreInv ==
  /\ phase = "apply" /\ from # NoGen /\ replays = 1 =>
       \A i \in {1, 3} :
         IF i < at THEN root.file[Order[i]] = made[committed].file[Order[i]]
                   ELSE snapshots[committed].file[Order[i]] = made[committed].file[Order[i]]
  /\ phase = "reports" /\ from # NoGen /\ replays = 1 =>
       \A i \in {1, 3} : root.file[Order[i]] = made[committed].file[Order[i]]
  /\ RestoredIsCommitted

\* The inductive invariant.
PublishInv == PublishTypeOK /\ StepInv /\ SnapshotsInv /\ BehindInv /\ RestoreInv

------------------------------------------------------------------------------
(* Directories. *)

LEMMA Names ==
  /\ Order[1] = "results" /\ Order[2] = "summary"
  /\ Order[3] = "report" /\ Order[4] = "final"
  /\ Files = {"results", "summary", "report", "final"}
BY DEF Order, Files

LEMMA Distinct == EmptyDir \in Dirs /\ NoDir \notin Dirs /\ Missing \notin States
<1>1. EmptyDir \in Dirs
  BY DEF EmptyDir, Dirs
<1>2. NoDir \notin Dirs
  <2>1. \A d \in Dirs : DOMAIN d = {"file", "reports"}
    BY DEF Dirs
  <2>2. DOMAIN NoDir = {"absent"}
    BY DEF NoDir
  <2> QED
    BY <2>1, <2>2
<1>3. Missing \notin States
  BY PublishAssumption DEF Missing, States
<1> QED
  BY <1>1, <1>2, <1>3

LEMMA NoCallType == NoCall \in Calls
<1>1. [n |-> 0, finished |-> FALSE] \in States
  BY PublishAssumption DEF States
<1> QED
  BY <1>1 DEF NoCall, Calls, CallPlaces

LEMMA PutFile ==
  ASSUME NEW d \in Dirs, NEW f \in Files, NEW v \in States \cup {Missing}
  PROVE  LET e == [d EXCEPT !.file[f] = v]
         IN /\ e \in Dirs
            /\ e.reports = d.reports
            /\ e.file[f] = v
            /\ \A g \in Files \ {f} : e.file[g] = d.file[g]
BY DEF Dirs

LEMMA PutReports ==
  ASSUME NEW d \in Dirs, NEW r \in SUBSET Rows
  PROVE  LET e == [d EXCEPT !.reports = r]
         IN e \in Dirs /\ e.reports = r /\ e.file = d.file
BY DEF Dirs

LEMMA RenderedDir ==
  ASSUME NEW s \in States, NEW isFull \in BOOLEAN, NEW rows \in SUBSET (1..s.n)
  PROVE  LET d == Rendered(s, isFull, rows)
         IN d \in Dirs /\ d.file["results"] # Missing /\ Behind(d, s.n)
<1> DEFINE d == Rendered(s, isFull, rows)
<1>1. s.n \in 0..NRows /\ NRows \in Nat /\ s # Missing
  BY PublishAssumption, Distinct DEF States
<1>2. 1..s.n \subseteq Rows
  BY <1>1 DEF Rows
<1>3. d \in Dirs /\ d.file["results"] = s
  BY <1>1, <1>2, Names DEF Rendered, Dirs
<1>4. Behind(d, s.n)
  <2>1. d.reports \subseteq 1..s.n
    BY DEF Rendered
  <2>2. \A f \in Files : d.file[f] \in {s, Missing}
    BY DEF Rendered
  <2>3. s.n <= s.n
    BY <1>1
  <2> QED
    BY <2>1, <2>2, <2>3 DEF Behind
<1> QED
  BY <1>1, <1>3, <1>4

LEMMA BehindGrows ==
  ASSUME NEW d \in Dirs, NEW m \in Nat, NEW n \in Nat, m <= n, Behind(d, m)
  PROVE  Behind(d, n)
BY DEF Behind, Dirs, States, Missing, Rows

LEMMA BehindPut ==
  ASSUME NEW d \in Dirs, NEW n, Behind(d, n), NEW f \in Files,
         NEW v \in States \cup {Missing}, f = "summary" \/ v = Missing \/ v.n <= n
  PROVE  Behind([d EXCEPT !.file[f] = v], n)
BY PutFile DEF Behind

LEMMA WithoutFinalDir ==
  ASSUME NEW isFull \in BOOLEAN, NEW n, root \in Dirs, Behind(root, n)
  PROVE  /\ WithoutFinal(isFull) \in Dirs
         /\ Behind(WithoutFinal(isFull), n)
         /\ \A f \in Files \ {"final"} : WithoutFinal(isFull).file[f] = root.file[f]
         /\ WithoutFinal(isFull).reports = root.reports
<1>1. CASE isFull
  BY <1>1 DEF WithoutFinal
<1>2. CASE ~isFull
  BY <1>2, Names, PutFile, BehindPut DEF WithoutFinal
<1> QED
  BY <1>1, <1>2

------------------------------------------------------------------------------
(* The invariant holds initially and every step keeps it. *)

LEMMA InitInv == PublishInit => PublishInv
<1> SUFFICES ASSUME PublishInit PROVE PublishInv
  OBVIOUS
<1>s. state \in States /\ state.n = 0
  BY PublishAssumption DEF PublishInit, States
<1>r. root \in Dirs /\ Behind(root, 0)
  <2>1. EmptyDir \in Dirs /\ Behind(EmptyDir, 0)
    BY Distinct DEF EmptyDir, Behind
  <2> QED
    BY <2>1, <1>s, Names, PutFile, BehindPut DEF PublishInit
<1>m. made \in [Gens -> Dirs] /\ snapshots \in [Gens -> Dirs \cup {NoDir}]
  BY Distinct DEF PublishInit
<1>f. replays \in 0..2 /\ failures \in 0..MaxFailures /\ at \in 1..5
  BY PublishAssumption DEF PublishInit
<1>c. call \in [Callers -> Calls] /\ late \in BOOLEAN
  BY <1>s, NoCallType DEF PublishInit
<1>1. PublishTypeOK
  BY <1>s, <1>r, <1>m, <1>f, <1>c DEF PublishInit, PublishTypeOK
<1>2. StepInv /\ SnapshotsInv /\ BehindInv /\ RestoreInv
  BY <1>s, <1>r DEF PublishInit, StepInv, SnapshotsInv, BehindInv, RestoreInv, RestoredIsCommitted, Incomplete
<1> QED
  BY <1>1, <1>2 DEF PublishInv

LEMMA StageInv ==
  ASSUME PublishInv, Stage
  PROVE  PublishInv'
<1> DEFINE isFull == why = "finish" \/ FullSurface(state)
           d == Rendered(state, isFull, changed)
           g == FreshGen
<1>t. PublishTypeOK /\ StepInv /\ SnapshotsInv /\ BehindInv
  BY DEF PublishInv
<1>1. g \in Gens /\ g # active /\ g # committed /\ snapshots[g] = NoDir /\ g # NoGen
  BY PublishAssumption DEF Stage, FreshGens, FreshGen
<1>2. isFull \in BOOLEAN
  BY <1>t DEF FullSurface, PublishTypeOK, States
<1>3. d \in Dirs /\ d.file["results"] # Missing /\ Behind(d, state.n)
  BY <1>t, <1>2, RenderedDir DEF Stage, StepInv, PublishTypeOK
<1>4. /\ phase' = "copy" /\ active' = g /\ made' = [made EXCEPT ![g] = d]
      /\ staging' = made'[g] /\ full' = isFull /\ from' = NoGen /\ late' = FALSE
      /\ UNCHANGED <<state, committed, snapshots, root, why, changed, at, expected, call, replays, failures>>
  BY DEF Stage
<1>5. made' \in [Gens -> Dirs] /\ made'[g] = d /\ \A h \in Gens \ {g} : made'[h] = made[h]
  BY <1>1, <1>3, <1>4, <1>t DEF PublishTypeOK
<1> HIDE DEF d, g, isFull
<1>6. PublishTypeOK'
  BY <1>t, <1>1, <1>2, <1>3, <1>4, <1>5 DEF PublishTypeOK
<1>6a. CopyOf(Snapshot, staging)'
  BY <1>1, <1>4 DEF CopyOf, Snapshot, EmptyDir
<1>7. StepInv'
  BY <1>t, <1>1, <1>3, <1>4, <1>5, <1>6a DEF StepInv, Stage
<1>8. SnapshotsInv'
  BY <1>t, <1>1, <1>4, <1>5 DEF SnapshotsInv, Whole, PublishTypeOK
<1>9. BehindInv'
  BY <1>t, <1>1, <1>3, <1>4, <1>5, Distinct DEF BehindInv
<1>10. RestoreInv'
  BY <1>4 DEF RestoreInv, RestoredIsCommitted
<1> QED
  BY <1>6, <1>7, <1>8, <1>9, <1>10 DEF PublishInv

LEMMA SnapshotDir ==
  ASSUME PublishInv, phase = "copy"
  PROVE  Snapshot \in Dirs /\ Behind(Snapshot, state.n)
<1>1. Behind(EmptyDir, state.n)
  BY DEF EmptyDir, Behind
<1>2. active \in Gens /\ snapshots[active] \in Dirs \cup {NoDir}
  BY DEF PublishInv, PublishTypeOK, StepInv
<1> QED
  BY <1>1, <1>2, Distinct, PublishAssumption DEF PublishInv, BehindInv, Snapshot

\* A step of the copy replaces the snapshot of the generation to be.
LEMMA CopyStep ==
  ASSUME PublishInv, phase = "copy", NEW e \in Dirs, Behind(e, state.n), CopyOf(e, staging),
         snapshots' = [snapshots EXCEPT ![active] = e],
         UNCHANGED <<state, active, committed, staging, root, process, call, made, replays, late, failures>>
  PROVE  PublishInv'
<1>t. PublishTypeOK /\ StepInv /\ SnapshotsInv /\ BehindInv
  BY DEF PublishInv
<1>1. active \in Gens /\ active # committed
  BY <1>t DEF StepInv
<1>2. /\ snapshots' \in [Gens -> Dirs \cup {NoDir}]
      /\ snapshots'[active] = e /\ \A h \in Gens \ {active} : snapshots'[h] = snapshots[h]
  BY <1>t, <1>1 DEF PublishTypeOK
<1>3. PublishTypeOK'
  BY <1>t, <1>2 DEF PublishTypeOK, process
<1>4. StepInv'
  <2>1. Snapshot' = e
    BY <1>2, Distinct DEF Snapshot
  <2>2. UNCHANGED <<state, active, committed, staging, phase, why, changed, from, made>>
    BY DEF process
  <2> QED
    BY <1>t, <2>1, <2>2 DEF StepInv, CopyOf
<1>5. SnapshotsInv'
  BY <1>t, <1>1, <1>2 DEF SnapshotsInv, Whole, PublishTypeOK, process
<1>6. BehindInv'
  BY <1>t, <1>1, <1>2 DEF BehindInv, PublishTypeOK, process
<1>7. RestoreInv'
  BY DEF RestoreInv, RestoredIsCommitted, process
<1> QED
  BY <1>3, <1>4, <1>5, <1>6, <1>7 DEF PublishInv

LEMMA CopyFileInv ==
  ASSUME PublishInv, NEW i \in 1..4, CopyFile(i)
  PROVE  PublishInv'
<1>1. phase = "copy" /\ Snapshot \in Dirs /\ Behind(Snapshot, state.n)
  BY SnapshotDir DEF CopyFile
<1>2. staging \in Dirs /\ Behind(staging, state.n) /\ CopyOf(Snapshot, staging)
  BY <1>1 DEF PublishInv, StepInv, BehindInv
<1> DEFINE f == Order[i]
           v == staging.file[f]
           e == [Snapshot EXCEPT !.file[f] = v]
<1>3. f \in Files
  BY Names
<1>4. v \in States \cup {Missing} /\ (f = "summary" \/ v = Missing \/ v.n <= state.n)
  BY <1>2, <1>3 DEF Dirs, Behind
<1> HIDE DEF f, v
<1>5. e \in Dirs /\ Behind(e, state.n)
  BY <1>1, <1>3, <1>4, PutFile, BehindPut
<1>5a. CopyOf(e, staging)
  <2>1. /\ e.reports = Snapshot.reports /\ e.file[f] = staging.file[f]
        /\ \A h \in Files \ {f} : e.file[h] = Snapshot.file[h]
    BY <1>1, <1>3, <1>4, PutFile DEF v
  <2> QED
    BY <1>2, <2>1 DEF CopyOf
<1>6. snapshots' = [snapshots EXCEPT ![active] = e]
  BY DEF CopyFile, f, v
<1> QED
  BY <1>1, <1>5, <1>5a, <1>6, CopyStep DEF CopyFile

LEMMA CopyReportInv ==
  ASSUME PublishInv, NEW c \in Rows, CopyReport(c)
  PROVE  PublishInv'
<1>1. phase = "copy" /\ Snapshot \in Dirs /\ Behind(Snapshot, state.n)
  BY SnapshotDir DEF CopyReport
<1>2. staging \in Dirs /\ Behind(staging, state.n) /\ CopyOf(Snapshot, staging)
  BY <1>1 DEF PublishInv, StepInv, BehindInv
<1> DEFINE r == Snapshot.reports \cup {c}
           e == [Snapshot EXCEPT !.reports = r]
<1>3. r \in SUBSET Rows /\ r \subseteq 1..state.n /\ r \subseteq staging.reports
  BY <1>1, <1>2 DEF CopyReport, Behind, Dirs, CopyOf
<1>4. snapshots' = [snapshots EXCEPT ![active] = e]
  BY DEF CopyReport
<1> HIDE DEF r
<1>5. e \in Dirs /\ Behind(e, state.n)
  BY <1>1, <1>3, PutReports DEF Behind
<1>6. CopyOf(e, staging)
  <2>1. e.reports = r /\ e.file = Snapshot.file
    BY <1>1, <1>3, PutReports
  <2> QED
    BY <1>2, <1>3, <2>1 DEF CopyOf
<1> QED
  BY <1>1, <1>4, <1>5, <1>6, CopyStep DEF CopyReport

LEMMA CopiedInv ==
  ASSUME PublishInv, Copied
  PROVE  PublishInv'
<1>t. PublishTypeOK /\ StepInv /\ SnapshotsInv /\ BehindInv
  BY DEF PublishInv
<1>1. /\ phase = "copy" /\ from = NoGen /\ active \in Gens /\ active # committed
      /\ staging \in Dirs /\ staging.reports = made[active].reports
      /\ staging.file["results"] # Missing
      /\ \A f \in Files \ {"summary"} : staging.file[f] = made[active].file[f]
      /\ CopyOf(Snapshot, staging)
  BY <1>t DEF Copied, StepInv
<1>2. Whole(active)
  <2>1. /\ NotCopied = {} /\ Snapshot.reports = staging.reports
        /\ Snapshot \in Dirs
    BY <1>1, SnapshotDir DEF Copied, CopyDone, CopyOf
  <2>2. \A f \in Files : staging.file[f] # Missing => Snapshot.file[f] # Missing
    BY <2>1, Names DEF NotCopied, Files
  <2>3. \A f \in Files \ {"summary"} : Snapshot.file[f] = staging.file[f]
    BY <1>1, <2>2 DEF CopyOf
  <2>4. snapshots[active] # NoDir
    BY <1>1, <2>2, Names DEF Snapshot, EmptyDir
  <2>5. Snapshot = snapshots[active]
    BY <2>4 DEF Snapshot
  <2> QED
    BY <1>1, <2>1, <2>3, <2>5 DEF Whole
<1>3. full \in BOOLEAN /\ root \in Dirs /\ Behind(root, state.n)
  BY <1>t DEF PublishTypeOK, BehindInv
<1>4. root' \in Dirs /\ Behind(root', state.n)
  BY <1>3, WithoutFinalDir DEF Copied
<1>5. /\ phase' = "apply" /\ at' = 1
      /\ UNCHANGED <<state, active, committed, staging, snapshots, why, changed, from, full, expected,
                     call, made, replays, late, failures>>
  BY DEF Copied
<1>6. PublishTypeOK'
  BY <1>t, <1>4, <1>5 DEF PublishTypeOK
<1>7. StepInv'
  BY <1>t, <1>1, <1>2, <1>5 DEF StepInv, Whole
<1>8. SnapshotsInv'
  BY <1>t, <1>5 DEF SnapshotsInv, Whole
<1>9. BehindInv'
  BY <1>t, <1>1, <1>4, <1>5 DEF BehindInv
<1>10. RestoreInv'
  BY <1>1, <1>5 DEF RestoreInv, RestoredIsCommitted
<1> QED
  BY <1>6, <1>7, <1>8, <1>9, <1>10 DEF PublishInv

LEMMA SourceDir ==
  ASSUME PublishInv, phase \in {"apply", "reports"}
  PROVE  Source \in Dirs /\ Behind(Source, state.n)
<1>1. CASE from = NoGen
  BY <1>1 DEF PublishInv, StepInv, BehindInv, Source
<1>2. CASE from # NoGen
  BY <1>2 DEF PublishInv, StepInv, SnapshotsInv, BehindInv, Source
<1> QED
  BY <1>1, <1>2

\* A move takes something out of the source, which nothing else depends on.
LEMMA SourceStep ==
  ASSUME PublishInv, phase \in {"apply", "reports"}, NEW e \in Dirs, Behind(e, state.n),
         SourceBecomes(e), root' \in Dirs, Behind(root', state.n), at' \in 1..5,
         UNCHANGED <<state, active, committed, phase, why, changed, from, full, expected,
                     call, made, replays, late, failures>>
  PROVE  PublishTypeOK' /\ StepInv' /\ SnapshotsInv' /\ BehindInv'
<1>t. PublishTypeOK /\ StepInv /\ SnapshotsInv /\ BehindInv
  BY DEF PublishInv
<1>1. CASE from = NoGen
  <2>1. staging' = e /\ UNCHANGED snapshots
    BY <1>1 DEF SourceBecomes
  <2>2. PublishTypeOK'
    BY <1>t, <2>1 DEF PublishTypeOK
  <2>3. StepInv'
    BY <1>t, <1>1, <2>1 DEF StepInv, Whole
  <2>4. SnapshotsInv'
    BY <1>t, <2>1 DEF SnapshotsInv, Whole
  <2>5. BehindInv'
    BY <1>t, <1>1, <2>1 DEF BehindInv
  <2> QED
    BY <2>2, <2>3, <2>4, <2>5
<1>2. CASE from # NoGen
  <2>1. from = committed /\ replays > 0 /\ committed \in Gens
    BY <1>t, <1>2 DEF StepInv, PublishTypeOK
  <2>2. snapshots' = [snapshots EXCEPT ![committed] = e] /\ UNCHANGED staging
    BY <1>2, <2>1 DEF SourceBecomes
  <2>3. /\ snapshots' \in [Gens -> Dirs \cup {NoDir}]
        /\ snapshots'[committed] = e /\ \A h \in Gens \ {committed} : snapshots'[h] = snapshots[h]
    BY <1>t, <2>1, <2>2 DEF PublishTypeOK
  <2>4. PublishTypeOK'
    BY <1>t, <2>2, <2>3 DEF PublishTypeOK
  <2>5. StepInv'
    BY <1>t, <1>2, <2>1, <2>2 DEF StepInv
  <2>6. SnapshotsInv'
    BY <1>t, <2>1, <2>3 DEF SnapshotsInv
  <2>7. BehindInv'
    BY <1>t, <1>2, <2>1, <2>2, <2>3 DEF BehindInv, PublishTypeOK
  <2> QED
    BY <2>4, <2>5, <2>6, <2>7
<1> QED
  BY <1>1, <1>2

LEMMA ApplyFileInv ==
  ASSUME PublishInv, ApplyFile
  PROVE  PublishInv'
<1> DEFINE f == Order[at]
           v == Source.file[f]
           e == [Source EXCEPT !.file[f] = Missing]
<1>t. PublishTypeOK /\ StepInv /\ SnapshotsInv /\ BehindInv /\ RestoreInv
  BY DEF PublishInv
<1>1. /\ phase = "apply" /\ at' = at + 1
      /\ UNCHANGED <<state, active, committed, phase, why, changed, from, full, expected,
                     call, made, replays, late, failures>>
  BY DEF ApplyFile
<1>2. at \in 1..4 /\ f \in Files
  BY <1>t, Names DEF ApplyFile, Last, PublishTypeOK
<1>3. Source \in Dirs /\ Behind(Source, state.n)
  BY <1>1, SourceDir
<1>4. v \in States \cup {Missing} /\ (f = "summary" \/ v = Missing \/ v.n <= state.n)
  BY <1>2, <1>3 DEF Dirs, Behind
<1>5. root' = [root EXCEPT !.file[f] = v] /\ SourceBecomes(e)
  BY DEF ApplyFile
<1>6. root \in Dirs /\ Behind(root, state.n)
  BY <1>t DEF PublishTypeOK, BehindInv
<1> HIDE DEF f, v
<1>7. /\ e \in Dirs /\ Behind(e, state.n)
      /\ \A g \in Files \ {f} : e.file[g] = Source.file[g]
  BY <1>2, <1>3, PutFile, BehindPut
<1>8. /\ root' \in Dirs /\ Behind(root', state.n)
      /\ root'.file[f] = v /\ \A g \in Files \ {f} : root'.file[g] = root.file[g]
  BY <1>2, <1>4, <1>5, <1>6, PutFile, BehindPut
<1> HIDE DEF e
<1>9. PublishTypeOK' /\ StepInv' /\ SnapshotsInv' /\ BehindInv'
  BY <1>1, <1>2, <1>5, <1>7, <1>8, SourceStep
<1>10. ASSUME from # NoGen, replays = 1, NEW i \in {1, 3}
       PROVE  IF i < at' THEN root'.file[Order[i]] = made[committed].file[Order[i]]
                         ELSE snapshots'[committed].file[Order[i]] = made[committed].file[Order[i]]
  <2>1. from = committed /\ committed \in Gens /\ Source = snapshots[committed]
    BY <1>1, <1>t, <1>10 DEF StepInv, PublishTypeOK, Source
  <2>2. snapshots'[committed] = e
    BY <1>5, <1>10, <2>1, <1>t DEF SourceBecomes, PublishTypeOK
  <2>3. IF i < at THEN root.file[Order[i]] = made[committed].file[Order[i]]
                  ELSE snapshots[committed].file[Order[i]] = made[committed].file[Order[i]]
    BY <1>1, <1>t, <1>10 DEF RestoreInv
  <2>4. Order[i] \in Files /\ (i # at => Order[i] # f)
    BY <1>2, Names DEF f
  <2>5. CASE i < at
    BY <1>1, <1>2, <1>8, <2>3, <2>4, <2>5
  <2>6. CASE i = at
    <3>1. v = Source.file[Order[i]] /\ f = Order[i]
      BY <2>6 DEF v, f
    <3> QED
      BY <1>1, <1>2, <1>8, <2>1, <2>3, <2>6, <3>1
  <2>7. CASE i > at
    BY <1>1, <1>2, <1>7, <2>1, <2>2, <2>3, <2>4, <2>7
  <2> QED
    BY <1>2, <2>5, <2>6, <2>7
<1>11. RestoreInv'
  BY <1>1, <1>10 DEF RestoreInv, RestoredIsCommitted
<1> QED
  BY <1>9, <1>11 DEF PublishInv

LEMMA FilesAppliedInv ==
  ASSUME PublishInv, FilesApplied
  PROVE  PublishInv'
<1>t. PublishTypeOK /\ StepInv /\ SnapshotsInv /\ BehindInv /\ RestoreInv
  BY DEF PublishInv
<1>1. /\ phase = "apply" /\ phase' = "reports" /\ expected' = Source.reports
      /\ UNCHANGED <<state, active, committed, staging, snapshots, root,
                     why, changed, from, full, at, call, made, replays, late, failures>>
  BY DEF FilesApplied, files
<1>2. Source.reports \in SUBSET Rows
  BY <1>1, SourceDir DEF Dirs
<1>3. PublishTypeOK'
  BY <1>t, <1>1, <1>2 DEF PublishTypeOK
<1>4. StepInv' /\ SnapshotsInv' /\ BehindInv'
  BY <1>t, <1>1 DEF StepInv, SnapshotsInv, BehindInv, Whole
<1>5. at \in 4..5
  BY <1>t DEF FilesApplied, Last, PublishTypeOK
<1>6. RestoreInv'
  BY <1>t, <1>1, <1>5 DEF RestoreInv, RestoredIsCommitted
<1> QED
  BY <1>3, <1>4, <1>6 DEF PublishInv

LEMMA ApplyReportInv ==
  ASSUME PublishInv, ApplyReport
  PROVE  PublishInv'
<1>t. PublishTypeOK /\ StepInv /\ SnapshotsInv /\ BehindInv /\ RestoreInv
  BY DEF PublishInv
<1>1. /\ phase = "reports"
      /\ UNCHANGED <<state, active, committed, phase, why, changed, from, full, at, expected,
                     call, made, replays, late, failures>>
  BY DEF ApplyReport, process
<1>2. Source \in Dirs /\ Behind(Source, state.n)
  BY <1>1, SourceDir
<1>3. root \in Dirs /\ Behind(root, state.n)
  BY <1>t DEF PublishTypeOK, BehindInv
<1>4. PICK c \in Source.reports :
         /\ root' = [root EXCEPT !.reports = @ \cup {c}]
         /\ SourceBecomes([Source EXCEPT !.reports = @ \ {c}])
  BY DEF ApplyReport
<1> DEFINE r == root.reports \cup {c}
           q == Source.reports \ {c}
           e == [Source EXCEPT !.reports = q]
<1>5. /\ r \in SUBSET Rows /\ r \subseteq 1..state.n
      /\ q \in SUBSET Rows /\ q \subseteq 1..state.n
  BY <1>2, <1>3 DEF Dirs, Behind
<1>6. root' = [root EXCEPT !.reports = r] /\ SourceBecomes(e)
  BY <1>4
<1> HIDE DEF r, q
<1>7. e \in Dirs /\ Behind(e, state.n)
  BY <1>2, <1>5, PutReports DEF Behind
<1>8. root' \in Dirs /\ Behind(root', state.n) /\ root'.file = root.file
  BY <1>3, <1>5, <1>6, PutReports DEF Behind
<1> HIDE DEF e
<1>9. PublishTypeOK' /\ StepInv' /\ SnapshotsInv' /\ BehindInv'
  BY <1>t, <1>1, <1>6, <1>7, <1>8, SourceStep DEF PublishTypeOK
<1>10. RestoreInv'
  BY <1>t, <1>1, <1>8 DEF RestoreInv, RestoredIsCommitted
<1> QED
  BY <1>9, <1>10 DEF PublishInv

LEMMA PruneReportInv ==
  ASSUME PublishInv, NEW c \in Rows, PruneReport(c)
  PROVE  PublishInv'
<1>t. PublishTypeOK /\ StepInv /\ SnapshotsInv /\ BehindInv /\ RestoreInv
  BY DEF PublishInv
<1> DEFINE r == root.reports \ {c}
<1>1. /\ phase = "reports" /\ root' = [root EXCEPT !.reports = r]
      /\ UNCHANGED <<state, active, committed, staging, snapshots, phase, why, changed, from, full, at,
                     expected, call, made, replays, late, failures>>
  BY DEF PruneReport, process
<1>2. root \in Dirs /\ Behind(root, state.n)
  BY <1>t DEF PublishTypeOK, BehindInv
<1>3. r \in SUBSET Rows /\ r \subseteq 1..state.n
  BY <1>2 DEF Dirs, Behind
<1> HIDE DEF r
<1>4. root' \in Dirs /\ Behind(root', state.n) /\ root'.file = root.file
  BY <1>1, <1>2, <1>3, PutReports DEF Behind
<1>5. PublishTypeOK'
  BY <1>t, <1>1, <1>4 DEF PublishTypeOK
<1>6. StepInv' /\ SnapshotsInv'
  BY <1>t, <1>1 DEF StepInv, SnapshotsInv, Whole
<1>7. BehindInv'
  BY <1>t, <1>1, <1>4 DEF BehindInv
<1>8. RestoreInv'
  BY <1>t, <1>1, <1>4 DEF RestoreInv, RestoredIsCommitted
<1> QED
  BY <1>5, <1>6, <1>7, <1>8 DEF PublishInv

LEMMA AppliedInv ==
  ASSUME PublishInv, Applied
  PROVE  PublishInv'
<1>t. PublishTypeOK /\ StepInv /\ SnapshotsInv /\ BehindInv /\ RestoreInv
  BY DEF PublishInv
<1>1. /\ phase = "reports" /\ phase' = IF from = NoGen THEN "commit" ELSE "rematerialize"
      /\ root' = WithoutFinal(full)
      /\ UNCHANGED <<state, active, committed, staging, snapshots, why, changed, from, full, at,
                     expected, call, made, replays, late, failures>>
  BY DEF Applied, KeepPlan
<1>2. full \in BOOLEAN /\ root \in Dirs /\ Behind(root, state.n)
  BY <1>t DEF PublishTypeOK, BehindInv
<1>3. /\ root' \in Dirs /\ Behind(root', state.n)
      /\ \A f \in Files \ {"final"} : root'.file[f] = root.file[f]
  BY <1>1, <1>2, WithoutFinalDir
<1>4. PublishTypeOK'
  BY <1>t, <1>1, <1>3 DEF PublishTypeOK
<1>5. StepInv'
  BY <1>t, <1>1 DEF StepInv, Whole
<1>6. SnapshotsInv'
  BY <1>t, <1>1 DEF SnapshotsInv, Whole
<1>7. BehindInv'
  BY <1>t, <1>1, <1>3 DEF BehindInv
<1>8. RestoreInv'
  BY <1>t, <1>1, <1>3, Names DEF RestoreInv, RestoredIsCommitted
<1> QED
  BY <1>4, <1>5, <1>6, <1>7, <1>8 DEF PublishInv

LEMMA CommitInv ==
  ASSUME PublishInv, Commit
  PROVE  PublishInv'
<1>t. PublishTypeOK /\ StepInv /\ SnapshotsInv /\ BehindInv /\ RestoreInv
  BY DEF PublishInv
<1>1. /\ phase = "commit" /\ phase' = "sweep" /\ committed' = active /\ replays' = 0
      /\ UNCHANGED <<state, active, staging, snapshots, root, why, changed, from, full, at, expected,
                     call, made, late, failures>>
  BY DEF Commit, KeepPlan
<1>2. PublishTypeOK'
  BY <1>t, <1>1 DEF PublishTypeOK
<1>3. StepInv'
  BY <1>t, <1>1 DEF StepInv
<1>4. SnapshotsInv'
  BY <1>t, <1>1 DEF SnapshotsInv, StepInv, Whole
<1>5. BehindInv'
  BY <1>t, <1>1 DEF BehindInv
<1>6. RestoreInv'
  BY <1>1 DEF RestoreInv, RestoredIsCommitted
<1> QED
  BY <1>2, <1>3, <1>4, <1>5, <1>6 DEF PublishInv

\* Steps that only remove snapshots nothing refers to.
LEMMA ForgottenSnapshots ==
  ASSUME PublishInv,
         snapshots' = [g \in Gens |-> IF g = committed THEN snapshots[g] ELSE NoDir],
         made' = [g \in Gens |-> IF g = committed THEN made[g] ELSE EmptyDir],
         UNCHANGED <<active, committed, replays>>
  PROVE  /\ snapshots' \in [Gens -> Dirs \cup {NoDir}]
         /\ made' \in [Gens -> Dirs]
         /\ SnapshotsInv'
         /\ \A g \in {active', committed'} :
              g # NoGen /\ snapshots'[g] \in Dirs => Behind(snapshots'[g], state.n)
<1>t. PublishTypeOK /\ SnapshotsInv /\ BehindInv
  BY DEF PublishInv
<1>1. /\ committed \in Gens \cup {NoGen} /\ active \in Gens \cup {NoGen}
      /\ snapshots \in [Gens -> Dirs \cup {NoDir}] /\ made \in [Gens -> Dirs]
  BY <1>t DEF PublishTypeOK
<1>2. snapshots' \in [Gens -> Dirs \cup {NoDir}] /\ made' \in [Gens -> Dirs]
  BY <1>1, Distinct
<1>3. committed # NoGen => snapshots'[committed] = snapshots[committed] /\ made'[committed] = made[committed]
  BY <1>1
<1>4. SnapshotsInv'
  BY <1>t, <1>3 DEF SnapshotsInv, Whole
<1>5. \A g \in Gens : snapshots'[g] \in {snapshots[g], NoDir}
  BY <1>1
<1>6. \A g \in {active', committed'} :
        g # NoGen /\ snapshots'[g] \in Dirs => Behind(snapshots'[g], state.n)
  BY <1>t, <1>1, <1>5, Distinct DEF BehindInv
<1> QED
  BY <1>2, <1>4, <1>6

\* A plan that is forgotten has the types of one.
LEMMA Forgotten ==
  ASSUME Forget
  PROVE  /\ changed' \in SUBSET Rows /\ changed' \subseteq 1..state'.n
         /\ from' \in Gens \cup {NoGen} /\ full' \in BOOLEAN /\ at' \in 1..5
         /\ expected' \in SUBSET Rows
<1>1. changed' = {} /\ from' = NoGen /\ full' = FALSE /\ at' = 1 /\ expected' = {}
  BY DEF Forget
<1>2. changed' \in SUBSET Rows /\ changed' \subseteq 1..state'.n /\ expected' \in SUBSET Rows
  BY <1>1
<1>3. from' \in Gens \cup {NoGen} /\ at' \in 1..5
  BY <1>1
<1>4. full' \in BOOLEAN
  BY <1>1, Zenon
<1> QED
  BY <1>2, <1>3, <1>4

LEMMA SweepInv ==
  ASSUME PublishInv, Sweep
  PROVE  PublishInv'
<1>t. PublishTypeOK /\ StepInv /\ SnapshotsInv /\ BehindInv /\ RestoreInv
  BY DEF PublishInv
<1>1. /\ snapshots' = [g \in Gens |-> IF g = committed THEN snapshots[g] ELSE NoDir]
      /\ made' = [g \in Gens |-> IF g = committed THEN made[g] ELSE EmptyDir]
      /\ staging' = NoDir /\ changed' = {} /\ from' = NoGen /\ full' = FALSE
      /\ at' = 1 /\ expected' = {}
      /\ UNCHANGED <<state, active, committed, root, why, call, replays, late, failures>>
  BY DEF Sweep, Forget
<1>2. phase = "sweep" /\ why \in {"load", "row", "finish"}
  BY <1>t DEF Sweep, StepInv, PublishTypeOK
<1>3. phase' \in {"loaded", "idle", "ended"}
  BY <1>2 DEF Sweep, After
<1>4. /\ snapshots' \in [Gens -> Dirs \cup {NoDir}]
      /\ made' \in [Gens -> Dirs]
      /\ SnapshotsInv'
      /\ \A g \in {active', committed'} :
           g # NoGen /\ snapshots'[g] \in Dirs => Behind(snapshots'[g], state.n)
  BY <1>1, ForgottenSnapshots
<1>5. PublishTypeOK'
  <2>1. /\ changed' \in SUBSET Rows /\ from' \in Gens \cup {NoGen} /\ full' \in BOOLEAN
        /\ at' \in 1..5 /\ expected' \in SUBSET Rows
    BY Forgotten DEF Sweep
  <2>2. /\ staging' = NoDir
        /\ UNCHANGED <<state, active, committed, root, why, call, replays, late, failures>>
    BY <1>1
  <2> QED
    BY <1>t, <1>3, <1>4, <2>1, <2>2 DEF PublishTypeOK
<1>6. StepInv'
  BY <1>1, <1>2, <1>3 DEF StepInv
<1>7. BehindInv'
  BY <1>t, <1>1, <1>3, <1>4 DEF BehindInv
<1>8. RestoreInv'
  BY <1>3 DEF RestoreInv, RestoredIsCommitted
<1> QED
  BY <1>4, <1>5, <1>6, <1>7, <1>8 DEF PublishInv

LEMMA LoadAndRestoreInv ==
  ASSUME PublishInv, LoadAndRestore
  PROVE  PublishInv'
<1>t. PublishTypeOK /\ StepInv /\ SnapshotsInv /\ BehindInv /\ RestoreInv
  BY DEF PublishInv
<1>1. /\ staging' = NoDir /\ from' = committed /\ full' = FullSurface(state)
      /\ root' = WithoutFinal(full') /\ at' = 1
      /\ replays' = IF replays = 2 THEN 2 ELSE replays + 1
      /\ phase' = "apply" /\ why' = "load" /\ committed # NoGen
      /\ UNCHANGED <<state, active, committed, snapshots, changed, expected, call, made, late, failures>>
  BY DEF LoadAndRestore, HasSnapshot
<1>2. full' \in BOOLEAN /\ root \in Dirs /\ Behind(root, state.n)
  BY <1>t, <1>1 DEF PublishTypeOK, BehindInv, FullSurface, States
<1>3. root' \in Dirs /\ Behind(root', state.n)
  BY <1>1, <1>2, WithoutFinalDir
<1>4. replays' \in 1..2 /\ (replays' = 1 => replays = 0) /\ replays \in 0..2
  BY <1>t, <1>1 DEF PublishTypeOK
<1>5. PublishTypeOK'
  <2>1. /\ staging' \in Dirs \cup {NoDir} /\ from' \in Gens \cup {NoGen}
        /\ at' \in 1..5 /\ replays' \in 0..2
    BY <1>t, <1>1, <1>4 DEF PublishTypeOK
  <2>2. phase' = "apply" /\ why' = "load"
    BY <1>1
  <2>3. /\ state' \in States /\ active' \in Gens \cup {NoGen} /\ committed' \in Gens \cup {NoGen}
        /\ snapshots' \in [Gens -> Dirs \cup {NoDir}] /\ changed' \in SUBSET Rows
        /\ expected' \in SUBSET Rows /\ made' \in [Gens -> Dirs]
        /\ call' \in [Callers -> Calls] /\ late' \in BOOLEAN /\ failures' \in 0..MaxFailures
    BY <1>t, <1>1 DEF PublishTypeOK
  <2>4. full' \in BOOLEAN
    BY <1>2
  <2>5. root' \in Dirs
    BY <1>3
  <2> QED
    BY <2>1, <2>2, <2>3, <2>4, <2>5 DEF PublishTypeOK
<1>6. StepInv'
  BY <1>1, <1>4 DEF StepInv
<1>7. SnapshotsInv'
  BY <1>t, <1>1, <1>4 DEF SnapshotsInv
<1>8. BehindInv'
  BY <1>t, <1>1, <1>3 DEF BehindInv
<1>9. RestoreInv'
  <2>1. replays' = 1 => \A i \in {1, 3} : snapshots[committed].file[Order[i]] = made[committed].file[Order[i]]
    BY <1>t, <1>1, <1>4, Names DEF SnapshotsInv, Whole
  <2> QED
    BY <1>1, <2>1 DEF RestoreInv, RestoredIsCommitted
<1> QED
  BY <1>5, <1>6, <1>7, <1>8, <1>9 DEF PublishInv

LEMMA LoadInv ==
  ASSUME PublishInv, LoadComplete
  PROVE  PublishInv'
<1>t. PublishTypeOK /\ StepInv /\ SnapshotsInv /\ BehindInv /\ RestoreInv
  BY DEF PublishInv
<1>1. /\ staging' \in {NoDir, staging} /\ phase' = "rematerialize" /\ why' = "load"
      /\ ~(Incomplete /\ HasSnapshot(committed))
      /\ UNCHANGED <<state, active, committed, snapshots, root, changed, from, full, at, expected,
                     call, made, replays, late, failures>>
  BY DEF LoadComplete, AfterLoad
<1>2. PublishTypeOK'
  BY <1>t, <1>1 DEF PublishTypeOK
<1>3. StepInv' /\ SnapshotsInv' /\ BehindInv'
  BY <1>t, <1>1 DEF StepInv, SnapshotsInv, BehindInv, Whole
<1>4. Incomplete => committed = NoGen
  BY <1>t, <1>1, Distinct DEF SnapshotsInv, HasSnapshot
<1>5. RestoreInv'
  BY <1>1, <1>4 DEF RestoreInv, RestoredIsCommitted, Incomplete
<1> QED
  BY <1>2, <1>3, <1>5 DEF PublishInv

\* Steps of the process that leave the directories alone.
LEMMA QuietStep ==
  ASSUME PublishInv, phase' \in {"stage", "off", "failed"},
         state' \in States, state.n <= state'.n,
         changed' \in SUBSET Rows, changed' \subseteq 1..state'.n,
         from' \in Gens \cup {NoGen}, full' \in BOOLEAN, at' \in 1..5,
         expected' \in SUBSET Rows, why' \in {"load", "row", "finish", "fresh"},
         why' = "fresh" => phase' = "off",
         staging' \in {staging, NoDir}, call' \in [Callers -> Calls], late' = late,
         failures' \in 0..MaxFailures,
         UNCHANGED <<active, committed, snapshots, root, made, replays>>
  PROVE  PublishInv'
<1>t. PublishTypeOK /\ StepInv /\ SnapshotsInv /\ BehindInv /\ RestoreInv
  BY DEF PublishInv
<1>1. state.n \in Nat /\ state'.n \in Nat
  BY <1>t, PublishAssumption DEF PublishTypeOK, States
<1>2. PublishTypeOK'
  BY <1>t DEF PublishTypeOK
<1>3. StepInv'
  BY DEF StepInv
<1>4. SnapshotsInv'
  BY <1>t DEF SnapshotsInv, Whole
<1>5. root \in Dirs /\ Behind(root, state'.n)
  BY <1>t, <1>1, BehindGrows DEF PublishTypeOK, BehindInv
<1>6. \A g \in {active, committed} : g # NoGen /\ snapshots[g] \in Dirs => Behind(snapshots[g], state'.n)
  BY <1>t, <1>1, BehindGrows DEF BehindInv
<1>7. BehindInv'
  BY <1>5, <1>6 DEF BehindInv
<1>8. RestoreInv'
  BY DEF RestoreInv, RestoredIsCommitted
<1> QED
  BY <1>2, <1>3, <1>4, <1>7, <1>8 DEF PublishInv

LEMMA ProcessInv ==
  ASSUME PublishInv, Rematerialize \/ Upsert \/ Finish \/ StopEarly \/ FinishAborted
               \/ PublishRaises \/ Crash
  PROVE  PublishInv'
<1>t. PublishTypeOK /\ StepInv
  BY DEF PublishInv
<1>n. /\ state \in States /\ state.n \in 0..NRows /\ NRows \in Nat /\ state.n <= state.n
      /\ failures \in 0..MaxFailures /\ MaxFailures \in Nat
  BY <1>t, PublishAssumption DEF PublishTypeOK, States
<1>c. call \in [Callers -> Calls] /\ [c \in Callers |-> NoCall] \in [Callers -> Calls]
  BY <1>t, NoCallType DEF PublishTypeOK
<1>f. MayFail => failures' \in 0..MaxFailures
  BY <1>n DEF MayFail
<1>1. CASE Rematerialize
  <2>1. why # "fresh" /\ why' = why /\ why \in {"load", "row", "finish", "fresh"}
    BY <1>t, <1>1 DEF Rematerialize, StepInv, PublishTypeOK
  <2>2. /\ phase' = "stage" /\ state' = state /\ staging' = staging /\ failures' = failures
        /\ call' = call /\ late' = late /\ UNCHANGED <<active, committed, snapshots, root, made, replays>>
    BY <1>1 DEF Rematerialize, files
  <2>3. Forget
    BY <1>1 DEF Rematerialize
  <2> QED
    BY <1>n, <1>c, Forgotten, <2>1, <2>2, <2>3, QuietStep
<1>2. CASE Upsert
  <2>1. state.n < NRows /\ state' = [state EXCEPT !.n = state.n + 1] /\ changed' = {state.n + 1}
    BY <1>2 DEF Upsert, RowLeft
  <2>2. state' \in States /\ state'.n = state.n + 1 /\ state.n <= state'.n
    BY <1>n, <2>1 DEF States
  <2>3. changed' \in SUBSET Rows /\ changed' \subseteq 1..state'.n
    BY <1>n, <2>1, <2>2 DEF Rows
  <2> QED
    BY <1>2, <1>t, <1>c, <2>2, <2>3, QuietStep DEF Upsert, PublishTypeOK
<1>3. CASE Finish \/ StopEarly \/ FinishAborted
  <2>1. FinishWith /\ failures' \in 0..MaxFailures
    BY <1>3, <1>n, <1>f DEF Finish, StopEarly, FinishAborted
  <2>2. state' \in States /\ state'.n = state.n
    BY <1>n, <2>1 DEF FinishWith, Finished, States
  <2>3. /\ phase' = "stage" /\ why' = "finish" /\ staging' = staging
        /\ UNCHANGED <<active, committed, snapshots, root, call, made, replays, late>>
        /\ Forget
    BY <2>1 DEF FinishWith
  <2> QED
    BY <1>n, <1>c, Forgotten, <2>1, <2>2, <2>3, QuietStep
<1>4. CASE PublishRaises
  <2>1. /\ why # "fresh" /\ why' = why /\ why \in {"load", "row", "finish", "fresh"}
    BY <1>4, <1>t DEF PublishRaises, MayRaise, StepInv, PublishTypeOK
  <2>2. failures' \in 0..MaxFailures
    BY <1>4, <1>f DEF PublishRaises
  <2>3. /\ phase' \in {"failed", "off"} /\ state' = state /\ staging' \in {staging, NoDir}
        /\ UNCHANGED <<active, committed, snapshots, root, call, made, replays, late>>
        /\ Forget
    BY <1>4 DEF PublishRaises
  <2> QED
    BY <1>n, <1>c, Forgotten, <2>1, <2>2, <2>3, QuietStep
<1>5. CASE Crash
  <2>1. failures' \in 0..MaxFailures
    BY <1>5, <1>f DEF Crash
  <2>2. /\ phase' = "off" /\ state' = state /\ staging' = staging /\ why' = why
        /\ UNCHANGED <<active, committed, snapshots, root, made, replays, late>>
        /\ call' = [c \in Callers |-> NoCall]
        /\ Forget
    BY <1>5 DEF Crash, files
  <2>3. why \in {"load", "row", "finish", "fresh"}
    BY <1>t DEF PublishTypeOK
  <2> QED
    BY <1>n, <1>c, Forgotten, <2>1, <2>2, <2>3, QuietStep
<1> QED
  BY <1>1, <1>2, <1>3, <1>4, <1>5

\* The root as a clean-up leaves it shows nothing, whatever the state is.
LEMMA CleanedDir ==
  ASSUME PublishTypeOK, NEW n
  PROVE  Cleaned \in Dirs /\ Behind(Cleaned, n)
<1>1. root \in Dirs /\ root.file["summary"] \in States \cup {Missing}
  BY Names DEF PublishTypeOK, Dirs
<1> DEFINE v == root.file["summary"]
<1>2. Cleaned = [EmptyDir EXCEPT !.file["summary"] = v]
  BY DEF Cleaned
<1>3. "summary" \in Files /\ v \in States \cup {Missing}
  BY <1>1, Names
<1> HIDE DEF v
<1>4. Behind(EmptyDir, n)
  BY DEF EmptyDir, Behind
<1> QED
  BY <1>2, <1>3, <1>4, Distinct, PutFile, BehindPut

LEMMA CleanInv ==
  ASSUME PublishInv, NothingToShow \/ StartFresh
  PROVE  PublishInv'
<1>t. PublishTypeOK /\ StepInv /\ SnapshotsInv /\ BehindInv /\ RestoreInv
  BY DEF PublishInv
<1>n. failures' \in 0..MaxFailures
  BY <1>t, PublishAssumption DEF NothingToShow, StartFresh, MayFail, PublishTypeOK
<1>1. /\ root' = Cleaned /\ staging' = NoDir /\ phase' = "forget"
      /\ changed' = {} /\ from' = NoGen /\ full' = FALSE /\ at' = 1 /\ expected' = {}
      /\ UNCHANGED <<state, active, committed, snapshots, call, made, replays, late>>
  BY DEF NothingToShow, StartFresh, CleanOutputs, Forget
<1>2. why' \in {"load", "row", "finish", "fresh"}
  BY <1>t DEF NothingToShow, StartFresh, PublishTypeOK
<1>3. root' \in Dirs /\ Behind(root', 0) /\ Behind(root', state'.n)
  BY <1>t, <1>1, CleanedDir
<1>4. PublishTypeOK'
  <2>1. /\ changed' \in SUBSET Rows /\ from' \in Gens \cup {NoGen} /\ full' \in BOOLEAN
        /\ at' \in 1..5 /\ expected' \in SUBSET Rows
    BY Forgotten DEF NothingToShow, StartFresh, CleanOutputs
  <2>2. /\ staging' = NoDir /\ phase' = "forget"
        /\ UNCHANGED <<state, active, committed, snapshots, call, made, replays, late>>
    BY <1>1
  <2> QED
    BY <1>t, <1>n, <1>2, <1>3, <2>1, <2>2 DEF PublishTypeOK
<1>5. StepInv' /\ SnapshotsInv'
  BY <1>t, <1>1 DEF StepInv, SnapshotsInv, Whole
<1>6. BehindInv'
  BY <1>t, <1>1, <1>3 DEF BehindInv
<1>7. RestoreInv'
  BY <1>1 DEF RestoreInv, RestoredIsCommitted
<1> QED
  BY <1>4, <1>5, <1>6, <1>7 DEF PublishInv

LEMMA ForgetGenerationsInv ==
  ASSUME PublishInv, ForgetGenerations
  PROVE  PublishInv'
<1>t. PublishTypeOK /\ StepInv /\ BehindInv
  BY DEF PublishInv
<1>1. /\ phase = "forget" /\ phase' = "clear" /\ active' = NoGen /\ committed' = NoGen /\ replays' = 0
      /\ UNCHANGED <<state, staging, snapshots, root, call, made, late, failures,
                     why, changed, from, full, at, expected>>
  BY DEF ForgetGenerations, KeepPlan
<1>2. PublishTypeOK'
  BY <1>t, <1>1 DEF PublishTypeOK
<1>3. StepInv' /\ SnapshotsInv' /\ BehindInv' /\ RestoreInv'
  BY <1>t, <1>1 DEF StepInv, SnapshotsInv, BehindInv, RestoreInv, RestoredIsCommitted
<1> QED
  BY <1>2, <1>3 DEF PublishInv

LEMMA ClearSnapshotsInv ==
  ASSUME PublishInv, ClearSnapshots
  PROVE  PublishInv'
<1>t. PublishTypeOK /\ StepInv /\ BehindInv
  BY DEF PublishInv
<1>1. /\ phase = "clear" /\ phase' = (IF why = "load" THEN "show" ELSE "begin")
      /\ snapshots' = [g \in Gens |-> NoDir] /\ made' = [g \in Gens |-> EmptyDir]
      /\ UNCHANGED <<state, active, committed, staging, root, call, replays, late, failures,
                     why, changed, from, full, at, expected>>
  BY DEF ClearSnapshots, KeepPlan
<1>2. active = NoGen /\ committed = NoGen /\ Behind(root, 0) /\ Behind(root, state.n)
  BY <1>t, <1>1 DEF StepInv, BehindInv
<1>3. snapshots' \in [Gens -> Dirs \cup {NoDir}] /\ made' \in [Gens -> Dirs]
  BY <1>1, Distinct
<1>4. PublishTypeOK'
  BY <1>t, <1>1, <1>3 DEF PublishTypeOK
<1>5. StepInv'
  BY <1>t, <1>1, <1>2 DEF StepInv
<1>6. SnapshotsInv' /\ BehindInv' /\ RestoreInv'
  BY <1>1, <1>2 DEF SnapshotsInv, BehindInv, RestoreInv, RestoredIsCommitted
<1> QED
  BY <1>4, <1>5, <1>6 DEF PublishInv

\* Writing a summary changes no other file.
LEMMA WriteSummaryDirs ==
  ASSUME PublishInv, NEW s \in States, NEW n \in Nat, WriteSummary(s), Behind(root, n),
         committed # NoGen /\ snapshots[committed] \in Dirs => Behind(snapshots[committed], n)
  PROVE  /\ root' \in Dirs /\ Behind(root', n)
         /\ snapshots' \in [Gens -> Dirs \cup {NoDir}]
         /\ \A g \in Gens \ {committed} : snapshots'[g] = snapshots[g]
         /\ committed # NoGen =>
              /\ snapshots'[committed] \in Dirs /\ Behind(snapshots'[committed], n)
              /\ snapshots'[committed].reports = snapshots[committed].reports
              /\ \A f \in Files \ {"summary"} :
                   snapshots'[committed].file[f] = snapshots[committed].file[f]
<1>t. PublishTypeOK /\ SnapshotsInv
  BY DEF PublishInv
<1>0. "summary" \in Files /\ s \in States \cup {Missing}
  BY Names
<1>1. root' \in Dirs /\ Behind(root', n)
  BY <1>t, <1>0, PutFile, BehindPut DEF WriteSummary, PublishTypeOK
<1>2. committed # NoGen => committed \in Gens /\ snapshots[committed] \in Dirs
  BY <1>t DEF PublishTypeOK, SnapshotsInv
<1>3. CASE FullSurface(s) /\ HasSnapshot(committed)
  <2> DEFINE e == [snapshots[committed] EXCEPT !.file["summary"] = s]
  <2>1. committed \in Gens /\ snapshots[committed] \in Dirs
    BY <1>2, <1>3 DEF HasSnapshot
  <2>2. /\ e \in Dirs /\ Behind(e, n)
        /\ e.reports = snapshots[committed].reports
        /\ \A f \in Files \ {"summary"} : e.file[f] = snapshots[committed].file[f]
    <3> DEFINE d == snapshots[committed]
    <3>1. d \in Dirs /\ Behind(d, n)
      BY <2>1, PublishAssumption
    <3> HIDE DEF d
    <3>2. /\ [d EXCEPT !.file["summary"] = s] \in Dirs
          /\ [d EXCEPT !.file["summary"] = s].reports = d.reports
          /\ \A f \in Files \ {"summary"} : [d EXCEPT !.file["summary"] = s].file[f] = d.file[f]
      BY <1>0, <3>1, PutFile
    <3>3. Behind([d EXCEPT !.file["summary"] = s], n)
      BY <1>0, <3>1, BehindPut
    <3> QED
      BY <3>2, <3>3 DEF d
  <2>3. snapshots' = [snapshots EXCEPT ![committed] = e]
    BY <1>3 DEF WriteSummary
  <2> HIDE DEF e
  <2>4. /\ snapshots' \in [Gens -> Dirs \cup {NoDir}]
        /\ snapshots'[committed] = e /\ \A g \in Gens \ {committed} : snapshots'[g] = snapshots[g]
    BY <1>t, <2>1, <2>2, <2>3 DEF PublishTypeOK
  <2> QED
    BY <1>1, <2>2, <2>4
<1>4. CASE ~(FullSurface(s) /\ HasSnapshot(committed))
  <2>1. snapshots' = snapshots
    BY <1>4 DEF WriteSummary
  <2> QED
    BY <1>t, <1>1, <1>2, <2>1 DEF PublishTypeOK
<1> QED
  BY <1>3, <1>4

\* A step that writes a summary, with a state that has no fewer results or
\* with everything forgotten.
LEMMA SummaryStep ==
  ASSUME PublishInv, NEW s \in States, WriteSummary(s), state' \in States,
         Behind(root, state'.n),
         \A g \in {active, committed} : g # NoGen /\ snapshots[g] \in Dirs => Behind(snapshots[g], state'.n),
         phase' \in {"loaded", "idle"}, why' \in {"load", "row", "finish"},
         UNCHANGED <<active, committed, staging, changed, from, full, at, expected, call, made, replays>>,
         late' \in BOOLEAN,
         failures' = failures
  PROVE  PublishInv'
<1>t. PublishTypeOK /\ StepInv /\ SnapshotsInv
  BY DEF PublishInv
<1>1. state'.n \in Nat
  BY PublishAssumption DEF States
<1>2. /\ root' \in Dirs /\ Behind(root', state'.n)
      /\ snapshots' \in [Gens -> Dirs \cup {NoDir}]
      /\ \A g \in Gens \ {committed} : snapshots'[g] = snapshots[g]
      /\ committed # NoGen =>
           /\ snapshots'[committed] \in Dirs /\ Behind(snapshots'[committed], state'.n)
           /\ snapshots'[committed].reports = snapshots[committed].reports
           /\ \A f \in Files \ {"summary"} : snapshots'[committed].file[f] = snapshots[committed].file[f]
  BY <1>1, WriteSummaryDirs
<1>3. PublishTypeOK'
  BY <1>t, <1>2 DEF PublishTypeOK
<1>4. StepInv'
  BY DEF StepInv
<1>5. SnapshotsInv'
  BY <1>t, <1>2 DEF SnapshotsInv, Whole
<1>6. BehindInv'
  BY <1>t, <1>2 DEF BehindInv, PublishTypeOK
<1>7. RestoreInv'
  BY DEF RestoreInv, RestoredIsCommitted
<1> QED
  BY <1>3, <1>4, <1>5, <1>6, <1>7 DEF PublishInv

LEMMA ShowInv ==
  ASSUME PublishInv, ShowSummary \/ Refresh \/ Resume \/ BeginFresh
  PROVE  PublishInv'
<1>t. PublishTypeOK /\ StepInv /\ BehindInv
  BY DEF PublishInv
<1>n. /\ state \in States /\ NRows \in Nat
      /\ Behind(root, state.n)
      /\ \A g \in {active, committed} : g # NoGen /\ snapshots[g] \in Dirs => Behind(snapshots[g], state.n)
  BY <1>t, PublishAssumption DEF PublishTypeOK, BehindInv
<1>1. CASE ShowSummary
  <2>1. /\ phase = "show" /\ WriteSummary(state) /\ phase' = "loaded" /\ state' = state
        /\ UNCHANGED <<active, committed, staging, why, changed, from, full, at, expected,
                       call, made, replays>>
        /\ late' \in BOOLEAN /\ failures' = failures
    BY <1>1 DEF ShowSummary, KeepPlan
  <2>2. why' \in {"load", "row", "finish"}
    BY <1>t, <2>1 DEF PublishTypeOK, StepInv
  <2> QED
    BY <1>n, <2>1, <2>2, SummaryStep
<1>2. CASE Resume
  <2> DEFINE s == [state EXCEPT !.finished = FALSE]
  <2>1. s \in States /\ s.n = state.n
    BY <1>n DEF States
  <2>2. /\ WriteSummary(s) /\ state' = s /\ phase' = "idle" /\ why' = "row"
        /\ UNCHANGED <<active, committed, staging, changed, from, full, at, expected, call, made, replays>>
        /\ late' \in BOOLEAN /\ failures' = failures
    BY <1>2 DEF Resume, StartRun
  <2> HIDE DEF s
  <2> QED
    BY <1>n, <2>1, <2>2, SummaryStep
<1>3. CASE BeginFresh
  <2> DEFINE s == [n |-> 0, finished |-> FALSE]
  <2>1. s \in States /\ s.n = 0
    BY <1>n DEF States
  <2>2. /\ WriteSummary(s) /\ state' = s /\ phase' = "idle" /\ why' = "row"
        /\ UNCHANGED <<active, committed, staging, changed, from, full, at, expected, call, made, replays>>
        /\ late' \in BOOLEAN /\ failures' = failures
    BY <1>3 DEF BeginFresh, StartRun
  <2>3. active = NoGen /\ committed = NoGen /\ Behind(root, 0)
    BY <1>t, <1>3 DEF BeginFresh, StepInv, BehindInv
  <2> HIDE DEF s
  <2> QED
    BY <2>1, <2>2, <2>3, SummaryStep
<1>4. CASE Refresh
  <2>1. /\ phase' = "idle" /\ WriteSummary(state) /\ state' = state
        /\ UNCHANGED <<active, committed, staging, why, changed, from, full, at, expected,
                       call, made, replays>>
        /\ late' \in BOOLEAN /\ failures' = failures
    BY <1>4 DEF Refresh, process
  <2>2. why' \in {"load", "row", "finish"}
    BY <1>t, <1>4, <2>1 DEF Refresh, PublishTypeOK, StepInv
  <2> QED
    BY <1>n, <2>1, <2>2, SummaryStep
<1> QED
  BY <1>1, <1>2, <1>3, <1>4

\* A worker changes no more than summaries.
LEMMA CallType ==
  ASSUME PublishTypeOK, NEW c \in Callers, NEW p \in CallPlaces, NEW v \in States,
         NEW g \in Gens \cup {NoGen},
         call' = [call EXCEPT ![c] = [place |-> p, says |-> v, to |-> g]]
  PROVE  call' \in [Callers -> Calls]
BY DEF PublishTypeOK, Calls

LEMMA PutSummaryInv ==
  ASSUME PublishInv, NEW c \in Callers, PutSummary(c)
  PROVE  PublishInv'
<1>t. PublishTypeOK /\ StepInv /\ SnapshotsInv /\ BehindInv /\ RestoreInv
  BY DEF PublishInv
<1> DEFINE v == call[c].says
<1>1. v \in States /\ "summary" \in Files /\ root \in Dirs /\ staging \in Dirs \cup {NoDir}
  BY <1>t, Names DEF PublishTypeOK, Calls
<1>2. /\ late' \in BOOLEAN
      /\ call' = [call EXCEPT ![c] = [place |-> "written", says |-> v, to |-> NoGen]]
      /\ UNCHANGED <<state, active, committed, snapshots, phase, why, changed, from, full, at,
                     expected, made, replays, failures>>
  BY <1>t DEF PutSummary, CallGoes, process, PublishTypeOK
<1>3. /\ root' \in {root, [root EXCEPT !.file["summary"] = v]}
      /\ staging' = staging \/ (staging # NoDir /\ staging' = [staging EXCEPT !.file["summary"] = v])
  BY DEF PutSummary
<1> HIDE DEF v
<1>4. call' \in [Callers -> Calls]
  BY <1>t, <1>1, <1>2, CallType DEF CallPlaces
<1>p. ASSUME NEW d \in Dirs
      PROVE  /\ [d EXCEPT !.file["summary"] = v] \in Dirs
             /\ [d EXCEPT !.file["summary"] = v].reports = d.reports
             /\ \A f \in Files \ {"summary"} : [d EXCEPT !.file["summary"] = v].file[f] = d.file[f]
  <2>1. "summary" \in Files /\ v \in States \cup {Missing}
    BY <1>1
  <2> QED
    BY <1>p, <2>1, PutFile
<1>5. /\ root' \in Dirs /\ root'.reports = root.reports
      /\ \A f \in Files \ {"summary"} : root'.file[f] = root.file[f]
  BY <1>1, <1>3, <1>p
<1>6. /\ staging = NoDir => staging' = NoDir
      /\ staging # NoDir => /\ staging' \in Dirs /\ staging'.reports = staging.reports
                            /\ \A f \in Files \ {"summary"} : staging'.file[f] = staging.file[f]
  <2>1. CASE staging' = staging
    BY <1>1, <2>1
  <2>2. CASE staging # NoDir /\ staging' = [staging EXCEPT !.file["summary"] = v]
    <3>1. staging \in Dirs
      BY <1>1, <2>2
    <3> QED
      BY <1>p, <2>2, <3>1
  <2> QED
    BY <1>3, <2>1, <2>2
<1>7. PublishTypeOK'
  BY <1>t, <1>2, <1>4, <1>5, <1>6 DEF PublishTypeOK
<1>8. \A n : Behind(root, n) => Behind(root', n)
  BY <1>5 DEF Behind
<1>9. \A n : staging # NoDir /\ Behind(staging, n) => Behind(staging', n)
  BY <1>6 DEF Behind
<1>10. StepInv'
  <2>1. phase = "copy" => staging # NoDir /\ Snapshot' = Snapshot
    BY <1>t, <1>2, Distinct DEF StepInv, Snapshot
  <2>2. phase = "copy" => staging'.file["results"] # Missing /\ CopyOf(Snapshot, staging')
    BY <1>t, <1>6, <2>1, Names DEF StepInv, CopyOf
  <2> QED
    BY <1>t, <1>2, <1>6, <2>1, <2>2, Distinct DEF StepInv, Whole
<1>11. SnapshotsInv'
  BY <1>t, <1>2 DEF SnapshotsInv, Whole
<1>12. BehindInv'
  BY <1>t, <1>2, <1>8, <1>9, Distinct DEF BehindInv, StepInv
<1>13. RestoreInv'
  BY <1>t, <1>2, <1>5, Names DEF RestoreInv, RestoredIsCommitted, Incomplete
<1> QED
  BY <1>7, <1>10, <1>11, <1>12, <1>13 DEF PublishInv

LEMMA SyncSummaryInv ==
  ASSUME PublishInv, NEW c \in Callers, SyncSummary(c)
  PROVE  PublishInv'
<1>t. PublishTypeOK /\ StepInv /\ SnapshotsInv /\ BehindInv /\ RestoreInv
  BY DEF PublishInv
<1>1. /\ call' \in [Callers -> Calls]
      /\ UNCHANGED <<state, active, committed, staging, root, phase, why, changed, from, full, at,
                     expected, made, replays, late, failures>>
  BY <1>t, NoCallType DEF SyncSummary, process, PublishTypeOK
<1>2. /\ snapshots' \in [Gens -> Dirs \cup {NoDir}]
      /\ \A g \in Gens \ {committed} : snapshots'[g] = snapshots[g]
      /\ committed \in Gens =>
           /\ snapshots'[committed] \in Dirs
           /\ snapshots'[committed].reports = snapshots[committed].reports
           /\ \A f \in Files \ {"summary"} :
                snapshots'[committed].file[f] = snapshots[committed].file[f]
  <2>1. CASE snapshots' = snapshots
    BY <1>t, <2>1, PublishAssumption DEF SnapshotsInv, PublishTypeOK
  <2>2. CASE /\ HasSnapshot(committed)
             /\ snapshots' = [snapshots EXCEPT ![committed].file["summary"] = call[c].says]
    <3> DEFINE d == snapshots[committed]
               v == call[c].says
               e == [d EXCEPT !.file["summary"] = v]
    <3>1. committed \in Gens /\ d \in Dirs /\ v \in States /\ "summary" \in Files
      BY <1>t, <2>2, Names DEF HasSnapshot, PublishTypeOK, SnapshotsInv, Calls
    <3>2. snapshots' = [snapshots EXCEPT ![committed] = e]
      BY <2>2
    <3> HIDE DEF v, d
    <3>3. /\ e \in Dirs /\ e.reports = d.reports
          /\ \A f \in Files \ {"summary"} : e.file[f] = d.file[f]
      BY <3>1, PutFile
    <3> HIDE DEF e
    <3>4. /\ snapshots' \in [Gens -> Dirs \cup {NoDir}]
          /\ snapshots'[committed] = e /\ \A g \in Gens \ {committed} : snapshots'[g] = snapshots[g]
      BY <1>t, <3>1, <3>2, <3>3 DEF PublishTypeOK
    <3> QED
      BY <3>3, <3>4 DEF d
  <2> QED
    BY <2>1, <2>2 DEF SyncSummary
<1>3. PublishTypeOK'
  BY <1>t, <1>1, <1>2 DEF PublishTypeOK
<1>4. \A g \in Gens : \A n : snapshots[g] \in Dirs /\ Behind(snapshots[g], n) => Behind(snapshots'[g], n)
  BY <1>2 DEF Behind
<1>5. StepInv'
  <2>1. phase = "copy" => Snapshot' = Snapshot
    BY <1>t, <1>1, <1>2 DEF StepInv, Snapshot
  <2>2. \A g \in Gens : Whole(g) => Whole(g)'
    BY <1>1, <1>2 DEF Whole
  <2> QED
    BY <1>t, <1>1, <2>1, <2>2 DEF StepInv
<1>6. SnapshotsInv'
  BY <1>t, <1>1, <1>2 DEF SnapshotsInv, Whole, PublishTypeOK
<1>7. BehindInv'
  <2>1. \A g \in {active, committed} : g # NoGen /\ snapshots'[g] \in Dirs => Behind(snapshots'[g], state.n)
    <3> SUFFICES ASSUME NEW g \in {active, committed}, g # NoGen, snapshots'[g] \in Dirs
                 PROVE  Behind(snapshots'[g], state.n)
      OBVIOUS
    <3>1. g \in Gens /\ snapshots[g] \in Dirs
      BY <1>t, <1>2 DEF PublishTypeOK, SnapshotsInv
    <3> QED
      BY <1>t, <1>4, <3>1 DEF BehindInv
  <2> QED
    BY <1>t, <1>1, <2>1 DEF BehindInv
<1>8. RestoreInv'
  BY <1>t, <1>1, <1>2, Names DEF RestoreInv, RestoredIsCommitted, Incomplete, StepInv, PublishTypeOK
<1> QED
  BY <1>3, <1>5, <1>6, <1>7, <1>8 DEF PublishInv

LEMMA CallInv ==
  ASSUME PublishInv, NEW c \in Callers, BuildSummary(c) \/ CallStep(c)
  PROVE  PublishInv'
<1>t. PublishTypeOK
  BY DEF PublishInv
<1>1. CASE BuildSummary(c) \/ AimSummary(c)
  <2>1. PICK p \in CallPlaces, v \in States, g \in Gens \cup {NoGen} :
           call' = [call EXCEPT ![c] = [place |-> p, says |-> v, to |-> g]]
    <3>1. state \in States /\ call[c].says \in States /\ active \in Gens \cup {NoGen}
      BY <1>t DEF PublishTypeOK, Calls
    <3> QED
      BY <1>1, <3>1 DEF BuildSummary, AimSummary, CallGoes, CallPlaces
  <2>2. call' \in [Callers -> Calls] /\ UNCHANGED <<files, process, made, replays, late, failures>>
    BY <1>1, <1>t, <2>1, CallType DEF BuildSummary, AimSummary
  <2>3. PublishTypeOK'
    BY <1>t, <2>2 DEF PublishTypeOK, files, process
  <2>4. StepInv' /\ SnapshotsInv'
    BY <2>2 DEF PublishInv, StepInv, SnapshotsInv, Whole, Snapshot, files, process
  <2>5. BehindInv' /\ RestoreInv'
    BY <2>2 DEF PublishInv, BehindInv, RestoreInv, RestoredIsCommitted, Incomplete, files, process
  <2> QED
    BY <2>3, <2>4, <2>5 DEF PublishInv
<1> QED
  BY <1>1, PutSummaryInv, SyncSummaryInv DEF CallStep

LEMMA StutterInv ==
  ASSUME PublishInv, UNCHANGED publishVars
  PROVE  PublishInv'
<1>1. PublishTypeOK'
  BY DEF PublishInv, PublishTypeOK, publishVars, files, process
<1>2. StepInv' /\ SnapshotsInv'
  BY DEF PublishInv, StepInv, SnapshotsInv, Whole, Snapshot, publishVars, files, process
<1>3. BehindInv' /\ RestoreInv'
  BY DEF PublishInv, BehindInv, RestoreInv, RestoredIsCommitted, Incomplete, publishVars, files, process
<1> QED
  BY <1>1, <1>2, <1>3 DEF PublishInv

LEMMA NextInv == PublishInv /\ [PublishNext]_publishVars => PublishInv'
<1> SUFFICES ASSUME PublishInv, [PublishNext]_publishVars PROVE PublishInv'
  OBVIOUS
<1>1. CASE Publish
  BY <1>1, StageInv, CopyFileInv, CopyReportInv, CopiedInv, ApplyFileInv, FilesAppliedInv,
     ApplyReportInv, PruneReportInv, AppliedInv, CommitInv, SweepInv DEF Publish
<1>2. CASE Start
  BY <1>2, LoadAndRestoreInv, LoadInv, ProcessInv, CleanInv, ForgetGenerationsInv,
     ClearSnapshotsInv, ShowInv DEF Start
<1>3. CASE Run
  BY <1>3, ProcessInv, ShowInv DEF Run
<1>4. CASE StartFresh \/ StopEarly \/ PublishRaises \/ Crash
  BY <1>4, ProcessInv, CleanInv
<1>5. CASE Refresh \/ \E c \in Callers : BuildSummary(c) \/ CallStep(c)
  BY <1>5, ShowInv, CallInv
<1>6. CASE UNCHANGED publishVars
  BY <1>6, StutterInv
<1> QED
  BY <1>1, <1>2, <1>3, <1>4, <1>5, <1>6 DEF PublishNext, Progress

LEMMA Always == PublishSpec => []PublishInv
BY InitInv, NextInv, PTL DEF PublishSpec

------------------------------------------------------------------------------
(* What follows. *)

\* The files, the place of the process and the plan it follows always have
\* their types, over crashes, errors and restarts.
THEOREM PublishTypeCorrect == PublishSpec => []PublishTypeOK
<1>1. PublishInv => PublishTypeOK
  BY DEF PublishInv
<1> QED
  BY <1>1, Always, PTL

\* A restart finds the snapshot of the committed generation complete at every
\* moment: copying the staged one, the commit and the removal of stale
\* snapshots leave no gap, until a restore moves files out of it.
THEOREM SnapshotIsWhole == PublishSpec => []CommittedIsWhole
<1>1. PublishInv => CommittedIsWhole
  BY Distinct DEF PublishInv, SnapshotsInv, Whole, CommittedIsWhole
<1> QED
  BY <1>1, Always, PTL

\* The root never shows a company whose result is not in the persisted state,
\* in the middle of a publication, after a restore or in a fresh start that
\* was killed half way.
THEOREM NeverAhead == PublishSpec => []OutputsNeverAhead
<1>1. PublishInv => OutputsNeverAhead
  BY DEF PublishInv, BehindInv, Behind, OutputsNeverAhead
<1> QED
  BY <1>1, Always, PTL

\* The first restore after a commit puts the results and the indexes of the
\* committed generation back, wherever the next generation was interrupted.
THEOREM RestoreIsExact == PublishSpec => []RestoredIsCommitted
<1>1. PublishInv => RestoredIsCommitted
  BY DEF PublishInv, RestoreInv
<1> QED
  BY <1>1, Always, PTL

------------------------------------------------------------------------------
(* What the outputs show is current. *)

\* Whether the publication under way is of everything, and what it publishes:
\* the state does not change before it ends.
Full == why = "finish" \/ FullSurface(state)
Plan == Rendered(state, Full, changed)

\* The summary may be that of a worker.
Spoilt(f) == late /\ f = "summary"

\* The first k files of the order show the state.
Shown(k) == \A i \in 1..k : root.file[Order[i]] = state \/ Spoilt(Order[i])

Published ==
  /\ Shown(3)
  /\ Full => Shown(4) /\ root.reports = 1..state.n

\* Results and indexes show what the state has.
Showing == Shows("results", state.n) /\ Shows("report", state.n)

\* What of a publication is done at each place of the process, and what is left
\* in the staging directory.
PlanInv ==
  /\ phase = "copy" =>
       /\ full = Full
       /\ staging.reports = Plan.reports
       /\ \A i \in 1..Last(full) : staging.file[Order[i]] = state \/ Spoilt(Order[i])
  /\ phase = "apply" /\ from = NoGen =>
       /\ full = Full
       /\ staging.reports = Plan.reports
       /\ \A i \in 1..Last(full) :
            \/ IF i < at THEN root.file[Order[i]] = state ELSE staging.file[Order[i]] = state
            \/ Spoilt(Order[i])
  /\ phase = "reports" /\ from = NoGen =>
       /\ full = Full
       /\ expected = Plan.reports
       /\ expected \subseteq root.reports \cup staging.reports
       /\ Shown(Last(full))
  /\ phase \in {"commit", "sweep"} => Published

\* A load that finds nothing to show, and a fresh start, empty the root.
EmptyInv ==
  /\ phase = "rematerialize" \/ (phase \in {"apply", "reports"} /\ from # NoGen) => why = "load"
  /\ phase \in {"forget", "clear", "show", "begin"} =>
       root.file["results"] = Missing /\ root.file["report"] = Missing
  /\ (phase \in {"forget", "clear"} /\ why = "load") \/ phase = "show" => state.n = 0

\* The workers are at work while rows are processed, and nothing they wrote is
\* left in a publication without them.
AtRows == {"idle", "stage", "copy", "apply", "reports", "commit", "sweep", "failed"}

WorkersInv ==
  /\ NoCalls \/ PoolsOpen
  /\ why = "row" => phase \in AtRows \cup {"off", "ended"}
  /\ why = "row" /\ phase \in {"apply", "reports"} => from = NoGen
  /\ phase \in {"idle", "failed"} => why = "row"
  /\ phase \in {"copy", "commit", "sweep"} \/ (phase \in {"apply", "reports"} /\ from = NoGen)
       => why = "row" \/ ~late

ShowsInv == PlanInv /\ EmptyInv /\ (phase = "loaded" => Showing) /\ PublicIsCurrent

CurrentInv == ShowsInv /\ WorkersInv

LEMMA SamePlan ==
  ASSUME UNCHANGED <<state, why, changed>>
  PROVE  Full' = Full /\ Plan' = Plan
BY DEF Full, Plan, FullSurface, Rendered

LEMMA PlanOf ==
  ASSUME PublishInv
  PROVE  /\ Full \in BOOLEAN
         /\ \A i \in 1..Last(Full) : Plan.file[Order[i]] = state
         /\ Full => Plan.reports = 1..state.n
<1>1. Full \in BOOLEAN
  BY DEF Full, FullSurface, PublishInv, PublishTypeOK, States
<1>2. \A i \in 1..4 : Order[i] \in Files /\ (Order[i] = "final" => i = 4)
  BY Names
<1> QED
  BY <1>1, <1>2 DEF Plan, Rendered, Last

LEMMA ShownFiles ==
  ASSUME NEW k \in {3, 4}, Shown(k)
  PROVE  /\ root.file["results"] = state
         /\ late \/ root.file["summary"] = state
         /\ root.file["report"] = state
         /\ k = 4 => root.file["final"] = state
BY Names DEF Shown, Spoilt

LEMMA CurrentInit == PublishInit => CurrentInv
<1> SUFFICES ASSUME PublishInit PROVE CurrentInv
  OBVIOUS
<1>1. /\ phase = "idle" /\ state.n = 0
      /\ root = [EmptyDir EXCEPT !.file["summary"] = [n |-> 0, finished |-> FALSE]]
      /\ state = [n |-> 0, finished |-> FALSE]
  BY DEF PublishInit
<1>2. /\ root.file["results"] = Missing /\ root.file["report"] = Missing
      /\ root.file["summary"] = state
  BY <1>1, Names DEF EmptyDir
<1>3. PublicIsCurrent
  BY <1>1, <1>2 DEF PublicIsCurrent, Shows
<1>4. NoCalls /\ why = "row"
  BY DEF PublishInit, NoCalls, NoCall
<1> QED
  BY <1>1, <1>3, <1>4 DEF CurrentInv, ShowsInv, PlanInv, EmptyInv, WorkersInv, AtRows

\* The publication: from the staging directory over the copy to the root.
LEMMA StageCurrent ==
  ASSUME PublishInv, Stage
  PROVE  ShowsInv'
<1>1. /\ phase' = "copy" /\ full' = Full /\ UNCHANGED <<state, why, changed>>
      /\ made' = [made EXCEPT ![FreshGen] = Plan] /\ staging' = made'[FreshGen]
  BY DEF Stage, Full, Plan
<1>2. FreshGen \in Gens
  BY DEF Stage, FreshGens, FreshGen
<1>3. staging' = Plan
  BY <1>1, <1>2 DEF PublishInv, PublishTypeOK
<1>4. Full' = Full /\ Plan' = Plan
  BY <1>1, SamePlan
<1>5. full' \in BOOLEAN /\ \A i \in 1..Last(full') : staging'.file[Order[i]] = state'
  BY <1>1, <1>3, PlanOf
<1> QED
  BY <1>1, <1>3, <1>4, <1>5 DEF CurrentInv, ShowsInv, PlanInv, EmptyInv, PublicIsCurrent, Last

LEMMA CopyCurrent ==
  ASSUME CurrentInv, phase = "copy", UNCHANGED <<state, staging, process, late>>
  PROVE  ShowsInv'
<1>1. UNCHANGED <<phase, full, state, why, changed, staging, late>>
  BY DEF process
<1>2. Full' = Full /\ Plan' = Plan
  BY <1>1, SamePlan
<1> QED
  BY <1>1, <1>2 DEF CurrentInv, ShowsInv, PlanInv, EmptyInv, PublicIsCurrent, Last, Spoilt

LEMMA CopiedCurrent ==
  ASSUME PublishInv, CurrentInv, Copied
  PROVE  ShowsInv'
<1>1. /\ phase = "copy" /\ phase' = "apply" /\ at' = 1 /\ from = NoGen
      /\ UNCHANGED <<staging, state, why, changed, from, full, late>>
  BY DEF Copied, PublishInv, StepInv
<1>2. full = Full /\ staging.reports = Plan.reports /\ Full' = Full /\ Plan' = Plan
  BY <1>1, SamePlan DEF CurrentInv, ShowsInv, PlanInv
<1>3. \A i \in 1..Last(full) : ~(i < 1) /\ (staging.file[Order[i]] = state \/ Spoilt(Order[i]))
  BY <1>1 DEF CurrentInv, ShowsInv, PlanInv, Last
<1> QED
  BY <1>1, <1>2, <1>3 DEF CurrentInv, ShowsInv, PlanInv, EmptyInv, PublicIsCurrent, Last, Spoilt

LEMMA ApplyFileCurrent ==
  ASSUME PublishInv, CurrentInv, ApplyFile
  PROVE  ShowsInv'
<1>1. /\ phase = "apply" /\ phase' = "apply" /\ at' = at + 1 /\ at \in 1..Last(full)
      /\ UNCHANGED <<state, why, changed, from, full, late>>
  BY DEF ApplyFile, PublishInv, PublishTypeOK, Last
<1>2. Full' = Full /\ Plan' = Plan
  BY <1>1, SamePlan
<1>3. CASE from # NoGen
  BY <1>1, <1>3 DEF CurrentInv, ShowsInv, PlanInv, EmptyInv, PublicIsCurrent
<1>4. CASE from = NoGen
  <2> DEFINE f == Order[at]
             v == staging.file[f]
             e == [staging EXCEPT !.file[f] = Missing]
  <2>1. /\ root' = [root EXCEPT !.file[f] = v]
        /\ staging' = e
        /\ staging \in Dirs /\ root \in Dirs
    BY <1>1, <1>4 DEF ApplyFile, Source, SourceBecomes, PublishInv, StepInv, PublishTypeOK
  <2>2. /\ full = Full /\ staging.reports = Plan.reports
        /\ \A i \in 1..Last(full) :
             \/ IF i < at THEN root.file[Order[i]] = state ELSE staging.file[Order[i]] = state
             \/ Spoilt(Order[i])
    BY <1>1, <1>4 DEF CurrentInv, ShowsInv, PlanInv
  <2>3. /\ 1..Last(full) \subseteq 1..4
        /\ \A i, j \in 1..4 : Order[i] \in Files /\ (i # j => Order[i] # Order[j])
    BY Names DEF Last
  <2>4. f \in Files /\ v \in States \cup {Missing}
    BY <1>1, <2>1, <2>3 DEF Dirs
  <2> HIDE DEF v
  <2>5. /\ root'.file[f] = v /\ \A g \in Files \ {f} : root'.file[g] = root.file[g]
        /\ staging'.reports = staging.reports
        /\ \A g \in Files \ {f} : staging'.file[g] = staging.file[g]
    BY <2>1, <2>4, PutFile
  <2>6. ASSUME NEW i \in 1..Last(full)
        PROVE  \/ IF i < at' THEN root'.file[Order[i]] = state ELSE staging'.file[Order[i]] = state
               \/ Spoilt(Order[i])'
    <3>1. i \in 1..4 /\ at \in 1..4 /\ (Spoilt(Order[i]) => Spoilt(Order[i])')
      BY <1>1, <2>3, <2>6 DEF Spoilt
    <3>2. CASE i = at
      BY <1>1, <2>2, <2>5, <3>1, <3>2 DEF v
    <3>3. CASE i # at
      <4>1. Order[i] \in Files \ {f} /\ (i < at' <=> i < at)
        BY <1>1, <2>3, <3>1, <3>3
      <4> QED
        BY <2>2, <2>5, <2>6, <3>1, <4>1
    <3> QED
      BY <3>2, <3>3
  <2> QED
    BY <1>1, <1>2, <1>4, <2>2, <2>5, <2>6 DEF CurrentInv, ShowsInv, PlanInv, EmptyInv, PublicIsCurrent, Last
<1> QED
  BY <1>3, <1>4

LEMMA FilesAppliedCurrent ==
  ASSUME PublishInv, CurrentInv, FilesApplied
  PROVE  ShowsInv'
<1>1. /\ phase = "apply" /\ phase' = "reports" /\ expected' = Source.reports /\ at > Last(full)
      /\ UNCHANGED <<state, staging, root, why, changed, from, full, late>>
  BY DEF FilesApplied, files
<1>2. Full' = Full /\ Plan' = Plan
  BY <1>1, SamePlan
<1>3. CASE from # NoGen
  BY <1>1, <1>3 DEF CurrentInv, ShowsInv, PlanInv, EmptyInv, PublicIsCurrent
<1>4. CASE from = NoGen
  <2>1. full = Full /\ expected' = Plan.reports /\ expected' = staging.reports
    BY <1>1, <1>4 DEF CurrentInv, ShowsInv, PlanInv, Source
  <2>2. Shown(Last(full))
    <3>1. at \in Nat /\ \A i \in 1..Last(full) : i < at
      BY <1>1 DEF PublishInv, PublishTypeOK, Last
    <3> QED
      BY <1>1, <1>4, <3>1 DEF CurrentInv, ShowsInv, PlanInv, Shown, Spoilt
  <2>3. Shown(Last(full))'
    BY <1>1, <2>2 DEF Shown, Last, Spoilt
  <2> QED
    BY <1>1, <1>2, <1>4, <2>1, <2>3 DEF CurrentInv, ShowsInv, PlanInv, EmptyInv, PublicIsCurrent
<1> QED
  BY <1>3, <1>4

LEMMA ReportsCurrent ==
  ASSUME PublishInv, CurrentInv, ApplyReport \/ \E c \in Rows : PruneReport(c)
  PROVE  ShowsInv'
<1>1. /\ phase = "reports" /\ phase' = "reports"
      /\ UNCHANGED <<state, why, changed, from, full, expected, late>>
  BY DEF ApplyReport, PruneReport, process
<1>2. Full' = Full /\ Plan' = Plan
  BY <1>1, SamePlan
<1>3. root.file = root'.file /\ (expected \subseteq root.reports \cup staging.reports /\ from = NoGen
                                 => expected \subseteq root'.reports \cup staging'.reports)
  <2>1. root \in Dirs /\ (from = NoGen => staging \in Dirs)
    BY <1>1 DEF PublishInv, PublishTypeOK, StepInv
  <2>2. CASE ApplyReport
    <3>1. PICK c \in Source.reports :
             /\ root' = [root EXCEPT !.reports = @ \cup {c}]
             /\ SourceBecomes([Source EXCEPT !.reports = @ \ {c}])
      BY <2>2 DEF ApplyReport
    <3>2. root'.file = root.file /\ root'.reports = root.reports \cup {c}
      BY <2>1, <3>1 DEF Dirs
    <3>3. from = NoGen => staging'.reports = staging.reports \ {c}
      BY <2>1, <3>1 DEF Source, SourceBecomes, Dirs
    <3> QED
      BY <3>2, <3>3
  <2>3. ASSUME NEW c \in Rows, PruneReport(c)
        PROVE  /\ root'.file = root.file /\ root'.reports = root.reports \ {c}
               /\ staging' = staging /\ c \notin expected
    BY <2>1, <2>3 DEF PruneReport, Dirs
  <2> QED
    BY <2>2, <2>3
<1>4. Shown(Last(full)) => Shown(Last(full))'
  BY <1>1, <1>3 DEF Shown, Last, Spoilt
<1> QED
  BY <1>1, <1>2, <1>3, <1>4 DEF CurrentInv, ShowsInv, PlanInv, EmptyInv, PublicIsCurrent

LEMMA AppliedCurrent ==
  ASSUME PublishInv, CurrentInv, Applied
  PROVE  ShowsInv'
<1>1. /\ phase = "reports" /\ phase' = IF from = NoGen THEN "commit" ELSE "rematerialize"
      /\ root' = WithoutFinal(full) /\ Source.reports = {}
      /\ full => root.reports \subseteq expected
      /\ UNCHANGED <<state, why, changed, from, full, staging, late>>
  BY DEF Applied, KeepPlan
<1>2. Full' = Full
  BY <1>1, SamePlan
<1>3. CASE from # NoGen
  BY <1>1, <1>3 DEF CurrentInv, ShowsInv, PlanInv, EmptyInv, PublicIsCurrent
<1>4. CASE from = NoGen
  <2>1. /\ full = Full /\ Full \in BOOLEAN /\ expected = Plan.reports /\ staging.reports = {}
        /\ expected \subseteq root.reports /\ Shown(Last(full))
    BY <1>1, <1>4, PlanOf DEF CurrentInv, ShowsInv, PlanInv, Source
  <2>2. root \in Dirs /\ Behind(root, state.n)
    BY DEF PublishInv, PublishTypeOK, BehindInv
  <2>3. \A f \in Files \ {"final"} : root'.file[f] = root.file[f]
    BY <1>1, <2>1, <2>2, WithoutFinalDir
  <2>4. Shown(3) /\ (Full => Shown(4))
    BY <2>1 DEF Shown, Last
  <2>5. Shown(3)'
    BY <1>1, <2>3, <2>4, Names DEF Shown, Spoilt
  <2>6. Full => root' = root /\ root.reports = 1..state.n
    BY <1>1, <2>1, PlanOf DEF WithoutFinal
  <2>7. Full => Shown(4)'
    BY <1>1, <2>4, <2>6 DEF Shown, Spoilt
  <2> QED
    BY <1>1, <1>2, <1>4, <2>5, <2>6, <2>7
       DEF CurrentInv, ShowsInv, PlanInv, EmptyInv, PublicIsCurrent, Published
<1> QED
  BY <1>3, <1>4

LEMMA CommitCurrent ==
  ASSUME CurrentInv, Commit
  PROVE  ShowsInv'
<1>1. phase = "commit" /\ phase' = "sweep" /\ UNCHANGED <<state, why, changed, root, late>>
  BY DEF Commit, KeepPlan
<1>2. Published'
  BY <1>1, SamePlan DEF CurrentInv, ShowsInv, PlanInv, Published, Shown, Spoilt
<1> QED
  BY <1>1, <1>2 DEF CurrentInv, ShowsInv, PlanInv, EmptyInv, PublicIsCurrent

LEMMA SweepCurrent ==
  ASSUME PublishInv, CurrentInv, Sweep
  PROVE  ShowsInv'
<1>1. /\ phase = "sweep" /\ phase' = After /\ UNCHANGED <<state, root, why, late>>
      /\ why \in {"load", "row", "finish"} /\ state \in States /\ root \in Dirs
  BY DEF Sweep, PublishInv, StepInv, PublishTypeOK
<1>2. Published
  BY <1>1 DEF CurrentInv, ShowsInv, PlanInv
<1>3. /\ root.file["results"] = state
      /\ late \/ root.file["summary"] = state
      /\ root.file["report"] = state
  BY <1>2, ShownFiles DEF Published
<1>n. why = "finish" => ~late
  BY <1>1 DEF CurrentInv, WorkersInv
<1>4. Showing' /\ (late' \/ root'.file["summary"] = state')
  <2>1. state # Missing
    BY <1>1, Distinct
  <2> QED
    BY <1>1, <1>3, <2>1 DEF Showing, Shows
<1>5. why = "finish" => root' = Rendered(state', TRUE, {})
  <2> SUFFICES ASSUME why = "finish" PROVE root = Rendered(state, TRUE, {})
    BY <1>1
  <2>0. ~late
    BY <1>n
  <2>1. root.reports = 1..state.n /\ root.file["final"] = state
    BY <1>2, ShownFiles DEF Published, Full
  <2>2. root.file = [f \in Files |-> state]
    <3>1. root.file \in [Files -> States \cup {Missing}]
      BY <1>1 DEF Dirs
    <3>2. \A f \in Files : root.file[f] = state
      BY <1>3, <2>0, <2>1, Names
    <3> QED
      BY <3>1, <3>2
  <2>3. root = [file |-> root.file, reports |-> root.reports]
    BY <1>1 DEF Dirs
  <2>4. Rendered(state, TRUE, {}) = [file |-> [f \in Files |-> state], reports |-> 1..state.n]
    BY DEF Rendered
  <2> QED
    BY <2>1, <2>2, <2>3, <2>4
<1>6. CASE why = "load"
  BY <1>1, <1>4, <1>6 DEF After, CurrentInv, ShowsInv, PlanInv, EmptyInv, PublicIsCurrent
<1>7. CASE why = "row"
  BY <1>1, <1>4, <1>7 DEF After, CurrentInv, ShowsInv, PlanInv, EmptyInv, PublicIsCurrent, Showing
<1>8. CASE why = "finish"
  BY <1>1, <1>5, <1>8 DEF After, CurrentInv, ShowsInv, PlanInv, EmptyInv, PublicIsCurrent
<1> QED
  BY <1>1, <1>6, <1>7, <1>8

\* A start: what it loads, empties and shows.
LEMMA StartCurrent ==
  ASSUME PublishInv, CurrentInv, LoadAndRestore \/ LoadComplete \/ NothingToShow \/ StartFresh
                           \/ ForgetGenerations \/ ClearSnapshots
  PROVE  ShowsInv'
<1>t. PublishTypeOK /\ EmptyInv
  BY DEF PublishInv, CurrentInv, ShowsInv
<1>1. CASE LoadAndRestore
  BY <1>1 DEF LoadAndRestore, HasSnapshot, CurrentInv, ShowsInv, PlanInv, EmptyInv, PublicIsCurrent
<1>2. CASE LoadComplete
  BY <1>2 DEF LoadComplete, AfterLoad, CurrentInv, ShowsInv, PlanInv, EmptyInv, PublicIsCurrent
<1>3. CASE NothingToShow \/ StartFresh
  <2>1. /\ root' = Cleaned /\ phase' = "forget" /\ state' = state
        /\ why' = "load" => state.n = 0
    BY <1>t, <1>3 DEF NothingToShow, StartFresh, CleanOutputs
  <2>2. root'.file["results"] = Missing /\ root'.file["report"] = Missing
    BY <2>1, Names DEF Cleaned, EmptyDir
  <2> QED
    BY <2>1, <2>2 DEF CurrentInv, ShowsInv, PlanInv, EmptyInv, PublicIsCurrent
<1>4. CASE ForgetGenerations
  <2>1. phase = "forget" /\ phase' = "clear" /\ UNCHANGED <<root, state, why>>
    BY <1>4 DEF ForgetGenerations, KeepPlan
  <2> QED
    BY <1>t, <2>1 DEF CurrentInv, ShowsInv, PlanInv, EmptyInv, PublicIsCurrent
<1>5. CASE ClearSnapshots
  <2>1. /\ phase = "clear" /\ phase' = (IF why = "load" THEN "show" ELSE "begin")
        /\ UNCHANGED <<root, state, why>>
    BY <1>5 DEF ClearSnapshots, KeepPlan
  <2> QED
    BY <1>t, <2>1 DEF CurrentInv, ShowsInv, PlanInv, EmptyInv, PublicIsCurrent
<1> QED
  BY <1>1, <1>2, <1>3, <1>4, <1>5

LEMMA SummaryCurrent ==
  ASSUME PublishInv, CurrentInv, ShowSummary \/ Refresh \/ Resume \/ BeginFresh
  PROVE  ShowsInv'
<1>t. state \in States /\ root \in Dirs /\ NRows \in Nat
  BY PublishAssumption DEF PublishInv, PublishTypeOK
<1>1. ASSUME NEW s \in States, WriteSummary(s)
      PROVE  /\ root'.file["summary"] = s
             /\ root'.file["results"] = root.file["results"]
             /\ root'.file["report"] = root.file["report"]
  <2>1. root' = [root EXCEPT !.file["summary"] = s]
    BY <1>1 DEF WriteSummary
  <2> QED
    BY <1>t, <2>1, Names, PutFile
<1>2. CASE ShowSummary
  <2>1. phase = "show" /\ phase' = "loaded" /\ WriteSummary(state) /\ state' = state
    BY <1>2 DEF ShowSummary
  <2>2. Showing'
    BY <1>t, <1>1, <2>1 DEF Showing, Shows, CurrentInv, ShowsInv, EmptyInv
  <2> QED
    BY <2>1, <2>2 DEF CurrentInv, ShowsInv, PlanInv, EmptyInv, PublicIsCurrent
<1>3. CASE Resume
  <2> DEFINE s == [state EXCEPT !.finished = FALSE]
  <2>1. s \in States /\ s.n = state.n
    BY <1>t DEF States
  <2>2. phase = "loaded" /\ phase' = "idle" /\ WriteSummary(s) /\ state' = s
    BY <1>3 DEF Resume, StartRun
  <2> HIDE DEF s
  <2>3. Showing' /\ root'.file["summary"] = state'
    BY <1>1, <2>1, <2>2 DEF Showing, Shows, CurrentInv, ShowsInv
  <2> QED
    BY <2>2, <2>3 DEF CurrentInv, ShowsInv, PlanInv, EmptyInv, PublicIsCurrent, Showing
<1>4. CASE BeginFresh
  <2> DEFINE s == [n |-> 0, finished |-> FALSE]
  <2>1. s \in States /\ s.n = 0
    BY <1>t DEF States
  <2>2. phase = "begin" /\ phase' = "idle" /\ WriteSummary(s) /\ state' = s
    BY <1>4 DEF BeginFresh, StartRun
  <2> HIDE DEF s
  <2>3. Showing' /\ root'.file["summary"] = state'
    BY <1>1, <2>1, <2>2 DEF Showing, Shows, CurrentInv, ShowsInv, EmptyInv
  <2> QED
    BY <2>2, <2>3 DEF CurrentInv, ShowsInv, PlanInv, EmptyInv, PublicIsCurrent, Showing
<1>5. CASE Refresh
  <2>1. phase = "idle" /\ phase' = "idle" /\ WriteSummary(state) /\ state' = state
    BY <1>5 DEF Refresh, process
  <2>2. Showing' /\ root'.file["summary"] = state'
    BY <1>t, <1>1, <2>1 DEF Showing, Shows, CurrentInv, ShowsInv, PublicIsCurrent
  <2> QED
    BY <2>1, <2>2 DEF ShowsInv, PlanInv, EmptyInv, PublicIsCurrent, Showing
<1> QED
  BY <1>2, <1>3, <1>4, <1>5

\* What a worker writes is the state, or it is late.
LEMMA PutCurrent ==
  ASSUME PublishInv, CurrentInv, NEW c \in Callers, PutSummary(c)
  PROVE  ShowsInv'
<1> DEFINE v == call[c].says
<1>1. /\ phase \in AtRows /\ why = "row"
      /\ phase \in {"apply", "reports"} => from = NoGen
  BY DEF CurrentInv, WorkersInv, PoolsOpen, NoCalls, PutSummary
<1>2. /\ late' = (late \/ v # state)
      /\ UNCHANGED <<state, phase, why, changed, from, full, at, expected>>
  BY DEF PutSummary, process
<1>3. /\ root' \in {root, [root EXCEPT !.file["summary"] = v]}
      /\ staging' = staging \/ (staging # NoDir /\ staging' = [staging EXCEPT !.file["summary"] = v])
      /\ v \in States /\ root \in Dirs /\ staging \in Dirs \cup {NoDir}
  BY DEF PutSummary, PublishInv, PublishTypeOK, Calls
<1> HIDE DEF v
<1>p. ASSUME NEW d \in Dirs
      PROVE  /\ [d EXCEPT !.file["summary"] = v].reports = d.reports
             /\ [d EXCEPT !.file["summary"] = v].file["summary"] = v
             /\ \A f \in Files \ {"summary"} : [d EXCEPT !.file["summary"] = v].file[f] = d.file[f]
  <2>1. "summary" \in Files
    BY Names
  <2> QED
    BY <1>p, <2>1 DEF Dirs
<1>4. /\ root'.reports = root.reports
      /\ \A f \in Files : root.file[f] = state \/ Spoilt(f) => root'.file[f] = state \/ Spoilt(f)'
      /\ root'.file["results"] = root.file["results"] /\ root'.file["report"] = root.file["report"]
  <2>1. CASE root' = root
    BY <1>2, <2>1 DEF Spoilt
  <2>2. CASE root' = [root EXCEPT !.file["summary"] = v]
    BY <1>2, <1>3, <1>p, <2>2, Names DEF Spoilt
  <2> QED
    BY <1>3, <2>1, <2>2
<1>5. staging # NoDir =>
        /\ staging'.reports = staging.reports
        /\ \A f \in Files : staging.file[f] = state \/ Spoilt(f) => staging'.file[f] = state \/ Spoilt(f)'
  <2>1. CASE staging' = staging
    BY <1>2, <2>1 DEF Spoilt
  <2>2. CASE staging # NoDir /\ staging' = [staging EXCEPT !.file["summary"] = v]
    BY <1>2, <1>3, <1>p, <2>2 DEF Spoilt
  <2> QED
    BY <1>3, <2>1, <2>2
<1>6. /\ Full' = Full /\ Plan' = Plan
      /\ Last(full) \in 3..4 /\ \A i \in 1..4 : Order[i] \in Files
  BY <1>2, SamePlan, Names DEF Last
<1>7. ASSUME NEW k \in {3, 4}, Shown(k)
      PROVE  Shown(k)'
  BY <1>2, <1>4, <1>6, <1>7 DEF Shown
<1>8. phase \in {"copy", "apply", "reports"} => staging # NoDir
  BY <1>1, Distinct DEF PublishInv, StepInv
<1>9. PlanInv'
  <2>1. PlanInv
    BY DEF CurrentInv, ShowsInv
  <2>2. phase = "copy" => /\ full = Full /\ staging'.reports = Plan.reports
                          /\ \A i \in 1..Last(full) : staging'.file[Order[i]] = state \/ Spoilt(Order[i])'
    BY <1>5, <1>6, <1>8, <2>1 DEF PlanInv
  <2>3. phase = "apply" => /\ full = Full /\ staging'.reports = Plan.reports
                           /\ \A i \in 1..Last(full) :
                                \/ IF i < at THEN root'.file[Order[i]] = state
                                             ELSE staging'.file[Order[i]] = state
                                \/ Spoilt(Order[i])'
    <3> SUFFICES ASSUME phase = "apply", NEW i \in 1..Last(full)
                 PROVE  /\ full = Full /\ staging'.reports = Plan.reports
                        /\ \/ IF i < at THEN root'.file[Order[i]] = state
                                        ELSE staging'.file[Order[i]] = state
                           \/ Spoilt(Order[i])'
      BY <1>6
    <3>1. /\ full = Full /\ staging.reports = Plan.reports
          /\ \/ IF i < at THEN root.file[Order[i]] = state ELSE staging.file[Order[i]] = state
             \/ Spoilt(Order[i])
      BY <1>1, <2>1 DEF PlanInv
    <3>2. Order[i] \in Files
      BY <1>6
    <3> QED
      BY <1>4, <1>5, <1>8, <3>1, <3>2
  <2>4. phase = "reports" => /\ full = Full /\ expected = Plan.reports
                             /\ expected \subseteq root'.reports \cup staging'.reports
                             /\ Shown(Last(full))'
    <3> SUFFICES ASSUME phase = "reports"
                 PROVE  /\ full = Full /\ expected = Plan.reports
                        /\ expected \subseteq root'.reports \cup staging'.reports
                        /\ Shown(Last(full))'
      OBVIOUS
    <3>1. /\ full = Full /\ expected = Plan.reports
          /\ expected \subseteq root.reports \cup staging.reports /\ Shown(Last(full))
      BY <1>1, <2>1 DEF PlanInv
    <3>2. Shown(Last(full))'
      BY <1>2, <1>7, <3>1 DEF Last
    <3> QED
      BY <1>4, <1>5, <1>8, <3>1, <3>2
  <2>5. phase \in {"commit", "sweep"} => Published'
    BY <1>2, <1>4, <1>6, <1>7, <2>1 DEF PlanInv, Published
  <2> QED
    BY <1>2, <1>6, <2>2, <2>3, <2>4, <2>5 DEF PlanInv
<1>10. EmptyInv'
  BY <1>1, <1>2 DEF EmptyInv, AtRows
<1>11. PublicIsCurrent'
  <2>1. PublicIsCurrent /\ (late \/ root.file["summary"] = state => late' \/ root'.file["summary"] = state)
    BY <1>4, Names DEF CurrentInv, ShowsInv, Spoilt
  <2> QED
    BY <1>1, <1>2, <1>4, <2>1 DEF PublicIsCurrent, Shows, AtRows
<1> QED
  BY <1>1, <1>2, <1>9, <1>10, <1>11 DEF ShowsInv, AtRows

\* A step that leaves what is shown and the place of the process alone.
LEMMA SameCurrent ==
  ASSUME CurrentInv,
         UNCHANGED <<state, staging, root, phase, why, changed, from, full, at, expected, late>>
  PROVE  ShowsInv'
<1>1. Full' = Full /\ Plan' = Plan
  BY SamePlan
<1>2. PlanInv'
  BY <1>1 DEF CurrentInv, ShowsInv, PlanInv, Published, Shown, Last, Spoilt
<1> QED
  BY <1>2 DEF CurrentInv, ShowsInv, EmptyInv, Showing, Shows, PublicIsCurrent

\* The workers start with the rows and have ended before a run is finished.
LEMMA WorkersNext ==
  ASSUME PublishInv, CurrentInv, [PublishNext]_publishVars
  PROVE  WorkersInv'
<1>t. WorkersInv /\ EmptyInv /\ PublishTypeOK /\ StepInv
  BY DEF CurrentInv, ShowsInv, PublishInv
<1>n. call' = call => NoCalls' = NoCalls
  BY DEF NoCalls
<1>1. CASE Stage
  <2>1. /\ phase = "stage" /\ phase' = "copy" /\ why' = why /\ call' = call /\ ~late'
    BY <1>1 DEF Stage
  <2> QED
    BY <1>t, <1>n, <2>1 DEF WorkersInv, PoolsOpen, AtRows
<1>2. CASE \/ \E i \in 1..4 : CopyFile(i)
           \/ \E c \in Rows : CopyReport(c)
           \/ ApplyReport
           \/ \E c \in Rows : PruneReport(c)
           \/ UNCHANGED publishVars
  <2>1. UNCHANGED <<phase, why, from, call, late>>
    BY <1>2 DEF CopyFile, CopyReport, ApplyReport, PruneReport, publishVars, process
  <2> QED
    BY <1>t, <1>n, <2>1 DEF WorkersInv, PoolsOpen, AtRows
<1>3. CASE Copied
  <2>1. /\ phase = "copy" /\ phase' = "apply" /\ from = NoGen
        /\ UNCHANGED <<why, from, call, late>>
    BY <1>t, <1>3 DEF Copied, StepInv
  <2> QED
    BY <1>t, <1>n, <2>1 DEF WorkersInv, PoolsOpen, AtRows
<1>4. CASE ApplyFile \/ FilesApplied
  <2>1. /\ phase = "apply" /\ phase' \in {"apply", "reports"}
        /\ UNCHANGED <<why, from, call, late>>
    BY <1>4 DEF ApplyFile, FilesApplied
  <2> QED
    BY <1>t, <1>n, <2>1 DEF WorkersInv, PoolsOpen, AtRows
<1>5. CASE Applied
  <2>1. /\ phase = "reports" /\ phase' = IF from = NoGen THEN "commit" ELSE "rematerialize"
        /\ UNCHANGED <<why, from, call, late>>
    BY <1>5 DEF Applied, KeepPlan
  <2> QED
    BY <1>t, <1>n, <2>1 DEF WorkersInv, PoolsOpen, AtRows
<1>6. CASE Commit
  <2>1. phase = "commit" /\ phase' = "sweep" /\ UNCHANGED <<why, call, late>>
    BY <1>6 DEF Commit, KeepPlan
  <2> QED
    BY <1>t, <1>n, <2>1 DEF WorkersInv, PoolsOpen, AtRows
<1>7. CASE Sweep
  <2>1. phase = "sweep" /\ phase' = After /\ UNCHANGED <<why, call, late>>
    BY <1>7 DEF Sweep
  <2>2. CASE why = "row"
    BY <1>t, <1>n, <2>1, <2>2 DEF WorkersInv, PoolsOpen, AtRows, After
  <2>3. CASE why # "row"
    <3>1. why \in {"load", "finish"}
      BY <1>t, <2>1, <2>3 DEF StepInv, PublishTypeOK
    <3> QED
      BY <1>t, <1>n, <2>1, <2>3, <3>1 DEF WorkersInv, PoolsOpen, AtRows, After
  <2> QED
    BY <2>2, <2>3
<1>8. CASE LoadAndRestore
  <2>1. Stopped /\ phase' = "apply" /\ from' # NoGen /\ call' = call /\ why' = "load"
    BY <1>8 DEF LoadAndRestore, HasSnapshot
  <2> QED
    BY <1>t, <1>n, <2>1 DEF WorkersInv, PoolsOpen, AtRows, Stopped
<1>9. CASE LoadComplete \/ Rematerialize \/ NothingToShow \/ ForgetGenerations \/ ClearSnapshots
           \/ ShowSummary \/ StartFresh
  <2>1. /\ phase \in {"off", "ended", "rematerialize", "forget", "clear", "show", "loaded"}
        /\ phase' \in {"rematerialize", "stage", "forget", "clear", "show", "begin", "loaded"}
        /\ call' = call /\ why' # "row"
    BY <1>t, <1>9 DEF WorkersInv, AtRows, EmptyInv, LoadComplete, AfterLoad, Rematerialize, NothingToShow,
                      ForgetGenerations, ClearSnapshots, ShowSummary, StartFresh, CleanOutputs, Stopped, KeepPlan
  <2> QED
    BY <1>t, <1>n, <2>1 DEF WorkersInv, PoolsOpen, AtRows
<1>10. CASE Resume \/ BeginFresh
  <2>1. phase \in {"loaded", "begin"} /\ phase' = "idle" /\ why' = "row" /\ call' = call
    BY <1>10 DEF Resume, BeginFresh, StartRun
  <2> QED
    BY <1>t, <1>n, <2>1 DEF WorkersInv, PoolsOpen, AtRows
<1>11. CASE Refresh
  BY <1>t, <1>n, <1>11 DEF Refresh, WorkersInv, PoolsOpen, process
<1>12. CASE Upsert
  <2>1. phase = "idle" /\ phase' = "stage" /\ why' = "row" /\ call' = call
    BY <1>12 DEF Upsert
  <2> QED
    BY <1>t, <1>n, <2>1 DEF WorkersInv, PoolsOpen, AtRows
<1>13. CASE Finish \/ StopEarly \/ FinishAborted
  <2>1. NoCalls /\ phase' = "stage" /\ call' = call /\ why' = "finish"
    BY <1>13 DEF Finish, StopEarly, FinishAborted, FinishWith
  <2> QED
    BY <1>n, <2>1 DEF WorkersInv, PoolsOpen, AtRows
<1>14. CASE PublishRaises
  <2>1. /\ phase' = IF why = "row" THEN "failed" ELSE "off"
        /\ UNCHANGED <<why, call>>
    BY <1>14 DEF PublishRaises
  <2> QED
    BY <1>t, <1>n, <2>1 DEF WorkersInv, PoolsOpen, AtRows
<1>15. CASE Crash
  <2>1. phase' = "off" /\ call' = [c \in Callers |-> NoCall]
    BY <1>15 DEF Crash
  <2>2. NoCalls'
    BY <2>1 DEF NoCalls, NoCall
  <2> QED
    BY <2>1, <2>2 DEF WorkersInv, PoolsOpen, AtRows
<1>16. ASSUME NEW c \in Callers, BuildSummary(c) \/ CallStep(c)
       PROVE  WorkersInv'
  <2>1. UNCHANGED <<phase, why, from>>
    BY <1>16 DEF BuildSummary, CallStep, AimSummary, PutSummary, SyncSummary, process
  <2>2. PoolsOpen
    BY <1>16, <1>t DEF BuildSummary, CallStep, AimSummary, PutSummary, SyncSummary,
                       WorkersInv, NoCalls
  <2> QED
    BY <1>t, <2>1, <2>2 DEF WorkersInv, PoolsOpen
<1> QED
  BY <1>1, <1>2, <1>3, <1>4, <1>5, <1>6, <1>7, <1>8, <1>9, <1>10, <1>11, <1>12, <1>13, <1>14, <1>15, <1>16
     DEF PublishNext, Progress, Publish, Start, Run

LEMMA CurrentNext == PublishInv /\ CurrentInv /\ [PublishNext]_publishVars => CurrentInv'
<1> SUFFICES ASSUME PublishInv, CurrentInv, [PublishNext]_publishVars PROVE ShowsInv'
  BY WorkersNext DEF CurrentInv
<1>1. CASE Publish
  <2>1. ASSUME NEW i \in 1..4, CopyFile(i) PROVE ShowsInv'
    BY <2>1, CopyCurrent DEF CopyFile
  <2>2. ASSUME NEW c \in Rows, CopyReport(c) PROVE ShowsInv'
    BY <2>2, CopyCurrent DEF CopyReport
  <2> QED
    BY <1>1, <2>1, <2>2, StageCurrent, CopiedCurrent, ApplyFileCurrent, FilesAppliedCurrent,
       ReportsCurrent, AppliedCurrent, CommitCurrent, SweepCurrent DEF Publish
<1>2. CASE Rematerialize \/ Upsert \/ Finish \/ StopEarly \/ FinishAborted \/ PublishRaises \/ Crash
  <2>1. phase' \in {"stage", "failed", "off"}
    BY <1>2 DEF Rematerialize, Upsert, Finish, StopEarly, FinishAborted, FinishWith,
                PublishRaises, Crash
  <2> QED
    BY <2>1 DEF ShowsInv, PlanInv, EmptyInv, PublicIsCurrent
<1>3. ASSUME NEW c \in Callers, BuildSummary(c) \/ CallStep(c)
      PROVE  ShowsInv'
  <2>1. CASE BuildSummary(c) \/ AimSummary(c) \/ SyncSummary(c)
    <3>1. UNCHANGED <<state, staging, root, phase, why, changed, from, full, at, expected, late>>
      BY <2>1 DEF BuildSummary, AimSummary, SyncSummary, files, process
    <3> QED
      BY <3>1, SameCurrent
  <2> QED
    BY <1>3, <2>1, PutCurrent DEF CallStep
<1>4. CASE UNCHANGED publishVars
  <2>1. UNCHANGED <<state, staging, root, phase, why, changed, from, full, at, expected, late>>
    BY <1>4 DEF publishVars, files, process
  <2> QED
    BY <2>1, SameCurrent
<1> QED
  BY <1>1, <1>2, <1>3, <1>4, StartCurrent, SummaryCurrent DEF PublishNext, Progress, Start, Run

\* Between two operations of a run the root shows what the state has, but for a
\* summary a worker has just put an older one over, and a finished run shows
\* everything, whatever the workers wrote and whatever crashes, errors, restores
\* and fresh starts came before.
THEOREM OutputsAreCurrent == PublishSpec => []PublicIsCurrent
<1>1. PublishSpec => []CurrentInv
  BY CurrentInit, CurrentNext, Always, PTL DEF PublishSpec
<1>2. CurrentInv => PublicIsCurrent
  BY DEF CurrentInv, ShowsInv
<1> QED
  BY <1>1, <1>2, PTL

=============================================================================
