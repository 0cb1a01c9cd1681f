----------------------------- MODULE StagePools -----------------------------
(* StagePoolGovernor (src/app/runtime/stage_pools.py): a bounded semaphore per
   downstream stage, the statistics kept next to it under a lock of their own,
   and threads that take leases one inside the other.

   A thread follows a program, the brackets of with-statements it runs
   through; the state of a thread is where it is in it, the leases it is
   inside of, and whether it is leaving them because of an exception.  Times
   and reasons of waits are left out.                                       *)
EXTENDS Naturals, Sequences, FiniteSets

CONSTANTS
  Stages,
  Budget,        \* per_stage_budget_map
  Threads,
  Cancellable,   \* threads given a cancel_requested callback
  Program        \* <<"in", stage>> and <<"out", stage>> brackets

\* At place i of the program, the stages that were entered and not left yet; k is
\* where s was entered.
EnteredAt(s, k, i) == /\ k \in 1..(i - 1) /\ Program[k] = <<"in", s>>
                      /\ \A j \in (k + 1)..(i - 1) : Program[j] # <<"out", s>>
Inside(i) == {s \in Stages : \E k \in 1..(i - 1) : EnteredAt(s, k, i)}

\* The brackets are those of with-statements: none is entered inside itself, and
\* the one that is left is the one that was entered last.
ASSUME StageAssumption ==
  /\ Budget \in [Stages -> Nat \ {0}]
  /\ IsFiniteSet(Threads) /\ Cancellable \subseteq Threads
  /\ Program \in Seq({"in", "out"} \X Stages)
  /\ Inside(Len(Program) + 1) = {}
  /\ \A i \in DOMAIN Program, s \in Stages :
       /\ Program[i] = <<"in", s>> => s \notin Inside(i)
       /\ Program[i] = <<"out", s>> =>
            /\ s \in Inside(i)
            /\ \A r \in Inside(i) \ {s} : \A k \in 1..(i - 1) :
                 EnteredAt(r, k, i) => s \notin Inside(k)

VARIABLES
  permits,       \* value of each semaphore
  queueDepth,    \* stats: registered waiters per stage
  inflight,      \* stats: leases per stage
  lost,          \* waits whose callback raised: nothing takes them out of queueDepth
  task,          \* per thread
  shutdown       \* the event cancel_requested looks at

stages == <<permits, queueDepth, inflight, lost, task, shutdown>>

End == Len(Program) + 1
Kind(t) == Program[task[t].ip][1]
Stage(t) == Program[task[t].ip][2]
Idle == [row |-> 0, ip |-> 1, phase |-> "off", held |-> <<>>,
         registered |-> FALSE, leaving |-> "no"]
Working(t) == task[t].phase # "off"
\* At a bracket of its program, not in the middle of one.
Entering(t) == /\ task[t].phase = "run" /\ task[t].leaving = "no"
               /\ task[t].ip < End /\ Kind(t) = "in"
Holders(s) == {t \in Threads : \E i \in DOMAIN task[t].held : task[t].held[i] = s}
Registered(s) == {t \in Threads : task[t].registered /\ Stage(t) = s}

StagesInit ==
  /\ permits = Budget
  /\ queueDepth = [s \in Stages |-> 0]
  /\ inflight = [s \in Stages |-> 0]
  /\ lost = [s \in Stages |-> 0]
  /\ task = [t \in Threads |-> Idle]
  /\ shutdown = FALSE

-----------------------------------------------------------------------------
\* The poll of an acquire ran out for the first time: _begin_wait.
BeginWait(t) ==
  /\ Entering(t) /\ ~task[t].registered
  /\ permits[Stage(t)] = 0
  /\ queueDepth' = [queueDepth EXCEPT ![Stage(t)] = @ + 1]
  /\ task' = [task EXCEPT ![t].registered = TRUE]
  /\ UNCHANGED <<permits, inflight, lost, shutdown>>

\* A waiter that is cancelled keeps its place in the queue depth.
CancelStaysQueued(t) ==
  /\ Entering(t) /\ t \in Cancellable /\ shutdown
  /\ task' = [task EXCEPT ![t].leaving = "cancelled", ![t].registered = FALSE]
  /\ UNCHANGED <<permits, queueDepth, inflight, lost, shutdown>>

\* cancel_requested is asked before every poll; a waiter that gives up leaves
\* the queue and takes no permit.
CancelWait(t) ==
  /\ Entering(t) /\ t \in Cancellable /\ shutdown
  /\ queueDepth' = [queueDepth EXCEPT ![Stage(t)] = @ - IF task[t].registered THEN 1 ELSE 0]
  /\ task' = [task EXCEPT ![t].leaving = "cancelled", ![t].registered = FALSE]
  /\ UNCHANGED <<permits, inflight, lost, shutdown>>

\* wait_callback, the telemetry tick, is called after each poll and may raise:
\* the wait ends without _finish_wait.
TickFails(t) ==
  /\ Entering(t) /\ task[t].registered
  /\ lost' = [lost EXCEPT ![Stage(t)] = @ + 1]
  /\ task' = [task EXCEPT ![t].leaving = "failed", ![t].registered = FALSE]
  /\ UNCHANGED <<permits, queueDepth, inflight, shutdown>>

Acquire(t) ==
  /\ Entering(t)
  /\ permits[Stage(t)] > 0
  /\ permits' = [permits EXCEPT ![Stage(t)] = @ - 1]
  /\ task' = [task EXCEPT ![t].phase = "got"]
  /\ UNCHANGED <<queueDepth, inflight, lost, shutdown>>

\* _finish_wait and _mark_started.
MarkStarted(t) ==
  /\ task[t].phase = "got"
  /\ queueDepth' = [queueDepth EXCEPT ![Stage(t)] = @ - IF task[t].registered THEN 1 ELSE 0]
  /\ inflight' = [inflight EXCEPT ![Stage(t)] = @ + 1]
  /\ task' = [task EXCEPT ![t].phase = "run", ![t].registered = FALSE, ![t].ip = @ + 1,
                          ![t].held = <<Stage(t)>> \o @]
  /\ UNCHANGED <<permits, lost, shutdown>>

\* The permit is given back at the bracket only, not in a finally.
LeavingAtBracket(t) ==
  /\ task[t].phase = "run" /\ task[t].held # <<>>
  /\ task[t].leaving = "no" /\ task[t].ip < End /\ Kind(t) = "out"

\* The innermost with-statement ends, at its bracket or because of an exception.
LeavingLease(t) ==
  /\ task[t].phase = "run" /\ task[t].held # <<>>
  /\ \/ task[t].leaving # "no"
     \/ task[t].ip < End /\ Kind(t) = "out"

MarkCompleted(t) ==
  /\ LeavingLease(t)
  /\ inflight' = [inflight EXCEPT ![Head(task[t].held)] = @ - 1]
  /\ task' = [task EXCEPT ![t].phase = "completed"]
  /\ UNCHANGED <<permits, queueDepth, lost, shutdown>>

Release(t) ==
  /\ task[t].phase = "completed"
  /\ permits' = [permits EXCEPT ![Head(task[t].held)] = @ + 1]
  /\ task' = [task EXCEPT ![t].phase = "run", ![t].held = Tail(@),
                          ![t].ip = @ + IF task[t].leaving = "no" THEN 1 ELSE 0]
  /\ UNCHANGED <<queueDepth, inflight, lost, shutdown>>

\* What a thread does for as long as nothing fails.
LeaseGoesOn(t) ==
  \/ BeginWait(t) \/ CancelWait(t) \/ Acquire(t)
  \/ MarkStarted(t) \/ MarkCompleted(t) \/ Release(t)

LeaseStep(t) == LeaseGoesOn(t) \/ TickFails(t)

-----------------------------------------------------------------------------
\* Whatever waiters and holders are cancelled or fail, every permit is either
\* free or with a thread that is inside the stage or about to enter or leave
\* it.  The queue depth counts the threads that wait and, for the rest of the
\* run, the waits a failing telemetry tick broke off: no others.
PermitsConserved ==
  \A s \in Stages :
    /\ permits[s] + Cardinality(Holders(s))
         + Cardinality({t \in Threads : task[t].phase = "got" /\ Stage(t) = s}) = Budget[s]
    /\ queueDepth[s] = Cardinality(Registered(s)) + lost[s]

=============================================================================
