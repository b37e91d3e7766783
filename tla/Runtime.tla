-------------------------------- MODULE Runtime --------------------------------
(***************************************************************************)
(* The thread of an entry function: tasks whose futures await the leaf     *)
(* futures of derive(Future) (reika-macros/src/lib.rs), the executor that  *)
(* polls them, and the reactor as post-drain function.                     *)
(*                                                                         *)
(* The executor is taken at the level of TaskScheduler.  The reactor is    *)
(* taken at the level of the calls that concern requests: flush, reap,     *)
(* return.  That the sleep of Reactor::run concerns no request is property *)
(* SleepsOnlyIdle of module Reactor; faults of submit_and_wait are there.  *)
(*                                                                         *)
(* A leaf future holds its request, and the entries of the rings point to  *)
(* it.  A poll without a result submits the request, whatever happened to  *)
(* it before, so a request may have several entries.                       *)
(***************************************************************************)
EXTENDS Integers, Sequences, FiniteSets

CONSTANTS
  Task, NULL,
  Width,     \* leaf futures a task awaits at a time: 1 for .await, 2 for a join
  SQSize     \* entries of the submission queue

ASSUME WidthAssumption == Width \in Nat \ {0}
ASSUME SQSizeAssumption == SQSize \in Nat \ {0}
ASSUME TaskAssumption == IsFiniteSet(Task) /\ NULL \notin Task

Leaf == Task \X (1..Width)
Owner(l) == l[1]
LeavesOf(t) == {l \in Leaf : Owner(l) = t}

VARIABLES
  active, ready, batch, current, phase,   \* see TaskScheduler
  fut,      \* leaf futures: "none", "pending" or "ready" (return_val is Some)
  sq,       \* entries that point to the leaf's request: in the submission
  kernel,   \* queue, in the kernel,
  cq,       \* in the completion queue,
  pass,     \* and in what the `for` loop of flush_completions has to visit
  reactor   \* the post-drain function: "call", "flushed", "reap" or "back"

tasks == <<active, ready, batch, current, phase>>
rings == <<sq, kernel, cq, pass>>
vars  == <<tasks, fut, rings, reactor>>

Scheduler == INSTANCE TaskScheduler

NoEntries == [l \in Leaf |-> 0]

Init ==
  /\ Scheduler!Init
  /\ fut = [l \in Leaf |-> "none"]
  /\ sq = NoEntries /\ kernel = NoEntries /\ cq = NoEntries /\ pass = NoEntries
  /\ reactor = "call"

(* The entries of a ring that point to the leaves of L, by their number.   *)
EntriesOf(ring, L) == UNION {{l} \X (1..ring[l]) : l \in L}
Used(ring) == Cardinality(EntriesOf(ring, Leaf))

Entries == [l \in Leaf |-> sq[l] + kernel[l] + cq[l] + pass[l]]

Pending(t) == {l \in LeavesOf(t) : fut[l] = "pending"}

----------------------------------------------------------------------------
(* The thread outside of polls and the reactor.                            *)

SpawnTask(t) ==
  /\ phase # "rest"
  /\ Scheduler!Spawn(t)
  /\ UNCHANGED <<fut, rings, reactor>>

Run == Scheduler!Start /\ UNCHANGED <<fut, rings, reactor>>

DrainTake == Scheduler!Poll /\ UNCHANGED <<fut, rings, reactor>>

DrainDone == Scheduler!EndBatch /\ reactor' = "call" /\ UNCHANGED <<fut, rings>>

LoopAgain == reactor = "back" /\ Scheduler!Again /\ UNCHANGED <<fut, rings, reactor>>

ReturnFromRun == reactor = "back" /\ Scheduler!Return /\ UNCHANGED <<fut, rings, reactor>>

----------------------------------------------------------------------------
(* The poll of a task.  Results that are there are taken.                  *)

FutAfterPoll(S) ==
  [l \in Leaf |-> IF l \in S THEN "pending"
                  ELSE IF Owner(l) = current THEN "none" ELSE fut[l]]

(* The leaves of S that get an entry: as many as there is room for.        *)
Accepted(S) ==
  {P \in SUBSET S : Cardinality(P) =
     IF Used(sq) + Cardinality(S) <= SQSize THEN Cardinality(S) ELSE SQSize - Used(sq)}

WithEntries(P) == [l \in Leaf |-> IF l \in P THEN sq[l] + 1 ELSE sq[l]]

Times(n, t) == [i \in 1..n |-> t]

PollLeavesWakesAll(S) ==
  /\ \E P \in Accepted(S) : sq' = WithEntries(P)
  /\ ready' = Times(Cardinality(S), current) \o ready
  /\ fut' = FutAfterPoll(S)
  /\ current' = NULL
  /\ UNCHANGED <<active, batch, phase, kernel, cq, pass, reactor>>

PollLeavesWakesNone(S) ==
  /\ \E P \in Accepted(S) : sq' = WithEntries(P)
  /\ fut' = FutAfterPoll(S)
  /\ current' = NULL
  /\ UNCHANGED <<active, ready, batch, phase, kernel, cq, pass, reactor>>

PollLeavesUnbounded(S) ==
  /\ sq' = WithEntries(S)
  /\ fut' = FutAfterPoll(S)
  /\ current' = NULL
  /\ UNCHANGED <<active, ready, batch, phase, kernel, cq, pass, reactor>>

(* The running task polls the leaves of S, which have no result: each one  *)
(* stores the waker and submits, and wakes its task if the push fails.     *)
PollLeaves(S) ==
  /\ \E P \in Accepted(S) :
       /\ sq' = WithEntries(P)
       /\ ready' = Times(Cardinality(S \ P), current) \o ready
  /\ fut' = FutAfterPoll(S)
  /\ current' = NULL
  /\ UNCHANGED <<active, batch, phase, kernel, cq, pass, reactor>>



(* What the task awaited is there: it goes on to the next await ...        *)
PollAwaits ==
  /\ current # NULL
  /\ Pending(current) = {}
  /\ \E S \in SUBSET LeavesOf(current) : S # {} /\ PollLeaves(S)

(* ... or finishes.                                                        *)
PollFinishes ==
  /\ current # NULL
  /\ Pending(current) = {}
  /\ Scheduler!Finish
  /\ fut' = FutAfterPoll({})
  /\ UNCHANGED <<rings, reactor>>

(* Something is missing: its leaf futures are polled once more.            *)
PollAgain ==
  /\ current # NULL
  /\ Pending(current) # {}
  /\ PollLeaves(Pending(current))

----------------------------------------------------------------------------
(* The post-drain function: PerThreadReactor::run.                         *)

Flush ==
  /\ phase = "rest" /\ reactor = "call"
  /\ kernel' = [l \in Leaf |-> kernel[l] + sq[l]]
  /\ sq' = NoEntries
  /\ reactor' = "flushed"
  /\ UNCHANGED <<tasks, fut, cq, pass>>

BeginPassKeepsEntries ==
  /\ reactor = "flushed"
  /\ pass' = cq
  /\ reactor' = "reap"
  /\ UNCHANGED <<tasks, fut, sq, kernel, cq>>

BeginPass ==
  /\ reactor = "flushed"
  /\ pass' = cq
  /\ cq' = NoEntries
  /\ reactor' = "reap"
  /\ UNCHANGED <<tasks, fut, sq, kernel>>

(* A completion sets return_val and calls the waker.                       *)
Reap(l) ==
  /\ reactor = "reap"
  /\ pass[l] > 0
  /\ pass' = [pass EXCEPT ![l] = @ - 1]
  /\ fut' = [fut EXCEPT ![l] = IF @ = "none" THEN "none" ELSE "ready"]
  /\ Scheduler!Push(Owner(l))
  /\ UNCHANGED <<active, batch, current, phase, sq, kernel, cq, reactor>>

PassEndsAfterOne ==
  /\ reactor = "reap"
  /\ Used(pass) <= 1
  /\ pass' = NoEntries
  /\ reactor' = "back"
  /\ UNCHANGED <<tasks, fut, sq, kernel, cq>>

PassEnds ==
  /\ reactor = "reap"
  /\ pass = NoEntries
  /\ reactor' = "back"
  /\ UNCHANGED <<tasks, fut, rings>>

KernelCompletes(l) ==
  /\ kernel[l] > 0
  /\ kernel' = [kernel EXCEPT ![l] = @ - 1]
  /\ cq' = [cq EXCEPT ![l] = @ + 1]
  /\ UNCHANGED <<tasks, fut, sq, pass, reactor>>

----------------------------------------------------------------------------
Polls == PollAwaits \/ PollFinishes \/ PollAgain
PostDrain == Flush \/ BeginPass \/ (\E l \in Leaf : Reap(l)) \/ PassEnds
Thread == DrainTake \/ DrainDone \/ LoopAgain \/ ReturnFromRun \/ Polls \/ PostDrain

Next ==
  \/ \E t \in Task : SpawnTask(t)
  \/ Run
  \/ Thread
  \/ \E l \in Leaf : KernelCompletes(l)

SafeSpec == Init /\ [][Next]_vars

(* Once run is called the thread goes on.  A spawn needs no fairness, and  *)
(* a request may never complete.                                           *)
Spec == SafeSpec /\ WF_vars(Thread)

----------------------------------------------------------------------------
(* Properties.                                                             *)

TypeOK ==
  /\ active \subseteq Task
  /\ ready \in Seq(Task) /\ batch \in Seq(Task)
  /\ current \in Task \cup {NULL}
  /\ phase \in {"stopped", "drain", "rest"}
  /\ fut \in [Leaf -> {"none", "pending", "ready"}]
  /\ {sq, kernel, cq, pass} \subseteq [Leaf -> Nat]
  /\ Used(sq) <= SQSize
  /\ reactor \in {"call", "flushed", "reap", "back"}

(* While an entry points to a request, the future that holds it is there.  *)
(* Doc of Reactor::submit (reika-reactor/src/lib.rs:97-98): the request    *)
(* lives at least for as long as it is in the queue.                       *)
RequestLives == \A l \in Leaf : Entries[l] > 0 => fut[l] # "none"

(* A task that waits has exactly one entry of its own on its way, and      *)
(* nothing else will wake it (reika-macros lib.rs:465-474,                 *)
(* reika-reactor lib.rs:231-236).                                          *)
ParkedAwaitsOne ==
  \A t \in Scheduler!Parked : Cardinality(EntriesOf(Entries, LeavesOf(t))) = 1

(* The reactor wakes tasks that are parked, and them only: what            *)
(* TaskQueue::enqueue asks of its caller.                                  *)
ImplementsScheduler == Scheduler!SafeSpec

(* A task whose request has completed gets polled.                         *)
CompletionPolled ==
  \A l \in Leaf : cq[l] + pass[l] > 0 /\ phase # "stopped" ~> current = Owner(l)

(* A request whose push failed is submitted in the end.  Doc of TaskQueue  *)
(* (async-executor/src/queue.rs:21-27): that the queue is a stack is not   *)
(* really a problem.                                                       *)
RefusedIsSubmitted ==
  \A l \in Leaf : fut[l] = "pending" /\ Entries[l] = 0 ~> Entries[l] > 0

==============================================================================
