------------------------------- MODULE Executor -------------------------------
(***************************************************************************)
(* The single-threaded executor of async-executor (lib.rs, queue.rs,       *)
(* waker.rs): tasks whose headers carry the links of an intrusive run      *)
(* queue, a task pool with an intrusive free list, and the loop of         *)
(* Executor::run.                                                          *)
(*                                                                         *)
(* One thread runs everything, so a step is what happens between two       *)
(* points at which code of the user runs.  That code runs outside          *)
(* Executor::run (pc = "user"), inside the poll of a task ("poll") and in  *)
(* the post-drain function ("post"); there it may prepare and spawn tasks  *)
(* and wake tasks that gave their waker away.                              *)
(***************************************************************************)
EXTENDS IntrusiveList

CONSTANTS
  N,         \* slots of the task pool (TaskPool<F, N>)
  Boxed,     \* tasks in storages of their own (PerThreadExecutor::spawn)
  MaxWaits   \* wake-ups one task can be waiting for at a time: 1 for a task
             \* that awaits one future after the other, 2 for joined futures

Slot == 1..N
Task == Slot \cup Boxed

ASSUME NAssumption == N \in Nat
ASSUME BoxedAssumption == IsFiniteSet(Boxed) /\ Boxed \cap Slot = {}
ASSUME NULLAssumption == NULL \notin Task
ASSUME MaxWaitsAssumption == MaxWaits \in Nat \ {0}

VARIABLES
  head,       \* TaskQueue.head
  link,       \* link[t]: executor_queue_item.next of t
  cursor,     \* the local `next` of TaskQueue::drain
  freeHead,   \* TaskFreeList.head of the pool
  freeLink,   \* freeLink[s]: task_pool_queue_item.next of slot s
  exhausted,  \* TaskPool.exhaust_list_cnt
  fut,        \* the future cell of each storage: "uninit", "live" or "dropped"
  bound,      \* bound[t]: header.executor of t is Some
  spawned,    \* Executor.spawned
  running,    \* the task whose poll_fn is on the stack, or NULL
  pc,         \* where the thread is: "user", "drain", "poll" or "post"
  prepared,   \* TaskRefs that prepare_task returned and nobody spawned yet
  waits       \* waits[t]: wakers of t still to be called, one wake each

queueVars == <<head, link, bound>>
poolVars  == <<freeHead, freeLink, exhausted>>
vars == <<queueVars, cursor, poolVars, fut, spawned, running, pc, prepared, waits>>

Init ==
  /\ head = NULL
  /\ link = [t \in Task |-> NULL]
  /\ cursor = NULL
  /\ freeHead = NULL
  /\ freeLink = [s \in Slot |-> NULL]
  /\ exhausted = 0
  /\ fut = [t \in Task |-> "uninit"]
  /\ bound = [t \in Task |-> FALSE]
  /\ spawned = 0
  /\ running = NULL
  /\ pc = "user"
  /\ prepared = {}
  /\ waits = [t \in Task |-> 0]

UserRuns == pc \in {"user", "poll", "post"}

----------------------------------------------------------------------------
(* The run queue.  Executor::enqueue binds the task to this executor and   *)
(* pushes it; it does not look whether the task is queued already.         *)

Enqueue(t) ==
  /\ head' = t
  /\ link' = [link EXCEPT ![t] = head]
  /\ bound' = [bound EXCEPT ![t] = TRUE]

BeginDrainKeepsHead == cursor' = head /\ head' = head /\ pc' = "drain"

(* drain swaps the queue for an empty one and walks what it took.          *)
BeginDrain ==
  /\ cursor' = head
  /\ head' = NULL
  /\ pc' = "drain"

----------------------------------------------------------------------------
(* Preparing and spawning tasks.                                           *)

Prepare(s) ==
  /\ fut' = [fut EXCEPT ![s] = "live"]
  /\ prepared' = prepared \cup {s}
  /\ UNCHANGED <<queueVars, cursor, spawned, running, pc, waits>>

(* The slots of the pool are handed out once each, in order ...            *)
PrepareFresh ==
  /\ UserRuns
  /\ exhausted < N
  /\ exhausted' = exhausted + 1
  /\ Prepare(exhausted + 1)
  /\ UNCHANGED <<freeHead, freeLink>>

PrepareReusedKeepsHead ==
  /\ UserRuns
  /\ exhausted = N
  /\ freeHead # NULL
  /\ Prepare(freeHead)
  /\ UNCHANGED poolVars

(* ... and after that from the free list.  With an empty free list         *)
(* prepare_task returns None and changes nothing.                          *)
PrepareReused ==
  /\ UserRuns
  /\ exhausted = N
  /\ freeHead # NULL
  /\ freeHead' = freeLink[freeHead]
  /\ Prepare(freeHead)
  /\ UNCHANGED <<freeLink, exhausted>>

SpawnUncounted(t) ==
  /\ UserRuns
  /\ t \in prepared
  /\ prepared' = prepared \ {t}
  /\ Enqueue(t)
  /\ UNCHANGED <<cursor, poolVars, fut, spawned, running, pc, waits>>

(* Executor::spawn_task on a TaskRef of the pool.                          *)
SpawnTask(t) ==
  /\ UserRuns
  /\ t \in prepared
  /\ prepared' = prepared \ {t}
  /\ spawned' = spawned + 1
  /\ Enqueue(t)
  /\ UNCHANGED <<cursor, poolVars, fut, running, pc, waits>>

(* PerThreadExecutor::spawn leaks a new TaskStorage, prepares and spawns.  *)
SpawnBoxed(b) ==
  /\ UserRuns
  /\ fut[b] = "uninit"
  /\ fut' = [fut EXCEPT ![b] = "live"]
  /\ spawned' = spawned + 1
  /\ Enqueue(b)
  /\ UNCHANGED <<cursor, poolVars, running, pc, prepared, waits>>

----------------------------------------------------------------------------
(* Executor::run.                                                          *)

Run ==
  /\ pc = "user"
  /\ BeginDrain
  /\ UNCHANGED <<link, bound, poolVars, fut, spawned, running, prepared, waits>>

DrainTakeResetsFirst ==
  /\ pc = "drain"
  /\ cursor # NULL
  /\ running' = cursor
  /\ link' = [link EXCEPT ![cursor] = NULL]
  /\ cursor' = link'[cursor]
  /\ pc' = "poll"
  /\ UNCHANGED <<head, bound, poolVars, fut, spawned, prepared, waits>>

(* The drain unlinks the next task of its batch and calls its poll_fn.     *)
DrainTake ==
  /\ pc = "drain"
  /\ cursor # NULL
  /\ running' = cursor
  /\ cursor' = link[cursor]
  /\ link' = [link EXCEPT ![cursor] = NULL]
  /\ pc' = "poll"
  /\ UNCHANGED <<head, bound, poolVars, fut, spawned, prepared, waits>>

DrainDoneGreedy ==
  /\ pc = "drain"
  /\ cursor = NULL
  /\ cursor' = head
  /\ head' = NULL
  /\ pc' = IF head = NULL THEN "post" ELSE "drain"
  /\ UNCHANGED <<link, bound, poolVars, fut, spawned, running, prepared, waits>>

(* The batch is done: the post-drain function runs.                        *)
DrainDone ==
  /\ pc = "drain"
  /\ cursor = NULL
  /\ pc' = "post"
  /\ UNCHANGED <<queueVars, cursor, poolVars, fut, spawned, running, prepared, waits>>

EndPoll == pc = "poll" /\ running' = NULL /\ pc' = "drain"

FreeSlot(t) ==
  IF t \in Slot
  THEN /\ freeHead' = t
       /\ freeLink' = [freeLink EXCEPT ![t] = freeHead]
  ELSE UNCHANGED <<freeHead, freeLink>>

PollReadyCountsPool ==
  /\ EndPoll
  /\ waits[running] = 0
  /\ fut' = [fut EXCEPT ![running] = "dropped"]
  /\ FreeSlot(running)
  /\ spawned' = IF running \in Slot THEN spawned - 1 ELSE spawned
  /\ UNCHANGED <<queueVars, cursor, exhausted, prepared, waits>>

(* The future returned Ready: it is dropped in place, the finalizer puts a *)
(* slot of the pool on the free list, and the task is counted off.  The    *)
(* requests of a task have completed by then: they live in its futures.    *)
PollReady ==
  /\ EndPoll
  /\ waits[running] = 0
  /\ fut' = [fut EXCEPT ![running] = "dropped"]
  /\ FreeSlot(running)
  /\ spawned' = spawned - 1
  /\ UNCHANGED <<queueVars, cursor, exhausted, prepared, waits>>

(* The future returned Pending and left k clones of its waker with leaf    *)
(* futures, those that were out already included.                          *)
PollPending ==
  /\ EndPoll
  /\ \E k \in 1..MaxWaits :
       /\ k >= waits[running]
       /\ waits' = [waits EXCEPT ![running] = k]
  /\ UNCHANGED <<queueVars, cursor, poolVars, fut, spawned, prepared>>

PollYieldIntoBatch ==
  /\ EndPoll
  /\ cursor' = running
  /\ link' = [link EXCEPT ![running] = cursor]
  /\ UNCHANGED <<head, bound, poolVars, fut, spawned, prepared, waits>>

(* The future called its own waker and returned Pending (a leaf future     *)
(* does so when its request could not be submitted).                       *)
PollYield ==
  /\ EndPoll
  /\ Enqueue(running)
  /\ UNCHANGED <<cursor, poolVars, fut, spawned, prepared, waits>>

(* A waker of t is called, by the completion of a request or by a task:    *)
(* wake_task enqueues t if its header knows an executor.                   *)
WakeByRef(t) ==
  /\ UserRuns
  /\ waits[t] > 0
  /\ waits' = [waits EXCEPT ![t] = @ - 1]
  /\ IF bound[t] THEN Enqueue(t) ELSE UNCHANGED queueVars
  /\ UNCHANGED <<cursor, poolVars, fut, spawned, running, pc, prepared>>

LoopAgain ==
  /\ pc = "post"
  /\ spawned # 0
  /\ BeginDrain
  /\ UNCHANGED <<link, bound, poolVars, fut, spawned, running, prepared, waits>>

ReturnOnEmptyQueue ==
  /\ pc = "post"
  /\ head = NULL
  /\ pc' = "user"
  /\ UNCHANGED <<queueVars, cursor, poolVars, fut, spawned, running, prepared, waits>>

ReturnFromRun ==
  /\ pc = "post"
  /\ spawned = 0
  /\ pc' = "user"
  /\ UNCHANGED <<queueVars, cursor, poolVars, fut, spawned, running, prepared, waits>>

----------------------------------------------------------------------------
Next ==
  \/ PrepareFresh
  \/ PrepareReused
  \/ \E t \in Slot : SpawnTask(t)
  \/ \E b \in Boxed : SpawnBoxed(b)
  \/ \E t \in Task : WakeByRef(t)
  \/ Run
  \/ DrainTake
  \/ PollReady
  \/ PollPending
  \/ PollYield
  \/ DrainDone
  \/ LoopAgain
  \/ ReturnFromRun

SafeSpec == Init /\ [][Next]_vars

(* Once run is called its thread goes on: every poll returns, the drain    *)
(* takes the next task, and the post-drain function returns.  Calls of     *)
(* wakers, spawns and the call of run itself are the user's: not fair.     *)
Fairness ==
  /\ WF_vars(DrainTake)
  /\ WF_vars(DrainDone)
  /\ WF_vars(PollReady \/ PollPending \/ PollYield)
  /\ WF_vars(LoopAgain)
  /\ WF_vars(ReturnFromRun)

Spec == SafeSpec /\ Fairness

----------------------------------------------------------------------------
(* Properties.                                                             *)

TaskLists == Lists(Task)

(* Tasks that were spawned and have not finished.                          *)
Live == {t \in Task : fut[t] = "live"} \ prepared

Waiting == {t \in Task : waits[t] > 0}

(* The list that starts at pointer h, where there is one.                  *)
ListAt(h) == CHOOSE q \in TaskLists : IsList(h, link, q)

Queued == Range(ListAt(head)) \cup Range(ListAt(cursor))

(* Every variable has its type; in particular the u64 `spawned` never      *)
(* wraps below 0 and counts no more tasks than exist (lib.rs:277, 304).    *)
TypeOK ==
  /\ head \in Task \cup {NULL}
  /\ link \in [Task -> Task \cup {NULL}]
  /\ cursor \in Task \cup {NULL}
  /\ freeHead \in Slot \cup {NULL}
  /\ freeLink \in [Slot -> Slot \cup {NULL}]
  /\ exhausted \in 0..N
  /\ fut \in [Task -> {"uninit", "live", "dropped"}]
  /\ bound \in [Task -> BOOLEAN]
  /\ spawned \in 0..Cardinality(Task)
  /\ running \in Task \cup {NULL}
  /\ pc \in {"user", "drain", "poll", "post"}
  /\ prepared \in SUBSET Slot
  /\ waits \in [Task -> 0..MaxWaits]

(* What hangs off the head of the run queue and what the drain still has   *)
(* to walk are two proper lists without a common task: no cycle, no lost   *)
(* tail, no task in both (queue.rs:50-57 and 65-80 share one link).        *)
QueueIntact ==
  \E r, d \in TaskLists :
    /\ IsList(head, link, r)
    /\ IsList(cursor, link, d)
    /\ Range(r) \cap Range(d) = {}

(* An unfinished task is at exactly one place: queued, being polled, or    *)
(* waiting for a wake-up; a finished or unspawned one is at none, so no    *)
(* task is forgotten and none is polled after it finished or before it was *)
(* spawned (lib.rs:287-307, queue.rs:65-80).                               *)
EachTaskOnce ==
  /\ Live = Queued \cup Waiting \cup ({running} \ {NULL})
  /\ Queued \cap Waiting = {}
  /\ running \notin Queued \cup Waiting

(* The counter that ends run counts the unfinished tasks (lib.rs:275-278,  *)
(* 301-304, 316).                                                          *)
SpawnedExact == spawned = Cardinality(Live)

(* The free list holds each slot whose future was dropped, once; the slots *)
(* from exhaust_list_cnt on were never used (lib.rs:204-217, 240-248).     *)
PoolIntact ==
  /\ \E q \in Lists(Slot) :
       /\ IsList(freeHead, freeLink, q)
       /\ Range(q) = {s \in Slot : fut[s] = "dropped"}
  /\ \A s \in Slot : fut[s] = "uninit" <=> s > exhausted

(* run returns with an empty run queue and nobody waiting for a wake-up:   *)
(* it abandons no task (lib.rs:284-321).                                   *)
RunReturnsIdle ==
  [][pc # "user" /\ pc' = "user" => head = NULL /\ Live = {} /\ Waiting = {}]_vars

(* A task that is queued while run is going on gets polled, whatever the   *)
(* tasks polled before it spawn, wake or yield (lib.rs:287-320).           *)
WokenIsPolled ==
  \A t \in Task : pc # "user" /\ t \in Queued ~> running = t

(* The executor is the scheduler that module TaskScheduler describes.      *)
Phase ==
  CASE pc = "user" -> "stopped"
    [] pc = "post" -> "rest"
    [] OTHER -> "drain"

Scheduler == INSTANCE TaskScheduler WITH
  active  <- Live,
  ready   <- ListAt(head),
  batch   <- ListAt(cursor),
  current <- running,
  phase   <- Phase

(* With one wake-up outstanding per task, executor and pool implement the  *)
(* abstract scheduler, its fairness included.                              *)
ImplementsScheduler == Scheduler!Spec

(* Doc of TaskQueue::enqueue (queue.rs:50-51): the caller ensures that the *)
(* task is not already in the queue.  It says so of every wake.            *)
WakesUnqueuedTask ==
  [][\A t \in Task : WakeByRef(t) => t \notin Queued]_vars

==============================================================================
