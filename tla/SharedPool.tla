------------------------------- MODULE SharedPool -------------------------------
(***************************************************************************)
(* The task pool behind a task function, as several threads see it.  The   *)
(* task macro keeps the pool in a `static mut` (reika-macros/src/lib.rs,   *)
(* 175-180) and nothing on the way to TaskPool::prepare_task and           *)
(* TaskPool::finalize synchronises, so their accesses to the pool are      *)
(* steps of their own here.  Module Executor has the same pool as one      *)
(* thread sees it.                                                         *)
(*                                                                         *)
(* A race is undefined behaviour.  Of what a build may do with it, this    *)
(* is the plain case: each field is read once and written once, in the     *)
(* order of the source (with `&mut self` the compiler may keep the count   *)
(* that it compared with N).                                               *)
(***************************************************************************)
EXTENDS IntrusiveList

CONSTANTS
  Thread,    \* the threads that call the task function
  PoolOf,    \* PoolOf[th]: the static that its copy of the function uses
  N          \* POOL_SIZE

Pool == {PoolOf[th] : th \in Thread}
Slot == Pool \X (1..N)

ASSUME ThreadAssumption == IsFiniteSet(Thread)
ASSUME PoolSizeAssumption == N \in Nat \ {0}
ASSUME PoolNULLAssumption == NULL \notin Slot

VARIABLES
  exhausted,   \* exhaust_list_cnt of each pool
  freeHead,    \* TaskFreeList.head of each pool
  freeLink,    \* task_pool_queue_item.next of each slot
  step,        \* where in the pool's code each thread is: "none", "fresh",
               \* "pop" (prepare_task), "push" or "link" (finalize)
  local,       \* the slot that its last read of the pool gave it
  freeing      \* the slot that it finalizes

pools == <<exhausted, freeHead, freeLink>>
poolVars == <<pools, step, local, freeing>>

PoolInit ==
  /\ exhausted = [p \in Pool |-> 0]
  /\ freeHead = [p \in Pool |-> NULL]
  /\ freeLink = [s \in Slot |-> NULL]
  /\ step = [th \in Thread |-> "none"]
  /\ local = [th \in Thread |-> NULL]
  /\ freeing = [th \in Thread |-> NULL]

InPool(th) == step[th] # "none"

At(th, where) == step' = [step EXCEPT ![th] = where]

----------------------------------------------------------------------------
(* prepare_task.                                                           *)

(* A mutant: the bound is off by one.                                      *)
LoadCountPastEnd(th) ==
  /\ ~InPool(th)
  /\ exhausted[PoolOf[th]] <= N
  /\ local' = [local EXCEPT ![th] = <<PoolOf[th], exhausted[PoolOf[th]] + 1>>]
  /\ At(th, "fresh")
  /\ UNCHANGED <<pools, freeing>>

(* exhaust_list_cnt < N: the thread will take the slot at that count.      *)
LoadCount(th) ==
  /\ ~InPool(th)
  /\ exhausted[PoolOf[th]] < N
  /\ local' = [local EXCEPT ![th] = <<PoolOf[th], exhausted[PoolOf[th]] + 1>>]
  /\ At(th, "fresh")
  /\ UNCHANGED <<pools, freeing>>

StoreCount(th) ==
  /\ step[th] = "fresh"
  /\ exhausted' = [exhausted EXCEPT ![PoolOf[th]] = local[th][2]]
  /\ local' = [local EXCEPT ![th] = NULL]
  /\ At(th, "none")
  /\ UNCHANGED <<freeHead, freeLink, freeing>>

(* Else the thread reads the head of the free list ...                     *)
LoadHead(th) ==
  /\ ~InPool(th)
  /\ exhausted[PoolOf[th]] = N
  /\ freeHead[PoolOf[th]] # NULL
  /\ local' = [local EXCEPT ![th] = freeHead[PoolOf[th]]]
  /\ At(th, "pop")
  /\ UNCHANGED <<pools, freeing>>

(* A mutant: the head stays.                                               *)
StoreNextKeepsHead(th) ==
  /\ step[th] = "pop"
  /\ local' = [local EXCEPT ![th] = NULL]
  /\ At(th, "none")
  /\ UNCHANGED <<pools, freeing>>

(* ... and replaces it by the one behind it.                               *)
StoreNext(th) ==
  /\ step[th] = "pop"
  /\ freeHead' = [freeHead EXCEPT ![PoolOf[th]] = freeLink[local[th]]]
  /\ local' = [local EXCEPT ![th] = NULL]
  /\ At(th, "none")
  /\ UNCHANGED <<exhausted, freeLink, freeing>>

(* With an empty list prepare_task returns None.                           *)
Refused(th) ==
  /\ ~InPool(th)
  /\ exhausted[PoolOf[th]] = N
  /\ freeHead[PoolOf[th]] = NULL
  /\ UNCHANGED poolVars

----------------------------------------------------------------------------
(* finalize: TaskFreeList::enqueue reads the head and writes it, and then  *)
(* writes the link of the slot.                                            *)

FreeLoad(th, s) ==
  /\ ~InPool(th)
  /\ local' = [local EXCEPT ![th] = freeHead[s[1]]]
  /\ freeing' = [freeing EXCEPT ![th] = s]
  /\ At(th, "push")
  /\ UNCHANGED pools

(* A mutant: the slot does not become the head.                            *)
FreeStoreHeadForgets(th) ==
  /\ step[th] = "push"
  /\ At(th, "link")
  /\ UNCHANGED <<pools, local, freeing>>

FreeStoreHead(th) ==
  /\ step[th] = "push"
  /\ freeHead' = [freeHead EXCEPT ![freeing[th][1]] = freeing[th]]
  /\ At(th, "link")
  /\ UNCHANGED <<exhausted, freeLink, local, freeing>>

FreeStoreLink(th) ==
  /\ step[th] = "link"
  /\ freeLink' = [freeLink EXCEPT ![freeing[th]] = local[th]]
  /\ local' = [local EXCEPT ![th] = NULL]
  /\ freeing' = [freeing EXCEPT ![th] = NULL]
  /\ At(th, "none")
  /\ UNCHANGED <<exhausted, freeHead>>

==============================================================================
