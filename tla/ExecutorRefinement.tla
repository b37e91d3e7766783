-------------------------- MODULE ExecutorRefinement --------------------------
(***************************************************************************)
(* The executor implements the abstract scheduler: every step of Executor  *)
(* is a step of TaskScheduler on the state that the pointers denote, or    *)
(* leaves that state alone.                                                *)
(***************************************************************************)
EXTENDS ExecutorProofs

(* There is only one list that a pointer and links can denote.             *)
LEMMA Denotes ==
  ASSUME NEW h, NEW k, NEW p \in TaskLists, IsList(h, k, p)
  PROVE  (CHOOSE q \in TaskLists : IsList(h, k, q)) = p
<1> DEFINE c == CHOOSE q \in TaskLists : IsList(h, k, q)
<1>1. c \in TaskLists /\ IsList(h, k, c)
  OBVIOUS
<1>2. QED
  BY <1>1, TaskFinite, ListUnique DEF TaskLists

(* Every unfinished task is placed in the lists that the pointers denote.  *)
LEMMA Placement ==
  ASSUME IInv
  PROVE  /\ ListAt(head) \in TaskLists /\ ListAt(cursor) \in TaskLists
         /\ Placed(ListAt(head), ListAt(cursor))
         /\ Queued = Range(ListAt(head)) \cup Range(ListAt(cursor))
<1>1. PICK r, d \in TaskLists : Placed(r, d)
  BY DEF IInv, QueueInv
<1>2. QED
  BY <1>1, ListsDenoted

(* What leaves pointers and links alone leaves the lists alone.            *)
LEMMA SameLists ==
  ASSUME UNCHANGED <<head, link, cursor>>
  PROVE  ListAt(head)' = ListAt(head) /\ ListAt(cursor)' = ListAt(cursor)
BY DEF ListAt, TaskLists

(* A push puts the task in front of the ready ones.                        *)
LEMMA PushStep ==
  ASSUME IInv, NEW t \in Task, t \notin Queued, Enqueue(t), cursor' = cursor
  PROVE  ListAt(head)' = <<t>> \o ListAt(head) /\ ListAt(cursor)' = ListAt(cursor)
<1>1. PICK r, d \in TaskLists : r = ListAt(head) /\ d = ListAt(cursor)
                                /\ Placed(r, d) /\ Queued = Range(r) \cup Range(d)
  BY Placement
<1>2. Cons(t, r) \in TaskLists /\ IsList(head', link', Cons(t, r))
      /\ IsList(cursor, link', d)
  BY <1>1, EnqueueLists DEF Placed, IInv
<1>3. ListAt(head)' = Cons(t, r)
  BY <1>2, Denotes DEF ListAt, TaskLists
<1>4. ListAt(cursor)' = d
  BY <1>1, <1>2, Denotes DEF ListAt, TaskLists
<1>5. QED
  BY <1>1, <1>3, <1>4 DEF Cons

(* A drain begins with what is ready as its batch.                         *)
LEMMA TakeStep ==
  ASSUME IInv, BeginDrain, link' = link
  PROVE  ListAt(head)' = <<>> /\ ListAt(cursor)' = ListAt(head)
<1>1. ListAt(head) \in TaskLists /\ IsList(head, link, ListAt(head))
  BY Placement DEF Placed
<1>2. <<>> \in TaskLists /\ IsList(NULL, link, <<>>)
  BY TaskFinite, NullIsEmptyList DEF TaskLists
<1>3. ListAt(head)' = <<>>
  BY <1>2, Denotes DEF BeginDrain, ListAt, TaskLists
<1>4. ListAt(cursor)' = ListAt(head)
  BY <1>1 DEF BeginDrain, ListAt, TaskLists
<1>5. QED
  BY <1>3, <1>4

(* The drain takes the first task of its batch.                            *)
LEMMA PopStep ==
  ASSUME IInv, DrainTake
  PROVE  /\ ListAt(cursor) # <<>> /\ running' = Head(ListAt(cursor))
         /\ ListAt(cursor)' = Tail(ListAt(cursor)) /\ ListAt(head)' = ListAt(head)
<1>1. PICK r, d \in TaskLists : r = ListAt(head) /\ d = ListAt(cursor) /\ Placed(r, d)
  BY Placement
<1>2. link \in [Task -> Task \cup {NULL}] /\ cursor # NULL /\ running' = cursor
      /\ cursor' = link[cursor] /\ link' = [link EXCEPT ![cursor] = NULL] /\ head' = head
  BY DEF IInv, TypeOK, DrainTake
<1>3. /\ cursor \in Task /\ cursor \in Range(d) /\ d # <<>> /\ cursor = Head(d)
      /\ Tail(d) \in TaskLists
      /\ IsList(link[cursor], link, Tail(d)) /\ Range(Tail(d)) = Range(d) \ {cursor}
  BY <1>1, <1>2, TaskFinite, ListPop DEF TaskLists, Placed
<1>4. cursor \in Task \ Range(r) /\ cursor \in Task \ Range(Tail(d))
  BY <1>1, <1>3 DEF Placed
<1>5. IsList(head, [link EXCEPT ![cursor] = NULL], r)
  BY <1>1, <1>2, <1>4, TaskFinite, ListFrame DEF Placed, TaskLists
<1>6. IsList(link[cursor], [link EXCEPT ![cursor] = NULL], Tail(d))
  BY <1>2, <1>3, <1>4, TaskFinite, ListFrame DEF TaskLists
<1>7. IsList(head', link', r) /\ IsList(cursor', link', Tail(d))
  BY <1>2, <1>5, <1>6
<1>8. ListAt(head)' = r /\ ListAt(cursor)' = Tail(d)
  BY <1>3, <1>7, Denotes DEF ListAt, TaskLists
<1>9. QED
  BY <1>1, <1>2, <1>3, <1>8

(* Without a cursor the batch is empty.                                    *)
LEMMA EmptyBatch ==
  ASSUME IInv, cursor = NULL
  PROVE  ListAt(cursor) = <<>>
BY Placement, TaskFinite, ListAtNull DEF Placed, TaskLists

(* The counter is zero when nothing is unfinished, and only then.          *)
LEMMA ZeroSpawned ==
  ASSUME IInv
  PROVE  spawned = 0 <=> Live = {}
<1>1. IsFiniteSet(Live)
  BY TaskCount DEF Live
<1>2. QED
  BY <1>1, FS_EmptySet DEF IInv, SpawnedExact

-----------------------------------------------------------------------------

(* Both specifications begin with no task.                                 *)
LEMMA RefinesInit == Init => Scheduler!Init
<1> SUFFICES ASSUME Init PROVE Scheduler!Init
  OBVIOUS
<1>1. IInv
  BY InitInv
<1>2. Live = {} /\ Phase = "stopped" /\ running = NULL /\ cursor = NULL /\ head = NULL
  BY DEF Init, Live, Phase
<1>3. <<>> \in TaskLists /\ IsList(NULL, link, <<>>)
  BY TaskFinite, NullIsEmptyList DEF TaskLists
<1>4. ListAt(head) = <<>> /\ ListAt(cursor) = <<>>
  BY <1>2, <1>3, Denotes DEF ListAt
<1>5. QED
  BY <1>2, <1>4 DEF Scheduler!Init

(* Preparing a task is not seen by the scheduler.                          *)
LEMMA RefinesPrepare ==
  ASSUME IInv, PrepareFresh \/ PrepareReused
  PROVE  UNCHANGED Scheduler!vars
<1>1. PICK s \in Slot : /\ fut' = [fut EXCEPT ![s] = "live"] /\ fut[s] # "live"
                        /\ prepared' = prepared \cup {s}
                        /\ UNCHANGED <<head, link, cursor, running, pc>>
  <2>1. CASE PrepareFresh
    <3>1. exhausted + 1 \in Slot /\ exhausted + 1 > exhausted
      BY <2>1, NAssumption DEF IInv, TypeOK, PrepareFresh, Slot
    <3>2. fut[exhausted + 1] = "uninit"
      BY <3>1 DEF IInv, PoolIntact
    <3>3. QED
      BY <2>1, <3>1, <3>2 DEF PrepareFresh, Prepare, queueVars
  <2>2. CASE PrepareReused
    <3>1. PICK q \in Lists(Slot) : IsList(freeHead, freeLink, q)
                                   /\ Range(q) = {x \in Slot : fut[x] = "dropped"}
      BY DEF IInv, PoolIntact
    <3>2. freeHead # NULL /\ freeHead \in Slot /\ freeLink \in [Slot -> Slot \cup {NULL}]
      BY <2>2 DEF PrepareReused, IInv, TypeOK
    <3>3. freeHead \in Range(q)
      BY <3>1, <3>2, TaskFinite, ListPop
    <3>4. fut[freeHead] = "dropped"
      BY <3>1, <3>3
    <3>5. QED
      BY <2>2, <3>2, <3>4 DEF PrepareReused, Prepare, queueVars
  <2>3. QED
    BY <2>1, <2>2
<1>2. Live' = Live
  BY <1>1, TaskFinite DEF Live, IInv, TypeOK
<1>3. Phase' = Phase
  BY <1>1 DEF Phase
<1>4. QED
  BY <1>1, <1>2, <1>3, SameLists DEF Scheduler!vars

(* Spawns, wakes and yields.                                               *)
LEMMA RefinesSpawn ==
  ASSUME IInv, NEW t \in Task, UserRuns, t \notin Live, Live' = Live \cup {t}, Enqueue(t),
         UNCHANGED <<cursor, running, pc>>
  PROVE  Scheduler!Spawn(t)
<1>1. t \notin Queued
  BY Placement DEF Placed
<1>2. ListAt(head)' = <<t>> \o ListAt(head) /\ ListAt(cursor)' = ListAt(cursor)
  BY <1>1, PushStep
<1>3. Phase' = Phase /\ (Phase # "drain" \/ running # NULL)
  BY DEF Phase, UserRuns, IInv, PcInv
<1>4. QED
  BY <1>2, <1>3 DEF Scheduler!Spawn, Scheduler!UserRuns, Scheduler!Push

(* Executor::spawn_task of a prepared task is a spawn.                     *)
LEMMA RefinesSpawnTask ==
  ASSUME IInv, NEW t \in Slot, SpawnTask(t)
  PROVE  Scheduler!Spawn(t)
<1>1. t \in Task /\ t \notin Live /\ Live' = Live \cup {t}
  BY TaskFinite DEF SpawnTask, Live, IInv, HeaderInv
<1>2. QED
  BY <1>1, RefinesSpawn DEF SpawnTask

(* So is PerThreadExecutor::spawn, which leaks its storage.                *)
LEMMA RefinesSpawnBoxed ==
  ASSUME IInv, NEW b \in Boxed, SpawnBoxed(b)
  PROVE  Scheduler!Spawn(b)
<1>1. b \in Task /\ b \notin prepared
      /\ fut \in [Task -> {"uninit", "live", "dropped"}]
  BY TaskFinite, BoxedAssumption DEF IInv, TypeOK
<1>2. b \notin Live /\ Live' = Live \cup {b}
  BY <1>1 DEF SpawnBoxed, Live
<1>3. QED
  BY <1>1, <1>2, RefinesSpawn DEF SpawnBoxed

(* wake_by_ref makes a parked task ready.                                  *)
LEMMA RefinesWake ==
  ASSUME IInv, NEW t \in Task, WakeByRef(t)
  PROVE  Scheduler!Wake(t)
<1>1. t \in Waiting /\ t \in Live /\ t \notin Queued /\ t # running /\ bound[t]
  <2>1. t \in Waiting
    BY DEF WakeByRef, Waiting
  <2>2. t \in Live /\ t \notin Queued /\ t # running
    BY <2>1, Placement DEF Placed
  <2>3. QED
    BY <2>1, <2>2 DEF IInv, HeaderInv
<1>2. ListAt(head)' = <<t>> \o ListAt(head) /\ ListAt(cursor)' = ListAt(cursor)
  BY <1>1, PushStep DEF WakeByRef
<1>3. Live' = Live /\ Phase' = Phase /\ running' = running
      /\ (Phase # "drain" \/ running # NULL)
  BY DEF WakeByRef, Live, Phase, UserRuns, IInv, PcInv
<1>4. t \in Scheduler!Parked
  BY <1>1, Placement DEF Scheduler!Parked, Scheduler!Range, Range
<1>5. QED
  BY <1>2, <1>3, <1>4 DEF Scheduler!Wake, Scheduler!UserRuns, Scheduler!Push

(* The loop of run.                                                        *)
LEMMA RefinesTake ==
  ASSUME IInv, BeginDrain, UNCHANGED <<link, fut, running, prepared>>
  PROVE  Scheduler!TakeBatch
<1>1. ListAt(head)' = <<>> /\ ListAt(cursor)' = ListAt(head)
  BY TakeStep
<1>2. Live' = Live /\ Phase' = "drain" /\ running' = running
  BY DEF Live, Phase, BeginDrain
<1>3. QED
  BY <1>1, <1>2 DEF Scheduler!TakeBatch

(* The call of run takes the queue as its first batch.                     *)
LEMMA RefinesRun == IInv /\ Run => Scheduler!Start
<1> SUFFICES ASSUME IInv, Run PROVE Scheduler!Start
  OBVIOUS
<1>1. Phase = "stopped"
  BY DEF Run, Phase
<1>2. Scheduler!TakeBatch
  BY RefinesTake DEF Run
<1>3. QED
  BY <1>1, <1>2 DEF Scheduler!Start

(* So does each further turn of the loop, while a task is left.            *)
LEMMA RefinesLoopAgain == IInv /\ LoopAgain => Scheduler!Again
<1> SUFFICES ASSUME IInv, LoopAgain PROVE Scheduler!Again
  OBVIOUS
<1>1. Phase = "rest" /\ Live # {}
  BY ZeroSpawned DEF LoopAgain, Phase
<1>2. Scheduler!TakeBatch
  BY RefinesTake DEF LoopAgain
<1>3. QED
  BY <1>1, <1>2 DEF Scheduler!Again

(* The drain polls the first task of its batch.                            *)
LEMMA RefinesDrainTake == IInv /\ DrainTake => Scheduler!Poll
<1> SUFFICES ASSUME IInv, DrainTake PROVE Scheduler!Poll
  OBVIOUS
<1>1. Phase = "drain" /\ Phase' = "drain" /\ running = NULL /\ Live' = Live
  BY DEF DrainTake, Phase, IInv, PcInv, Live
<1>2. QED
  BY <1>1, PopStep DEF Scheduler!Poll

(* The drain ends when its batch is empty.                                 *)
LEMMA RefinesDrainDone == IInv /\ DrainDone => Scheduler!EndBatch
<1> SUFFICES ASSUME IInv, DrainDone PROVE Scheduler!EndBatch
  OBVIOUS
<1>1. /\ Phase = "drain" /\ Phase' = "rest" /\ running = NULL /\ running' = NULL
      /\ Live' = Live
  BY DEF DrainDone, Phase, IInv, PcInv, Live
<1>2. ListAt(cursor) = <<>>
  BY EmptyBatch DEF DrainDone
<1>3. ListAt(head)' = ListAt(head) /\ ListAt(cursor)' = ListAt(cursor)
  BY SameLists DEF DrainDone, queueVars
<1>4. QED
  BY <1>1, <1>2, <1>3 DEF Scheduler!EndBatch

(* run returns only when no task is left.                                  *)
LEMMA RefinesReturn == IInv /\ ReturnFromRun => Scheduler!Return
<1> SUFFICES ASSUME IInv, ReturnFromRun PROVE Scheduler!Return
  OBVIOUS
<1>1. /\ Phase = "rest" /\ Phase' = "stopped" /\ running' = running
      /\ Live = {} /\ Live' = Live
  BY ZeroSpawned DEF ReturnFromRun, Phase, Live
<1>2. ListAt(head)' = ListAt(head) /\ ListAt(cursor)' = ListAt(cursor)
  BY SameLists DEF ReturnFromRun, queueVars
<1>3. QED
  BY <1>1, <1>2 DEF Scheduler!Return

(* The end of a poll.                                                      *)
LEMMA PollEnds ==
  ASSUME IInv, EndPoll
  PROVE  running \in Task /\ running # NULL /\ running' = NULL /\ Phase' = Phase
BY DEF IInv, TypeOK, PcInv, EndPoll, Phase

(* A poll that is ready finishes the task.                                 *)
LEMMA RefinesPollReady == IInv /\ PollReady => Scheduler!Finish
<1> SUFFICES ASSUME IInv, PollReady PROVE Scheduler!Finish
  OBVIOUS
<1>1. running \in Task /\ running # NULL /\ running' = NULL /\ Phase' = Phase
  BY PollEnds DEF PollReady
<1>2. Live' = Live \ {running}
  BY <1>1 DEF PollReady, Live, IInv, TypeOK
<1>3. ListAt(head)' = ListAt(head) /\ ListAt(cursor)' = ListAt(cursor)
  BY SameLists DEF PollReady, queueVars
<1>4. QED
  BY <1>1, <1>2, <1>3 DEF Scheduler!Finish

(* A poll that is pending parks it.                                        *)
LEMMA RefinesPollPending == IInv /\ PollPending => Scheduler!Park
<1> SUFFICES ASSUME IInv, PollPending PROVE Scheduler!Park
  OBVIOUS
<1>1. running # NULL /\ running' = NULL /\ Phase' = Phase
  BY PollEnds DEF PollPending
<1>2. Live' = Live
  BY DEF PollPending, Live
<1>3. ListAt(head)' = ListAt(head) /\ ListAt(cursor)' = ListAt(cursor)
  BY SameLists DEF PollPending, queueVars
<1>4. QED
  BY <1>1, <1>2, <1>3 DEF Scheduler!Park

(* A poll that wakes its own task puts it in front of the queue.           *)
LEMMA RefinesPollYield == IInv /\ PollYield => Scheduler!Yield
<1> SUFFICES ASSUME IInv, PollYield PROVE Scheduler!Yield
  OBVIOUS
<1>1. running \in Task /\ running # NULL /\ running' = NULL /\ Phase' = Phase
  BY PollEnds DEF PollYield
<1>2. Live' = Live
  BY DEF PollYield, Live
<1>3. running \notin Queued
  BY Placement DEF Placed
<1>4. ListAt(head)' = <<running>> \o ListAt(head) /\ ListAt(cursor)' = ListAt(cursor)
  BY <1>1, <1>3, PushStep DEF PollYield
<1>5. QED
  BY <1>1, <1>2, <1>4 DEF Scheduler!Yield, Scheduler!Push

-----------------------------------------------------------------------------

(* Every step of the executor is one of the scheduler or a stutter.        *)
LEMMA RefinesNext == IInv /\ [Next]_vars => [Scheduler!Next]_(Scheduler!vars)
<1> SUFFICES ASSUME IInv, [Next]_vars PROVE [Scheduler!Next]_(Scheduler!vars)
  OBVIOUS
<1>1. CASE PrepareFresh \/ PrepareReused
  BY <1>1, RefinesPrepare
<1>2. CASE \E t \in Slot : SpawnTask(t)
  BY <1>2, RefinesSpawnTask, TaskFinite DEF Scheduler!Next
<1>3. CASE \E b \in Boxed : SpawnBoxed(b)
  BY <1>3, RefinesSpawnBoxed, TaskFinite DEF Scheduler!Next
<1>4. CASE \E t \in Task : WakeByRef(t)
  BY <1>4, RefinesWake DEF Scheduler!Next
<1>5. CASE Run
  BY <1>5, RefinesRun DEF Scheduler!Next
<1>6. CASE DrainTake
  BY <1>6, RefinesDrainTake DEF Scheduler!Next
<1>7. CASE PollReady
  BY <1>7, RefinesPollReady DEF Scheduler!Next
<1>8. CASE PollPending
  BY <1>8, RefinesPollPending DEF Scheduler!Next
<1>9. CASE PollYield
  BY <1>9, RefinesPollYield DEF Scheduler!Next
<1>10. CASE DrainDone
  BY <1>10, RefinesDrainDone DEF Scheduler!Next
<1>11. CASE LoopAgain
  BY <1>11, RefinesLoopAgain DEF Scheduler!Next
<1>12. CASE ReturnFromRun
  BY <1>12, RefinesReturn DEF Scheduler!Next
<1>13. CASE UNCHANGED vars
  <2>1. UNCHANGED <<head, link, cursor, running, pc, fut, prepared>>
    BY <1>13 DEF vars, queueVars
  <2>2. Live' = Live /\ Phase' = Phase
    BY <2>1 DEF Live, Phase
  <2>3. QED
    BY <2>1, <2>2, SameLists DEF Scheduler!vars
<1>14. QED
  BY <1>1, <1>2, <1>3, <1>4, <1>5, <1>6, <1>7, <1>8, <1>9, <1>10, <1>11, <1>12, <1>13
     DEF Next

(* The executor with its pointers, counters and slots behaves as the       *)
(* abstract scheduler does: a drain polls what was ready when it began,    *)
(* last in first out, and run returns when nothing is left (lib.rs:284-321,*)
(* queue.rs:52-80).  Fairness is left to the model checker.                *)
THEOREM ExecutorRefinesScheduler ==
  ASSUME MaxWaits = 1
  PROVE  SafeSpec => Scheduler!SafeSpec
<1>1. Init => Scheduler!Init
  BY RefinesInit
<1>2. IInv /\ [Next]_vars => [Scheduler!Next]_(Scheduler!vars)
  BY RefinesNext
<1>3. QED
  BY <1>1, <1>2, Invariance, PTL DEF SafeSpec, Scheduler!SafeSpec

==============================================================================
