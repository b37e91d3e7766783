---------------------------- MODULE ExecutorProofs ----------------------------
(***************************************************************************)
(* What is proved of the executor for every number of slots and every      *)
(* finite set of leaked tasks.  The hypothesis MaxWaits = 1 is the         *)
(* discipline under which TaskQueue::enqueue is safe: a task waits for one *)
(* wake-up at a time.  (Run ExecutorJoined shows what happens without.)    *)
(***************************************************************************)
EXTENDS Executor, IntrusiveListProofs

(* r is the run queue and d the rest of the batch, and together with the   *)
(* running task and the waiting ones they hold each unfinished task once.  *)
Placed(r, d) ==
  /\ IsList(head, link, r)
  /\ IsList(cursor, link, d)
  /\ Range(r) \cap Range(d) = {}
  /\ Live = Range(r) \cup Range(d) \cup Waiting \cup ({running} \ {NULL})
  /\ (Range(r) \cup Range(d)) \cap Waiting = {}
  /\ running \notin Range(r) \cup Range(d) \cup Waiting

QueueInv == \E r, d \in TaskLists : Placed(r, d)

PcInv ==
  /\ running # NULL <=> pc = "poll"
  /\ cursor # NULL => pc \in {"drain", "poll"}

(* A TaskRef that can be spawned refers to a future; an unfinished task    *)
(* knows its executor, so that no wake of it is ignored.                   *)
HeaderInv ==
  /\ \A t \in prepared : fut[t] = "live"
  /\ \A t \in Live : bound[t]

(* The inductive invariant.                                                *)
IInv == TypeOK /\ PcInv /\ HeaderInv /\ QueueInv /\ PoolIntact /\ SpawnedExact

-----------------------------------------------------------------------------

(* Tasks are finitely many, and NULL is none of them.                      *)
LEMMA TaskFinite ==
  /\ IsFiniteSet(Slot) /\ IsFiniteSet(Task)
  /\ NULL \notin Slot /\ NULL \notin Task
  /\ Slot \subseteq Task /\ Boxed \subseteq Task
<1>1. IsFiniteSet(Slot)
  BY NAssumption, FS_Interval DEF Slot
<1>2. IsFiniteSet(Task)
  BY <1>1, BoxedAssumption, FS_Union DEF Task
<1>3. QED
  BY <1>1, <1>2, NULLAssumption DEF Task

(* A set of tasks is counted by a number that `spawned` can hold.          *)
LEMMA TaskCount ==
  ASSUME NEW L \in SUBSET Task
  PROVE  IsFiniteSet(L) /\ Cardinality(L) \in 0..Cardinality(Task)
<1>1. IsFiniteSet(L) /\ Cardinality(L) <= Cardinality(Task)
  BY TaskFinite, FS_Subset
<1>2. Cardinality(L) \in Nat /\ Cardinality(Task) \in Nat
  BY <1>1, TaskFinite, FS_CardinalityType
<1>3. QED
  BY <1>1, <1>2

(* The invariant holds before anything is spawned.                         *)
LEMMA InitInv == Init => IInv
<1> SUFFICES ASSUME Init PROVE IInv
  OBVIOUS
<1> USE DEF Init
<1>1. Live = {} /\ Waiting = {}
  BY DEF Live, Waiting
<1>2. SpawnedExact
  BY <1>1, FS_EmptySet DEF SpawnedExact
<1>3. TypeOK
  <2>1. Cardinality(Task) \in Nat
    BY TaskFinite, FS_CardinalityType
  <2>2. QED
    BY <2>1, NAssumption, MaxWaitsAssumption DEF TypeOK
<1>4. PcInv /\ HeaderInv
  BY <1>1 DEF PcInv, HeaderInv
<1>5. QueueInv
  <2>1. Placed(<<>>, <<>>)
    BY <1>1, TaskFinite, NullIsEmptyList DEF Placed
  <2>2. <<>> \in TaskLists
    BY TaskFinite, NullIsEmptyList DEF TaskLists
  <2>3. QED
    BY <2>1, <2>2 DEF QueueInv
<1>6. PoolIntact
  <2>1. <<>> \in Lists(Slot) /\ IsList(NULL, freeLink, <<>>) /\ Range(<<>>) = {}
    BY TaskFinite, NullIsEmptyList
  <2>2. Range(<<>>) = {s \in Slot : fut[s] = "dropped"}
    BY <2>1, TaskFinite
  <2>3. \A s \in Slot : fut[s] = "uninit" <=> s > exhausted
    BY TaskFinite, NAssumption DEF Slot
  <2>4. QED
    BY <2>1, <2>2, <2>3 DEF PoolIntact
<1>7. QED
  BY <1>2, <1>3, <1>4, <1>5, <1>6 DEF IInv

-----------------------------------------------------------------------------
(* What the steps have in common.                                          *)

(* Pushing a task that is in neither list.                                 *)
LEMMA EnqueueLists ==
  ASSUME TypeOK, NEW r \in TaskLists, NEW d \in TaskLists,
         IsList(head, link, r), IsList(cursor, link, d),
         NEW t \in Task, t \notin Range(r) \cup Range(d),
         Enqueue(t)
  PROVE  /\ Cons(t, r) \in TaskLists
         /\ IsList(head', link', Cons(t, r))
         /\ Range(Cons(t, r)) = Range(r) \cup {t}
         /\ IsList(cursor, link', d)
         /\ link' \in [Task -> Task \cup {NULL}]
         /\ head' \in Task
         /\ bound' \in [Task -> BOOLEAN]
         /\ bound'[t]
         /\ \A x \in Task : bound[x] => bound'[x]
<1>1. link \in [Task -> Task \cup {NULL}] /\ head \in Task \cup {NULL}
      /\ bound \in [Task -> BOOLEAN]
  BY DEF TypeOK
<1>2. /\ head' = t /\ link' = [link EXCEPT ![t] = head]
      /\ bound' = [bound EXCEPT ![t] = TRUE]
  BY DEF Enqueue
<1>3. /\ Cons(t, r) \in TaskLists
      /\ IsList(head', link', Cons(t, r))
      /\ Range(Cons(t, r)) = Range(r) \cup {t}
  <2>1. IsFiniteSet(Task) /\ NULL \notin Task /\ r \in Lists(Task)
        /\ t \notin Range(r)
        /\ link'[t] = head /\ \A x \in Task \ {t} : link'[x] = link[x]
    BY <1>1, <1>2, TaskFinite DEF TaskLists
  <2>2. /\ Cons(t, r) \in Lists(Task)
        /\ IsList(t, link', Cons(t, r))
        /\ Range(Cons(t, r)) = Range(r) \cup {t}
    BY <1>1, <2>1, ListPush
  <2>3. QED
    BY <1>2, <2>2 DEF TaskLists
<1>4. IsList(cursor, link', d)
  <2>1. IsList(cursor, [link EXCEPT ![t] = head], d)
    BY <1>1, TaskFinite, ListFrame DEF TaskLists
  <2>2. QED
    BY <1>2, <2>1
<1>5. QED
  BY <1>1, <1>2, <1>3, <1>4

(* The counter after a task joined or left the unfinished ones.            *)
LEMMA CountOneMore ==
  ASSUME SpawnedExact, NEW t \in Task, t \notin Live,
         Live' = Live \cup {t}, spawned' = spawned + 1
  PROVE  SpawnedExact' /\ spawned' \in 0..Cardinality(Task)
<1>1. Live \in SUBSET Task /\ Live' \in SUBSET Task
  BY DEF Live
<1>2. Cardinality(Live') = Cardinality(Live) + 1
  BY <1>1, TaskCount, FS_AddElement
<1>3. QED
  BY <1>1, <1>2, TaskCount DEF SpawnedExact

(* A task that finishes lowers the count by one.                           *)
LEMMA CountOneLess ==
  ASSUME SpawnedExact, NEW t \in Task, t \in Live,
         Live' = Live \ {t}, spawned' = spawned - 1
  PROVE  SpawnedExact' /\ spawned' \in 0..Cardinality(Task)
<1>1. Live \in SUBSET Task /\ Live' \in SUBSET Task
  BY DEF Live
<1>2. Cardinality(Live') = Cardinality(Live) - 1
  BY <1>1, TaskCount, FS_RemoveElement
<1>3. QED
  BY <1>1, <1>2, TaskCount DEF SpawnedExact

-----------------------------------------------------------------------------
(* One lemma per action.                                                   *)

(* prepare_task with a slot behind exhaust_list_cnt keeps it.              *)
LEMMA PrepareFreshInv == IInv /\ PrepareFresh => IInv'
<1> SUFFICES ASSUME IInv, PrepareFresh PROVE IInv'
  OBVIOUS
<1> DEFINE s == exhausted + 1
<1>1. TypeOK /\ PcInv /\ HeaderInv /\ QueueInv /\ PoolIntact /\ SpawnedExact
  BY DEF IInv
<1>2. /\ s \in Slot /\ s \in Task /\ exhausted' = s /\ exhausted \in Nat
      /\ fut' = [fut EXCEPT ![s] = "live"]
      /\ prepared' = prepared \cup {s}
      /\ UNCHANGED <<head, link, bound, cursor, spawned, running, pc, waits, freeHead, freeLink>>
  BY <1>1, NAssumption, TaskFinite
     DEF PrepareFresh, Prepare, TypeOK, Slot, queueVars
<1>3. fut[s] = "uninit" /\ fut \in [Task -> {"uninit", "live", "dropped"}]
  BY <1>1, <1>2 DEF PoolIntact, TypeOK
<1>4. Live' = Live /\ Waiting' = Waiting
  BY <1>2, <1>3 DEF Live, Waiting
<1>5. TypeOK'
  BY <1>1, <1>2, NAssumption DEF TypeOK, Slot
<1>6. PcInv' /\ HeaderInv'
  BY <1>1, <1>2, <1>3, <1>4 DEF PcInv, HeaderInv
<1>7. QueueInv'
  <2>1. PICK r, d \in TaskLists : Placed(r, d)
    BY <1>1 DEF QueueInv
  <2>2. Placed(r, d)'
    BY <1>2, <1>4, <2>1 DEF Placed
  <2>3. QED
    BY <2>2 DEF QueueInv, TaskLists
<1>8. PoolIntact'
  <2>1. PICK q \in Lists(Slot) : IsList(freeHead, freeLink, q)
                                 /\ Range(q) = {x \in Slot : fut[x] = "dropped"}
    BY <1>1 DEF PoolIntact
  <2>2. Range(q) = {x \in Slot : fut'[x] = "dropped"}
    BY <1>2, <1>3, <2>1, TaskFinite
  <2>3. ASSUME NEW x \in Slot PROVE fut'[x] = "uninit" <=> x > exhausted'
    <3>1. x \in Int /\ (fut[x] = "uninit" <=> x > exhausted)
      BY <1>1 DEF PoolIntact, Slot
    <3>2. QED
      BY <1>2, <1>3, <3>1, TaskFinite
  <2>4. QED
    BY <1>2, <2>1, <2>2, <2>3 DEF PoolIntact
<1>9. SpawnedExact'
  BY <1>1, <1>2, <1>4 DEF SpawnedExact
<1>10. QED
  BY <1>5, <1>6, <1>7, <1>8, <1>9 DEF IInv

(* prepare_task with a slot of the free list keeps it.                     *)
LEMMA PrepareReusedInv == IInv /\ PrepareReused => IInv'
<1> SUFFICES ASSUME IInv, PrepareReused PROVE IInv'
  OBVIOUS
<1> DEFINE s == freeHead
<1>1. TypeOK /\ PcInv /\ HeaderInv /\ QueueInv /\ PoolIntact /\ SpawnedExact
  BY DEF IInv
<1>2. /\ s \in Slot /\ s \in Task /\ s # NULL /\ freeHead' = freeLink[s]
      /\ fut' = [fut EXCEPT ![s] = "live"]
      /\ prepared' = prepared \cup {s}
      /\ UNCHANGED <<head, link, bound, cursor, spawned, running, pc, waits, freeLink, exhausted>>
  BY <1>1, TaskFinite
     DEF PrepareReused, Prepare, TypeOK, queueVars
<1>3. PICK q \in Lists(Slot) : IsList(freeHead, freeLink, q)
                               /\ Range(q) = {x \in Slot : fut[x] = "dropped"}
  BY <1>1 DEF PoolIntact
<1>4. /\ freeLink \in [Slot -> Slot \cup {NULL}]
      /\ fut \in [Task -> {"uninit", "live", "dropped"}]
  BY <1>1 DEF TypeOK
<1>5. /\ s \in Range(q) /\ Tail(q) \in Lists(Slot)
      /\ IsList(freeLink[s], freeLink, Tail(q))
      /\ Range(Tail(q)) = Range(q) \ {s}
  BY <1>2, <1>3, <1>4, TaskFinite, ListPop
<1>6. fut[s] = "dropped"
  BY <1>3, <1>5
<1>7. Live' = Live /\ Waiting' = Waiting
  BY <1>2, <1>4, <1>6 DEF Live, Waiting
<1>8. TypeOK'
  BY <1>1, <1>2, <1>4 DEF TypeOK
<1>9. PcInv' /\ HeaderInv'
  BY <1>1, <1>2, <1>4, <1>7 DEF PcInv, HeaderInv
<1>10. QueueInv'
  <2>1. PICK r, d \in TaskLists : Placed(r, d)
    BY <1>1 DEF QueueInv
  <2>2. Placed(r, d)'
    BY <1>2, <1>7, <2>1 DEF Placed
  <2>3. QED
    BY <2>2 DEF QueueInv, TaskLists
<1>11. PoolIntact'
  <2>1. Range(Tail(q)) = {x \in Slot : fut'[x] = "dropped"}
    BY <1>2, <1>3, <1>4, <1>5, TaskFinite
  <2>2. \A x \in Slot : fut'[x] = "uninit" <=> fut[x] = "uninit"
    BY <1>2, <1>4, <1>6, TaskFinite
  <2>3. \A x \in Slot : fut'[x] = "uninit" <=> x > exhausted'
    BY <1>1, <1>2, <2>2 DEF PoolIntact
  <2>4. QED
    BY <1>2, <1>5, <2>1, <2>3 DEF PoolIntact
<1>12. SpawnedExact'
  BY <1>1, <1>2, <1>7 DEF SpawnedExact
<1>13. QED
  BY <1>8, <1>9, <1>10, <1>11, <1>12 DEF IInv

(* Executor::spawn_task keeps it.                                          *)
LEMMA SpawnTaskInv == \A t \in Slot : IInv /\ SpawnTask(t) => IInv'
<1> SUFFICES ASSUME NEW t \in Slot, IInv, SpawnTask(t) PROVE IInv'
  OBVIOUS
<1>1. TypeOK /\ PcInv /\ HeaderInv /\ QueueInv /\ PoolIntact /\ SpawnedExact
  BY DEF IInv
<1>2. /\ t \in Task /\ t \in prepared /\ fut[t] = "live"
      /\ prepared' = prepared \ {t} /\ spawned' = spawned + 1 /\ Enqueue(t)
      /\ UNCHANGED <<cursor, freeHead, freeLink, exhausted, fut, running, pc, waits>>
  BY <1>1, TaskFinite DEF SpawnTask, poolVars, HeaderInv
<1>3. t \notin Live /\ Live' = Live \cup {t} /\ Waiting' = Waiting
  BY <1>2 DEF Live, Waiting
<1>4. PICK r, d \in TaskLists : Placed(r, d)
  BY <1>1 DEF QueueInv
<1>5. t \notin Range(r) \cup Range(d) \cup Waiting /\ t # running
  BY <1>2, <1>3, <1>4, TaskFinite DEF Placed
<1>6. /\ Cons(t, r) \in TaskLists
      /\ IsList(head', link', Cons(t, r))
      /\ Range(Cons(t, r)) = Range(r) \cup {t}
      /\ IsList(cursor, link', d)
      /\ link' \in [Task -> Task \cup {NULL}]
      /\ head' \in Task
      /\ bound' \in [Task -> BOOLEAN]
      /\ bound'[t] /\ \A x \in Task : bound[x] => bound'[x]
  BY <1>1, <1>2, <1>4, <1>5, EnqueueLists DEF Placed
<1>7. SpawnedExact' /\ spawned' \in 0..Cardinality(Task)
  BY <1>1, <1>2, <1>3, CountOneMore
<1>8. TypeOK'
  BY <1>1, <1>2, <1>6, <1>7 DEF TypeOK
<1>9. PcInv' /\ HeaderInv'
  BY <1>1, <1>2, <1>3, <1>6 DEF PcInv, HeaderInv, Live
<1>10. QueueInv'
  <2>1. Placed(Cons(t, r), d)'
    BY <1>2, <1>3, <1>4, <1>5, <1>6 DEF Placed
  <2>2. QED
    BY <1>6, <2>1 DEF QueueInv, TaskLists
<1>11. PoolIntact'
  BY <1>1, <1>2 DEF PoolIntact
<1>12. QED
  BY <1>7, <1>8, <1>9, <1>10, <1>11 DEF IInv

(* PerThreadExecutor::spawn keeps it.                                      *)
LEMMA SpawnBoxedInv == \A b \in Boxed : IInv /\ SpawnBoxed(b) => IInv'
<1> SUFFICES ASSUME NEW b \in Boxed, IInv, SpawnBoxed(b) PROVE IInv'
  OBVIOUS
<1>1. TypeOK /\ PcInv /\ HeaderInv /\ QueueInv /\ PoolIntact /\ SpawnedExact
  BY DEF IInv
<1>2. /\ b \in Task /\ b \notin Slot /\ fut[b] = "uninit"
      /\ fut' = [fut EXCEPT ![b] = "live"] /\ spawned' = spawned + 1 /\ Enqueue(b)
      /\ UNCHANGED <<cursor, freeHead, freeLink, exhausted, running, pc, prepared, waits>>
  BY <1>1, TaskFinite, BoxedAssumption DEF SpawnBoxed, poolVars
<1>3. /\ b \notin prepared /\ fut \in [Task -> {"uninit", "live", "dropped"}]
      /\ \A s \in Slot : fut'[s] = fut[s]
  BY <1>1, <1>2, TaskFinite DEF TypeOK
<1>4. b \notin Live /\ Live' = Live \cup {b} /\ Waiting' = Waiting
  BY <1>2, <1>3 DEF Live, Waiting
<1>5. PICK r, d \in TaskLists : Placed(r, d)
  BY <1>1 DEF QueueInv
<1>6. b \notin Range(r) \cup Range(d) \cup Waiting /\ b # running
  BY <1>2, <1>4, <1>5, TaskFinite DEF Placed
<1>7. /\ Cons(b, r) \in TaskLists
      /\ IsList(head', link', Cons(b, r))
      /\ Range(Cons(b, r)) = Range(r) \cup {b}
      /\ IsList(cursor, link', d)
      /\ link' \in [Task -> Task \cup {NULL}]
      /\ head' \in Task
      /\ bound' \in [Task -> BOOLEAN]
      /\ bound'[b] /\ \A x \in Task : bound[x] => bound'[x]
  BY <1>1, <1>2, <1>5, <1>6, EnqueueLists DEF Placed
<1>8. SpawnedExact' /\ spawned' \in 0..Cardinality(Task)
  BY <1>1, <1>2, <1>4, CountOneMore
<1>9. TypeOK'
  BY <1>1, <1>2, <1>7, <1>8 DEF TypeOK
<1>10. PcInv' /\ HeaderInv'
  BY <1>1, <1>2, <1>3, <1>4, <1>7 DEF PcInv, HeaderInv, TypeOK, Live
<1>11. QueueInv'
  <2>1. Placed(Cons(b, r), d)'
    BY <1>2, <1>4, <1>5, <1>6, <1>7 DEF Placed
  <2>2. QED
    BY <1>7, <2>1 DEF QueueInv, TaskLists
<1>12. PoolIntact'
  BY <1>1, <1>2, <1>3 DEF PoolIntact
<1>13. QED
  BY <1>8, <1>9, <1>10, <1>11, <1>12 DEF IInv

(* A wake keeps it: the woken task was in neither list.                    *)
LEMMA WakeByRefInv ==
  ASSUME MaxWaits = 1
  PROVE  \A t \in Task : IInv /\ WakeByRef(t) => IInv'
<1> SUFFICES ASSUME NEW t \in Task, IInv, WakeByRef(t) PROVE IInv'
  OBVIOUS
<1>1. TypeOK /\ PcInv /\ HeaderInv /\ QueueInv /\ PoolIntact /\ SpawnedExact
  BY DEF IInv
<1>0. PICK r, d \in TaskLists : Placed(r, d)
  BY <1>1 DEF QueueInv
<1>2. /\ waits[t] > 0 /\ bound[t]
      /\ waits' = [waits EXCEPT ![t] = waits[t] - 1] /\ Enqueue(t)
      /\ UNCHANGED <<cursor, freeHead, freeLink, exhausted, fut, spawned, running, pc, prepared>>
  <2>1. waits[t] > 0 /\ t \in Waiting /\ t \in Live
    BY <1>0 DEF WakeByRef, Waiting, Placed
  <2>2. QED
    BY <1>1, <2>1 DEF WakeByRef, poolVars, HeaderInv
<1>3. waits \in [Task -> 0..1] /\ waits' \in [Task -> 0..1] /\ waits'[t] = 0
      /\ \A x \in Task \ {t} : waits'[x] = waits[x]
  BY <1>1, <1>2 DEF TypeOK
<1>4. t \in Waiting /\ Live' = Live /\ Waiting' = Waiting \ {t}
  BY <1>2, <1>3 DEF Live, Waiting
<1>6. t \notin Range(r) \cup Range(d) /\ t # running
  BY <1>4, <1>0 DEF Placed
<1>7. /\ Cons(t, r) \in TaskLists
      /\ IsList(head', link', Cons(t, r))
      /\ Range(Cons(t, r)) = Range(r) \cup {t}
      /\ IsList(cursor, link', d)
      /\ link' \in [Task -> Task \cup {NULL}]
      /\ head' \in Task
      /\ bound' \in [Task -> BOOLEAN]
      /\ \A x \in Task : bound[x] => bound'[x]
  BY <1>1, <1>2, <1>0, <1>6, EnqueueLists DEF Placed
<1>8. TypeOK'
  BY <1>1, <1>2, <1>3, <1>7 DEF TypeOK
<1>9. PcInv' /\ HeaderInv'
  BY <1>1, <1>2, <1>4, <1>7 DEF PcInv, HeaderInv, Live
<1>10. QueueInv'
  <2>1. Placed(Cons(t, r), d)'
    BY <1>2, <1>4, <1>0, <1>6, <1>7 DEF Placed
  <2>2. QED
    BY <1>7, <2>1 DEF QueueInv, TaskLists
<1>11. PoolIntact' /\ SpawnedExact'
  BY <1>1, <1>2, <1>4 DEF PoolIntact, SpawnedExact
<1>12. QED
  BY <1>8, <1>9, <1>10, <1>11 DEF IInv

(* Taking the queue, by the first drain of run or by a later one.          *)
LEMMA BeginDrainInv ==
  ASSUME IInv, pc \in {"user", "post"}, BeginDrain,
         UNCHANGED <<link, bound, poolVars, fut, spawned, running, prepared, waits>>
  PROVE  IInv'
<1>1. TypeOK /\ PcInv /\ HeaderInv /\ QueueInv /\ PoolIntact /\ SpawnedExact
  BY DEF IInv
<1>2. /\ cursor = NULL /\ running = NULL
      /\ cursor' = head /\ head' = NULL /\ pc' = "drain"
      /\ UNCHANGED <<link, bound, freeHead, freeLink, exhausted, fut, spawned, running, prepared, waits>>
  BY <1>1 DEF BeginDrain, PcInv, poolVars
<1>3. Live' = Live /\ Waiting' = Waiting
  BY <1>2 DEF Live, Waiting
<1>4. TypeOK' /\ PcInv' /\ HeaderInv'
  BY <1>1, <1>2, <1>3 DEF TypeOK, PcInv, HeaderInv
<1>5. QueueInv'
  <2>1. PICK r, d \in TaskLists : Placed(r, d)
    BY <1>1 DEF QueueInv
  <2>2. Range(d) = {}
    BY <1>2, <2>1, TaskFinite, ListAtNull DEF Placed, TaskLists
  <2>3. <<>> \in TaskLists /\ IsList(NULL, link, <<>>) /\ Range(<<>>) = {}
    BY TaskFinite, NullIsEmptyList DEF TaskLists
  <2>4. Placed(<<>>, r)'
    BY <1>2, <1>3, <2>1, <2>2, <2>3 DEF Placed
  <2>5. QED
    BY <2>1, <2>3, <2>4 DEF QueueInv, TaskLists
<1>6. PoolIntact' /\ SpawnedExact'
  BY <1>1, <1>2, <1>3 DEF PoolIntact, SpawnedExact
<1>7. QED
  BY <1>4, <1>5, <1>6 DEF IInv

(* Taking the first task of the batch keeps it.                            *)
LEMMA DrainTakeInv == IInv /\ DrainTake => IInv'
<1> SUFFICES ASSUME IInv, DrainTake PROVE IInv'
  OBVIOUS
<1> DEFINE t == cursor
<1>1. TypeOK /\ PcInv /\ HeaderInv /\ QueueInv /\ PoolIntact /\ SpawnedExact
  BY DEF IInv
<1>2. /\ t # NULL /\ t \in Task /\ running = NULL /\ running' = t
      /\ cursor' = link[t] /\ link' = [link EXCEPT ![t] = NULL] /\ pc' = "poll"
      /\ UNCHANGED <<head, bound, freeHead, freeLink, exhausted, fut, spawned, prepared, waits>>
  BY <1>1 DEF DrainTake, TypeOK, PcInv, poolVars
<1>3. link \in [Task -> Task \cup {NULL}]
  BY <1>1 DEF TypeOK
<1>4. Live' = Live /\ Waiting' = Waiting
  BY <1>2 DEF Live, Waiting
<1>5. PICK r, d \in TaskLists : Placed(r, d)
  BY <1>1 DEF QueueInv
<1>6. /\ t \in Range(d) /\ Tail(d) \in TaskLists
      /\ IsList(link[t], link, Tail(d))
      /\ Range(Tail(d)) = Range(d) \ {t}
  BY <1>2, <1>3, <1>5, TaskFinite, ListPop DEF TaskLists, Placed
<1>7. IsList(head, link', r) /\ IsList(cursor', link', Tail(d))
  <2>1. t \in Task \ Range(r) /\ t \in Task \ Range(Tail(d))
    BY <1>2, <1>5, <1>6 DEF Placed
  <2>2. IsList(head, [link EXCEPT ![t] = NULL], r)
    BY <1>3, <1>5, <2>1, TaskFinite, ListFrame DEF Placed, TaskLists
  <2>3. IsList(link[t], [link EXCEPT ![t] = NULL], Tail(d))
    BY <1>3, <1>6, <2>1, TaskFinite, ListFrame DEF TaskLists
  <2>4. QED
    BY <1>2, <2>2, <2>3
<1>8. TypeOK' /\ PcInv' /\ HeaderInv'
  BY <1>1, <1>2, <1>3, <1>4, TaskFinite DEF TypeOK, PcInv, HeaderInv
<1>9. QueueInv'
  <2>1. Placed(r, Tail(d))'
    BY <1>2, <1>4, <1>5, <1>6, <1>7 DEF Placed
  <2>2. QED
    BY <1>5, <1>6, <2>1 DEF QueueInv, TaskLists
<1>10. PoolIntact' /\ SpawnedExact'
  BY <1>1, <1>2, <1>4 DEF PoolIntact, SpawnedExact
<1>11. QED
  BY <1>8, <1>9, <1>10 DEF IInv

(* A poll that is ready keeps it: the slot joins the free list.            *)
LEMMA PollReadyInv == IInv /\ PollReady => IInv'
<1> SUFFICES ASSUME IInv, PollReady PROVE IInv'
  OBVIOUS
<1> DEFINE t == running
<1>1. TypeOK /\ PcInv /\ HeaderInv /\ QueueInv /\ PoolIntact /\ SpawnedExact
  BY DEF IInv
<1>2. /\ t # NULL /\ t \in Task /\ running' = NULL /\ pc = "poll" /\ pc' = "drain"
      /\ fut' = [fut EXCEPT ![t] = "dropped"] /\ FreeSlot(t) /\ spawned' = spawned - 1
      /\ UNCHANGED <<head, link, bound, cursor, exhausted, prepared, waits>>
  BY <1>1 DEF PollReady, EndPoll, PcInv, TypeOK, queueVars
<1>3. fut \in [Task -> {"uninit", "live", "dropped"}] /\ prepared \in SUBSET Slot
      /\ freeLink \in [Slot -> Slot \cup {NULL}] /\ freeHead \in Slot \cup {NULL}
  BY <1>1 DEF TypeOK
<1>4. PICK r, d \in TaskLists : Placed(r, d)
  BY <1>1 DEF QueueInv
<1>5. t \in Live /\ fut[t] = "live" /\ t \notin prepared
  BY <1>2, <1>4 DEF Placed, Live
<1>6. Live' = Live \ {t} /\ Waiting' = Waiting
  BY <1>2, <1>3, <1>5 DEF Live, Waiting
<1>7. SpawnedExact' /\ spawned' \in 0..Cardinality(Task)
  BY <1>1, <1>2, <1>5, <1>6, CountOneLess
<1>8. freeHead' \in Slot \cup {NULL} /\ freeLink' \in [Slot -> Slot \cup {NULL}]
  BY <1>2, <1>3 DEF FreeSlot
<1>9. TypeOK'
  BY <1>1, <1>2, <1>3, <1>7, <1>8 DEF TypeOK
<1>10. PcInv' /\ HeaderInv'
  BY <1>1, <1>2, <1>3, <1>5, <1>6, TaskFinite DEF PcInv, HeaderInv
<1>11. QueueInv'
  <2>0. NULL \notin Range(r) \cup Range(d) \cup Waiting
    <3>1. NULL \notin Live
      BY TaskFinite DEF Live
    <3>2. QED
      BY <3>1, <1>4 DEF Placed
  <2>1. Placed(r, d)'
    BY <1>2, <1>4, <1>6, <2>0 DEF Placed
  <2>2. QED
    BY <1>4, <2>1 DEF QueueInv, TaskLists
<1>12. PoolIntact'
  <2>1. PICK q \in Lists(Slot) : IsList(freeHead, freeLink, q)
                                 /\ Range(q) = {x \in Slot : fut[x] = "dropped"}
    BY <1>1 DEF PoolIntact
  <2>2. \A x \in Slot : fut'[x] = "uninit" <=> x > exhausted'
    <3>1. \A x \in Slot : fut'[x] = "uninit" <=> fut[x] = "uninit"
      BY <1>2, <1>3, <1>5, TaskFinite
    <3>2. QED
      BY <1>1, <1>2, <3>1 DEF PoolIntact
  <2>3. CASE t \notin Slot
    <3>1. Range(q) = {x \in Slot : fut'[x] = "dropped"}
      BY <1>2, <1>3, <2>1, <2>3, TaskFinite
    <3>2. IsList(freeHead', freeLink', q)
      BY <1>2, <2>1, <2>3 DEF FreeSlot
    <3>3. QED
      BY <2>2, <3>1, <3>2 DEF PoolIntact
  <2>4. CASE t \in Slot
    <3>1. t \notin Range(q)
      BY <1>5, <2>1
    <3>2. freeHead' = t /\ freeLink'[t] = freeHead
          /\ \A x \in Slot \ {t} : freeLink'[x] = freeLink[x]
      BY <1>2, <1>3, <2>4 DEF FreeSlot
    <3>3. IsFiniteSet(Slot) /\ NULL \notin Slot
      BY TaskFinite
    <3>4. /\ Cons(t, q) \in Lists(Slot)
          /\ IsList(t, freeLink', Cons(t, q))
          /\ Range(Cons(t, q)) = Range(q) \cup {t}
      BY <1>3, <2>1, <2>4, <3>1, <3>2, <3>3, ListPush
    <3>5. Range(Cons(t, q)) = {x \in Slot : fut'[x] = "dropped"}
      BY <1>2, <1>3, <2>1, <2>4, <3>4, TaskFinite
    <3>6. QED
      BY <2>2, <3>2, <3>4, <3>5 DEF PoolIntact
  <2>5. QED
    BY <2>3, <2>4
<1>13. QED
  BY <1>7, <1>9, <1>10, <1>11, <1>12 DEF IInv

(* A poll that is pending keeps it: the task becomes a waiting one.        *)
LEMMA PollPendingInv ==
  ASSUME MaxWaits = 1
  PROVE  IInv /\ PollPending => IInv'
<1> SUFFICES ASSUME IInv, PollPending PROVE IInv'
  OBVIOUS
<1> DEFINE t == running
<1>1. TypeOK /\ PcInv /\ HeaderInv /\ QueueInv /\ PoolIntact /\ SpawnedExact
  BY DEF IInv
<1>2. /\ t # NULL /\ t \in Task /\ running' = NULL /\ pc = "poll" /\ pc' = "drain"
      /\ waits' = [waits EXCEPT ![t] = 1]
      /\ UNCHANGED <<head, link, bound, cursor, freeHead, freeLink, exhausted, fut, spawned, prepared>>
  BY <1>1 DEF PollPending, EndPoll, PcInv, TypeOK, queueVars, poolVars
<1>3. waits \in [Task -> 0..1]
  BY <1>1 DEF TypeOK
<1>4. Live' = Live /\ Waiting' = Waiting \cup {t}
  BY <1>2, <1>3 DEF Live, Waiting
<1>5. PICK r, d \in TaskLists : Placed(r, d)
  BY <1>1 DEF QueueInv
<1>6. TypeOK' /\ PcInv'
  BY <1>1, <1>2, <1>3 DEF TypeOK, PcInv
<1>7. HeaderInv'
  BY <1>1, <1>2, <1>4 DEF HeaderInv
<1>8. QueueInv'
  <2>0. NULL \notin Range(r) \cup Range(d) \cup Waiting
    <3>1. NULL \notin Live
      BY TaskFinite DEF Live
    <3>2. QED
      BY <3>1, <1>5 DEF Placed
  <2>1. Placed(r, d)'
    BY <1>2, <1>4, <1>5, <2>0 DEF Placed
  <2>2. QED
    BY <1>5, <2>1 DEF QueueInv, TaskLists
<1>9. PoolIntact' /\ SpawnedExact'
  BY <1>1, <1>2, <1>4 DEF PoolIntact, SpawnedExact
<1>10. QED
  BY <1>6, <1>7, <1>8, <1>9 DEF IInv

(* A poll that wakes its own task keeps it.                                *)
LEMMA PollYieldInv == IInv /\ PollYield => IInv'
<1> SUFFICES ASSUME IInv, PollYield PROVE IInv'
  OBVIOUS
<1>1. TypeOK /\ PcInv /\ HeaderInv /\ QueueInv /\ PoolIntact /\ SpawnedExact
  BY DEF IInv
<1>2. PICK t \in Task :
      /\ t = running /\ t # NULL /\ running' = NULL /\ pc = "poll" /\ pc' = "drain"
      /\ Enqueue(t)
      /\ UNCHANGED <<cursor, freeHead, freeLink, exhausted, fut, spawned, prepared, waits>>
  BY <1>1 DEF PollYield, EndPoll, PcInv, TypeOK, poolVars
<1>3. Live' = Live /\ Waiting' = Waiting
  BY <1>2 DEF Live, Waiting
<1>4. PICK r, d \in TaskLists : Placed(r, d)
  BY <1>1 DEF QueueInv
<1>5. t \notin Range(r) \cup Range(d) \cup Waiting
  BY <1>2, <1>4 DEF Placed
<1>6. /\ Cons(t, r) \in TaskLists
      /\ IsList(head', link', Cons(t, r))
      /\ Range(Cons(t, r)) = Range(r) \cup {t}
      /\ IsList(cursor, link', d)
      /\ link' \in [Task -> Task \cup {NULL}]
      /\ head' \in Task
      /\ bound' \in [Task -> BOOLEAN]
      /\ \A x \in Task : bound[x] => bound'[x]
  BY <1>1, <1>2, <1>4, <1>5, EnqueueLists DEF Placed
<1>7. TypeOK'
  BY <1>1, <1>2, <1>6 DEF TypeOK
<1>8. PcInv' /\ HeaderInv'
  BY <1>1, <1>2, <1>3, <1>6 DEF PcInv, HeaderInv, Live
<1>9. QueueInv'
  <2>0. NULL \notin Range(r) \cup Range(d) \cup Waiting
    <3>1. NULL \notin Live
      BY TaskFinite DEF Live
    <3>2. QED
      BY <3>1, <1>4 DEF Placed
  <2>1. Placed(Cons(t, r), d)'
    BY <1>2, <1>3, <1>4, <1>5, <1>6, <2>0 DEF Placed
  <2>2. QED
    BY <1>6, <2>1 DEF QueueInv, TaskLists
<1>10. PoolIntact' /\ SpawnedExact'
  BY <1>1, <1>2, <1>3 DEF PoolIntact, SpawnedExact
<1>11. QED
  BY <1>7, <1>8, <1>9, <1>10 DEF IInv

(* Steps that only move the thread on: the end of a batch, the return.     *)
LEMMA MovePcInv ==
  ASSUME IInv, pc # "poll", pc' \in {"user", "post"}, cursor = NULL,
         UNCHANGED <<queueVars, cursor, poolVars, fut, spawned, running, prepared, waits>>
  PROVE  IInv'
<1>1. TypeOK /\ PcInv /\ HeaderInv /\ QueueInv /\ PoolIntact /\ SpawnedExact
  BY DEF IInv
<1>2. UNCHANGED <<head, link, bound, cursor, freeHead, freeLink, exhausted, fut, spawned, running, prepared, waits>>
  BY DEF queueVars, poolVars
<1>3. Live' = Live /\ Waiting' = Waiting
  BY <1>2 DEF Live, Waiting
<1>4. TypeOK' /\ PcInv' /\ HeaderInv'
  BY <1>1, <1>2, <1>3 DEF TypeOK, PcInv, HeaderInv
<1>5. QueueInv'
  <2>1. PICK r, d \in TaskLists : Placed(r, d)
    BY <1>1 DEF QueueInv
  <2>2. Placed(r, d)'
    BY <1>2, <1>3, <2>1 DEF Placed
  <2>3. QED
    BY <2>2 DEF QueueInv, TaskLists
<1>6. PoolIntact' /\ SpawnedExact'
  BY <1>1, <1>2, <1>3 DEF PoolIntact, SpawnedExact
<1>7. QED
  BY <1>4, <1>5, <1>6 DEF IInv

-----------------------------------------------------------------------------

(* So does a step that changes nothing.                                    *)
LEMMA StutterInv == IInv /\ UNCHANGED vars => IInv'
<1> SUFFICES ASSUME IInv, UNCHANGED vars PROVE IInv'
  OBVIOUS
<1>1. UNCHANGED <<head, link, bound, cursor, freeHead, freeLink, exhausted, fut, spawned, running, pc, prepared, waits>>
  BY DEF vars, queueVars, poolVars
<1>2. Live' = Live /\ Waiting' = Waiting
  BY <1>1 DEF Live, Waiting
<1>3. TypeOK' /\ PcInv' /\ HeaderInv'
  BY <1>1, <1>2 DEF IInv, TypeOK, PcInv, HeaderInv
<1>4. QueueInv'
  <2>1. PICK r, d \in TaskLists : Placed(r, d)
    BY DEF IInv, QueueInv
  <2>2. Placed(r, d)'
    BY <1>1, <1>2, <2>1 DEF Placed
  <2>3. QED
    BY <2>2 DEF QueueInv, TaskLists
<1>5. PoolIntact' /\ SpawnedExact'
  BY <1>1, <1>2 DEF IInv, PoolIntact, SpawnedExact
<1>6. QED
  BY <1>3, <1>4, <1>5 DEF IInv

(* Every step keeps the invariant.                                         *)
LEMMA StepInv ==
  ASSUME MaxWaits = 1
  PROVE  IInv /\ [Next]_vars => IInv'
<1> SUFFICES ASSUME IInv, [Next]_vars PROVE IInv'
  OBVIOUS
<1>1. CASE PrepareFresh
  BY <1>1, PrepareFreshInv
<1>2. CASE PrepareReused
  BY <1>2, PrepareReusedInv
<1>3. CASE \E t \in Slot : SpawnTask(t)
  BY <1>3, SpawnTaskInv
<1>4. CASE \E b \in Boxed : SpawnBoxed(b)
  BY <1>4, SpawnBoxedInv
<1>5. CASE \E t \in Task : WakeByRef(t)
  BY <1>5, WakeByRefInv
<1>6. CASE Run
  BY <1>6, BeginDrainInv DEF Run
<1>7. CASE DrainTake
  BY <1>7, DrainTakeInv
<1>8. CASE PollReady
  BY <1>8, PollReadyInv
<1>9. CASE PollPending
  BY <1>9, PollPendingInv
<1>10. CASE PollYield
  BY <1>10, PollYieldInv
<1>11. CASE DrainDone
  BY <1>11, MovePcInv DEF DrainDone
<1>12. CASE LoopAgain
  BY <1>12, BeginDrainInv DEF LoopAgain
<1>13. CASE ReturnFromRun
  <2>1. cursor = NULL
    BY <1>13 DEF ReturnFromRun, IInv, PcInv
  <2>2. QED
    BY <1>13, <2>1, MovePcInv DEF ReturnFromRun
<1>14. CASE UNCHANGED vars
  BY <1>14, StutterInv
<1>15. QED
  BY <1>1, <1>2, <1>3, <1>4, <1>5, <1>6, <1>7, <1>8, <1>9, <1>10, <1>11,
     <1>12, <1>13, <1>14 DEF Next

(* The pointers denote the lists that the invariant speaks of.             *)
LEMMA ListsDenoted ==
  ASSUME NEW r \in TaskLists, NEW d \in TaskLists, Placed(r, d)
  PROVE  ListAt(head) = r /\ ListAt(cursor) = d /\ Queued = Range(r) \cup Range(d)
<1>1. ASSUME NEW h, NEW p \in TaskLists, IsList(h, link, p)
      PROVE  ListAt(h) = p
  <2>1. ListAt(h) \in TaskLists /\ IsList(h, link, ListAt(h))
    BY <1>1 DEF ListAt
  <2>2. QED
    BY <1>1, <2>1, TaskFinite, ListUnique DEF TaskLists
<1>2. ListAt(head) = r /\ ListAt(cursor) = d
  BY <1>1 DEF Placed
<1>3. QED
  BY <1>2 DEF Queued

(* The invariant implies the safety invariants of the runs.                *)
LEMMA InvImplies == IInv => TypeOK /\ QueueIntact /\ EachTaskOnce /\ SpawnedExact /\ PoolIntact
<1> SUFFICES ASSUME IInv PROVE QueueIntact /\ EachTaskOnce
  BY DEF IInv
<1>1. PICK r, d \in TaskLists : Placed(r, d)
  BY DEF IInv, QueueInv
<1>2. QueueIntact
  BY <1>1 DEF QueueIntact, Placed
<1>3. Queued = Range(r) \cup Range(d)
  BY <1>1, ListsDenoted
<1>4. EachTaskOnce
  BY <1>1, <1>3 DEF EachTaskOnce, Placed
<1>5. QED
  BY <1>2, <1>4

-----------------------------------------------------------------------------
(* The inductive invariant holds in every reachable state.                 *)
THEOREM Invariance ==
  ASSUME MaxWaits = 1
  PROVE  SafeSpec => []IInv
<1>1. Init => IInv
  BY InitInv
<1>2. IInv /\ [Next]_vars => IInv'
  BY StepInv
<1>3. QED
  BY <1>1, <1>2, PTL DEF SafeSpec

(* Every variable keeps its type; `spawned` does not wrap below zero       *)
(* (lib.rs:309) whatever is spawned, woken and finished.                   *)
THEOREM TypeCorrect ==
  ASSUME MaxWaits = 1
  PROVE  SafeSpec => []TypeOK
<1>1. IInv => TypeOK
  BY InvImplies
<1>2. QED
  BY <1>1, Invariance, PTL

(* The run queue and the rest of the batch stay two disjoint proper lists  *)
(* under all interleavings of pushes and pops (queue.rs:52-57, 65-80).     *)
THEOREM QueueStaysIntact ==
  ASSUME MaxWaits = 1
  PROVE  SafeSpec => []QueueIntact
<1>1. IInv => QueueIntact
  BY InvImplies
<1>2. QED
  BY <1>1, Invariance, PTL

(* No task is lost and none is polled that has no future to poll           *)
(* (lib.rs:284-321).                                                       *)
THEOREM NoTaskLost ==
  ASSUME MaxWaits = 1
  PROVE  SafeSpec => []EachTaskOnce
<1>1. IInv => EachTaskOnce
  BY InvImplies
<1>2. QED
  BY <1>1, Invariance, PTL

(* `spawned` counts the unfinished tasks (lib.rs:275-278, 306-309).        *)
THEOREM CountExact ==
  ASSUME MaxWaits = 1
  PROVE  SafeSpec => []SpawnedExact
<1>1. IInv => SpawnedExact
  BY InvImplies
<1>2. QED
  BY <1>1, Invariance, PTL

(* The free list holds the finished slots, once each (lib.rs:201-248).     *)
THEOREM PoolStaysIntact ==
  ASSUME MaxWaits = 1
  PROVE  SafeSpec => []PoolIntact
<1>1. IInv => PoolIntact
  BY InvImplies
<1>2. QED
  BY <1>1, Invariance, PTL

(* run returns only when no task is queued, waiting or unfinished.         *)
THEOREM RunAbandonsNothing ==
  ASSUME MaxWaits = 1
  PROVE  SafeSpec => RunReturnsIdle
<1>1. ASSUME IInv, [Next]_vars
      PROVE  [pc # "user" /\ pc' = "user" => head = NULL /\ Live = {} /\ Waiting = {}]_vars
  <2> SUFFICES ASSUME Next, pc # "user", pc' = "user"
               PROVE  head = NULL /\ Live = {} /\ Waiting = {}
    BY <1>1
  <2>1. spawned = 0
    BY DEF Next, PrepareFresh, PrepareReused, Prepare, SpawnTask, SpawnBoxed, WakeByRef,
           Run, BeginDrain, DrainTake, PollReady, PollPending, PollYield, EndPoll,
           DrainDone, LoopAgain, ReturnFromRun
  <2>2. Live = {}
    <3>1. IsFiniteSet(Live)
      BY TaskCount DEF Live
    <3>2. QED
      BY <1>1, <2>1, <3>1, FS_EmptySet DEF IInv, SpawnedExact
  <2>3. PICK r, d \in TaskLists : Placed(r, d)
    BY <1>1 DEF IInv, QueueInv
  <2>4. Waiting = {} /\ Range(r) = {}
    BY <2>2, <2>3 DEF Placed
  <2>5. head = NULL
    <3>1. link \in [Task -> Task \cup {NULL}]
      BY <1>1 DEF IInv, TypeOK
    <3>2. ASSUME head # NULL PROVE FALSE
      BY <2>3, <2>4, <3>1, <3>2, TaskFinite, ListPop DEF Placed, TaskLists
    <3>3. QED
      BY <3>2
  <2>6. QED
    BY <2>2, <2>4, <2>5
<1>2. QED
  BY <1>1, Invariance, PTL DEF SafeSpec, RunReturnsIdle

==============================================================================
