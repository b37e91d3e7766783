--------------------------- MODULE EchoServerProofs ---------------------------
(***************************************************************************)
(* What is proved of the echo server, for any number of threads, slots,    *)
(* descriptors and peers.  The types and GInv hold wherever the task       *)
(* function is declared.  The other theorems are about a pool per thread,  *)
(* which is what a task function inside of a replicated entry function     *)
(* has; run echo_shared shows what a shared pool does.                     *)
(***************************************************************************)
EXTENDS EchoServer, IntrusiveListProofs

PoolPrivate == \A a, b \in Thread : PoolOf[a] = PoolOf[b] => a = b

-----------------------------------------------------------------------------
(* The inductive invariant.                                                *)

(* What a thread has in its hands where it is.                             *)
StepInv ==
  \A th \in Thread :
    /\ step[th] \in {"fresh", "pop"} => server[th] = "hold" /\ local[th] # NULL
    /\ step[th] \in {"push", "link"} <=> freeing[th] # NULL
    /\ held[th] # NULL <=> server[th] \in {"hold", "yield"}
    /\ server[th] \in {"unborn", "spawn", "socket"} => listener[th] = NULL

(* Descriptors and peers: who holds one is right about it, and no peer is  *)
(* held or waiting twice.                                                  *)
OwnersInv ==
  /\ \A th \in Thread : listener[th] # NULL => fdTable[listener[th]] = th
  /\ \A f \in Fd : fdTable[f] \in Thread => listener[fdTable[f]] = f
  /\ \A h \in Holders : fdTable[HeldBy(h).fd] = HeldBy(h).conn
  /\ \A g, h \in Holders : HeldBy(g).conn = HeldBy(h).conn => g = h
  /\ \A h \in Holders : net[HeldBy(h).conn] # "away"
  /\ \A h \in Holders, th \in Thread : ~Waits(th, HeldBy(h).conn)
  /\ \A th \in Thread, c \in Conn : Waits(th, c) => net[c] # "away"
  /\ \A a, b \in Thread, c \in Conn : Waits(a, c) /\ Waits(b, c) => a = b

(* What holds however many threads share a pool.                           *)
GInv == TypeOK /\ StepInv /\ OwnersInv

(* The slots of th's pool that may be taken again, without the one that it *)
(* is about to put back.                                                   *)
Returned(th) ==
  {s \in Slot : /\ s[1] = PoolOf[th] /\ s[2] <= exhausted[PoolOf[th]]
                /\ task[s] = NULL /\ s # freeing[th]}

(* Between the two writes of TaskFreeList::enqueue the head is ahead of    *)
(* the list.                                                               *)
First(th) == IF step[th] = "link" THEN local[th] ELSE freeHead[PoolOf[th]]

(* The pool of a thread: its free list has the slots that were returned,   *)
(* and the slots behind exhaust_list_cnt were never used.                  *)
PoolOK(th) ==
  /\ \E q \in Lists(Slot) : IsList(First(th), freeLink, q) /\ Range(q) = Returned(th)
  /\ step[th] = "fresh" => /\ exhausted[PoolOf[th]] < N
                           /\ local[th] = <<PoolOf[th], exhausted[PoolOf[th]] + 1>>
  /\ step[th] \in {"pop", "push"} => local[th] = freeHead[PoolOf[th]]
  /\ step[th] = "link" => freeHead[PoolOf[th]] = freeing[th]
  /\ freeing[th] # NULL => /\ freeing[th][1] = PoolOf[th]
                           /\ freeing[th][2] <= exhausted[PoolOf[th]]
                           /\ task[freeing[th]] = NULL

PoolInv ==
  /\ \A th \in Thread : PoolOK(th)
  /\ \A s \in Slot : task[s] # NULL => PoolOf[task[s].by] = s[1] /\ s[2] <= exhausted[s[1]]

(* No peer and no descriptor is forgotten.                                 *)
NoneLost ==
  /\ \A c \in Conn : net[c] # "away" => \/ \E th \in Thread : Waits(th, c)
                                        \/ \E h \in Holders : HeldBy(h).conn = c
  /\ \A f \in Fd : fdTable[f] \in Conn => \E h \in Holders : HeldBy(h).fd = f

(* The invariant for a pool per thread.                                    *)
IInv == GInv /\ PoolInv /\ NoneLost

-----------------------------------------------------------------------------
(* Constants, descriptors, backlogs.                                       *)

LEMMA SlotsFinite ==
  /\ IsFiniteSet(Slot) /\ NULL \notin Slot
  /\ \A s \in Slot : s = <<s[1], s[2]>> /\ s[1] \in Pool /\ s[2] \in 1..N
  /\ \A th \in Thread : PoolOf[th] \in Pool
  /\ N \in Nat \ {0}
<1>1. IsFiniteSet(Pool)
  <2> DEFINE f == [th \in Thread |-> PoolOf[th]]
  <2>1. f \in Surjection(Thread, Pool)
    BY DEF Surjection, Pool
  <2>2. QED
    BY <2>1, ThreadAssumption, FS_Surjection
<1>2. IsFiniteSet(1..N)
  BY PoolSizeAssumption, FS_Interval
<1>3. IsFiniteSet(Slot)
  BY <1>1, <1>2, FS_Product DEF Slot
<1>4. QED
  BY <1>3, PoolSizeAssumption, PoolNULLAssumption DEF Slot, Pool

(* The lowest free descriptor.                                             *)
LEMMA NewFdIsFree ==
  ASSUME FreeFds # {}
  PROVE  NewFd \in Fd /\ fdTable[NewFd] = NULL
<1>1. FreeFds \in SUBSET Nat
  BY MaxFdAssumption DEF FreeFds, Fd
<1>2. \E f \in FreeFds : \A g \in FreeFds : f <= g
  BY <1>1, SmallestIndex
<1>3. NewFd \in FreeFds
  BY <1>2 DEF NewFd
<1>4. QED
  BY <1>3 DEF FreeFds

(* A connection that is handed out leaves the backlog.                     *)
LEMMA BacklogPop ==
  ASSUME NEW q \in Lists(Conn), q # <<>>
  PROVE  /\ Head(q) \in Conn /\ Head(q) \in Range(q)
         /\ Tail(q) \in Lists(Conn) /\ Range(Tail(q)) = Range(q) \ {Head(q)}
<1>1. /\ q \in Seq(Conn) /\ DOMAIN q = 1..Len(q) /\ Range(q) = {q[i] : i \in 1..Len(q)}
      /\ \A i, j \in 1..Len(q) : q[i] = q[j] => i = j
  BY ConnAssumption, ListShape
<1>2. /\ Len(q) \in Nat \ {0} /\ Head(q) = q[1] /\ Tail(q) \in Seq(Conn)
      /\ Len(Tail(q)) = Len(q) - 1 /\ DOMAIN Tail(q) = 1..(Len(q) - 1)
      /\ \A i \in 1..(Len(q) - 1) : Tail(q)[i] = q[i + 1]
      /\ \A i \in 1..Len(q) : q[i] \in Conn
  BY <1>1
<1>3. IsInjective(Tail(q))
  BY <1>1, <1>2 DEF IsInjective
<1>4. Tail(q) \in Lists(Conn)
  BY <1>2, <1>3, ConnAssumption, ListsAreInjectiveSeqs
<1>5. \A i \in 1..(Len(q) - 1) : Tail(q)[i] \in Range(q) /\ Tail(q)[i] # q[1]
  BY <1>1, <1>2
<1>6. ASSUME NEW i \in 1..Len(q), q[i] # q[1] PROVE q[i] \in Range(Tail(q))
  <2>1. i - 1 \in 1..(Len(q) - 1) /\ Tail(q)[i - 1] = q[i]
    BY <1>2, <1>6
  <2>2. QED
    BY <1>2, <2>1 DEF Range
<1>7. Range(Tail(q)) = Range(q) \ {Head(q)}
  <2>1. Range(Tail(q)) \subseteq Range(q) \ {Head(q)}
    BY <1>2, <1>5 DEF Range
  <2>2. Range(q) \ {Head(q)} \subseteq Range(Tail(q))
    BY <1>1, <1>2, <1>6
  <2>3. QED
    BY <2>1, <2>2
<1>8. QED
  BY <1>1, <1>2, <1>4, <1>7

(* A new connection comes last.                                            *)
LEMMA BacklogPush ==
  ASSUME NEW q \in Lists(Conn), NEW c \in Conn, c \notin Range(q)
  PROVE  Append(q, c) \in Lists(Conn) /\ Range(Append(q, c)) = Range(q) \cup {c}
<1>1. /\ q \in Seq(Conn) /\ DOMAIN q = 1..Len(q) /\ Range(q) = {q[i] : i \in 1..Len(q)}
      /\ \A i, j \in 1..Len(q) : q[i] = q[j] => i = j
  BY ConnAssumption, ListShape
<1>2. /\ Len(q) \in Nat /\ Append(q, c) \in Seq(Conn)
      /\ Len(Append(q, c)) = Len(q) + 1 /\ DOMAIN Append(q, c) = 1..(Len(q) + 1)
      /\ \A i \in 1..Len(q) : Append(q, c)[i] = q[i]
      /\ Append(q, c)[Len(q) + 1] = c
  BY <1>1
<1>3. \A i \in 1..(Len(q) + 1) : i \in 1..Len(q) \/ i = Len(q) + 1
  BY <1>2
<1>4. \A i \in 1..Len(q) : q[i] # c
  BY <1>1
<1>5. IsInjective(Append(q, c))
  BY <1>1, <1>2, <1>3, <1>4 DEF IsInjective
<1>6. Append(q, c) \in Lists(Conn)
  BY <1>2, <1>5, ConnAssumption, ListsAreInjectiveSeqs
<1>7. Range(Append(q, c)) = Range(q) \cup {c}
  <2>1. ASSUME NEW i \in 1..(Len(q) + 1) PROVE Append(q, c)[i] \in Range(q) \cup {c}
    BY <1>1, <1>2, <1>3
  <2>2. ASSUME NEW i \in 1..Len(q) PROVE q[i] \in Range(Append(q, c))
    <3>1. i \in DOMAIN Append(q, c) /\ Append(q, c)[i] = q[i]
      BY <1>2
    <3>2. QED
      BY <3>1 DEF Range
  <2>3. c \in Range(Append(q, c))
    <3>1. Len(q) + 1 \in DOMAIN Append(q, c)
      BY <1>2
    <3>2. QED
      BY <1>2, <3>1 DEF Range
  <2>4. QED
    BY <1>1, <1>2, <2>1, <2>2, <2>3 DEF Range
<1>8. QED
  BY <1>6, <1>7

-----------------------------------------------------------------------------
(* The holders of connections.                                             *)

(* The connections that tasks have open.                                   *)
Open(s) == task[s] # NULL /\ task[s].at # "closed"

LEMMA HoldersAre ==
  /\ Holders = {<<th, "held">> : th \in {x \in Thread : held[x] # NULL}}
                 \cup {<<s, "task">> : s \in {x \in Slot : Open(x)}}
  /\ Holders' = {<<th, "held">> : th \in {x \in Thread : held'[x] # NULL}}
                 \cup {<<s, "task">> : s \in {x \in Slot : Open(x)'}}
  /\ \A th \in Thread : HeldBy(<<th, "held">>) = held[th] /\ HeldBy(<<th, "held">>)' = held'[th]
  /\ \A s \in Slot : HeldBy(<<s, "task">>) = task[s] /\ HeldBy(<<s, "task">>)' = task'[s]
BY DEF Holders, HeldBy, Open, Is

LEMMA HolderTypes ==
  ASSUME TypeOK, NEW h \in Holders
  PROVE  HeldBy(h).fd \in Fd /\ HeldBy(h).conn \in Conn
<1>1. CASE \E th \in Thread : h = <<th, "held">> /\ held[th] # NULL
  BY <1>1, HoldersAre DEF TypeOK, Connection
<1>2. CASE \E s \in Slot : h = <<s, "task">> /\ Open(s)
  BY <1>2, HoldersAre DEF TypeOK, Task, Open
<1>3. QED
  BY <1>1, <1>2, HoldersAre

(* A step that changes nothing of what the holders hold.                   *)
LEMMA HoldersSame ==
  ASSUME UNCHANGED held,
         \A s \in Slot : /\ Open(s)' <=> Open(s)
                         /\ Open(s) => task'[s].fd = task[s].fd /\ task'[s].conn = task[s].conn
  PROVE  /\ Holders' = Holders
         /\ \A h \in Holders : HeldBy(h)'.fd = HeldBy(h).fd /\ HeldBy(h)'.conn = HeldBy(h).conn
<1>1. Holders' = Holders
  BY HoldersAre
<1>2. ASSUME NEW h \in Holders
      PROVE  HeldBy(h)'.fd = HeldBy(h).fd /\ HeldBy(h)'.conn = HeldBy(h).conn
  <2>1. CASE \E th \in Thread : h = <<th, "held">>
    BY <2>1, HoldersAre
  <2>2. CASE \E s \in Slot : h = <<s, "task">> /\ Open(s)
    BY <2>2, HoldersAre
  <2>3. QED
    BY <2>1, <2>2, HoldersAre
<1>3. QED
  BY <1>1, <1>2

-----------------------------------------------------------------------------
(* The owners of descriptors and peers, step by step.  Each lemma says     *)
(* that none is confused, for every PoolOf, and that none is forgotten, if *)
(* the slot that is taken is free.                                         *)

(* Steps that leave holders and descriptors alone.                         *)
LEMMA OwnersSame ==
  ASSUME TypeOK, OwnersInv,
         UNCHANGED held,
         \A s \in Slot : /\ Open(s)' <=> Open(s)
                         /\ Open(s) => task'[s].fd = task[s].fd /\ task'[s].conn = task[s].conn,
         UNCHANGED <<fdTable, listener, backlog>>,
         \A c \in Conn : net'[c] = "away" <=> net[c] = "away"
  PROVE  OwnersInv' /\ (NoneLost => NoneLost')
<1>1. /\ Holders' = Holders
      /\ \A h \in Holders : HeldBy(h)'.fd = HeldBy(h).fd /\ HeldBy(h)'.conn = HeldBy(h).conn
  BY HoldersSame
<1>2. \A h \in Holders : HeldBy(h).fd \in Fd /\ HeldBy(h).conn \in Conn
  BY HolderTypes
<1>3. \A th \in Thread, c \in Conn : Waits(th, c)' <=> Waits(th, c)
  BY DEF Waits
<1>4. OwnersInv'
  BY <1>1, <1>2, <1>3 DEF OwnersInv
<1>5. NoneLost => NoneLost'
  BY <1>1, <1>2, <1>3 DEF NoneLost
<1>6. QED
  BY <1>4, <1>5

LEMMA OwnersSocket ==
  ASSUME TypeOK, StepInv, OwnersInv, NEW th \in Thread, Socket(th)
  PROVE  OwnersInv' /\ (NoneLost => NoneLost')
<1>1. /\ Holders' = Holders
      /\ \A h \in Holders : HeldBy(h)'.fd = HeldBy(h).fd /\ HeldBy(h)'.conn = HeldBy(h).conn
  BY HoldersSame DEF Socket, Open
<1>2. \A h \in Holders : HeldBy(h).fd \in Fd /\ HeldBy(h).conn \in Conn
  BY HolderTypes
<1>3. \A x \in Thread, c \in Conn : Waits(x, c)' <=> Waits(x, c)
  BY DEF Waits, Socket
<1>4. NewFd \in Fd /\ fdTable[NewFd] = NULL
  BY NewFdIsFree DEF Socket
<1>5. /\ \A f \in Fd : fdTable'[f] = IF f = NewFd THEN th ELSE fdTable[f]
      /\ \A x \in Thread : listener'[x] = IF x = th THEN NewFd ELSE listener[x]
      /\ UNCHANGED net /\ listener[th] = NULL
  BY <1>4 DEF Socket, TypeOK, StepInv
<1>6. NULL \notin Conn /\ NULL \notin Thread /\ Conn \cap Thread = {} /\ NULL \notin Fd
  BY ConnAssumption, EchoNULLAssumption
<1>7. \A h \in Holders : HeldBy(h).fd # NewFd
  BY <1>2, <1>4, <1>6 DEF OwnersInv
<1>8. \A x \in Thread : x # th /\ listener'[x] # NULL => fdTable'[listener'[x]] = x
  BY <1>4, <1>5, <1>6 DEF OwnersInv, TypeOK
<1>9. \A f \in Fd : fdTable'[f] \in Thread => listener'[fdTable'[f]] = f
  BY <1>4, <1>5, <1>6 DEF OwnersInv
<1>10. OwnersInv'
  BY <1>1, <1>2, <1>3, <1>4, <1>5, <1>7, <1>8, <1>9 DEF OwnersInv
<1>11. NoneLost => NoneLost'
  BY <1>1, <1>3, <1>5, <1>6 DEF NoneLost
<1>12. QED
  BY <1>10, <1>11

LEMMA OwnersAccepted ==
  ASSUME TypeOK, StepInv, OwnersInv, NEW th \in Thread, Accepted(th)
  PROVE  OwnersInv' /\ (NoneLost => NoneLost')
<1> DEFINE c == Head(backlog[th])
           n == <<th, "held">>
<1>1. /\ backlog[th] \in Lists(Conn) /\ backlog[th] # <<>>
      /\ c \in Conn /\ Waits(th, c) /\ Range(Tail(backlog[th])) = Range(backlog[th]) \ {c}
  BY BacklogPop DEF Accepted, TypeOK, Waits
<1>2. NewFd \in Fd /\ fdTable[NewFd] = NULL
  BY NewFdIsFree DEF Accepted
<1>3. /\ \A f \in Fd : fdTable'[f] = IF f = NewFd THEN c ELSE fdTable[f]
      /\ UNCHANGED <<net, listener, task>>
      /\ held[th] = NULL /\ held'[th] = [fd |-> NewFd, conn |-> c] /\ held'[th] # NULL
      /\ \A x \in Thread : x # th => held'[x] = held[x]
  <2>1. held \in [Thread -> Connection \cup {NULL}] /\ fdTable \in [Fd -> Thread \cup Conn \cup {NULL}]
    BY DEF TypeOK
  <2>2. /\ fdTable' = [fdTable EXCEPT ![NewFd] = c]
        /\ held' = [held EXCEPT ![th] = [fd |-> NewFd, conn |-> c]]
        /\ UNCHANGED <<net, listener, task>>
    BY DEF Accepted
  <2>3. [fd |-> NewFd, conn |-> c] # NULL
    BY <1>1, <1>2, EchoNULLAssumption DEF Connection
  <2>4. held[th] = NULL
    BY DEF Accepted, StepInv
  <2>5. QED
    BY <2>1, <2>2, <2>3, <2>4
<1>4. /\ Holders' = Holders \cup {n} /\ n \notin Holders
      /\ HeldBy(n)'.fd = NewFd /\ HeldBy(n)'.conn = c
      /\ \A h \in Holders : HeldBy(h)' = HeldBy(h)
  <2>1. \A s \in Slot : Open(s)' <=> Open(s)
    BY <1>3 DEF Open
  <2>2. Holders' = Holders \cup {n} /\ n \notin Holders
    BY <1>3, <2>1, HoldersAre
  <2>3. HeldBy(n)' = [fd |-> NewFd, conn |-> c]
    BY <1>3, HoldersAre
  <2>4. ASSUME NEW h \in Holders PROVE HeldBy(h)' = HeldBy(h)
    <3>1. CASE \E x \in Thread : h = <<x, "held">> /\ held[x] # NULL
      BY <1>3, <3>1, HoldersAre
    <3>2. CASE \E s \in Slot : h = <<s, "task">>
      BY <1>3, <3>2, HoldersAre
    <3>3. QED
      BY <3>1, <3>2, HoldersAre
  <2>5. QED
    BY <2>2, <2>3, <2>4
<1>5. \A h \in Holders : HeldBy(h).fd \in Fd /\ HeldBy(h).conn \in Conn
  BY HolderTypes
<1>6. \A x \in Thread, d \in Conn : Waits(x, d)' <=> Waits(x, d) /\ ~(x = th /\ d = c)
  BY <1>1 DEF Waits, Accepted, TypeOK
<1>7. NULL \notin Conn /\ NULL \notin Thread /\ Conn \cap Thread = {} /\ NULL \notin Fd
  BY ConnAssumption, EchoNULLAssumption
<1>8. \A h \in Holders : HeldBy(h).fd # NewFd /\ HeldBy(h).conn # c
  BY <1>1, <1>2, <1>5, <1>7 DEF OwnersInv
<1>9. \A x \in Thread : listener[x] # NULL => listener[x] \in Fd /\ listener[x] # NewFd
  BY <1>2, <1>7 DEF OwnersInv, TypeOK
<1>10. /\ \A x \in Thread : listener'[x] # NULL => fdTable'[listener'[x]] = x
       /\ \A f \in Fd : fdTable'[f] \in Thread => listener'[fdTable'[f]] = f
  BY <1>1, <1>3, <1>7, <1>9 DEF OwnersInv
<1>11. /\ \A h \in Holders' : fdTable'[HeldBy(h)'.fd] = HeldBy(h)'.conn
       /\ \A g, h \in Holders' : HeldBy(g)'.conn = HeldBy(h)'.conn => g = h
       /\ \A h \in Holders' : net'[HeldBy(h)'.conn] # "away"
  BY <1>1, <1>2, <1>3, <1>4, <1>5, <1>8 DEF OwnersInv
<1>12. /\ \A h \in Holders', x \in Thread : ~Waits(x, HeldBy(h).conn)'
       /\ \A x \in Thread, d \in Conn : Waits(x, d)' => net'[d] # "away"
       /\ \A x, y \in Thread, d \in Conn : Waits(x, d)' /\ Waits(y, d)' => x = y
  BY <1>1, <1>3, <1>4, <1>5, <1>6 DEF OwnersInv
<1>13. OwnersInv'
  BY <1>10, <1>11, <1>12 DEF OwnersInv
<1>14. NoneLost => NoneLost'
  <2>1. ASSUME NoneLost, NEW d \in Conn, net'[d] # "away"
        PROVE  \/ \E x \in Thread : Waits(x, d)'
               \/ \E h \in Holders' : HeldBy(h)'.conn = d
    <3>1. CASE d = c
      BY <1>4, <3>1
    <3>2. CASE d # c
      BY <1>3, <1>4, <1>6, <2>1, <3>2 DEF NoneLost
    <3>3. QED
      BY <3>1, <3>2
  <2>2. ASSUME NoneLost, NEW f \in Fd, fdTable'[f] \in Conn
        PROVE  \E h \in Holders' : HeldBy(h)'.fd = f
    <3>1. CASE f = NewFd
      BY <1>4, <3>1
    <3>2. CASE f # NewFd
      BY <1>3, <1>4, <2>2, <3>2 DEF NoneLost
    <3>3. QED
      BY <3>1, <3>2
  <2>3. QED
    BY <2>1, <2>2 DEF NoneLost
<1>15. QED
  BY <1>13, <1>14

(* The slot that a spawn takes and what it puts there.                     *)
LEMMA SpawnTakes ==
  ASSUME TypeOK, StepInv, NEW th \in Thread, SpawnConnection(th)
  PROVE  /\ step[th] \in {"fresh", "pop"} /\ server[th] = "hold"
         /\ local[th] \in Slot /\ held[th] \in Connection
         /\ held' = [held EXCEPT ![th] = NULL] /\ held[th] # NULL
         /\ task'[local[th]] = [at |-> "read", fd |-> held[th].fd,
                                conn |-> held[th].conn, by |-> th]
         /\ task'[local[th]] \in Task /\ task'[local[th]] # NULL
         /\ task' \in [Slot -> Task \cup {NULL}]
         /\ \A s \in Slot : s # local[th] => task'[s] = task[s]
<1>1. step[th] \in {"fresh", "pop"}
  BY DEF SpawnConnection, StoreCount, StoreNext
<1>2. server[th] = "hold" /\ local[th] # NULL /\ held[th] # NULL
  BY <1>1 DEF StepInv
<1>3. local[th] \in Slot /\ held[th] \in Connection
  BY <1>2 DEF TypeOK
<1>4. task \in [Slot -> Task \cup {NULL}] /\ held \in [Thread -> Connection \cup {NULL}]
  BY DEF TypeOK
<1>5. [at |-> "read", fd |-> held[th].fd, conn |-> held[th].conn, by |-> th] \in Task
  BY <1>3 DEF Connection, Task
<1>6. /\ task' = [task EXCEPT ![local[th]] = [at |-> "read", fd |-> held[th].fd,
                                              conn |-> held[th].conn, by |-> th]]
      /\ held' = [held EXCEPT ![th] = NULL]
  BY DEF SpawnConnection
<1>7. QED
  BY <1>1, <1>2, <1>3, <1>4, <1>5, <1>6, EchoNULLAssumption

LEMMA OwnersSpawn ==
  ASSUME TypeOK, StepInv, OwnersInv, NEW th \in Thread, SpawnConnection(th)
  PROVE  OwnersInv' /\ (NoneLost /\ task[local[th]] = NULL => NoneLost')
<1>0. PICK s \in Slot : s = local[th]
  BY SpawnTakes
<1> DEFINE o == <<th, "held">>
           n == <<s, "task">>
           Kept == Holders \ {o, n}
<1>1. /\ held[th] # NULL /\ held[th] \in Connection
      /\ held' = [held EXCEPT ![th] = NULL]
      /\ task'[s] = [at |-> "read", fd |-> held[th].fd,
                             conn |-> held[th].conn, by |-> th]
      /\ task'[s] # NULL
      /\ \A x \in Slot : x # s => task'[x] = task[x]
  BY <1>0, SpawnTakes
<1>2. /\ \A x \in Thread : held'[x] = IF x = th THEN NULL ELSE held[x]
      /\ \A x \in Slot : x # s => (Open(x)' <=> Open(x))
      /\ Open(s)'
  BY <1>1 DEF Open, TypeOK
<1>3. /\ Holders' = Kept \cup {n} /\ o \in Holders /\ o # n
      /\ HeldBy(n)'.fd = HeldBy(o).fd /\ HeldBy(n)'.conn = HeldBy(o).conn
      /\ task[s] = NULL => n \notin Holders
  <2>1. Holders' = Kept \cup {n} /\ o \in Holders /\ o # n
    BY <1>1, <1>2, HoldersAre
  <2>2. HeldBy(n)' = task'[s] /\ HeldBy(o) = held[th]
    BY <1>1, HoldersAre
  <2>3. task[s] = NULL => n \notin Holders
    BY <1>1, HoldersAre DEF Open
  <2>4. QED
    BY <1>1, <2>1, <2>2, <2>3
<1>4. \A h \in Kept : HeldBy(h)' = HeldBy(h)
  <2>1. SUFFICES ASSUME NEW h \in Kept PROVE HeldBy(h)' = HeldBy(h)
    OBVIOUS
  <2>2. CASE \E x \in Thread : h = <<x, "held">> /\ x # th
    BY <1>2, <2>2, HoldersAre
  <2>3. CASE \E x \in Slot : h = <<x, "task">> /\ x # s
    BY <1>1, <2>3, HoldersAre
  <2>4. QED
    BY <2>2, <2>3, HoldersAre
<1>5. \A h \in Holders : HeldBy(h).fd \in Fd /\ HeldBy(h).conn \in Conn
  BY HolderTypes
<1>6. UNCHANGED <<fdTable, listener, backlog, net>>
  BY DEF SpawnConnection, kernel
<1>7. \A x \in Thread, c \in Conn : Waits(x, c)' <=> Waits(x, c)
  BY <1>6 DEF Waits
<1>8. \A h \in Kept : h # n /\ HeldBy(h).conn # HeldBy(o).conn
  BY <1>3 DEF OwnersInv
<1>9. /\ \A h \in Holders' : fdTable'[HeldBy(h)'.fd] = HeldBy(h)'.conn
      /\ \A g, h \in Holders' : HeldBy(g)'.conn = HeldBy(h)'.conn => g = h
      /\ \A h \in Holders' : net'[HeldBy(h)'.conn] # "away"
  BY <1>3, <1>4, <1>6, <1>8 DEF OwnersInv
<1>10. \A h \in Holders', x \in Thread : ~Waits(x, HeldBy(h).conn)'
  BY <1>3, <1>4, <1>6 DEF OwnersInv, Waits
<1>11. OwnersInv'
  BY <1>6, <1>7, <1>9, <1>10 DEF OwnersInv
<1>12. ASSUME NoneLost, task[s] = NULL PROVE NoneLost'
  <2>1. ASSUME NEW h \in Holders
        PROVE  \E g \in Holders' : HeldBy(g)'.fd = HeldBy(h).fd /\ HeldBy(g)'.conn = HeldBy(h).conn
    <3>1. CASE h = o
      BY <1>3, <3>1
    <3>2. CASE h # o
      BY <1>3, <1>4, <1>12, <3>2
    <3>3. QED
      BY <3>1, <3>2
  <2>2. QED
    BY <1>6, <1>7, <1>12, <2>1 DEF NoneLost
<1>13. QED
  BY <1>0, <1>11, <1>12

LEMMA OwnersClose ==
  ASSUME TypeOK, StepInv, OwnersInv, NEW s \in Slot, Close(s)
  PROVE  OwnersInv' /\ (NoneLost => NoneLost')
<1> DEFINE o == <<s, "task">>
           c == task[s].conn
           d == task[s].fd
<1>1. /\ task[s] # NULL /\ task[s].at = "close" /\ task[s] \in Task
      /\ d \in Fd /\ c \in Conn /\ Open(s)
  BY DEF Close, Is, TypeOK, Task, Open
<1>2. /\ task' = [task EXCEPT ![s] = [task[s] EXCEPT !.at = "closed"]]
      /\ UNCHANGED <<held, listener, backlog>>
  BY DEF Close, Goes
<1>3. /\ task'[s].at = "closed"
      /\ \A t \in Slot : t # s => task'[t] = task[t]
  BY <1>1, <1>2 DEF TypeOK, Task
<1>4. /\ Holders' = Holders \ {o} /\ o \in Holders /\ HeldBy(o) = task[s]
      /\ \A h \in Holders \ {o} : HeldBy(h)' = HeldBy(h)
  <2>1. ~Open(s)' /\ \A t \in Slot : t # s => (Open(t)' <=> Open(t))
    BY <1>3 DEF Open
  <2>2. Holders' = Holders \ {o} /\ o \in Holders /\ HeldBy(o) = task[s]
    BY <1>1, <1>2, <2>1, HoldersAre
  <2>3. ASSUME NEW h \in Holders \ {o} PROVE HeldBy(h)' = HeldBy(h)
    <3>1. CASE \E x \in Thread : h = <<x, "held">>
      BY <1>2, <3>1, HoldersAre
    <3>2. CASE \E t \in Slot : h = <<t, "task">> /\ t # s
      BY <1>3, <3>2, HoldersAre
    <3>3. QED
      BY <3>1, <3>2, HoldersAre
  <2>4. QED
    BY <2>2, <2>3
<1>5. fdTable[d] = c
  BY <1>4 DEF OwnersInv
<1>6. /\ \A f \in Fd : fdTable'[f] = IF f = d THEN NULL ELSE fdTable[f]
      /\ \A x \in Conn : net'[x] = IF x = c THEN "away" ELSE net[x]
  BY <1>1, <1>5 DEF Close, Peer, TypeOK
<1>7. \A h \in Holders : HeldBy(h).fd \in Fd /\ HeldBy(h).conn \in Conn
  BY HolderTypes
<1>8. \A x \in Thread, y \in Conn : Waits(x, y)' <=> Waits(x, y)
  BY <1>2 DEF Waits
<1>9. NULL \notin Conn /\ NULL \notin Thread /\ Conn \cap Thread = {} /\ NULL \notin Fd
  BY ConnAssumption, EchoNULLAssumption
<1>10. \A h \in Holders \ {o} : HeldBy(h).conn # c /\ HeldBy(h).fd # d
  BY <1>4, <1>5 DEF OwnersInv
<1>11. /\ \A x \in Thread : listener'[x] # NULL => fdTable'[listener'[x]] = x
       /\ \A f \in Fd : fdTable'[f] \in Thread => listener'[fdTable'[f]] = f
  BY <1>1, <1>2, <1>5, <1>6, <1>9 DEF OwnersInv, TypeOK
<1>12. /\ \A h \in Holders' : fdTable'[HeldBy(h)'.fd] = HeldBy(h)'.conn
       /\ \A g, h \in Holders' : HeldBy(g)'.conn = HeldBy(h)'.conn => g = h
       /\ \A h \in Holders' : net'[HeldBy(h)'.conn] # "away"
  BY <1>4, <1>6, <1>7, <1>10 DEF OwnersInv
<1>13. \A x \in Thread : ~Waits(x, c)
  BY <1>4 DEF OwnersInv
<1>14. /\ \A h \in Holders', x \in Thread : ~Waits(x, HeldBy(h).conn)'
       /\ \A x \in Thread, y \in Conn : Waits(x, y)' => net'[y] # "away"
       /\ \A x, z \in Thread, y \in Conn : Waits(x, y)' /\ Waits(z, y)' => x = z
  <2>1. \A h \in Holders', x \in Thread : ~Waits(x, HeldBy(h).conn)'
    BY <1>2, <1>4 DEF OwnersInv, Waits
  <2>2. QED
    BY <1>6, <1>8, <1>13, <2>1 DEF OwnersInv
<1>15. OwnersInv'
  BY <1>11, <1>12, <1>14 DEF OwnersInv
<1>16. ASSUME NoneLost PROVE NoneLost'
  <2>1. ASSUME NEW x \in Conn, net'[x] # "away"
        PROVE  \/ \E y \in Thread : Waits(y, x)'
               \/ \E h \in Holders' : HeldBy(h)'.conn = x
    <3>1. x # c /\ net[x] # "away"
      BY <1>6, <2>1
    <3>2. QED
      BY <1>4, <1>8, <1>16, <3>1 DEF NoneLost
  <2>2. ASSUME NEW f \in Fd, fdTable'[f] \in Conn
        PROVE  \E h \in Holders' : HeldBy(h)'.fd = f
    <3>1. f # d /\ fdTable[f] \in Conn
      BY <1>6, <1>9, <2>2
    <3>2. QED
      BY <1>4, <1>16, <3>1 DEF NoneLost
  <2>3. QED
    BY <2>1, <2>2 DEF NoneLost
<1>17. QED
  BY <1>15, <1>16

LEMMA OwnersConnect ==
  ASSUME TypeOK, StepInv, OwnersInv, NEW c \in Conn, NEW th \in Thread, Connect(c, th)
  PROVE  OwnersInv' /\ (NoneLost => NoneLost')
<1>1. /\ Holders' = Holders
      /\ \A h \in Holders : HeldBy(h)'.fd = HeldBy(h).fd /\ HeldBy(h)'.conn = HeldBy(h).conn
  BY HoldersSame DEF Connect, Open
<1>2. \A h \in Holders : HeldBy(h).fd \in Fd /\ HeldBy(h).conn \in Conn
  BY HolderTypes
<1>3. net[c] = "away" /\ ~Waits(th, c)
  BY DEF Connect, OwnersInv
<1>4. /\ backlog' = [backlog EXCEPT ![th] = Append(backlog[th], c)]
      /\ backlog[th] \in Lists(Conn)
      /\ Range(Append(backlog[th], c)) = Range(backlog[th]) \cup {c}
  BY <1>3, BacklogPush DEF Connect, TypeOK, Waits
<1>5. \A x \in Thread, y \in Conn : Waits(x, y)' <=> Waits(x, y) \/ (x = th /\ y = c)
  BY <1>4 DEF Waits, TypeOK
<1>6. /\ \A y \in Conn : net'[y] = IF y = c THEN "up" ELSE net[y]
      /\ UNCHANGED <<fdTable, listener>>
  BY DEF Connect, TypeOK
<1>7. /\ \A h \in Holders : HeldBy(h).conn # c
      /\ \A x \in Thread : ~Waits(x, c)
  BY <1>3 DEF OwnersInv
<1>8. \A h \in Holders', x \in Thread : ~Waits(x, HeldBy(h).conn)'
  <2>1. SUFFICES ASSUME NEW h \in Holders, NEW x \in Thread
                 PROVE  ~Waits(x, HeldBy(h).conn)'
    BY <1>1
  <2>2. ~Waits(x, HeldBy(h).conn) /\ HeldBy(h).conn # c
    BY <1>7 DEF OwnersInv
  <2>3. QED
    BY <1>1, <1>4, <2>2 DEF Waits, TypeOK
<1>9. OwnersInv'
  BY <1>1, <1>2, <1>5, <1>6, <1>7, <1>8 DEF OwnersInv
<1>10. NoneLost => NoneLost'
  BY <1>1, <1>5, <1>6 DEF NoneLost
<1>11. QED
  BY <1>9, <1>10

-----------------------------------------------------------------------------
(* Types and places, for every PoolOf.                                     *)

(* A task that goes on keeps its connection.                               *)
LEMMA TaskGoes ==
  ASSUME TypeOK, NEW s \in Slot, NEW where \in {"read", "send", "close", "closed"},
         task[s] # NULL, Goes(s, where)
  PROVE  /\ task' \in [Slot -> Task \cup {NULL}]
         /\ task'[s] # NULL /\ task'[s].at = where
         /\ task'[s].fd = task[s].fd /\ task'[s].conn = task[s].conn /\ task'[s].by = task[s].by
         /\ \A t \in Slot : t # s => task'[t] = task[t]
<1>1. task \in [Slot -> Task \cup {NULL}] /\ task[s] \in Task
  BY DEF TypeOK
<1>2. task' = [task EXCEPT ![s] = [task[s] EXCEPT !.at = where]]
  BY DEF Goes
<1>3. [task[s] EXCEPT !.at = where] \in Task
  BY <1>1 DEF Task
<1>4. QED
  BY <1>1, <1>2, <1>3, EchoNULLAssumption DEF Task

(* The steps of the entry tasks and the peers outside of the pool.         *)
LEMMA StepEntry ==
  ASSUME TypeOK, StepInv, OwnersInv, NEW th \in Thread,
         \/ SpawnReplica(th) \/ MainStarts \/ Socket(th) \/ SocketFails(th)
         \/ Bind(th) \/ BindFails(th) \/ AcceptFails(th) \/ PoolExhausted(th) \/ Retry(th)
  PROVE  TypeOK' /\ StepInv'
<1>1. UNCHANGED <<poolVars, held, task, backlog, net>>
  BY DEF SpawnReplica, MainStarts, Socket, SocketFails, Bind, BindFails, AcceptFails,
         PoolExhausted, Refused, Retry, kernel
<1>2. UNCHANGED <<exhausted, freeHead, freeLink, step, local, freeing>>
  BY <1>1 DEF poolVars, pools
<1>3. /\ server' \in [Thread -> ServerState]
      /\ listener' \in [Thread -> Fd \cup {NULL}]
      /\ fdTable' \in [Fd -> Thread \cup Conn \cup {NULL}]
  <2>1. CASE Socket(th)
    BY <2>1, NewFdIsFree DEF Socket, Becomes, TypeOK, ServerState
  <2>2. CASE ~Socket(th)
    BY <2>2, MainAssumption
       DEF SpawnReplica, MainStarts, SocketFails, Bind, BindFails, AcceptFails,
           PoolExhausted, Retry, kernel, Becomes, TypeOK, ServerState
  <2>3. QED
    BY <2>1, <2>2
<1>4. TypeOK'
  BY <1>1, <1>2, <1>3 DEF TypeOK
<1>5. StepInv'
  <2>1. CASE SpawnReplica(th) \/ MainStarts
    BY <1>1, <1>2, <2>1, MainAssumption
       DEF SpawnReplica, MainStarts, Becomes, TypeOK, StepInv
  <2>2. CASE Socket(th)
    BY <1>1, <1>2, <2>2 DEF Socket, Becomes, TypeOK, StepInv
  <2>3. CASE SocketFails(th) \/ Bind(th) \/ BindFails(th) \/ AcceptFails(th)
    BY <1>1, <1>2, <2>3 DEF SocketFails, Bind, BindFails, AcceptFails, Becomes, TypeOK, StepInv
  <2>4. CASE PoolExhausted(th)
    BY <1>1, <1>2, <2>4 DEF PoolExhausted, Refused, InPool, Becomes, TypeOK, StepInv
  <2>5. CASE Retry(th)
    BY <1>1, <1>2, <2>5 DEF Retry, Becomes, TypeOK, StepInv
  <2>6. QED
    BY <2>1, <2>2, <2>3, <2>4, <2>5
<1>6. QED
  BY <1>4, <1>5

LEMMA StepPeers ==
  ASSUME TypeOK, StepInv, OwnersInv, NEW c \in Conn,
         Shut(c) \/ \E th \in Thread : Connect(c, th)
  PROVE  TypeOK' /\ StepInv'
<1>1. UNCHANGED <<poolVars, server, listener, held, task, fdTable>>
  BY DEF Shut, Connect
<1>2. UNCHANGED <<exhausted, freeHead, freeLink, step, local, freeing>>
  BY <1>1 DEF poolVars, pools
<1>3. backlog' \in [Thread -> Lists(Conn)] /\ net' \in [Conn -> {"away", "up", "shut"}]
  <2>1. CASE Shut(c)
    BY <2>1 DEF Shut, TypeOK
  <2>2. ASSUME NEW th \in Thread, Connect(c, th)
        PROVE  backlog' \in [Thread -> Lists(Conn)] /\ net' \in [Conn -> {"away", "up", "shut"}]
    <3>1. backlog[th] \in Lists(Conn) /\ c \notin Range(backlog[th])
      BY <2>2 DEF Connect, OwnersInv, Waits, TypeOK
    <3>2. Append(backlog[th], c) \in Lists(Conn)
      BY <3>1, BacklogPush
    <3>3. QED
      BY <2>2, <3>2 DEF Connect, TypeOK
  <2>3. QED
    BY <2>1, <2>2
<1>4. TypeOK'
  BY <1>1, <1>2, <1>3 DEF TypeOK
<1>5. StepInv'
  BY <1>1, <1>2 DEF StepInv
<1>6. QED
  BY <1>4, <1>5

LEMMA StepAccepted ==
  ASSUME TypeOK, StepInv, NEW th \in Thread, Accepted(th)
  PROVE  TypeOK' /\ StepInv'
<1>1. /\ Head(backlog[th]) \in Conn /\ Tail(backlog[th]) \in Lists(Conn)
      /\ NewFd \in Fd
  BY BacklogPop, NewFdIsFree DEF Accepted, TypeOK
<1>2. [fd |-> NewFd, conn |-> Head(backlog[th])] \in Connection
  BY <1>1 DEF Connection
<1>3. /\ UNCHANGED <<exhausted, freeHead, freeLink, step, local, freeing, listener, task, net>>
      /\ server[th] = "accept"
      /\ server' = [server EXCEPT ![th] = "hold"]
      /\ held' = [held EXCEPT ![th] = [fd |-> NewFd, conn |-> Head(backlog[th])]]
      /\ fdTable' = [fdTable EXCEPT ![NewFd] = Head(backlog[th])]
      /\ backlog' = [backlog EXCEPT ![th] = Tail(backlog[th])]
  BY DEF Accepted, poolVars, pools, Becomes
<1>4. TypeOK'
  BY <1>1, <1>2, <1>3 DEF TypeOK, ServerState
<1>5. StepInv'
  BY <1>2, <1>3, EchoNULLAssumption DEF StepInv, TypeOK
<1>6. QED
  BY <1>4, <1>5

(* The steps of the connection tasks outside of the pool.                  *)
LEMMA StepEchoes ==
  ASSUME TypeOK, StepInv, NEW s \in Slot,
         Read(s) \/ ReadEnds(s) \/ Sent(s) \/ SendFails(s) \/ Close(s)
  PROVE  TypeOK' /\ StepInv'
<1>1. /\ UNCHANGED <<exhausted, freeHead, freeLink, step, local, freeing>>
      /\ UNCHANGED <<server, listener, held, backlog>>
  BY DEF Read, ReadEnds, Sent, SendFails, Close, kernel, poolVars, pools
<1>2. task' \in [Slot -> Task \cup {NULL}]
  BY TaskGoes DEF Read, ReadEnds, Sent, SendFails, Close, Is
<1>3. fdTable' \in [Fd -> Thread \cup Conn \cup {NULL}] /\ net' \in [Conn -> {"away", "up", "shut"}]
  <2>1. CASE Close(s)
    BY <2>1 DEF Close, TypeOK
  <2>2. CASE Read(s) \/ ReadEnds(s) \/ Sent(s) \/ SendFails(s)
    BY <2>2 DEF Read, ReadEnds, Sent, SendFails, kernel, TypeOK
  <2>3. QED
    BY <2>1, <2>2
<1>4. TypeOK'
  BY <1>1, <1>2, <1>3 DEF TypeOK
<1>5. StepInv'
  BY <1>1 DEF StepInv
<1>6. QED
  BY <1>4, <1>5

(* The steps in the code of the pool.                                      *)
LEMMA StepPrepare ==
  ASSUME TypeOK, StepInv, NEW th \in Thread, Prepare(th)
  PROVE  TypeOK' /\ StepInv'
<1>1. /\ UNCHANGED <<exhausted, freeHead, freeLink, freeing>>
      /\ UNCHANGED <<server, listener, held, task, fdTable, backlog, net>>
      /\ step[th] = "none" /\ server[th] = "hold"
  BY DEF Prepare, LoadCount, LoadHead, InPool, kernel, pools
<1>2. PICK l \in Slot, where \in {"fresh", "pop"} :
        step' = [step EXCEPT ![th] = where] /\ local' = [local EXCEPT ![th] = l]
  <2>1. CASE LoadCount(th)
    <3>1. <<PoolOf[th], exhausted[PoolOf[th]] + 1>> \in Slot
      BY <2>1, SlotsFinite DEF LoadCount, TypeOK, Slot
    <3>2. QED
      BY <2>1, <3>1 DEF LoadCount, At
  <2>2. CASE LoadHead(th)
    <3>1. freeHead[PoolOf[th]] \in Slot
      BY <2>2, SlotsFinite DEF LoadHead, TypeOK
    <3>2. QED
      BY <2>2, <3>1 DEF LoadHead, At
  <2>3. QED
    BY <2>1, <2>2 DEF Prepare
<1>3. TypeOK'
  BY <1>1, <1>2 DEF TypeOK
<1>4. StepInv'
  BY <1>1, <1>2, SlotsFinite DEF StepInv, TypeOK
<1>5. QED
  BY <1>3, <1>4

LEMMA StepSpawn ==
  ASSUME TypeOK, StepInv, NEW th \in Thread, SpawnConnection(th)
  PROVE  TypeOK' /\ StepInv'
<1>1. /\ UNCHANGED <<freeLink, freeing, listener, fdTable, backlog, net>>
      /\ step' = [step EXCEPT ![th] = "none"]
      /\ local' = [local EXCEPT ![th] = NULL]
      /\ server' = [server EXCEPT ![th] = "accept"]
      /\ held' = [held EXCEPT ![th] = NULL]
  BY DEF SpawnConnection, StoreCount, StoreNext, At, Becomes, kernel
<1>2. /\ task' \in [Slot -> Task \cup {NULL}] /\ local[th] \in Slot
      /\ step[th] \in {"fresh", "pop"}
  BY SpawnTakes
<1>3. exhausted' \in [Pool -> 0..N] /\ freeHead' \in [Pool -> Slot \cup {NULL}]
  <2>1. CASE StoreCount(th)
    <3>1. local[th][2] \in 0..N
      BY <1>2, SlotsFinite
    <3>2. QED
      BY <2>1, <3>1 DEF StoreCount, TypeOK
  <2>2. CASE StoreNext(th)
    BY <1>2, <2>2 DEF StoreNext, TypeOK
  <2>3. QED
    BY <2>1, <2>2 DEF SpawnConnection
<1>4. TypeOK'
  BY <1>1, <1>2, <1>3 DEF TypeOK, ServerState
<1>5. StepInv'
  BY <1>1, <1>2 DEF StepInv, TypeOK
<1>6. QED
  BY <1>4, <1>5

LEMMA StepFinish ==
  ASSUME TypeOK, StepInv, NEW s \in Slot, Finish(s)
  PROVE  TypeOK' /\ StepInv'
<1> DEFINE th == task[s].by
<1>1. th \in Thread /\ step[th] = "none"
  BY DEF Finish, FreeLoad, InPool, Is, TypeOK, Task
<1>2. /\ UNCHANGED <<exhausted, freeHead, freeLink>>
      /\ UNCHANGED <<server, listener, held, fdTable, backlog, net>>
      /\ step' = [step EXCEPT ![th] = "push"]
      /\ local' = [local EXCEPT ![th] = freeHead[s[1]]]
      /\ freeing' = [freeing EXCEPT ![th] = s]
      /\ task' = [task EXCEPT ![s] = NULL]
  BY DEF Finish, FreeLoad, At, kernel, pools
<1>3. s[1] \in Pool /\ s # NULL
  BY SlotsFinite
<1> HIDE DEF th
<1>4. TypeOK'
  BY <1>1, <1>2, <1>3 DEF TypeOK
<1>5. StepInv'
  BY <1>1, <1>2, <1>3 DEF StepInv, TypeOK
<1>6. QED
  BY <1>4, <1>5

LEMMA StepFinalize ==
  ASSUME TypeOK, StepInv, NEW th \in Thread, Finalize(th)
  PROVE  TypeOK' /\ StepInv'
<1>1. /\ UNCHANGED <<exhausted, server, listener, held, task, fdTable, backlog, net>>
      /\ step[th] \in {"push", "link"}
  BY DEF Finalize, FreeStoreHead, FreeStoreLink, kernel
<1>2. freeing[th] \in Slot /\ freeing[th][1] \in Pool
  BY <1>1, SlotsFinite DEF StepInv, TypeOK
<1>3. CASE FreeStoreHead(th)
  <2>1. /\ UNCHANGED <<freeLink, local, freeing>>
        /\ step' = [step EXCEPT ![th] = "link"]
        /\ freeHead' = [freeHead EXCEPT ![freeing[th][1]] = freeing[th]]
        /\ step[th] = "push"
    BY <1>3 DEF FreeStoreHead, At
  <2>2. TypeOK'
    BY <1>1, <1>2, <2>1 DEF TypeOK
  <2>3. StepInv'
    BY <1>1, <2>1 DEF StepInv, TypeOK
  <2>4. QED
    BY <2>2, <2>3
<1>4. CASE FreeStoreLink(th)
  <2>1. /\ UNCHANGED freeHead
        /\ step' = [step EXCEPT ![th] = "none"]
        /\ freeLink' = [freeLink EXCEPT ![freeing[th]] = local[th]]
        /\ local' = [local EXCEPT ![th] = NULL]
        /\ freeing' = [freeing EXCEPT ![th] = NULL]
    BY <1>4 DEF FreeStoreLink, At
  <2>2. TypeOK'
    BY <1>1, <1>2, <2>1 DEF TypeOK
  <2>3. StepInv'
    BY <1>1, <2>1 DEF StepInv, TypeOK
  <2>4. QED
    BY <2>2, <2>3
<1>5. QED
  BY <1>3, <1>4 DEF Finalize

(* All steps together.                                                     *)
LEMMA StepOwners ==
  ASSUME TypeOK, StepInv, OwnersInv, [Next]_vars
  PROVE  /\ OwnersInv'
         /\ NoneLost /\ (\A th \in Thread : SpawnConnection(th) => task[local[th]] = NULL)
              => NoneLost'
<1>1. ASSUME NEW th \in Thread, Socket(th) \/ Accepted(th)
      PROVE  OwnersInv' /\ (NoneLost => NoneLost')
  BY <1>1, OwnersSocket, OwnersAccepted
<1>2. ASSUME NEW th \in Thread, SpawnConnection(th)
      PROVE  OwnersInv' /\ (NoneLost /\ task[local[th]] = NULL => NoneLost')
  BY <1>2, OwnersSpawn
<1>3. ASSUME NEW s \in Slot, Close(s)
      PROVE  OwnersInv' /\ (NoneLost => NoneLost')
  BY <1>3, OwnersClose
<1>4. ASSUME NEW c \in Conn, NEW th \in Thread, Connect(c, th)
      PROVE  OwnersInv' /\ (NoneLost => NoneLost')
  BY <1>4, OwnersConnect
<1>5. ASSUME NEW s \in Slot, Read(s) \/ ReadEnds(s) \/ Sent(s) \/ SendFails(s)
      PROVE  OwnersInv' /\ (NoneLost => NoneLost')
  <2>1. UNCHANGED <<held, fdTable, listener, backlog, net>>
    BY <1>5 DEF Read, ReadEnds, Sent, SendFails, kernel
  <2>2. /\ task[s] # NULL /\ task[s].at \in {"read", "send"}
        /\ Goes(s, "read") \/ Goes(s, "send") \/ Goes(s, "close")
    BY <1>5 DEF Read, ReadEnds, Sent, SendFails, Is
  <2>3. /\ task'[s] # NULL /\ task'[s].at \in {"read", "send", "close"}
        /\ task'[s].fd = task[s].fd /\ task'[s].conn = task[s].conn
        /\ \A t \in Slot : t # s => task'[t] = task[t]
    BY <2>2, TaskGoes
  <2>4. \A t \in Slot : /\ Open(t)' <=> Open(t)
                        /\ Open(t) => task'[t].fd = task[t].fd /\ task'[t].conn = task[t].conn
    BY <2>2, <2>3 DEF Open
  <2>5. QED
    BY <2>1, <2>4, OwnersSame
<1>6. ASSUME NEW s \in Slot, Finish(s)
      PROVE  OwnersInv' /\ (NoneLost => NoneLost')
  <2>1. /\ UNCHANGED <<held, fdTable, listener, backlog, net>>
        /\ task' = [task EXCEPT ![s] = NULL] /\ task[s].at = "closed"
    BY <1>6 DEF Finish, kernel, Is
  <2>2. \A t \in Slot : /\ Open(t)' <=> Open(t)
                        /\ Open(t) => task'[t].fd = task[t].fd /\ task'[t].conn = task[t].conn
    BY <2>1 DEF Open, TypeOK
  <2>3. QED
    BY <2>1, <2>2, OwnersSame
<1>7. ASSUME UNCHANGED <<held, task, fdTable, listener, backlog>>,
             \A c \in Conn : net'[c] = "away" <=> net[c] = "away"
      PROVE  OwnersInv' /\ (NoneLost => NoneLost')
  BY <1>7, OwnersSame DEF Open
<1>8. ASSUME NEW c \in Conn, Shut(c)
      PROVE  OwnersInv' /\ (NoneLost => NoneLost')
  BY <1>7, <1>8 DEF Shut, TypeOK
<1>9. ASSUME NEW th \in Thread,
             \/ SpawnReplica(th) \/ MainStarts \/ SocketFails(th)
             \/ Bind(th) \/ BindFails(th) \/ AcceptFails(th) \/ PoolExhausted(th) \/ Retry(th)
             \/ Prepare(th) \/ Finalize(th) \/ UNCHANGED vars
      PROVE  OwnersInv' /\ (NoneLost => NoneLost')
  BY <1>7, <1>9
     DEF SpawnReplica, MainStarts, SocketFails, Bind, BindFails, AcceptFails, PoolExhausted,
         Retry, Prepare, Finalize, vars, kernel
<1>10. QED
  BY <1>1, <1>2, <1>3, <1>4, <1>5, <1>6, <1>8, <1>9, MainAssumption
     DEF Next, Starts, Accepts, Spawns, InPoolStep, Echoes

LEMMA InitGeneral == Init => GInv
<1> SUFFICES ASSUME Init PROVE GInv
  OBVIOUS
<1> USE DEF Init, PoolInit
<1>1. <<>> \in Lists(Conn) /\ Range(<<>>) = {}
  BY ConnAssumption, NullIsEmptyList
<1>2. TypeOK
  BY <1>1, PoolSizeAssumption DEF TypeOK, ServerState
<1>3. StepInv
  BY DEF StepInv
<1>4. Holders = {}
  BY DEF Holders
<1>5. OwnersInv
  BY <1>1, <1>4, ConnAssumption DEF OwnersInv, Waits
<1>6. QED
  BY <1>2, <1>3, <1>5 DEF GInv

LEMMA StepGeneral == GInv /\ [Next]_vars => GInv'
<1> SUFFICES ASSUME GInv, [Next]_vars PROVE GInv'
  OBVIOUS
<1>a. TypeOK /\ StepInv /\ OwnersInv
  BY DEF GInv
<1>1. TypeOK' /\ StepInv'
  <2>1. CASE UNCHANGED vars
    BY <1>a, <2>1 DEF vars, poolVars, pools, kernel, TypeOK, StepInv
  <2>2. CASE Next
    BY <1>a, <2>2, StepEntry, StepPeers, StepAccepted, StepEchoes, StepPrepare, StepSpawn,
       StepFinish, StepFinalize, MainAssumption
       DEF Next, Starts, Accepts, Spawns, InPoolStep, Echoes
  <2>3. QED
    BY <2>1, <2>2
<1>2. OwnersInv'
  BY <1>a, StepOwners
<1>3. QED
  BY <1>1, <1>2 DEF GInv

-----------------------------------------------------------------------------
(* The pools, when each thread has its own.                                *)

(* What the other threads do leaves the pool of x alone.                   *)
LEMMA PoolUntouched ==
  ASSUME NEW x \in Thread, PoolOK(x),
         exhausted'[PoolOf[x]] = exhausted[PoolOf[x]],
         freeHead'[PoolOf[x]] = freeHead[PoolOf[x]],
         step'[x] = step[x], local'[x] = local[x], freeing'[x] = freeing[x],
         freeing[x] \in Slot \cup {NULL},
         \A s \in Slot : s[1] = PoolOf[x] => /\ task'[s] = NULL <=> task[s] = NULL
                                             /\ freeLink'[s] = freeLink[s]
  PROVE  PoolOK(x)'
<1>1. PICK q \in Lists(Slot) : IsList(First(x), freeLink, q) /\ Range(q) = Returned(x)
  BY DEF PoolOK
<1>2. Returned(x)' = Returned(x) /\ First(x)' = First(x)
  BY DEF Returned, First
<1>3. \A i \in 1..Len(q) : q[i] \in Slot /\ q[i] \in Returned(x)
  BY <1>1, SlotsFinite, ListShape
<1>4. \A i \in 1..Len(q) : freeLink'[q[i]] = freeLink[q[i]]
  BY <1>3 DEF Returned
<1>5. IsList(First(x), freeLink', q)
  BY <1>1, <1>4 DEF IsList
<1>6. \E p \in Lists(Slot) : IsList(First(x)', freeLink', p) /\ Range(p) = Returned(x)'
  BY <1>1, <1>2, <1>5
<1>7. freeing[x] # NULL => (task'[freeing[x]] = NULL <=> task[freeing[x]] = NULL)
  BY DEF PoolOK
<1>8. QED
  BY <1>6, <1>7 DEF PoolOK

(* Steps outside of the code of the pool.                                  *)
LEMMA PoolSame ==
  ASSUME TypeOK, PoolInv, UNCHANGED poolVars,
         \A s \in Slot : /\ task'[s] = NULL <=> task[s] = NULL
                         /\ task[s] # NULL => task'[s].by = task[s].by
  PROVE  PoolInv'
<1>1. UNCHANGED <<exhausted, freeHead, freeLink, step, local, freeing>>
  BY DEF poolVars, pools
<1>2. ASSUME NEW x \in Thread PROVE PoolOK(x)'
  <2>1. PoolOK(x) /\ freeing[x] \in Slot \cup {NULL}
    BY DEF PoolInv, TypeOK
  <2>2. QED
    BY <1>1, <2>1, PoolUntouched
<1>3. QED
  BY <1>1, <1>2 DEF PoolInv

LEMMA PoolPrepare ==
  ASSUME TypeOK, StepInv, PoolInv, NEW th \in Thread, Prepare(th)
  PROVE  PoolInv'
<1>1. /\ UNCHANGED <<exhausted, freeHead, freeLink, freeing, task>>
      /\ step[th] = "none" /\ step'[th] \in {"fresh", "pop"}
      /\ \A x \in Thread : x # th => step'[x] = step[x] /\ local'[x] = local[x]
  BY DEF Prepare, LoadCount, LoadHead, InPool, pools, At, TypeOK
<1>2. PoolOK(th)'
  <2>1. PoolOK(th) /\ freeing[th] = NULL
    BY <1>1 DEF PoolInv, StepInv
  <2>2. Returned(th)' = Returned(th) /\ First(th)' = First(th)
    BY <1>1 DEF Returned, First
  <2>3. /\ step'[th] = "fresh" => /\ exhausted[PoolOf[th]] < N
                                  /\ local'[th] = <<PoolOf[th], exhausted[PoolOf[th]] + 1>>
        /\ step'[th] = "pop" => local'[th] = freeHead[PoolOf[th]]
    BY DEF Prepare, LoadCount, LoadHead, At, TypeOK
  <2>4. QED
    BY <1>1, <2>1, <2>2, <2>3 DEF PoolOK
<1>3. ASSUME NEW x \in Thread, x # th PROVE PoolOK(x)'
  <2>1. PoolOK(x) /\ freeing[x] \in Slot \cup {NULL}
    BY DEF PoolInv, TypeOK
  <2>2. QED
    BY <1>1, <1>3, <2>1, PoolUntouched
<1>4. QED
  BY <1>1, <1>2, <1>3 DEF PoolInv

(* The slot that a spawn takes is free.                                    *)
LEMMA SpawnTakesFree ==
  ASSUME TypeOK, StepInv, PoolInv, NEW th \in Thread, SpawnConnection(th)
  PROVE  task[local[th]] = NULL /\ local[th][1] = PoolOf[th]
<1>1. local[th] \in Slot /\ step[th] \in {"fresh", "pop"} /\ PoolOK(th)
  BY SpawnTakes DEF PoolInv
<1>2. CASE step[th] = "fresh"
  <2>1. /\ local[th][1] = PoolOf[th] /\ local[th][2] = exhausted[PoolOf[th]] + 1
        /\ exhausted[PoolOf[th]] \in Nat
    BY <1>1, <1>2, SlotsFinite DEF PoolOK, TypeOK
  <2>2. QED
    BY <1>1, <2>1 DEF PoolInv
<1>3. CASE step[th] = "pop"
  <2>1. PICK q \in Lists(Slot) : IsList(First(th), freeLink, q) /\ Range(q) = Returned(th)
    BY <1>1 DEF PoolOK
  <2>2. First(th) = local[th] /\ local[th] # NULL
    BY <1>1, <1>3, SlotsFinite DEF First, PoolOK
  <2>3. freeLink \in [Slot -> Slot \cup {NULL}]
    BY DEF TypeOK
  <2>4. local[th] \in Range(q)
    BY <2>1, <2>2, <2>3, SlotsFinite, ListPop
  <2>5. QED
    BY <2>1, <2>4 DEF Returned
<1>4. QED
  BY <1>1, <1>2, <1>3

LEMMA PoolSpawn ==
  ASSUME PoolPrivate, TypeOK, StepInv, PoolInv, NEW th \in Thread, SpawnConnection(th)
  PROVE  PoolInv'
<1> DEFINE p == PoolOf[th]
<1>0. PICK s \in Slot : s = local[th]
  BY SpawnTakes
<1>1. /\ UNCHANGED <<freeLink, freeing>>
      /\ step[th] \in {"fresh", "pop"} /\ step' = [step EXCEPT ![th] = "none"]
      /\ local' = [local EXCEPT ![th] = NULL]
      /\ task'[s] # NULL /\ task'[s].by = th
      /\ \A t \in Slot : t # s => task'[t] = task[t]
      /\ task[s] = NULL /\ s[1] = p
  <2>1. UNCHANGED <<freeLink, freeing>> /\ local' = [local EXCEPT ![th] = NULL]
        /\ step[th] \in {"fresh", "pop"} /\ step' = [step EXCEPT ![th] = "none"]
    BY DEF SpawnConnection, StoreCount, StoreNext, At
  <2>2. task'[s] # NULL /\ task'[s].by = th /\ \A t \in Slot : t # s => task'[t] = task[t]
    <3>1. /\ task'[local[th]] # NULL
          /\ task'[local[th]] = [at |-> "read", fd |-> held[th].fd,
                                 conn |-> held[th].conn, by |-> th]
          /\ \A t \in Slot : t # local[th] => task'[t] = task[t]
      BY SpawnTakes
    <3>2. task'[local[th]].by = th
      BY <3>1
    <3>3. QED
      BY <1>0, <3>1, <3>2
  <2>3. task[s] = NULL /\ s[1] = p
    BY <1>0, SpawnTakesFree
  <2>4. QED
    BY <2>1, <2>2, <2>3
<1>2. PoolOK(th) /\ freeing[th] = NULL /\ step'[th] = "none"
  <2>1. PoolOK(th)
    BY DEF PoolInv
  <2>2. freeing[th] = NULL
    BY <1>1 DEF StepInv
  <2>3. step'[th] = "none"
    BY <1>1 DEF TypeOK
  <2>4. QED
    BY <2>1, <2>2, <2>3
<1>3. PICK q \in Lists(Slot) : IsList(First(th), freeLink, q) /\ Range(q) = Returned(th)
  BY <1>2 DEF PoolOK
<1>4. p \in Pool /\ exhausted[p] \in Nat /\ freeLink \in [Slot -> Slot \cup {NULL}]
  BY SlotsFinite DEF TypeOK
<1>5. First(th) = freeHead[p] /\ First(th)' = freeHead'[p]
  BY <1>1, <1>2 DEF First
<1>6. /\ PoolOK(th)'
      /\ s[2] <= exhausted'[p] /\ exhausted[p] <= exhausted'[p]
      /\ \A r \in Pool : r # p => exhausted'[r] = exhausted[r] /\ freeHead'[r] = freeHead[r]
  <2>1. CASE StoreCount(th)
    <3>1. /\ UNCHANGED freeHead /\ exhausted' = [exhausted EXCEPT ![p] = local[th][2]]
          /\ local[th] = <<p, exhausted[p] + 1>>
      BY <1>2, <2>1 DEF StoreCount, PoolOK
    <3>2. s[2] = exhausted[p] + 1 /\ exhausted'[p] = exhausted[p] + 1
      BY <1>0, <1>4, <3>1 DEF TypeOK
    <3>3. Returned(th)' = Returned(th)
      <4>1. ASSUME NEW t \in Slot, t[1] = p, t # s
            PROVE  t[2] <= exhausted'[p] <=> t[2] <= exhausted[p]
        <5>1. t = <<p, t[2]>> /\ s = <<p, s[2]>> /\ t[2] \in Nat
          BY <1>1, <4>1, SlotsFinite
        <5>2. t[2] # exhausted[p] + 1
          BY <3>2, <4>1, <5>1
        <5>3. QED
          BY <1>4, <3>2, <5>1, <5>2
      <4>2. s \notin Returned(th) /\ s \notin Returned(th)'
        BY <1>1, <1>4, <3>2 DEF Returned
      <4>3. ASSUME NEW t \in Slot, t # s PROVE t \in Returned(th)' <=> t \in Returned(th)
        BY <1>1, <4>1, <4>3 DEF Returned
      <4>4. QED
        BY <4>2, <4>3 DEF Returned
    <3>4. First(th)' = First(th)
      BY <1>5, <3>1
    <3>5. PoolOK(th)'
      BY <1>1, <1>2, <1>3, <3>3, <3>4 DEF PoolOK
    <3>6. \A r \in Pool : r # p => exhausted'[r] = exhausted[r] /\ freeHead'[r] = freeHead[r]
      BY <3>1 DEF TypeOK
    <3>7. QED
      BY <1>4, <3>2, <3>5, <3>6
  <2>2. CASE StoreNext(th)
    <3>1. /\ UNCHANGED exhausted /\ freeHead' = [freeHead EXCEPT ![p] = freeLink[local[th]]]
          /\ local[th] = freeHead[p]
      BY <1>2, <2>2 DEF StoreNext, PoolOK
    <3>2. freeHead'[p] = freeLink[s] /\ First(th) = s
      BY <1>0, <1>4, <1>5, <3>1 DEF TypeOK
    <3>3. /\ Tail(q) \in Lists(Slot) /\ IsList(freeLink[s], freeLink, Tail(q))
          /\ Range(Tail(q)) = Range(q) \ {s} /\ s \in Range(q)
      BY <1>3, <1>4, <3>2, SlotsFinite, ListPop
    <3>4. Returned(th)' = Returned(th) \ {s}
      BY <1>1, <3>1 DEF Returned
    <3>5. PoolOK(th)'
      <4>1. /\ Tail(q) \in Lists(Slot) /\ IsList(First(th)', freeLink', Tail(q))
            /\ Range(Tail(q)) = Returned(th)'
        BY <1>1, <1>3, <1>5, <3>2, <3>3, <3>4
      <4>2. QED
        BY <1>1, <1>2, <4>1 DEF PoolOK
    <3>6. s[2] <= exhausted'[p]
      BY <1>3, <3>1, <3>3 DEF Returned
    <3>7. \A r \in Pool : r # p => exhausted'[r] = exhausted[r] /\ freeHead'[r] = freeHead[r]
      BY <3>1 DEF TypeOK
    <3>8. QED
      BY <1>4, <3>1, <3>5, <3>6, <3>7
  <2>3. QED
    BY <2>1, <2>2 DEF SpawnConnection
<1>7. ASSUME NEW x \in Thread, x # th PROVE PoolOK(x)'
  <2>1. PoolOK(x) /\ freeing[x] \in Slot \cup {NULL} /\ PoolOf[x] # p /\ PoolOf[x] \in Pool
    BY <1>7, SlotsFinite DEF PoolInv, TypeOK, PoolPrivate
  <2>2. step'[x] = step[x] /\ local'[x] = local[x]
    BY <1>1, <1>7 DEF TypeOK
  <2>3. QED
    BY <1>1, <1>6, <2>1, <2>2, PoolUntouched
<1>8. ASSUME NEW t \in Slot, task'[t] # NULL
      PROVE  PoolOf[task'[t].by] = t[1] /\ t[2] <= exhausted'[t[1]]
  <2>1. CASE t = s
    BY <1>1, <1>6, <2>1
  <2>2. CASE t # s
    <3>1. PoolOf[task'[t].by] = t[1] /\ t[2] <= exhausted[t[1]] /\ t[1] \in Pool /\ t[2] \in Nat
      BY <1>1, <1>8, <2>2, SlotsFinite DEF PoolInv
    <3>2. exhausted[t[1]] \in Nat /\ exhausted'[t[1]] \in Nat
      BY <3>1, StepSpawn DEF TypeOK
    <3>3. exhausted[t[1]] <= exhausted'[t[1]]
      BY <1>6, <3>1, <3>2
    <3>4. QED
      BY <3>1, <3>2, <3>3
  <2>3. QED
    BY <2>1, <2>2
<1>9. QED
  BY <1>6, <1>7, <1>8 DEF PoolInv

LEMMA PoolFinish ==
  ASSUME PoolPrivate, TypeOK, StepInv, PoolInv, NEW s \in Slot, Finish(s)
  PROVE  PoolInv'
<1>1. PICK th \in Thread : th = task[s].by
  BY DEF Finish, Is, TypeOK, Task
<1>2. /\ UNCHANGED <<exhausted, freeHead, freeLink>> /\ task[s] # NULL
      /\ step[th] = "none" /\ step' = [step EXCEPT ![th] = "push"]
      /\ local' = [local EXCEPT ![th] = freeHead[s[1]]]
      /\ freeing' = [freeing EXCEPT ![th] = s]
      /\ task' = [task EXCEPT ![s] = NULL]
  BY <1>1 DEF Finish, FreeLoad, InPool, At, pools, Is
<1>3. PoolOf[th] = s[1] /\ s[2] <= exhausted[PoolOf[th]] /\ PoolOK(th)
  BY <1>1, <1>2 DEF PoolInv
<1>4. \A t \in Slot : task'[t] = IF t = s THEN NULL ELSE task[t]
  BY <1>2 DEF TypeOK
<1>5. /\ step'[th] = "push" /\ local'[th] = freeHead[PoolOf[th]]
      /\ freeing'[th] = s /\ freeing[th] = NULL
  BY <1>2, <1>3 DEF TypeOK, StepInv
<1>6. PoolOK(th)'
  <2>1. Returned(th)' = Returned(th)
    BY <1>2, <1>4, <1>5, SlotsFinite DEF Returned
  <2>2. First(th)' = First(th)
    BY <1>2, <1>5 DEF First
  <2>3. QED
    BY <1>2, <1>3, <1>4, <1>5, <2>1, <2>2 DEF PoolOK
<1>7. ASSUME NEW x \in Thread, x # th PROVE PoolOK(x)'
  <2>1. PoolOK(x) /\ freeing[x] \in Slot \cup {NULL} /\ PoolOf[x] # PoolOf[th]
    BY <1>7 DEF PoolInv, TypeOK, PoolPrivate
  <2>2. step'[x] = step[x] /\ local'[x] = local[x] /\ freeing'[x] = freeing[x]
    BY <1>2, <1>7 DEF TypeOK
  <2>3. QED
    BY <1>2, <1>3, <1>4, <2>1, <2>2, PoolUntouched
<1>8. QED
  BY <1>2, <1>4, <1>6, <1>7 DEF PoolInv

LEMMA PoolFinalize ==
  ASSUME PoolPrivate, TypeOK, StepInv, PoolInv, NEW th \in Thread, Finalize(th)
  PROVE  PoolInv'
<1> DEFINE p == PoolOf[th]
<1>1. UNCHANGED <<exhausted, task>> /\ step[th] \in {"push", "link"}
  BY DEF Finalize, FreeStoreHead, FreeStoreLink
<1>2. PICK s \in Slot : s = freeing[th]
  BY <1>1 DEF StepInv, TypeOK
<1>3. PoolOK(th) /\ s # NULL /\ s[1] = p /\ s[2] <= exhausted[p] /\ task[s] = NULL /\ p \in Pool
  BY <1>2, SlotsFinite DEF PoolInv, PoolOK
<1>4. PICK q \in Lists(Slot) : IsList(First(th), freeLink, q) /\ Range(q) = Returned(th)
  BY <1>3 DEF PoolOK
<1>5. freeLink \in [Slot -> Slot \cup {NULL}]
  BY DEF TypeOK
<1>6. CASE FreeStoreHead(th)
  <2>1. /\ UNCHANGED <<freeLink, local, freeing>> /\ step[th] = "push"
        /\ step' = [step EXCEPT ![th] = "link"]
        /\ freeHead' = [freeHead EXCEPT ![p] = s]
    BY <1>2, <1>3, <1>6 DEF FreeStoreHead, At
  <2>2. step'[th] = "link" /\ freeHead'[p] = s /\ local[th] = freeHead[p]
    BY <1>3, <2>1 DEF TypeOK, PoolOK
  <2>3. Returned(th)' = Returned(th) /\ First(th)' = First(th)
    BY <1>1, <2>1, <2>2 DEF Returned, First
  <2>4. PoolOK(th)'
    BY <1>1, <1>2, <1>3, <1>4, <2>1, <2>2, <2>3 DEF PoolOK
  <2>5. ASSUME NEW x \in Thread, x # th PROVE PoolOK(x)'
    <3>1. PoolOK(x) /\ freeing[x] \in Slot \cup {NULL} /\ PoolOf[x] # p /\ PoolOf[x] \in Pool
      BY <2>5, SlotsFinite DEF PoolInv, TypeOK, PoolPrivate
    <3>2. step'[x] = step[x] /\ freeHead'[PoolOf[x]] = freeHead[PoolOf[x]]
      BY <2>1, <2>5, <3>1 DEF TypeOK
    <3>3. QED
      BY <1>1, <2>1, <3>1, <3>2, PoolUntouched
  <2>6. QED
    BY <1>1, <2>4, <2>5 DEF PoolInv
<1>7. CASE FreeStoreLink(th)
  <2>1. /\ UNCHANGED freeHead /\ step[th] = "link"
        /\ step' = [step EXCEPT ![th] = "none"]
        /\ freeLink' = [freeLink EXCEPT ![s] = local[th]]
        /\ local' = [local EXCEPT ![th] = NULL]
        /\ freeing' = [freeing EXCEPT ![th] = NULL]
    BY <1>2, <1>7 DEF FreeStoreLink, At
  <2>2. /\ step'[th] = "none" /\ freeing'[th] = NULL /\ freeHead[p] = s
        /\ \A t \in Slot : freeLink'[t] = IF t = s THEN local[th] ELSE freeLink[t]
    BY <1>2, <1>3, <2>1 DEF TypeOK, PoolOK
  <2>3. First(th) = local[th] /\ First(th)' = s
    BY <2>1, <2>2 DEF First
  <2>4. s \notin Range(q)
    BY <1>2, <1>4 DEF Returned
  <2>5. /\ Cons(s, q) \in Lists(Slot) /\ IsList(s, freeLink', Cons(s, q))
        /\ Range(Cons(s, q)) = Range(q) \cup {s}
    BY <1>4, <1>5, <2>2, <2>3, <2>4, SlotsFinite, ListPush
  <2>6. Returned(th)' = Returned(th) \cup {s}
    BY <1>1, <1>2, <1>3, <2>2, SlotsFinite DEF Returned
  <2>7. \E r \in Lists(Slot) : IsList(First(th)', freeLink', r) /\ Range(r) = Returned(th)'
    BY <1>4, <2>3, <2>5, <2>6
  <2>8. PoolOK(th)'
    BY <2>2, <2>7 DEF PoolOK
  <2>9. ASSUME NEW x \in Thread, x # th PROVE PoolOK(x)'
    <3>1. PoolOK(x) /\ freeing[x] \in Slot \cup {NULL} /\ PoolOf[x] # p
      BY <2>9 DEF PoolInv, TypeOK, PoolPrivate
    <3>2. step'[x] = step[x] /\ local'[x] = local[x] /\ freeing'[x] = freeing[x]
      BY <2>1, <2>9 DEF TypeOK
    <3>3. \A t \in Slot : t[1] = PoolOf[x] => freeLink'[t] = freeLink[t]
      BY <1>3, <2>2, <3>1
    <3>4. QED
      BY <1>1, <2>1, <3>1, <3>2, <3>3, PoolUntouched
  <2>10. QED
    BY <1>1, <2>8, <2>9 DEF PoolInv
<1>8. QED
  BY <1>6, <1>7 DEF Finalize

LEMMA InitPrivate == Init => IInv
<1> SUFFICES ASSUME Init PROVE IInv
  OBVIOUS
<1> USE DEF Init, PoolInit
<1>1. GInv
  BY InitGeneral
<1>2. <<>> \in Lists(Slot) /\ IsList(NULL, freeLink, <<>>) /\ Range(<<>>) = {}
  BY SlotsFinite, NullIsEmptyList
<1>3. ASSUME NEW th \in Thread PROVE PoolOK(th)
  <2>1. First(th) = NULL /\ exhausted[PoolOf[th]] = 0
    BY SlotsFinite DEF First
  <2>2. Returned(th) = {}
    BY <2>1, SlotsFinite DEF Returned
  <2>3. QED
    BY <1>2, <2>1, <2>2 DEF PoolOK
<1>4. PoolInv
  BY <1>3 DEF PoolInv
<1>5. NoneLost
  BY ConnAssumption DEF NoneLost
<1>6. QED
  BY <1>1, <1>4, <1>5 DEF IInv

LEMMA StepPrivate ==
  ASSUME PoolPrivate
  PROVE  IInv /\ [Next]_vars => IInv'
<1> SUFFICES ASSUME IInv, [Next]_vars PROVE IInv'
  OBVIOUS
<1>a. GInv /\ TypeOK /\ StepInv /\ OwnersInv /\ PoolInv /\ NoneLost
  BY DEF IInv, GInv
<1>1. GInv'
  BY <1>a, StepGeneral
<1>2. NoneLost'
  BY <1>a, SpawnTakesFree, StepOwners
<1>3. PoolInv'
  <2>1. ASSUME UNCHANGED poolVars, UNCHANGED task PROVE PoolInv'
    BY <1>a, <2>1, PoolSame
  <2>2. ASSUME NEW th \in Thread,
               \/ SpawnReplica(th) \/ MainStarts \/ Socket(th) \/ SocketFails(th)
               \/ Bind(th) \/ BindFails(th) \/ Accepted(th) \/ AcceptFails(th)
               \/ PoolExhausted(th) \/ Retry(th) \/ UNCHANGED vars
        PROVE  PoolInv'
    BY <2>1, <2>2
       DEF SpawnReplica, MainStarts, Socket, SocketFails, Bind, BindFails, Accepted,
           AcceptFails, PoolExhausted, Refused, Retry, vars
  <2>3. ASSUME NEW c \in Conn, Shut(c) \/ \E th \in Thread : Connect(c, th)
        PROVE  PoolInv'
    BY <2>1, <2>3 DEF Shut, Connect
  <2>4. ASSUME NEW s \in Slot, Read(s) \/ ReadEnds(s) \/ Sent(s) \/ SendFails(s) \/ Close(s)
        PROVE  PoolInv'
    <3>1. /\ UNCHANGED poolVars /\ task[s] # NULL
          /\ Goes(s, "read") \/ Goes(s, "send") \/ Goes(s, "close") \/ Goes(s, "closed")
      BY <2>4 DEF Read, ReadEnds, Sent, SendFails, Close, Is
    <3>2. /\ task'[s] # NULL /\ task'[s].by = task[s].by
          /\ \A t \in Slot : t # s => task'[t] = task[t]
      BY <1>a, <3>1, TaskGoes
    <3>3. QED
      BY <1>a, <3>1, <3>2, PoolSame
  <2>5. QED
    BY <1>a, <2>2, <2>3, <2>4, PoolPrepare, PoolSpawn, PoolFinish, PoolFinalize, MainAssumption
       DEF Next, Starts, Accepts, Spawns, InPoolStep, Echoes
<1>4. QED
  BY <1>1, <1>2, <1>3 DEF IInv

-----------------------------------------------------------------------------
(* The properties follow from the invariant.                               *)

(* A predicate with at most one solution, and its cardinality.             *)
LEMMA OneOrNone ==
  ASSUME NEW S, \A a, b \in S : a = b
  PROVE  /\ S = {} => Cardinality(S) = 0
         /\ S # {} => Cardinality(S) = 1
<1>1. CASE S = {}
  BY <1>1, FS_EmptySet
<1>2. CASE S # {}
  <2>1. PICK a : a \in S
    BY <1>2
  <2>2. S = {a}
    BY <2>1
  <2>3. Cardinality({a}) = 1
    BY FS_Singleton
  <2>4. QED
    BY <1>2, <2>2, <2>3
<1>3. QED
  BY <1>1, <1>2

LEMMA Accounted == IInv => DescriptorsAccounted
<1> SUFFICES ASSUME IInv PROVE DescriptorsAccounted
  OBVIOUS
<1>1. TypeOK /\ OwnersInv /\ NoneLost
  BY DEF IInv, GInv
<1>2. \A h \in Holders : HeldBy(h).fd \in Fd /\ HeldBy(h).conn \in Conn
  BY <1>1, HolderTypes
<1>3. ASSUME NEW c \in Conn
      PROVE  LET waits == {th \in Thread : Waits(th, c)}
                 holds == {h \in Holders : HeldBy(h).conn = c}
             IN /\ Cardinality(waits) + Cardinality(holds) = IF net[c] = "away" THEN 0 ELSE 1
                /\ Cardinality({f \in Fd : fdTable[f] = c}) = Cardinality(holds)
  <2> DEFINE waits == {th \in Thread : Waits(th, c)}
             holds == {h \in Holders : HeldBy(h).conn = c}
             fds == {f \in Fd : fdTable[f] = c}
  <2>1. \A a, b \in waits : a = b
    BY <1>1 DEF OwnersInv
  <2>2. \A g, h \in holds : g = h
    BY <1>1 DEF OwnersInv
  <2>3. \A f \in fds : \E h \in holds : HeldBy(h).fd = f
    BY <1>1, <1>2 DEF OwnersInv, NoneLost
  <2>4. \A f, g \in fds : f = g
    BY <2>2, <2>3
  <2>5. \A h \in holds : HeldBy(h).fd \in fds
    BY <1>1, <1>2 DEF OwnersInv
  <2>6. fds = {} <=> holds = {}
    BY <2>3, <2>5
  <2>7. net[c] = "away" => waits = {} /\ holds = {}
    BY <1>1 DEF OwnersInv
  <2>8. net[c] # "away" => waits # {} \/ holds # {}
    BY <1>1 DEF NoneLost
  <2>9. waits = {} \/ holds = {}
    BY <1>1 DEF OwnersInv
  <2>10. /\ Cardinality(waits) = IF waits = {} THEN 0 ELSE 1
         /\ Cardinality(holds) = IF holds = {} THEN 0 ELSE 1
         /\ Cardinality(fds) = IF fds = {} THEN 0 ELSE 1
    <3> HIDE DEF waits, holds, fds
    <3>1. QED
      BY <2>1, <2>2, <2>4, OneOrNone
  <2> HIDE DEF waits, holds, fds
  <2>11. Cardinality(waits) + Cardinality(holds) = IF net[c] = "away" THEN 0 ELSE 1
    BY <2>7, <2>8, <2>9, <2>10
  <2>12. Cardinality(fds) = Cardinality(holds)
    BY <2>6, <2>10
  <2>13. QED
    BY <2>11, <2>12 DEF waits, holds, fds
<1>4. QED
  BY <1>1, <1>3 DEF DescriptorsAccounted, OwnersInv

(* An entry task that goes from a connection to yield_now got None.        *)
LEMMA OnlyExhaustionYields ==
  ASSUME GInv, [Next]_vars, NEW th \in Thread, server[th] = "hold", server'[th] = "yield"
  PROVE  Refused(th)
<1>1. server \in [Thread -> ServerState]
  BY DEF GInv, TypeOK
<1>2. ASSUME NEW x \in Thread, PoolExhausted(x) PROVE Refused(th)
  BY <1>1, <1>2 DEF PoolExhausted, Becomes
<1>3. ASSUME NEW x \in Thread, NEW new, new # "yield", Becomes(x, new) PROVE FALSE
  BY <1>1, <1>3 DEF Becomes
<1>4. ASSUME UNCHANGED server PROVE FALSE
  BY <1>4
<1>5. CASE UNCHANGED vars
  BY <1>4, <1>5 DEF vars
<1>6. CASE MainStarts
  BY <1>3, <1>6, MainAssumption DEF MainStarts
<1>7. ASSUME NEW x \in Thread, Starts(x) \/ Accepts(x) PROVE FALSE
  BY <1>3, <1>7 DEF Starts, SpawnReplica, Socket, SocketFails, Bind, BindFails,
                    Accepts, Accepted, AcceptFails
<1>8. ASSUME NEW x \in Thread, Prepare(x) \/ Retry(x) \/ InPoolStep(x) PROVE FALSE
  BY <1>3, <1>4, <1>8 DEF Prepare, Retry, InPoolStep, SpawnConnection, Finalize
<1>9. ASSUME NEW s \in Slot, Echoes(s) PROVE FALSE
  BY <1>4, <1>9 DEF Echoes, Read, ReadEnds, Sent, SendFails, Close, Finish
<1>10. ASSUME NEW c \in Conn, Shut(c) \/ \E x \in Thread : Connect(c, x) PROVE FALSE
  BY <1>4, <1>10 DEF Shut, Connect
<1>11. QED
  BY <1>2, <1>5, <1>6, <1>7, <1>8, <1>9, <1>10 DEF Next, Spawns

LEMMA RefusalIsFull ==
  ASSUME IInv, NEW th \in Thread, Refused(th)
  PROVE  \A i \in 1..N : task[<<PoolOf[th], i>>] # NULL
<1>1. /\ step[th] = "none" /\ freeHead[PoolOf[th]] = NULL /\ exhausted[PoolOf[th]] = N
      /\ freeing[th] = NULL /\ PoolOK(th)
  BY DEF Refused, InPool, IInv, GInv, StepInv, PoolInv
<1>2. PICK q \in Lists(Slot) : IsList(First(th), freeLink, q) /\ Range(q) = Returned(th)
  BY <1>1 DEF PoolOK
<1>3. Returned(th) = {}
  BY <1>1, <1>2, SlotsFinite, ListAtNull DEF First
<1>4. ASSUME NEW i \in 1..N PROVE task[<<PoolOf[th], i>>] # NULL
  <2> DEFINE s == <<PoolOf[th], i>>
  <2>1. s \in Slot /\ s[1] = PoolOf[th] /\ s[2] <= exhausted[PoolOf[th]] /\ s # freeing[th]
    BY <1>1, SlotsFinite DEF Slot
  <2>2. QED
    BY <1>3, <2>1 DEF Returned
<1>5. QED
  BY <1>4

(* A slot with a task keeps that task until the task is gone.              *)
LEMMA TaskKept ==
  ASSUME IInv, [Next]_vars, NEW s \in Slot, task[s] # NULL, task'[s] # NULL
  PROVE  task'[s].conn = task[s].conn
<1>1. TypeOK /\ StepInv /\ PoolInv /\ task \in [Slot -> Task \cup {NULL}]
  BY DEF IInv, GInv, TypeOK
<1>2. ASSUME UNCHANGED task PROVE task'[s].conn = task[s].conn
  BY <1>2
<1>3. CASE UNCHANGED vars
  BY <1>2, <1>3 DEF vars
<1>4. CASE MainStarts
  BY <1>2, <1>4 DEF MainStarts
<1>5. ASSUME NEW x \in Thread, Starts(x) \/ Accepts(x) \/ Spawns(x) \/ Finalize(x)
      PROVE  task'[s].conn = task[s].conn
  BY <1>2, <1>5 DEF Starts, SpawnReplica, Socket, SocketFails, Bind, BindFails,
                    Accepts, Accepted, AcceptFails, Spawns, Prepare, PoolExhausted, Retry,
                    Finalize
<1>6. ASSUME NEW x \in Thread, SpawnConnection(x) PROVE task'[s].conn = task[s].conn
  <2>1. task[local[x]] = NULL /\ \A t \in Slot : t # local[x] => task'[t] = task[t]
    BY <1>1, <1>6, SpawnTakes, SpawnTakesFree
  <2>2. QED
    BY <2>1
<1>7. ASSUME NEW t \in Slot, Read(t) \/ ReadEnds(t) \/ Sent(t) \/ SendFails(t) \/ Close(t)
      PROVE  task'[s].conn = task[s].conn
  <2>1. /\ task[t] # NULL
        /\ Goes(t, "read") \/ Goes(t, "send") \/ Goes(t, "close") \/ Goes(t, "closed")
    BY <1>7 DEF Read, ReadEnds, Sent, SendFails, Close, Is
  <2>2. /\ task'[t].conn = task[t].conn
        /\ \A u \in Slot : u # t => task'[u] = task[u]
    BY <1>1, <2>1, TaskGoes
  <2>3. QED
    BY <2>2
<1>8. ASSUME NEW t \in Slot, Finish(t) PROVE task'[s].conn = task[s].conn
  BY <1>1, <1>8 DEF Finish
<1>9. ASSUME NEW c \in Conn, Shut(c) \/ \E x \in Thread : Connect(c, x)
      PROVE  task'[s].conn = task[s].conn
  BY <1>2, <1>9 DEF Shut, Connect
<1>10. QED
  BY <1>3, <1>4, <1>5, <1>6, <1>7, <1>8, <1>9 DEF Next, InPoolStep, Echoes

-----------------------------------------------------------------------------
(* What holds wherever the task function keeps its pool.                   *)

LEMMA InvarianceGeneral == SafeSpec => []GInv
BY InitGeneral, StepGeneral, PTL DEF SafeSpec

(* Every variable keeps its type; a backlog hands each peer out once.      *)
THEOREM TypeCorrect == SafeSpec => []TypeOK
<1>1. GInv => TypeOK
  BY DEF GInv
<1>2. QED
  BY <1>1, InvarianceGeneral, PTL

(* Even in a pool that two threads corrupt, no descriptor is taken for     *)
(* what it is not: who has it open is right about it, and no peer has two  *)
(* holders or waits while it is held (ops/net.rs:88-103, tcpecho            *)
(* main.rs:12-26).                                                         *)
THEOREM OwnersRight == SafeSpec => []OwnersInv
<1>1. GInv => OwnersInv
  BY DEF GInv
<1>2. QED
  BY <1>1, InvarianceGeneral, PTL

-----------------------------------------------------------------------------
(* What holds when each thread has a pool of its own.                      *)

(* The invariant, and with it the free list of each pool: the slots that   *)
(* finalize put back and prepare_task has not taken again                  *)
(* (async-executor lib.rs:201-248).                                        *)
THEOREM Invariance ==
  ASSUME PoolPrivate
  PROVE  SafeSpec => []IInv
<1>1. Init => IInv
  BY InitPrivate
<1>2. IInv /\ [Next]_vars => IInv'
  BY StepPrivate
<1>3. QED
  BY <1>1, <1>2, PTL DEF SafeSpec

(* Each open descriptor has one owner, each peer one holder or one place   *)
(* in a backlog: the replicated accepts and closes lose none (tcpecho      *)
(* main.rs:12-49).                                                         *)
THEOREM DescriptorsKept ==
  ASSUME PoolPrivate
  PROVE  SafeSpec => []DescriptorsAccounted
<1>1. SafeSpec => []IInv
  BY Invariance
<1>2. QED
  BY <1>1, Accounted, PTL

(* prepare_task answers None only when all N slots are in use: no slot is  *)
(* lost (async-executor lib.rs:180, 204-217).                              *)
THEOREM RefusesOnlyWhenFull ==
  ASSUME PoolPrivate
  PROVE  SafeSpec => RefusedOnlyWhenFull
<1>1. SafeSpec => []IInv
  BY Invariance
<1>2. IInv /\ [Next]_vars
        => [\A th \in Thread :
              server[th] = "hold" /\ server'[th] = "yield"
                => \A i \in 1..N : task[<<PoolOf[th], i>>] # NULL]_vars
  BY OnlyExhaustionYields, RefusalIsFull DEF IInv
<1>3. QED
  BY <1>1, <1>2, PTL DEF SafeSpec, RefusedOnlyWhenFull

(* A slot never gets a second task while it has one (async-executor        *)
(* lib.rs:199-200).                                                        *)
THEOREM NeverOverwrites ==
  ASSUME PoolPrivate
  PROVE  SafeSpec => NeverOverwritten
<1>1. SafeSpec => []IInv
  BY Invariance
<1>2. IInv /\ [Next]_vars
        => [\A s \in Slot : task[s] # NULL /\ task'[s] # NULL
                              => task'[s].conn = task[s].conn]_vars
  BY TaskKept
<1>3. QED
  BY <1>1, <1>2, PTL DEF SafeSpec, NeverOverwritten

==============================================================================
