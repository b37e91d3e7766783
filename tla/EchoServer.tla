------------------------------- MODULE EchoServer -------------------------------
(***************************************************************************)
(* The replicated TCP server of examples/tcpecho over the operations of    *)
(* reika-reactor/src/ops/net.rs: every thread has a listener on the same   *)
(* port (SO_REUSEPORT), an entry task that accepts, and a connection task  *)
(* in a slot of a pool for each connection.                                *)
(*                                                                         *)
(* A step of a thread is one poll of one of its tasks, except in the code  *)
(* of the pool (SharedPool).  Executor, Reactor and Runtime are about how  *)
(* a task gets polled; here it is polled some time after its request       *)
(* completed.  The descriptors are those of the process, so what a close   *)
(* on one thread frees the next accept on another one may get.             *)
(***************************************************************************)
EXTENDS SharedPool

CONSTANTS
  Main,     \* the thread of `main`; the others are its replicas
  Conn,     \* the peers, each with one connection at a time
  MaxFd     \* the number of descriptors the process may open

ASSUME MainAssumption == Main \in Thread
ASSUME ConnAssumption ==
  IsFiniteSet(Conn) /\ NULL \notin Conn \cup Thread /\ Conn \cap Thread = {}
ASSUME MaxFdAssumption == MaxFd \in Nat \ {0}

Fd == 1..MaxFd

VARIABLES
  server,     \* what the entry task of each thread does
  listener,   \* TcpListner.sock_fd of each thread
  held,       \* the connection that it has accepted and not spawned yet
  task,       \* the connection task in each slot
  fdTable,    \* what each descriptor of the process refers to
  backlog,    \* the connections that each listener has not handed out
  net         \* each peer: "away", "up" or "shut" (no more data from it)

kernel == <<fdTable, backlog, net>>
vars == <<poolVars, server, listener, held, task, kernel>>

ServerState == {"unborn", "spawn", "socket", "bind", "accept", "hold", "yield",
                "failed", "dead"}
Connection == [fd : Fd, conn : Conn]
Task == [at : {"read", "send", "close", "closed"}, fd : Fd, conn : Conn, by : Thread]

ASSUME EchoNULLAssumption == NULL \notin Fd /\ NULL \notin Connection /\ NULL \notin Task

Running(th) == server[th] \notin {"unborn", "failed", "dead"}
Exited == ~Running(Main)
Free(th) == ~Exited /\ Running(th) /\ ~InPool(th)   \* can poll a task
Listens(th) == server[th] \in {"accept", "hold", "yield", "dead"}

FreeFds == {f \in Fd : fdTable[f] = NULL}
NewFd == CHOOSE f \in FreeFds : \A g \in FreeFds : f <= g

Becomes(th, state) == server' = [server EXCEPT ![th] = state]

Init ==
  /\ PoolInit
  /\ server = [th \in Thread |-> IF th = Main THEN "spawn" ELSE "unborn"]
  /\ listener = [th \in Thread |-> NULL]
  /\ held = [th \in Thread |-> NULL]
  /\ task = [s \in Slot |-> NULL]
  /\ fdTable = [f \in Fd |-> NULL]
  /\ backlog = [th \in Thread |-> <<>>]
  /\ net = [c \in Conn |-> "away"]

----------------------------------------------------------------------------
(* The entry task.  A failed unwrap ends its thread and leaves what it had *)
(* open; on the main thread it ends the process.                           *)

SpawnReplica(th) ==
  /\ server[Main] = "spawn" /\ server[th] = "unborn"
  /\ Becomes(th, "socket")
  /\ UNCHANGED <<poolVars, listener, held, task, kernel>>

MainStarts ==
  /\ server[Main] = "spawn"
  /\ \A th \in Thread : server[th] # "unborn"
  /\ Becomes(Main, "socket")
  /\ UNCHANGED <<poolVars, listener, held, task, kernel>>

Socket(th) ==
  /\ Free(th) /\ server[th] = "socket"
  /\ FreeFds # {}
  /\ fdTable' = [fdTable EXCEPT ![NewFd] = th]
  /\ listener' = [listener EXCEPT ![th] = NewFd]
  /\ Becomes(th, "bind")
  /\ UNCHANGED <<poolVars, held, task, backlog, net>>

SocketFails(th) ==
  /\ Free(th) /\ server[th] = "socket"
  /\ FreeFds = {}
  /\ Becomes(th, "failed")
  /\ UNCHANGED <<poolVars, listener, held, task, kernel>>

(* setsockopt, bind and listen, plain system calls between two awaits.     *)
Bind(th) ==
  /\ Free(th) /\ server[th] = "bind"
  /\ Becomes(th, "accept")
  /\ UNCHANGED <<poolVars, listener, held, task, kernel>>

(* One of them fails: bind returns the error and the socket stays open.    *)
BindFails(th) ==
  /\ Free(th) /\ server[th] = "bind"
  /\ Becomes(th, "failed")
  /\ UNCHANGED <<poolVars, listener, held, task, kernel>>

(* The kernel completes the accept, whatever the thread is at.             *)
Accepted(th) ==
  /\ ~Exited /\ server[th] = "accept"
  /\ backlog[th] # <<>> /\ FreeFds # {}
  /\ LET c == Head(backlog[th]) IN
       /\ fdTable' = [fdTable EXCEPT ![NewFd] = c]
       /\ held' = [held EXCEPT ![th] = [fd |-> NewFd, conn |-> c]]
  /\ backlog' = [backlog EXCEPT ![th] = Tail(@)]
  /\ Becomes(th, "hold")
  /\ UNCHANGED <<poolVars, listener, task, net>>

(* EMFILE: the kernel takes a descriptor before it looks at the backlog.   *)
AcceptFails(th) ==
  /\ Free(th) /\ server[th] = "accept"
  /\ FreeFds = {}
  /\ Becomes(th, "dead")
  /\ UNCHANGED <<poolVars, listener, held, task, kernel>>

(* connection_pool(connection): prepare_task gets to a slot ...            *)
Prepare(th) ==
  /\ Free(th) /\ server[th] = "hold"
  /\ LoadCount(th) \/ LoadHead(th)
  /\ UNCHANGED <<server, listener, held, task, kernel>>

(* ... puts the future there, and the entry task spawns it.                *)
SpawnConnection(th) ==
  /\ ~Exited
  /\ StoreCount(th) \/ StoreNext(th)
  /\ task' = [task EXCEPT ![local[th]] =
                [at |-> "read", fd |-> held[th].fd, conn |-> held[th].conn, by |-> th]]
  /\ held' = [held EXCEPT ![th] = NULL]
  /\ Becomes(th, "accept")
  /\ UNCHANGED <<listener, kernel>>

(* A mutant: a connection that found no slot is dropped, not closed.       *)
PoolExhaustedDrops(th) ==
  /\ Free(th) /\ server[th] = "hold"
  /\ Refused(th)
  /\ held' = [held EXCEPT ![th] = NULL]
  /\ Becomes(th, "accept")
  /\ UNCHANGED <<listener, task, kernel>>

(* None: yield_now, and another try.                                       *)
PoolExhausted(th) ==
  /\ Free(th) /\ server[th] = "hold"
  /\ Refused(th)
  /\ Becomes(th, "yield")
  /\ UNCHANGED <<listener, held, task, kernel>>

Retry(th) ==
  /\ Free(th) /\ server[th] = "yield"
  /\ Becomes(th, "hold")
  /\ UNCHANGED <<poolVars, listener, held, task, kernel>>

----------------------------------------------------------------------------
(* A connection task.  It keeps a descriptor; what that refers to is the   *)
(* kernel's affair.                                                        *)

Is(s, where) == task[s] # NULL /\ task[s].at = where
Goes(s, where) == task' = [task EXCEPT ![s].at = where]
Peer(s) == fdTable[task[s].fd]
PeerSends(s) == Peer(s) \in Conn /\ net[Peer(s)] = "up"

Read(s) ==
  /\ Is(s, "read") /\ Free(task[s].by)
  /\ PeerSends(s)
  /\ Goes(s, "send")
  /\ UNCHANGED <<poolVars, server, listener, held, kernel>>

(* A mutant: the end of the input is not noticed.                          *)
ReadEndsUnnoticed(s) ==
  /\ Is(s, "read") /\ Free(task[s].by)
  /\ ~PeerSends(s)
  /\ Goes(s, "send")
  /\ UNCHANGED <<poolVars, server, listener, held, kernel>>

(* 0 bytes or an error.                                                    *)
ReadEnds(s) ==
  /\ Is(s, "read") /\ Free(task[s].by)
  /\ ~PeerSends(s)
  /\ Goes(s, "close")
  /\ UNCHANGED <<poolVars, server, listener, held, kernel>>

Sent(s) ==
  /\ Is(s, "send") /\ Free(task[s].by)
  /\ Peer(s) \in Conn
  /\ Goes(s, "read")
  /\ UNCHANGED <<poolVars, server, listener, held, kernel>>

SendFails(s) ==
  /\ Is(s, "send") /\ Free(task[s].by)
  /\ ~PeerSends(s)
  /\ Goes(s, "close")
  /\ UNCHANGED <<poolVars, server, listener, held, kernel>>

(* The kernel closes what the descriptor refers to.                        *)
Close(s) ==
  /\ Is(s, "close") /\ ~Exited /\ Running(task[s].by)
  /\ fdTable' = [fdTable EXCEPT ![task[s].fd] = NULL]
  /\ net' = [c \in Conn |-> IF c = Peer(s) THEN "away" ELSE net[c]]
  /\ Goes(s, "closed")
  /\ UNCHANGED <<poolVars, server, listener, held, backlog>>

(* The future is dropped and the slot goes back to its pool.               *)
Finish(s) ==
  /\ Is(s, "closed") /\ Free(task[s].by)
  /\ FreeLoad(task[s].by, s)
  /\ task' = [task EXCEPT ![s] = NULL]
  /\ UNCHANGED <<server, listener, held, kernel>>

Finalize(th) ==
  /\ ~Exited
  /\ FreeStoreHead(th) \/ FreeStoreLink(th)
  /\ UNCHANGED <<server, listener, held, task, kernel>>

----------------------------------------------------------------------------
(* The peers.  The kernel hands a new connection to one of the listeners,  *)
(* that of a thread that died included.                                    *)

Connect(c, th) ==
  /\ ~Exited /\ Listens(th)
  /\ net[c] = "away"
  /\ net' = [net EXCEPT ![c] = "up"]
  /\ backlog' = [backlog EXCEPT ![th] = Append(@, c)]
  /\ UNCHANGED <<poolVars, server, listener, held, task, fdTable>>

Shut(c) ==
  /\ ~Exited /\ net[c] = "up"
  /\ net' = [net EXCEPT ![c] = "shut"]
  /\ UNCHANGED <<poolVars, server, listener, held, task, fdTable, backlog>>

----------------------------------------------------------------------------
Starts(th) == SpawnReplica(th) \/ Socket(th) \/ SocketFails(th) \/ Bind(th) \/ BindFails(th)
Accepts(th) == Accepted(th) \/ AcceptFails(th)
Spawns(th) == Prepare(th) \/ PoolExhausted(th) \/ Retry(th)
InPoolStep(th) == SpawnConnection(th) \/ Finalize(th)
Echoes(s) == Read(s) \/ ReadEnds(s) \/ Sent(s) \/ SendFails(s) \/ Close(s) \/ Finish(s)

Next ==
  \/ MainStarts
  \/ \E th \in Thread : Starts(th) \/ Accepts(th) \/ Spawns(th) \/ InPoolStep(th)
  \/ \E s \in Slot : Echoes(s)
  \/ \E c \in Conn : Shut(c) \/ \E th \in Thread : Connect(c, th)

(* A thread goes on, the kernel completes what it can, and an executor     *)
(* polls every woken task (Executor!WokenIsPolled).  The last is strong    *)
(* fairness, for a poll of one task stops those of the others.  Peers are  *)
(* free.                                                                   *)
Fairness ==
  /\ WF_vars(MainStarts)
  /\ \A th \in Thread :
       /\ WF_vars(Starts(th)) /\ WF_vars(Accepts(th)) /\ WF_vars(InPoolStep(th))
       /\ SF_vars(Spawns(th))
  /\ \A s \in Slot : SF_vars(Echoes(s))

SafeSpec == Init /\ [][Next]_vars
Spec == SafeSpec /\ Fairness

----------------------------------------------------------------------------
TypeOK ==
  /\ exhausted \in [Pool -> 0..N]
  /\ freeHead \in [Pool -> Slot \cup {NULL}]
  /\ freeLink \in [Slot -> Slot \cup {NULL}]
  /\ step \in [Thread -> {"none", "fresh", "pop", "push", "link"}]
  /\ local \in [Thread -> Slot \cup {NULL}]
  /\ freeing \in [Thread -> Slot \cup {NULL}]
  /\ server \in [Thread -> ServerState]
  /\ listener \in [Thread -> Fd \cup {NULL}]
  /\ held \in [Thread -> Connection \cup {NULL}]
  /\ task \in [Slot -> Task \cup {NULL}]
  /\ fdTable \in [Fd -> Thread \cup Conn \cup {NULL}]
  /\ backlog \in [Thread -> Lists(Conn)]
  /\ net \in [Conn -> {"away", "up", "shut"}]

Waits(th, c) == c \in Range(backlog[th])

(* The connections that the server has accepted and not closed.            *)
Holders == {h \in Thread \X {"held"} : held[h[1]] # NULL}
             \cup {h \in Slot \X {"task"} : task[h[1]] # NULL /\ ~Is(h[1], "closed")}
HeldBy(h) == IF h[2] = "held" THEN held[h[1]] ELSE task[h[1]]

(* Through accepts and closes on several threads, with descriptors that    *)
(* are closed on one and reused on another, each open descriptor has one   *)
(* owner, who takes it for what it is, and each peer waits in one backlog  *)
(* or has one holder: none is lost, served twice or closed for another.    *)
DescriptorsAccounted ==
  /\ \A th \in Thread : listener[th] # NULL => fdTable[listener[th]] = th
  /\ \A h \in Holders : fdTable[HeldBy(h).fd] = HeldBy(h).conn
  /\ \A f \in Fd : fdTable[f] \in Thread => listener[fdTable[f]] = f
  /\ \A c \in Conn :
       LET waits == {th \in Thread : Waits(th, c)}
           holds == {h \in Holders : HeldBy(h).conn = c}
       IN /\ Cardinality(waits) + Cardinality(holds) = IF net[c] = "away" THEN 0 ELSE 1
          /\ Cardinality({f \in Fd : fdTable[f] = c}) = Cardinality(holds)

(* prepare_task refuses a connection only when each slot of its pool is in *)
(* use: no slot is lost by all the takes and returns (TaskPool documents   *)
(* async-executor/src/lib.rs:180 "can hold up to N tasks").                *)
RefusedOnlyWhenFull ==
  [][\A th \in Thread :
       server[th] = "hold" /\ server'[th] = "yield"
         => \A i \in 1..N : task[<<PoolOf[th], i>>] # NULL]_vars

(* prepare_task stores a future in an available storage only               *)
(* (async-executor/src/lib.rs:199-200): a slot whose task has not finished *)
(* never gets another one.                                                 *)
NeverOverwritten ==
  [][\A s \in Slot : task[s] # NULL /\ task'[s] # NULL
                       => task'[s].conn = task[s].conn]_vars

(* If no peer stays for ever, a connection in the backlog of a thread gets *)
(* a task, unless the thread or the process has died: slots and entry task *)
(* come round in spite of a full pool.                                     *)
PeersFinish == \A c \in Conn : []<>(net[c] # "up")
Served(c) == \E s \in Slot : task[s] # NULL /\ task[s].conn = c
QueuedIsServed ==
  PeersFinish => \A th \in Thread, c \in Conn :
                   Waits(th, c) ~> (Served(c) \/ ~Running(th) \/ Exited)

==============================================================================
