# A verification project for reika

reika is a small asynchronous runtime for Linux: a single-threaded executor
without heap allocation (`async-executor`), an io_uring reactor per thread
(`reika-reactor`), macros that generate task pools, entry functions and the
`Future` of an I/O operation (`reika-macros`), and a facade (`reika`). This
directory holds TLA+ models of it, the TLC runs that check them, and proofs for
every value of the constants that TLAPS checks.

- [The system](#the-system)
- [The modules](#the-modules)
- [The runs](#the-runs)
- [Fairness](#fairness)
- [What is proved](#what-is-proved)
- [What the checks found](#what-the-checks-found)
- [What is not modelled](#what-is-not-modelled)
- [Plan](#plan)

## The system

| component | state | operations | talks to |
|---|---|---|---|
| run queue (`queue.rs` `TaskQueue`) | `head`; one `next` link in each task header | `enqueue` (push), `drain` (take all, last in first out) | executor, wakers |
| executor (`lib.rs` `Executor`) | the queue, the counter `spawned` | `spawn_task`, `run`, `enqueue` | polls tasks; calls the post-drain function after each drain |
| task storage (`TaskStorage`) | header (links, executor, function pointers), the future cell | `prepare_task`, `poll` | wakers point to the header |
| task pool (`TaskPool`, `TaskFreeList`) | N storages, `exhaust_list_cnt`, free list through a second link | `prepare_task`, `finalize` | the executor calls `finalize` when a future is Ready |
| waker (`waker.rs`) | a pointer to a header | clone, wake, drop (does nothing) | `wake_task`, hence `Executor::enqueue` |
| reactor (`reika-reactor/src/lib.rs`) | the ring, `req_queued` | `submit`, `flush`, `run`, `run_for_ns` | leaf futures submit; completions call wakers; the post-drain function calls `run` |
| leaf futures (`derive(Future)`) | a `ReactorRequest`: entry, `return_val`, waker | `poll`: result, or store waker and submit | reactor, waker |
| operations (`ops/io.rs`, `net.rs`, `core.rs`) | file descriptors | build a request, await it | leaf futures |
| generated code (`task`, `entry`, `replicate`) | `static mut POOL` per task function | prepare; spawn threads; run | pool, executor, reactor |

One thread runs one executor and one reactor, and they call each other in a
circle: `run` drains the queue and polls tasks; a poll submits requests and
leaves wakers; the post-drain function flushes the reactor, whose completions
call wakers, which push tasks on the queue for the next drain. The concurrency
is that of re-entrance (a task spawns, wakes or yields while the drain walks
the same links), of the kernel (completions and timers arrive between any two
steps of the thread), and of threads that share a pool.

What makes each part correct, and what is hard about it:

- **Run queue, executor.** One link per task serves both the queue that is
  filled and the batch that is drained. No task may be lost, queued twice or
  polled after it finished; `run` ends on a counter and must not end early; a
  task that keeps yielding must not starve the others or the reactor.
- **Task pool.** A slot has one owner: it is fresh, prepared, running a task or
  on the free list.
- **Reactor.** Two counts decide everything: `req_queued` whether `run` may
  sleep, `timeouts` when `run_for_ns` may return. Both are adjusted in
  `flush_completions`, which is called from three places, and the second is
  handed from function to function as a local. A wrong count is a panic, an
  endless loop, or a sleep with work pending.
- **Leaf futures.** A request is in flight while the future that holds it stays
  where it is, and it is submitted once.
- **Generated code.** A pool is a `static mut` of the function that the `task`
  macro makes. The `entry` macro copies the body of a replicated entry function,
  so a task function inside of it, as in tcpecho, has a pool per thread; one
  that is declared outside is called by all threads, and its pool is shared.
- **TCP server.** Descriptors are numbers that the process reuses as soon as one
  is closed, on whichever thread; a connection must have one owner through the
  accept, the wait for a slot, and the task. A failed `unwrap` ends one thread,
  or the process.
- **Files.** `read` and `write` share a position, which u64::MAX stands for; the
  programs take a short read for the end and do not look at short writes.

## The modules

| module | models | based on |
|---|---|---|
| `IntrusiveList` | which sequence of nodes a head pointer and links denote | `queue.rs` |
| `TaskScheduler` | what the executor promises, without pointers: `active`, `ready`, `batch`, `current` | abstract |
| `Executor` | run queue, executor, storages, one pool, wakers | `IntrusiveList` |
| `Reactor` | the reactor of one thread and the kernel | |
| `Runtime` | the thread of an entry function: tasks, leaf futures, scheduler and reactor | `TaskScheduler` |
| `SharedPool` | the pool of a task function, as several threads read and write it | `IntrusiveList` |
| `EchoServer` | tcpecho: replicated threads, listeners, connection tasks, the descriptors and the backlogs of the kernel | `SharedPool` |
| `MCEchoServer` | the two values of `PoolOf` | `EchoServer` |
| `Files` | file operations, open options, cp, cat, and two tasks that share a File | |
| `IntrusiveListProofs` | lemmas on lists: push, pop, frame, uniqueness | `IntrusiveList` |
| `ExecutorProofs` | the inductive invariant of `Executor` and its theorems | `Executor` |
| `ExecutorRefinement` | the proof that `Executor` implements `TaskScheduler` | `ExecutorProofs` |
| `ReactorProofs` | the invariants of `Reactor`, under every fault and under mild ones, and its theorems | `Reactor` |
| `RuntimeProofs` | the invariants of `Runtime`, for every `Width` and for 1, its theorems, and the proof that it implements `TaskScheduler` | `Runtime` |
| `EchoServerProofs` | the invariants of `EchoServer`, for every `PoolOf` and for a pool per thread, and its theorems | `EchoServer`, `IntrusiveListProofs` |
| `FilesProofs` | lemmas on files as sequences, the inductive invariant of `Files` and its theorems | `Files` |

### Executor

The variables are the fields of the code (`head`, `link`, `freeHead`,
`freeLink`, `exhausted`, `spawned`), the local of `drain` (`cursor`), the
contents of the future cells (`fut`), and what the user holds: `prepared` are
the `TaskRef`s returned by `prepare_task` and not yet spawned, `waits[t]` the
clones of t's waker that somebody will still call. The executor is one thread,
so a step is what happens between two points where code of the user runs; `pc`
says whether that code runs outside `run`, in a poll, or in the post-drain
function.

| action | code |
|---|---|
| `PrepareFresh`, `PrepareReused` | the two ways `TaskPool::prepare_task` finds a storage (`lib.rs:201-233`, `queue.rs:119-140`) |
| `SpawnTask`, `SpawnBoxed` | `Executor::spawn_task`; `PerThreadExecutor::spawn` |
| `Run`, `LoopAgain` | the call of `run`, the next turn of its loop: both take the queue |
| `DrainTake`, `DrainDone` | one turn of the `while` of `drain`; its end, after which the post-drain function runs |
| `PollReady`, `PollPending`, `PollYield` | what `poll_fn` returned and what `run` does then |
| `WakeByRef` | `wake_task` through a waker |
| `ReturnFromRun` | `spawned == 0` |

`prepare_task` on an exhausted pool returns None and changes nothing, so it is
no step. `MaxWaits` is the number of wake-ups one task can be waiting for: 1
for a task that awaits one future after the other, as all programs of the
repository do, and 2 for a task that joins futures. A wake happens where user
code runs, as does a completion (in the post-drain function). A task finishes
with no waker outstanding, for its requests live in its futures. A nested call
of `run` from inside a task is left out.

`TaskScheduler` is the abstract specification. Its `Wake` needs a parked task;
the executor's has no such guard, and the refinement shows that none is needed
with one wake-up per task. The refinement maps `ready` and `batch` to the lists
that `head` and `cursor` denote, `active` to the live futures that were spawned.

### Reactor

The thread is a program counter and three names for the calls on its stack:
`api` (flush, run or run_for_ns), `site` (which call of `flush_submissions`:
`flush0` and `flush1` from `flush` with want 0 and 1, `push` from the full
queue) and `reaper` (which call of `flush_completions`: `flush`, `busy` or
`drain`). The locals `timeouts` and `etime` exist once per function, since the
code passes and returns them by value: that is what the model is about.

| action | code |
|---|---|
| `Submit`, `TakeResult` | `Reactor::submit`; the poll that finds `return_val` |
| `CallFlush`, `CallRun`, `CallRunForNs` | the public functions |
| `RunReturns`, `RunSleeps` | the branch of `run` on `requires_reaping` |
| `PushTimer`, `PushTimerFull`, `PushTimerAgain` | the head of the loop of `run_for_ns` |
| `Enter`, `WaitDone`, `WaitInterrupted`, `EnterPartial`, `EnterBusy`, `EnterFails` | `submit_and_wait` and what `flush_submissions` does with its result |
| `BeginPass`, `ReapRequest`, `ReapTimer`, `PassEnds` in `PassRepeats`, `PassReturnsTo...` | `flush_completions` |
| `DrainReaps`, `DrainReturns` | the last loop of `run_for_ns` |
| `KernelCompletes`, `TimerFires` | the kernel |

Abstractions. The rings are sets and counts: where each request is and how many
timers are in each place. Their order is left out, except that a short
submission takes requests before a timer, since no task runs while `run_for_ns`
pushes (after a fatal error a timer may be in front). Timers complete with
-ETIME. io_uring is external: a call that submitted something reports success
even if a signal cut its wait short; a short submission does not wait; EBUSY,
EAGAIN and other errors submit nothing. A decrement of `timeouts` at 0 is a
panic, as in a build with overflow checks (`pc = "crashed"`); without them the
counter wraps and the last loop of `run_for_ns` does not end. `refused`,
`faults` are history: how many pushes failed and how many faults happened.
`flush` is called with (0, 0, false), as everywhere in the repository.

### Runtime

The thread that `#[entry]` generates. A task's future is reduced to what it
awaits: `Width` leaf futures at a time (1 for `.await`, 2 for a join), each with
its request; `fut[l]` is "none" when the future does not exist, "pending" or
"ready" (`return_val` is Some), and `sq`, `kernel`, `cq`, `pass` count the ring
entries that point to the request of l. The poll is the one `derive(Future)`
generates: a result is taken; without one the waker is stored and the request
submitted, whether or not it has been before; a failed push wakes the task.

The executor is taken as `TaskScheduler`, which `Executor` implements provided
that no task is woken twice between two polls (`MaxWaits = 1`); `Runtime` is
checked to implement `TaskScheduler` too, whose `Wake` needs a parked task. So
the two together show that reactor and leaf futures keep the promise that
`TaskQueue::enqueue` asks of its callers, for tasks that await one future after
the other. The reactor is taken as one flush and one reaping pass per drain:
`SleepsOnlyIdle` of `Reactor` says that the sleep of `run` has no request to
deal with, and faults of `submit_and_wait` stay in `Reactor`.

| action | code |
|---|---|
| `SpawnTask`, `Run`, `DrainTake`, `DrainDone`, `LoopAgain`, `ReturnFromRun` | the executor's, as in `TaskScheduler` |
| `PollAwaits`, `PollAgain`, `PollFinishes` | one call of `TaskStorage::poll`, down to the derived polls |
| `Flush`, `BeginPass`, `Reap`, `PassEnds` | `PerThreadReactor::run` as post-drain function |
| `KernelCompletes` | the kernel |

### SharedPool and EchoServer

`SharedPool` has the fields of `TaskPool` and `TaskFreeList` (`exhausted`,
`freeHead`, `freeLink`) and makes each read and each write of them a step of the
thread that is in the pool's code (`step`, `local`, `freeing`). `PoolOf[th]` is the
static that th's copy of the task function uses. A data race is undefined
behaviour; the model takes the plain outcome, every field read and written once
in the order of the source, which is enough for a violation.

`EchoServer` adds the program. `server[th]` is where th's entry task awaits,
`listener` and `held` are its locals, `task[s]` is the future in slot s with the
descriptor it was given. What the descriptor *refers to* is `fdTable`, which
the kernel gives out lowest first; `conn` in `held` and `task` is what the
accept returned, so the two can be compared. A poll is one step, except in the
pool's code, and a thread that is there polls nothing else.

| action | code |
|---|---|
| `SpawnReplica`, `MainStarts` | the head of the first copy that `entry_run` makes (`reika-macros/src/lib.rs:374-397`) |
| `Socket`, `SocketFails`, `Bind`, `BindFails` | `TcpListner::bind`; tcpecho unwraps it |
| `Accepted`, `AcceptFails` | `accept().await.unwrap()`: the kernel completes it, or EMFILE |
| `Prepare` (`LoadCount`, `LoadHead`), `SpawnConnection` (`StoreCount`, `StoreNext`) | `connection_pool(connection)`, that is `prepare_task`, and `spawn_task` |
| `PoolExhausted`, `Retry` | None, `yield_now`, once more |
| `Read`, `ReadEnds`, `Sent`, `SendFails`, `Close` | the connection task |
| `Finish` (`FreeLoad`), `Finalize` (`FreeStoreHead`, `FreeStoreLink`) | the future is dropped; `TaskPool::finalize` |
| `Connect`, `Shut` | the peers |

`failed` is a thread that panicked before it listened, `dead` one after: its
listener stays open and gets connections. If that thread is `Main` the process
has exited and nothing happens any more. Left out: payloads, and the check
`sock_fd == 0` (`net.rs:76`), which a Rust program does not meet before it closes
descriptor 0 itself, for the runtime opens 0 to 2.

### Files

An operation of `io.rs` is an operator that makes a request (`Open`, `Read`,
`ReadAt`, ...); the kernel performs it in a later step. `Flags` is what
`OpenOptions::open` computes; a set of bits, where O_RDONLY is none. `AsI64` and
`OffsetPanics` are the casts on the way of an offset. `program` says which
program runs: `cp` and `cat` are the two examples line by line, `share` is two
tasks with one File, which the operations allow (they take `&self`) and no
program of the repository does. A file is a sequence over "x", "hi", "lo", so
that a character of two bytes can be cut; the kernel may read or write less
than asked, or fail, and `faults` remembers that. A u64 has `2 * Half` values, and
`AsI64` makes the upper half of them negative. The source of cp and cat is any
sequence of up to `MaxSrc` bytes or missing; what the destination of cp and the
file of the sharing tasks hold before differs in length only.

## The runs

| run | expects | checks | instance |
|---|---|---|---|
| `executor_awaits` | pass | `TypeOK QueueIntact EachTaskOnce SpawnedExact PoolIntact RunReturnsIdle ImplementsScheduler WokenIsPolled` | 2 slots, 2 leaked tasks, fair |
| `executor_joined` | violation | `WakesUnqueuedTask` | 2 slots, 1 leaked task, MaxWaits = 2 |
| `reactor_requests` | pass | `TypeOK RequestsAccounted SleepsOnlyIdle` | 3 requests, queue of 2, every fault, 2 faults, 1 refused push |
| `reactor_timers` | pass | `TimersAccounted NoPanic CallReturns RequestsServed` | 2 requests, queue of 2, 2 signals, fair |
| `reactor_busy` | violation | `TimersAccounted` | one EBUSY |
| `reactor_short_submit` | violation | `CallReturns` | two short submissions, fair |
| `runtime_awaits` | pass | `TypeOK RequestLives ParkedAwaitsOne ImplementsScheduler CompletionPolled` | 3 tasks, Width 1, queue of 2, fair |
| `runtime_joined` | violation | `RequestLives` | 2 tasks, Width 2 |
| `runtime_starves` | violation | `RefusedIsSubmitted` | 2 tasks, Width 1, queue of 1, fair |
| `echo_server` | pass | `TypeOK DescriptorsAccounted RefusedOnlyWhenFull NeverOverwritten QueuedIsServed` | 2 threads, a pool of 1 slot each, 2 peers, 3 descriptors, fair |
| `echo_shared` | violation | `NeverOverwritten` | 2 threads over one pool of 2 slots, 2 peers |
| `files` | pass | `TypeOK CopyFaithful CatFaithful OffsetNeverPosition AppendNeverOverwrites ProgramEnds` | files of up to 4 bytes, buffers of 2, a u64 of 8 values, 2 shared operations, fair |

What the properties say:

- `QueueIntact`, `EachTaskOnce`: the pointers always denote two disjoint lists,
  and an unfinished task is in one of them, being polled, or waiting for a
  wake-up, exactly one of the three.
- `SpawnedExact`, `RunReturnsIdle`: the counter is the number of unfinished
  tasks, and `run` abandons nothing.
- `PoolIntact`: the free list is the set of dropped slots.
- `ImplementsScheduler`, `WokenIsPolled`: a drain takes what was ready when it
  began, so a task that yields in every poll does not keep others waiting.
- `RequestsAccounted`: `req_queued` against the requests themselves. Its last
  term is the leak of `submit`: a push that fails stays counted.
- `TimersAccounted`: the local `timeouts`, in whichever function it is at the
  moment, against the timers in the rings.
- `SleepsOnlyIdle`: `run` blocks for its timer only with no request in flight.
- `NoPanic`, `CallReturns`, `RequestsServed`: the thread neither panics nor
  stays inside the reactor, and what was submitted is delivered.
- `RequestLives`: while an entry points to a request, its future exists.
- `ParkedAwaitsOne`: a task that waits has exactly one completion to come: it
  neither waits for a wake-up that never comes nor for two.
- `CompletionPolled`, `RefusedIsSubmitted`: a completion leads to a poll; a
  refused request is submitted in the end.
- `DescriptorsAccounted`: each open descriptor is one listener's or one
  connection's, whose owner takes it for that; each peer is in one backlog, or
  has one owner and one descriptor.
- `RefusedOnlyWhenFull`, `NeverOverwritten`: the pool loses no slot and gives none
  out twice.
- `QueuedIsServed`: if no peer stays for ever, a connection that is waiting gets a
  task, unless its thread or the process has died.
- `CopyFaithful`: what cp has written and read at each moment, and at its end,
  with the source as destination and an older, longer destination among the
  cases; `CatFaithful`: what cat prints and when it may panic; `ProgramEnds`.
- `OffsetNeverPosition`: for every u64, `read_at` and `write_at` leave the position
  alone. `AppendNeverOverwrites`: with every combination of the other options.

Bounds. Three tasks are the least with which a task in the middle of a list,
one in the batch and one in the new queue exist at once; `executor_awaits` has
four, with the change-over from fresh to reused slots at 2 (and the theorems
hold for every number). A submission queue
of 2 is full with two requests, so the timer finds it full, flushes and pushes
again, and leaves room for one request and the timer. `MaxFaults = 2` lets a
fault follow a fault, in one call or in two; `MaxRefused = 1` suffices for a
count that differs. Timers and passes are not bounded: they are finite because
the queue is. Two threads, one slot each and three descriptors for two listeners
and two peers make every limit of `EchoServer` a common case: a full pool with
the next connection in hand, EMFILE at the socket and at the accept, a
descriptor that one thread closes and the other gets; the shared pool has two
slots, so that taking the same one is not forced. Files of up to twice the
buffer, empty ones and missing ones included, give cp a last read that is
empty, short or full; with 8 values a u64 has offsets of both signs and u64::MAX.
CHECK_DEADLOCK is off in `EchoServer`, where the process may exit, and in
`Files`, whose programs end; it is on in the other runs, where a panic is a state
that stutters.

## Fairness

`Executor`: once `run` is called, its thread continues: polls return, the drain
takes the next task, the post-drain function returns. Weak fairness of those
steps is all: calls of wakers, spawns and the call of `run` are the user's.

`Reactor`: weak fairness of the thread inside the reactor (not of faults), of a
timer the kernel holds, and of `CallRun`: the generated entry function passes
`PerThreadReactor::run` as post-drain function (`reika-macros/src/lib.rs:412-416`),
so the executor calls it after each drain for as long as a task is unfinished.
A request may never complete (an accept on an idle socket), so there is no
fairness for `KernelCompletes`.

`Runtime`: weak fairness of the thread once `run` is called.

`EchoServer`: weak fairness of the start of each thread, of accepts, and of the
steps in the pool's code; strong fairness of the spawning of an accepted
connection and of each connection task, because other tasks of the thread stop
them time and again: that a woken task is polled in spite of the others is
`WokenIsPolled` of `Executor`, and that its completion wakes it `CompletionPolled`
of `Runtime`. Peers owe nothing; `QueuedIsServed` has their leaving as a premise.

`Files`: weak fairness of the programs and of the kernel, for reads and writes of
a file complete.

## What is proved

Every safety property that a passing run checks is a theorem, and so are some
more. The proofs are for all values of the constants that satisfy the named
assumptions of the modules (sets are finite and not empty, sizes are positive,
NULL is none of the values), which TLC evaluates in the runs. Where a property
is false for some instances, what excludes them is a hypothesis of the theorem,
with a run that shows it false without it. Each module of proofs has the same
shape: the inductive invariant, in named parts; lemmas on the data; one lemma
per action; the theorems.

| theorems of | hypothesis | because |
|---|---|---|
| `ExecutorProofs`, `ExecutorRefinement` | `MaxWaits = 1` | `executor_joined` |
| `ReactorProofs`: `CountsTimers`, `NeverPanics` | `MildFaults` | `reactor_busy` |
| `ReactorProofs`: the others | none | |
| `RuntimeProofs`: `Invariance` and what follows from it | `Width = 1` | `runtime_joined` |
| `RuntimeProofs`: `TypeCorrect`, `WakesNotLost` | none | |
| `EchoServerProofs`: `Invariance` and what follows from it | `PoolPrivate` | `echo_shared` |
| `EchoServerProofs`: `TypeCorrect`, `OwnersRight` | none | |
| `FilesProofs` | none | |

**Executor.** For any pool size N and any finite set of leaked tasks, `IInv` is
an invariant of `SafeSpec`, and from it `TypeOK`, `QueueIntact`, `EachTaskOnce`,
`SpawnedExact`, `PoolIntact` and `RunReturnsIdle`. None of the six is inductive.
That the queue is a list after a push needs that the pushed task was in neither
list; that comes from where the task was: waiting, running, or prepared. So
`QueueInv` names the two lists (r from `head`, d from `cursor`) and states the
partition at once: the unfinished tasks are those of r and d, the waiting ones
and the running one, and these are disjoint. `PcInv` ties `pc` to `running` and
`cursor` (no batch is left outside a drain, hence taking the queue loses
nothing), and `HeaderInv` says that every spawned task knows its executor, so
that a wake does enqueue. The list reasoning is in `IntrusiveListProofs` (push,
pop, frame, and that a head pointer denotes at most one list).

`ExecutorRefinement` proves `SafeSpec => Scheduler!SafeSpec` from the same
invariant: on the lists that `head` and `cursor` denote, each action of
`Executor` is the action of `TaskScheduler` of the same meaning, and the two
actions that prepare a task leave the scheduler's state alone. That needs the
invariant twice over: a push or pop acts on the denoted list only because the
queue is intact, and `spawned = 0` means that no task is left only because the
counter is exact.

**Reactor.** For any finite set of requests, any submission queue and any number
of faults. Under every kind of fault: `RequestsAccounted`, `SleepsOnlyIdle` and
the types, which include that `req_queued` does not wrap. The count needs to know
where a pass is (`PassInv`: what the loop has still to visit is in the completion
queue, and `collected` is zero outside of it), and that the thread sleeps only
when idle needs to know who called whom (`StackInv`) and that nothing is in
flight from the check in `run` to its return (`SleepInv`). `TimersAccounted` and
`NoPanic` hold for signals and short submissions: with EBUSY or EAGAIN `flush`
drops the pair that counts the timers (`reactor_busy`), and after any other
error `run_for_ns` returns with its timers still in the rings. `PairsInv` says
that the copies of the pair agree where one is handed on, `RoomInv` that the
kernel has made room before the second push of a timer, which unwraps.

**Runtime.** For any finite set of tasks and any submission queue. However many
leaf futures a task joins: the types, and `NoWakeLost` (of `RuntimeProofs`): a task
that waits has a completion to come for every leaf future it still waits for,
also when some of the pushes of one poll failed and others did not. No run checks
it. With one leaf future it follows from `ParkedAwaitsOne`; with more it says
something of the code until a queued task is woken again (`executor_joined`) or a
completion finds its request gone (`runtime_joined`): the code is undefined from
there on, and it is a statement about the model's choice.

For `Width = 1`: `RequestLives`, `ParkedAwaitsOne`, and
the safety part of `ImplementsScheduler`. `PlaceInv` says that an unfinished task
is in exactly one place, the run queue, the batch, the poll, or waiting for the
one entry that points to its request; `FutInv` that the request of an entry is
pending, and that a finished task has none. So what the reactor wakes is parked,
which is all that `TaskQueue::enqueue` asks of its callers.

**Echo server.** For any number of threads, slots, descriptors and peers.
Wherever the task function keeps its pool: the types, and `OwnersInv`, that a
holder of a descriptor is right about what it refers to and that no peer is held
twice or waits while it is held. (A shared pool that gives a slot out twice
loses a connection, it confuses none.) With a pool per thread:
`DescriptorsAccounted`, `RefusedOnlyWhenFull`, `NeverOverwritten`. `PoolInv` is
the free list of a pool between any two reads and writes of `prepare_task` and
`finalize`: between the two writes of a push the head is ahead of the list, so
the list begins at `First(th)`, and it holds the slots in `Returned(th)`, those
put back and not taken again. `NoneLost` is the other half of
`DescriptorsAccounted`: nothing open is without a holder.

**Files.** For files and buffers of any length, any number of offsets and any
number of tasks: `TypeOK`, `CopyFaithful`, `CatFaithful`, and the two action
properties. `OpenedInv` says which descriptor refers to which file where a
program is. `CopyProgress` is the loop invariant of cp while no write is short:
the destination is what it was, overwritten by the source up to its position,
and what was read and not yet written is in the result or the request; a read
that did not fill the buffer was the last of the file, unless it was short.
`CatProgress` is that of cat, and has besides that what is printed is a number
of full buffers (`FullBuffers`), from which the panics follow. Under them are
lemmas on sequences: overwriting part after part is overwriting by the whole
(`OverwriteNext`), a file onto itself is itself (`OverwriteSelf`), a write at the
end keeps the beginning (`AppendPrefix`), texts joined are text (`Utf8Join`), and
a part of a text is not text only if it cuts a character (`CutCharacter`).

Only model-checked: everything about liveness (`WokenIsPolled`, `CallReturns`,
`RequestsServed`, `CompletionPolled`, `QueuedIsServed`, `ProgramEnds`, the fairness
part of `ImplementsScheduler` in `Executor`), for fairness speaks of ENABLED,
which is out of the prover's reach.

## What the checks found

- `executor_joined`: nothing on the wake path looks whether the task is queued
  already, which `TaskQueue::enqueue` leaves to its caller (`queue.rs:50-51`).
  A task with two leaf futures in flight is woken twice by one flush and is
  linked to itself. The programs of the repository await one future at a time.
- `reactor_busy`: `flush` drops the pair that `flush_submissions` returns
  (`reika-reactor/src/lib.rs:116`).
- `reactor_short_submit`: the last loop of `run_for_ns` submits nothing
  (`lib.rs:166-168`), so a timer left in the submission queue never fires.
- `runtime_joined`: a join polls each unresolved leaf, and the derived poll
  submits a request that is in flight again (`reika-macros/src/lib.rs:457-474`);
  the second completion finds the future gone.
- `runtime_starves`: the run queue is a stack. A task whose push failed enqueues
  itself before the reactor wakes the others, is polled after them, and may
  find the submission queue full in every drain.
- `echo_shared`: a task function outside of the entry function has one pool for
  all threads (`reika-macros/src/lib.rs:178`). Both read the count, take the same
  slot, and the second connection's future is written over the first's.

Read but not run: `flush_completions(1)` after EBUSY or EAGAIN waits for a request
when there is none (`reika-reactor/src/lib.rs:197`, timers do not count);
`run_for_ns` drops what `Timespec::sec` and `nsec` return (`lib.rs:145-146`), so its
timers fire at once; a call that fails with timers outstanding leaves them to a
later call, whose count they take below 0. `OpenOptions` with `append` and without
`write` opens for reading only, and `File::create` does not truncate, unlike what
has these names in the standard library; cp leaves the tail of a longer
destination, and cat panics on valid UTF-8 that a buffer cuts (both are exceptions
that `CopyFaithful` and `CatFaithful` state).

## What is not modelled

- Wall-clock time and the `ns` argument.
- Errors of accept and socket other than EMFILE; the data that a connection task
  could still read after its peer has shut down; cp and cat without their
  arguments, which panic before they open anything.
- Payloads of the TCP operations: that a short `send` loses the rest of what was
  read (tcpecho `main.rs:17`) is left to the list of hazards.
- `sync_all`, `sync_data` and `fallocate`, which show only after a crash or as disk
  space; the cast of a buffer's length to u32, which needs buffers of 4 GiB.
- The attribute `replicate` (as in `entry_run`, without an executor), and what the
  macros reject at compile time.
- `set_cpu_affinity`, the unused error type, the empty crate `reika-storage`.
- A `TaskRef` that is spawned twice or on another thread; futures that are
  dropped while their request is in flight.

## Plan

1. Done: `Executor` with `TaskScheduler`; `Reactor`; `Runtime`; `SharedPool` and
   `EchoServer`; `Files`; the safety properties of all of them as theorems, and the
   refinements of `TaskScheduler` by `Executor` and `Runtime`.
2. Proofs: what holds of `Executor` for `MaxWaits > 1` (the types, the pool, that a
   wake-up is never lost), as is done for `Runtime`; what is left of the count of
   timers under the faults that `MildFaults` excludes.
3. `Runtime` with a future that is dropped in flight, and with `req_queued`: a
   leaked count turns sleeping into polling.
4. A short `send` in `EchoServer`.
