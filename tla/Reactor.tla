-------------------------------- MODULE Reactor --------------------------------
(***************************************************************************)
(* The per-thread I/O reactor of reika-reactor/src/lib.rs over an          *)
(* io_uring: the executor's thread submits requests, flushes the           *)
(* submission queue, reaps completions and sleeps on timeout operations;   *)
(* the kernel completes requests and timers at any time in between.        *)
(*                                                                         *)
(* The thread's control is the program counter pc together with the names  *)
(* of the calls on its stack: api (the public function), site (the call of *)
(* flush_submissions) and reaper (the call of flush_completions).  Their   *)
(* locals `timeouts` and `etime`, which the code hands down and returns as *)
(* a pair, are three pairs of variables: those of run_for_ns, of           *)
(* flush_submissions (sub...) and of flush_completions (col...).           *)
(*                                                                         *)
(* The rings are abstracted to where each request is and how many timers   *)
(* are in each place; the order of entries within a ring is left out.      *)
(***************************************************************************)
EXTENDS Integers, FiniteSets

CONSTANTS
  Req,         \* the requests (addresses of ReactorRequest values)
  SQSize,      \* entries of the submission queue (512 in the code)
  Faults,      \* what submit_and_wait may do besides succeeding
  MaxFaults,   \* bound: how often it does so in a behaviour
  MaxRefused   \* bound: failed pushes of requests in a behaviour

ASSUME ReqAssumption == IsFiniteSet(Req)
ASSUME SQSizeAssumption == SQSize \in Nat \ {0}
ASSUME FaultsAssumption == Faults \subseteq {"intr", "busy", "partial", "fatal"}
ASSUME BoundsAssumption == MaxFaults \in Nat /\ MaxRefused \in Nat

VARIABLES
  place,        \* where each request is: "free" (not submitted), "sq",
                \* "kernel", "cq", or "done" (return_val is Some)
  sqTimers,     \* timeout operations in the submission queue,
  inTimers,     \* in the kernel,
  cqTimers,     \* and completed with -ETIME in the completion queue
  reqQueued,    \* Reactor.req_queued
  refused,      \* history: requests counted in reqQueued whose push failed
  faults,       \* faults that happened so far
  pc, api, site, reaper,
  submitted,    \* the submit_and_wait under way submitted something
  timeouts, etime,
  subTimeouts, subEtime,
  colTimeouts, colEtime,
  collected,    \* local of flush_completions
  passReqs, passTimers   \* completions its `for` loop has still to visit

rings   == <<place, sqTimers, inTimers, cqTimers>>
counts  == <<reqQueued, refused, faults>>
stack   == <<api, site, reaper, submitted>>
outer   == <<timeouts, etime>>
subs    == <<subTimeouts, subEtime>>
cols    == <<colTimeouts, colEtime, collected, passReqs, passTimers>>
vars == <<rings, counts, pc, stack, outer, subs, cols>>

Completed == {r \in Req : place[r] = "cq"}
InSQ == {r \in Req : place[r] = "sq"}
InFlight == {r \in Req : place[r] \in {"sq", "kernel", "cq"}}

SQFull == Cardinality(InSQ) + sqTimers >= SQSize

(* The argument `want` of submit_and_wait and of flush_completions.        *)
WantOf(s) == IF s = "flush1" THEN 1 ELSE 0
WantToReap(c) == IF c = "busy" THEN 1 ELSE 0

Init ==
  /\ place = [r \in Req |-> "free"]
  /\ sqTimers = 0 /\ inTimers = 0 /\ cqTimers = 0
  /\ reqQueued = 0 /\ refused = 0 /\ faults = 0
  /\ pc = "idle" /\ api = "none" /\ site = "none" /\ reaper = "none"
  /\ submitted = FALSE
  /\ timeouts = 0 /\ etime = FALSE
  /\ subTimeouts = 0 /\ subEtime = FALSE
  /\ colTimeouts = 0 /\ colEtime = FALSE /\ collected = 0
  /\ passReqs = {} /\ passTimers = 0

----------------------------------------------------------------------------
(* Calls and returns.                                                      *)

(* Returning to the code of the user: the stack and its locals are gone.   *)
ReturnToUser ==
  /\ pc' = "idle" /\ api' = "none" /\ site' = "none" /\ reaper' = "none"
  /\ submitted' = FALSE
  /\ timeouts' = 0 /\ etime' = FALSE
  /\ subTimeouts' = 0 /\ subEtime' = FALSE
  /\ colTimeouts' = 0 /\ colEtime' = FALSE /\ collected' = 0
  /\ passReqs' = {} /\ passTimers' = 0

(* Calling flush_submissions from site s with (ts, et).                    *)
CallSubmissions(s, ts, et) ==
  /\ site' = s
  /\ subTimeouts' = ts /\ subEtime' = et
  /\ pc' = "enter"

(* Calling flush_completions from c with (ts, et).                         *)
CallCompletions(c, ts, et) ==
  /\ reaper' = c
  /\ colTimeouts' = ts /\ colEtime' = et
  /\ collected' = 0
  /\ pc' = "pass"
  /\ UNCHANGED <<passReqs, passTimers>>

----------------------------------------------------------------------------
(* The user: code of tasks and the post-drain function of the executor.    *)

SubmitUncounted(r) ==
  /\ pc = "idle"
  /\ place[r] = "free"
  /\ ~SQFull
  /\ place' = [place EXCEPT ![r] = "sq"]
  /\ UNCHANGED <<reqQueued, refused>>
  /\ UNCHANGED <<sqTimers, inTimers, cqTimers, faults, pc, stack, outer, subs, cols>>

(* Reactor::submit.  The request is counted before the push, which fails   *)
(* when the submission queue is full; nothing takes the count back.        *)
Submit(r) ==
  /\ pc = "idle"
  /\ place[r] = "free"
  /\ reqQueued' = reqQueued + 1
  /\ IF SQFull
     THEN refused < MaxRefused /\ refused' = refused + 1 /\ UNCHANGED place
     ELSE place' = [place EXCEPT ![r] = "sq"] /\ UNCHANGED refused
  /\ UNCHANGED <<sqTimers, inTimers, cqTimers, faults, pc, stack, outer, subs, cols>>

(* The woken future takes the result; its place can be used again.         *)
TakeResult(r) ==
  /\ pc = "idle"
  /\ place[r] = "done"
  /\ place' = [place EXCEPT ![r] = "free"]
  /\ UNCHANGED <<sqTimers, inTimers, cqTimers, counts, pc, stack, outer, subs, cols>>

CallFlushReapsOnly(a) ==
  /\ pc = "idle"
  /\ api' = a
  /\ site' = "flush0"
  /\ CallCompletions("flush", 0, FALSE)
  /\ UNCHANGED <<rings, counts, submitted, outer, subs>>

(* flush(0, 0, false), called directly or as the first thing in run.       *)
CallFlush(a) ==
  /\ pc = "idle"
  /\ api' = a
  /\ CallSubmissions("flush0", 0, FALSE)
  /\ UNCHANGED <<rings, counts, reaper, submitted, outer, cols>>

CallRun == CallFlush("run")

CallRunForNs ==
  /\ pc = "idle"
  /\ api' = "run_for_ns"
  /\ pc' = "push"
  /\ UNCHANGED <<rings, counts, site, reaper, submitted, outer, subs, cols>>

----------------------------------------------------------------------------
(* run and run_for_ns.                                                     *)

RequiresReapingLate == reqQueued > 1

RequiresReaping == reqQueued > 0

(* run returns if requests are in flight and sleeps for a while if not.    *)
RunReturns ==
  /\ pc = "check"
  /\ RequiresReaping
  /\ ReturnToUser
  /\ UNCHANGED <<rings, counts>>

RunSleeps ==
  /\ pc = "check"
  /\ ~RequiresReaping
  /\ pc' = "push"
  /\ UNCHANGED <<rings, counts, stack, outer, subs, cols>>

(* The head of the loop of run_for_ns: count a timeout operation and push  *)
(* it; if the queue is full, submit first and push again.                  *)
PushTimer ==
  /\ pc = "push"
  /\ ~SQFull
  /\ timeouts' = timeouts + 1
  /\ sqTimers' = sqTimers + 1
  /\ CallSubmissions("flush1", timeouts + 1, etime)
  /\ UNCHANGED <<place, inTimers, cqTimers, counts, api, reaper, submitted, etime, cols>>

PushTimerFull ==
  /\ pc = "push"
  /\ SQFull
  /\ timeouts' = timeouts + 1
  /\ CallSubmissions("push", timeouts + 1, etime)
  /\ UNCHANGED <<rings, counts, api, reaper, submitted, etime, cols>>

PushTimerAgainCounts ==
  /\ pc = "repush"
  /\ ~SQFull
  /\ timeouts' = timeouts + 1
  /\ sqTimers' = sqTimers + 1
  /\ CallSubmissions("flush1", timeouts + 1, etime)
  /\ UNCHANGED <<place, inTimers, cqTimers, counts, api, reaper, submitted, etime, cols>>

(* The second push is unwrapped: it panics if the queue is still full.     *)
PushTimerAgain ==
  /\ pc = "repush"
  /\ IF SQFull
     THEN pc' = "crashed" /\ UNCHANGED <<sqTimers, site, subs>>
     ELSE sqTimers' = sqTimers + 1 /\ CallSubmissions("flush1", timeouts, etime)
  /\ UNCHANGED <<place, inTimers, cqTimers, counts, api, reaper, submitted, outer, cols>>

DrainReturnsEarly ==
  /\ pc = "drain"
  /\ etime
  /\ ReturnToUser
  /\ UNCHANGED <<rings, counts>>

(* The last loop of run_for_ns: reap until no timer is outstanding.        *)
DrainReturns ==
  /\ pc = "drain"
  /\ timeouts = 0
  /\ ReturnToUser
  /\ UNCHANGED <<rings, counts>>

DrainReaps ==
  /\ pc = "drain"
  /\ timeouts > 0
  /\ CallCompletions("drain", timeouts, etime)
  /\ UNCHANGED <<rings, counts, api, site, submitted, outer, subs>>

----------------------------------------------------------------------------
(* flush_submissions: submit_and_wait(want) in a loop.                     *)

(* The kernel takes the whole submission queue.                            *)
Enter ==
  /\ pc = "enter"
  /\ submitted' = (InSQ # {} \/ sqTimers > 0)
  /\ place' = [r \in Req |-> IF place[r] = "sq" THEN "kernel" ELSE place[r]]
  /\ inTimers' = inTimers + sqTimers
  /\ sqTimers' = 0
  /\ pc' = "wait"
  /\ UNCHANGED <<cqTimers, counts, api, site, reaper, outer, subs, cols>>

(* flush_submissions returns Ok.  run_for_ns takes the pair it returns for *)
(* its own; flush drops it and goes on with the pair it was called with.   *)
SubmissionsReturn ==
  /\ submitted' = FALSE
  /\ CASE site = "push" -> /\ timeouts' = subTimeouts
                           /\ etime' = subEtime
                           /\ pc' = "repush"
                           /\ UNCHANGED <<reaper, cols>>
       [] OTHER -> CallCompletions("flush", timeouts, etime) /\ UNCHANGED outer
  /\ UNCHANGED <<api, site, subs>>

(* The wait ends when the completion queue holds `want` entries.           *)
WaitDone ==
  /\ pc = "wait"
  /\ Cardinality(Completed) + cqTimers >= WantOf(site)
  /\ SubmissionsReturn
  /\ UNCHANGED <<rings, counts>>

Fault(f) ==
  /\ f \in Faults
  /\ faults < MaxFaults
  /\ faults' = faults + 1
  /\ UNCHANGED <<reqQueued, refused>>

(* A signal ends the wait.  The kernel reports it as EINTR, and the loop   *)
(* tries again, only if the call had submitted nothing.                    *)
WaitInterrupted ==
  /\ pc = "wait"
  /\ Fault("intr")
  /\ IF submitted
     THEN SubmissionsReturn
     ELSE pc' = "enter" /\ UNCHANGED <<stack, outer, subs, cols>>
  /\ UNCHANGED rings

(* The kernel takes a first part of the queue, and then does not wait.     *)
(* Requests are in front of timers, for no task runs while run_for_ns      *)
(* pushes; only a run_for_ns that failed may have left a timer behind.     *)
EnterPartial ==
  /\ pc = "enter"
  /\ Fault("partial")
  /\ \E taken \in SUBSET InSQ, n \in 0..sqTimers :
       /\ Cardinality(taken) + n \in 1..(Cardinality(InSQ) + sqTimers - 1)
       /\ n > 0 => taken = InSQ \/ "fatal" \in Faults
       /\ place' = [r \in Req |-> IF r \in taken THEN "kernel" ELSE place[r]]
       /\ sqTimers' = sqTimers - n
       /\ inTimers' = inTimers + n
  /\ SubmissionsReturn
  /\ UNCHANGED cqTimers

(* EBUSY or EAGAIN: reap at least one completion and try again.            *)
EnterBusy ==
  /\ pc = "enter"
  /\ Fault("busy")
  /\ CallCompletions("busy", subTimeouts, subEtime)
  /\ UNCHANGED <<rings, api, site, submitted, outer, subs>>

(* Any other error is returned, by flush, by run_for_ns, and ignored only  *)
(* by run after its first flush.                                           *)
EnterFails ==
  /\ pc = "enter"
  /\ Fault("fatal")
  /\ IF api = "run" /\ site = "flush0"
     THEN pc' = "check" /\ UNCHANGED <<stack, outer, subs, cols>>
     ELSE ReturnToUser
  /\ UNCHANGED rings

----------------------------------------------------------------------------
(* flush_completions(want).                                                *)

(* One pass of the `for` loop visits the completions there are when the    *)
(* iterator is made.                                                       *)
BeginPass ==
  /\ pc = "pass"
  /\ passReqs' = Completed
  /\ passTimers' = cqTimers
  /\ pc' = "reap"
  /\ UNCHANGED <<rings, counts, stack, outer, subs, colTimeouts, colEtime, collected>>

(* The completion of a request: set return_val, wake the task.             *)
ReapRequest(r) ==
  /\ pc = "reap"
  /\ r \in passReqs
  /\ passReqs' = passReqs \ {r}
  /\ place' = [place EXCEPT ![r] = "done"]
  /\ collected' = collected + 1
  /\ UNCHANGED <<sqTimers, inTimers, cqTimers, counts, pc, stack, outer, subs,
                 colTimeouts, colEtime, passTimers>>

(* The completion of a timer (user data 0), which decrements a usize: with *)
(* overflow checks that panics at zero.                                    *)
ReapTimer ==
  /\ pc = "reap"
  /\ passTimers > 0
  /\ passTimers' = passTimers - 1
  /\ cqTimers' = cqTimers - 1
  /\ IF colTimeouts = 0
     THEN pc' = "crashed" /\ UNCHANGED <<colTimeouts, colEtime>>
     ELSE colTimeouts' = colTimeouts - 1 /\ colEtime' = TRUE /\ UNCHANGED pc
  /\ UNCHANGED <<place, sqTimers, inTimers, counts, stack, outer, subs, collected, passReqs>>

PassEndsUncounted ==
  /\ pc = "reap"
  /\ passReqs = {}
  /\ passTimers = 0
  /\ reqQueued' = IF reaper = "busy" THEN reqQueued ELSE reqQueued - collected
  /\ UNCHANGED <<rings, refused, faults>>

(* After a pass the number collected since the call is subtracted.         *)
PassEnds ==
  /\ pc = "reap"
  /\ passReqs = {}
  /\ passTimers = 0
  /\ reqQueued' = reqQueued - collected
  /\ UNCHANGED <<rings, refused, faults>>

PassRepeats ==
  /\ PassEnds
  /\ collected < WantToReap(reaper)
  /\ pc' = "pass"
  /\ UNCHANGED <<stack, outer, subs, cols>>

(* ... else flush_completions returns: to flush_submissions,               *)
PassReturnsToSubmissions ==
  /\ PassEnds
  /\ reaper = "busy"
  /\ collected >= WantToReap(reaper)
  /\ subTimeouts' = colTimeouts
  /\ subEtime' = colEtime
  /\ collected' = 0
  /\ pc' = "enter"
  /\ UNCHANGED <<stack, outer, colTimeouts, colEtime, passReqs, passTimers>>

(* to flush, whose caller is the user or run,                              *)
PassReturnsToFlush ==
  /\ PassEnds
  /\ reaper = "flush"
  /\ site = "flush0"
  /\ IF api = "run"
     THEN pc' = "check" /\ collected' = 0
          /\ UNCHANGED <<stack, outer, subs, colTimeouts, colEtime, passReqs, passTimers>>
     ELSE ReturnToUser

PassReturnsPairDropped ==
  /\ PassEnds
  /\ reaper = "drain" \/ (reaper = "flush" /\ site = "flush1")
  /\ etime' = colEtime
  /\ collected' = 0
  /\ pc' = IF reaper = "flush" /\ ~colEtime THEN "push" ELSE "drain"
  /\ UNCHANGED <<stack, timeouts, subs, colTimeouts, colEtime, passReqs, passTimers>>

(* to flush called by run_for_ns, or to the last loop of run_for_ns.       *)
PassReturnsToRunForNs ==
  /\ PassEnds
  /\ reaper = "drain" \/ (reaper = "flush" /\ site = "flush1")
  /\ timeouts' = colTimeouts
  /\ etime' = colEtime
  /\ collected' = 0
  /\ pc' = IF reaper = "flush" /\ ~colEtime THEN "push" ELSE "drain"
  /\ UNCHANGED <<stack, subs, colTimeouts, colEtime, passReqs, passTimers>>

----------------------------------------------------------------------------
(* The kernel.                                                             *)

KernelCompletes(r) ==
  /\ place[r] = "kernel"
  /\ place' = [place EXCEPT ![r] = "cq"]
  /\ UNCHANGED <<sqTimers, inTimers, cqTimers, counts, pc, stack, outer, subs, cols>>

TimerFires ==
  /\ inTimers > 0
  /\ inTimers' = inTimers - 1
  /\ cqTimers' = cqTimers + 1
  /\ UNCHANGED <<place, sqTimers, counts, pc, stack, outer, subs, cols>>

----------------------------------------------------------------------------
User ==
  \/ \E r \in Req : Submit(r) \/ TakeResult(r)
  \/ CallFlush("flush")
  \/ CallRun
  \/ CallRunForNs

FaultyStep == WaitInterrupted \/ EnterPartial \/ EnterBusy \/ EnterFails

Thread ==
  \/ RunReturns \/ RunSleeps
  \/ PushTimer \/ PushTimerFull \/ PushTimerAgain
  \/ DrainReturns \/ DrainReaps
  \/ Enter \/ WaitDone
  \/ BeginPass \/ (\E r \in Req : ReapRequest(r)) \/ ReapTimer
  \/ PassRepeats \/ PassReturnsToSubmissions \/ PassReturnsToFlush \/ PassReturnsToRunForNs

Kernel == TimerFires \/ \E r \in Req : KernelCompletes(r)

(* A panic ends the thread.                                                *)
Crashed == pc = "crashed" /\ UNCHANGED vars

Next == User \/ FaultyStep \/ Thread \/ Kernel \/ Crashed

SafeSpec == Init /\ [][Next]_vars

(* The thread goes on while it is inside the reactor, faults or not, and a *)
(* timer that the kernel has fires.  Requests may never complete (an       *)
(* accept on an idle socket), so nothing is said of KernelCompletes.  The  *)
(* executor calls run after every drain as long as a task is unfinished.   *)
Fairness ==
  /\ WF_vars(Thread)
  /\ WF_vars(TimerFires)
  /\ WF_vars(CallRun)

Spec == SafeSpec /\ Fairness

----------------------------------------------------------------------------
(* Properties.                                                             *)

TypeOK ==
  /\ place \in [Req -> {"free", "sq", "kernel", "cq", "done"}]
  /\ sqTimers \in 0..SQSize /\ inTimers \in Nat /\ cqTimers \in Nat
  /\ reqQueued \in Nat /\ refused \in 0..MaxRefused /\ faults \in 0..MaxFaults
  /\ pc \in {"idle", "check", "push", "repush", "drain", "enter", "wait",
             "pass", "reap", "crashed"}
  /\ api \in {"none", "flush", "run", "run_for_ns"}
  /\ site \in {"none", "flush0", "flush1", "push"}
  /\ reaper \in {"none", "busy", "flush", "drain"}
  /\ submitted \in BOOLEAN
  /\ timeouts \in Nat /\ etime \in BOOLEAN
  /\ subTimeouts \in Nat /\ subEtime \in BOOLEAN
  /\ colTimeouts \in Nat /\ colEtime \in BOOLEAN /\ collected \in Nat
  /\ passReqs \subseteq Req /\ passTimers \in Nat

(* req_queued counts the requests in flight, those reaped in the pass that *)
(* is going on, and the ones whose push failed: each pass takes off what   *)
(* it reaped and no more, although `collected` is not reset between passes *)
(* (lib.rs:99-113, 216-247).                                               *)
RequestsAccounted ==
  pc # "crashed" => reqQueued = Cardinality(InFlight) + collected + refused

(* Timers somewhere between the push and the reaping.                      *)
Outstanding == sqTimers + inTimers + cqTimers

(* `timeouts` in the innermost call counts the timeout operations that are *)
(* outstanding, and outside of the reactor there is none.  Comment in      *)
(* run_for_ns (lib.rs:150): the increment "indicates submitting a timeout  *)
(* op".  (After a full queue it is pushed only at "repush".)               *)
TimersAccounted ==
  Outstanding =
    CASE pc \in {"idle", "check"} -> 0
      [] pc \in {"push", "drain"} -> timeouts
      [] pc = "repush" -> timeouts - 1
      [] pc \in {"enter", "wait"} -> subTimeouts - (IF site = "push" THEN 1 ELSE 0)
      [] pc \in {"pass", "reap"} ->
           colTimeouts - (IF reaper = "busy" /\ site = "push" THEN 1 ELSE 0)
      [] OTHER -> Outstanding

(* The thread never panics: neither the decrement of `timeouts` nor the    *)
(* second push of a timeout operation does (lib.rs:159, 227).              *)
NoPanic == pc # "crashed"

(* When run blocks for a timer, no request is in flight whose completion a *)
(* task waits for (lib.rs:119-127).                                        *)
SleepsOnlyIdle == api = "run" /\ site = "flush1" => InFlight = {}

(* A call of flush, run or run_for_ns returns.                             *)
CallReturns == pc # "idle" ~> pc = "idle"

(* A submitted request reaches the kernel, and a completed one its task    *)
(* (lib.rs:115-127; async-executor/README.md:21-22).                       *)
RequestsServed ==
  \A r \in Req : /\ place[r] = "sq" ~> place[r] # "sq"
                 /\ place[r] = "cq" ~> place[r] = "done"

==============================================================================
