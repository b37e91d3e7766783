----------------------------- MODULE ReactorProofs -----------------------------
(***************************************************************************)
(* What is proved of the reactor for every finite set of requests, every   *)
(* size of the submission queue and any number of faults.                  *)
(*                                                                         *)
(* RequestsAccounted and SleepsOnlyIdle hold under every kind of fault.    *)
(* TimersAccounted and NoPanic are proved for signals and for short        *)
(* submissions: with EBUSY (run ReactorBusy) or another error that         *)
(* submit_and_wait returns they are false.                                 *)
(***************************************************************************)
EXTENDS Reactor, FiniteSetTheorems, TLAPS

-----------------------------------------------------------------------------
(* The inductive invariant under every kind of fault.                      *)

(* What the `for` loop has still to visit is in the completion queue, and  *)
(* `collected` is not zero inside of that loop only.                       *)
PassInv ==
  /\ passReqs \subseteq Completed
  /\ passTimers <= cqTimers
  /\ pc \notin {"reap", "crashed"} => passReqs = {} /\ passTimers = 0 /\ collected = 0

RingInv == Cardinality(InSQ) + sqTimers <= SQSize

(* From the check in run until it returns no request is in flight: site is *)
(* "flush0" while run flushes, and then what the sleep made of it.         *)
SleepInv ==
  /\ pc = "idle" => api = "none"
  /\ api = "run" /\ (site # "flush0" \/ pc \in {"push", "repush", "drain"})
       => InFlight = {}

(* Where the stack can be.  flush_completions is called by flush, by       *)
(* flush_submissions when the kernel is busy, or by the last loop of       *)
(* run_for_ns, which is reached through its flush only.                    *)
StackInv ==
  /\ pc \in {"enter", "wait"} => site # "none"
  /\ pc \in {"pass", "reap"} => \/ reaper = "busy" /\ site # "none"
                                \/ reaper = "flush" /\ site \in {"flush0", "flush1"}
                                \/ reaper = "drain" /\ site = "flush1"
  /\ pc = "drain" => site = "flush1"

IInv == TypeOK /\ PassInv /\ RingInv /\ StackInv /\ RequestsAccounted /\ SleepInv

-----------------------------------------------------------------------------
(* The inductive invariant about timers, without EBUSY and fatal errors.   *)

MildFaults == Faults \cap {"busy", "fatal"} = {}

(* flush_submissions works with the pair of its caller, which has dropped  *)
(* its own when run_for_ns is left.                                        *)
PairsInv ==
  /\ pc \in {"pass", "reap"} => reaper # "busy"
  /\ pc \in {"enter", "wait"} => subTimeouts = timeouts
  /\ pc \in {"idle", "check"} => timeouts = 0

(* Until run sleeps no timer is outstanding.                               *)
NoTimerInv ==
  site = "flush0" /\ pc \in {"enter", "wait", "pass", "reap"}
    => timeouts = 0 /\ Outstanding = 0

(* The kernel has made room by the time the second push of a timer runs.   *)
RoomInv ==
  /\ pc = "wait" => InSQ = {} /\ sqTimers = 0
  /\ pc = "repush" => ~SQFull

TInv == TimersAccounted /\ NoPanic /\ PairsInv /\ NoTimerInv /\ RoomInv

-----------------------------------------------------------------------------
(* Sets of requests.                                                       *)

(* A set of requests has a number of elements.                             *)
LEMMA RequestCount ==
  ASSUME NEW S \in SUBSET Req
  PROVE  IsFiniteSet(S) /\ Cardinality(S) \in Nat
BY ReqAssumption, FS_Subset, FS_CardinalityType

(* Where requests are counted does not change with the rest of the state.  *)
LEMMA SamePlace ==
  ASSUME UNCHANGED place
  PROVE  UNCHANGED <<InSQ, Completed, InFlight, Cardinality(InSQ),
                     Cardinality(Completed), Cardinality(InFlight)>>
BY DEF InSQ, Completed, InFlight

(* One more request in the submission queue, and in flight.                *)
LEMMA OneSubmitted ==
  ASSUME TypeOK, NEW r \in Req, place[r] = "free", place' = [place EXCEPT ![r] = "sq"]
  PROVE  /\ Completed' = Completed
         /\ Cardinality(InSQ') = Cardinality(InSQ) + 1
         /\ Cardinality(InFlight') = Cardinality(InFlight) + 1
<1>1. /\ Completed' = Completed
      /\ InSQ' = InSQ \cup {r} /\ r \notin InSQ
      /\ InFlight' = InFlight \cup {r} /\ r \notin InFlight
  BY DEF TypeOK, Completed, InSQ, InFlight
<1>2. IsFiniteSet(InSQ) /\ IsFiniteSet(InFlight)
  BY RequestCount DEF InSQ, InFlight
<1>3. QED
  BY <1>1, <1>2, FS_AddElement

(* One completion reaped.                                                  *)
LEMMA OneReaped ==
  ASSUME TypeOK, NEW r \in Completed, place' = [place EXCEPT ![r] = "done"]
  PROVE  /\ Completed' = Completed \ {r}
         /\ InSQ' = InSQ
         /\ Cardinality(InFlight') = Cardinality(InFlight) - 1
<1>1. /\ Completed' = Completed \ {r}
      /\ InSQ' = InSQ
      /\ InFlight' = InFlight \ {r} /\ r \in InFlight
  BY DEF TypeOK, Completed, InSQ, InFlight
<1>2. IsFiniteSet(InFlight)
  BY RequestCount DEF InFlight
<1>3. QED
  BY <1>1, <1>2, FS_RemoveElement

(* A request taken by the kernel or completed by it stays in flight.       *)
LEMMA StaysInFlight ==
  ASSUME TypeOK, place' \in [Req -> {"free", "sq", "kernel", "cq", "done"}],
         \A r \in Req : \/ place'[r] = place[r]
                        \/ /\ place[r] \in {"sq", "kernel", "cq"}
                           /\ place'[r] \in {"sq", "kernel", "cq"}
  PROVE  InFlight' = InFlight
BY DEF TypeOK, InFlight

-----------------------------------------------------------------------------
(* The steps.                                                              *)

(* The invariant holds when the reactor is made.                           *)
LEMMA InitInv == Init => IInv
<1> SUFFICES ASSUME Init PROVE IInv
  OBVIOUS
<1>1. Completed = {} /\ InSQ = {} /\ InFlight = {}
  BY DEF Init, Completed, InSQ, InFlight
<1>2. Cardinality({}) = 0
  BY FS_EmptySet
<1>3. TypeOK
  <2>1. place \in [Req -> {"free", "sq", "kernel", "cq", "done"}]
    BY DEF Init
  <2>2. submitted \in BOOLEAN /\ etime \in BOOLEAN /\ subEtime \in BOOLEAN /\ colEtime \in BOOLEAN
    BY DEF Init
  <2>3. QED
    BY <2>1, <2>2, SQSizeAssumption, BoundsAssumption DEF Init, TypeOK
<1>4. QED
  BY <1>1, <1>2, <1>3, SQSizeAssumption
     DEF Init, IInv, PassInv, RingInv, StackInv, RequestsAccounted, SleepInv

(* Steps of the stack and of the timers, which leave the requests and      *)
(* their count alone.                                                      *)
LEMMA QuietInv ==
  ASSUME IInv, UNCHANGED <<place, reqQueued, refused>>, TypeOK',
         sqTimers' + Cardinality(InSQ) <= SQSize,
         pc # "reap",
         pc' # "crashed" => /\ collected' = 0
                            /\ cqTimers' >= passTimers'
                            /\ pc # "crashed",
         pc' # "reap" => passReqs' = {} /\ passTimers' = 0,
         pc' = "reap" => passReqs' = Completed /\ passTimers' = cqTimers',
         StackInv', SleepInv'
  PROVE  IInv'
<1>1. UNCHANGED <<InSQ, Completed, InFlight, Cardinality(InSQ), Cardinality(InFlight)>>
  BY SamePlace
<1>2. PassInv'
  BY <1>1 DEF PassInv, TypeOK
<1>3. RingInv'
  BY <1>1, RequestCount DEF RingInv, TypeOK, InSQ
<1>4. RequestsAccounted'
  BY <1>1 DEF IInv, PassInv, RequestsAccounted
<1>5. QED
  BY <1>2, <1>3, <1>4 DEF IInv

(* Returning, and the calls and returns of flush_..., keep the types.      *)
LEMMA ReturnType ==
  ASSUME TypeOK, ReturnToUser, UNCHANGED <<rings, reqQueued, refused>>, faults' \in 0..MaxFaults
  PROVE  TypeOK'
<1>1. /\ submitted' \in BOOLEAN /\ etime' \in BOOLEAN
      /\ subEtime' \in BOOLEAN /\ colEtime' \in BOOLEAN
  BY DEF ReturnToUser
<1>2. QED
  BY <1>1 DEF TypeOK, ReturnToUser, rings

LEMMA SubmissionsReturnType ==
  ASSUME TypeOK, SubmissionsReturn, UNCHANGED <<reqQueued, refused>>,
         place' \in [Req -> {"free", "sq", "kernel", "cq", "done"}],
         sqTimers' \in 0..SQSize, inTimers' \in Nat, UNCHANGED cqTimers,
         faults' \in 0..MaxFaults
  PROVE  TypeOK'
<1>1. /\ submitted' \in BOOLEAN /\ etime' \in BOOLEAN
      /\ subEtime' \in BOOLEAN /\ colEtime' \in BOOLEAN
  BY DEF TypeOK, SubmissionsReturn, CallCompletions, cols, subs, outer
<1>2. QED
  BY <1>1 DEF TypeOK, SubmissionsReturn, CallCompletions, cols, subs, outer

(* Every step keeps the types.                                             *)
LEMMA StepType == IInv /\ [Next]_vars => TypeOK'
<1> SUFFICES ASSUME IInv, [Next]_vars PROVE TypeOK'
  OBVIOUS
<1> USE DEF rings, counts, stack, outer, subs, cols
<1>a. TypeOK /\ PassInv /\ RingInv /\ Cardinality(InSQ) \in Nat
  BY RequestCount DEF IInv, InSQ
<1>1. ASSUME NEW r \in Req, Submit(r) PROVE TypeOK'
  BY <1>a, <1>1, BoundsAssumption DEF TypeOK, Submit
<1>2. ASSUME NEW r \in Req, TakeResult(r) PROVE TypeOK'
  BY <1>a, <1>2 DEF TypeOK, TakeResult
<1>3. CASE CallFlush("flush")
  BY <1>a, <1>3 DEF TypeOK, CallFlush, CallSubmissions
<1>4. CASE CallRun
  BY <1>a, <1>4 DEF TypeOK, CallRun, CallFlush, CallSubmissions
<1>5. CASE CallRunForNs
  BY <1>a, <1>5 DEF TypeOK, CallRunForNs
<1>6. CASE WaitInterrupted
  <2>1. CASE submitted
    BY <1>a, <1>6, <2>1, SubmissionsReturnType, BoundsAssumption DEF TypeOK, WaitInterrupted, Fault
  <2>2. CASE ~submitted
    BY <1>a, <1>6, <2>2, BoundsAssumption DEF TypeOK, WaitInterrupted, Fault
  <2>3. QED
    BY <2>1, <2>2
<1>7. CASE EnterPartial
  <2>1. PICK taken \in SUBSET InSQ, n \in 0..sqTimers :
          /\ place' = [r \in Req |-> IF r \in taken THEN "kernel" ELSE place[r]]
          /\ sqTimers' = sqTimers - n
          /\ inTimers' = inTimers + n
    BY <1>7 DEF EnterPartial
  <2>2. place' \in [Req -> {"free", "sq", "kernel", "cq", "done"}]
    BY <1>a, <2>1 DEF TypeOK
  <2>3. QED
    BY <1>a, <1>7, <2>1, <2>2, SubmissionsReturnType, BoundsAssumption, SQSizeAssumption
       DEF TypeOK, EnterPartial, Fault
<1>8. CASE EnterBusy
  BY <1>a, <1>8, BoundsAssumption DEF TypeOK, EnterBusy, Fault, CallCompletions
<1>9. CASE EnterFails
  <2>1. CASE api = "run" /\ site = "flush0"
    BY <1>a, <1>9, <2>1, BoundsAssumption DEF TypeOK, EnterFails, Fault
  <2>2. CASE ~(api = "run" /\ site = "flush0")
    BY <1>a, <1>9, <2>2, ReturnType, BoundsAssumption DEF TypeOK, EnterFails, Fault
  <2>3. QED
    BY <2>1, <2>2
<1>10. CASE RunReturns
  BY <1>a, <1>10, ReturnType DEF TypeOK, RunReturns
<1>11. CASE RunSleeps
  BY <1>a, <1>11 DEF TypeOK, RunSleeps
<1>12. CASE PushTimer
  BY <1>a, <1>12, SQSizeAssumption DEF TypeOK, PushTimer, CallSubmissions, SQFull
<1>13. CASE PushTimerFull
  BY <1>a, <1>13 DEF TypeOK, PushTimerFull, CallSubmissions
<1>14. CASE PushTimerAgain
  BY <1>a, <1>14, SQSizeAssumption DEF TypeOK, PushTimerAgain, CallSubmissions, SQFull
<1>15. CASE DrainReturns
  BY <1>a, <1>15, ReturnType DEF TypeOK, DrainReturns
<1>16. CASE DrainReaps
  BY <1>a, <1>16 DEF TypeOK, DrainReaps, CallCompletions
<1>17. CASE Enter
  <2>1. submitted' \in BOOLEAN
    BY <1>17 DEF Enter
  <2>2. place' \in [Req -> {"free", "sq", "kernel", "cq", "done"}]
    BY <1>a, <1>17 DEF TypeOK, Enter
  <2>3. QED
    BY <1>a, <1>17, <2>1, <2>2, SQSizeAssumption DEF TypeOK, Enter
<1>18. CASE WaitDone
  BY <1>a, <1>18, SubmissionsReturnType DEF TypeOK, WaitDone
<1>19. CASE BeginPass
  BY <1>a, <1>19 DEF TypeOK, BeginPass, Completed
<1>20. ASSUME NEW r \in Req, ReapRequest(r) PROVE TypeOK'
  BY <1>a, <1>20 DEF TypeOK, ReapRequest
<1>21. CASE ReapTimer
  <2>1. colEtime' \in BOOLEAN
    BY <1>a, <1>21 DEF TypeOK, ReapTimer
  <2>2. QED
    BY <1>a, <1>21, <2>1 DEF TypeOK, ReapTimer, PassInv
<1>22. ASSUME PassEnds PROVE reqQueued' \in Nat
  BY <1>a, <1>22, RequestCount DEF TypeOK, PassEnds, IInv, RequestsAccounted, InFlight
<1>23. CASE PassRepeats
  BY <1>a, <1>22, <1>23 DEF TypeOK, PassRepeats, PassEnds
<1>24. CASE PassReturnsToSubmissions
  BY <1>a, <1>22, <1>24 DEF TypeOK, PassReturnsToSubmissions, PassEnds
<1>25. CASE PassReturnsToFlush
  <2>1. /\ submitted' \in BOOLEAN /\ etime' \in BOOLEAN
        /\ subEtime' \in BOOLEAN /\ colEtime' \in BOOLEAN
    BY <1>a, <1>25 DEF TypeOK, PassReturnsToFlush, ReturnToUser
  <2>2. QED
    BY <1>a, <1>22, <1>25, <2>1 DEF TypeOK, PassReturnsToFlush, PassEnds, ReturnToUser
<1>26. CASE PassReturnsToRunForNs
  BY <1>a, <1>22, <1>26 DEF TypeOK, PassReturnsToRunForNs, PassEnds
<1>27. CASE TimerFires
  BY <1>a, <1>27 DEF TypeOK, TimerFires
<1>28. ASSUME NEW r \in Req, KernelCompletes(r) PROVE TypeOK'
  BY <1>a, <1>28 DEF TypeOK, KernelCompletes
<1>29. CASE UNCHANGED vars
  BY <1>a, <1>29 DEF TypeOK, vars
<1>30. QED
  BY <1>1, <1>2, <1>3, <1>4, <1>5, <1>6, <1>7, <1>8, <1>9, <1>10, <1>11, <1>12,
     <1>13, <1>14, <1>15, <1>16, <1>17, <1>18, <1>19, <1>20, <1>21, <1>23, <1>24,
     <1>25, <1>26, <1>27, <1>28, <1>29
     DEF Next, User, FaultyStep, Thread, Kernel, Crashed

(* Calls and returns follow the stack.                                     *)
LEMMA StepStack == IInv /\ [Next]_vars => StackInv'
<1> SUFFICES ASSUME IInv, [Next]_vars PROVE StackInv'
  OBVIOUS
<1> USE DEF rings, counts, stack, outer, subs, cols, StackInv
<1>a. TypeOK /\ StackInv
  BY DEF IInv
<1>1. CASE User
  BY <1>a, <1>1 DEF User, Submit, TakeResult, CallFlush, CallRun, CallRunForNs, CallSubmissions
<1>2. CASE RunReturns \/ RunSleeps \/ PushTimer \/ PushTimerFull \/ PushTimerAgain
  BY <1>a, <1>2 DEF RunReturns, RunSleeps, PushTimer, PushTimerFull, PushTimerAgain,
     ReturnToUser, CallSubmissions
<1>3. CASE DrainReturns \/ DrainReaps \/ Enter \/ BeginPass \/ ReapTimer
  BY <1>a, <1>3 DEF DrainReturns, DrainReaps, Enter, BeginPass, ReapTimer,
     ReturnToUser, CallCompletions
<1>4. CASE WaitDone \/ WaitInterrupted \/ EnterPartial
  <2>1. site # "none" /\ site \in {"none", "flush0", "flush1", "push"}
    BY <1>a, <1>4 DEF TypeOK, WaitDone, WaitInterrupted, EnterPartial
  <2>2. CASE SubmissionsReturn
    BY <2>1, <2>2 DEF SubmissionsReturn, CallCompletions
  <2>3. CASE ~SubmissionsReturn
    BY <1>4, <2>1, <2>3 DEF WaitDone, WaitInterrupted, EnterPartial
  <2>4. QED
    BY <2>2, <2>3
<1>5. CASE EnterBusy \/ EnterFails
  BY <1>a, <1>5 DEF EnterBusy, EnterFails, CallCompletions, ReturnToUser
<1>6. CASE PassRepeats \/ PassReturnsToSubmissions \/ PassReturnsToFlush \/ PassReturnsToRunForNs
  BY <1>a, <1>6 DEF PassRepeats, PassReturnsToSubmissions, PassReturnsToFlush,
     PassReturnsToRunForNs, PassEnds, ReturnToUser
<1>7. CASE TimerFires \/ UNCHANGED vars \/ \E r \in Req : ReapRequest(r) \/ KernelCompletes(r)
  BY <1>a, <1>7 DEF TimerFires, ReapRequest, KernelCompletes, vars
<1>8. QED
  BY <1>1, <1>2, <1>3, <1>4, <1>5, <1>6, <1>7 DEF Next, FaultyStep, Thread, Kernel, Crashed

(* Once run has found nothing in flight, only the user could add to it.    *)
LEMMA StepSleeps == IInv /\ [Next]_vars => SleepInv'
<1> SUFFICES ASSUME IInv, [Next]_vars PROVE SleepInv'
  OBVIOUS
<1> USE DEF rings, counts, stack, outer, subs, cols
<1>a. TypeOK /\ SleepInv /\ RequestsAccounted /\ PassInv /\ StackInv
  BY DEF IInv
<1> DEFINE Asleep == api = "run" /\ (site # "flush0" \/ pc \in {"push", "repush", "drain"})
           OnlyIdle == pc = "idle" => api = "none"
           Stays == UNCHANGED place /\ (Asleep' => Asleep) /\ OnlyIdle'
<1>b. ASSUME Stays PROVE SleepInv'
  BY <1>a, <1>b DEF SleepInv, InFlight
<1>c. ASSUME OnlyIdle', Asleep' => InFlight' = {} PROVE SleepInv'
  BY <1>c DEF SleepInv
<1>d. OnlyIdle /\ (Asleep => InFlight = {})
  BY <1>a DEF SleepInv
<1>1. ASSUME NEW r \in Req, Submit(r) \/ TakeResult(r) PROVE SleepInv'
  BY <1>1, <1>c, <1>d DEF Submit, TakeResult
<1>2. CASE CallFlush("flush") \/ CallRun \/ CallRunForNs
  BY <1>2, <1>c DEF CallFlush, CallRun, CallRunForNs, CallSubmissions
<1>3. CASE RunSleeps
  <2>1. Cardinality(InFlight) = 0
    BY <1>a, <1>3, RequestCount
       DEF RunSleeps, RequiresReaping, RequestsAccounted, TypeOK, InFlight
  <2>2. InFlight = {}
    BY <2>1, RequestCount, FS_EmptySet DEF InFlight
  <2>3. QED
    BY <1>3, <2>2 DEF RunSleeps, SleepInv, InFlight
<1>4. CASE RunReturns \/ PushTimer \/ PushTimerFull \/ PushTimerAgain \/ DrainReturns \/ DrainReaps
  BY <1>4, <1>b DEF RunReturns, PushTimer, PushTimerFull, PushTimerAgain, DrainReturns,
     DrainReaps, ReturnToUser, CallSubmissions, CallCompletions
<1>5. CASE BeginPass \/ ReapTimer \/ TimerFires \/ UNCHANGED vars
  BY <1>5, <1>b, <1>d DEF BeginPass, ReapTimer, TimerFires, vars
<1>6. CASE PassRepeats \/ PassReturnsToSubmissions \/ PassReturnsToFlush \/ PassReturnsToRunForNs
  BY <1>a, <1>6, <1>b DEF StackInv, PassRepeats, PassReturnsToSubmissions, PassReturnsToFlush,
     PassReturnsToRunForNs, PassEnds, ReturnToUser
<1>7. CASE WaitDone \/ WaitInterrupted
  BY <1>7, <1>b DEF WaitDone, WaitInterrupted, SubmissionsReturn, CallCompletions, Fault
<1>8. CASE EnterBusy \/ EnterFails
  BY <1>8, <1>b DEF EnterBusy, EnterFails, CallCompletions, ReturnToUser, Fault
<1>9. CASE Enter
  <2>1. (Asleep' => Asleep) /\ OnlyIdle'
    BY <1>9 DEF Enter
  <2>2. InFlight = {} => InFlight' = {}
    BY <1>a, <1>9 DEF Enter, InFlight
  <2>3. QED
    BY <1>c, <1>d, <2>1, <2>2
<1>10. CASE EnterPartial
  <2>1. (Asleep' => Asleep) /\ OnlyIdle'
    BY <1>10 DEF EnterPartial, SubmissionsReturn, CallCompletions
  <2>2. InFlight = {} => InFlight' = {}
    BY <1>a, <1>10 DEF EnterPartial, InFlight, InSQ
  <2>3. QED
    BY <1>c, <1>d, <2>1, <2>2
<1>11. ASSUME NEW r \in Req, ReapRequest(r) \/ KernelCompletes(r) PROVE SleepInv'
  <2>1. (Asleep' => Asleep) /\ OnlyIdle'
    BY <1>d, <1>11 DEF ReapRequest, KernelCompletes
  <2>2. InFlight = {} => InFlight' = {}
    BY <1>a, <1>11 DEF ReapRequest, KernelCompletes, InFlight, TypeOK
  <2>3. QED
    BY <1>c, <1>d, <2>1, <2>2
<1>12. QED
  BY <1>1, <1>2, <1>3, <1>4, <1>5, <1>6, <1>7, <1>8, <1>9, <1>10, <1>11
     DEF Next, User, FaultyStep, Thread, Kernel, Crashed

(* A step of the thread outside of the `for` loop of flush_completions.    *)
LEMMA StepOutsidePass ==
  ASSUME IInv, TypeOK', StackInv', SleepInv',
         \/ CallFlush("flush") \/ CallRun \/ CallRunForNs
         \/ RunReturns \/ RunSleeps \/ PushTimer \/ PushTimerFull \/ PushTimerAgain
         \/ DrainReturns \/ DrainReaps \/ WaitDone \/ WaitInterrupted
         \/ EnterBusy \/ EnterFails \/ BeginPass
  PROVE  IInv'
<1> USE DEF rings, counts, stack, outer, subs, cols
<1>a. TypeOK /\ PassInv /\ RingInv
  BY DEF IInv
<1>1. pc \notin {"reap", "crashed"} /\ UNCHANGED <<place, reqQueued, refused, cqTimers>>
  BY DEF CallFlush, CallRun, CallRunForNs, RunReturns, RunSleeps, PushTimer, PushTimerFull,
     PushTimerAgain, DrainReturns, DrainReaps, WaitDone, WaitInterrupted,
     EnterBusy, EnterFails, BeginPass, Fault
<1>2. sqTimers' + Cardinality(InSQ) <= SQSize
  <2>1. Cardinality(InSQ) \in Nat
    BY RequestCount DEF InSQ
  <2>2. sqTimers' = sqTimers \/ (~SQFull /\ sqTimers' = sqTimers + 1)
    BY DEF CallFlush, CallRun, CallRunForNs, RunReturns, RunSleeps, PushTimer, PushTimerFull,
       PushTimerAgain, DrainReturns, DrainReaps, WaitDone, WaitInterrupted,
       EnterBusy, EnterFails, BeginPass
  <2>3. QED
    BY <1>a, <2>1, <2>2, SQSizeAssumption DEF TypeOK, RingInv, SQFull
<1>3. collected' = 0
      /\ \/ BeginPass /\ pc' = "reap" /\ passReqs' = Completed /\ passTimers' = cqTimers
         \/ pc' # "reap" /\ passReqs' = {} /\ passTimers' = 0
  BY <1>a, <1>1 DEF PassInv, CallFlush, CallRun, CallRunForNs, RunReturns, RunSleeps,
     PushTimer, PushTimerFull, PushTimerAgain, DrainReturns, DrainReaps, WaitDone,
     WaitInterrupted, EnterBusy, EnterFails, BeginPass, ReturnToUser, CallSubmissions,
     CallCompletions, SubmissionsReturn
<1>4. QED
  BY <1>1, <1>2, <1>3, QuietInv DEF TypeOK

(* Every step keeps the invariant.                                         *)
LEMMA StepInv == IInv /\ [Next]_vars => IInv'
<1> SUFFICES ASSUME IInv, [Next]_vars PROVE IInv'
  OBVIOUS
<1> USE DEF rings, counts, stack, outer, subs, cols
<1>a. TypeOK /\ PassInv /\ RingInv /\ RequestsAccounted
  BY DEF IInv
<1>b. TypeOK' /\ StackInv' /\ SleepInv'
  BY StepType, StepStack, StepSleeps
<1>c. /\ Cardinality(InSQ) \in Nat /\ Cardinality(InFlight) \in Nat
      /\ sqTimers \in Nat /\ SQSize \in Nat
  BY <1>a, RequestCount, SQSizeAssumption DEF InSQ, InFlight, TypeOK
<1>1. ASSUME NEW r \in Req, Submit(r) PROVE IInv'
  <2>1. CASE SQFull
    <3>1. UNCHANGED <<place, Completed, Cardinality(InSQ), Cardinality(InFlight)>>
      BY <1>1, <2>1, SamePlace DEF Submit
    <3>2. QED
      BY <1>1, <1>a, <1>b, <1>c, <2>1, <3>1
         DEF Submit, IInv, PassInv, RingInv, RequestsAccounted, TypeOK
  <2>2. CASE ~SQFull
    <3>1. /\ Completed' = Completed
          /\ Cardinality(InSQ') = Cardinality(InSQ) + 1
          /\ Cardinality(InFlight') = Cardinality(InFlight) + 1
      BY <1>1, <1>a, <2>2, OneSubmitted DEF Submit
    <3>2. QED
      BY <1>1, <1>a, <1>b, <1>c, <2>2, <3>1
         DEF Submit, SQFull, IInv, PassInv, RingInv, RequestsAccounted, TypeOK
  <2>3. QED
    BY <2>1, <2>2
<1>2. ASSUME NEW r \in Req, TakeResult(r) PROVE IInv'
  <2>1. Completed' = Completed /\ InSQ' = InSQ /\ InFlight' = InFlight
    BY <1>2, <1>a DEF TakeResult, TypeOK, Completed, InSQ, InFlight
  <2>2. QED
    BY <1>2, <1>a, <1>b, <2>1 DEF TakeResult, IInv, PassInv, RingInv, RequestsAccounted
<1>3. CASE \/ CallFlush("flush") \/ CallRun \/ CallRunForNs
           \/ RunReturns \/ RunSleeps \/ PushTimer \/ PushTimerFull \/ PushTimerAgain
           \/ DrainReturns \/ DrainReaps \/ WaitDone \/ WaitInterrupted
           \/ EnterBusy \/ EnterFails \/ BeginPass
  BY <1>3, <1>b, StepOutsidePass
<1>4. CASE Enter
  <2>1. InSQ' = {} /\ Completed' = Completed /\ InFlight' = InFlight
    BY <1>4, <1>a DEF Enter, TypeOK, InSQ, Completed, InFlight
  <2>2. Cardinality(InSQ') = 0
    BY <2>1, FS_EmptySet
  <2>3. QED
    BY <1>4, <1>a, <1>b, <1>c, <2>1, <2>2
       DEF Enter, IInv, PassInv, RingInv, RequestsAccounted
<1>5. CASE EnterPartial
  <2>1. PICK taken \in SUBSET InSQ, n \in 0..sqTimers :
          /\ place' = [r \in Req |-> IF r \in taken THEN "kernel" ELSE place[r]]
          /\ sqTimers' = sqTimers - n
    BY <1>5 DEF EnterPartial
  <2>2. InSQ' \subseteq InSQ /\ Completed' = Completed /\ InFlight' = InFlight
    BY <1>a, <2>1 DEF TypeOK, InSQ, Completed, InFlight
  <2>3. Cardinality(InSQ') <= Cardinality(InSQ) /\ Cardinality(InSQ') \in Nat
    BY <2>2, RequestCount, FS_Subset, FS_CardinalityType DEF InSQ
  <2>4. RingInv'
    BY <1>a, <1>c, <2>1, <2>3 DEF RingInv
  <2>5. PassInv' /\ RequestsAccounted'
    BY <1>5, <1>a, <2>2 DEF EnterPartial, SubmissionsReturn, CallCompletions, Fault,
       PassInv, RequestsAccounted
  <2>6. QED
    BY <1>b, <2>4, <2>5 DEF IInv
<1>6. ASSUME NEW r \in Req, ReapRequest(r) PROVE IInv'
  <2>1. /\ Completed' = Completed \ {r}
        /\ InSQ' = InSQ
        /\ Cardinality(InFlight') = Cardinality(InFlight) - 1
    BY <1>6, <1>a, OneReaped DEF ReapRequest, PassInv
  <2>2. QED
    BY <1>6, <1>a, <1>b, <1>c, <2>1
       DEF ReapRequest, IInv, PassInv, RingInv, RequestsAccounted, TypeOK
<1>7. CASE ReapTimer
  <2>1. UNCHANGED <<Completed, Cardinality(InSQ), Cardinality(InFlight)>>
    BY <1>7, SamePlace DEF ReapTimer
  <2>2. PassInv'
    BY <1>7, <1>a, <2>1 DEF ReapTimer, PassInv, TypeOK
  <2>3. QED
    BY <1>7, <1>a, <1>b, <2>1, <2>2 DEF ReapTimer, IInv, RingInv, RequestsAccounted
<1>8. CASE PassRepeats \/ PassReturnsToSubmissions \/ PassReturnsToFlush \/ PassReturnsToRunForNs
  <2>1. UNCHANGED <<Completed, Cardinality(InSQ), Cardinality(InFlight)>>
    BY <1>8, SamePlace DEF PassRepeats, PassReturnsToSubmissions, PassReturnsToFlush,
       PassReturnsToRunForNs, PassEnds
  <2>2. /\ reqQueued' = reqQueued - collected
        /\ collected' = 0 /\ passReqs' = {} /\ passTimers' = 0 /\ pc = "reap"
        /\ UNCHANGED <<refused, cqTimers, sqTimers>>
    BY <1>8, <1>a DEF PassRepeats, PassReturnsToSubmissions, PassReturnsToFlush,
       PassReturnsToRunForNs, PassEnds, ReturnToUser, WantToReap, TypeOK
  <2>3. QED
    BY <1>a, <1>b, <1>c, <2>1, <2>2
       DEF IInv, PassInv, RingInv, RequestsAccounted, TypeOK
<1>9. CASE TimerFires
  <2>1. UNCHANGED <<Completed, Cardinality(InSQ), Cardinality(InFlight)>>
    BY <1>9, SamePlace DEF TimerFires
  <2>2. QED
    BY <1>9, <1>a, <1>b, <2>1
       DEF TimerFires, IInv, PassInv, RingInv, RequestsAccounted, TypeOK
<1>10. ASSUME NEW r \in Req, KernelCompletes(r) PROVE IInv'
  <2>1. Completed \subseteq Completed' /\ InSQ' = InSQ /\ InFlight' = InFlight
    BY <1>10, <1>a DEF KernelCompletes, TypeOK, Completed, InSQ, InFlight
  <2>2. QED
    BY <1>10, <1>a, <1>b, <2>1 DEF KernelCompletes, IInv, PassInv, RingInv, RequestsAccounted
<1>11. CASE UNCHANGED vars
  <2>1. UNCHANGED <<Completed, Cardinality(InSQ), Cardinality(InFlight)>>
    BY <1>11, SamePlace DEF vars
  <2>2. QED
    BY <1>11, <1>a, <1>b, <2>1 DEF vars, IInv, PassInv, RingInv, RequestsAccounted
<1>12. QED
  BY <1>1, <1>2, <1>3, <1>4, <1>5, <1>6, <1>7, <1>8, <1>9, <1>10, <1>11
     DEF Next, User, FaultyStep, Thread, Kernel, Crashed

-----------------------------------------------------------------------------
(* The timers, without EBUSY and without errors that end a call.           *)

LEMMA InitTimers == Init => TInv
<1> SUFFICES ASSUME Init PROVE TInv
  OBVIOUS
<1>1. Outstanding = 0
  BY DEF Init, Outstanding
<1>2. QED
  BY <1>1 DEF Init, TInv, TimersAccounted, NoPanic, PairsInv, NoTimerInv, RoomInv

(* flush_submissions returns: with room for a timer where one is pushed    *)
(* again, and with nothing outstanding to a flush that no timer led to.    *)
LEMMA SubmissionsReturnTimers ==
  ASSUME IInv, TInv, pc \in {"enter", "wait"}, SubmissionsReturn,
         Outstanding' = Outstanding, ~SQFull'
  PROVE  TInv'
<1>1. TypeOK /\ TimersAccounted /\ PairsInv /\ NoTimerInv /\ StackInv
  BY DEF IInv, TInv
<1>2. CASE site = "push"
  BY <1>1, <1>2 DEF SubmissionsReturn, TInv, TimersAccounted, NoPanic, PairsInv, NoTimerInv,
     RoomInv, TypeOK
<1>3. CASE site \in {"flush0", "flush1"}
  BY <1>1, <1>3 DEF SubmissionsReturn, CallCompletions, outer, subs, TInv, TimersAccounted,
     NoPanic, PairsInv, NoTimerInv, RoomInv, TypeOK
<1>4. QED
  BY <1>1, <1>2, <1>3 DEF StackInv, TypeOK

LEMMA StepTimers ==
  ASSUME MildFaults
  PROVE  IInv /\ IInv' /\ TInv /\ [Next]_vars => TInv'
<1> SUFFICES ASSUME IInv, IInv', TInv, [Next]_vars PROVE TInv'
  OBVIOUS
<1> USE DEF rings, counts, stack, outer, subs, cols
<1>a. /\ TypeOK /\ PassInv /\ RingInv /\ StackInv /\ TypeOK'
      /\ TimersAccounted /\ NoPanic /\ PairsInv /\ NoTimerInv /\ RoomInv
  BY DEF IInv, TInv
<1>b. /\ sqTimers \in Nat /\ inTimers \in Nat /\ cqTimers \in Nat
      /\ Outstanding \in Nat /\ SQSize \in Nat \ {0}
      /\ Cardinality(InSQ) \in Nat /\ Cardinality(InSQ') \in Nat
  BY <1>a, RequestCount, SQSizeAssumption DEF TypeOK, Outstanding, InSQ
<1>1. CASE User
  <2>1. Outstanding' = Outstanding /\ pc = "idle"
    BY <1>1 DEF User, Submit, TakeResult, CallFlush, CallRun, CallRunForNs, Outstanding
  <2>2. Outstanding = 0 /\ timeouts = 0
    BY <1>a, <2>1 DEF TimersAccounted, PairsInv
  <2>3. QED
    BY <1>1, <2>1, <2>2 DEF User, Submit, TakeResult, CallFlush, CallRun, CallRunForNs,
       CallSubmissions, TInv, TimersAccounted, NoPanic, PairsInv, NoTimerInv, RoomInv
<1>2. CASE RunReturns \/ RunSleeps \/ DrainReturns
  <2>1. Outstanding' = Outstanding
    BY <1>2 DEF RunReturns, RunSleeps, DrainReturns, Outstanding
  <2>2. Outstanding = 0 /\ timeouts = 0
    BY <1>2, <1>a DEF RunReturns, RunSleeps, DrainReturns, TimersAccounted, PairsInv
  <2>3. QED
    BY <1>2, <2>1, <2>2 DEF RunReturns, RunSleeps, DrainReturns, ReturnToUser,
       TInv, TimersAccounted, NoPanic, PairsInv, NoTimerInv, RoomInv
<1>3. CASE PushTimer \/ PushTimerAgain
  <2>1. ~SQFull
    BY <1>3, <1>a DEF PushTimer, PushTimerAgain, RoomInv
  <2>2. Outstanding' = Outstanding + 1
    BY <1>3, <1>b, <2>1 DEF PushTimer, PushTimerAgain, Outstanding
  <2>3. QED
    BY <1>3, <1>a, <1>b, <2>1, <2>2 DEF PushTimer, PushTimerAgain, CallSubmissions,
       TInv, TimersAccounted, NoPanic, PairsInv, NoTimerInv, RoomInv, TypeOK
<1>4. CASE PushTimerFull \/ DrainReaps \/ BeginPass
  <2>1. Outstanding' = Outstanding
    BY <1>4 DEF PushTimerFull, DrainReaps, BeginPass, Outstanding
  <2>2. QED
    BY <1>4, <1>a, <1>b, <2>1 DEF PushTimerFull, DrainReaps, BeginPass, CallSubmissions,
       CallCompletions, StackInv, TInv, TimersAccounted, NoPanic, PairsInv, NoTimerInv,
       RoomInv, TypeOK
<1>5. CASE Enter
  <2>1. Outstanding' = Outstanding
    BY <1>5, <1>b DEF Enter, Outstanding
  <2>2. InSQ' = {} /\ sqTimers' = 0
    BY <1>5, <1>a DEF Enter, InSQ, TypeOK
  <2>3. QED
    BY <1>5, <1>a, <2>1, <2>2 DEF Enter, TInv, TimersAccounted, NoPanic, PairsInv,
       NoTimerInv, RoomInv
<1>6. CASE WaitDone \/ WaitInterrupted
  <2>1. Outstanding' = Outstanding
    BY <1>6 DEF WaitDone, WaitInterrupted, Outstanding
  <2>2. InSQ' = {} /\ Cardinality({}) = 0 /\ sqTimers' = 0 /\ ~SQFull'
    BY <1>6, <1>a, <1>b, FS_EmptySet DEF WaitDone, WaitInterrupted, RoomInv, InSQ, SQFull
  <2>3. CASE SubmissionsReturn
    BY <1>6, <2>1, <2>2, <2>3, SubmissionsReturnTimers DEF WaitDone, WaitInterrupted
  <2>4. CASE pc' = "enter" /\ UNCHANGED <<stack, outer, subs, cols>>
    BY <1>6, <1>a, <2>1, <2>4 DEF WaitDone, WaitInterrupted, TInv, TimersAccounted,
       NoPanic, PairsInv, NoTimerInv, RoomInv
  <2>5. QED
    BY <1>6, <2>3, <2>4 DEF WaitDone, WaitInterrupted
<1>7. CASE EnterPartial
  <2>1. PICK taken \in SUBSET InSQ, n \in 0..sqTimers :
          /\ Cardinality(taken) + n \in 1..(Cardinality(InSQ) + sqTimers - 1)
          /\ place' = [r \in Req |-> IF r \in taken THEN "kernel" ELSE place[r]]
          /\ sqTimers' = sqTimers - n
          /\ inTimers' = inTimers + n
    BY <1>7 DEF EnterPartial
  <2>2. Outstanding' = Outstanding
    BY <1>7, <1>b, <2>1 DEF EnterPartial, Outstanding
  <2>3. InSQ' = InSQ \ taken
    BY <1>a, <2>1 DEF TypeOK, InSQ
  <2>4. Cardinality(InSQ') = Cardinality(InSQ) - Cardinality(taken)
    <3>1. IsFiniteSet(InSQ) /\ InSQ \cap taken = taken
      BY <2>1, RequestCount DEF InSQ
    <3>2. QED
      BY <2>3, <3>1, FS_Difference
  <2>5. ~SQFull'
    <3>1. Cardinality(taken) \in Nat
      BY <2>1, RequestCount DEF InSQ
    <3>2. QED
      BY <1>a, <1>b, <2>1, <2>4, <3>1 DEF SQFull, RingInv
  <2>6. QED
    BY <1>7, <2>2, <2>5, SubmissionsReturnTimers DEF EnterPartial
<1>8. ~EnterBusy /\ ~EnterFails
  BY DEF EnterBusy, EnterFails, Fault, MildFaults
<1>9. ASSUME NEW r \in Req, ReapRequest(r) \/ KernelCompletes(r) PROVE TInv'
  <2>1. Outstanding' = Outstanding /\ InSQ' = InSQ
    BY <1>9, <1>a DEF ReapRequest, KernelCompletes, Outstanding, InSQ, TypeOK, PassInv, Completed
  <2>2. QED
    BY <1>9, <1>a, <2>1 DEF ReapRequest, KernelCompletes, TInv, TimersAccounted, NoPanic,
       PairsInv, NoTimerInv, RoomInv, SQFull
<1>10. CASE ReapTimer
  <2>1. Outstanding > 0 /\ Outstanding' = Outstanding - 1
    BY <1>10, <1>a, <1>b DEF ReapTimer, Outstanding, PassInv, TypeOK
  <2>2. colTimeouts = Outstanding
    BY <1>10, <1>a DEF ReapTimer, TimersAccounted, PairsInv, TypeOK
  <2>3. QED
    BY <1>10, <1>a, <1>b, <2>1, <2>2 DEF ReapTimer, TInv, TimersAccounted, NoPanic,
       PairsInv, NoTimerInv, RoomInv
<1>11. CASE PassRepeats \/ PassReturnsToSubmissions \/ PassReturnsToFlush \/ PassReturnsToRunForNs
  <2>1. Outstanding' = Outstanding /\ pc = "reap" /\ reaper # "busy"
    BY <1>11, <1>a DEF PassRepeats, PassReturnsToSubmissions, PassReturnsToFlush,
       PassReturnsToRunForNs, PassEnds, PairsInv, Outstanding
  <2>2. colTimeouts = Outstanding
    BY <1>a, <2>1 DEF TimersAccounted, TypeOK
  <2>3. CASE PassRepeats
    BY <1>a, <2>1, <2>3 DEF PassRepeats, WantToReap, TypeOK, PassEnds,
       TInv, TimersAccounted, NoPanic, PairsInv, NoTimerInv, RoomInv
  <2>4. CASE PassReturnsToFlush
    BY <1>a, <2>1, <2>2, <2>4 DEF PassReturnsToFlush, ReturnToUser,
       TInv, TimersAccounted, NoPanic, PairsInv, NoTimerInv, RoomInv
  <2>5. CASE PassReturnsToRunForNs
    BY <1>a, <2>1, <2>2, <2>5 DEF PassReturnsToRunForNs,
       TInv, TimersAccounted, NoPanic, PairsInv, NoTimerInv, RoomInv
  <2>6. QED
    BY <1>11, <2>1, <2>3, <2>4, <2>5 DEF PassReturnsToSubmissions
<1>12. CASE TimerFires
  <2>1. Outstanding' = Outstanding /\ InSQ' = InSQ
    BY <1>12, <1>b DEF TimerFires, Outstanding, InSQ
  <2>2. QED
    BY <1>12, <1>a, <2>1 DEF TimerFires, TInv, TimersAccounted, NoPanic, PairsInv,
       NoTimerInv, RoomInv, SQFull
<1>13. CASE UNCHANGED vars
  BY <1>13, <1>a DEF vars, TInv, TimersAccounted, NoPanic, PairsInv, NoTimerInv, RoomInv,
     SQFull, InSQ, Outstanding
<1>14. QED
  BY <1>1, <1>2, <1>3, <1>4, <1>5, <1>6, <1>7, <1>8, <1>9, <1>10, <1>11, <1>12, <1>13
     DEF Next, FaultyStep, Thread, Kernel, Crashed

-----------------------------------------------------------------------------
(* The inductive invariant holds in every reachable state.                 *)
THEOREM Invariance == SafeSpec => []IInv
BY InitInv, StepInv, PTL DEF SafeSpec

(* Every variable keeps its type: req_queued does not wrap below zero      *)
(* (lib.rs:243) and the submission queue holds what it has room for.       *)
THEOREM TypeCorrect == SafeSpec => []TypeOK
<1>1. IInv => TypeOK
  BY DEF IInv
<1>2. QED
  BY <1>1, Invariance, PTL

(* req_queued is the number of requests in flight, plus those reaped in    *)
(* the pass that is going on and the ones whose push failed, whatever      *)
(* submit_and_wait does (lib.rs:99-113, 216-247).                          *)
THEOREM CountsRequests == SafeSpec => []RequestsAccounted
<1>1. IInv => RequestsAccounted
  BY DEF IInv
<1>2. QED
  BY <1>1, Invariance, PTL

(* run never blocks for a timer while a task waits for a completion        *)
(* (lib.rs:119-127).                                                       *)
THEOREM SleepsWhenIdle == SafeSpec => []SleepsOnlyIdle
<1>1. IInv => SleepsOnlyIdle
  BY DEF IInv, SleepInv, SleepsOnlyIdle
<1>2. QED
  BY <1>1, Invariance, PTL

(* The pair that the calls of run_for_ns hand down and return counts the   *)
(* timers outstanding, signals and short submissions included              *)
(* (lib.rs:143-172, 176-210).                                              *)
THEOREM CountsTimers ==
  ASSUME MildFaults
  PROVE  SafeSpec => []TimersAccounted
<1>1. IInv /\ IInv' /\ TInv /\ [Next]_vars => TInv'
  BY StepTimers
<1>2. TInv => TimersAccounted
  BY DEF TInv
<1>3. QED
  BY <1>1, <1>2, InitTimers, Invariance, PTL DEF SafeSpec

(* Then neither the decrement of `timeouts` nor the second push of a timer *)
(* panics (lib.rs:159, 227).                                               *)
THEOREM NeverPanics ==
  ASSUME MildFaults
  PROVE  SafeSpec => []NoPanic
<1>1. IInv /\ IInv' /\ TInv /\ [Next]_vars => TInv'
  BY StepTimers
<1>2. TInv => NoPanic
  BY DEF TInv
<1>3. QED
  BY <1>1, <1>2, InitTimers, Invariance, PTL DEF SafeSpec

==============================================================================
