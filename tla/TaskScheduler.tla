---------------------------- MODULE TaskScheduler ----------------------------
(***************************************************************************)
(* What the executor promises its users, without pointers, slots or        *)
(* counters: a task that is spawned or woken becomes ready; the tasks that *)
(* are ready when a drain begins are its batch and are polled once each,   *)
(* last in first out; a task that becomes ready meanwhile waits for the    *)
(* next drain; run returns when no task is left, and not before.           *)
(* (async-executor/src/lib.rs:271-328, queue.rs:52-80.)                    *)
(***************************************************************************)
EXTENDS Integers, Sequences, Functions

CONSTANTS Task, NULL

VARIABLES
  active,    \* tasks that were spawned and have not finished
  ready,     \* tasks to poll in the next drain, the last one to arrive first
  batch,     \* tasks still to poll in the drain that is going on
  current,   \* the task being polled, or NULL
  phase      \* "stopped", "drain" or "rest" (post_drain_fn)

vars == <<active, ready, batch, current, phase>>

(* Code of the user runs outside the drain or in the poll of a task.       *)
UserRuns == phase # "drain" \/ current # NULL

(* The tasks that wait for a wake-up.                                      *)
Parked == active \ (Range(ready) \cup Range(batch) \cup {current})

Push(t) == ready' = <<t>> \o ready

Init ==
  /\ active = {}
  /\ ready = <<>>
  /\ batch = <<>>
  /\ current = NULL
  /\ phase = "stopped"

Spawn(t) ==
  /\ UserRuns
  /\ t \notin active
  /\ active' = active \cup {t}
  /\ Push(t)
  /\ UNCHANGED <<batch, current, phase>>

Wake(t) ==
  /\ UserRuns
  /\ t \in Parked
  /\ Push(t)
  /\ UNCHANGED <<active, batch, current, phase>>

TakeBatch ==
  /\ batch' = ready
  /\ ready' = <<>>
  /\ phase' = "drain"
  /\ UNCHANGED <<active, current>>

Start == phase = "stopped" /\ TakeBatch

Again == phase = "rest" /\ active # {} /\ TakeBatch

Poll ==
  /\ phase = "drain"
  /\ current = NULL
  /\ batch # <<>>
  /\ current' = Head(batch)
  /\ batch' = Tail(batch)
  /\ UNCHANGED <<active, ready, phase>>

Finish ==
  /\ current # NULL
  /\ active' = active \ {current}
  /\ current' = NULL
  /\ UNCHANGED <<ready, batch, phase>>

Park ==
  /\ current # NULL
  /\ current' = NULL
  /\ UNCHANGED <<active, ready, batch, phase>>

Yield ==
  /\ current # NULL
  /\ Push(current)
  /\ current' = NULL
  /\ UNCHANGED <<active, batch, phase>>

EndBatch ==
  /\ phase = "drain"
  /\ current = NULL
  /\ batch = <<>>
  /\ phase' = "rest"
  /\ UNCHANGED <<active, ready, batch, current>>

Return ==
  /\ phase = "rest"
  /\ active = {}
  /\ phase' = "stopped"
  /\ UNCHANGED <<active, ready, batch, current>>

Next ==
  \/ \E t \in Task : Spawn(t) \/ Wake(t)
  \/ Start \/ Again \/ Poll \/ Finish \/ Park \/ Yield \/ EndBatch \/ Return

(* A drain that has begun goes on: polls return, the batch is emptied, and *)
(* after the post-drain function the next batch is taken or run returns.   *)
Fairness ==
  /\ WF_vars(Again)
  /\ WF_vars(Poll)
  /\ WF_vars(Finish \/ Park \/ Yield)
  /\ WF_vars(EndBatch)
  /\ WF_vars(Return)

SafeSpec == Init /\ [][Next]_vars
Spec == SafeSpec /\ Fairness

==============================================================================
