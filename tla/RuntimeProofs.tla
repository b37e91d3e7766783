----------------------------- MODULE RuntimeProofs -----------------------------
(***************************************************************************)
(* What is proved of the composition of tasks, leaf futures, executor and  *)
(* reactor, for every finite set of tasks and every submission queue.      *)
(* TypeCorrect and WakesNotLost hold however many leaf futures a task      *)
(* joins.  The other theorems are about Width = 1, that is tasks that      *)
(* await one leaf future after the other.  (Run runtime_joined shows what  *)
(* a join does.)                                                           *)
(***************************************************************************)
EXTENDS Runtime, Functions, FiniteSetTheorems, SequenceTheorems, TLAPS

(* A sequence of tasks in which none is twice.                             *)
Distinct(s) == \A i, j \in 1..Len(s) : s[i] = s[j] => i = j

(* The entries in the submission queue are finitely many.                  *)
SQFinite == IsFiniteSet(EntriesOf(sq, Leaf))

(* Outside of a drain nothing is left to poll, and only flush_completions  *)
(* has something to visit.                                                 *)
PhaseInv ==
  /\ phase # "drain" => batch = <<>> /\ current = NULL
  /\ reactor \in {"flushed", "reap"} => phase = "rest"
  /\ reactor # "reap" => pass = NoEntries

(* A task that waits has something to wait for, and of every leaf future   *)
(* that is still pending in it, in a join too, a completion is to come:    *)
(* the request was submitted, or the task was woken to try again           *)
(* (reika-macros lib.rs:457-474).                                          *)
NoWakeLost ==
  \A t \in Scheduler!Parked :
    Pending(t) # {} /\ \A l \in Pending(t) : Entries[l] > 0

(* The invariant for every width.                                          *)
GInv == TypeOK /\ SQFinite /\ PhaseInv /\ NoWakeLost

(* The tasks that have an entry on its way.                                *)
Awaiting == {t \in Task : Entries[<<t, 1>>] > 0}

(* An unfinished task is once in the run queue, once in the batch, running *)
(* or waiting for the one entry that points to its request.                *)
PlaceInv ==
  /\ Distinct(ready) /\ Distinct(batch)
  /\ Range(ready) \cap Range(batch) = {}
  /\ active = Range(ready) \cup Range(batch) \cup ({current} \ {NULL}) \cup Awaiting
  /\ (Range(ready) \cup Range(batch)) \cap Awaiting = {}
  /\ current \notin Range(ready) \cup Range(batch) \cup Awaiting
  /\ \A l \in Leaf : Entries[l] <= 1

(* The request of an entry is pending; a finished task has no request.     *)
FutInv ==
  /\ \A l \in Leaf : Entries[l] > 0 => fut[l] = "pending"
  /\ \A l \in Leaf : Owner(l) \notin active => fut[l] = "none"

(* The invariant for tasks that await one leaf future at a time.           *)
IInv == GInv /\ PlaceInv /\ FutInv

-----------------------------------------------------------------------------
(* Sequences of tasks.                                                     *)

(* A sequence of which the first element is taken.                         *)
LEMMA SeqPop ==
  ASSUME NEW T, NEW s \in Seq(T), s # <<>>
  PROVE  /\ Head(s) \in T /\ Tail(s) \in Seq(T)
         /\ Range(s) = {Head(s)} \cup Range(Tail(s))
         /\ Distinct(s) => Head(s) \notin Range(Tail(s)) /\ Distinct(Tail(s))
<1>1. /\ Len(s) \in Nat \ {0} /\ Head(s) = s[1] /\ Tail(s) \in Seq(T)
      /\ Len(Tail(s)) = Len(s) - 1
      /\ \A i \in 1..(Len(s) - 1) : Tail(s)[i] = s[i + 1]
      /\ DOMAIN s = 1..Len(s) /\ DOMAIN Tail(s) = 1..(Len(s) - 1)
      /\ \A i \in 1..Len(s) : s[i] \in T
  OBVIOUS
<1>2. Range(s) = {Head(s)} \cup Range(Tail(s))
  <2>1. ASSUME NEW i \in 1..Len(s) PROVE s[i] \in {Head(s)} \cup Range(Tail(s))
    <3>1. CASE i = 1
      BY <1>1, <3>1
    <3>2. CASE i # 1
      <4>1. i - 1 \in 1..(Len(s) - 1) /\ Tail(s)[i - 1] = s[i]
        BY <1>1, <3>2
      <4>2. QED
        BY <1>1, <4>1 DEF Range
    <3>3. QED
      BY <3>1, <3>2
  <2>2. ASSUME NEW i \in 1..(Len(s) - 1) PROVE Tail(s)[i] \in Range(s)
    <3>1. i + 1 \in DOMAIN s /\ Tail(s)[i] = s[i + 1]
      BY <1>1
    <3>2. QED
      BY <3>1 DEF Range
  <2>3. Head(s) \in Range(s)
    BY <1>1 DEF Range
  <2>4. QED
    BY <1>1, <2>1, <2>2, <2>3 DEF Range
<1>3. ASSUME Distinct(s) PROVE Head(s) \notin Range(Tail(s)) /\ Distinct(Tail(s))
  <2>1. ASSUME NEW i \in 1..(Len(s) - 1) PROVE Tail(s)[i] # Head(s)
    <3>1. i + 1 \in 1..Len(s) /\ 1 \in 1..Len(s) /\ i + 1 # 1 /\ Tail(s)[i] = s[i + 1]
      BY <1>1
    <3>2. QED
      BY <1>1, <1>3, <3>1 DEF Distinct
  <2>2. ASSUME NEW i \in 1..(Len(s) - 1), NEW j \in 1..(Len(s) - 1), Tail(s)[i] = Tail(s)[j]
        PROVE  i = j
    <3>1. i + 1 \in 1..Len(s) /\ j + 1 \in 1..Len(s) /\ s[i + 1] = s[j + 1]
      BY <1>1, <2>2
    <3>2. i + 1 = j + 1
      BY <1>3, <3>1 DEF Distinct
    <3>3. QED
      BY <3>2
  <2>3. QED
    BY <1>1, <2>1, <2>2 DEF Range, Distinct
<1>4. QED
  BY <1>1, <1>2, <1>3

(* A task put in front n times.                                            *)
LEMMA SeqPush ==
  ASSUME NEW T, NEW s \in Seq(T), NEW t \in T, NEW n \in Nat
  PROVE  /\ Times(n, t) \o s \in Seq(T)
         /\ n > 0 => Range(Times(n, t) \o s) = {t} \cup Range(s)
<1> DEFINE q == Times(n, t) \o s
<1>1. Times(n, t) \in Seq(T) /\ Len(Times(n, t)) = n
  BY DEF Times
<1>2. /\ q \in Seq(T) /\ Len(q) = n + Len(s)
      /\ DOMAIN q = 1..(n + Len(s)) /\ DOMAIN s = 1..Len(s) /\ Len(s) \in Nat
      /\ \A i \in 1..n : q[i] = t
      /\ \A i \in 1..Len(s) : q[i + n] = s[i]
  BY <1>1 DEF Times
<1>3. n > 0 => Range(q) = {t} \cup Range(s)
  <2>1. ASSUME NEW i \in 1..(n + Len(s)) PROVE (n > 0 /\ q[i] = t) \/ q[i] \in Range(s)
    <3>1. CASE i \in 1..n
      BY <1>2, <3>1
    <3>2. CASE i \notin 1..n
      <4>1. i - n \in 1..Len(s) /\ q[(i - n) + n] = s[i - n] /\ (i - n) + n = i
        BY <1>2, <3>2
      <4>2. QED
        BY <1>2, <4>1 DEF Range
    <3>3. QED
      BY <3>1, <3>2
  <2>2. ASSUME NEW i \in 1..Len(s) PROVE s[i] \in Range(q)
    <3>1. i + n \in DOMAIN q /\ q[i + n] = s[i]
      BY <1>2
    <3>2. QED
      BY <3>1 DEF Range
  <2>3. ASSUME n > 0 PROVE t \in Range(q)
    <3>1. 1 \in 1..n /\ 1 \in 1..(n + Len(s))
      BY <1>2, <2>3
    <3>2. 1 \in DOMAIN q /\ q[1] = t
      BY <1>2, <3>1
    <3>3. QED
      BY <3>2 DEF Range
  <2>4. /\ Range(q) = {q[i] : i \in 1..(n + Len(s))}
        /\ Range(s) = {s[i] : i \in 1..Len(s)}
    BY <1>2 DEF Range
  <2>5. Range(s) \subseteq Range(q) /\ Range(q) \subseteq {t} \cup Range(s)
    BY <2>1, <2>2, <2>4
  <2>6. QED
    BY <2>3, <2>5
<1>4. QED
  BY <1>2, <1>3

(* Put in front not at all or once.                                        *)
LEMMA FewTimes ==
  ASSUME NEW T, NEW t \in T, NEW s \in Seq(T)
  PROVE  Times(0, t) \o s = s /\ Times(1, t) = <<t>>
<1>1. Times(0, t) \in Seq(T) /\ Len(Times(0, t)) = 0
  BY DEF Times
<1>2. Times(0, t) = <<>>
  BY <1>1, EmptySeq
<1>3. Times(1, t) = <<t>>
  BY DEF Times
<1>4. QED
  BY <1>2, <1>3

(* The push of one task that is not there yet.                             *)
LEMMA PushOne ==
  ASSUME NEW T, NEW s \in Seq(T), NEW t \in T
  PROVE  /\ <<t>> \o s \in Seq(T)
         /\ Range(<<t>> \o s) = {t} \cup Range(s)
         /\ Distinct(s) /\ t \notin Range(s) => Distinct(<<t>> \o s)
<1> DEFINE q == <<t>> \o s
<1>1. /\ q \in Seq(T) /\ Len(q) = Len(s) + 1 /\ q[1] = t /\ Len(s) \in Nat
      /\ DOMAIN s = 1..Len(s) /\ DOMAIN q = 1..Len(q)
      /\ \A i \in 1..Len(s) : q[i + 1] = s[i]
  OBVIOUS
<1>2. ASSUME NEW i \in 2..Len(q) PROVE i - 1 \in 1..Len(s) /\ q[i] = s[i - 1]
  <2>1. i - 1 \in 1..Len(s) /\ q[(i - 1) + 1] = s[i - 1] /\ (i - 1) + 1 = i
    BY <1>1
  <2>2. QED
    BY <2>1
<1>3. Range(q) = {t} \cup Range(s)
  <2>1. ASSUME NEW i \in 1..Len(q) PROVE q[i] \in {t} \cup Range(s)
    <3>1. i = 1 \/ i \in 2..Len(q)
      BY <1>1
    <3>2. QED
      BY <1>1, <1>2, <3>1 DEF Range
  <2>2. ASSUME NEW i \in 1..Len(s) PROVE s[i] \in Range(q)
    <3>1. i + 1 \in DOMAIN q /\ q[i + 1] = s[i]
      BY <1>1
    <3>2. QED
      BY <3>1 DEF Range
  <2>3. 1 \in DOMAIN q
    BY <1>1
  <2>4. QED
    BY <1>1, <2>1, <2>2, <2>3 DEF Range
<1>4. ASSUME Distinct(s), t \notin Range(s) PROVE Distinct(q)
  <2>1. \A i \in 1..Len(s) : s[i] # t
    BY <1>1, <1>4 DEF Range
  <2>2. ASSUME NEW i \in 1..Len(q), NEW j \in 1..Len(q), q[i] = q[j] PROVE i = j
    <3>1. CASE i = 1 \/ j = 1
      BY <1>1, <1>2, <2>1, <2>2, <3>1
    <3>2. CASE i # 1 /\ j # 1
      <4>1. i \in 2..Len(q) /\ j \in 2..Len(q)
        BY <1>1, <3>2
      <4>2. i - 1 = j - 1
        BY <1>2, <1>4, <2>2, <4>1 DEF Distinct
      <4>3. QED
        BY <4>1, <4>2
    <3>3. QED
      BY <3>1, <3>2
  <2>3. QED
    BY <2>2 DEF Distinct
<1>5. QED
  BY <1>1, <1>3, <1>4

-----------------------------------------------------------------------------
(* Leaves and entries.                                                     *)

LEMMA Leaves ==
  /\ IsFiniteSet(Leaf)
  /\ \A l \in Leaf : Owner(l) \in Task /\ Owner(l) # NULL
  /\ \A t \in Task : <<t, 1>> \in LeavesOf(t) /\ LeavesOf(t) \subseteq Leaf
<1>1. IsFiniteSet(1..Width)
  BY WidthAssumption, FS_Interval
<1>2. IsFiniteSet(Leaf)
  BY <1>1, TaskAssumption, FS_Product DEF Leaf
<1>3. QED
  BY <1>2, WidthAssumption, TaskAssumption DEF Leaf, Owner, LeavesOf

(* What an entry more for each leaf of P makes of the submission queue.    *)
LEMMA UsedGrows ==
  ASSUME NEW ring \in [Leaf -> Nat], IsFiniteSet(EntriesOf(ring, Leaf)),
         NEW P \in SUBSET Leaf,
         NEW new, new = [l \in Leaf |-> IF l \in P THEN ring[l] + 1 ELSE ring[l]]
  PROVE  IsFiniteSet(EntriesOf(new, Leaf)) /\ Used(new) = Used(ring) + Cardinality(P)
<1> DEFINE E == {<<l, ring[l] + 1>> : l \in P}
           f == [l \in P |-> <<l, ring[l] + 1>>]
<1>1. IsFiniteSet(P)
  BY Leaves, FS_Subset
<1>2. f \in Surjection(P, E) /\ f \in Injection(P, E)
  BY DEF Surjection, Injection, IsInjective
<1>3. IsFiniteSet(E) /\ Cardinality(E) = Cardinality(P)
  BY <1>1, <1>2, FS_Surjection
<1>4. ASSUME NEW l \in Leaf
      PROVE  {l} \X (1..new[l]) = IF l \in P THEN ({l} \X (1..ring[l])) \cup {<<l, ring[l] + 1>>}
                                             ELSE {l} \X (1..ring[l])
  <2>1. ring[l] \in Nat
    OBVIOUS
  <2>2. CASE l \in P
    <3>1. 1..new[l] = (1..ring[l]) \cup {ring[l] + 1}
      BY <2>1, <2>2
    <3>2. QED
      BY <2>2, <3>1
  <2>3. QED
    BY <2>2
<1>5. EntriesOf(new, Leaf) = EntriesOf(ring, Leaf) \cup E
  BY <1>4 DEF EntriesOf
<1>6. EntriesOf(ring, Leaf) \cap E = {}
  BY DEF EntriesOf
<1>7. /\ IsFiniteSet(EntriesOf(ring, Leaf) \cup E)
      /\ Cardinality(EntriesOf(ring, Leaf) \cup E)
           = Cardinality(EntriesOf(ring, Leaf)) + Cardinality(E)
  <2> HIDE DEF E
  <2>1. Cardinality(EntriesOf(ring, Leaf) \cap E) = 0
    BY <1>6, FS_EmptySet
  <2>2. Cardinality(E) \in Nat /\ Cardinality(EntriesOf(ring, Leaf)) \in Nat
    BY <1>3, FS_CardinalityType
  <2>3. QED
    BY <1>3, <2>1, <2>2, FS_Union
<1>8. QED
  BY <1>3, <1>5, <1>7 DEF Used

(* An empty ring has no entries.                                           *)
LEMMA UsedNone == EntriesOf(NoEntries, Leaf) = {} /\ Used(NoEntries) = 0
<1>1. EntriesOf(NoEntries, Leaf) = {}
  BY DEF EntriesOf, NoEntries
<1>2. QED
  BY <1>1, FS_EmptySet DEF Used

(* The scheduler's words in those of this module.                          *)
LEMMA ParkedIs ==
  /\ Scheduler!Parked = active \ (Range(ready) \cup Range(batch) \cup {current})
  /\ Scheduler!Parked' = active' \ (Range(ready') \cup Range(batch') \cup {current'})
BY DEF Scheduler!Parked, Scheduler!Range, Range

-----------------------------------------------------------------------------
(* The steps, for every width.                                             *)

(* What a task waits for depends on its own leaf futures only.             *)
LEMMA PendingSame ==
  ASSUME NEW t, \A l \in Leaf : Owner(l) = t => fut'[l] = fut[l]
  PROVE  Pending(t)' = Pending(t)
BY DEF Pending, LeavesOf

LEMMA InitGeneral == Init => GInv
<1> SUFFICES ASSUME Init PROVE GInv
  OBVIOUS
<1> USE DEF Init, Scheduler!Init
<1>1. NoEntries \in [Leaf -> Nat]
  BY DEF NoEntries
<1>2. TypeOK
  <2>1. <<>> \in Seq(Task)
    OBVIOUS
  <2>2. Used(sq) <= SQSize
    BY UsedNone, SQSizeAssumption
  <2>3. QED
    BY <1>1, <2>1, <2>2 DEF TypeOK
<1>3. SQFinite
  BY UsedNone, FS_EmptySet DEF SQFinite
<1>4. PhaseInv
  BY DEF PhaseInv
<1>5. NoWakeLost
  BY ParkedIs DEF NoWakeLost
<1>6. QED
  BY <1>2, <1>3, <1>4, <1>5 DEF GInv

(* What leaves alone the rings and the leaf futures of the tasks that wait, *)
(* and parks no task.                                                      *)
LEMMA SchedulerStep ==
  ASSUME GInv, UNCHANGED rings,
         active' \in SUBSET Task, ready' \in Seq(Task), batch' \in Seq(Task),
         current' \in Task \cup {NULL}, phase' \in {"stopped", "drain", "rest"},
         fut' \in [Leaf -> {"none", "pending", "ready"}],
         reactor' \in {"call", "flushed", "reap", "back"},
         PhaseInv',
         Scheduler!Parked' \subseteq Scheduler!Parked,
         \A l \in Leaf : Owner(l) \in Scheduler!Parked' => fut'[l] = fut[l]
  PROVE  GInv'
<1>1. TypeOK /\ SQFinite /\ NoWakeLost
  BY DEF GInv
<1>2. Used(sq)' = Used(sq) /\ EntriesOf(sq, Leaf)' = EntriesOf(sq, Leaf) /\ Entries' = Entries
  BY DEF rings, Used, EntriesOf, Entries
<1>3. TypeOK' /\ SQFinite'
  BY <1>1, <1>2 DEF TypeOK, SQFinite, rings
<1>4. NoWakeLost'
  <2>1. ASSUME NEW t \in Scheduler!Parked' PROVE t \in Scheduler!Parked /\ Pending(t)' = Pending(t)
    BY PendingSame
  <2>2. QED
    BY <1>1, <1>2, <2>1, Leaves DEF NoWakeLost, Pending
<1>5. QED
  BY <1>3, <1>4 DEF GInv

(* A poll of leaf futures without a result: the task is woken at once, or  *)
(* all of them have submitted.                                             *)
LEMMA PollLeavesGeneral ==
  ASSUME GInv, current # NULL, NEW S \in SUBSET LeavesOf(current), S # {}, PollLeaves(S)
  PROVE  GInv'
<1>a. TypeOK /\ SQFinite /\ PhaseInv /\ NoWakeLost /\ current \in Task /\ S \subseteq Leaf
  BY Leaves DEF GInv, TypeOK
<1>b. /\ sq \in [Leaf -> Nat] /\ kernel \in [Leaf -> Nat]
      /\ cq \in [Leaf -> Nat] /\ pass \in [Leaf -> Nat]
  BY <1>a DEF TypeOK
<1>1. PICK P \in Accepted(S) : /\ sq' = WithEntries(P)
                               /\ ready' = Times(Cardinality(S \ P), current) \o ready
  BY DEF PollLeaves
<1>2. /\ P \in SUBSET S /\ IsFiniteSet(S) /\ IsFiniteSet(P) /\ IsFiniteSet(S \ P)
      /\ Cardinality(S) \in Nat /\ Cardinality(P) \in Nat /\ Cardinality(S \ P) \in Nat
  <2>1. P \in SUBSET S
    BY <1>1 DEF Accepted
  <2>2. IsFiniteSet(S) /\ IsFiniteSet(P) /\ IsFiniteSet(S \ P)
    BY <1>a, <2>1, Leaves, FS_Subset
  <2>3. QED
    BY <2>1, <2>2, FS_CardinalityType
<1>3. IsFiniteSet(EntriesOf(sq', Leaf)) /\ Used(sq') = Used(sq) + Cardinality(P)
  BY <1>a, <1>b, <1>1, <1>2, UsedGrows DEF SQFinite, WithEntries
<1>4. Used(sq') <= SQSize
  <2>1. Used(sq) \in Nat /\ Used(sq) <= SQSize
    BY <1>a, FS_CardinalityType DEF SQFinite, Used, TypeOK
  <2>2. Cardinality(P) = IF Used(sq) + Cardinality(S) <= SQSize
                         THEN Cardinality(S) ELSE SQSize - Used(sq)
    BY <1>1 DEF Accepted
  <2>3. QED
    BY <1>2, <1>3, <2>1, <2>2, SQSizeAssumption
<1>5. /\ ready' \in Seq(Task)
      /\ Range(ready) \subseteq Range(ready')
      /\ S # P => current \in Range(ready')
  <2>1. ready \in Seq(Task)
    BY <1>a DEF TypeOK
  <2>2. CASE S = P
    <3>1. Cardinality(S \ P) = 0
      BY <2>2, FS_EmptySet
    <3>2. ready' = ready
      BY <1>1, <1>a, <2>1, <3>1, FewTimes
    <3>3. QED
      BY <2>1, <2>2, <3>2
  <2>3. CASE S # P
    <3>1. Cardinality(S \ P) > 0
      BY <1>2, <2>3, FS_EmptySet
    <3>2. ready' \in Seq(Task) /\ Range(ready') = {current} \cup Range(ready)
      BY <1>1, <1>2, <1>a, <2>1, <3>1, SeqPush
    <3>3. QED
      BY <3>2
  <2>4. QED
    BY <2>2, <2>3
<1>6. TypeOK'
  <2>1. sq' \in [Leaf -> Nat]
    BY <1>b, <1>1 DEF WithEntries
  <2>2. fut' \in [Leaf -> {"none", "pending", "ready"}]
    BY <1>a DEF PollLeaves, FutAfterPoll, TypeOK
  <2>3. QED
    BY <1>a, <1>4, <1>5, <2>1, <2>2 DEF PollLeaves, TypeOK
<1>7. PhaseInv' /\ SQFinite'
  BY <1>a, <1>3 DEF PollLeaves, PhaseInv, SQFinite
<1>8. NoWakeLost'
  <2>1. ASSUME NEW l \in Leaf
        PROVE  /\ Entries[l] \in Nat /\ Entries'[l] \in Nat
               /\ Entries'[l] >= Entries[l] /\ (l \in P => Entries'[l] > 0)
    BY <1>b, <1>1 DEF Entries, WithEntries, PollLeaves
  <2>2. SUFFICES ASSUME NEW t \in Scheduler!Parked'
                PROVE  Pending(t)' # {} /\ \A l \in Pending(t)' : Entries'[l] > 0
    BY DEF NoWakeLost
  <2>3. /\ t \in active /\ t \in Task
        /\ t \notin Range(ready') /\ t \notin Range(ready) /\ t \notin Range(batch)
    BY <1>a, <1>5, ParkedIs DEF PollLeaves, TypeOK
  <2>4. CASE t = current
    <3>1. S = P
      BY <1>5, <2>3, <2>4
    <3>2. Pending(t)' = S
      BY <1>a, <2>4 DEF Pending, PollLeaves, FutAfterPoll, LeavesOf
    <3>3. QED
      BY <1>a, <2>1, <3>1, <3>2
  <2>5. CASE t # current
    <3>1. Pending(t) # {} /\ \A l \in Pending(t) : l \in Leaf /\ Entries[l] > 0
      BY <1>a, <2>3, <2>5, ParkedIs DEF NoWakeLost, Pending, LeavesOf
    <3>2. \A l \in Leaf : Owner(l) = t => fut'[l] = fut[l]
      BY <2>5, Leaves DEF PollLeaves, FutAfterPoll, LeavesOf
    <3>3. Pending(t)' = Pending(t)
      BY <3>2, PendingSame
    <3>4. QED
      BY <2>1, <3>1, <3>3
  <2>6. QED
    BY <2>4, <2>5
<1>9. QED
  BY <1>6, <1>7, <1>8 DEF GInv

(* Entries that move from one ring to the next stay entries.               *)
LEMMA SameEntries ==
  ASSUME TypeOK,
         \A l \in Leaf : sq'[l] + kernel'[l] + cq'[l] + pass'[l]
                           = sq[l] + kernel[l] + cq[l] + pass[l]
  PROVE  Entries' = Entries
BY DEF Entries

(* The steps of the rings.                                                 *)
LEMMA FlushEntries ==
  ASSUME TypeOK, Flush
  PROVE  /\ Entries' = Entries
         /\ sq' = NoEntries /\ {sq', kernel', cq', pass'} \subseteq [Leaf -> Nat]
<1>1. /\ sq \in [Leaf -> Nat] /\ kernel \in [Leaf -> Nat]
      /\ cq \in [Leaf -> Nat] /\ pass \in [Leaf -> Nat]
  BY DEF TypeOK
<1>2. /\ sq' \in [Leaf -> Nat] /\ kernel' \in [Leaf -> Nat]
      /\ cq' \in [Leaf -> Nat] /\ pass' \in [Leaf -> Nat]
  BY <1>1 DEF Flush, NoEntries
<1>3. Entries' = Entries
  BY <1>1, SameEntries DEF Flush, NoEntries
<1>4. QED
  BY <1>2, <1>3 DEF Flush

LEMMA BeginPassEntries ==
  ASSUME TypeOK, PhaseInv, BeginPass
  PROVE  Entries' = Entries /\ {sq', kernel', cq', pass'} \subseteq [Leaf -> Nat]
<1>1. /\ sq \in [Leaf -> Nat] /\ kernel \in [Leaf -> Nat]
      /\ cq \in [Leaf -> Nat] /\ pass = NoEntries
  BY DEF TypeOK, PhaseInv, BeginPass
<1>2. /\ sq' \in [Leaf -> Nat] /\ kernel' \in [Leaf -> Nat]
      /\ cq' \in [Leaf -> Nat] /\ pass' \in [Leaf -> Nat]
  BY <1>1 DEF BeginPass, NoEntries
<1>3. Entries' = Entries
  BY <1>1, SameEntries DEF BeginPass, NoEntries
<1>4. QED
  BY <1>2, <1>3

LEMMA CompletionEntries ==
  ASSUME TypeOK, NEW l \in Leaf, KernelCompletes(l)
  PROVE  Entries' = Entries /\ {sq', kernel', cq', pass'} \subseteq [Leaf -> Nat]
<1>1. /\ sq \in [Leaf -> Nat] /\ kernel \in [Leaf -> Nat]
      /\ cq \in [Leaf -> Nat] /\ pass \in [Leaf -> Nat]
  BY DEF TypeOK
<1>2. /\ sq' \in [Leaf -> Nat] /\ kernel' \in [Leaf -> Nat]
      /\ cq' \in [Leaf -> Nat] /\ pass' \in [Leaf -> Nat]
  BY <1>1 DEF KernelCompletes
<1>3. Entries' = Entries
  BY <1>1, SameEntries DEF KernelCompletes
<1>4. QED
  BY <1>2, <1>3

LEMMA ReapEntries ==
  ASSUME TypeOK, NEW l \in Leaf, Reap(l)
  PROVE  /\ Entries' = [Entries EXCEPT ![l] = Entries[l] - 1]
         /\ Entries[l] \in Nat \ {0}
         /\ {sq', kernel', cq', pass'} \subseteq [Leaf -> Nat]
<1>1. /\ sq \in [Leaf -> Nat] /\ kernel \in [Leaf -> Nat]
      /\ cq \in [Leaf -> Nat] /\ pass \in [Leaf -> Nat]
  BY DEF TypeOK
<1>2. /\ sq' \in [Leaf -> Nat] /\ kernel' \in [Leaf -> Nat]
      /\ cq' \in [Leaf -> Nat] /\ pass' \in [Leaf -> Nat]
  BY <1>1 DEF Reap
<1>3. Entries[l] \in Nat \ {0}
  BY <1>1 DEF Reap, Entries
<1>4. ASSUME NEW k \in Leaf
      PROVE  sq'[k] + kernel'[k] + cq'[k] + pass'[k]
               = IF k = l THEN Entries[l] - 1 ELSE Entries[k]
  BY <1>1 DEF Reap, Entries
<1>5. Entries' = [Entries EXCEPT ![l] = Entries[l] - 1]
  BY <1>4 DEF Entries
<1>6. QED
  BY <1>2, <1>3, <1>5

(* Every step keeps the invariant for every width.                         *)
LEMMA StepGeneral == GInv /\ [Next]_vars => GInv'
<1> SUFFICES ASSUME GInv, [Next]_vars PROVE GInv'
  OBVIOUS
<1>a. TypeOK /\ SQFinite /\ PhaseInv /\ NoWakeLost
  BY DEF GInv
<1>b. ready \in Seq(Task) /\ batch \in Seq(Task) /\ <<>> \in Seq(Task) /\ Range(<<>>) = {}
  BY <1>a DEF TypeOK, Range
<1>1. ASSUME NEW t \in Task, SpawnTask(t) PROVE GInv'
  <2>1. ready' \in Seq(Task) /\ Range(ready') = {t} \cup Range(ready)
    BY <1>1, <1>b, PushOne DEF SpawnTask, Scheduler!Spawn, Scheduler!Push
  <2>2. PhaseInv'
    BY <1>1, <1>a DEF SpawnTask, Scheduler!Spawn, PhaseInv, rings
  <2>3. Scheduler!Parked' \subseteq Scheduler!Parked
    BY <1>1, <2>1, ParkedIs DEF SpawnTask, Scheduler!Spawn
  <2>4. QED
    BY <1>1, <1>a, <2>1, <2>2, <2>3, SchedulerStep DEF SpawnTask, Scheduler!Spawn, TypeOK
<1>2. CASE Run \/ LoopAgain
  <2>1. Scheduler!TakeBatch /\ UNCHANGED <<fut, rings, reactor>> /\ batch = <<>> /\ current = NULL
    BY <1>2, <1>a DEF Run, LoopAgain, Scheduler!Start, Scheduler!Again, PhaseInv
  <2>2. PhaseInv'
    BY <1>2, <1>a DEF Run, LoopAgain, Scheduler!Start, Scheduler!Again, Scheduler!TakeBatch,
       PhaseInv, rings
  <2>3. Scheduler!Parked' \subseteq Scheduler!Parked
    BY <1>b, <2>1, ParkedIs DEF Scheduler!TakeBatch
  <2>4. QED
    BY <1>a, <1>b, <2>1, <2>2, <2>3, SchedulerStep DEF Scheduler!TakeBatch, TypeOK
<1>3. CASE DrainTake
  <2>1. /\ Head(batch) \in Task /\ Tail(batch) \in Seq(Task)
        /\ Range(batch) = {Head(batch)} \cup Range(Tail(batch))
    BY <1>3, <1>b, SeqPop DEF DrainTake, Scheduler!Poll
  <2>2. PhaseInv'
    BY <1>3, <1>a DEF DrainTake, Scheduler!Poll, PhaseInv, rings
  <2>3. Scheduler!Parked' \subseteq Scheduler!Parked
    BY <1>3, <1>a, <2>1, ParkedIs, TaskAssumption DEF DrainTake, Scheduler!Poll, TypeOK
  <2>4. QED
    BY <1>3, <1>a, <1>b, <2>1, <2>2, <2>3, SchedulerStep DEF DrainTake, Scheduler!Poll, TypeOK
<1>4. CASE DrainDone \/ ReturnFromRun
  <2>1. PhaseInv'
    BY <1>4, <1>a DEF DrainDone, ReturnFromRun, Scheduler!EndBatch, Scheduler!Return,
       PhaseInv, rings
  <2>2. Scheduler!Parked' \subseteq Scheduler!Parked
    BY <1>4, ParkedIs DEF DrainDone, ReturnFromRun, Scheduler!EndBatch, Scheduler!Return
  <2>3. QED
    BY <1>4, <1>a, <2>1, <2>2, SchedulerStep
       DEF DrainDone, ReturnFromRun, Scheduler!EndBatch, Scheduler!Return, TypeOK
<1>5. CASE PollAwaits \/ PollAgain
  <2>1. PICK S \in SUBSET LeavesOf(current) : S # {} /\ PollLeaves(S)
    BY <1>5 DEF PollAwaits, PollAgain, Pending
  <2>2. current # NULL
    BY <1>5 DEF PollAwaits, PollAgain
  <2>3. QED
    BY <2>1, <2>2, PollLeavesGeneral
<1>6. CASE PollFinishes
  <2>1. PhaseInv'
    BY <1>6, <1>a DEF PollFinishes, Scheduler!Finish, PhaseInv, rings
  <2>2. Scheduler!Parked' \subseteq Scheduler!Parked
    BY <1>6, ParkedIs DEF PollFinishes, Scheduler!Finish
  <2>3. fut' \in [Leaf -> {"none", "pending", "ready"}]
    BY <1>6, <1>a DEF PollFinishes, FutAfterPoll, TypeOK
  <2>4. current \notin Scheduler!Parked'
    BY <1>6, ParkedIs DEF PollFinishes, Scheduler!Finish
  <2>5. \A l \in Leaf : Owner(l) \in Scheduler!Parked' => fut'[l] = fut[l]
    BY <1>6, <2>4 DEF PollFinishes, FutAfterPoll
  <2>6. QED
    BY <1>6, <1>a, <2>1, <2>2, <2>3, <2>5, SchedulerStep
       DEF PollFinishes, Scheduler!Finish, TypeOK
<1>c. ASSUME UNCHANGED <<active, ready, batch, current, fut>>, Entries' = Entries PROVE NoWakeLost'
  BY <1>a, <1>c, ParkedIs DEF NoWakeLost, Pending
<1>7. CASE Flush
  <2>1. Entries' = Entries /\ sq' = NoEntries /\ {sq', kernel', cq', pass'} \subseteq [Leaf -> Nat]
    BY <1>7, <1>a, FlushEntries
  <2>2. TypeOK'
    BY <1>7, <1>a, <2>1, UsedNone, SQSizeAssumption DEF Flush, tasks, TypeOK
  <2>3. SQFinite'
    BY <2>1, UsedNone, FS_EmptySet DEF SQFinite
  <2>4. PhaseInv' /\ NoWakeLost'
    BY <1>7, <1>a, <1>c, <2>1 DEF Flush, tasks, PhaseInv
  <2>5. QED
    BY <2>2, <2>3, <2>4 DEF GInv
<1>8. CASE BeginPass \/ PassEnds \/ (\E l \in Leaf : KernelCompletes(l)) \/ UNCHANGED vars
  <2>1. /\ Entries' = Entries /\ {sq', kernel', cq', pass'} \subseteq [Leaf -> Nat]
        /\ UNCHANGED <<active, ready, batch, current, phase, fut, sq>>
    <3>1. CASE BeginPass
      BY <1>a, <3>1, BeginPassEntries DEF BeginPass, tasks
    <3>2. CASE \E l \in Leaf : KernelCompletes(l)
      BY <1>a, <3>2, CompletionEntries DEF KernelCompletes, tasks
    <3>3. CASE PassEnds \/ UNCHANGED vars
      BY <1>a, <3>3 DEF PassEnds, vars, tasks, rings, Entries, TypeOK
    <3>4. QED
      BY <1>8, <3>1, <3>2, <3>3
  <2>2. TypeOK'
    BY <1>8, <1>a, <2>1 DEF BeginPass, PassEnds, KernelCompletes, vars, TypeOK, Used
  <2>3. PhaseInv'
    BY <1>8, <1>a, <2>1 DEF BeginPass, PassEnds, KernelCompletes, vars, rings, PhaseInv
  <2>4. SQFinite' /\ NoWakeLost'
    BY <1>a, <1>c, <2>1 DEF SQFinite
  <2>5. QED
    BY <2>2, <2>3, <2>4 DEF GInv
<1>9. ASSUME NEW l \in Leaf, Reap(l) PROVE GInv'
  <2>1. /\ Entries' = [Entries EXCEPT ![l] = Entries[l] - 1]
        /\ {sq', kernel', cq', pass'} \subseteq [Leaf -> Nat]
    BY <1>9, <1>a, ReapEntries
  <2>2. ready' \in Seq(Task) /\ Range(ready') = {Owner(l)} \cup Range(ready)
    BY <1>9, <1>b, Leaves, PushOne DEF Reap, Scheduler!Push
  <2>3. fut' \in [Leaf -> {"none", "pending", "ready"}]
    BY <1>9, <1>a DEF Reap, TypeOK
  <2>4. TypeOK'
    BY <1>9, <1>a, <2>1, <2>2, <2>3 DEF Reap, TypeOK, Used
  <2>5. SQFinite' /\ PhaseInv'
    BY <1>9, <1>a DEF Reap, SQFinite, PhaseInv
  <2>6. ASSUME NEW t \in Scheduler!Parked'
        PROVE  Pending(t)' # {} /\ \A k \in Pending(t)' : Entries'[k] > 0
    <3>1. t \in Scheduler!Parked /\ t # Owner(l)
      BY <1>9, <2>2, ParkedIs, <2>6 DEF Reap
    <3>2. Pending(t) # {} /\ \A k \in Pending(t) : Entries[k] > 0
      BY <1>a, <3>1 DEF NoWakeLost
    <3>3. \A k \in Leaf : Owner(k) = t => k # l /\ fut'[k] = fut[k]
      BY <1>9, <1>a, <3>1 DEF Reap, TypeOK
    <3>4. Pending(t)' = Pending(t) /\ \A k \in Pending(t) : k \in Leaf /\ k # l
      BY <3>3, PendingSame DEF Pending, LeavesOf
    <3>5. \A k \in Pending(t) : Entries'[k] = Entries[k]
      BY <2>1, <3>4 DEF Entries
    <3>6. QED
      BY <3>2, <3>4, <3>5
  <2>7. QED
    BY <2>4, <2>5, <2>6 DEF GInv, NoWakeLost
<1>10. QED
  BY <1>1, <1>2, <1>3, <1>4, <1>5, <1>6, <1>7, <1>8, <1>9
     DEF Next, Thread, Polls, PostDrain

-----------------------------------------------------------------------------
(* The steps of tasks that await one leaf future at a time.                *)

LEMMA OneLeaf ==
  ASSUME Width = 1
  PROVE  /\ \A l \in Leaf : l = <<Owner(l), 1>> /\ Owner(l) \in Task
         /\ \A t \in Task : <<t, 1>> \in Leaf /\ LeavesOf(t) = {<<t, 1>>} /\ Owner(<<t, 1>>) = t
BY DEF Leaf, Owner, LeavesOf

LEMMA InitOne ==
  ASSUME Width = 1
  PROVE  Init => IInv
<1> SUFFICES ASSUME Init PROVE IInv
  OBVIOUS
<1> USE DEF Init, Scheduler!Init
<1>1. \A l \in Leaf : Entries[l] = 0
  BY DEF Entries, NoEntries
<1>2. Awaiting = {}
  BY <1>1, OneLeaf DEF Awaiting
<1>3. PlaceInv
  BY <1>1, <1>2 DEF PlaceInv, Distinct, Range
<1>4. FutInv
  BY <1>1 DEF FutInv
<1>5. QED
  BY <1>3, <1>4, InitGeneral DEF IInv

(* A poll without a result submits the request of the task, and parks it,  *)
(* or wakes it.                                                            *)
LEMMA PollOne ==
  ASSUME Width = 1, IInv, PollAwaits \/ PollAgain
  PROVE  /\ <<current, 1>> \in Leaf /\ current \in Task /\ Entries[<<current, 1>>] = 0
         /\ fut' = [fut EXCEPT ![<<current, 1>>] = "pending"]
         /\ \/ Scheduler!Yield /\ Entries' = Entries
            \/ Scheduler!Park /\ Entries' = [Entries EXCEPT ![<<current, 1>>] = 1]
<1> DEFINE l == <<current, 1>>
<1>a. TypeOK /\ PlaceInv
  BY DEF IInv, GInv
<1>1. PICK S \in SUBSET LeavesOf(current) : S # {} /\ PollLeaves(S)
  BY DEF PollAwaits, PollAgain, Pending
<1>2. current \in Task /\ l \in Leaf /\ S = {l} /\ Owner(l) = current
  BY <1>a, <1>1, OneLeaf DEF TypeOK, PollAwaits, PollAgain
<1>3. Entries[l] = 0
  <2>1. current \notin Awaiting
    BY <1>a DEF PlaceInv
  <2>2. Entries[l] \in Nat
    BY <1>a, <1>2 DEF TypeOK, Entries
  <2>3. QED
    BY <1>2, <2>1, <2>2 DEF Awaiting
<1>4. fut' = [fut EXCEPT ![l] = "pending"]
  BY <1>a, <1>1, <1>2, OneLeaf DEF PollLeaves, FutAfterPoll, TypeOK
<1>5. PICK P \in SUBSET S : /\ sq' = WithEntries(P)
                            /\ ready' = Times(Cardinality(S \ P), current) \o ready
  BY <1>1 DEF PollLeaves, Accepted
<1>6. ready \in Seq(Task)
  BY <1>a DEF TypeOK
<1>7. CASE P = {}
  <2>1. Cardinality(S \ P) = 1
    <3>1. S \ P = {l}
      BY <1>2, <1>7
    <3>2. QED
      BY <3>1, FS_Singleton, Zenon
  <2>2. Scheduler!Yield
    BY <1>1, <1>2, <1>5, <1>6, <2>1, FewTimes
       DEF PollLeaves, Scheduler!Yield, Scheduler!Push, PollAwaits, PollAgain
  <2>3. Entries' = Entries
    BY <1>a, <1>1, <1>5, <1>7 DEF PollLeaves, Entries, WithEntries, TypeOK
  <2>4. QED
    BY <1>2, <1>3, <1>4, <2>2, <2>3
<1>8. CASE P = {l}
  <2>1. Cardinality(S \ P) = 0
    BY <1>2, <1>8, FS_EmptySet
  <2>2. Scheduler!Park
    BY <1>1, <1>2, <1>5, <1>6, <2>1, FewTimes
       DEF PollLeaves, Scheduler!Park, PollAwaits, PollAgain
  <2>3. Entries' = [Entries EXCEPT ![l] = 1]
    <3>1. /\ sq \in [Leaf -> Nat] /\ kernel \in [Leaf -> Nat]
          /\ cq \in [Leaf -> Nat] /\ pass \in [Leaf -> Nat]
      BY <1>a DEF TypeOK
    <3>2. ASSUME NEW k \in Leaf
          PROVE  sq'[k] + kernel'[k] + cq'[k] + pass'[k] = IF k = l THEN 1 ELSE Entries[k]
      <4>1. sq' = [j \in Leaf |-> IF j = l THEN sq[j] + 1 ELSE sq[j]] /\ UNCHANGED <<kernel, cq, pass>>
        BY <1>1, <1>5, <1>8 DEF PollLeaves, WithEntries
      <4>2. sq[l] + kernel[l] + cq[l] + pass[l] = 0
        BY <1>2, <1>3 DEF Entries
      <4>3. Entries[k] = sq[k] + kernel[k] + cq[k] + pass[k]
        BY DEF Entries
      <4>4. /\ sq[k] \in Nat /\ kernel[k] \in Nat /\ cq[k] \in Nat /\ pass[k] \in Nat
            /\ sq'[k] = IF k = l THEN sq[k] + 1 ELSE sq[k]
        BY <3>1, <4>1
      <4>5. CASE k = l
        BY <4>1, <4>2, <4>4, <4>5
      <4>6. CASE k # l
        BY <4>1, <4>3, <4>4, <4>6
      <4>7. QED
        BY <4>5, <4>6
    <3>3. QED
      BY <3>2 DEF Entries
  <2>4. QED
    BY <1>2, <1>3, <1>4, <2>2, <2>3
<1>9. QED
  BY <1>2, <1>5, <1>7, <1>8

(* A completion is that of a task that is parked.                          *)
LEMMA ReapWakesParked ==
  ASSUME Width = 1, IInv, NEW l \in Leaf, Reap(l)
  PROVE  /\ Scheduler!Wake(Owner(l)) /\ Owner(l) \in active
         /\ Owner(l) \notin Range(ready) \cup Range(batch) \cup {current}
         /\ fut[l] = "pending"
         /\ Entries' = [Entries EXCEPT ![l] = 0]
<1>a. TypeOK /\ PhaseInv /\ PlaceInv /\ FutInv
  BY DEF IInv, GInv
<1>1. Entries[l] = 1 /\ Entries' = [Entries EXCEPT ![l] = Entries[l] - 1]
  <2>1. Entries[l] \in Nat \ {0} /\ Entries' = [Entries EXCEPT ![l] = Entries[l] - 1]
    BY <1>a, ReapEntries
  <2>2. Entries[l] <= 1
    BY <1>a DEF PlaceInv
  <2>3. QED
    BY <2>1, <2>2
<1>2. Owner(l) \in Awaiting
  BY <1>1, OneLeaf DEF Awaiting
<1>3. /\ Owner(l) \in active
      /\ Owner(l) \notin Range(ready) \cup Range(batch) \cup {current}
  BY <1>a, <1>2 DEF PlaceInv
<1>4. Scheduler!Wake(Owner(l))
  BY <1>a, <1>3, ParkedIs DEF Reap, Scheduler!Wake, Scheduler!UserRuns, PhaseInv
<1>5. QED
  BY <1>a, <1>1, <1>3, <1>4 DEF FutInv

(* What leaves tasks and entries alone leaves the places alone.            *)
LEMMA SamePlaces ==
  ASSUME IInv, GInv', UNCHANGED <<active, ready, batch, current, fut>>, Entries' = Entries
  PROVE  IInv'
<1>1. PlaceInv /\ FutInv /\ Awaiting' = Awaiting
  BY DEF IInv, Awaiting
<1>2. PlaceInv' /\ FutInv'
  BY <1>1 DEF PlaceInv, FutInv, Distinct
<1>3. QED
  BY <1>2 DEF IInv

(* Every step keeps the invariant.                                         *)
LEMMA StepOne ==
  ASSUME Width = 1
  PROVE  IInv /\ [Next]_vars => IInv'
<1> SUFFICES ASSUME IInv, [Next]_vars PROVE IInv'
  OBVIOUS
<1>a. TypeOK /\ PhaseInv /\ PlaceInv /\ FutInv /\ GInv'
  BY StepGeneral DEF IInv, GInv
<1>b. /\ ready \in Seq(Task) /\ batch \in Seq(Task) /\ Range(<<>>) = {} /\ Distinct(<<>>)
      /\ NULL \notin active /\ active \in SUBSET Task
  BY <1>a, TaskAssumption DEF TypeOK, Range, Distinct
<1>c. ASSUME UNCHANGED rings PROVE Entries' = Entries /\ Awaiting' = Awaiting
  BY <1>c DEF Entries, Awaiting, rings
<1>1. ASSUME NEW t \in Task, SpawnTask(t) PROVE IInv'
  <2>1. Scheduler!Spawn(t) /\ Entries' = Entries /\ Awaiting' = Awaiting /\ UNCHANGED fut
    BY <1>1, <1>c DEF SpawnTask
  <2>2. /\ t \notin active /\ active' = active \cup {t} /\ ready' = <<t>> \o ready
        /\ UNCHANGED <<batch, current>>
    BY <2>1 DEF Scheduler!Spawn, Scheduler!Push
  <2>3. t \notin Range(ready) /\ t # NULL
    BY <1>a, <2>2, TaskAssumption DEF PlaceInv
  <2>4. Range(ready') = {t} \cup Range(ready) /\ Distinct(ready')
    BY <1>a, <1>b, <2>2, <2>3, PushOne DEF PlaceInv
  <2>5. t # current
    BY <1>a, <2>2, <2>3 DEF PlaceInv
  <2>6. PlaceInv'
    BY <1>a, <2>1, <2>2, <2>4, <2>5 DEF PlaceInv, Distinct
  <2>7. FutInv'
    BY <1>a, <2>1, <2>2 DEF FutInv
  <2>8. QED
    BY <1>a, <2>6, <2>7 DEF IInv
<1>2. CASE Run \/ LoopAgain
  <2>1. /\ Scheduler!TakeBatch /\ Entries' = Entries /\ Awaiting' = Awaiting
        /\ UNCHANGED fut /\ batch = <<>> /\ current = NULL
    BY <1>2, <1>a, <1>c DEF Run, LoopAgain, Scheduler!Start, Scheduler!Again, PhaseInv
  <2>2. PlaceInv'
    BY <1>a, <1>b, <2>1 DEF Scheduler!TakeBatch, PlaceInv, Distinct
  <2>3. FutInv'
    BY <1>a, <2>1 DEF Scheduler!TakeBatch, FutInv
  <2>4. QED
    BY <1>a, <2>2, <2>3 DEF IInv
<1>3. CASE DrainTake
  <2>1. /\ Entries' = Entries /\ Awaiting' = Awaiting /\ UNCHANGED <<fut, active, ready>>
        /\ current = NULL /\ batch # <<>> /\ current' = Head(batch) /\ batch' = Tail(batch)
    BY <1>3, <1>c DEF DrainTake, Scheduler!Poll
  <2>2. /\ Head(batch) \in Task
        /\ Range(batch) = {Head(batch)} \cup Range(Tail(batch))
        /\ Head(batch) \notin Range(Tail(batch)) /\ Distinct(Tail(batch))
    BY <1>a, <1>b, <2>1, SeqPop DEF PlaceInv
  <2>3. PlaceInv'
    BY <1>a, <2>1, <2>2, TaskAssumption DEF PlaceInv, Distinct
  <2>4. FutInv'
    BY <1>a, <2>1 DEF FutInv
  <2>5. QED
    BY <1>a, <2>3, <2>4 DEF IInv
<1>4. CASE PollAwaits \/ PollAgain
  <2> DEFINE l == <<current, 1>>
  <2>1. /\ l \in Leaf /\ current \in Task /\ Entries[l] = 0
        /\ fut' = [fut EXCEPT ![l] = "pending"]
        /\ \/ Scheduler!Yield /\ Entries' = Entries
           \/ Scheduler!Park /\ Entries' = [Entries EXCEPT ![l] = 1]
    BY <1>4, PollOne
  <2>2. current \in active /\ current # NULL /\ Owner(l) = current
        /\ current \notin Range(ready) \cup Range(batch) \cup Awaiting
    BY <1>a, <2>1, OneLeaf, TaskAssumption DEF PlaceInv
  <2>3. \A k \in Leaf : k # l => fut'[k] = fut[k]
    BY <2>1
  <2>4. fut'[l] = "pending"
    BY <1>a, <2>1 DEF TypeOK
  <2>5. CASE Scheduler!Yield /\ Entries' = Entries
    <3>1. ready' = <<current>> \o ready /\ current' = NULL /\ UNCHANGED <<active, batch>>
      BY <2>5 DEF Scheduler!Yield, Scheduler!Push
    <3>2. Range(ready') = {current} \cup Range(ready) /\ Distinct(ready')
      BY <1>a, <1>b, <2>1, <2>2, <3>1, PushOne DEF PlaceInv
    <3>3. Awaiting' = Awaiting
      BY <2>5 DEF Awaiting
    <3>4. PlaceInv'
      BY <1>a, <1>b, <2>2, <2>5, <3>1, <3>2, <3>3 DEF PlaceInv, Distinct
    <3>5. FutInv'
      BY <1>a, <2>2, <2>3, <2>4, <2>5, <3>1 DEF FutInv
    <3>6. QED
      BY <1>a, <3>4, <3>5 DEF IInv
  <2>6. CASE Scheduler!Park /\ Entries' = [Entries EXCEPT ![l] = 1]
    <3>1. current' = NULL /\ UNCHANGED <<active, ready, batch>>
      BY <2>6 DEF Scheduler!Park
    <3>2. \A k \in Leaf : Entries'[k] = IF k = l THEN 1 ELSE Entries[k]
      BY <2>6 DEF Entries
    <3>3. Awaiting' = Awaiting \cup {current}
      BY <2>1, <3>2, OneLeaf DEF Awaiting
    <3>4. PlaceInv'
      BY <1>a, <1>b, <2>2, <3>1, <3>2, <3>3 DEF PlaceInv, Distinct
    <3>5. FutInv'
      BY <1>a, <2>2, <2>3, <2>4, <3>1, <3>2 DEF FutInv
    <3>6. QED
      BY <1>a, <3>4, <3>5 DEF IInv
  <2>7. QED
    BY <2>1, <2>5, <2>6
<1>5. CASE PollFinishes
  <2>1. /\ Entries' = Entries /\ Awaiting' = Awaiting
        /\ active' = active \ {current} /\ current' = NULL /\ UNCHANGED <<ready, batch>>
        /\ fut' = FutAfterPoll({}) /\ current # NULL
    BY <1>5, <1>c DEF PollFinishes, Scheduler!Finish
  <2>2. PlaceInv'
    BY <1>a, <1>b, <2>1 DEF PlaceInv, Distinct
  <2>3. ASSUME NEW l \in Leaf
        PROVE  /\ Entries[l] > 0 => fut'[l] = "pending"
               /\ Owner(l) \notin active' => fut'[l] = "none"
    <3>1. fut'[l] = IF Owner(l) = current THEN "none" ELSE fut[l]
      BY <2>1 DEF FutAfterPoll
    <3>2. Entries[l] > 0 => Owner(l) # current
      <4>1. Entries[l] > 0 => Owner(l) \in Awaiting
        BY OneLeaf DEF Awaiting
      <4>2. QED
        BY <1>a, <4>1 DEF PlaceInv
    <3>3. QED
      BY <1>a, <2>1, <3>1, <3>2 DEF FutInv
  <2>4. FutInv'
    BY <2>1, <2>3 DEF FutInv
  <2>5. QED
    BY <1>a, <2>2, <2>4 DEF IInv
<1>6. CASE DrainDone \/ ReturnFromRun \/ PassEnds \/ UNCHANGED vars
  <2>1. Entries' = Entries /\ UNCHANGED <<active, ready, batch, current, fut>>
    BY <1>6, <1>c DEF DrainDone, ReturnFromRun, PassEnds, vars, tasks,
       Scheduler!EndBatch, Scheduler!Return
  <2>2. QED
    BY <1>a, <2>1, SamePlaces
<1>7. CASE Flush \/ BeginPass \/ \E l \in Leaf : KernelCompletes(l)
  <2>1. Entries' = Entries
    BY <1>7, <1>a, FlushEntries, BeginPassEntries, CompletionEntries
  <2>2. UNCHANGED <<active, ready, batch, current, fut>>
    BY <1>7 DEF Flush, BeginPass, KernelCompletes, tasks
  <2>3. QED
    BY <1>a, <2>1, <2>2, SamePlaces
<1>8. ASSUME NEW l \in Leaf, Reap(l) PROVE IInv'
  <2> DEFINE t == Owner(l)
  <2>1. /\ t \in Task /\ l = <<t, 1>> /\ t \in active
        /\ t \notin Range(ready) \cup Range(batch) \cup {current}
        /\ Entries' = [Entries EXCEPT ![l] = 0]
    BY <1>8, ReapWakesParked, OneLeaf
  <2>2. ready' = <<t>> \o ready /\ UNCHANGED <<active, batch, current>>
    BY <1>8 DEF Reap, Scheduler!Push
  <2>3. Range(ready') = {t} \cup Range(ready) /\ Distinct(ready')
    BY <1>a, <1>b, <2>1, <2>2, PushOne DEF PlaceInv
  <2>4. \A k \in Leaf : Entries'[k] = IF k = l THEN 0 ELSE Entries[k]
    BY <2>1 DEF Entries
  <2>5. Awaiting' = Awaiting \ {t}
    BY <2>1, <2>4, OneLeaf DEF Awaiting
  <2>6. PlaceInv'
    <3>1. Distinct(ready') /\ Distinct(batch') /\ Range(ready') \cap Range(batch') = {}
      BY <1>a, <2>1, <2>2, <2>3 DEF PlaceInv, Distinct
    <3>2. t \in Awaiting
      BY <1>a, <2>1 DEF PlaceInv
    <3>3. active' = Range(ready') \cup Range(batch') \cup ({current'} \ {NULL}) \cup Awaiting'
      BY <1>a, <2>2, <2>3, <2>5, <3>2 DEF PlaceInv
    <3>4. (Range(ready') \cup Range(batch')) \cap Awaiting' = {}
      BY <1>a, <2>2, <2>3, <2>5 DEF PlaceInv
    <3>5. current' \notin Range(ready') \cup Range(batch') \cup Awaiting'
      BY <1>a, <2>1, <2>2, <2>3, <2>5 DEF PlaceInv
    <3>6. \A k \in Leaf : Entries'[k] <= 1
      BY <1>a, <2>4 DEF PlaceInv
    <3>7. QED
      BY <3>1, <3>3, <3>4, <3>5, <3>6 DEF PlaceInv
  <2>7. \A k \in Leaf : k # l => fut'[k] = fut[k]
    BY <1>8, <1>a DEF Reap, TypeOK
  <2>8. FutInv'
    BY <1>a, <2>1, <2>2, <2>4, <2>7 DEF FutInv
  <2>9. QED
    BY <1>a, <2>6, <2>8 DEF IInv
<1>9. QED
  BY <1>1, <1>2, <1>3, <1>4, <1>5, <1>6, <1>7, <1>8 DEF Next, Thread, Polls, PostDrain

-----------------------------------------------------------------------------
(* The composition implements the abstract scheduler.                      *)

LEMMA RefinesInit == Init => Scheduler!Init
BY DEF Init

LEMMA RefinesNext ==
  ASSUME Width = 1
  PROVE  IInv /\ [Next]_vars => [Scheduler!Next]_(Scheduler!vars)
<1> SUFFICES ASSUME IInv, [Next]_vars PROVE [Scheduler!Next]_(Scheduler!vars)
  OBVIOUS
<1>1. CASE \E t \in Task : SpawnTask(t)
  BY <1>1 DEF SpawnTask, Scheduler!Next
<1>2. CASE Run \/ DrainTake \/ DrainDone \/ LoopAgain \/ ReturnFromRun \/ PollFinishes
  BY <1>2 DEF Run, DrainTake, DrainDone, LoopAgain, ReturnFromRun, PollFinishes, Scheduler!Next
<1>3. CASE PollAwaits \/ PollAgain
  BY <1>3, PollOne DEF Scheduler!Next
<1>4. ASSUME NEW l \in Leaf, Reap(l) PROVE Scheduler!Next
  <2>1. Owner(l) \in Task /\ Scheduler!Wake(Owner(l))
    BY <1>4, Leaves, ReapWakesParked
  <2>2. QED
    BY <2>1 DEF Scheduler!Next
<1>5. CASE \/ Flush \/ BeginPass \/ PassEnds \/ (\E l \in Leaf : KernelCompletes(l))
           \/ UNCHANGED vars
  BY <1>5 DEF Flush, BeginPass, PassEnds, KernelCompletes, vars, tasks, Scheduler!vars
<1>6. QED
  BY <1>1, <1>2, <1>3, <1>4, <1>5 DEF Next, Thread, Polls, PostDrain

-----------------------------------------------------------------------------
(* What holds however many leaf futures a task joins.                      *)

LEMMA InvarianceGeneral == SafeSpec => []GInv
BY InitGeneral, StepGeneral, PTL DEF SafeSpec

(* Every variable keeps its type, and the submission queue holds what it   *)
(* has room for (reika-reactor lib.rs:99-113).                             *)
THEOREM TypeCorrect == SafeSpec => []TypeOK
<1>1. GInv => TypeOK
  BY DEF GInv
<1>2. QED
  BY <1>1, InvarianceGeneral, PTL

(* No wake-up is lost: a task that waits has a completion to come for each *)
(* leaf future it still waits for, whatever it joins and whichever pushes  *)
(* were refused (reika-macros lib.rs:457-474).                             *)
THEOREM WakesNotLost == SafeSpec => []NoWakeLost
<1>1. GInv => NoWakeLost
  BY DEF GInv
<1>2. QED
  BY <1>1, InvarianceGeneral, PTL

-----------------------------------------------------------------------------
(* What holds of tasks that await one leaf future after the other.         *)

(* The inductive invariant holds in every reachable state.                 *)
THEOREM Invariance ==
  ASSUME Width = 1
  PROVE  SafeSpec => []IInv
BY InitOne, StepOne, PTL DEF SafeSpec

(* The future that holds a request outlives the entries that point to it   *)
(* (reika-reactor lib.rs:97-98, 231-236).                                  *)
THEOREM RequestsLive ==
  ASSUME Width = 1
  PROVE  SafeSpec => []RequestLives
<1>1. IInv => RequestLives
  BY DEF IInv, FutInv, RequestLives
<1>2. QED
  BY <1>1, Invariance, PTL

(* A task that waits has exactly one entry on its way.                     *)
THEOREM ParkedAwaits ==
  ASSUME Width = 1
  PROVE  SafeSpec => []ParkedAwaitsOne
<1>1. IInv => ParkedAwaitsOne
  <2> SUFFICES ASSUME IInv, NEW t \in Scheduler!Parked
               PROVE  Cardinality(EntriesOf(Entries, LeavesOf(t))) = 1
    BY DEF ParkedAwaitsOne
  <2> DEFINE l == <<t, 1>>
  <2>1. TypeOK /\ PlaceInv
    BY DEF IInv, GInv
  <2>2. t \in Task /\ t \in Awaiting
    BY <2>1, ParkedIs DEF PlaceInv, TypeOK
  <2>3. l \in Leaf /\ LeavesOf(t) = {l}
    BY <2>2, OneLeaf
  <2>4. Entries[l] = 1
    <3>1. Entries[l] \in Nat
      BY <2>1, <2>3 DEF Entries, TypeOK
    <3>2. Entries[l] > 0 /\ Entries[l] <= 1
      BY <2>1, <2>2, <2>3 DEF Awaiting, PlaceInv
    <3>3. QED
      BY <3>1, <3>2
  <2>5. EntriesOf(Entries, LeavesOf(t)) = {<<l, 1>>}
    BY <2>3, <2>4 DEF EntriesOf
  <2>6. QED
    BY <2>5, FS_Singleton, Zenon
<1>2. QED
  BY <1>1, Invariance, PTL

(* The tasks of a thread are scheduled as the abstract scheduler says:     *)
(* what the reactor wakes is parked, which is what TaskQueue::enqueue asks *)
(* of its callers (async-executor queue.rs:52-57, waker.rs).               *)
THEOREM RuntimeRefinesScheduler ==
  ASSUME Width = 1
  PROVE  SafeSpec => ImplementsScheduler
BY RefinesInit, RefinesNext, Invariance, PTL
   DEF SafeSpec, ImplementsScheduler, Scheduler!SafeSpec

==============================================================================
