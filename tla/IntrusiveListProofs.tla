------------------------- MODULE IntrusiveListProofs -------------------------
(***************************************************************************)
(* Facts about IsList that the proofs about the run queue and the free     *)
(* list rest on: what a push, a pop and a write to an unlisted node do to  *)
(* the list that a pointer denotes, and that it denotes at most one.       *)
(***************************************************************************)
EXTENDS IntrusiveList, SequenceTheorems, FiniteSetTheorems, TLAPS

(* The list q with t in front.  (The provers handle it best by its name.)   *)
Cons(t, q) == <<t>> \o q

(* Over a finite set the bound on the length in Lists is no restriction:   *)
(* a sequence without repetition is no longer than the set is large.       *)
LEMMA ListsAreInjectiveSeqs ==
  ASSUME NEW S, IsFiniteSet(S), NEW q
  PROVE  q \in Lists(S) <=> q \in Seq(S) /\ IsInjective(q)
<1>1. Cardinality(S) \in Nat
  BY FS_CardinalityType
<1>2. ASSUME q \in Lists(S) PROVE q \in Seq(S) /\ IsInjective(q)
  <2>1. PICK n \in 0..Cardinality(S) : q \in [1..n -> S]
    BY <1>2 DEF Lists
  <2>2. q \in Seq(S)
    BY <1>1, <2>1, SeqDef
  <2>3. QED
    BY <1>2, <2>2 DEF Lists
<1>3. ASSUME q \in Seq(S), IsInjective(q) PROVE q \in Lists(S)
  <2>1. Len(q) \in Nat /\ q \in [1..Len(q) -> S]
    BY <1>3, LenProperties
  <2>2. q \in Injection(1..Len(q), S)
    BY <1>3, <2>1 DEF Injection
  <2>3. Cardinality(1..Len(q)) <= Cardinality(S)
    BY <2>2, FS_Injection
  <2>4. Cardinality(1..Len(q)) = Len(q)
    BY <2>1, FS_Interval
  <2>5. Len(q) \in 0..Cardinality(S)
    BY <1>1, <2>1, <2>3, <2>4
  <2>6. QED
    BY <1>3, <2>1, <2>5 DEF Lists
<1>4. QED
  BY <1>2, <1>3

(* The shape of a list, as the lemmas below use it.                        *)
LEMMA ListShape ==
  ASSUME NEW S, IsFiniteSet(S), NEW q \in Lists(S)
  PROVE  /\ q \in Seq(S)
         /\ Len(q) \in Nat
         /\ DOMAIN q = 1..Len(q)
         /\ \A i \in 1..Len(q) : q[i] \in S
         /\ \A i, j \in 1..Len(q) : q[i] = q[j] => i = j
         /\ Range(q) = {q[i] : i \in 1..Len(q)}
         /\ Range(q) \in SUBSET S
<1>1. q \in Seq(S) /\ IsInjective(q)
  BY ListsAreInjectiveSeqs
<1>2. Len(q) \in Nat /\ DOMAIN q = 1..Len(q) /\ \A i \in 1..Len(q) : q[i] \in S
  BY <1>1, LenProperties, ElementOfSeq
<1>3. Range(q) = {q[i] : i \in 1..Len(q)} /\ Range(q) \in SUBSET S
  BY <1>1, RangeEquality, RangeOfSeq
<1>4. QED
  BY <1>1, <1>2, <1>3 DEF IsInjective

(* The null pointer denotes the empty list.                                *)
LEMMA NullIsEmptyList ==
  ASSUME NEW S, IsFiniteSet(S), NEW link
  PROVE  /\ <<>> \in Lists(S)
         /\ IsList(NULL, link, <<>>)
         /\ Range(<<>>) = {}
<1>1. <<>> \in Seq(S) /\ Len(<<>>) = 0 /\ DOMAIN <<>> = {}
  BY EmptySeq, LenProperties
<1>2. <<>> \in Lists(S)
  BY <1>1, ListsAreInjectiveSeqs DEF IsInjective
<1>3. QED
  BY <1>1, <1>2 DEF IsList, Range

(* A list that starts at the null pointer has no element.                  *)
LEMMA ListAtNull ==
  ASSUME NEW S, IsFiniteSet(S), NULL \notin S, NEW link,
         NEW q \in Lists(S), IsList(NULL, link, q)
  PROVE  q = <<>> /\ Range(q) = {}
<1>1. Len(q) = 0
  BY ListShape DEF IsList
<1>2. q = <<>>
  BY <1>1, ListShape, EmptySeq
<1>3. QED
  BY <1>2, NullIsEmptyList

(* Writing the link of a node outside a list leaves the list as it is.     *)
LEMMA ListFrame ==
  ASSUME NEW S, IsFiniteSet(S), NEW link \in [S -> S \cup {NULL}],
         NEW q \in Lists(S), NEW h, IsList(h, link, q),
         NEW t \in S \ Range(q), NEW x
  PROVE  IsList(h, [link EXCEPT ![t] = x], q)
<1>1. \A i \in 1..Len(q) : q[i] \in S /\ q[i] # t
  BY ListShape
<1>2. QED
  BY <1>1 DEF IsList

(* TaskQueue::enqueue and TaskFreeList::enqueue: pushing a node that is    *)
(* not in the list yields the list with that node in front.                *)
LEMMA ListPush ==
  ASSUME NEW S, IsFiniteSet(S), NULL \notin S, NEW link \in [S -> S \cup {NULL}],
         NEW q \in Lists(S), NEW h, IsList(h, link, q),
         NEW t \in S, t \notin Range(q),
         NEW pushed, pushed[t] = h, \A x \in S \ {t} : pushed[x] = link[x]
  PROVE  /\ Cons(t, q) \in Lists(S)
         /\ IsList(t, pushed, Cons(t, q))
         /\ Range(Cons(t, q)) = Range(q) \cup {t}
<1> DEFINE p == <<t>> \o q
<1>0. /\ q \in Seq(S) /\ Len(q) \in Nat
      /\ \A i \in 1..Len(q) : q[i] \in S /\ q[i] # t
      /\ \A i, j \in 1..Len(q) : q[i] = q[j] => i = j
  BY ListShape
<1>1. <<t>> \in Seq(S) /\ Len(<<t>>) = 1 /\ <<t>>[1] = t /\ Range(<<t>>) = {t}
  BY DEF Range
<1>2. /\ p \in Seq(S)
      /\ Len(p) = Len(q) + 1
      /\ \A i \in 1..Len(q) + 1 : p[i] = IF i = 1 THEN t ELSE q[i - 1]
  BY <1>0, <1>1, ConcatProperties
<1>3. Range(p) = Range(q) \cup {t}
  <2>1. Range(p) = {p[i] : i \in 1..Len(q) + 1} /\ Range(q) = {q[i] : i \in 1..Len(q)}
    <3> HIDE DEF p
    <3>1. QED
      BY <1>0, <1>2, RangeEquality
  <2>2. p[1] = t /\ 1 \in 1..Len(q) + 1
    BY <1>0, <1>2
  <2>3. \A i \in 1..Len(q) : i + 1 \in 1..Len(q) + 1 /\ p[i + 1] = q[i]
    <3> HIDE DEF p
    <3>1. QED
      BY <1>0, <1>2
  <2>4. \A i \in 1..Len(q) + 1 : i = 1 \/ (i - 1 \in 1..Len(q) /\ p[i] = q[i - 1])
    <3> HIDE DEF p
    <3>1. QED
      BY <1>0, <1>2
  <2>5. QED
    <3> HIDE DEF p
    <3>1. QED
      BY <2>1, <2>2, <2>3, <2>4
<1>4. IsInjective(p)
  <2>1. DOMAIN p = 1..Len(q) + 1
    BY <1>2, LenProperties
  <2>2. QED
    BY <1>0, <1>2, <2>1 DEF IsInjective
<1>5. p \in Lists(S)
  BY <1>2, <1>4, ListsAreInjectiveSeqs
<1>6. IsList(t, pushed, p)
  <2>1. t = IF Len(p) = 0 THEN NULL ELSE p[1]
    BY <1>0, <1>2
  <2>2. ASSUME NEW i \in 1..Len(p)
        PROVE  pushed[p[i]] = IF i = Len(p) THEN NULL ELSE p[i + 1]
    <3>1. CASE i = 1
      <4>1. pushed[p[i]] = h
        BY <1>0, <1>2, <3>1
      <4>2. h = IF Len(q) = 0 THEN NULL ELSE q[1]
        BY DEF IsList
      <4>3. CASE Len(q) = 0
        BY <1>2, <3>1, <4>1, <4>2, <4>3
      <4>4. CASE Len(q) # 0
        <5>1. p[2] = q[1]
          BY <1>0, <1>2, <4>4
        <5>2. QED
          BY <1>0, <1>2, <3>1, <4>1, <4>2, <4>4, <5>1
      <4>5. QED
        BY <4>3, <4>4
    <3>2. CASE i # 1
      <4>1. i - 1 \in 1..Len(q) /\ p[i] = q[i - 1]
        BY <1>0, <1>2, <3>2
      <4>2. pushed[p[i]] = link[q[i - 1]]
        BY <1>0, <4>1
      <4>3. link[q[i - 1]] = IF i - 1 = Len(q) THEN NULL ELSE q[(i - 1) + 1]
        BY <4>1 DEF IsList
      <4>4. CASE i - 1 = Len(q)
        BY <1>0, <1>2, <4>2, <4>3, <4>4
      <4>5. CASE i - 1 # Len(q)
        <5>1. i + 1 \in 1..Len(q) + 1 /\ p[i + 1] = q[i] /\ (i - 1) + 1 = i
          BY <1>0, <1>2, <4>1, <4>5
        <5>2. QED
          BY <1>0, <1>2, <4>1, <4>2, <4>3, <4>5, <5>1
      <4>6. QED
        BY <4>4, <4>5
    <3>3. QED
      BY <3>1, <3>2
  <2>3. QED
    BY <2>1, <2>2 DEF IsList
<1>7. QED
  BY <1>3, <1>5, <1>6 DEF Cons

(* TaskQueue::drain and TaskFreeList::dequeue: following the link of the   *)
(* first node of a list leads to the rest of the list, which does not      *)
(* contain that node.                                                      *)
LEMMA ListPop ==
  ASSUME NEW S, IsFiniteSet(S), NULL \notin S, NEW link \in [S -> S \cup {NULL}],
         NEW q \in Lists(S), NEW h, h # NULL, IsList(h, link, q)
  PROVE  /\ h \in S /\ h \in Range(q)
         /\ q # <<>> /\ h = Head(q)
         /\ Tail(q) \in Lists(S)
         /\ IsList(link[h], link, Tail(q))
         /\ Range(Tail(q)) = Range(q) \ {h}
<1> DEFINE p == Tail(q)
<1>0. /\ q \in Seq(S) /\ Len(q) \in Nat
      /\ \A i \in 1..Len(q) : q[i] \in S
      /\ \A i, j \in 1..Len(q) : q[i] = q[j] => i = j
      /\ Range(q) = {q[i] : i \in 1..Len(q)}
  BY ListShape
<1>1. Len(q) > 0 /\ h = q[1]
  BY <1>0 DEF IsList
<1>2. q # <<>> /\ Head(q) = q[1]
  BY <1>0, <1>1, EmptySeq
<1>3. /\ p \in Seq(S)
      /\ Len(p) = Len(q) - 1
      /\ \A i \in 1..Len(p) : p[i] = q[i + 1]
  BY <1>0, <1>2, HeadTailProperties
<1>4. DOMAIN p = 1..Len(p) /\ Range(p) = {p[i] : i \in 1..Len(p)}
  <2> HIDE DEF p
  <2>1. QED
    BY <1>3, LenProperties, RangeEquality
<1>5. IsInjective(p)
  BY <1>0, <1>3, <1>4 DEF IsInjective
<1>6. p \in Lists(S)
  BY <1>3, <1>5, ListsAreInjectiveSeqs
<1>7. Range(p) = Range(q) \ {h}
  <2>1. ASSUME NEW x \in Range(p) PROVE x \in Range(q) \ {h}
    <3>1. PICK i \in 1..Len(p) : x = p[i]
      BY <1>4
    <3>2. i + 1 \in 1..Len(q) /\ x = q[i + 1] /\ i + 1 # 1 /\ 1 \in 1..Len(q)
      BY <1>0, <1>1, <1>3, <3>1
    <3>3. QED
      BY <1>0, <1>1, <3>2
  <2>2. ASSUME NEW x \in Range(q) \ {h} PROVE x \in Range(p)
    <3>1. PICK i \in 1..Len(q) : x = q[i]
      BY <1>0
    <3>2. i - 1 \in 1..Len(p) /\ (i - 1) + 1 = i
      BY <1>0, <1>1, <1>3, <3>1
    <3>3. p[i - 1] = x
      BY <1>3, <3>1, <3>2
    <3>4. QED
      BY <1>4, <3>2, <3>3
  <2>3. QED
    BY <2>1, <2>2
<1>8. IsList(link[h], link, p)
  <2>1. \A i \in 1..Len(q) : link[q[i]] = IF i = Len(q) THEN NULL ELSE q[i + 1]
    BY DEF IsList
  <2>2. link[h] = IF Len(p) = 0 THEN NULL ELSE p[1]
    <3>1. link[h] = IF 1 = Len(q) THEN NULL ELSE q[2]
      <4>1. 1 \in 1..Len(q) /\ 1 + 1 = 2
        BY <1>0, <1>1
      <4>2. link[q[1]] = IF 1 = Len(q) THEN NULL ELSE q[1 + 1]
        BY <2>1, <4>1
      <4>3. QED
        BY <1>1, <4>1, <4>2
    <3>2. CASE Len(q) = 1
      BY <1>3, <3>1, <3>2
    <3>3. CASE Len(q) # 1
      BY <1>0, <1>1, <1>3, <3>1, <3>3
    <3>4. QED
      BY <3>2, <3>3
  <2>3. ASSUME NEW i \in 1..Len(p)
        PROVE  link[p[i]] = IF i = Len(p) THEN NULL ELSE p[i + 1]
    <3>1. i + 1 \in 1..Len(q) /\ p[i] = q[i + 1]
      BY <1>0, <1>1, <1>3
    <3>2. link[p[i]] = IF i + 1 = Len(q) THEN NULL ELSE q[(i + 1) + 1]
      BY <2>1, <3>1
    <3>3. CASE i = Len(p)
      BY <1>0, <1>3, <3>2, <3>3
    <3>4. CASE i # Len(p)
      <4>1. i + 1 \in 1..Len(p) /\ i + 1 # Len(q)
        <5> HIDE DEF p
        <5>1. QED
          BY <1>0, <1>3, <3>4
      <4>2. p[i + 1] = q[(i + 1) + 1]
        BY <1>3, <4>1
      <4>3. QED
        BY <3>2, <3>4, <4>1, <4>2
    <3>5. QED
      BY <3>3, <3>4
  <2>4. QED
    BY <2>2, <2>3 DEF IsList
<1>9. QED
  BY <1>0, <1>1, <1>2, <1>6, <1>7, <1>8

(* A set of indices that is not empty has a smallest one: the initial      *)
(* segments that its members bound are finite, and inclusion is well       *)
(* founded on finite sets.                                                 *)
LEMMA SmallestIndex ==
  ASSUME NEW D \in SUBSET Nat, D # {}
  PROVE  \E m \in D : \A i \in D : m <= i
<1> DEFINE T == {1..i : i \in D}
           R == StrictSubsetOrdering(Nat)
<1>1. IsWellFoundedOn(R, FiniteSubsetsOf(Nat))
  BY FS_StrictSubsetOrderingWellFounded
<1>2. T \subseteq FiniteSubsetsOf(Nat)
  <2>1. \A i \in D : IsFiniteSet(1..i) /\ 1..i \in SUBSET Nat
    BY FS_Interval
  <2>2. QED
    BY <2>1 DEF FiniteSubsetsOf
<1>3. T # {}
  OBVIOUS
<1>4. PICK x \in T : \A y \in T : <<y, x>> \notin R
  <2> HIDE DEF R, T
  <2>1. QED
    BY <1>1, <1>2, <1>3, WFMin
<1>5. PICK m \in D : x = 1..m
  OBVIOUS
<1>6. ASSUME NEW i \in D, i < m PROVE FALSE
  <2>1. m \in Nat /\ i \in Nat
    OBVIOUS
  <2>2. 1..i \subseteq 1..m /\ m \in 1..m /\ m \notin 1..i
    BY <1>6, <2>1
  <2>3. 1..i # 1..m
    BY <2>2
  <2>4. <<1..i, 1..m>> \in R
    BY <2>1, <2>2, <2>3 DEF StrictSubsetOrdering
  <2>5. QED
    BY <1>4, <1>5, <2>4
<1>7. QED
  BY <1>6

(* One pointer denotes one list.                                           *)
LEMMA ListUnique ==
  ASSUME NEW S, IsFiniteSet(S), NULL \notin S, NEW link, NEW h,
         NEW p \in Lists(S), IsList(h, link, p),
         NEW q \in Lists(S), IsList(h, link, q)
  PROVE  p = q
<1>0. /\ p \in Seq(S) /\ Len(p) \in Nat /\ \A i \in 1..Len(p) : p[i] \in S
      /\ q \in Seq(S) /\ Len(q) \in Nat /\ \A i \in 1..Len(q) : q[i] \in S
  BY ListShape
<1>1. /\ h = IF Len(p) = 0 THEN NULL ELSE p[1]
      /\ h = IF Len(q) = 0 THEN NULL ELSE q[1]
      /\ \A i \in 1..Len(p) : link[p[i]] = IF i = Len(p) THEN NULL ELSE p[i + 1]
      /\ \A i \in 1..Len(q) : link[q[i]] = IF i = Len(q) THEN NULL ELSE q[i + 1]
  BY DEF IsList
<1> DEFINE Differ == {i \in Nat : i >= 1 /\ i <= Len(p)
                                  /\ (i <= Len(q) => p[i] # q[i])}
           Longer == {i \in Nat : i >= 1 /\ i <= Len(q) /\ i > Len(p)}
<1>2. Differ = {}
  <2> SUFFICES ASSUME Differ # {} PROVE FALSE
    OBVIOUS
  <2>1. PICK m \in Differ : \A i \in Differ : m <= i
    BY SmallestIndex
  <2>2. CASE m = 1
    BY <1>0, <1>1, <2>1, <2>2
  <2>3. CASE m # 1
    <3>0. PICK k \in Nat : m = k + 1
      BY <2>1, <2>3, m - 1 \in Nat
    <3>1. k \in 1..Len(p) /\ k # Len(p) /\ m \in 1..Len(p) /\ k \notin Differ
      BY <1>0, <2>1, <2>3, <3>0
    <3>2. k \in 1..Len(q) /\ p[k] = q[k]
      BY <1>0, <3>1
    <3>3. link[p[k]] = p[m] /\ p[m] \in S
      BY <1>0, <1>1, <3>0, <3>1
    <3>4. link[q[k]] = IF k = Len(q) THEN NULL ELSE q[m]
      BY <1>1, <3>0, <3>2
    <3>5. k # Len(q) /\ p[m] = q[m]
      BY <3>2, <3>3, <3>4
    <3>6. QED
      BY <1>0, <2>1, <3>0, <3>2, <3>5
  <2>4. QED
    BY <2>2, <2>3
<1>3. Len(p) <= Len(q) /\ \A i \in 1..Len(p) : p[i] = q[i]
  <2>1. ASSUME NEW i \in 1..Len(p) PROVE i <= Len(q) /\ p[i] = q[i]
    BY <1>0, <1>2
  <2>2. QED
    BY <1>0, <2>1
<1>4. Len(q) <= Len(p)
  <2> SUFFICES ASSUME Len(q) > Len(p) PROVE FALSE
    BY <1>0
  <2>1. CASE Len(p) = 0
    BY <1>0, <1>1, <2>1
  <2>2. CASE Len(p) # 0
    <3>1. Len(p) \in 1..Len(p) /\ Len(p) \in 1..Len(q) /\ Len(p) + 1 \in 1..Len(q)
      BY <1>0, <2>2
    <3>2. link[p[Len(p)]] = NULL
      BY <1>1, <3>1
    <3>3. link[q[Len(p)]] = q[Len(p) + 1] /\ q[Len(p) + 1] \in S
      BY <1>0, <1>1, <3>1
    <3>4. QED
      BY <1>3, <3>1, <3>2, <3>3
  <2>3. QED
    BY <2>1, <2>2
<1>5. QED
  BY <1>0, <1>3, <1>4, SeqEqual

==============================================================================
