---------------------------- MODULE IntrusiveList ----------------------------
(***************************************************************************)
(* The singly linked lists of async-executor/src/queue.rs.  A node (a      *)
(* TaskHeader) carries the link to its successor, so a list is a head      *)
(* pointer together with the links of all nodes.  The operators below say  *)
(* which sequence of nodes a head pointer denotes; the pushes and pops     *)
(* that the code performs are actions of module Executor.                  *)
(***************************************************************************)
EXTENDS Integers, Sequences, FiniteSets, Functions

CONSTANT NULL     \* the null pointer / Option::None of a link

(* The lists over the nodes S in which no node occurs twice.               *)
Lists(S) ==
  { q \in UNION { [1..n -> S] : n \in 0..Cardinality(S) } : IsInjective(q) }

(* Pointer h, followed through the links, visits exactly the nodes of q,   *)
(* in that order, and then meets NULL.                                     *)
IsList(h, link, q) ==
  /\ h = IF Len(q) = 0 THEN NULL ELSE q[1]
  /\ \A i \in 1..Len(q) : link[q[i]] = IF i = Len(q) THEN NULL ELSE q[i + 1]

==============================================================================
