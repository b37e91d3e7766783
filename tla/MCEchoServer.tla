------------------------------ MODULE MCEchoServer ------------------------------
(***************************************************************************)
(* The two places a task function can be declared in.  The entry macro     *)
(* copies the body of the entry function for each replica, so a function   *)
(* inside of it (as in tcpecho) has a static pool per thread; one that is  *)
(* declared outside of it has a single pool.                               *)
(***************************************************************************)
EXTENDS EchoServer

PoolPerThread == [th \in Thread |-> th]
OnePool == [th \in Thread |-> "pool"]

==============================================================================
