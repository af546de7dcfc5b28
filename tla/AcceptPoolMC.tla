------------------------------ MODULE AcceptPoolMC ------------------------------
(***************************************************************************)
(* Instances of AcceptPool for TLC.  Threads and connections are model     *)
(* values.  A client may stop anywhere in what it is able to do: one stays *)
(* silent, or speaks and never reads, in some behaviours of every run.     *)
(***************************************************************************)
EXTENDS AcceptPool, TLC

CONSTANTS c1, c2, c3    \* the connections of the clients with habits

(* One that may read or reset, one that never reads, and one that never     *)
(* ends a line, but may send as much as a read takes.                       *)
MCHabits == c1 :> {"spoken", "reading", "reset"} @@ c2 :> {"spoken"} @@ c3 :> {"long"}

(* Clients that do what they are asked for; the threads, that are created   *)
(* alike, are interchangeable.                                              *)
GoodHabits == [c \in Conns |-> {"spoken", "reading"}]

Symmetry == Permutations(Threads)
=============================================================================
