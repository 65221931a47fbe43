---------------------------- MODULE MCSessionStore ----------------------------
(***************************************************************************)
(* SessionStore with two processes; what is queued second is more urgent   *)
(* than what is queued first.                                              *)
(***************************************************************************)
EXTENDS SessionStore, TLC

CONSTANTS p1, p2

MCPriority == [i \in Items |-> IF i = 2 THEN 0 ELSE 1]
ProcessesAlike == Permutations(Procs)
=============================================================================
