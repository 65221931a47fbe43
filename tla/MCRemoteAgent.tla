--------------------------- MODULE MCRemoteAgent ---------------------------
(* One bridge and two requests, two connections, a crash and a failed save. *)
EXTENDS RemoteAgent, TLC
CONSTANTS b1, b2, r1, r2
OneHome == [r \in Requests |-> b1]
TwoHomes == (r1 :> b1) @@ (r2 :> b2)
Symmetry == Permutations(Requests)
=============================================================================
