--------------------------- MODULE MCApprovalMailbox ---------------------------
(***************************************************************************)
(* ApprovalMailbox with two swarms in two processes, one with a console    *)
(* and one without, and a worker in each.                                  *)
(***************************************************************************)
EXTENDS ApprovalMailbox

CONSTANTS r1, r2, here, there, w1, w2

MCRisk   == [r \in Requests |-> IF r = r1 THEN "medium" ELSE "dangerous"]
MCTeam   == [w \in Workers |-> IF w = w1 THEN here ELSE there]
MCPolicy == [s \in Swarms |-> IF s = here THEN "auto" ELSE "full-auto"]
=============================================================================
