------------------------------ MODULE MCToolRound ------------------------------
(***************************************************************************)
(* ToolRound with two files: reads of each and a write of one, the check,  *)
(* a restart, and the calls that are answered without being executed.      *)
(***************************************************************************)
EXTENDS ToolRound

CONSTANTS a, b

MCKinds ==
    { [op |-> "read", paths |-> {a}], [op |-> "read", paths |-> {b}],
      [op |-> "write", paths |-> {a}],
      [op |-> "check", paths |-> {}], [op |-> "restart", paths |-> {}],
      [op |-> "unoffered", paths |-> {}], [op |-> "malformed", paths |-> {}] }
=============================================================================
