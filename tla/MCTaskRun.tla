------------------------------ MODULE MCTaskRun ------------------------------
(***************************************************************************)
(* TaskRun on two actions, of which one is a command, two observations and *)
(* budgets of one or two, so that every budget, extension and repetition   *)
(* limit is reached within a few rounds.                                   *)
(***************************************************************************)
EXTENDS TaskRun

CONSTANTS a, b, x, y

MCActions      == {a, b}
MCCommands     == {b}
MCObservations == {x, y}
=============================================================================
