---------------------------- MODULE MCTypedInput ----------------------------
(* Three lines, from any keyboard, and one background job.                 *)
EXTENDS TypedInput
=============================================================================
