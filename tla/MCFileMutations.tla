-------------------------- MODULE MCFileMutations --------------------------
(* A source file and a generated document, two turns.  The files found     *)
(* hold bytes that are no text and a secret, the first content written a   *)
(* secret, the second line ends that reading changes, the third is text.   *)
EXTENDS FileMutations
CONSTANTS src, doc

MCDecoded  == [c \in Contents |-> CASE c = 1 -> 5 [] c = 3 -> 6 [] OTHER -> c]
MCRedacted == [c \in Contents |-> CASE c \in {1, 5} -> 7 [] c = 2 -> 8 [] OTHER -> c]
=============================================================================
