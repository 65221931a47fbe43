------------------------- MODULE MCCapabilityCalls -------------------------
(* Two remote callers and two local ones; c1 and c2 ask for one command,    *)
(* c3 uses their key for another tool, c4 has no key.                       *)
EXTENDS CapabilityCalls, TLC
CONSTANTS c1, c2, c3, c4, k, x, y
MCKey == (c1 :> k) @@ (c2 :> k) @@ (c3 :> k) @@ (c4 :> NoKey)
MCArgs == (c1 :> x) @@ (c2 :> x) @@ (c3 :> y) @@ (c4 :> x)
=============================================================================
