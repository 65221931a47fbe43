----------------------------- MODULE MCRoundLoop -----------------------------
(* Two providers, one of them with a small context window and premium.     *)
EXTENDS RoundLoop

MCRoutes == {"small", "large"}
MCProviderOf == [r \in MCRoutes |-> IF r = "small" THEN "cloud" ELSE "nim"]
MCFits == [r \in MCRoutes |-> IF r = "small" THEN 0 ELSE 1]
MCLimit == [b \in Budgets |-> 1]

Turn(auto, fallback, strict, resumed, project) ==
    [auto |-> auto, fallback |-> fallback, strict |-> strict, planned |-> resumed,
     edits |-> ~resumed, resumed |-> resumed, project |-> project]
MCTurns ==
    {Turn(TRUE, TRUE, FALSE, FALSE, {}), Turn(FALSE, TRUE, FALSE, FALSE, {"test"}),
     Turn(FALSE, FALSE, FALSE, TRUE, {"diff"}), Turn(FALSE, FALSE, TRUE, TRUE, {"test"})}
=============================================================================
