-------------------------- MODULE MCProviderRoutes --------------------------
(* NIM with two keys and two models, OpenRouter with two free models, the  *)
(* subscription gateway, and an Ollama that did not answer lately; a request *)
(* of AUTO and one that is pinned.                                         *)
EXTENDS ProviderRoutes, TLC
CONSTANTS nim, openrouter, ollama, gateway, m1, m2, f1, f2, k, g, auto, none, turn, title
MCOrder == <<nim, ollama, openrouter>>
MCPool  == (nim :> <<m1, m2>>) @@ (openrouter :> <<f1, f2>>) @@ (ollama :> <<k>>) @@ (gateway :> <<g>>)
MCOutages == {{<<ollama, k>>, <<ollama, "*">>}, Routes}      \* Ollama alone, or everything
MCFaults ==
    (nim :> {"quota", "context"}) @@ (openrouter :> {"quota", "credit"}) @@
    (ollama :> {}) @@ (gateway :> {"credit"})
MCWants ==
    (turn  :> [provider |-> auto, model |-> none, fallback |-> TRUE, stream |-> TRUE]) @@
    (title :> [provider |-> nim, model |-> m1, fallback |-> FALSE, stream |-> FALSE])
=============================================================================
