--------------------------- MODULE ProviderRoutes ---------------------------
(***************************************************************************)
(* Provider routing and failover of tamfis_code/providers.py: requests of  *)
(* ProviderManager.chat_completion that run at the same time (the turn,    *)
(* the permission judge, the session title) over the route health that all *)
(* of them share.                                                          *)
(*                                                                         *)
(* A request resolves a provider, picks a model and asks it.  What failed  *)
(* is retried with a smaller context, with the next key of NVIDIA NIM, or  *)
(* with another free model of OpenRouter; then the fallback loop asks the  *)
(* other providers, one after the other.  The recursive calls that do this *)
(* pass their exception on unchanged, so that one record per request holds *)
(* the innermost call and the rest of the loop around it.                  *)
(*                                                                         *)
(* Which healthy model of a pool comes first is a matter of measured times *)
(* (route_stats.rank) and left open.  Requests carry no tools here.        *)
(***************************************************************************)
EXTENDS Integers, Sequences, FiniteSets, SequencesExt

CONSTANTS
    Order,         \* the providers of AUTO and of the fallback, in routing order
    Gateway,       \* the subscription gateway of a signed-in user
    Nim, OpenRouter, Ollama,
    Pool,          \* the models of a provider, its default first
    NumKeys,       \* keys configured for NVIDIA NIM
    Star,          \* the circuit of a provider as a whole
    Requests,
    Wants,         \* what a caller asks for: provider, model, fallback, stream
    AUTO, NoModel,
    Outages,       \* sets of routes that earlier requests of the process left cooling
    Faults,        \* the failures a provider answers with, beside its silence
    MaxTicks       \* bound: cooling periods that pass

Providers == ToSet(Order) \cup {Gateway}
Models(p) == ToSet(Pool[p])
Routes    == {<<p, m>> : p \in Providers, m \in UNION {Models(q) : q \in Providers} \cup {Star}}
Short     == 1          \* 30 seconds
Long      == 2          \* 5 minutes and more: no access, no credit

ASSUME RoutesAssumption ==
    /\ Order \in Seq(Providers) /\ Order # <<>> /\ IsInjective(Order)
    /\ \A p \in Providers : Pool[p] # <<>> /\ Star \notin Models(p)
    /\ AUTO \notin Providers
    /\ NumKeys \in Nat \ {0} /\ MaxTicks \in Nat
    /\ \A p \in Providers : Faults[p] \subseteq {"quota", "credit", "server", "denied", "context"}
    /\ Outages \subseteq SUBSET Routes
    /\ \A r \in Requests : Wants[r].provider \in Providers \cup {AUTO}

VARIABLES
    cooling,       \* _ROUTE_HEALTH: how long the circuit of a route stays open
    nimKey,        \* _nim_key_index of the shared manager
    call,          \* per request, its innermost call of chat_completion
    ticks
routesVars == <<cooling, nimKey, call, ticks>>

NewCall(p) ==
    [pc |-> "resolve", target |-> p, provider |-> Gateway, model |-> NoModel, key |-> 0,
     keys |-> {}, models |-> {}, retried |-> FALSE, override |-> FALSE,
     started |-> FALSE, error |-> "none",
     left |-> <<>>, inFallback |-> FALSE, asked |-> {}]

RoutesInit ==
    /\ \E parked \in Outages : cooling = [x \in Routes |-> IF x \in parked THEN Short ELSE 0]
    /\ nimKey = 0
    /\ call = [r \in Requests |-> NewCall(Wants[r].provider)]
    /\ ticks = 0

-----------------------------------------------------------------------------
(* Route health                                                            *)

Healthy(p, m) == cooling[<<p, m>>] = 0

Max2(x, y) == IF x > y THEN x ELSE y

Retryable(error) == error # "context"
IsQuota(error)   == error \in {"quota", "credit"}
Cooldown(error)  == IF error \in {"quota", "server"} THEN Short ELSE Long

\* A model with healthy siblings does not take its provider down, unless it is
\* the account that has no credit left.
RotatesInPool(p, m, error) ==
    \/ p = Nim
    \/ p = OpenRouter /\ m \in Models(p) /\ error # "credit"

RecordFailure(p, m, error) ==
    LET opened == [cooling EXCEPT ![<<p, m>>] = Max2(@, Cooldown(error))]
        parks  == ~RotatesInPool(p, m, error) \/ \A n \in Models(p) : opened[<<p, n>>] > 0
    IN  cooling' = IF parks THEN [opened EXCEPT ![<<p, Star>>] = Max2(@, Cooldown(error))]
                            ELSE opened

\* A success closes the circuit of the provider too, whoever opened it.
RecordSuccess(p, m) == cooling' = [cooling EXCEPT ![<<p, m>>] = 0, ![<<p, Star>>] = 0]

\* How the call goes on, or comes to its end.
GoesOn(r, pc)     == call' = [call EXCEPT ![r].pc = pc]
Fails(r, error) == call' = [call EXCEPT ![r].pc = "failed", ![r].error = error]
Ends(r, pc)     ==
    call' = [call EXCEPT ![r] =
      [NewCall(Wants[r].provider) EXCEPT !.pc = pc, !.error = call[r].error,
                                         !.inFallback = call[r].inFallback, !.asked = call[r].asked]]

-----------------------------------------------------------------------------
(* Resolving a provider and a model                                        *)

\* The weekly share of Ollama is spent or not (ollama_pacing, by the clock and
\* a cache); a spent one is used all the same when no other route is left.
BestProviders(spent) ==
    LET healthy == {p \in ToSet(Order) : Healthy(p, Star)} IN
    IF spent /\ healthy # {Ollama} THEN healthy \ {Ollama} ELSE healthy

ResolvedTo(r) ==
    IF call[r].target # AUTO THEN {call[r].target}
    ELSE IF Healthy(Gateway, Star) THEN {Gateway}
    ELSE UNION {BestProviders(spent) : spent \in BOOLEAN}

NoRoute(r) ==
    /\ call[r].pc = "resolve" /\ ResolvedTo(r) = {}
    /\ Ends(r, "error")
    /\ UNCHANGED <<cooling, nimKey, ticks>>

\* A pinned model is not carried to another provider.
ModelsFor(r, p) ==
    LET healthy == {m \in Models(p) : Healthy(p, m)} IN
        IF Wants[r].model # NoModel /\ ~call[r].inFallback THEN {Wants[r].model}
        ELSE IF p \in {Nim, OpenRouter} /\ healthy # {} THEN healthy
        ELSE {Head(Pool[p])}

Sent(c, p, m) ==
    [c EXCEPT !.pc = "wait", !.provider = p, !.model = m, !.asked = c.asked \cup {p},
              !.key = IF p # Nim THEN 0 ELSE IF c.override THEN c.key ELSE nimKey,
              !.models = IF p = OpenRouter THEN c.models \cup {m} ELSE c.models,
              !.started = FALSE, !.error = "none"]

Ask(r) ==
    /\ call[r].pc = "resolve"
    /\ \E p \in ResolvedTo(r) : \E m \in ModelsFor(r, p) : call' = [call EXCEPT ![r] = Sent(call[r], p, m)]
    /\ UNCHANGED <<cooling, nimKey, ticks>>

-----------------------------------------------------------------------------
(* The provider's part, and what the call makes of it                      *)

StreamBegins(r) ==
    /\ call[r].pc = "wait" /\ Wants[r].stream
    /\ call' = [call EXCEPT ![r].pc = "stream", ![r].started = TRUE]
    /\ UNCHANGED <<cooling, nimKey, ticks>>

\* A whole answer, or the end of a stream that had content.
Answered(r) ==
    /\ \/ call[r].pc = "wait" /\ ~Wants[r].stream
       \/ call[r].pc = "stream"
    /\ Ends(r, "done")
    /\ RecordSuccess(call[r].provider, call[r].model)
    /\ UNCHANGED <<nimKey, ticks>>

\* No first byte in time, or a stream without content: the failure is recorded
\* here, and by the handler of the exception once more.
NoAnswer(r) ==
    /\ call[r].pc \in {"wait", "stream"}
    /\ Fails(r, "server")
    /\ RecordFailure(call[r].provider, call[r].model, "server")
    /\ UNCHANGED <<nimKey, ticks>>

Breaks(r) ==
    /\ call[r].pc \in {"wait", "stream"}
    /\ \E error \in Faults[call[r].provider] : Fails(r, error)
    /\ UNCHANGED <<cooling, nimKey, ticks>>

\* The consumer goes away: no health is recorded.
Cancel(r) ==
    /\ call[r].pc \in {"wait", "stream"}
    /\ Ends(r, "cancelled")
    /\ UNCHANGED <<cooling, nimKey, ticks>>

-----------------------------------------------------------------------------
(* The handler of a failed call                                            *)

ContextRetry(r) ==
    call[r].error = "context" /\ ~call[r].retried /\ ~call[r].started

RetryWithSmallerContext(r) ==
    /\ call[r].pc = "failed" /\ ContextRetry(r)
    /\ call' = [call EXCEPT ![r].pc = "resolve", ![r].retried = TRUE]
    /\ UNCHANGED <<cooling, nimKey, ticks>>

TriedKeys(r) == call[r].keys \cup {call[r].key}

NextKey_Mutant(r) == (nimKey + 1) % NumKeys     \* the manager's key, which another request moved
NextKey(r)        == (call[r].key + 1) % NumKeys

RotatesKey_Mutant(r) ==        \* does not count the keys that failed
    call[r].provider = Nim /\ IsQuota(call[r].error) /\ NumKeys > 1
RotatesKey(r) ==
    /\ call[r].provider = Nim /\ IsQuota(call[r].error)
    /\ Cardinality(TriedKeys(r)) < NumKeys

RotateKey(r) ==
    /\ call[r].pc = "failed" /\ ~ContextRetry(r) /\ RotatesKey(r)
    /\ nimKey' = NextKey(r)
    /\ call' = [call EXCEPT ![r] =
         [@ EXCEPT !.pc = "resolve", !.target = Nim, !.keys = TriedKeys(r),
                   !.key = NextKey(r), !.override = TRUE, !.retried = FALSE]]
    /\ UNCHANGED <<cooling, ticks>>

RecordOutcome(r) ==
    /\ call[r].pc = "failed" /\ ~ContextRetry(r) /\ ~RotatesKey(r)
    /\ GoesOn(r, "recorded")
    /\ RecordFailure(call[r].provider, call[r].model, call[r].error)
    /\ UNCHANGED <<nimKey, ticks>>

(* Another free model: one that is healthy and untried decides that there  *)
(* is a rotation, yet the next call picks among all healthy ones.          *)
RotatesModel(r) ==
    /\ call[r].provider = OpenRouter /\ IsQuota(call[r].error)
    /\ Wants[r].model = NoModel \/ call[r].inFallback
    /\ \E m \in Models(OpenRouter) \ call[r].models : Healthy(OpenRouter, m)

RotateModel(r) ==
    /\ call[r].pc = "recorded" /\ RotatesModel(r)
    /\ call' = [call EXCEPT ![r].pc = "resolve", ![r].target = OpenRouter, ![r].retried = FALSE]
    /\ UNCHANGED <<cooling, nimKey, ticks>>

\* NIM itself comes first while one of its models is not the one that failed;
\* a provider whose circuit is open is a candidate all the same.
FallbackCandidates_Mutant(p) == SelectSeq(Order, LAMBDA q : q # p /\ Healthy(q, Star))
\* The order, in which p is once at most, without p.
Others(p) ==
    IF p \in ToSet(Order) THEN RemoveAt(Order, CHOOSE k \in DOMAIN Order : Order[k] = p) ELSE Order
FallbackCandidates(p) ==
    LET sibling == /\ p = Nim
                   /\ \E m \in Models(Nim) : ~Healthy(Nim, m)
                   /\ \E m \in Models(Nim) : Healthy(Nim, m)
    IN  (IF sibling THEN <<Nim>> ELSE <<>>) \o Others(p)

\* Each candidate is asked without a fallback of its own.
AskNext(r, candidates) ==
    IF candidates = <<>> THEN Ends(r, "error")
    ELSE call' = [call EXCEPT ![r] =
           [@ EXCEPT !.pc = "resolve", !.target = Head(candidates), !.left = Tail(candidates),
                     !.inFallback = TRUE, !.keys = {}, !.models = {}, !.key = 0,
                     !.override = FALSE, !.retried = FALSE]]

MayFallBack(r) == Wants[r].fallback /\ Retryable(call[r].error)

FallBack(r) ==
    /\ call[r].pc = "recorded" /\ ~RotatesModel(r)
    /\ IF call[r].inFallback THEN AskNext(r, call[r].left)
       ELSE IF MayFallBack(r) THEN AskNext(r, FallbackCandidates(call[r].provider))
       ELSE Ends(r, "error")
    /\ UNCHANGED <<cooling, nimKey, ticks>>

-----------------------------------------------------------------------------
\* Time passes; the circuits that stay open do so for a period less.
Tick ==
    /\ ticks < MaxTicks
    /\ ticks' = ticks + 1
    /\ cooling' = [x \in Routes |-> Max2(0, cooling[x] - 1)]
    /\ UNCHANGED <<nimKey, call>>

Step(r) ==
    \/ NoRoute(r) \/ Ask(r)
    \/ StreamBegins(r) \/ Answered(r) \/ NoAnswer(r) \/ Breaks(r)
    \/ RetryWithSmallerContext(r) \/ RotateKey(r) \/ RecordOutcome(r)
    \/ RotateModel(r) \/ FallBack(r)

RoutesNext == (\E r \in Requests : Step(r) \/ Cancel(r)) \/ Tick

RoutesSpec == RoutesInit /\ [][RoutesNext]_routesVars

(* Every wait for a provider has a time limit, first that of the first     *)
(* byte and then that of the client, so that a call goes on.               *)
FairRoutes == RoutesSpec /\ \A r \in Requests : WF_routesVars(Step(r))

-----------------------------------------------------------------------------
(* "A failed route must never strand the task behind a stale cooldown on   *)
(* another configured route": a request that may fall back, and that was   *)
(* sent to a provider at all, fails with a retryable error only after      *)
(* every provider of the routing order was asked.                          *)
NoRouteStranded ==
    \A r \in Requests :
        (call[r].pc = "error" /\ call[r].asked # {} /\ Wants[r].fallback
           /\ (call[r].inFallback \/ Retryable(call[r].error)))
        => ToSet(Order) \subseteq call[r].asked

(* The rotation of NIM's keys asks a key that has not failed for this call *)
(* yet, whatever other requests do to the manager's current key meanwhile. *)
RotationIsFresh ==
    [][\A r \in Requests :
         (call[r].pc = "resolve" /\ call'[r].pc = "wait" /\ call'[r].provider = Nim)
            => call'[r].key \notin call[r].keys]_routesVars

(* Every request comes to an end, answered, failed or cancelled: keys,     *)
(* models and candidates run out.                                          *)
RequestEnds == <>(\A r \in Requests : call[r].pc \in {"done", "error", "cancelled"})
=============================================================================
