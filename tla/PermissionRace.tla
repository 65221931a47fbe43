---------------------------- MODULE PermissionRace ----------------------------
(***************************************************************************)
(* race_permission() of permission_race.py: one approval decided by        *)
(* whichever of static rules, classifier and user prompt is decisive       *)
(* first.  The classifier and the prompt are asyncio tasks; asyncio.wait   *)
(* returns those that are done by the time the race is scheduled again, in *)
(* no order.                                                               *)
(***************************************************************************)
EXTENDS ApprovalPolicy

CONSTANT Kinds      \* the calls put to the race, a subset of Calls

VARIABLES
    call, policy, interactive,  \* the arguments of the race
    pc,                         \* "start", "wait" (in asyncio.wait), "cancel" or "settled"
    pending,                    \* racers still running
    deaf,                       \* racers that ignore cancellation
    done,                       \* racers finished, their verdict not yet looked at
    verdict,                    \* what each racer answered
    outcome

vars == <<call, policy, interactive, pc, pending, deaf, done, verdict, outcome>>

Racers   == {"classifier", "ui"}
Verdicts == {"none", "approve", "deny"}

Implied == DecisionForPolicy(policy, RiskOf(call), interactive)

WantUi_Mutant == interactive        \* asks the user whatever the policy says
WantUi == interactive /\ Implied = "prompt"

Init ==
    /\ call \in Kinds /\ policy \in Policies /\ interactive \in BOOLEAN
    /\ pc = "start" /\ pending = {} /\ done = {} /\ deaf \in SUBSET Racers
    /\ verdict = [r \in Racers |-> "none"]
    /\ outcome = "none"

args == <<call, policy, interactive, deaf>>

\* The decision is made; losers still running are cancelled before it is returned.
Settle(result) ==
    /\ outcome' = result
    /\ pc' = IF pending' = {} THEN "settled" ELSE "cancel"

\* Nothing decisive came back: the policy's own answer, or a denial.
Fallback == IF Implied = "prompt" THEN "deny" ELSE Implied

(* Static rules first.  Without a prompt the window for the classifier is  *)
(* zero outside full-auto: the race is over before it begins.              *)
Start ==
    /\ pc = "start"
    /\ \/ /\ StaticVerdict(call) # "none"
          /\ UNCHANGED pending
          /\ Settle(StaticVerdict(call))
       \/ /\ StaticVerdict(call) = "none"
          /\ ~WantUi /\ policy # "full-auto"
          /\ UNCHANGED pending
          /\ Settle(Fallback)
       \/ /\ StaticVerdict(call) = "none"
          /\ WantUi \/ policy = "full-auto"
          /\ \E hasClassifier \in BOOLEAN :
                pending' = {r \in Racers : \/ r = "classifier" /\ hasClassifier
                                           \/ r = "ui" /\ WantUi}
          /\ IF pending' = {} THEN Settle(Fallback) ELSE pc' = "wait" /\ UNCHANGED outcome
    /\ UNCHANGED <<args, done, verdict>>

Finishes(r, v) ==
    /\ pc = "wait" /\ r \in pending
    /\ pending' = pending \ {r} /\ done' = done \cup {r}
    /\ verdict' = [verdict EXCEPT ![r] = v]
    /\ UNCHANGED <<args, pc, outcome>>

\* A timeout or an unusable reply of the classifier is no verdict.
ClassifierAnswers == \E v \in Verdicts : Finishes("classifier", v)

\* A prompt that fails is a denial.
UserAnswers == \E v \in {"approve", "deny"} : Finishes("ui", v)

(* The race wakes up and looks at one finished racer, whichever the done   *)
(* set yields first.                                                       *)
Decisive(r) ==
    \/ verdict[r] = "deny"
    \/ verdict[r] = "approve" /\ (r = "ui" \/ ClassifierMayApprove(call, policy, interactive))

Wake ==
    /\ pc = "wait"
    /\ UNCHANGED <<args, pending, verdict>>
    /\ \E r \in done :
          /\ done' = done \ {r}
          /\ IF Decisive(r) THEN Settle(verdict[r])
             ELSE IF done' \cup pending = {} THEN Settle(Fallback)
             ELSE UNCHANGED <<pc, outcome>>

\* The zero-stop tier waits for its classifier no longer than its window.
WindowExpires ==
    /\ pc = "wait" /\ ~WantUi /\ done = {}
    /\ UNCHANGED <<args, pending, done, verdict>>
    /\ Settle(Fallback)

Cancelled ==
    /\ pc = "cancel"
    /\ \E r \in pending \ deaf : pending' = pending \ {r}
    /\ pc' = IF pending' = {} THEN "settled" ELSE "cancel"
    /\ UNCHANGED <<args, done, verdict, outcome>>

\* A racer that ignores its cancellation is left behind after a grace period.
GraceExpires_Mutant ==      \* awaits the cancelled racers without a bound
    /\ pc = "cancel" /\ pending \subseteq {}
    /\ pc' = "settled"
    /\ UNCHANGED <<args, pending, done, verdict, outcome>>

GraceExpires ==
    /\ pc = "cancel"
    /\ pc' = "settled"
    /\ UNCHANGED <<args, pending, done, verdict, outcome>>

Next == Start \/ ClassifierAnswers \/ UserAnswers \/ Wake \/ WindowExpires
            \/ Cancelled \/ GraceExpires

(* The event loop runs on and the classifier is bounded by wait_for; the   *)
(* user may stay silent for ever.                                          *)
Spec == Init /\ [][Next]_vars /\ WF_vars(Start) /\ WF_vars(Wake) /\ WF_vars(ClassifierAnswers)
             /\ WF_vars(WindowExpires) /\ WF_vars(GraceExpires)

-----------------------------------------------------------------------------
TypeOK ==
    /\ call \in Kinds /\ policy \in Policies /\ interactive \in BOOLEAN
    /\ pc \in {"start", "wait", "cancel", "settled"} /\ deaf \subseteq Racers
    /\ pending \subseteq Racers /\ done \subseteq Racers \ pending
    /\ verdict \in [Racers -> Verdicts]
    /\ outcome \in {"none", "approve", "deny"}

(* Every race that does not depend on a human comes to an end, and one     *)
(* that does ends once the human has answered.                             *)
RaceSettles ==
    /\ (pc = "start" /\ ~WantUi) ~> (pc = "settled")
    /\ (verdict["ui"] # "none") ~> (pc = "settled")
=============================================================================
