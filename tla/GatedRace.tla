------------------------------ MODULE GatedRace ------------------------------
(***************************************************************************)
(* The approval gate with the permission race inside it, step by step:     *)
(* _raced_approval_decision of runner_local.py starts a race for the call  *)
(* that needs an approval, and the gate goes on with what it settles on.   *)
(* ApprovalGate alone takes a race for a choice among RaceOutcomes.        *)
(***************************************************************************)
EXTENDS ApprovalGate

VARIABLES call, policy, interactive, pc, pending, deaf, done, verdict, outcome

Race == INSTANCE PermissionRace
race == <<call, policy, interactive, pc, pending, deaf, done, verdict, outcome>>

AnyCall    == CHOOSE c \in Kinds : TRUE
NoVerdicts == [r \in Race!Racers |-> "none"]

\* Between two races nothing of them is left.
GatedInit ==
    /\ Init
    /\ call = AnyCall
    /\ policy = turn.policy /\ interactive = turn.interactive
    /\ pc = "idle" /\ pending = {} /\ deaf = {} /\ done = {}
    /\ verdict = NoVerdicts /\ outcome = "none"

\* The gate as it is without the approval of the single call.
OtherGates ==
    \/ ModelCallsTools \/ ModelAnswers
    \/ ApproveBatch \/ NoBatchApproval
    \/ RefuseCall \/ Delegate \/ ProcessCall
    \/ ReviewProceeds \/ ReviewRefuses \/ NoReview
    \/ RefuseInReadOnly \/ Escalate \/ WithinBoundary
    \/ ApplyRules
    \/ AskCoordinator \/ NoMailbox
    \/ NoApproval
    \/ RunHooks

PassGate == OtherGates /\ UNCHANGED race

OpenRace ==
    /\ stage = "approval" /\ NeedsApproval /\ pc = "idle"
    /\ call' = Call /\ policy' = RacePolicy /\ interactive' = turn.interactive
    /\ deaf' \in SUBSET Race!Racers
    /\ pc' = "start"
    /\ UNCHANGED <<vars, pending, done, verdict, outcome>>

RunRace == Race!Next /\ UNCHANGED vars

CloseRace ==
    /\ pc = "settled"
    /\ Decide(outcome)
    /\ pc' = "idle" /\ pending' = {} /\ deaf' = {} /\ done' = {}
    /\ verdict' = NoVerdicts /\ outcome' = "none"
    /\ call' = AnyCall /\ policy' = turn.policy /\ interactive' = turn.interactive

GatedNext == PassGate \/ OpenRace \/ RunRace \/ CloseRace

GatedSpec == GatedInit /\ [][GatedNext]_<<vars, race>>
               /\ WF_race(Race!Start /\ UNCHANGED vars)
               /\ WF_race(Race!Wake /\ UNCHANGED vars)
               /\ WF_race(Race!ClassifierAnswers /\ UNCHANGED vars)
               /\ WF_race(Race!WindowExpires /\ UNCHANGED vars)
               /\ WF_race(Race!GraceExpires /\ UNCHANGED vars)

-----------------------------------------------------------------------------
\* No approval is waited for for ever, unless it is a human's.
RaceSettles == Race!RaceSettles

(* The gate with the race in it is the gate that takes the race for one    *)
(* choice among RaceOutcomes: whatever the order of its tasks, a race      *)
(* neither admits nor refuses a call that the choice would not.            *)
GateImplemented == Spec
=============================================================================
