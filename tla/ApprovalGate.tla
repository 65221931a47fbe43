----------------------------- MODULE ApprovalGate -----------------------------
(***************************************************************************)
(* What a tool call of one turn passes before it is queued for execution   *)
(* (runner_local.py, the loop over tool_calls): the approval of a whole    *)
(* batch, the pre-change review, the read-only boundary, permission rules, *)
(* the mailbox of a swarm worker, the approval of the single call and the  *)
(* pre-tool-use hooks, in this order.                                      *)
(*                                                                         *)
(* The execution of admitted calls is module ToolRound, the race behind a  *)
(* single approval module PermissionRace.                                  *)
(***************************************************************************)
EXTENDS ApprovalPolicy, Naturals, Sequences, FiniteSets

CONSTANTS
    Kinds,          \* the calls a model may make
    Turns,          \* the settings a turn may have
    MaxRounds,      \* bound: rounds of tool calls
    MaxBatch        \* bound: calls in a round

(* interactive, worker: whose turn it is; config: the live configuration   *)
(* is at hand (cli_config); policy: the approval policy; review:           *)
(* prechange_review_required; readOnly: the turn starts read-only;         *)
(* userReadOnly: because the user said so; resumes: the turn resumes an    *)
(* interrupted one; wantsChange: the user's objective is a mutation        *)
(* request.                                                                *)
Settings == [interactive : BOOLEAN, worker : BOOLEAN, config : BOOLEAN, policy : Policies,
             review : BOOLEAN, readOnly : BOOLEAN, userReadOnly : BOOLEAN,
             resumes : BOOLEAN, wantsChange : BOOLEAN]

ASSUME GateAssumption ==
    /\ Kinds \subseteq Calls /\ Turns \subseteq Settings
    /\ \A call \in Kinds : call.op = "write" => Risky(call)      \* MUTATING_FILE_TOOLS
    /\ MaxRounds \in Nat \ {0} /\ MaxBatch \in Nat \ {0}

VARIABLES
    turn,
    readOnly,        \* turn_read_only
    escalations,     \* _read_only_reject_count
    objectiveAsks,   \* is_mutation_request(objective)
    reviewGranted,   \* prechange_review_granted
    reviewRound,     \* prechange_review_blocked_round
    sessionApproved, \* session_approved_risks
    round, batch,
    at,              \* the call being processed
    stage,           \* how far it has come
    approvedOnce,    \* _batch_approved_once_ids
    batchDenied,     \* _batch_denied_ids
    admitted,        \* calls of the round put into the dispatch queue
    consent,         \* history: calls of the round the user or the coordinator agreed to
    always           \* history: risks the user agreed to for the session

settings == <<turn, objectiveAsks>>
boundary == <<readOnly, escalations>>
reviewed == <<reviewGranted, reviewRound>>
granted  == <<sessionApproved, always>>
decided  == <<approvedOnce, batchDenied, consent>>
vars == <<settings, boundary, reviewed, granted, decided, round, batch, at, stage, admitted>>

Stages == {"idle", "batch", "call", "review", "boundary", "rules", "mailbox", "approval",
           "hooks", "end"}

Call    == batch[at]
Ids     == DOMAIN batch
Parsed  == {i \in Ids : batch[i].args = "parsed"}

(* The permission decisions are made once per batch, on the arguments as   *)
(* they parsed: a call whose JSON is cut off is matched without its path.  *)
RuleOf(i)   == IF batch[i].args = "parsed" THEN batch[i].rule ELSE "none"
RiskyIds    == {i \in Parsed : Risky(batch[i])}

Commands      == {"command", "deliver"}
Mutates(call) == call.op = "write" \/ (call.op \in Commands /\ Risky(call))

Init ==
    /\ turn \in Turns
    /\ readOnly = turn.readOnly /\ escalations = 0
    /\ objectiveAsks = turn.wantsChange
    /\ reviewGranted = FALSE /\ reviewRound = 0
    /\ sessionApproved = {} /\ always = {}
    /\ round = 0 /\ batch = <<>> /\ at = 1 /\ stage = "idle"
    /\ approvedOnce = {} /\ batchDenied = {} /\ admitted = {} /\ consent = {}

To(next) == stage' = next /\ UNCHANGED <<round, batch, at>>

\* The call is answered without being queued, or has been queued.
NextCall ==
    /\ UNCHANGED <<round, batch>>
    /\ IF at = Len(batch) THEN stage' = "idle" /\ at' = at
                          ELSE stage' = "call" /\ at' = at + 1

Refused == NextCall /\ UNCHANGED admitted

-----------------------------------------------------------------------------
ModelCallsTools ==
    /\ stage = "idle" /\ round < MaxRounds
    /\ round' = round + 1
    /\ \E n \in 1 .. MaxBatch : batch' \in [1 .. n -> Kinds]
    /\ at' = 1 /\ stage' = "batch"
    /\ approvedOnce' = {} /\ batchDenied' = {} /\ admitted' = {} /\ consent' = {}
    /\ UNCHANGED <<settings, boundary, reviewed, granted>>

ModelAnswers ==
    /\ stage = "idle"
    /\ To("end")
    /\ UNCHANGED <<settings, boundary, reviewed, granted, decided, admitted>>

(* Several risky calls are approved as one action, by policy or by the     *)
(* user, unless a permission rule applies to any call of the batch.        *)
BatchHighest == Highest({batch[i] : i \in Parsed})

AsksForBatch ==
    /\ Cardinality(RiskyIds) > 1
    /\ ~readOnly
    /\ BatchHighest \notin sessionApproved
    /\ \A i \in Ids : RuleOf(i) = "none"

BatchRemembered_Mutant == Risks \ {"read_only"}     \* as if the user had agreed to everything
BatchRemembered        == {RiskOf(batch[i]) : i \in RiskyIds}

ApproveBatch ==
    /\ stage = "batch" /\ AsksForBatch
    /\ LET static == DecisionForPolicy(turn.policy, BatchHighest, turn.interactive) IN
       \E decision \in IF static = "prompt" THEN {"approve", "always", "deny"} ELSE {static} :
          /\ sessionApproved' = IF decision = "always" THEN sessionApproved \cup BatchRemembered
                                                       ELSE sessionApproved
          /\ approvedOnce' = IF decision = "deny" THEN {} ELSE RiskyIds
          /\ batchDenied'  = IF decision = "deny" THEN RiskyIds ELSE {}
          /\ always'  = IF decision = "always" THEN always \cup {RiskOf(batch[i]) : i \in RiskyIds}
                                               ELSE always
          /\ consent' = IF static = "prompt" /\ decision # "deny" THEN RiskyIds ELSE {}
    /\ To("call")
    /\ UNCHANGED <<settings, boundary, reviewed, admitted>>

NoBatchApproval ==
    /\ stage = "batch" /\ ~AsksForBatch
    /\ To("call")
    /\ UNCHANGED <<settings, boundary, reviewed, granted, decided, admitted>>

(* Arguments beyond repair are answered with a correction; a call may be   *)
(* refused by the controller's guard or by the scope check; a successful   *)
(* read already seen is answered from memory.                              *)
RefuseCall ==
    /\ stage = "call" /\ Refused
    /\ UNCHANGED <<settings, boundary, reviewed, granted, decided>>

(* A delegation runs its sub-agents on the spot; the single-agent form     *)
(* stores its sub-task in the variable that holds the turn's objective.    *)
(* The delegation tools are offered outside read-only turns only.          *)
Delegate ==
    /\ stage = "call" /\ Call.op = "delegate" /\ Call.args = "parsed"
    /\ ~readOnly
    /\ objectiveAsks' \in {objectiveAsks, TRUE}
    /\ Refused
    /\ UNCHANGED <<turn, boundary, reviewed, granted, decided>>

ProcessCall ==
    /\ stage = "call" /\ Call.op # "delegate" /\ Call.args # "broken"
    /\ To("review")
    /\ UNCHANGED <<settings, boundary, reviewed, granted, decided, admitted>>

(* The pre-change review of a complex change, asked once per round.        *)
NeedsReview == turn.review /\ ~reviewGranted /\ Mutates(Call)
AsksReview  == NeedsReview /\ reviewRound # round

ReviewProceeds ==
    /\ stage = "review" /\ AsksReview /\ turn.interactive
    /\ reviewGranted' = TRUE /\ reviewRound' = round
    /\ To("boundary")
    /\ UNCHANGED <<settings, boundary, granted, decided, admitted>>

ReviewRefuses ==
    /\ stage = "review" /\ AsksReview
    /\ reviewRound' = round
    /\ \/ turn.interactive /\ NextCall      \* inspect more, or revise the plan
       \/ To("end")                         \* cancelled, or nobody to ask
    /\ UNCHANGED <<settings, boundary, reviewGranted, granted, decided, admitted>>

NoReview ==
    /\ stage = "review" /\ ~AsksReview
    /\ To("boundary")
    /\ UNCHANGED <<settings, boundary, reviewed, granted, decided, admitted>>

(* The read-only boundary.  A command that reaches outside the scope goes  *)
(* on to the approval instead of being refused.                            *)
GateCandidate == Call.external /\ Call.op \in {"read"} \cup Commands
Forbidden     == readOnly /\ Risky(Call) /\ ~GateCandidate

(* The classification as read-only is given up for a write that the        *)
(* objective asks for, and for the delivery of a resumed turn; any other   *)
(* command that is not proven read-only has been refused by then.          *)
WantsMutation == IF Call.op \in Commands THEN Call.op = "deliver" /\ turn.resumes
                                         ELSE objectiveAsks

LiftsReadOnly_Mutant == escalations < 2 /\ WantsMutation      \* whoever asked for read-only
LiftsReadOnly        == escalations < 2 /\ WantsMutation /\ ~turn.userReadOnly

RefuseInReadOnly ==
    /\ stage = "boundary" /\ Forbidden /\ ~LiftsReadOnly
    /\ Refused
    /\ UNCHANGED <<settings, boundary, reviewed, granted, decided>>

Escalate ==
    /\ stage = "boundary" /\ Forbidden /\ LiftsReadOnly
    /\ readOnly' = FALSE /\ escalations' = escalations + 1
    /\ To("rules")
    /\ UNCHANGED <<settings, reviewed, granted, decided, admitted>>

WithinBoundary ==
    /\ stage = "boundary" /\ ~Forbidden
    /\ To("rules")
    /\ UNCHANGED <<settings, boundary, reviewed, granted, decided, admitted>>

Denied == RuleOf(at) = "deny" \/ (Risky(Call) /\ at \in batchDenied)

ApplyRules ==
    /\ stage = "rules"
    /\ IF Denied THEN Refused ELSE To("mailbox") /\ UNCHANGED admitted
    /\ UNCHANGED <<settings, boundary, reviewed, granted, decided>>

(* A swarm worker files a risky call in the coordinator's mailbox.         *)
NeedsMailbox ==
    turn.worker /\ Risky(Call) /\ RuleOf(at) # "allow" /\ at \notin approvedOnce

AskCoordinator ==
    /\ stage = "mailbox" /\ NeedsMailbox
    /\ \/ Refused /\ UNCHANGED decided
       \/ /\ approvedOnce' = approvedOnce \cup {at} /\ consent' = consent \cup {at}
          /\ To("approval")
          /\ UNCHANGED <<batchDenied, admitted>>
    /\ UNCHANGED <<settings, boundary, reviewed, granted>>

NoMailbox ==
    /\ stage = "mailbox" /\ ~NeedsMailbox
    /\ To("approval")
    /\ UNCHANGED <<settings, boundary, reviewed, granted, decided, admitted>>

(* The approval of the single call.  An ask rule asks for the policy "ask" *)
(* here, but the race looks at the live configuration when there is one;   *)
(* and it knows only approve and deny, so "always" counts as once.         *)
NeedsApproval ==
    /\ Risky(Call) /\ RuleOf(at) # "allow" /\ at \notin approvedOnce
    /\ RuleOf(at) = "ask" \/ RiskOf(Call) \notin sessionApproved

RacePolicy == IF ~turn.config /\ RuleOf(at) = "ask" THEN "ask" ELSE turn.policy
RacePrompts == /\ StaticVerdict(Call) = "none"
               /\ DecisionForPolicy(RacePolicy, RiskOf(Call), turn.interactive) = "prompt"

\* What the race settled on is acted upon.
Decide(decision) ==
    /\ IF decision = "deny"
         THEN Refused /\ UNCHANGED <<consent, always>>
         ELSE /\ To("hooks") /\ UNCHANGED admitted
              /\ consent' = IF RacePrompts THEN consent \cup {at} ELSE consent
              /\ always' \in IF RacePrompts THEN {always, always \cup {RiskOf(Call)}}
                                            ELSE {always}
    /\ UNCHANGED <<settings, boundary, reviewed, sessionApproved, approvedOnce, batchDenied>>

ApproveCall ==
    /\ stage = "approval" /\ NeedsApproval
    /\ \E decision \in RaceOutcomes(Call, RacePolicy, turn.interactive) : Decide(decision)

NoApproval ==
    /\ stage = "approval" /\ ~NeedsApproval
    /\ To("hooks")
    /\ UNCHANGED <<settings, boundary, reviewed, granted, decided, admitted>>

RunHooks ==
    /\ stage = "hooks"
    /\ \/ Refused
       \/ admitted' = admitted \cup {at} /\ NextCall
    /\ UNCHANGED <<settings, boundary, reviewed, granted, decided>>

Next ==
    \/ ModelCallsTools \/ ModelAnswers
    \/ ApproveBatch \/ NoBatchApproval
    \/ RefuseCall \/ Delegate \/ ProcessCall
    \/ ReviewProceeds \/ ReviewRefuses \/ NoReview
    \/ RefuseInReadOnly \/ Escalate \/ WithinBoundary
    \/ ApplyRules
    \/ AskCoordinator \/ NoMailbox
    \/ ApproveCall \/ NoApproval
    \/ RunHooks

Spec == Init /\ [][Next]_vars

-----------------------------------------------------------------------------
TypeOK ==
    /\ turn \in Turns /\ objectiveAsks \in BOOLEAN
    /\ readOnly \in BOOLEAN /\ escalations \in 0 .. 2
    /\ reviewGranted \in BOOLEAN /\ reviewRound \in 0 .. round
    /\ sessionApproved \subseteq Risks /\ always \subseteq Risks
    /\ round \in 0 .. MaxRounds
    /\ Len(batch) <= MaxBatch /\ \A i \in Ids : batch[i] \in Kinds
    /\ at \in Ids \cup {1} /\ stage \in Stages
    /\ approvedOnce \subseteq Ids /\ batchDenied \subseteq Ids
    /\ admitted \subseteq Ids /\ consent \subseteq Ids

PolicyApproves(call) == DecisionForPolicy(turn.policy, RiskOf(call), turn.interactive) = "approve"

(* A risky call runs only on somebody's word, and never after it was       *)
(* denied with its batch: an allow rule, a policy that approves its risk,  *)
(* the user or the coordinator agreeing to it, or an earlier "always" for  *)
(* the same risk.  (A read outside the scope is waved through, see README.) *)
RiskyCallsAreConsented ==
    \A i \in admitted :
        (Risky(batch[i]) /\ batch[i].op # "read") =>
            /\ i \notin batchDenied
            /\ \/ RuleOf(i) = "allow"
               \/ PolicyApproves(batch[i])
               \/ i \in consent
               \/ RiskOf(batch[i]) \in always

(* "Never escalates when the user explicitly requested read-only": inside  *)
(* the scope such a turn changes nothing, however it is escalated or       *)
(* delegated.  (A resume may keep it from starting read-only, see README.) *)
ReadOnlyTurnStaysReadOnly ==
    turn.readOnly /\ turn.userReadOnly => \A i \in admitted : Mutates(batch[i]) => batch[i].external

(* A turn classified as read-only is lifted only because the user's own    *)
(* objective asks for a change, whatever its sub-tasks are about.          *)
LiftedByTheUser ==
    (turn.readOnly /\ ~readOnly /\ ~turn.resumes) => turn.wantsChange

\* Both promises about read-only turns.
ReadOnlyIsKept == ReadOnlyTurnStaysReadOnly /\ LiftedByTheUser

-----------------------------------------------------------------------------
(* What the code's own comments say and the code does not do; the README   *)
(* quotes them.                                                            *)

(* No policy and no yes lets a catastrophic command through: the approval  *)
(* of a batch does not consult the deny-list.                              *)
CatastrophicNeverRuns == \A i \in admitted : ~batch[i].wild
=============================================================================
