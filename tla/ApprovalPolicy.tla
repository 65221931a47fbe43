---------------------------- MODULE ApprovalPolicy ----------------------------
(***************************************************************************)
(* The pure decisions behind an approval: the risk of a tool call          *)
(* (safety.py), what an approval policy implies without asking             *)
(* (runner.py), the static verdict and the possible results of the race    *)
(* between static rules, classifier and user (permission_race.py).         *)
(*                                                                         *)
(* A call is a record:                                                     *)
(*   op       what kind of tool it names                                   *)
(*   risk     the risk of its command or path inside the allowed roots     *)
(*   external whether it reaches outside the resolved workspace scope      *)
(*   wild     whether it matches the catastrophic deny-list                *)
(*   rule     the permission rule its arguments match (decide_permission)  *)
(*   args     whether its arguments parse, are recovered from a truncated  *)
(*            write, or are beyond repair                                  *)
(***************************************************************************)

Risks      == {"read_only", "medium", "dangerous"}
Operations == {"read", "write", "command", "deliver", "delegate"}   \* deliver: a git delivery command
Rules      == {"none", "allow", "ask", "deny"}
Arguments  == {"parsed", "recovered", "broken"}
Policies   == {"full-auto", "auto", "never", "ask"}

Calls == [op : Operations, risk : Risks, external : BOOLEAN, wild : BOOLEAN,
          rule : Rules, args : Arguments]

\* classify_tool_call_risk: crossing the scope is dangerous whatever the tool.
RiskOf(call) == IF call.external THEN "dangerous" ELSE call.risk
Risky(call)  == RiskOf(call) # "read_only"

\* highest_risk of a batch of calls.
Highest(calls) ==
    IF \E c \in calls : RiskOf(c) = "dangerous" THEN "dangerous"
    ELSE IF \E c \in calls : Risky(c) THEN "medium" ELSE "read_only"

(* _decision_for_policy: "prompt" when only a human can decide.            *)
DecisionForPolicy(policy, risk, interactive) ==
    CASE policy = "full-auto" -> "approve"
      [] policy = "auto" /\ risk # "dangerous" -> "approve"
      [] policy = "never" -> "deny"
      [] OTHER -> IF interactive THEN "prompt" ELSE "deny"

(* static_verdict: a read-only tool is decisively safe, a match of the     *)
(* deny-list decisively not; "none" leaves the call to the race.           *)
StaticVerdict(call) ==
    IF ~Risky(call) \/ call.op = "read" THEN "approve"
    ELSE IF call.wild THEN "deny" ELSE "none"

(* The classifier may shorten the wait for an approval that the policy     *)
(* grants anyway; it never widens what is allowed.                         *)
ClassifierMayApprove(call, policy, interactive) ==
    /\ RiskOf(call) # "dangerous"
    /\ DecisionForPolicy(policy, RiskOf(call), interactive) = "approve"

(* The results race_permission may come to.  Only the zero-stop tier waits *)
(* for the classifier before it goes ahead.                                *)
RaceOutcomes(call, policy, interactive) ==
    LET static  == StaticVerdict(call)
        implied == DecisionForPolicy(policy, RiskOf(call), interactive)
    IN  IF static # "none" THEN {static}
        ELSE IF implied = "prompt" \/ policy = "full-auto" THEN {"approve", "deny"}
        ELSE {implied}
=============================================================================
