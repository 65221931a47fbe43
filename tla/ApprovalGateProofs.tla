-------------------------- MODULE ApprovalGateProofs --------------------------
(***************************************************************************)
(* Theorems about the modules ApprovalGate and GatedRace, for any turns,   *)
(* any calls and rounds of any length.                                     *)
(***************************************************************************)
EXTENDS GatedRace, TLAPS

-----------------------------------------------------------------------------
(* Facts about the policy.                                                 *)

LEMMA RiskType ==
    ASSUME NEW c \in Calls
    PROVE  RiskOf(c) \in Risks
BY DEF Calls, RiskOf, Risks

(* A policy that approves the highest risk of a set of calls approves each *)
(* of them.                                                                *)
LEMMA HighestIsHighest ==
    ASSUME NEW calls \in SUBSET Calls, NEW c \in calls, NEW p, NEW asks \in BOOLEAN,
           DecisionForPolicy(p, Highest(calls), asks) = "approve", Risky(c)
    PROVE  DecisionForPolicy(p, RiskOf(c), asks) = "approve"
<1>1. CASE p = "full-auto"
  BY <1>1 DEF DecisionForPolicy
<1>2. CASE p # "full-auto"
  <2>1. p = "auto" /\ Highest(calls) # "dangerous"
    BY <1>2 DEF DecisionForPolicy
  <2>2. RiskOf(c) # "dangerous"
    BY <2>1 DEF Highest
  <2> QED BY <2>1, <2>2 DEF DecisionForPolicy
<1> QED BY <1>1, <1>2

\* The race approves a risky call unasked only if the policy approves it.
LEMMA RaceFollowsPolicy ==
    ASSUME NEW c, Risky(c), c.op # "read", NEW p, NEW asks \in BOOLEAN,
           NEW decision \in RaceOutcomes(c, p, asks), decision # "deny",
           ~ (/\ StaticVerdict(c) = "none"
              /\ DecisionForPolicy(p, RiskOf(c), asks) = "prompt")
    PROVE  DecisionForPolicy(p, RiskOf(c), asks) = "approve"
<1>1. StaticVerdict(c) \in {"deny", "none"}
  BY DEF StaticVerdict
<1>2. DecisionForPolicy(p, RiskOf(c), asks) \in {"approve", "deny", "prompt"}
  BY DEF DecisionForPolicy
<1>3. p = "full-auto" => DecisionForPolicy(p, RiskOf(c), asks) = "approve"
  BY DEF DecisionForPolicy
<1> QED BY <1>1, <1>2, <1>3 DEF RaceOutcomes

LEMMA AskNeverApproves ==
    ASSUME NEW risk, NEW asks \in BOOLEAN
    PROVE  DecisionForPolicy("ask", risk, asks) # "approve"
BY DEF DecisionForPolicy

-----------------------------------------------------------------------------
(* The inductive invariant.                                                *)

Grounded(i) ==
    \/ RuleOf(i) = "allow"
    \/ PolicyApproves(batch[i])
    \/ i \in consent
    \/ RiskOf(batch[i]) \in always

Types ==
    /\ turn \in Turns /\ turn \in Settings /\ objectiveAsks \in BOOLEAN
    /\ readOnly \in BOOLEAN /\ escalations \in 0 .. 2
    /\ reviewGranted \in BOOLEAN /\ round \in 0 .. MaxRounds /\ reviewRound \in 0 .. round
    /\ sessionApproved \subseteq Risks /\ always \subseteq Risks
    /\ batch \in Seq(Kinds) /\ Len(batch) <= MaxBatch
    /\ at \in Nat /\ stage \in Stages
    /\ approvedOnce \subseteq Ids /\ batchDenied \subseteq Ids
    /\ admitted \subseteq Ids /\ consent \subseteq Ids
    /\ stage \in {"idle", "end"} => at \in Ids \cup {1}
    /\ stage \notin {"idle", "end"} => at \in Ids

\* What was approved together was approved by policy or by someone.
ApprovedTogether ==
    /\ sessionApproved \subseteq always
    /\ \A i \in approvedOnce : PolicyApproves(batch[i]) \/ i \in consent

\* How far the call at work has come.
Past ==
    /\ stage = "batch" => admitted = {}
    /\ stage \in {"mailbox", "approval", "hooks"} => ~Denied
    /\ stage = "hooks" => (Risky(Call) /\ Call.op # "read" => Grounded(at))

\* The boundary of a read-only turn holds while the turn is read-only.
Boundary ==
    /\ turn.readOnly /\ turn.userReadOnly => readOnly
    /\ turn.readOnly /\ readOnly => objectiveAsks = turn.wantsChange
    /\ (stage \in {"rules", "mailbox", "approval", "hooks"} /\ readOnly) => (Mutates(Call) => Call.external)

IInv == /\ Types /\ ApprovedTogether /\ Past /\ Boundary
        /\ RiskyCallsAreConsented /\ ReadOnlyTurnStaysReadOnly /\ LiftedByTheUser

LEMMA InitIInv == Init => IInv
<1> SUFFICES ASSUME Init PROVE IInv
  OBVIOUS
<1>1. batch \in Seq(Kinds) /\ Len(batch) = 0 /\ Ids = {}
  BY DEF Init, Ids
<1>2. turn \in Turns /\ turn \in Settings /\ 0 \in 0 .. MaxRounds /\ Len(batch) <= MaxBatch
  BY <1>1, GateAssumption DEF Init
<1>3. readOnly \in BOOLEAN /\ objectiveAsks \in BOOLEAN
  BY <1>2 DEF Init, Settings
<1>4. Types
  <2>1. /\ escalations \in 0 .. 2 /\ reviewGranted \in BOOLEAN
        /\ round \in 0 .. MaxRounds /\ reviewRound \in 0 .. round
    <3>1. escalations = 0 /\ round = 0 /\ reviewRound = 0 /\ reviewGranted = FALSE
      BY DEF Init
    <3>2. reviewGranted \in BOOLEAN
      BY <3>1
    <3>3. escalations \in 0 .. 2 /\ reviewRound \in 0 .. round
      BY <3>1
    <3>4. round \in 0 .. MaxRounds
      BY <3>1, <1>2
    <3> QED BY <3>2, <3>3, <3>4
  <2>2. sessionApproved \subseteq Risks /\ always \subseteq Risks
    BY DEF Init
  <2>3. at \in Nat /\ stage = "idle" /\ at \in Ids \cup {1} /\ stage \in Stages
    BY DEF Init, Stages
  <2>4. /\ approvedOnce \subseteq Ids /\ batchDenied \subseteq Ids
        /\ admitted \subseteq Ids /\ consent \subseteq Ids
    BY DEF Init
  <2> QED BY <1>1, <1>2, <1>3, <2>1, <2>2, <2>3, <2>4 DEF Types
<1> QED
  BY <1>1, <1>4 DEF Init, IInv, ApprovedTogether, Past, Boundary, RiskyCallsAreConsented,
     ReadOnlyTurnStaysReadOnly, LiftedByTheUser

\* What leaving a call behind, or going on with it, does to the place in the batch.
LEMMA Places ==
    ASSUME Types, NEW next \in Stages \ {"idle"}, stage \notin {"idle", "end"}, NextCall \/ To(next)
    PROVE  /\ at' \in Nat /\ stage' \in Stages /\ batch' = batch /\ round' = round
           /\ stage' \in {"idle", "end"} => at' \in Ids \cup {1}
           /\ stage' \notin {"idle", "end"} => at' \in Ids
           /\ NextCall => stage' \in {"idle", "call"}
           /\ To(next) => stage' = next /\ at' = at
<1>1. Ids = 1 .. Len(batch) /\ Len(batch) \in Nat
  BY DEF Types, Ids
<1>2. at \in Ids /\ at \in Nat
  BY DEF Types
<1>3. CASE NextCall
  BY <1>1, <1>2, <1>3 DEF NextCall, Stages, To
<1>4. CASE To(next)
  BY <1>1, <1>2, <1>4 DEF To, Stages, NextCall
<1> QED BY <1>3, <1>4

\* A step that answers a call, or passes it on, and grants nothing.
LEMMA Passing ==
    ASSUME IInv, NEW next \in {"call", "review", "boundary", "rules", "mailbox", "approval", "end"},
           stage \notin {"idle", "end"}, NextCall \/ To(next),
           UNCHANGED <<turn, granted, decided, admitted>>,
           objectiveAsks' \in BOOLEAN, reviewGranted' \in BOOLEAN,
           readOnly' = readOnly, escalations' = escalations,
           reviewRound' \in {reviewRound, round},
           objectiveAsks' = objectiveAsks \/ ~readOnly,
           To(next) /\ next \in {"mailbox", "approval"} =>
               ~Denied /\ stage \in {"rules", "mailbox"},
           To(next) /\ next = "rules" /\ readOnly => (Mutates(Call) => Call.external)
    PROVE  IInv'
<1> USE DEF granted, decided
<1>1. /\ at' \in Nat /\ stage' \in Stages /\ batch' = batch /\ round' = round
      /\ stage' \in {"idle", "end"} => at' \in Ids \cup {1}
      /\ stage' \notin {"idle", "end"} => at' \in Ids
      /\ NextCall => stage' \in {"idle", "call"}
      /\ To(next) => stage' = next /\ at' = at
  BY Places DEF IInv, Stages
<1>2. Types'
  BY <1>1 DEF IInv, Types, Ids
<1>3. ApprovedTogether'
  BY <1>1 DEF IInv, ApprovedTogether, PolicyApproves
<1>4. Past'
  BY <1>1 DEF IInv, Past, Denied, RuleOf, Call
<1>5. RiskyCallsAreConsented'
  BY <1>1 DEF IInv, RiskyCallsAreConsented, PolicyApproves, RuleOf
<1>6. ReadOnlyTurnStaysReadOnly' /\ LiftedByTheUser'
  BY <1>1 DEF IInv, ReadOnlyTurnStaysReadOnly, LiftedByTheUser
<1>7. Boundary'
  <2>1. (stage' \in {"rules", "mailbox", "approval", "hooks"} /\ readOnly) => (Mutates(Call) => Call.external)
    BY <1>1 DEF IInv, Boundary
  <2>2. stage' \in {"rules", "mailbox", "approval", "hooks"} => Call' = Call
    BY <1>1 DEF Call
  <2> QED BY <2>1, <2>2 DEF IInv, Boundary, Mutates, Risky, RiskOf
<1> QED BY <1>2, <1>3, <1>4, <1>5, <1>6, <1>7 DEF IInv

LEMMA StepIInv == IInv /\ [Next]_vars => IInv'
<1> SUFFICES ASSUME IInv, [Next]_vars PROVE IInv'
  OBVIOUS
<1> USE DEF settings, boundary, reviewed, granted, decided
<1>a. round \in Nat /\ Types /\ turn \in Settings
  BY GateAssumption DEF IInv, Types
<1>1. CASE ModelCallsTools
  <2>1. PICK n \in 1 .. MaxBatch : batch' \in [1 .. n -> Kinds]
    BY <1>1 DEF ModelCallsTools
  <2>2. batch' \in Seq(Kinds) /\ Len(batch') = n /\ 1 \in DOMAIN batch'
    BY <2>1, GateAssumption
  <2>3. Types'
    <3>1. /\ round' \in 0 .. MaxRounds /\ reviewRound' \in 0 .. round'
          /\ at' = 1 /\ stage' \in Stages /\ stage' = "batch"
      BY <1>1, <1>a, GateAssumption DEF ModelCallsTools, Types, Stages
    <3>2. /\ approvedOnce' = {} /\ batchDenied' = {} /\ admitted' = {} /\ consent' = {}
          /\ UNCHANGED <<settings, boundary, reviewGranted, granted>>
      BY <1>1 DEF ModelCallsTools
    <3> QED BY <2>1, <2>2, <3>1, <3>2, <1>a, GateAssumption DEF Types, Ids
  <2>4. ApprovedTogether' /\ Past' /\ Boundary'
    BY <1>1 DEF ModelCallsTools, IInv, ApprovedTogether, Past, Boundary
  <2>5. RiskyCallsAreConsented' /\ ReadOnlyTurnStaysReadOnly' /\ LiftedByTheUser'
    BY <1>1 DEF ModelCallsTools, IInv, RiskyCallsAreConsented, ReadOnlyTurnStaysReadOnly, LiftedByTheUser
  <2> QED BY <2>3, <2>4, <2>5 DEF IInv
<1>2. CASE ModelAnswers
  <2>1. /\ stage' = "end"
        /\ UNCHANGED <<settings, boundary, reviewed, granted, decided, admitted, round, batch, at>>
    BY <1>2 DEF ModelAnswers, To
  <2>2. Types'
    BY <1>2, <2>1, <1>a DEF ModelAnswers, Types, Ids, Stages
  <2>3. ApprovedTogether' /\ Past' /\ Boundary'
    BY <2>1 DEF IInv, ApprovedTogether, Past, Boundary, PolicyApproves
  <2>4. RiskyCallsAreConsented' /\ ReadOnlyTurnStaysReadOnly' /\ LiftedByTheUser'
    BY <2>1 DEF IInv, RiskyCallsAreConsented, ReadOnlyTurnStaysReadOnly, LiftedByTheUser,
       PolicyApproves, RuleOf
  <2> QED BY <2>2, <2>3, <2>4 DEF IInv
<1>3. CASE ApproveBatch
  <2>1. /\ stage = "batch" /\ stage' = "call" /\ admitted = {}
        /\ UNCHANGED <<settings, boundary, reviewed, admitted, round, batch, at>>
    BY <1>3 DEF ApproveBatch, To, IInv, Past
  <2>2. PICK decision \in {"approve", "always", "deny"} :
          LET static == DecisionForPolicy(turn.policy, BatchHighest, turn.interactive) IN
          /\ static # "prompt" => decision = static
          /\ sessionApproved' = IF decision = "always" THEN sessionApproved \cup BatchRemembered
                                                       ELSE sessionApproved
          /\ approvedOnce' = IF decision = "deny" THEN {} ELSE RiskyIds
          /\ batchDenied'  = IF decision = "deny" THEN RiskyIds ELSE {}
          /\ always'  = IF decision = "always" THEN always \cup {RiskOf(batch[i]) : i \in RiskyIds}
                                               ELSE always
          /\ consent' = IF static = "prompt" /\ decision # "deny" THEN RiskyIds ELSE {}
    <3>1. DecisionForPolicy(turn.policy, BatchHighest, turn.interactive) \in {"approve", "deny", "prompt"}
      BY DEF DecisionForPolicy
    <3> QED BY <1>3, <3>1 DEF ApproveBatch
  <2>3. RiskyIds \subseteq Ids /\ \A i \in Ids : RiskOf(batch[i]) \in Risks
    BY <1>a, GateAssumption, RiskType DEF RiskyIds, Parsed, Types, Ids
  <2>4. Types'
    <3>1. sessionApproved' \subseteq Risks /\ always' \subseteq Risks
      BY <2>2, <2>3, <1>a DEF Types, BatchRemembered
    <3>2. approvedOnce' \subseteq Ids /\ batchDenied' \subseteq Ids /\ consent' \subseteq Ids /\ at \in Ids
      BY <2>1, <2>2, <2>3, <1>a DEF Types
    <3> QED BY <2>1, <3>1, <3>2, <1>a DEF Types, Ids, Stages
  <2>5. ApprovedTogether'
    <3>1. sessionApproved' \subseteq always'
      BY <2>2 DEF IInv, ApprovedTogether, BatchRemembered
    <3>2. SUFFICES ASSUME NEW i \in approvedOnce', i \notin consent' PROVE PolicyApproves(batch[i])
      BY <2>1, <3>1 DEF ApprovedTogether, PolicyApproves
    <3>3. i \in Parsed /\ Risky(batch[i])
      BY <2>2, <3>2 DEF RiskyIds
    <3>4. DecisionForPolicy(turn.policy, BatchHighest, turn.interactive) = "approve"
      <4>1. DecisionForPolicy(turn.policy, BatchHighest, turn.interactive) \in {"approve", "deny", "prompt"}
        BY DEF DecisionForPolicy
      <4> QED BY <2>2, <3>2, <4>1
    <3>5. {batch[j] : j \in Parsed} \in SUBSET Calls /\ batch[i] \in {batch[j] : j \in Parsed}
      BY <3>3, <1>a, GateAssumption DEF Types, Parsed, Ids
    <3>6. turn.interactive \in BOOLEAN
      BY <1>a DEF Settings
    <3> QED BY <3>3, <3>4, <3>5, <3>6, HighestIsHighest DEF PolicyApproves, BatchHighest
  <2>6. Past' /\ RiskyCallsAreConsented' /\ ReadOnlyTurnStaysReadOnly'
    BY <2>1 DEF Past, RiskyCallsAreConsented, ReadOnlyTurnStaysReadOnly
  <2>7. Boundary' /\ LiftedByTheUser'
    BY <2>1 DEF IInv, Boundary, LiftedByTheUser
  <2> QED BY <2>4, <2>5, <2>6, <2>7 DEF IInv
<1>4. CASE NoBatchApproval
  <2>1. /\ stage = "batch" /\ To("call")
        /\ UNCHANGED <<settings, boundary, reviewed, granted, decided, admitted>>
    BY <1>4 DEF NoBatchApproval
  <2> QED BY <2>1, <1>a, Passing DEF Types
<1>5. CASE RefuseCall
  <2>1. /\ stage = "call" /\ NextCall
        /\ UNCHANGED <<settings, boundary, reviewed, granted, decided, admitted>>
    BY <1>5 DEF RefuseCall, Refused
  <2> QED BY <2>1, <1>a, Passing DEF Types, NextCall, To
<1>6. CASE Delegate
  <2>1. /\ stage = "call" /\ NextCall /\ ~readOnly /\ objectiveAsks' \in BOOLEAN
        /\ UNCHANGED <<turn, boundary, reviewed, granted, decided, admitted>>
    BY <1>6, <1>a DEF Delegate, Refused, Types
  <2> QED BY <2>1, <1>a, Passing DEF Types, NextCall, To
<1>7. CASE ProcessCall
  <2>1. /\ stage = "call" /\ To("review")
        /\ UNCHANGED <<settings, boundary, reviewed, granted, decided, admitted>>
    BY <1>7 DEF ProcessCall
  <2> QED BY <2>1, <1>a, Passing DEF Types
<1>8. CASE ReviewProceeds
  <2>1. /\ stage = "review" /\ To("boundary") /\ reviewGranted' \in BOOLEAN /\ reviewRound' = round
        /\ UNCHANGED <<settings, boundary, granted, decided, admitted>>
    BY <1>8 DEF ReviewProceeds
  <2> QED BY <2>1, <1>a, Passing DEF Types
<1>9. CASE ReviewRefuses
  <2>1. /\ stage = "review" /\ (NextCall \/ To("end"))
        /\ reviewGranted' \in BOOLEAN /\ reviewRound' = round
        /\ UNCHANGED <<settings, boundary, granted, decided, admitted>>
    BY <1>9, <1>a DEF ReviewRefuses, Refused, Types
  <2>2. CASE NextCall
    BY <2>1, <2>2, <1>a, Passing DEF Types, NextCall, To
  <2>3. CASE To("end")
    BY <2>1, <2>3, <1>a, Passing DEF Types
  <2> QED BY <2>1, <2>2, <2>3
<1>10. CASE NoReview
  <2>1. /\ stage = "review" /\ To("boundary")
        /\ UNCHANGED <<settings, boundary, reviewed, granted, decided, admitted>>
    BY <1>10 DEF NoReview
  <2> QED BY <2>1, <1>a, Passing DEF Types
<1>11. CASE RefuseInReadOnly
  <2>1. /\ stage = "boundary" /\ NextCall
        /\ UNCHANGED <<settings, boundary, reviewed, granted, decided, admitted>>
    BY <1>11 DEF RefuseInReadOnly, Refused
  <2> QED BY <2>1, <1>a, Passing DEF Types, NextCall, To
<1>12. CASE Escalate
  <2>1. /\ stage = "boundary" /\ To("rules") /\ readOnly /\ LiftsReadOnly
        /\ readOnly' = FALSE /\ escalations' = escalations + 1
        /\ UNCHANGED <<settings, reviewed, granted, decided, admitted>>
    BY <1>12 DEF Escalate, Forbidden
  <2>2. /\ at \in Ids /\ UNCHANGED <<round, batch, at>> /\ stage' = "rules" /\ ~turn.userReadOnly
        /\ escalations' \in 0 .. 2
    BY <2>1, <1>a DEF To, Types, LiftsReadOnly
  <2>3. Types'
    BY <2>1, <2>2, <1>a DEF Types, Ids, Stages
  <2>4. ApprovedTogether' /\ Past' /\ Boundary'
    BY <2>1, <2>2 DEF IInv, ApprovedTogether, Past, Boundary, PolicyApproves
  <2>5. RiskyCallsAreConsented' /\ ReadOnlyTurnStaysReadOnly'
    BY <2>1, <2>2 DEF IInv, RiskyCallsAreConsented, ReadOnlyTurnStaysReadOnly, PolicyApproves, RuleOf
  <2>6. LiftedByTheUser'
    BY <2>1, <2>2 DEF IInv, Boundary, LiftedByTheUser, LiftsReadOnly, WantsMutation
  <2> QED BY <2>3, <2>4, <2>5, <2>6 DEF IInv
<1>13. CASE WithinBoundary
  <2>1. /\ stage = "boundary" /\ To("rules") /\ ~Forbidden
        /\ UNCHANGED <<settings, boundary, reviewed, granted, decided, admitted>>
    BY <1>13 DEF WithinBoundary
  <2>2. Call \in Kinds
    BY <2>1, <1>a DEF Types, Call, Ids
  <2>3. readOnly => (Mutates(Call) => Call.external)
    BY <2>1, <2>2, GateAssumption DEF Forbidden, GateCandidate, Mutates
  <2> QED BY <2>1, <2>3, <1>a, Passing DEF Types
<1>14. CASE ApplyRules
  <2>1. /\ stage = "rules" /\ (NextCall \/ (To("mailbox") /\ ~Denied))
        /\ UNCHANGED <<settings, boundary, reviewed, granted, decided, admitted>>
    BY <1>14 DEF ApplyRules, Refused
  <2>2. CASE NextCall
    BY <2>1, <2>2, <1>a, Passing DEF Types, NextCall, To
  <2>3. CASE To("mailbox") /\ ~Denied
    BY <2>1, <2>3, <1>a, Passing DEF Types
  <2> QED BY <2>1, <2>2, <2>3
<1>15. CASE AskCoordinator
  <2>1. CASE Refused /\ UNCHANGED decided
    <3>1. /\ stage = "mailbox" /\ NextCall
          /\ UNCHANGED <<settings, boundary, reviewed, granted, decided, admitted>>
      BY <1>15, <2>1 DEF AskCoordinator, Refused
    <3> QED BY <3>1, <1>a, Passing DEF Types, NextCall, To
  <2>2. CASE ~(Refused /\ UNCHANGED decided)
    <3>1. /\ stage = "mailbox" /\ at \in Ids /\ stage' = "approval"
          /\ approvedOnce' = approvedOnce \cup {at} /\ consent' = consent \cup {at}
          /\ UNCHANGED <<settings, boundary, reviewed, granted, batchDenied, admitted, round, batch, at>>
      BY <1>15, <2>2, <1>a DEF AskCoordinator, To, Types
    <3>2. Types'
      BY <3>1, <1>a DEF Types, Ids, Stages
    <3>3. ApprovedTogether'
      BY <3>1 DEF IInv, ApprovedTogether, PolicyApproves
    <3>4. Past' /\ Boundary'
      BY <3>1 DEF IInv, Past, Boundary, Denied, RuleOf, Call, Mutates
    <3>5. RiskyCallsAreConsented' /\ ReadOnlyTurnStaysReadOnly' /\ LiftedByTheUser'
      BY <3>1 DEF IInv, RiskyCallsAreConsented, ReadOnlyTurnStaysReadOnly, LiftedByTheUser,
         PolicyApproves, RuleOf
    <3> QED BY <3>2, <3>3, <3>4, <3>5 DEF IInv
  <2> QED BY <2>1, <2>2
<1>16. CASE NoMailbox
  <2>1. /\ stage = "mailbox" /\ To("approval")
        /\ UNCHANGED <<settings, boundary, reviewed, granted, decided, admitted>>
    BY <1>16 DEF NoMailbox
  <2>2. ~Denied
    BY <2>1 DEF IInv, Past
  <2> QED BY <2>1, <2>2, <1>a, Passing DEF Types
<1>17. CASE ApproveCall
  <2>1. /\ stage = "approval" /\ NeedsApproval /\ at \in Ids
        /\ UNCHANGED <<settings, boundary, reviewed, sessionApproved, approvedOnce, batchDenied>>
    BY <1>17, <1>a DEF ApproveCall, Decide, Types
  <2>2. PICK decision \in RaceOutcomes(Call, RacePolicy, turn.interactive) :
          IF decision = "deny"
            THEN Refused /\ UNCHANGED <<consent, always>>
            ELSE /\ To("hooks") /\ UNCHANGED admitted
                 /\ consent' = IF RacePrompts THEN consent \cup {at} ELSE consent
                 /\ always' \in IF RacePrompts THEN {always, always \cup {RiskOf(Call)}}
                                               ELSE {always}
    BY <1>17 DEF ApproveCall, Decide
  <2>3. CASE decision = "deny"
    <3>1. /\ NextCall
          /\ UNCHANGED <<settings, boundary, reviewed, granted, decided, admitted>>
      BY <2>1, <2>2, <2>3 DEF Refused
    <3> QED BY <2>1, <3>1, <1>a, Passing DEF Types, NextCall, To
  <2>4. CASE decision # "deny"
    <3>1. /\ stage' = "hooks" /\ UNCHANGED <<admitted, round, batch, at>>
          /\ consent' = IF RacePrompts THEN consent \cup {at} ELSE consent
          /\ always' \in IF RacePrompts THEN {always, always \cup {RiskOf(Call)}} ELSE {always}
      BY <2>2, <2>4 DEF To
    <3>2. RiskOf(Call) \in Risks /\ turn.interactive \in BOOLEAN
      BY <2>1, <1>a, GateAssumption, RiskType DEF Types, Call, Ids, Settings
    <3>3. /\ consent \subseteq consent' /\ consent' \subseteq Ids
          /\ always \subseteq always' /\ always' \subseteq Risks
      BY <2>1, <3>1, <3>2, <1>a DEF Types
    <3>4. Risky(Call) /\ Call.op # "read" => Grounded(at)'
      <4>1. SUFFICES ASSUME Risky(Call), Call.op # "read", ~RacePrompts PROVE PolicyApproves(batch[at])
        BY <2>1, <3>1 DEF Grounded, PolicyApproves
      <4>2. DecisionForPolicy(RacePolicy, RiskOf(Call), turn.interactive) = "approve"
        BY <2>4, <3>2, <4>1, RaceFollowsPolicy DEF RacePrompts
      <4>3. RacePolicy = turn.policy
        BY <3>2, <4>2, AskNeverApproves DEF RacePolicy
      <4> QED BY <4>2, <4>3 DEF PolicyApproves, Call
    <3>5. Types'
      BY <2>1, <3>1, <3>3, <1>a DEF Types, Ids, Stages
    <3>6. ApprovedTogether'
      BY <2>1, <3>1, <3>3 DEF IInv, ApprovedTogether, PolicyApproves
    <3>7. Past'
      <4>1. ~Denied'
        BY <2>1, <3>1 DEF IInv, Past, Denied, RuleOf, Call
      <4> QED BY <3>1, <3>4, <4>1 DEF Past, Call
    <3>8. Boundary'
      BY <2>1, <3>1 DEF IInv, Boundary, Mutates, Call
    <3>9. RiskyCallsAreConsented'
      BY <2>1, <3>1, <3>3 DEF IInv, RiskyCallsAreConsented, PolicyApproves, RuleOf
    <3>10. ReadOnlyTurnStaysReadOnly' /\ LiftedByTheUser'
      BY <2>1, <3>1 DEF IInv, ReadOnlyTurnStaysReadOnly, LiftedByTheUser
    <3> QED BY <3>5, <3>6, <3>7, <3>8, <3>9, <3>10 DEF IInv
  <2> QED BY <2>3, <2>4
<1>18. CASE NoApproval
  <2>1. /\ stage = "approval" /\ ~NeedsApproval /\ at \in Ids /\ stage' = "hooks"
        /\ UNCHANGED <<settings, boundary, reviewed, granted, decided, admitted, round, batch, at>>
    BY <1>18, <1>a DEF NoApproval, To, Types
  <2>2. Risky(Call) /\ Call.op # "read" => Grounded(at)
    BY <2>1 DEF IInv, ApprovedTogether, NeedsApproval, Grounded, Call
  <2>3. Types'
    BY <2>1, <1>a DEF Types, Ids, Stages
  <2>4. ApprovedTogether'
    BY <2>1 DEF IInv, ApprovedTogether, PolicyApproves
  <2>5. Past'
    BY <2>1, <2>2 DEF IInv, Past, Denied, RuleOf, Call, Grounded, PolicyApproves
  <2>6. Boundary'
    BY <2>1 DEF IInv, Boundary, Mutates, Call
  <2>7. RiskyCallsAreConsented' /\ ReadOnlyTurnStaysReadOnly' /\ LiftedByTheUser'
    BY <2>1 DEF IInv, RiskyCallsAreConsented, ReadOnlyTurnStaysReadOnly, LiftedByTheUser,
       PolicyApproves, RuleOf
  <2> QED BY <2>3, <2>4, <2>5, <2>6, <2>7 DEF IInv
<1>19. CASE RunHooks
  <2>1. /\ stage = "hooks" /\ at \in Ids
        /\ UNCHANGED <<settings, boundary, reviewed, granted, decided>>
    BY <1>19, <1>a DEF RunHooks, Types
  <2>2. CASE Refused
    BY <2>1, <2>2, <1>a, Passing DEF Refused, Types, NextCall, To
  <2>3. CASE admitted' = admitted \cup {at} /\ NextCall
    <3>1. /\ at' \in Nat /\ stage' \in Stages /\ batch' = batch /\ round' = round
          /\ stage' \in {"idle", "end"} => at' \in Ids \cup {1}
          /\ stage' \notin {"idle", "end"} => at' \in Ids
          /\ stage' \in {"idle", "call"}
      BY <2>1, <2>3, <1>a, Places DEF Stages
    <3>2. Types'
      BY <2>1, <2>3, <3>1, <1>a DEF Types, Ids
    <3>3. ApprovedTogether' /\ Past' /\ Boundary'
      BY <2>1, <3>1 DEF IInv, ApprovedTogether, Past, Boundary, PolicyApproves
    <3>4. RiskyCallsAreConsented'
      BY <2>1, <2>3, <3>1 DEF IInv, Past, RiskyCallsAreConsented, PolicyApproves, RuleOf, Denied, Call,
         Grounded
    <3>5. ReadOnlyTurnStaysReadOnly'
      BY <2>1, <2>3, <3>1 DEF IInv, Boundary, ReadOnlyTurnStaysReadOnly, Call
    <3>6. LiftedByTheUser'
      BY <2>1 DEF IInv, LiftedByTheUser
    <3> QED BY <3>2, <3>3, <3>4, <3>5, <3>6 DEF IInv
  <2> QED BY <1>19, <2>2, <2>3 DEF RunHooks
<1>20. CASE UNCHANGED vars
  BY <1>20 DEF vars, IInv, Types, ApprovedTogether, Past, Boundary, RiskyCallsAreConsented,
     ReadOnlyTurnStaysReadOnly, LiftedByTheUser, Ids, PolicyApproves, RuleOf, Denied, Call, Grounded,
     Mutates
<1> QED
  BY <1>1, <1>2, <1>3, <1>4, <1>5, <1>6, <1>7, <1>8, <1>9, <1>10, <1>11, <1>12, <1>13, <1>14, <1>15,
     <1>16, <1>17, <1>18, <1>19, <1>20 DEF Next

LEMMA Invariance == Spec => []IInv
<1>1. QED BY InitIInv, StepIInv, PTL DEF Spec

-----------------------------------------------------------------------------
\* Every variable of the gate keeps its type, at most two escalations included.
THEOREM TypeCorrect == Spec => []TypeOK
<1>1. IInv => TypeOK
  BY DEF IInv, Types, TypeOK, Ids
<1> QED BY Invariance, <1>1, PTL

(* A risky call reaches execution only on a rule, a policy, a yes or an    *)
(* earlier "always", and never after its batch was denied: through the     *)
(* batch approval, the mailbox and the race of runner_local.py alike.      *)
THEOREM ConsentBeforeExecution == Spec => []RiskyCallsAreConsented
<1>1. IInv => RiskyCallsAreConsented
  BY DEF IInv
<1> QED BY Invariance, <1>1, PTL

(* A turn the user asked to be read-only admits no change inside the       *)
(* scope: neither the escalation (runner_local.py, turn_read_only) nor a   *)
(* delegated sub-task lifts the boundary.                                  *)
THEOREM UserReadOnlyHolds == Spec => []ReadOnlyTurnStaysReadOnly
<1>1. IInv => ReadOnlyTurnStaysReadOnly
  BY DEF IInv
<1> QED BY Invariance, <1>1, PTL

(* Outside a resumed turn the read-only classification is lifted only for  *)
(* an objective of the user's own that asks for a change, although a       *)
(* delegation overwrites the objective (runner_local.py, delegate_agent).  *)
THEOREM LiftIsTheUsers == Spec => []LiftedByTheUser
<1>1. IInv => LiftedByTheUser
  BY DEF IInv
<1> QED BY Invariance, <1>1, PTL

\* Both promises about read-only turns, as the run checks them.
THEOREM ReadOnlyIsKeptAlways == Spec => []ReadOnlyIsKept
<1>1. IInv => ReadOnlyIsKept
  BY DEF IInv, ReadOnlyIsKept
<1> QED BY Invariance, <1>1, PTL

-----------------------------------------------------------------------------
(* The gate with the race in it.                                           *)

(* A race is about the call that the gate is at, under the policy that the *)
(* gate gives it, and the racers are waited for only where either answer   *)
(* is allowed.                                                             *)
RaceInv ==
    /\ pc # "idle" => /\ stage = "approval" /\ NeedsApproval
                      /\ call = Call /\ policy = RacePolicy /\ interactive = turn.interactive
    /\ pc = "wait" => {"approve", "deny"} \subseteq RaceOutcomes(call, policy, interactive)
    /\ pc \in {"cancel", "settled"} => outcome \in RaceOutcomes(call, policy, interactive)

\* The race decides by the policy of the gate.
LEMMA RacePolicyIsOurs ==
    ASSUME NEW c, NEW p, NEW asks
    PROVE  /\ Race!StaticVerdict(c) = StaticVerdict(c)
           /\ Race!DecisionForPolicy(p, Race!RiskOf(c), asks) = DecisionForPolicy(p, RiskOf(c), asks)
<1>1. Race!RiskOf(c) = RiskOf(c)
  BY DEF Race!RiskOf, RiskOf
<1>2. Race!Risky(c) <=> Risky(c)
  BY <1>1 DEF Race!Risky, Risky
<1>3. Race!StaticVerdict(c) = StaticVerdict(c)
  BY <1>2 DEF Race!StaticVerdict, StaticVerdict
<1>4. Race!DecisionForPolicy(p, RiskOf(c), asks) = DecisionForPolicy(p, RiskOf(c), asks)
  BY DEF Race!DecisionForPolicy, DecisionForPolicy
<1> QED BY <1>1, <1>3, <1>4

LEMMA FallbackType == Race!Fallback \in {"approve", "deny"}
<1>1. Race!Implied \in {"approve", "deny", "prompt"}
  BY RacePolicyIsOurs DEF Race!Implied, DecisionForPolicy
<1> QED BY <1>1 DEF Race!Fallback

\* Where the race stops at once, it stops at what the policy implies.
LEMMA FallbackAllowed ==
    ASSUME StaticVerdict(call) = "none", ~Race!WantUi \/ policy = "full-auto"
    PROVE  Race!Fallback \in RaceOutcomes(call, policy, interactive)
<1>1. Race!Implied = DecisionForPolicy(policy, RiskOf(call), interactive)
  BY RacePolicyIsOurs DEF Race!Implied
<1>2. Race!Implied = "prompt" => interactive /\ policy # "full-auto"
  BY <1>1 DEF DecisionForPolicy
<1>3. Race!Implied # "prompt"
  BY <1>2 DEF Race!WantUi
<1>4. policy = "full-auto" => Race!Implied = "approve"
  BY <1>1 DEF DecisionForPolicy
<1> QED BY <1>1, <1>3, <1>4 DEF RaceOutcomes, Race!Fallback

LEMMA RaceWaitsForEither ==
    ASSUME StaticVerdict(call) = "none", Race!WantUi \/ policy = "full-auto"
    PROVE  {"approve", "deny"} \subseteq RaceOutcomes(call, policy, interactive)
BY RacePolicyIsOurs DEF RaceOutcomes, Race!WantUi, Race!Implied

\* A step of a race leaves its question alone, and what it settles on is allowed.
LEMMA RaceStep ==
    ASSUME RaceInv, Race!Next
    PROVE  /\ pc # "idle" /\ pc' \in {"wait", "cancel", "settled"}
           /\ UNCHANGED <<call, policy, interactive>>
           /\ pc' = "wait" => {"approve", "deny"} \subseteq RaceOutcomes(call, policy, interactive)
           /\ pc' # "wait" => outcome' \in RaceOutcomes(call, policy, interactive)
<1> DEFINE Goal ==
      /\ pc # "idle" /\ pc' \in {"wait", "cancel", "settled"}
      /\ UNCHANGED <<call, policy, interactive>>
      /\ pc' = "wait" => {"approve", "deny"} \subseteq RaceOutcomes(call, policy, interactive)
      /\ pc' # "wait" => outcome' \in RaceOutcomes(call, policy, interactive)
<1>0. ASSUME NEW result \in RaceOutcomes(call, policy, interactive), Race!Settle(result),
             pc # "idle", UNCHANGED <<call, policy, interactive>>
      PROVE  Goal
  BY <1>0 DEF Race!Settle
<1>1. CASE Race!Start
  <2>1. pc = "start" /\ UNCHANGED <<call, policy, interactive>>
    BY <1>1 DEF Race!Start, Race!args
  <2>2. CASE StaticVerdict(call) # "none"
    <3>1. Race!Settle(StaticVerdict(call))
      BY <1>1, <2>2, RacePolicyIsOurs DEF Race!Start
    <3>2. StaticVerdict(call) \in RaceOutcomes(call, policy, interactive)
      BY <2>2 DEF RaceOutcomes
    <3> QED BY <1>0, <2>1, <3>1, <3>2
  <2>3. CASE StaticVerdict(call) = "none" /\ ~Race!WantUi /\ policy # "full-auto"
    <3>1. Race!Settle(Race!Fallback)
      BY <1>1, <2>3, RacePolicyIsOurs DEF Race!Start
    <3> QED BY <1>0, <2>1, <2>3, <3>1, FallbackAllowed
  <2>4. CASE StaticVerdict(call) = "none" /\ (Race!WantUi \/ policy = "full-auto")
    <3>1. PICK hasClassifier \in BOOLEAN :
             pending' = {r \in Race!Racers : \/ r = "classifier" /\ hasClassifier
                                             \/ r = "ui" /\ Race!WantUi}
      BY <1>1, <2>4, RacePolicyIsOurs DEF Race!Start
    <3>2. IF pending' = {} THEN Race!Settle(Race!Fallback) ELSE pc' = "wait" /\ UNCHANGED outcome
      BY <1>1, <2>4, RacePolicyIsOurs DEF Race!Start
    <3>3. pending' = {} => ~Race!WantUi
      BY <3>1 DEF Race!Racers
    <3>4. CASE pending' = {}
      BY <1>0, <2>1, <2>4, <3>2, <3>3, <3>4, FallbackAllowed
    <3>5. CASE pending' # {}
      BY <2>1, <2>4, <3>2, <3>5, RaceWaitsForEither
    <3> QED BY <3>4, <3>5
  <2> QED BY <2>2, <2>3, <2>4
<1>2. CASE Race!ClassifierAnswers \/ Race!UserAnswers
  <2>1. pc = "wait" /\ UNCHANGED <<call, policy, interactive, pc>>
    BY <1>2 DEF Race!ClassifierAnswers, Race!UserAnswers, Race!Finishes, Race!args
  <2> QED BY <2>1 DEF RaceInv
<1>3. CASE Race!Wake
  <2>1. pc = "wait" /\ UNCHANGED <<call, policy, interactive>>
    BY <1>3 DEF Race!Wake, Race!args
  <2>2. {"approve", "deny"} \subseteq RaceOutcomes(call, policy, interactive)
    BY <2>1 DEF RaceInv
  <2>3. Race!Fallback \in {"approve", "deny"}
    BY FallbackType
  <2>4. PICK r \in done : IF Race!Decisive(r) THEN Race!Settle(verdict[r])
                          ELSE IF done' \cup pending = {} THEN Race!Settle(Race!Fallback)
                          ELSE UNCHANGED <<pc, outcome>>
    BY <1>3 DEF Race!Wake
  <2>5. CASE Race!Decisive(r)
    <3>1. verdict[r] \in {"approve", "deny"}
      BY <2>5 DEF Race!Decisive
    <3> QED BY <1>0, <2>1, <2>2, <2>4, <2>5, <3>1
  <2>6. CASE Race!Settle(Race!Fallback)
    BY <1>0, <2>1, <2>2, <2>3, <2>6
  <2>7. CASE UNCHANGED <<pc, outcome>>
    BY <2>1, <2>2, <2>7
  <2> QED BY <2>4, <2>5, <2>6, <2>7
<1>4. CASE Race!WindowExpires
  <2>1. pc = "wait" /\ UNCHANGED <<call, policy, interactive>> /\ Race!Settle(Race!Fallback)
    BY <1>4 DEF Race!WindowExpires, Race!args
  <2>2. Race!Fallback \in {"approve", "deny"}
    BY FallbackType
  <2> QED BY <1>0, <2>1, <2>2 DEF RaceInv
<1>5. CASE Race!Cancelled \/ Race!GraceExpires
  <2>1. /\ pc = "cancel" /\ pc' \in {"cancel", "settled"}
        /\ UNCHANGED <<call, policy, interactive, outcome>>
    BY <1>5 DEF Race!Cancelled, Race!GraceExpires, Race!args
  <2> QED BY <2>1 DEF RaceInv
<1> QED BY <1>1, <1>2, <1>3, <1>4, <1>5 DEF Race!Next

\* Without a race at work a gate other than the approval passes the call on.
LEMMA PassIsStep == PassGate => Next
BY DEF PassGate, OtherGates, Next

LEMMA PassedWithoutRace ==
    ASSUME RaceInv, PassGate
    PROVE  pc = "idle" /\ UNCHANGED race
<1>1. ASSUME stage = "approval", NeedsApproval PROVE ~OtherGates
  BY <1>1 DEF OtherGates, ModelCallsTools, ModelAnswers, ApproveBatch, NoBatchApproval, RefuseCall,
     Delegate, ProcessCall, ReviewProceeds, ReviewRefuses, NoReview, RefuseInReadOnly, Escalate,
     WithinBoundary, ApplyRules, AskCoordinator, NoMailbox, NoApproval, RunHooks
<1> QED BY <1>1 DEF RaceInv, PassGate

LEMMA ClosedRaceIsApproval == RaceInv /\ CloseRace => ApproveCall
<1> SUFFICES ASSUME RaceInv, CloseRace PROVE ApproveCall
  OBVIOUS
<1>1. /\ stage = "approval" /\ NeedsApproval
      /\ outcome \in RaceOutcomes(Call, RacePolicy, turn.interactive)
  BY DEF RaceInv, CloseRace
<1>2. Decide(outcome)
  BY DEF CloseRace
<1> QED BY <1>1, <1>2 DEF ApproveCall

LEMMA GatedStep == RaceInv /\ [GatedNext]_<<vars, race>> => RaceInv' /\ [Next]_vars
<1> SUFFICES ASSUME RaceInv, [GatedNext]_<<vars, race>> PROVE RaceInv' /\ [Next]_vars
  OBVIOUS
<1> USE DEF vars, settings, boundary, reviewed, granted, decided
<1>0. ASSUME UNCHANGED vars
      PROVE  Call' = Call /\ (NeedsApproval' <=> NeedsApproval) /\ RacePolicy' = RacePolicy
  BY <1>0 DEF Call, NeedsApproval, RacePolicy, RuleOf
<1>1. CASE PassGate
  <2>1. pc' = "idle"
    BY <1>1, PassedWithoutRace DEF race
  <2> QED BY <1>1, <2>1, PassIsStep DEF RaceInv
<1>2. CASE OpenRace
  <2>1. /\ stage = "approval" /\ NeedsApproval /\ pc' = "start" /\ UNCHANGED vars
        /\ call' = Call /\ policy' = RacePolicy /\ interactive' = turn.interactive
    BY <1>2 DEF OpenRace
  <2> QED BY <1>0, <2>1 DEF RaceInv
<1>3. CASE RunRace
  <2>1. UNCHANGED vars /\ Race!Next
    BY <1>3 DEF RunRace
  <2>2. /\ pc # "idle" /\ pc' \in {"wait", "cancel", "settled"}
        /\ UNCHANGED <<call, policy, interactive>>
        /\ pc' = "wait" => {"approve", "deny"} \subseteq RaceOutcomes(call, policy, interactive)
        /\ pc' # "wait" => outcome' \in RaceOutcomes(call, policy, interactive)
    BY <2>1, RaceStep
  <2> QED BY <1>0, <2>1, <2>2 DEF RaceInv
<1>4. CASE CloseRace
  <2>1. pc' = "idle"
    BY <1>4 DEF CloseRace
  <2> QED BY <1>4, <2>1, ClosedRaceIsApproval DEF RaceInv, Next
<1>5. CASE UNCHANGED <<vars, race>>
  BY <1>0, <1>5 DEF RaceInv, race
<1> QED BY <1>1, <1>2, <1>3, <1>4, <1>5 DEF GatedNext

(* The gate with the race of permission_race.py inside it, step by step,   *)
(* is the gate that takes the race for one choice: no order of its tasks   *)
(* settles on anything else, and nothing of the turn moves meanwhile.      *)
THEOREM GateIsImplemented == GatedSpec => GateImplemented
<1>1. GatedInit => Init /\ RaceInv
  BY DEF GatedInit, RaceInv
<1>2. GatedSpec => GatedInit /\ [][GatedNext]_<<vars, race>>
  BY PTL DEF GatedSpec
<1> QED BY <1>1, <1>2, GatedStep, PTL DEF Spec, GateImplemented

(* So whatever the race does, no risky call runs without consent, and what *)
(* is promised of read-only turns is kept.                                 *)
THEOREM GatedCallsAreSafe == GatedSpec => [](RiskyCallsAreConsented /\ ReadOnlyIsKept)
<1>1. GatedSpec => Spec
  BY GateIsImplemented DEF GateImplemented
<1> QED BY <1>1, ConsentBeforeExecution, ReadOnlyIsKeptAlways, PTL
=============================================================================
