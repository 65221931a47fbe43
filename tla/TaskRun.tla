------------------------------- MODULE TaskRun -------------------------------
(***************************************************************************)
(* One turn of a standalone task: the orchestrator's operations            *)
(* (orchestrator/engine.py) in the order the agent loop of runner_local.py *)
(* calls them.  The model's choices (which tools, which results, when it   *)
(* stops calling tools) are the nondeterminism; the controller's snapshot  *)
(* rt is the one of module ExecutionController.                            *)
(*                                                                         *)
(* How the loop counts, extends and abandons its rounds is module          *)
(* RoundLoop; here a turn has at most MaxRounds of them.                   *)
(***************************************************************************)
EXTENDS ExecutionController, Sequences

CONSTANTS
    MaxRounds,      \* bound: model rounds of the turn, extensions included
    MaxBatch,       \* bound: tool calls in one model round
    NumSteps,       \* bound: steps of a drafted plan
    Commands,       \* the actions that are execute_command calls
    MaxStopBlocks   \* max_stop_hook_blocks

ASSUME TurnAssumption ==
    /\ MaxRounds \in Nat \ {0} /\ MaxBatch \in Nat \ {0}
    /\ NumSteps \in Nat \ {0}  /\ MaxStopBlocks \in Nat
    /\ Commands \subseteq Actions

VARIABLES
    rt,            \* run.runtime.snapshot
    epochSpent,    \* epoch_exhausted(): the epoch's wall-clock budget is used up
    agent,         \* run.phase, which transition() also writes to the session row
    steps,         \* statuses of run.plan.steps
    readOnly,      \* turn_read_only
    pc,            \* where the loop stands
    answerFrom,    \* who asked for the answer being finalised: what "continue" resumes
    batch,         \* tool calls of this round not yet guarded
    queue,         \* _dispatch_queue: calls allowed, results not yet recorded
    round,
    toolFailed,    \* some tool result of this turn was a failure
    replans, routeRetries, stopBlocks,
    outcome,       \* the TaskOutcome returned, or "none"
    ran            \* history: executions of an action since the last useful result

vars == <<rt, epochSpent, agent, steps, readOnly, pc, answerFrom, batch, queue, round, toolFailed,
          replans, routeRetries, stopBlocks, outcome, ran>>

AgentPhases == {"understand", "plan", "execute", "observe", "repair", "validate",
                "completed", "failed"}
Statuses == {"pending", "in_progress", "completed", "failed"}
Points   == {"begin", "start", "top", "batch", "flush", "drain", "expire", "final",
             "validated", "end"}
Outcomes == {"none", "completed", "failed", "partial", "cancelled", "continue", "raised"}
Sources  == {"round", "guard", "result"}

-----------------------------------------------------------------------------
(* Plan steps.                                                             *)

Has(st, status)   == \E i \in DOMAIN st : st[i] = status
First(st, status) == CHOOSE i \in DOMAIN st :
                        st[i] = status /\ \A j \in 1 .. (i - 1) : st[j] # status

FreshPlans == UNION {[1 .. n -> {"pending"}] : n \in 0 .. NumSteps}

(* A saved plan as an earlier run leaves it: steps done or failed, at most *)
(* one cut off in the middle by a crash, the rest untouched.               *)
SavedPlans ==
    {st \in [1 .. NumSteps -> Statuses] :
        /\ \E i \in 1 .. NumSteps : st[i] # "completed"
        /\ \A i, j \in 1 .. NumSteps :
              (i < j /\ st[i] \in {"pending", "in_progress"}) => st[j] = "pending"}

(* _advance_plan_step: the active step is the one in progress, else the    *)
(* first pending one; matching useful evidence completes it and starts the *)
(* next pending one.                                                       *)
Started_Mutant(st) ==       \* does not look for a step already in progress
    IF Has(st, "pending") THEN [st EXCEPT ![First(st, "pending")] = "in_progress"] ELSE st

Started(st) ==
    IF Has(st, "in_progress") \/ ~Has(st, "pending") THEN st
    ELSE [st EXCEPT ![First(st, "pending")] = "in_progress"]

Advance(st, useful, matches) ==
    LET begun == Started(st) IN
    IF useful /\ matches /\ Has(begun, "in_progress")
      THEN LET done == [begun EXCEPT ![First(begun, "in_progress")] = "completed"] IN
           IF Has(done, "pending") THEN [done EXCEPT ![First(done, "pending")] = "in_progress"]
                                   ELSE done
      ELSE begun

Closed_Mutant_All(st, status) ==            \* closes completed steps too
    [i \in DOMAIN st |-> IF st[i] # "pending" THEN status ELSE st[i]]

\* fail() and a rejected complete() close the step in progress.
Closed(st, status) == [i \in DOMAIN st |-> IF st[i] = "in_progress" THEN status ELSE st[i]]

\* complete_delivery_steps: which steps are report steps is a matter of their wording.
Delivered(st, which) ==
    [i \in DOMAIN st |-> IF i \in which /\ st[i] \in {"pending", "in_progress"}
                           THEN "completed" ELSE st[i]]

-----------------------------------------------------------------------------
(* Orchestrator operations that several call sites share.                  *)

Fail(s, reason) ==
    /\ rt' = FailWith(s, reason)
    /\ agent' = "failed"
    /\ steps' = Closed(steps, "failed")

(* mark_repair, on the part of the turn it changes: an exhausted repair    *)
(* budget is extended once, otherwise the task fails; a switch to an       *)
(* untried provider resets the rounds.                                     *)
RepairRefused(s) == RepairSpent(s) /\ ~CanExtendRepair(s)
Repaired(s, switch) ==
    LET recorded == IF RepairSpent(s) THEN RecordRepair(ExtendRepair(RecordRepair(s)))
                                      ELSE RecordRepair(s)
    IN  IF switch THEN [recorded EXCEPT !.repair_rounds = 0] ELSE recorded

MarkRepair(turn, switch) ==
    IF RepairRefused(turn.s)
      THEN [s |-> RecordRepair(turn.s), agent |-> "failed", steps |-> Closed(turn.steps, "failed")]
      ELSE [s |-> Repaired(turn.s, switch), agent |-> "repair", steps |-> turn.steps]

Turn == [s |-> rt, agent |-> agent, steps |-> steps]
Becomes(turn) == rt' = turn.s /\ agent' = turn.agent /\ steps' = turn.steps

\* A RuntimeError of the controller leaves the loop.
Ended(result) == pc' = "end" /\ outcome' = result
Continues(point) ==
    IF rt'.raised THEN Ended("raised") ELSE pc' = point /\ UNCHANGED outcome

turnVars == <<readOnly, answerFrom>>
loopVars == <<batch, queue, round, toolFailed, ran>>
retryVars == <<replans, routeRetries, stopBlocks>>

-----------------------------------------------------------------------------
Init ==
    /\ rt = InitSnapshot
    /\ epochSpent = FALSE
    /\ agent = "understand"
    /\ steps = <<>>
    /\ readOnly \in BOOLEAN
    /\ pc = "begin" /\ answerFrom = "round"
    /\ batch = <<>> /\ queue = <<>> /\ round = 0
    /\ toolFailed = FALSE
    /\ replans = 0 /\ routeRetries = 0 /\ stopBlocks = 0
    /\ outcome = "none"
    /\ ran = [a \in Actions |-> 0]

(* begin(): a fresh template plan, or the saved plan of an interrupted     *)
(* task with every step's status; setup time is not charged to the epoch.  *)
Begin ==
    /\ pc = "begin"
    /\ steps' \in FreshPlans \cup SavedPlans
    /\ rt' = StartPlanning(rt)
    /\ agent' = IF steps' = <<>> THEN "understand" ELSE "plan"
    /\ epochSpent' = FALSE
    /\ pc' = "start"
    /\ UNCHANGED <<batch, queue, round, toolFailed, ran, readOnly, answerFrom,
                   retryVars, outcome>>

(* record_route() and start_execution(), once a provider is resolved.      *)
StartTurn ==
    /\ pc = "start"
    /\ rt' = StartExecution(rt)
    /\ agent' = "execute"
    /\ Continues("top")
    /\ UNCHANGED <<epochSpent, steps, turnVars, loopVars, retryVars>>

(* No provider could be resolved, or the one in use failed for good: in a  *)
(* round, while continuing a cut-off answer, or in the stuck-loop handler. *)
ProviderFails ==
    /\ pc \in {"start", "top", "final"}
    /\ Fail(rt, "other")
    /\ Ended("failed")
    /\ UNCHANGED <<epochSpent, turnVars, loopVars, retryVars>>

(* replace_plan(): the drafted plan before the first round (1), and one    *)
(* revision once a tool call has failed (2).  The loop goes on even when   *)
(* the budget is refused.                                                  *)
ReplacePlan ==
    /\ pc = "top"
    /\ \/ replans = 0 /\ round = 0 /\ replans' = 1
       \/ replans < 2 /\ toolFailed /\ replans' = 2
    /\ IF PlanSpent(rt) /\ ~CanExtendPlan(rt)
         THEN LET spent == RecordPlanRevision(rt) IN Fail(spent, spent.failure_reason)
         ELSE /\ rt' = IF PlanSpent(rt) THEN RecordPlanRevision(ExtendPlan(RecordPlanRevision(rt)))
                                        ELSE RecordPlanRevision(rt)
              /\ steps' \in FreshPlans \ {<<>>}
              /\ UNCHANGED agent
    /\ Continues("top")
    /\ UNCHANGED <<epochSpent, turnVars, loopVars, routeRetries, stopBlocks>>

(* A live append or clarification from another terminal becomes a step.    *)
AddFollowUp ==
    /\ pc = "top"
    /\ Len(steps) \in 1 .. NumSteps      \* bound: one follow-up step
    /\ steps' = Append(steps, "pending")
    /\ UNCHANGED <<rt, epochSpent, agent, turnVars, pc, loopVars, retryVars, outcome>>

(* A live cancel or pause from another terminal ends the turn at once.     *)
LiveCancel ==
    /\ pc = "top"
    /\ Ended("cancelled")
    /\ UNCHANGED <<rt, epochSpent, agent, steps, turnVars, loopVars, retryVars>>

(* One of the loop's recovery sites: the round is spent on a correction,   *)
(* perhaps on another provider.                                            *)
RepairRound ==
    /\ pc = "top" /\ round < MaxRounds
    /\ round' = round + 1
    /\ \E switch \in BOOLEAN : Becomes(MarkRepair(Turn, switch))
    /\ Continues("top")
    /\ UNCHANGED <<epochSpent, turnVars, batch, queue, toolFailed, ran, retryVars>>

ModelCallsTools ==
    /\ pc = "top" /\ round < MaxRounds
    /\ round' = round + 1
    /\ \E n \in 1 .. MaxBatch : batch' \in [1 .. n -> Actions]
    /\ pc' = "batch"
    /\ UNCHANGED <<rt, epochSpent, agent, steps, turnVars, queue, toolFailed, ran,
                   retryVars, outcome>>

ModelAnswers ==
    /\ pc = "top" /\ round < MaxRounds
    /\ round' = round + 1
    /\ pc' = "final" /\ answerFrom' = "round"
    /\ UNCHANGED <<rt, epochSpent, agent, steps, readOnly, batch, queue,
                   toolFailed, ran, retryVars, outcome>>

RoundsSpent ==
    /\ pc = "top" /\ round = MaxRounds
    /\ Fail(rt, "other")
    /\ Ended("failed")
    /\ UNCHANGED <<epochSpent, turnVars, loopVars, retryVars>>

-----------------------------------------------------------------------------
(* guard_tool_call: a spent epoch is renewed, or else a reached tool-call  *)
(* ceiling is extended, and the guard is asked once more.                  *)
Renews(a)  == Verdict(rt, a, epochSpent) = "time" /\ CanRenewEpoch(rt)
Extends(a) == Verdict(rt, a, epochSpent) = "tools" /\ CanExtendToolCalls(rt)

Granted(a) ==
    LET guarded == GuardAction(rt, a, epochSpent) IN
    IF Renews(a) THEN RenewEpoch(guarded) ELSE ExtendToolCalls(guarded)

GuardOutcome(a) ==
    IF Renews(a) \/ Extends(a)
      THEN [s |-> GuardAction(Granted(a), a, FALSE), verdict |-> Verdict(Granted(a), a, FALSE)]
      ELSE [s |-> GuardAction(rt, a, epochSpent), verdict |-> Verdict(rt, a, epochSpent)]

Guarded(a, verdict) ==
    /\ pc = "batch" /\ batch # <<>> /\ Head(batch) = a
    /\ GuardOutcome(a).verdict = verdict
    /\ epochSpent' = (epochSpent /\ ~Renews(a))
    /\ batch' = Tail(batch)

(* An allowed call is queued for dispatch, unless the scope guard, a hook  *)
(* or the user refuses it after all: the controller has counted it then.   *)
AllowCall(a) ==
    /\ Guarded(a, "allowed")
    /\ rt' = GuardOutcome(a).s
    /\ \/ queue' = Append(queue, a) /\ ran' = [ran EXCEPT ![a] = @ + 1]
       \/ UNCHANGED <<queue, ran>>
    /\ Continues("batch")
    /\ UNCHANGED <<agent, steps, turnVars, round, toolFailed, retryVars>>

(* "Blocked repeated action": the stuck-loop handler reminds the model, or *)
(* moves on to another route, and the loop takes the next call; or it asks *)
(* for an answer without tools.                                            *)
BlockRepeat(a) ==
    /\ Guarded(a, "repeated")
    /\ \/ /\ pc' = "batch"
          /\ agent' = agent /\ steps' = steps /\ rt' = GuardOutcome(a).s
          /\ UNCHANGED <<answerFrom, outcome>>
       \/ /\ Becomes(MarkRepair([Turn EXCEPT !.s = GuardOutcome(a).s], TRUE))
          /\ Continues("batch")
          /\ UNCHANGED answerFrom
       \/ /\ pc' = "final" /\ answerFrom' = "guard"
          /\ agent' = agent /\ steps' = steps /\ rt' = GuardOutcome(a).s
          /\ UNCHANGED outcome
    /\ UNCHANGED <<readOnly, queue, round, toolFailed, retryVars, ran>>

(* A terminal verdict: the calls already queued still run, then the turn   *)
(* ends, failed, or partial when only the epoch's time was spent.  A       *)
(* read-only turn passes over the refusal of a command and goes on.        *)
RefuseTerminal(a) ==
    /\ \E v \in {"terminal", "tools", "time"} :
          /\ Guarded(a, v)
          /\ pc' = IF readOnly /\ a \in Commands THEN "batch"
                   ELSE IF v = "time" THEN "expire" ELSE "drain"
    /\ rt' = GuardOutcome(a).s
    /\ UNCHANGED <<agent, steps, turnVars, queue, round, toolFailed, retryVars,
                   outcome, ran>>

EndDrained_Mutant ==        \* forgets the turn whose time was spent
    /\ pc = "drain" /\ queue = <<>>
    /\ Fail(rt, "other") /\ Ended("failed")
    /\ UNCHANGED <<epochSpent, turnVars, loopVars, retryVars>>

EndDrained ==
    /\ pc \in {"drain", "expire"} /\ queue = <<>>
    /\ IF pc = "expire"
         THEN Ended("partial") /\ UNCHANGED <<rt, agent, steps>>
         ELSE Fail(rt, "other") /\ Ended("failed")
    /\ UNCHANGED <<epochSpent, turnVars, loopVars, retryVars>>

(* _flush_dispatch_queue starts before a conflicting call and at the end   *)
(* of the round.                                                           *)
Flush ==
    /\ pc = "batch"
    /\ queue # <<>> \/ batch = <<>>
    /\ pc' = IF queue = <<>> THEN "top" ELSE "flush"
    /\ UNCHANGED <<rt, epochSpent, agent, steps, turnVars, loopVars, retryVars, outcome>>

(* record_tool: observe the result, advance the plan, fail the task if the *)
(* controller is terminal.  Stalled evidence goes to the stuck-loop        *)
(* handler (a reminder, another route, or the answer without tools), and a *)
(* failed result may get repair guidance.                                  *)
RecordResult(o, success, empty, matches) ==
    LET observed == Observe(rt, o, success /\ empty)
        useful   == rt.phase \notin Terminal /\ Useful(rt, o, success /\ empty)
        stalled  == rt.phase \notin Terminal /\ Stalled(rt, o, success /\ empty)
        advanced == Advance(steps, useful, matches)
        recorded == [s |-> observed, agent |-> "observe", steps |-> advanced]
        after    == IF Tail(queue) # <<>> \/ pc # "flush" THEN pc
                    ELSE IF batch # <<>> THEN "batch" ELSE "top"
    IN
    /\ pc \in {"flush", "drain", "expire"} /\ queue # <<>>
    /\ queue' = Tail(queue)
    /\ toolFailed' = (toolFailed \/ ~success)
    /\ ran' = IF useful THEN [a \in Actions |-> 0] ELSE ran
    /\ IF rt.phase \in Terminal
         THEN /\ rt' = rt /\ agent' = "failed" /\ steps' = Closed(advanced, "failed")
              /\ Ended("failed") /\ UNCHANGED answerFrom
         ELSE \/ /\ \E reroute \in (IF stalled THEN BOOLEAN ELSE {FALSE}),
                      guide \in (IF success THEN {FALSE} ELSE BOOLEAN) :
                     LET rerouted == IF reroute THEN MarkRepair(recorded, TRUE) ELSE recorded
                     IN  Becomes(IF guide THEN MarkRepair(rerouted, FALSE) ELSE rerouted)
                 /\ Continues(after) /\ UNCHANGED answerFrom
              \/ /\ stalled
                 /\ Becomes(recorded)
                 /\ Continues("final") /\ answerFrom' = "result"
    /\ UNCHANGED <<epochSpent, readOnly, batch, round, retryVars>>

-----------------------------------------------------------------------------
(* _finalize_completed_answer.                                             *)

\* Unresolved edits: the turn is returned as failed without telling the orchestrator.
UnresolvedEdit ==
    /\ pc = "final" /\ toolFailed
    /\ Ended("failed")
    /\ UNCHANGED <<rt, epochSpent, agent, steps, turnVars, loopVars, retryVars>>

Validate ==
    /\ pc = "final"
    /\ rt' = BeginValidation(rt)
    /\ agent' = "validate"
    /\ Continues("validated")
    /\ UNCHANGED <<epochSpent, steps, turnVars, loopVars, retryVars>>

(* TaskOutcome("continue"): the main loop and the guard's caller resume,   *)
(* the recorder of results returns it as the outcome of the turn.          *)
Resumes ==
    IF answerFrom = "result" THEN Ended("continue")
    ELSE Continues(IF answerFrom = "guard" THEN "batch" ELSE "top")

(* The answer claims work no tool did: once per turn, another route tries. *)
RetryOnFreshRoute ==
    /\ pc = "validated" /\ routeRetries < 1
    /\ routeRetries' = routeRetries + 1
    /\ Becomes(MarkRepair(Turn, TRUE))
    /\ Resumes
    /\ UNCHANGED <<epochSpent, turnVars, loopVars, replans, stopBlocks>>

\* Otherwise a validation error ends the turn, again without fail().
RejectAnswer ==
    /\ pc = "validated"
    /\ Ended("failed")
    /\ UNCHANGED <<rt, epochSpent, agent, steps, turnVars, loopVars, retryVars>>

StopHookBlocks ==
    /\ pc = "validated"
    /\ stopBlocks' = stopBlocks + 1
    /\ IF stopBlocks + 1 > MaxStopBlocks
         THEN Fail(rt, "other") /\ Ended("failed")
         ELSE Becomes(MarkRepair(Turn, FALSE)) /\ Resumes
    /\ UNCHANGED <<epochSpent, turnVars, loopVars, replans, routeRetries>>

(* complete(): the report's passed flag, with the evidence rule of the     *)
(* delivery policy folded into it, is the completion authority.            *)
CompleteTurn ==
    /\ pc = "validated"
    /\ \/ /\ rt' = Complete(rt)
          /\ agent' = "completed"
          /\ steps' = [i \in DOMAIN steps |-> "completed"]
          /\ Ended("completed")
       \/ /\ rt' = FailWith(BeginValidation(rt), "other")
          /\ agent' = "failed"
          /\ \E report \in SUBSET (DOMAIN steps) : steps' = Closed(Delivered(steps, report), "failed")
          /\ Ended("failed")
    /\ UNCHANGED <<epochSpent, turnVars, loopVars, retryVars>>

(* Wall-clock time: the epoch's budget can run out at any moment.          *)
EpochRunsOut ==
    /\ outcome = "none" /\ ~epochSpent
    /\ epochSpent' = TRUE
    /\ UNCHANGED <<rt, agent, steps, turnVars, pc, loopVars, retryVars, outcome>>

Loop ==
    \/ Begin \/ StartTurn \/ ProviderFails \/ ReplacePlan \/ AddFollowUp \/ LiveCancel
    \/ RepairRound \/ ModelCallsTools \/ ModelAnswers \/ RoundsSpent
    \/ \E a \in Actions : AllowCall(a) \/ BlockRepeat(a) \/ RefuseTerminal(a)
    \/ EndDrained \/ Flush
    \/ \E o \in Observations, success, empty, matches \in BOOLEAN :
          RecordResult(o, success, empty, matches)
    \/ UnresolvedEdit \/ Validate \/ RetryOnFreshRoute \/ RejectAnswer \/ StopHookBlocks
    \/ CompleteTurn

Next == Loop \/ EpochRunsOut

Spec == Init /\ [][Next]_vars

(* The loop is one coroutine that awaits providers and tools under         *)
(* timeouts: it always takes its next step.  Time needs no fairness.       *)
FairSpec == Spec /\ WF_vars(Loop)

-----------------------------------------------------------------------------
(* Properties.                                                             *)

(* Every variable keeps its type; in particular the counters respect the   *)
(* bounds of the controller's snapshot.                                    *)
TypeOK ==
    /\ rt \in Snapshot
    /\ epochSpent \in BOOLEAN
    /\ agent \in AgentPhases
    /\ steps \in Seq(Statuses)
    /\ readOnly \in BOOLEAN
    /\ pc \in Points /\ answerFrom \in Sources
    /\ batch \in Seq(Actions) /\ queue \in Seq(Actions)
    /\ round \in 0 .. MaxRounds
    /\ toolFailed \in BOOLEAN
    /\ replans \in 0 .. 2 /\ routeRetries \in 0 .. 1 /\ stopBlocks \in 0 .. MaxStopBlocks + 1
    /\ outcome \in Outcomes
    /\ ran \in [Actions -> Nat]

(* No order of guards, results, repairs, validations and extensions makes  *)
(* RuntimeSnapshot.transition raise "illegal runtime transition": results  *)
(* of a batch are recorded from execute or repair, never from validate.    *)
NoIllegalTransition == ~rt.raised

(* Calls let through never exceed the ceiling granted so far, whatever the *)
(* interleaving of renewals, extensions and batches.                       *)
ToolCallCeiling == rt.tool_calls <= ToolCeiling(rt)

(* An action is executed at most max_identical_actions times between two   *)
(* useful results, also when its calls sit together in one batch, a repair *)
(* or a provider switch comes in between, or the epoch is renewed.         *)
NoBlindRepetition == \A a \in Actions : ran[a] <= MaxIdenticalActions

(* A controller that is complete, failed or cancelled stays so: the        *)
(* extensions of one budget never bring a task back that failed for        *)
(* another reason, although the loop may go on calling the orchestrator.   *)
TerminalIsFinal == [][rt.phase \in Terminal => rt'.phase = rt.phase]_vars

(* Restored plans, follow-ups, failures and recovery never leave two steps *)
(* of the plan in progress.                                                *)
OneStepInProgress ==
    \A i, j \in DOMAIN steps :
        steps[i] = "in_progress" /\ steps[j] = "in_progress" => i = j

(* Work already done is not lost: a completed step stays completed until   *)
(* the plan is replaced as a whole.                                        *)
CompletedStepsKept ==
    [][(pc # "begin" /\ replans' = replans) =>
          \A i \in DOMAIN steps :
              steps[i] = "completed" => i \in DOMAIN steps' /\ steps'[i] = "completed"]_vars

(* A task the orchestrator has declared completed or failed, with the      *)
(* failure being the turn's outcome, has no step still in progress.        *)
EndedPlanIsClosed ==
    agent \in {"completed", "failed"} /\ pc = "end" => ~Has(steps, "in_progress")

\* The plan that a later session resumes says where the work stands.
PlanIsConsistent == OneStepInProgress /\ EndedPlanIsClosed

(* Every turn comes to an outcome.                                         *)
TurnEnds == <>(outcome # "none")
=============================================================================
