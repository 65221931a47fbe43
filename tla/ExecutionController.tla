------------------------- MODULE ExecutionController -------------------------
(***************************************************************************)
(* The deterministic controller of one task: runtime/controller.py with    *)
(* its snapshot and transition table (runtime/state.py) and its budgets    *)
(* (runtime/budgets.py).  The controller has no thread of its own: every   *)
(* method runs to completion inside a call of the orchestrator.  A method  *)
(* is therefore an operator from a snapshot to the snapshot it leaves, and *)
(* module TaskRun turns the orchestrator's calls into actions.             *)
(*                                                                         *)
(* Wall-clock time is one bit, handed to GuardAction by the caller: has    *)
(* the current epoch used up max_runtime_seconds?                          *)
(***************************************************************************)
EXTENDS Integers

CONSTANTS
    Actions,                   \* action fingerprints (evidence.py)
    Observations,              \* observation fingerprints (evidence.py)
    MaxToolCalls, MaxToolCallExtensions,
    MaxIdenticalActions,
    MaxConsecutiveEmpty,
    MaxPlanRevisions, MaxPlanRevisionExtensions,
    MaxRepairRounds, MaxRepairExtensions,
    MaxRuntimeExtensions

\* RuntimeBudgets.__post_init__ refuses a budget below 1.
ASSUME BudgetsAssumption ==
    /\ MaxToolCalls \in Nat \ {0}     /\ MaxToolCallExtensions \in Nat \ {0}
    /\ MaxIdenticalActions \in Nat \ {0}
    /\ MaxConsecutiveEmpty \in Nat \ {0}
    /\ MaxPlanRevisions \in Nat \ {0} /\ MaxPlanRevisionExtensions \in Nat \ {0}
    /\ MaxRepairRounds \in Nat \ {0}  /\ MaxRepairExtensions \in Nat \ {0}
    /\ MaxRuntimeExtensions \in Nat \ {0}

-----------------------------------------------------------------------------
(* Phases and the legal transitions between them.                          *)

Phases == {"discover", "plan", "execute", "observe", "validate", "repair",
           "complete", "failed", "cancelled"}

Terminal == {"complete", "failed", "cancelled"}

Allowed ==
    [p \in Phases |->
        CASE p = "discover" -> {"plan", "execute", "failed", "cancelled"}
          [] p = "plan"     -> {"execute", "failed", "cancelled"}
          [] p = "execute"  -> {"observe", "validate", "repair", "failed", "cancelled"}
          [] p = "observe"  -> {"execute", "validate", "repair", "failed", "cancelled"}
          [] p = "validate" -> {"complete", "repair", "failed", "cancelled"}
          [] p = "repair"   -> {"execute", "validate", "failed", "cancelled"}
          [] OTHER          -> {}]

(* failure_reason, reduced to what the code matches on with startswith.    *)
Reasons == {"none", "time", "tools", "repair", "plan", "other"}

(* A counter the code only compares with a limit stops one above it: the   *)
(* bound of this abstraction, which no comparison can see.                 *)
Bump(n, limit) == IF n <= limit THEN n + 1 ELSE n

Snapshot ==
    [phase                    : Phases,
     tool_calls               : Nat,
     consecutive_empty        : 0 .. MaxConsecutiveEmpty + 1,
     plan_revisions           : 0 .. MaxPlanRevisions + 1,
     repair_rounds            : 0 .. MaxRepairRounds + 1,
     runtime_extensions       : 0 .. MaxRuntimeExtensions,
     repair_extensions        : 0 .. MaxRepairExtensions,
     tool_call_extensions     : 0 .. MaxToolCallExtensions,
     plan_revision_extensions : 0 .. MaxPlanRevisionExtensions,
     failure_reason           : Reasons,
     action_counts            : [Actions -> 0 .. MaxIdenticalActions + 1],
     observed                 : SUBSET Observations,
     renewal_requested        : BOOLEAN,
     raised                   : BOOLEAN]

InitSnapshot ==
    [phase |-> "discover", tool_calls |-> 0, consecutive_empty |-> 0,
     plan_revisions |-> 0, repair_rounds |-> 0, runtime_extensions |-> 0,
     repair_extensions |-> 0, tool_call_extensions |-> 0,
     plan_revision_extensions |-> 0, failure_reason |-> "none",
     action_counts |-> [a \in Actions |-> 0], observed |-> {},
     renewal_requested |-> FALSE, raised |-> FALSE]

(* RuntimeSnapshot.transition: a self-transition is a no-op, an illegal    *)
(* one raises RuntimeError.                                                *)
Goto(s, target) ==
    IF target = s.phase THEN s
    ELSE IF target \in Allowed[s.phase] THEN [s EXCEPT !.phase = target]
    ELSE [s EXCEPT !.raised = TRUE]

GotoFrom(s, sources, target) == IF s.phase \in sources THEN Goto(s, target) ELSE s

(* _fail: exhausted time alone never fails a task, and the first reason of *)
(* a failure is kept.                                                      *)
FailWith(s, reason) ==
    IF reason = "time" THEN [s EXCEPT !.renewal_requested = TRUE]
    ELSE IF s.phase \in Terminal THEN s
    ELSE Goto([s EXCEPT !.failure_reason = reason], "failed")

(* The extension methods take back a failure that was set purely by the    *)
(* budget they extend.                                                     *)
Revive(s, reason) ==
    IF s.phase = "failed" /\ s.failure_reason = reason
      THEN [s EXCEPT !.phase = "execute", !.failure_reason = "none"]
      ELSE s

StartPlanning(s)   == GotoFrom(s, {"discover"}, "plan")
StartExecution(s)  == GotoFrom(s, {"discover", "plan", "observe", "repair"}, "execute")
BeginValidation(s) == GotoFrom(s, {"execute", "observe", "repair"}, "validate")
Complete(s)        == GotoFrom(BeginValidation(s), {"validate"}, "complete")

-----------------------------------------------------------------------------
(* guard_action: the checks, in their order, and what each leaves behind.  *)

ToolCeiling(s) == MaxToolCalls * (1 + s.tool_call_extensions)

Verdict_Mutant(s, a, expired) ==   \* the ceiling checked one call too late
    IF expired THEN "time"
    ELSE IF s.phase \in Terminal THEN "terminal"
    ELSE IF s.tool_calls > ToolCeiling(s) THEN "tools"
    ELSE IF s.action_counts[a] + 1 > MaxIdenticalActions THEN "repeated"
    ELSE "allowed"

Verdict(s, a, expired) ==
    IF expired THEN "time"
    ELSE IF s.phase \in Terminal THEN "terminal"
    ELSE IF s.tool_calls >= ToolCeiling(s) THEN "tools"
    ELSE IF s.action_counts[a] + 1 > MaxIdenticalActions THEN "repeated"
    ELSE "allowed"

\* Both a blocked and an allowed attempt are counted.
Counted(s, a) == [s EXCEPT !.action_counts[a] = Bump(@, MaxIdenticalActions)]

GuardAction(s, a, expired) ==
    LET v == Verdict(s, a, expired) IN
    IF v = "time" THEN [s EXCEPT !.renewal_requested = TRUE]
    ELSE IF v = "terminal" THEN s
    ELSE IF v = "tools" THEN FailWith(s, "tools")
    ELSE IF v = "repeated" THEN Counted(s, a)
    ELSE StartExecution([Counted(s, a) EXCEPT !.tool_calls = @ + 1])

(* observe: a result is useful when it is not empty and its fingerprint is *)
(* new; a useful result clears the repetition window of every action.      *)
Useful(s, o, empty) == ~empty /\ o \notin s.observed

Stalled(s, o, empty) ==
    ~Useful(s, o, empty) /\ s.consecutive_empty + 1 >= MaxConsecutiveEmpty

Observe(s, o, empty) ==
    IF s.phase \in Terminal THEN s
    ELSE LET seen == [GotoFrom(s, {"execute"}, "observe")
                         EXCEPT !.observed = @ \union {o}]
         IN  Goto(IF Useful(s, o, empty)
                    THEN [seen EXCEPT !.consecutive_empty = 0,
                                      !.action_counts = [a \in Actions |-> 0]]
                    ELSE [seen EXCEPT !.consecutive_empty = Bump(@, MaxConsecutiveEmpty)],
                  "execute")

-----------------------------------------------------------------------------
(* The budgets that the orchestrator may extend.                           *)

RenewEpoch_Mutant(s) ==       \* a new epoch forgets what was repeated
    Revive([s EXCEPT !.runtime_extensions = @ + 1, !.renewal_requested = FALSE,
                     !.action_counts = [a \in Actions |-> 0]], "time")

CanRenewEpoch(s) == s.runtime_extensions < MaxRuntimeExtensions
RenewEpoch(s) ==
    Revive([s EXCEPT !.runtime_extensions = @ + 1, !.renewal_requested = FALSE], "time")

CanExtendToolCalls(s) == s.tool_call_extensions < MaxToolCallExtensions
ExtendToolCalls(s) == Revive([s EXCEPT !.tool_call_extensions = @ + 1], "tools")

CanExtendRepair(s) == s.repair_extensions < MaxRepairExtensions
ExtendRepair(s) ==
    Revive([s EXCEPT !.repair_extensions = @ + 1, !.repair_rounds = 0], "repair")

CanExtendPlan(s) == s.plan_revision_extensions < MaxPlanRevisionExtensions
ExtendPlan(s) ==
    Revive([s EXCEPT !.plan_revision_extensions = @ + 1, !.plan_revisions = 0], "plan")

RepairSpent(s) == s.repair_rounds + 1 > MaxRepairRounds
RecordRepair_Mutant(s) ==     \* a rejected answer does not leave validation
    LET counted == [s EXCEPT !.repair_rounds = Bump(@, MaxRepairRounds)] IN
    IF RepairSpent(s) THEN FailWith(counted, "repair")
    ELSE GotoFrom(counted, {"execute", "observe"}, "repair")

RecordRepair(s) ==
    LET counted == [s EXCEPT !.repair_rounds = Bump(@, MaxRepairRounds)] IN
    IF RepairSpent(s) THEN FailWith(counted, "repair")
    ELSE GotoFrom(counted, {"execute", "observe", "validate"}, "repair")

PlanSpent(s) == s.plan_revisions + 1 > MaxPlanRevisions
RecordPlanRevision(s) ==
    LET counted == [s EXCEPT !.plan_revisions = Bump(@, MaxPlanRevisions)] IN
    IF PlanSpent(s) THEN FailWith(counted, "plan") ELSE counted
=============================================================================
