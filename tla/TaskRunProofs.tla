---------------------------- MODULE TaskRunProofs ----------------------------
(***************************************************************************)
(* Theorems about module TaskRun, for every value of its constants: types, *)
(* budgets, the plan, and that a turn takes finitely many steps.           *)
(***************************************************************************)
EXTENDS TaskRun, SequenceTheorems, WellFoundedInduction, TLAPS

LEMMA AllowedRows ==
    /\ Allowed["discover"] = {"plan", "execute", "failed", "cancelled"}
    /\ Allowed["plan"] = {"execute", "failed", "cancelled"}
    /\ Allowed["execute"] = {"observe", "validate", "repair", "failed", "cancelled"}
    /\ Allowed["observe"] = {"execute", "validate", "repair", "failed", "cancelled"}
    /\ Allowed["validate"] = {"complete", "repair", "failed", "cancelled"}
    /\ Allowed["repair"] = {"execute", "validate", "failed", "cancelled"}
    /\ \A p \in Terminal : Allowed[p] = {}
BY DEF Allowed, Phases, Terminal

(* Goto from a phase that allows the target changes only the phase.        *)
LEMMA GotoLegal ==
    ASSUME NEW s \in Snapshot, NEW p \in Phases, p = s.phase \/ p \in Allowed[s.phase]
    PROVE  Goto(s, p) = [s EXCEPT !.phase = p] /\ Goto(s, p) \in Snapshot
BY DEF Goto, Snapshot

LEMMA CeilingType == ASSUME NEW s \in Snapshot PROVE ToolCeiling(s) \in Nat
<1>1. MaxToolCalls \in Nat /\ 1 + s.tool_call_extensions \in Nat
  BY BudgetsAssumption DEF Snapshot
<1> QED BY <1>1 DEF ToolCeiling

LEMMA CountedType ==
    ASSUME NEW s \in Snapshot, NEW a \in Actions
    PROVE  Counted(s, a) \in Snapshot
BY BudgetsAssumption DEF Counted, Snapshot, Bump

BudgetFailuresFinal(s) ==
    /\ s.failure_reason # "time"
    /\ s.failure_reason = "repair" => s.repair_extensions = MaxRepairExtensions
    /\ s.failure_reason = "plan" => s.plan_revision_extensions = MaxPlanRevisionExtensions

Sound(s) ==
    /\ s \in Snapshot
    /\ s.tool_calls <= ToolCeiling(s)
    /\ ~s.raised
    /\ BudgetFailuresFinal(s)

(* t may follow s: terminal phases are kept, and validation is not entered *)
Follows(s, t) ==
    /\ s.phase \in Terminal => t.phase = s.phase
    /\ t.phase = "validate" => s.phase = "validate"

LEMMA StartExecutionSound ==
    ASSUME NEW s, Sound(s)
    PROVE  Sound(StartExecution(s)) /\ Follows(s, StartExecution(s)) /\ StartExecution(s).action_counts = s.action_counts
<1>1. CASE s.phase \in {"discover", "plan", "observe", "repair"}
  <2>1. StartExecution(s) = [s EXCEPT !.phase = "execute"]
    BY <1>1, AllowedRows DEF StartExecution, GotoFrom, Goto, Sound, Snapshot
  <2> QED BY <1>1, <2>1 DEF Sound, Follows, Snapshot, BudgetFailuresFinal, ToolCeiling, Phases, Terminal
<1>2. CASE s.phase \notin {"discover", "plan", "observe", "repair"}
  BY <1>2 DEF StartExecution, GotoFrom, Follows
<1> QED BY <1>1, <1>2

LEMMA FailSound ==
    ASSUME NEW s, Sound(s), NEW r \in {"tools", "other"}
    PROVE  /\ Sound(FailWith(s, r)) /\ Follows(s, FailWith(s, r))
           /\ FailWith(s, r).action_counts = s.action_counts
<1>1. CASE s.phase \in Terminal
  BY <1>1 DEF FailWith, Follows
<1>2. CASE s.phase \notin Terminal
  <2>1. "failed" \in Allowed[s.phase] /\ s.phase # "failed"
    BY <1>2, AllowedRows DEF Sound, Snapshot, Phases, Terminal
  <2>2. FailWith(s, r) = [s EXCEPT !.failure_reason = r, !.phase = "failed"]
    BY <1>2, <2>1 DEF FailWith, Goto, Sound, Snapshot
  <2> QED BY <1>2, <2>2 DEF Sound, Follows, Snapshot, BudgetFailuresFinal, ToolCeiling, Phases, Reasons
<1> QED BY <1>1, <1>2

LEMMA GuardActionSound ==
    ASSUME NEW s, Sound(s), NEW a \in Actions, NEW e \in BOOLEAN
    PROVE  Sound(GuardAction(s, a, e)) /\ Follows(s, GuardAction(s, a, e))
<1>1. CASE Verdict(s, a, e) = "time"
  BY <1>1 DEF GuardAction, Sound, Follows, Snapshot, BudgetFailuresFinal, ToolCeiling
<1>2. CASE Verdict(s, a, e) = "terminal"
  BY <1>2 DEF GuardAction, Follows
<1>3. CASE Verdict(s, a, e) = "repeated"
  <2>1. GuardAction(s, a, e) = Counted(s, a) BY <1>3 DEF GuardAction
  <2>2. Counted(s, a) \in Snapshot BY CountedType DEF Sound
  <2> QED BY <2>1, <2>2 DEF Counted, Sound, Follows, Snapshot, BudgetFailuresFinal, ToolCeiling
<1>4. CASE Verdict(s, a, e) = "allowed"
  <2> DEFINE c == [Counted(s, a) EXCEPT !.tool_calls = @ + 1]
  <2>1. Counted(s, a) \in Snapshot BY CountedType DEF Sound
  <2>2. s.tool_calls < ToolCeiling(s)
    <3>1. s.tool_calls \in Nat /\ ToolCeiling(s) \in Nat BY CeilingType DEF Sound, Snapshot
    <3>2. ~(s.tool_calls >= ToolCeiling(s)) BY <1>4 DEF Verdict
    <3> QED BY <3>1, <3>2
  <2>3. Sound(c) /\ Follows(s, c)
    <3>1. c \in Snapshot BY <2>1 DEF Snapshot
    <3>2. /\ c.tool_calls = s.tool_calls + 1
          /\ ToolCeiling(c) = ToolCeiling(s)
          /\ s.tool_calls \in Nat /\ ToolCeiling(s) \in Nat
      BY CeilingType DEF Counted, Sound, Snapshot, ToolCeiling
    <3>3. BudgetFailuresFinal(c) /\ ~c.raised /\ c.phase = s.phase
      BY DEF Counted, Sound, Snapshot, BudgetFailuresFinal
    <3> QED BY <2>2, <3>1, <3>2, <3>3 DEF Sound, Follows
  <2>4. GuardAction(s, a, e) = StartExecution(c) BY <1>4 DEF GuardAction
  <2>5. Sound(StartExecution(c)) /\ Follows(c, StartExecution(c)) BY <2>3, StartExecutionSound
  <2> QED BY <2>3, <2>4, <2>5 DEF Follows
<1>5. CASE Verdict(s, a, e) = "tools"
  BY <1>5, FailSound DEF GuardAction
<1> QED BY <1>1, <1>2, <1>3, <1>4, <1>5 DEF Verdict

LEMMA EvidenceType ==
    ASSUME NEW s \in Snapshot
    PROVE  /\ [s EXCEPT !.consecutive_empty = Bump(@, MaxConsecutiveEmpty)] \in Snapshot
           /\ [s EXCEPT !.consecutive_empty = 0, !.action_counts = [a \in Actions |-> 0]] \in Snapshot
<1>1. Bump(s.consecutive_empty, MaxConsecutiveEmpty) \in 0 .. MaxConsecutiveEmpty + 1
  BY BudgetsAssumption DEF Snapshot, Bump
<1>2. [a \in Actions |-> 0] \in [Actions -> 0 .. MaxIdenticalActions + 1]
  BY BudgetsAssumption
<1>3. 0 \in 0 .. MaxConsecutiveEmpty + 1
  BY BudgetsAssumption
<1> QED BY <1>1, <1>2, <1>3 DEF Snapshot

LEMMA ObserveSound ==
    ASSUME NEW s, Sound(s), s.phase # "validate", NEW o \in Observations, NEW empty \in BOOLEAN
    PROVE  Sound(Observe(s, o, empty)) /\ Follows(s, Observe(s, o, empty))
<1>1. CASE s.phase \in Terminal
  BY <1>1 DEF Observe, Follows
<1>2. CASE s.phase \notin Terminal
  <2> DEFINE g == GotoFrom(s, {"execute"}, "observe")
             seen == [g EXCEPT !.observed = @ \union {o}]
             useful == [seen EXCEPT !.consecutive_empty = 0,
                                    !.action_counts = [a \in Actions |-> 0]]
             stale == [seen EXCEPT !.consecutive_empty = Bump(@, MaxConsecutiveEmpty)]
             p == g.phase
  <2>1. g = [s EXCEPT !.phase = p] /\ p \in {"discover", "plan", "observe", "repair"}
    BY <1>2, AllowedRows DEF GotoFrom, Goto, Sound, Snapshot, Phases, Terminal
  <2>2. seen \in Snapshot
    BY <2>1 DEF Sound, Snapshot, Phases
  <2>3. useful \in Snapshot
    BY <2>2, EvidenceType
  <2>4. stale \in Snapshot
    BY <2>2, EvidenceType
  <2>5. "execute" \in Allowed[p] /\ p # "execute"
    BY <2>1, AllowedRows
  <2>6. /\ useful.phase = p /\ stale.phase = p
        /\ useful.tool_calls = s.tool_calls /\ stale.tool_calls = s.tool_calls
        /\ ToolCeiling(useful) = ToolCeiling(s) /\ ToolCeiling(stale) = ToolCeiling(s)
        /\ ~useful.raised /\ ~stale.raised
        /\ BudgetFailuresFinal(useful) /\ BudgetFailuresFinal(stale)
    BY <2>1 DEF Sound, Snapshot, BudgetFailuresFinal, ToolCeiling
  <2>7. Observe(s, o, empty) = [useful EXCEPT !.phase = "execute"] \/ Observe(s, o, empty) = [stale EXCEPT !.phase = "execute"]
    BY <1>2, <2>5, <2>6 DEF Observe, Goto
  <2>8. Sound(useful) /\ Sound(stale) BY <2>3, <2>4, <2>6 DEF Sound
  <2>9. \A t : Sound(t) => Sound([t EXCEPT !.phase = "execute"])
    BY DEF Sound, Snapshot, BudgetFailuresFinal, ToolCeiling, Phases
  <2>10. [useful EXCEPT !.phase = "execute"].phase = "execute" /\ [stale EXCEPT !.phase = "execute"].phase = "execute"
    BY <2>3, <2>4 DEF Snapshot
  <2> HIDE DEF useful, stale
  <2> QED BY <1>2, <2>7, <2>8, <2>9, <2>10 DEF Follows
<1> QED BY <1>1, <1>2

LEMMA ObserveCounts ==
    ASSUME NEW s, Sound(s), NEW o \in Observations, NEW empty \in BOOLEAN
    PROVE  \/ /\ s.phase \notin Terminal /\ Useful(s, o, empty)
           \/ Observe(s, o, empty).action_counts = s.action_counts
<1>1. CASE s.phase \in Terminal
  BY <1>1 DEF Observe
<1>2. CASE s.phase \notin Terminal /\ ~Useful(s, o, empty)
  <2>1. \A t \in Snapshot, p \in Phases : Goto(t, p) \in Snapshot /\ Goto(t, p).action_counts = t.action_counts
    BY DEF Goto, Snapshot
  <2> DEFINE g == GotoFrom(s, {"execute"}, "observe")
             stale == [[g EXCEPT !.observed = @ \union {o}]
                          EXCEPT !.consecutive_empty = Bump(@, MaxConsecutiveEmpty)]
  <2>2. g \in Snapshot /\ g.action_counts = s.action_counts
    BY <2>1 DEF GotoFrom, Sound, Phases
  <2>3. [g EXCEPT !.observed = @ \union {o}] \in Snapshot BY <2>2 DEF Snapshot
  <2>4. stale \in Snapshot BY <2>3, EvidenceType
  <2>5. stale.action_counts = s.action_counts BY <2>2 DEF Snapshot
  <2>6. Observe(s, o, empty) = Goto(stale, "execute") BY <1>2 DEF Observe
  <2> HIDE DEF stale
  <2> QED BY <2>1, <2>4, <2>5, <2>6 DEF Phases
<1> QED BY <1>1, <1>2

LEMMA BeginValidationSound ==
    ASSUME NEW s, Sound(s)
    PROVE  /\ Sound(BeginValidation(s))
           /\ s.phase \in Terminal => BeginValidation(s).phase = s.phase
           /\ BeginValidation(s).action_counts = s.action_counts
<1>1. CASE s.phase \in {"execute", "observe", "repair"}
  <2>1. BeginValidation(s) = [s EXCEPT !.phase = "validate"]
    BY <1>1, AllowedRows DEF BeginValidation, GotoFrom, Goto, Sound, Snapshot
  <2> QED BY <1>1, <2>1 DEF Sound, Snapshot, BudgetFailuresFinal, ToolCeiling, Phases, Terminal
<1>2. CASE s.phase \notin {"execute", "observe", "repair"}
  BY <1>2 DEF BeginValidation, GotoFrom
<1> QED BY <1>1, <1>2

LEMMA CompleteSound ==
    ASSUME NEW s, Sound(s)
    PROVE  /\ Sound(Complete(s))
           /\ s.phase \in Terminal => Complete(s).phase = s.phase
           /\ Complete(s).phase # "validate"
           /\ Complete(s).action_counts = s.action_counts
<1> DEFINE v == BeginValidation(s)
<1>1. /\ Sound(v) /\ v.action_counts = s.action_counts
      /\ s.phase \in Terminal => v.phase = s.phase
  BY BeginValidationSound
<1>2. Complete(s) = GotoFrom(v, {"validate"}, "complete") BY DEF Complete
<1> HIDE DEF v
<1>3. CASE v.phase = "validate"
  <2>1. Complete(s) = [v EXCEPT !.phase = "complete"]
    BY <1>1, <1>2, <1>3, AllowedRows DEF GotoFrom, Goto, Sound, Snapshot
  <2> QED BY <1>1, <1>3, <2>1 DEF Sound, Snapshot, BudgetFailuresFinal, ToolCeiling, Phases, Terminal
<1>4. CASE v.phase # "validate"
  BY <1>1, <1>2, <1>4 DEF GotoFrom
<1> QED BY <1>3, <1>4

LEMMA RenewEpochSound ==
    ASSUME NEW s, Sound(s), CanRenewEpoch(s)
    PROVE  /\ Sound(RenewEpoch(s)) /\ Follows(s, RenewEpoch(s))
           /\ RenewEpoch(s).action_counts = s.action_counts
<1> DEFINE t == [s EXCEPT !.runtime_extensions = @ + 1, !.renewal_requested = FALSE]
<1>1. RenewEpoch(s) = t
  BY DEF RenewEpoch, Revive, Sound, Snapshot, BudgetFailuresFinal
<1>2. s.runtime_extensions + 1 \in 0 .. MaxRuntimeExtensions
  BY BudgetsAssumption DEF CanRenewEpoch, Sound, Snapshot
<1> QED BY <1>1, <1>2 DEF Sound, Follows, Snapshot, BudgetFailuresFinal, ToolCeiling

(* A larger ceiling still bounds the calls that the smaller one did.       *)
LEMMA CeilingGrows ==
    ASSUME NEW s \in Snapshot, s.tool_calls <= ToolCeiling(s)
    PROVE  s.tool_calls <= MaxToolCalls * (1 + (s.tool_call_extensions + 1))
<1> DEFINE e == s.tool_call_extensions
<1>1. s.tool_calls \in Nat /\ e \in Nat /\ MaxToolCalls \in Nat
  BY BudgetsAssumption DEF Snapshot
<1>2. MaxToolCalls * (1 + (e + 1)) = MaxToolCalls * (1 + e) + MaxToolCalls
  BY <1>1
<1>3. MaxToolCalls * (1 + e) \in Nat BY <1>1
<1>4. s.tool_calls <= MaxToolCalls * (1 + e) BY DEF ToolCeiling
<1> HIDE DEF e
<1>5. s.tool_calls <= MaxToolCalls * (1 + (e + 1)) BY <1>1, <1>2, <1>3, <1>4
<1> QED BY <1>5 DEF e

LEMMA ExtendToolCallsSound ==
    ASSUME NEW s, Sound(s), CanExtendToolCalls(s), s.phase = "failed", s.failure_reason = "tools"
    PROVE  /\ Sound(ExtendToolCalls(s)) /\ ExtendToolCalls(s).phase = "execute"
           /\ ExtendToolCalls(s).action_counts = s.action_counts
<1>1. ExtendToolCalls(s) = [s EXCEPT !.tool_call_extensions = @ + 1, !.phase = "execute", !.failure_reason = "none"]
  BY DEF ExtendToolCalls, Revive, Sound, Snapshot
<1>2. s.tool_call_extensions + 1 \in 0 .. MaxToolCallExtensions
  BY BudgetsAssumption DEF CanExtendToolCalls, Sound, Snapshot
<1>3. s.tool_calls <= MaxToolCalls * (1 + (s.tool_call_extensions + 1))
  BY CeilingGrows DEF Sound
<1> QED BY <1>1, <1>2, <1>3 DEF Sound, Snapshot, BudgetFailuresFinal, ToolCeiling, Phases, Reasons

(* A recorded repair within the budget: the phase leaves validation.       *)
LEMMA RepairWithinBudget ==
    ASSUME NEW s, Sound(s), ~RepairSpent(s)
    PROVE  /\ Sound(RecordRepair(s)) /\ RecordRepair(s).phase # "validate"
           /\ s.phase \in Terminal => RecordRepair(s).phase = s.phase
           /\ RecordRepair(s).action_counts = s.action_counts
<1> DEFINE c == [s EXCEPT !.repair_rounds = Bump(@, MaxRepairRounds)]
<1>1. Bump(s.repair_rounds, MaxRepairRounds) \in 0 .. MaxRepairRounds + 1
  BY BudgetsAssumption DEF Bump, Sound, Snapshot
<1>2. /\ Sound(c) /\ c.phase = s.phase /\ c.action_counts = s.action_counts
  BY <1>1 DEF Sound, Snapshot, BudgetFailuresFinal, ToolCeiling
<1>3. RecordRepair(s) = GotoFrom(c, {"execute", "observe", "validate"}, "repair")
  BY DEF RecordRepair
<1> HIDE DEF c
<1>4. CASE c.phase \in {"execute", "observe", "validate"}
  <2>1. RecordRepair(s) = [c EXCEPT !.phase = "repair"]
    BY <1>2, <1>3, <1>4, AllowedRows DEF GotoFrom, Goto, Sound, Snapshot
  <2> QED BY <1>2, <1>4, <2>1 DEF Sound, Snapshot, BudgetFailuresFinal, ToolCeiling, Phases, Terminal
<1>5. CASE c.phase \notin {"execute", "observe", "validate"}
  BY <1>2, <1>3, <1>5 DEF GotoFrom
<1> QED BY <1>4, <1>5

(* A repair whose budget is spent fails the task, if it has not ended yet. *)
LEMMA RepairBeyondBudget ==
    ASSUME NEW s, Sound(s), RepairSpent(s)
    PROVE  LET t == RecordRepair(s) IN
           /\ t \in Snapshot /\ t.phase \in Terminal
           /\ s.phase \in Terminal => t.phase = s.phase /\ t.failure_reason = s.failure_reason
           /\ s.phase \notin Terminal => t.phase = "failed" /\ t.failure_reason = "repair"
           /\ t.tool_calls = s.tool_calls /\ t.tool_call_extensions = s.tool_call_extensions
           /\ t.repair_extensions = s.repair_extensions
           /\ t.plan_revision_extensions = s.plan_revision_extensions
           /\ ~t.raised /\ t.action_counts = s.action_counts
<1> DEFINE c == [s EXCEPT !.repair_rounds = Bump(@, MaxRepairRounds)]
<1>1. Bump(s.repair_rounds, MaxRepairRounds) \in 0 .. MaxRepairRounds + 1
  BY BudgetsAssumption DEF Bump, Sound, Snapshot
<1>2. /\ c \in Snapshot /\ c.phase = s.phase /\ c.failure_reason = s.failure_reason
      /\ c.tool_calls = s.tool_calls /\ c.tool_call_extensions = s.tool_call_extensions
      /\ c.repair_extensions = s.repair_extensions
      /\ c.plan_revision_extensions = s.plan_revision_extensions
      /\ ~c.raised /\ c.action_counts = s.action_counts
  BY <1>1 DEF Sound, Snapshot
<1>3. RecordRepair(s) = FailWith(c, "repair")
  BY DEF RecordRepair
<1> HIDE DEF c
<1>4. CASE c.phase \in Terminal
  BY <1>2, <1>3, <1>4 DEF FailWith
<1>5. CASE c.phase \notin Terminal
  <2>1. "failed" \in Allowed[c.phase] /\ c.phase # "failed"
    BY <1>2, <1>5, AllowedRows DEF Snapshot, Phases, Terminal
  <2>2. RecordRepair(s) = [c EXCEPT !.failure_reason = "repair", !.phase = "failed"]
    BY <1>2, <1>3, <1>5, <2>1 DEF FailWith, Goto, Snapshot
  <2> QED BY <1>2, <1>5, <2>2 DEF Snapshot, Phases, Reasons, Terminal
<1> QED BY <1>4, <1>5

LEMMA NewRepairWindow ==
    ASSUME NEW r \in Snapshot, NEW n \in 0 .. MaxRepairExtensions
    PROVE  [r EXCEPT !.repair_extensions = n, !.repair_rounds = 0] \in Snapshot
<1>1. 0 \in 0 .. MaxRepairRounds + 1 BY BudgetsAssumption
<1> QED BY <1>1 DEF Snapshot

LEMMA NewPlanWindow ==
    ASSUME NEW r \in Snapshot, NEW n \in 0 .. MaxPlanRevisionExtensions
    PROVE  [r EXCEPT !.plan_revision_extensions = n, !.plan_revisions = 0] \in Snapshot
<1>1. 0 \in 0 .. MaxPlanRevisions + 1 BY BudgetsAssumption
<1> QED BY <1>1 DEF Snapshot

LEMMA RevivedType ==
    ASSUME NEW r \in Snapshot
    PROVE  [r EXCEPT !.phase = "execute", !.failure_reason = "none"] \in Snapshot
BY DEF Snapshot, Phases, Reasons

LEMMA RepairExtended ==
    ASSUME NEW s, Sound(s), RepairSpent(s), CanExtendRepair(s)
    PROVE  LET t == ExtendRepair(RecordRepair(s)) IN
           /\ Sound(t) /\ ~RepairSpent(t) /\ t.phase # "validate"
           /\ s.phase \in Terminal => t.phase = s.phase
           /\ t.action_counts = s.action_counts
<1> DEFINE r == RecordRepair(s)
           e == [r EXCEPT !.repair_extensions = @ + 1, !.repair_rounds = 0]
           t == ExtendRepair(r)
<1>1. /\ r \in Snapshot /\ r.phase \in Terminal
      /\ s.phase \in Terminal => r.phase = s.phase /\ r.failure_reason = s.failure_reason
      /\ s.phase \notin Terminal => r.phase = "failed" /\ r.failure_reason = "repair"
      /\ r.tool_calls = s.tool_calls /\ r.tool_call_extensions = s.tool_call_extensions
      /\ r.repair_extensions = s.repair_extensions
      /\ r.plan_revision_extensions = s.plan_revision_extensions
      /\ ~r.raised /\ r.action_counts = s.action_counts
  BY RepairBeyondBudget
<1>2. /\ r.repair_extensions + 1 \in 0 .. MaxRepairExtensions
      /\ s.failure_reason # "repair"
  BY <1>1, BudgetsAssumption DEF CanExtendRepair, Sound, Snapshot, BudgetFailuresFinal
<1> HIDE DEF r
<1>3. /\ e \in Snapshot /\ e.phase = r.phase /\ e.failure_reason = r.failure_reason
      /\ e.tool_calls = r.tool_calls /\ e.tool_call_extensions = r.tool_call_extensions
      /\ e.plan_revision_extensions = r.plan_revision_extensions
      /\ ~e.raised /\ e.action_counts = r.action_counts /\ e.repair_rounds = 0
  <2>1. e \in Snapshot BY <1>1, <1>2, NewRepairWindow
  <2> QED BY <1>1, <2>1 DEF Snapshot
<1>4. t = Revive(e, "repair") BY DEF ExtendRepair
<1> HIDE DEF e, t
<1>5. CASE s.phase \in Terminal
  <2>1. t = e BY <1>1, <1>2, <1>3, <1>4, <1>5 DEF Revive
  <2> QED
    BY <1>1, <1>2, <1>3, <1>5, <2>1, BudgetsAssumption
       DEF Sound, BudgetFailuresFinal, ToolCeiling, RepairSpent, Terminal, t, r
<1>6. CASE s.phase \notin Terminal
  <2>1. t = [e EXCEPT !.phase = "execute", !.failure_reason = "none"]
    BY <1>1, <1>3, <1>4, <1>6 DEF Revive
  <2>2. t \in Snapshot /\ t.failure_reason = "none" /\ t.phase = "execute" /\ t.repair_rounds = 0 /\ t.action_counts = s.action_counts
        /\ t.tool_calls = s.tool_calls /\ t.tool_call_extensions = s.tool_call_extensions /\ ~t.raised
    <3>1. t \in Snapshot BY <1>3, <2>1, RevivedType
    <3>2. /\ t.failure_reason = "none" /\ t.phase = "execute" /\ t.repair_rounds = e.repair_rounds
          /\ t.action_counts = e.action_counts /\ t.tool_calls = e.tool_calls
          /\ t.tool_call_extensions = e.tool_call_extensions /\ t.raised = e.raised
      BY <1>3, <2>1 DEF Snapshot
    <3> QED BY <1>1, <1>3, <3>1, <3>2
  <2> QED
    BY <1>6, <2>2, BudgetsAssumption DEF Sound, BudgetFailuresFinal, ToolCeiling, RepairSpent, t, r
<1> QED BY <1>5, <1>6

LEMMA MarkRepairSound ==
    ASSUME NEW turn, Sound(turn.s), NEW switch \in BOOLEAN
    PROVE  LET t == MarkRepair(turn, switch).s IN
           /\ Sound(t) /\ t.phase # "validate"
           /\ turn.s.phase \in Terminal => t.phase = turn.s.phase
           /\ t.action_counts = turn.s.action_counts
<1> DEFINE s == turn.s
           t == MarkRepair(turn, switch).s
           u == IF RepairSpent(s) THEN RecordRepair(ExtendRepair(RecordRepair(s))) ELSE RecordRepair(s)
<1>1. CASE RepairRefused(s)
  <2>1. t = RecordRepair(s) BY <1>1 DEF MarkRepair
  <2>2. RepairSpent(s) /\ s.repair_extensions = MaxRepairExtensions
    BY <1>1, BudgetsAssumption DEF RepairRefused, CanExtendRepair, Sound, Snapshot
  <2>3. /\ t \in Snapshot /\ t.phase \in Terminal
        /\ s.phase \in Terminal => t.phase = s.phase /\ t.failure_reason = s.failure_reason
        /\ s.phase \notin Terminal => t.phase = "failed" /\ t.failure_reason = "repair"
        /\ t.tool_calls = s.tool_calls /\ t.tool_call_extensions = s.tool_call_extensions
        /\ t.repair_extensions = s.repair_extensions
        /\ t.plan_revision_extensions = s.plan_revision_extensions
        /\ ~t.raised /\ t.action_counts = s.action_counts
    BY <2>1, <2>2, RepairBeyondBudget
  <2> HIDE DEF t
  <2> QED BY <2>2, <2>3 DEF Sound, BudgetFailuresFinal, ToolCeiling, Terminal, t
<1>2. CASE ~RepairRefused(s)
  <2>1. /\ Sound(u) /\ u.phase # "validate" /\ u.action_counts = s.action_counts
        /\ s.phase \in Terminal => u.phase = s.phase
    <3>1. CASE RepairSpent(s)
      BY <1>2, <3>1, RepairExtended, RepairWithinBudget DEF RepairRefused
    <3>2. CASE ~RepairSpent(s)
      BY <3>2, RepairWithinBudget
    <3> QED BY <3>1, <3>2
  <2>2. t = IF switch THEN [u EXCEPT !.repair_rounds = 0] ELSE u
    BY <1>2 DEF MarkRepair, Repaired
  <2> HIDE DEF u, t
  <2>3. [u EXCEPT !.repair_rounds = 0] \in Snapshot
    BY <2>1, BudgetsAssumption DEF Sound, Snapshot
  <2>4. CASE switch
    BY <2>1, <2>2, <2>3, <2>4 DEF Sound, Snapshot, BudgetFailuresFinal, ToolCeiling, t
  <2>5. CASE ~switch
    BY <2>1, <2>2, <2>5 DEF t
  <2> QED BY <2>4, <2>5
<1> QED BY <1>1, <1>2

(* A revision whose budget is spent fails the task, if it has not ended yet. *)
LEMMA PlanBeyondBudget ==
    ASSUME NEW s, Sound(s), PlanSpent(s)
    PROVE  LET t == RecordPlanRevision(s) IN
           /\ t \in Snapshot /\ t.phase \in Terminal
           /\ s.phase \in Terminal => t.phase = s.phase /\ t.failure_reason = s.failure_reason
           /\ s.phase \notin Terminal => t.phase = "failed" /\ t.failure_reason = "plan"
           /\ t.tool_calls = s.tool_calls /\ t.tool_call_extensions = s.tool_call_extensions
           /\ t.plan_revision_extensions = s.plan_revision_extensions
           /\ t.repair_extensions = s.repair_extensions
           /\ ~t.raised /\ t.action_counts = s.action_counts
<1> DEFINE c == [s EXCEPT !.plan_revisions = Bump(@, MaxPlanRevisions)]
<1>1. Bump(s.plan_revisions, MaxPlanRevisions) \in 0 .. MaxPlanRevisions + 1
  BY BudgetsAssumption DEF Bump, Sound, Snapshot
<1>2. /\ c \in Snapshot /\ c.phase = s.phase /\ c.failure_reason = s.failure_reason
      /\ c.tool_calls = s.tool_calls /\ c.tool_call_extensions = s.tool_call_extensions
      /\ c.plan_revision_extensions = s.plan_revision_extensions
      /\ c.repair_extensions = s.repair_extensions
      /\ ~c.raised /\ c.action_counts = s.action_counts
  BY <1>1 DEF Sound, Snapshot
<1>3. RecordPlanRevision(s) = FailWith(c, "plan")
  BY DEF RecordPlanRevision
<1> HIDE DEF c
<1>4. CASE c.phase \in Terminal
  BY <1>2, <1>3, <1>4 DEF FailWith
<1>5. CASE c.phase \notin Terminal
  <2>1. "failed" \in Allowed[c.phase] /\ c.phase # "failed"
    BY <1>2, <1>5, AllowedRows DEF Snapshot, Phases, Terminal
  <2>2. RecordPlanRevision(s) = [c EXCEPT !.failure_reason = "plan", !.phase = "failed"]
    BY <1>2, <1>3, <1>5, <2>1 DEF FailWith, Goto, Snapshot
  <2> QED BY <1>2, <1>5, <2>2 DEF Snapshot, Phases, Reasons, Terminal
<1> QED BY <1>4, <1>5

LEMMA PlanExtended ==
    ASSUME NEW s, Sound(s), PlanSpent(s), CanExtendPlan(s)
    PROVE  LET t == ExtendPlan(RecordPlanRevision(s)) IN
           /\ Sound(t) /\ ~PlanSpent(t) /\ t.phase # "validate"
           /\ s.phase \in Terminal => t.phase = s.phase
           /\ t.action_counts = s.action_counts
<1> DEFINE r == RecordPlanRevision(s)
           e == [r EXCEPT !.plan_revision_extensions = @ + 1, !.plan_revisions = 0]
           t == ExtendPlan(r)
<1>1. /\ r \in Snapshot /\ r.phase \in Terminal
      /\ s.phase \in Terminal => r.phase = s.phase /\ r.failure_reason = s.failure_reason
      /\ s.phase \notin Terminal => r.phase = "failed" /\ r.failure_reason = "plan"
      /\ r.tool_calls = s.tool_calls /\ r.tool_call_extensions = s.tool_call_extensions
      /\ r.plan_revision_extensions = s.plan_revision_extensions
      /\ r.repair_extensions = s.repair_extensions
      /\ ~r.raised /\ r.action_counts = s.action_counts
  BY PlanBeyondBudget
<1>2. /\ r.plan_revision_extensions + 1 \in 0 .. MaxPlanRevisionExtensions
      /\ s.failure_reason # "plan"
  BY <1>1, BudgetsAssumption DEF CanExtendPlan, Sound, Snapshot, BudgetFailuresFinal
<1> HIDE DEF r
<1>3. /\ e \in Snapshot /\ e.phase = r.phase /\ e.failure_reason = r.failure_reason
      /\ e.tool_calls = r.tool_calls /\ e.tool_call_extensions = r.tool_call_extensions
      /\ e.repair_extensions = r.repair_extensions
      /\ ~e.raised /\ e.action_counts = r.action_counts /\ e.plan_revisions = 0
  <2>1. e \in Snapshot BY <1>1, <1>2, NewPlanWindow
  <2> QED BY <1>1, <2>1 DEF Snapshot
<1>4. t = Revive(e, "plan") BY DEF ExtendPlan
<1> HIDE DEF e, t
<1>5. CASE s.phase \in Terminal
  <2>1. t = e BY <1>1, <1>2, <1>3, <1>4, <1>5 DEF Revive
  <2> QED
    BY <1>1, <1>2, <1>3, <1>5, <2>1, BudgetsAssumption
       DEF Sound, BudgetFailuresFinal, ToolCeiling, PlanSpent, Terminal, t, r
<1>6. CASE s.phase \notin Terminal
  <2>1. t = [e EXCEPT !.phase = "execute", !.failure_reason = "none"]
    BY <1>1, <1>3, <1>4, <1>6 DEF Revive
  <2>2. t \in Snapshot /\ t.failure_reason = "none" /\ t.phase = "execute" /\ t.plan_revisions = 0 /\ t.action_counts = s.action_counts
        /\ t.tool_calls = s.tool_calls /\ t.tool_call_extensions = s.tool_call_extensions /\ ~t.raised
    <3>1. t \in Snapshot BY <1>3, <2>1, RevivedType
    <3>2. /\ t.failure_reason = "none" /\ t.phase = "execute" /\ t.plan_revisions = e.plan_revisions
          /\ t.action_counts = e.action_counts /\ t.tool_calls = e.tool_calls
          /\ t.tool_call_extensions = e.tool_call_extensions /\ t.raised = e.raised
      BY <1>3, <2>1 DEF Snapshot
    <3> QED BY <1>1, <1>3, <3>1, <3>2
  <2> QED
    BY <1>6, <2>2, BudgetsAssumption DEF Sound, BudgetFailuresFinal, ToolCeiling, PlanSpent, t, r
<1> QED BY <1>5, <1>6

LEMMA PlanWithinBudget ==
    ASSUME NEW s, Sound(s), ~PlanSpent(s)
    PROVE  /\ Sound(RecordPlanRevision(s)) /\ RecordPlanRevision(s).phase = s.phase
           /\ RecordPlanRevision(s).action_counts = s.action_counts
<1> DEFINE c == [s EXCEPT !.plan_revisions = Bump(@, MaxPlanRevisions)]
<1>1. Bump(s.plan_revisions, MaxPlanRevisions) \in 0 .. MaxPlanRevisions + 1
  BY BudgetsAssumption DEF Bump, Sound, Snapshot
<1>2. Sound(c) /\ c.phase = s.phase /\ c.action_counts = s.action_counts
  BY <1>1 DEF Sound, Snapshot, BudgetFailuresFinal, ToolCeiling
<1> QED BY <1>2 DEF RecordPlanRevision

(* What guard_action does to the repetition counts.                        *)
LEMMA GuardActionCounts ==
    ASSUME NEW s, Sound(s), NEW a \in Actions, NEW e \in BOOLEAN
    PROVE  LET g == GuardAction(s, a, e)
               v == Verdict(s, a, e) IN
           /\ v \notin {"repeated", "allowed"} => g.action_counts = s.action_counts
           /\ v = "repeated" => \A b \in Actions : s.action_counts[b] <= g.action_counts[b]
           /\ v = "allowed" => /\ g.action_counts = [s.action_counts EXCEPT ![a] = @ + 1]
                               /\ s.action_counts[a] + 1 <= MaxIdenticalActions
<1> DEFINE n == s.action_counts
<1>1. n \in [Actions -> 0 .. MaxIdenticalActions + 1] /\ MaxIdenticalActions \in Nat
  BY BudgetsAssumption DEF Sound, Snapshot
<1>2. /\ Counted(s, a) \in Snapshot
      /\ Counted(s, a).action_counts = [n EXCEPT ![a] = Bump(@, MaxIdenticalActions)]
  BY CountedType DEF Counted, Sound, Snapshot
<1>3. CASE Verdict(s, a, e) = "time"
  BY <1>3 DEF GuardAction, Sound, Snapshot
<1>4. CASE Verdict(s, a, e) = "terminal"
  BY <1>4 DEF GuardAction
<1>5. CASE Verdict(s, a, e) = "tools"
  BY <1>5, FailSound DEF GuardAction
<1>6. CASE Verdict(s, a, e) = "repeated"
  <2>1. GuardAction(s, a, e) = Counted(s, a) BY <1>6 DEF GuardAction
  <2>2. \A b \in Actions : n[b] <= [n EXCEPT ![a] = Bump(@, MaxIdenticalActions)][b]
    BY <1>1 DEF Bump
  <2> QED BY <1>2, <1>6, <2>1, <2>2
<1>7. CASE Verdict(s, a, e) = "allowed"
  <2> DEFINE c == [Counted(s, a) EXCEPT !.tool_calls = @ + 1]
  <2>1. ~(n[a] + 1 > MaxIdenticalActions) BY <1>7 DEF Verdict
  <2>2. n[a] + 1 <= MaxIdenticalActions /\ Bump(n[a], MaxIdenticalActions) = n[a] + 1
    BY <1>1, <2>1 DEF Bump
  <2>3. c \in Snapshot /\ c.action_counts = [n EXCEPT ![a] = @ + 1]
    BY <1>2, <2>2 DEF Snapshot
  <2>4. GuardAction(s, a, e) = StartExecution(c) BY <1>7 DEF GuardAction
  <2>5. \A t \in Snapshot : StartExecution(t).action_counts = t.action_counts
    BY DEF StartExecution, GotoFrom, Goto, Snapshot
  <2> HIDE DEF c
  <2> QED BY <1>7, <2>2, <2>3, <2>4, <2>5
<1> QED BY <1>3, <1>4, <1>5, <1>6, <1>7 DEF Verdict

LEMMA GuardOutcomeSound ==
    ASSUME Sound(rt), epochSpent \in BOOLEAN, NEW a \in Actions
    PROVE  LET g == GuardOutcome(a) IN
           /\ Sound(g.s) /\ Follows(rt, g.s)
           /\ g.verdict # "allowed" => \A b \in Actions : rt.action_counts[b] <= g.s.action_counts[b]
           /\ g.verdict = "allowed" => /\ g.s.action_counts = [rt.action_counts EXCEPT ![a] = @ + 1]
                                       /\ rt.action_counts[a] + 1 <= MaxIdenticalActions
<1> DEFINE g == GuardAction(rt, a, epochSpent)
           h == Granted(a)
<1>0. rt.action_counts \in [Actions -> 0 .. MaxIdenticalActions + 1]
  BY DEF Sound, Snapshot
<1>1. Sound(g) /\ Follows(rt, g) BY GuardActionSound
<1>2. CASE Renews(a) \/ Extends(a)
  <2>1. Sound(h) /\ Follows(rt, h) /\ h.action_counts = rt.action_counts
    <3>1. CASE Renews(a)
      <4>1. Verdict(rt, a, epochSpent) = "time" /\ CanRenewEpoch(rt) BY <3>1 DEF Renews
      <4>2. g = [rt EXCEPT !.renewal_requested = TRUE] BY <4>1 DEF GuardAction
      <4>3. CanRenewEpoch(g) /\ g.action_counts = rt.action_counts /\ g.phase = rt.phase
        BY <4>1, <4>2 DEF CanRenewEpoch, Sound, Snapshot
      <4>4. h = RenewEpoch(g) BY <3>1 DEF Granted
      <4> HIDE DEF g, h
      <4> QED BY <1>1, <4>3, <4>4, RenewEpochSound DEF Follows
    <3>2. CASE ~Renews(a) /\ Extends(a)
      <4>1. Verdict(rt, a, epochSpent) = "tools" /\ CanExtendToolCalls(rt) BY <3>2 DEF Extends
      <4>2. rt.phase \notin Terminal BY <4>1 DEF Verdict
      <4>3. "failed" \in Allowed[rt.phase] /\ rt.phase # "failed"
        BY <4>2, AllowedRows DEF Sound, Snapshot, Phases, Terminal
      <4>4. g = [rt EXCEPT !.failure_reason = "tools", !.phase = "failed"]
        BY <4>1, <4>2, <4>3 DEF GuardAction, FailWith, Goto, Sound, Snapshot
      <4>5. /\ CanExtendToolCalls(g) /\ g.phase = "failed" /\ g.failure_reason = "tools"
            /\ g.action_counts = rt.action_counts
        BY <4>1, <4>4 DEF CanExtendToolCalls, Sound, Snapshot
      <4>6. h = ExtendToolCalls(g) BY <3>2 DEF Granted
      <4> HIDE DEF g, h
      <4> QED BY <1>1, <4>2, <4>5, <4>6, ExtendToolCallsSound DEF Follows
    <3> QED BY <1>2, <3>1, <3>2
  <2>2. GuardOutcome(a) = [s |-> GuardAction(h, a, FALSE), verdict |-> Verdict(h, a, FALSE)]
    BY <1>2 DEF GuardOutcome
  <2> HIDE DEF g, h
  <2>3. Sound(GuardAction(h, a, FALSE)) /\ Follows(h, GuardAction(h, a, FALSE))
    BY <2>1, GuardActionSound
  <2> DEFINE k == GuardAction(h, a, FALSE)
             w == Verdict(h, a, FALSE)
  <2>4. /\ w \notin {"repeated", "allowed"} => k.action_counts = h.action_counts
        /\ w = "repeated" => \A b \in Actions : h.action_counts[b] <= k.action_counts[b]
        /\ w = "allowed" => /\ k.action_counts = [h.action_counts EXCEPT ![a] = @ + 1]
                            /\ h.action_counts[a] + 1 <= MaxIdenticalActions
    BY <2>1, GuardActionCounts
  <2>5. \A b \in Actions : rt.action_counts[b] <= rt.action_counts[b]
    BY <1>0
  <2>6. GuardOutcome(a).s = k /\ GuardOutcome(a).verdict = w BY <2>2
  <2>7. Sound(k) /\ Follows(rt, k) BY <2>1, <2>3 DEF Follows
  <2> HIDE DEF k, w
  <2> QED BY <2>1, <2>4, <2>5, <2>6, <2>7
<1>3. CASE ~(Renews(a) \/ Extends(a))
  <2>1. GuardOutcome(a) = [s |-> g, verdict |-> Verdict(rt, a, epochSpent)]
    BY <1>3 DEF GuardOutcome
  <2> QED BY <1>0, <1>1, <2>1, GuardActionCounts
<1> QED BY <1>2, <1>3

-----------------------------------------------------------------------------
(* The turn keeps the controller sound, and leaves validation only through *)
(* a repair or a terminal phase.                                           *)

ControllerInv ==
    /\ Sound(rt)
    /\ epochSpent \in BOOLEAN
    /\ rt.phase = "validate" => pc \in {"validated", "end"}

ControllerKept ==
    /\ ControllerInv'
    /\ rt.phase \in Terminal => rt'.phase = rt.phase

LEMMA InitSound == Sound(InitSnapshot)
<1>1. InitSnapshot \in Snapshot
  <2>1. /\ 0 \in 0 .. MaxConsecutiveEmpty + 1 /\ 0 \in 0 .. MaxPlanRevisions + 1
        /\ 0 \in 0 .. MaxRepairRounds + 1 /\ 0 \in 0 .. MaxRuntimeExtensions
        /\ 0 \in 0 .. MaxRepairExtensions /\ 0 \in 0 .. MaxToolCallExtensions
        /\ 0 \in 0 .. MaxPlanRevisionExtensions
        /\ [a \in Actions |-> 0] \in [Actions -> 0 .. MaxIdenticalActions + 1]
    BY BudgetsAssumption
  <2> QED BY <2>1 DEF InitSnapshot, Snapshot, Phases, Reasons
<1>2. InitSnapshot.tool_calls = 0 /\ ToolCeiling(InitSnapshot) \in Nat
  BY <1>1, CeilingType DEF InitSnapshot
<1> QED BY <1>1, <1>2 DEF Sound, InitSnapshot, BudgetFailuresFinal

LEMMA ControllerNext == ControllerInv /\ [Next]_vars => ControllerKept
<1> SUFFICES ASSUME ControllerInv, [Next]_vars PROVE ControllerKept
  OBVIOUS
<1> USE DEF ControllerInv, ControllerKept
<1>0. Sound(rt) /\ epochSpent \in BOOLEAN
  OBVIOUS
<1>1. CASE UNCHANGED vars
  BY <1>1 DEF vars
<1>2. CASE Begin
  <2>1. rt' = StartPlanning(rt) /\ pc = "begin" /\ epochSpent' = FALSE BY <1>2 DEF Begin
  <2>2. StartPlanning(rt) = rt \/ (rt.phase = "discover" /\ StartPlanning(rt) = [rt EXCEPT !.phase = "plan"])
    BY AllowedRows DEF StartPlanning, GotoFrom, Goto
  <2>3. CASE rt.phase = "discover" /\ rt' = [rt EXCEPT !.phase = "plan"]
    <3>1. Sound(rt') /\ rt'.phase = "plan"
      BY <2>3 DEF Sound, Snapshot, BudgetFailuresFinal, ToolCeiling, Phases
    <3> QED BY <2>1, <2>3, <3>1 DEF Terminal
  <2>4. CASE rt' = rt
    BY <2>1, <2>4
  <2> QED BY <2>1, <2>2, <2>3, <2>4
<1>3. CASE StartTurn
  BY <1>3, StartExecutionSound DEF StartTurn, Follows
<1>4. CASE ProviderFails
  BY <1>4, FailSound DEF ProviderFails, Fail, Follows, Ended
<1>5. CASE ReplacePlan
  <2>1. pc = "top" /\ epochSpent' = epochSpent /\ pc' \in {"top", "end"} BY <1>5 DEF ReplacePlan, Continues, Ended
  <2>2. CASE PlanSpent(rt) /\ ~CanExtendPlan(rt)
    <3> DEFINE t == RecordPlanRevision(rt)
    <3>1. rt' = FailWith(t, t.failure_reason) BY <1>5, <2>2 DEF ReplacePlan, Fail
    <3>2. /\ t \in Snapshot /\ t.phase \in Terminal
          /\ rt.phase \in Terminal => t.phase = rt.phase /\ t.failure_reason = rt.failure_reason
          /\ rt.phase \notin Terminal => t.phase = "failed" /\ t.failure_reason = "plan"
          /\ t.tool_calls = rt.tool_calls /\ t.tool_call_extensions = rt.tool_call_extensions
          /\ t.repair_extensions = rt.repair_extensions
          /\ t.plan_revision_extensions = rt.plan_revision_extensions
          /\ ~t.raised
      BY <2>2, PlanBeyondBudget
    <3>3. rt.plan_revision_extensions = MaxPlanRevisionExtensions
      BY <2>2, BudgetsAssumption DEF CanExtendPlan, Sound, Snapshot
    <3> HIDE DEF t
    <3>4. Sound(t) BY <3>2, <3>3 DEF Sound, BudgetFailuresFinal, ToolCeiling
    <3>5. rt' = t BY <3>1, <3>2, <3>4 DEF FailWith, Sound, BudgetFailuresFinal
    <3> QED BY <2>1, <3>2, <3>4, <3>5 DEF Terminal
  <2>3. CASE PlanSpent(rt) /\ CanExtendPlan(rt)
    <3>1. rt' = RecordPlanRevision(ExtendPlan(RecordPlanRevision(rt))) BY <1>5, <2>3 DEF ReplacePlan
    <3> DEFINE e == ExtendPlan(RecordPlanRevision(rt))
    <3>2. /\ Sound(e) /\ ~PlanSpent(e) /\ e.phase # "validate"
          /\ rt.phase \in Terminal => e.phase = rt.phase
      BY <2>1, <2>3, PlanExtended
    <3> HIDE DEF e
    <3> QED BY <2>1, <3>1, <3>2, PlanWithinBudget DEF e
  <2>4. CASE ~PlanSpent(rt)
    BY <1>5, <2>1, <2>4, PlanWithinBudget DEF ReplacePlan
  <2> QED BY <2>2, <2>3, <2>4
<1>6. CASE AddFollowUp \/ LiveCancel \/ ModelCallsTools \/ ModelAnswers \/ Flush \/ UnresolvedEdit \/ RejectAnswer
  BY <1>6 DEF AddFollowUp, LiveCancel, ModelCallsTools, ModelAnswers, Flush, UnresolvedEdit, RejectAnswer, Ended
<1>7. CASE RepairRound
  BY <1>7, MarkRepairSound DEF RepairRound, Becomes, Turn
<1>8. CASE RoundsSpent
  BY <1>8, FailSound DEF RoundsSpent, Fail, Follows, Ended
<1>9. ASSUME NEW a \in Actions, AllowCall(a) PROVE ControllerKept
  BY <1>9, GuardOutcomeSound DEF AllowCall, Guarded, Follows
<1>10. ASSUME NEW a \in Actions, BlockRepeat(a) PROVE ControllerKept
  <2> DEFINE g == GuardOutcome(a).s
  <2>1. Sound(g) /\ Follows(rt, g) BY GuardOutcomeSound
  <2>2. rt.phase # "validate" /\ epochSpent' \in BOOLEAN BY <1>10 DEF BlockRepeat, Guarded
  <2> DEFINE turn == [Turn EXCEPT !.s = g]
             repaired == MarkRepair(turn, TRUE).s
  <2>3. rt' = g \/ rt' = repaired BY <1>10 DEF BlockRepeat, Becomes
  <2>4. turn.s = g BY DEF Turn
  <2> HIDE DEF g, turn
  <2>5. Sound(repaired) /\ repaired.phase # "validate" /\ (g.phase \in Terminal => repaired.phase = g.phase)
    BY <2>1, <2>4, MarkRepairSound
  <2> HIDE DEF repaired
  <2>6. CASE rt' = g
    BY <2>1, <2>2, <2>6 DEF Follows
  <2>7. CASE rt' = repaired
    BY <2>1, <2>2, <2>5, <2>7 DEF Follows
  <2> QED BY <2>3, <2>6, <2>7
<1>11. ASSUME NEW a \in Actions, RefuseTerminal(a) PROVE ControllerKept
  BY <1>11, GuardOutcomeSound DEF RefuseTerminal, Guarded, Follows
<1>12. CASE EndDrained
  BY <1>12, FailSound DEF EndDrained, Fail, Follows, Ended
<1>13. ASSUME NEW o \in Observations, NEW success \in BOOLEAN, NEW empty \in BOOLEAN, NEW matches \in BOOLEAN,
              RecordResult(o, success, empty, matches)
       PROVE  ControllerKept
  <2> DEFINE x == Observe(rt, o, success /\ empty)
             useful == rt.phase \notin Terminal /\ Useful(rt, o, success /\ empty)
             recorded == [s |-> x, agent |-> "observe", steps |-> Advance(steps, useful, matches)]
  <2>1. rt.phase # "validate" /\ epochSpent' = epochSpent BY <1>13 DEF RecordResult
  <2>2. Sound(x) /\ Follows(rt, x) BY <2>1, ObserveSound
  <2>3. \/ rt' = rt
        \/ rt' = x
        \/ rt' = MarkRepair(recorded, TRUE).s
        \/ rt' = MarkRepair(recorded, FALSE).s
        \/ rt' = MarkRepair(MarkRepair(recorded, TRUE), FALSE).s
    BY <1>13 DEF RecordResult, Becomes
  <2>4. recorded.s = x OBVIOUS
  <2> HIDE DEF x, recorded
  <2> DEFINE rerouted == MarkRepair(recorded, TRUE)
             guided == MarkRepair(recorded, FALSE)
  <2>5. /\ Sound(rerouted.s) /\ rerouted.s.phase # "validate"
        /\ x.phase \in Terminal => rerouted.s.phase = x.phase
    BY <2>2, <2>4, MarkRepairSound
  <2>6. /\ Sound(guided.s) /\ guided.s.phase # "validate"
        /\ x.phase \in Terminal => guided.s.phase = x.phase
    BY <2>2, <2>4, MarkRepairSound
  <2> HIDE DEF rerouted, guided
  <2> DEFINE both == MarkRepair(rerouted, FALSE)
  <2>7. /\ Sound(both.s) /\ both.s.phase # "validate"
        /\ x.phase \in Terminal => both.s.phase = x.phase
    BY <2>5, MarkRepairSound
  <2>8. rt' \in {rt, x, rerouted.s, guided.s, both.s} BY <2>3 DEF rerouted, guided
  <2> HIDE DEF both
  <2> QED BY <2>1, <2>2, <2>5, <2>6, <2>7, <2>8 DEF Follows
<1>14. CASE Validate
  <2>1. pc' = "validated" \/ rt'.raised BY <1>14 DEF Validate, Continues, Ended
  <2> QED BY <1>14, <2>1, BeginValidationSound DEF Validate, Sound
<1>15. CASE RetryOnFreshRoute
  BY <1>15, MarkRepairSound DEF RetryOnFreshRoute, Becomes, Turn
<1>16. CASE StopHookBlocks
  <2>1. epochSpent' = epochSpent BY <1>16 DEF StopHookBlocks
  <2>2. CASE rt' = FailWith(rt, "other") /\ pc' = "end"
    BY <2>1, <2>2, FailSound DEF Follows
  <2>3. CASE rt' = MarkRepair(Turn, FALSE).s
    BY <2>1, <2>3, MarkRepairSound DEF Turn
  <2> QED BY <1>16, <2>2, <2>3 DEF StopHookBlocks, Fail, Ended, Becomes
<1>17. CASE CompleteTurn
  <2>1. pc' = "end" /\ epochSpent' = epochSpent BY <1>17 DEF CompleteTurn, Ended
  <2>2. CASE rt' = Complete(rt)
    BY <2>1, <2>2, CompleteSound
  <2>3. CASE rt' = FailWith(BeginValidation(rt), "other")
    BY <2>1, <2>3, BeginValidationSound, FailSound DEF Follows
  <2> QED BY <1>17, <2>2, <2>3 DEF CompleteTurn
<1>18. CASE EpochRunsOut
  BY <1>18 DEF EpochRunsOut
<1> QED BY <1>1, <1>2, <1>3, <1>4, <1>5, <1>6, <1>7, <1>8, <1>9, <1>10, <1>11, <1>12, <1>13, <1>14,
           <1>15, <1>16, <1>17, <1>18 DEF Next, Loop

LEMMA ControllerAlways == Spec => []ControllerInv
<1>1. Init => ControllerInv
  <2> SUFFICES ASSUME Init PROVE ControllerInv
    OBVIOUS
  <2>1. rt = InitSnapshot /\ epochSpent = FALSE BY DEF Init
  <2>2. InitSnapshot.phase = "discover" BY DEF InitSnapshot
  <2> QED BY <2>1, <2>2, InitSound DEF ControllerInv
<1>2. ControllerInv /\ [Next]_vars => ControllerInv'
  BY ControllerNext DEF ControllerKept
<1> QED BY <1>1, <1>2, PTL DEF Spec

(* No sequence of guards, results, repairs and validations reaches an      *)
(* illegal transition of the controller (RuntimeSnapshot.transition).      *)
THEOREM NoIllegalTransitionTheorem == Spec => []NoIllegalTransition
<1>1. ControllerInv => NoIllegalTransition
  BY DEF ControllerInv, Sound, NoIllegalTransition
<1> QED BY <1>1, ControllerAlways, PTL

(* The calls let through never exceed the ceiling granted so far.          *)
THEOREM ToolCallCeilingTheorem == Spec => []ToolCallCeiling
<1>1. ControllerInv => ToolCallCeiling
  BY DEF ControllerInv, Sound, ToolCallCeiling
<1> QED BY <1>1, ControllerAlways, PTL

(* A controller that has ended stays in the phase it ended in.             *)
THEOREM TerminalIsFinalTheorem == Spec => TerminalIsFinal
<1>1. ControllerInv /\ [Next]_vars => [rt.phase \in Terminal => rt'.phase = rt.phase]_vars
  BY ControllerNext DEF ControllerKept
<1> QED BY <1>1, ControllerAlways, PTL DEF Spec, TerminalIsFinal

-----------------------------------------------------------------------------
(* Repetition: what ran since the last useful result was counted.          *)

CountsInv ==
    /\ ran \in [Actions -> Nat]
    /\ \A a \in Actions : ran[a] <= rt.action_counts[a] /\ ran[a] <= MaxIdenticalActions

(* The two ways a step can treat the counts, apart from letting a call     *)
(* through: it keeps them, or clears them along with the history.          *)
LEMMA CountsKept ==
    ASSUME CountsInv, Sound(rt), Sound(rt'),
           \/ ran' = ran /\ \A a \in Actions : rt.action_counts[a] <= rt'.action_counts[a]
           \/ ran' = [a \in Actions |-> 0]
    PROVE  CountsInv'
<1>1. /\ rt.action_counts \in [Actions -> 0 .. MaxIdenticalActions + 1]
      /\ rt'.action_counts \in [Actions -> 0 .. MaxIdenticalActions + 1]
      /\ MaxIdenticalActions \in Nat
  BY BudgetsAssumption DEF Sound, Snapshot
<1>2. CASE ran' = ran /\ \A a \in Actions : rt.action_counts[a] <= rt'.action_counts[a]
  BY <1>1, <1>2 DEF CountsInv
<1>3. CASE ran' = [a \in Actions |-> 0]
  BY <1>1, <1>3 DEF CountsInv
<1> QED BY <1>2, <1>3

LEMMA CountsNext == ControllerInv /\ CountsInv /\ [Next]_vars => CountsInv'
<1> SUFFICES ASSUME ControllerInv, CountsInv, [Next]_vars PROVE CountsInv'
  OBVIOUS
<1>0. /\ Sound(rt) /\ Sound(rt') /\ epochSpent \in BOOLEAN
      /\ rt.action_counts \in [Actions -> 0 .. MaxIdenticalActions + 1]
  BY ControllerNext DEF ControllerKept, ControllerInv, Sound, Snapshot
<1>a. ASSUME ran' = ran, rt'.action_counts = rt.action_counts PROVE CountsInv'
  BY <1>0, <1>a, CountsKept
<1>1. CASE UNCHANGED vars
  BY <1>1, <1>a DEF vars
<1>2. CASE Begin
  <2>1. StartPlanning(rt).action_counts = rt.action_counts
    BY <1>0 DEF StartPlanning, GotoFrom, Goto, Sound, Snapshot
  <2> QED BY <1>2, <2>1, <1>a DEF Begin
<1>3. CASE StartTurn
  BY <1>0, <1>3, <1>a, StartExecutionSound DEF StartTurn, loopVars
<1>4. CASE ProviderFails \/ RoundsSpent
  BY <1>0, <1>4, <1>a, FailSound DEF ProviderFails, RoundsSpent, Fail, loopVars
<1>5. CASE ReplacePlan
  <2> DEFINE t == RecordPlanRevision(rt)
  <2>1. t.action_counts = rt.action_counts
    BY <1>0, PlanWithinBudget, PlanBeyondBudget
  <2>2. CASE PlanSpent(rt) /\ ~CanExtendPlan(rt)
    <3>1. rt' = FailWith(t, t.failure_reason) BY <1>5, <2>2 DEF ReplacePlan, Fail
    <3>2. t \in Snapshot /\ t.phase \in Terminal BY <1>0, <2>2, PlanBeyondBudget
    <3> HIDE DEF t
    <3>3. FailWith(t, t.failure_reason).action_counts = t.action_counts
      BY <3>2 DEF FailWith, Snapshot
    <3> QED BY <1>5, <1>a, <2>1, <3>1, <3>3 DEF ReplacePlan, loopVars
  <2>3. CASE PlanSpent(rt) /\ CanExtendPlan(rt)
    <3> DEFINE e == ExtendPlan(t)
    <3>1. Sound(e) /\ ~PlanSpent(e) /\ e.action_counts = rt.action_counts
      BY <1>0, <2>3, PlanExtended
    <3>2. rt' = RecordPlanRevision(e) BY <1>5, <2>3 DEF ReplacePlan
    <3> HIDE DEF e
    <3> QED BY <1>5, <1>a, <3>1, <3>2, PlanWithinBudget DEF ReplacePlan, loopVars
  <2>4. CASE ~PlanSpent(rt)
    BY <1>5, <1>a, <2>1, <2>4 DEF ReplacePlan, loopVars
  <2> QED BY <2>2, <2>3, <2>4
<1>6. CASE AddFollowUp \/ LiveCancel \/ ModelCallsTools \/ ModelAnswers \/ Flush \/ UnresolvedEdit \/ RejectAnswer \/ EpochRunsOut
  BY <1>6, <1>a DEF AddFollowUp, LiveCancel, ModelCallsTools, ModelAnswers, Flush, UnresolvedEdit, RejectAnswer, EpochRunsOut, loopVars
<1>7. CASE RepairRound
  BY <1>0, <1>7, <1>a, MarkRepairSound DEF RepairRound, Becomes, Turn
<1>9. ASSUME NEW a \in Actions, AllowCall(a) PROVE CountsInv'
  <2>1. /\ rt'.action_counts = [rt.action_counts EXCEPT ![a] = @ + 1]
        /\ rt.action_counts[a] + 1 <= MaxIdenticalActions
    BY <1>0, <1>9, GuardOutcomeSound DEF AllowCall, Guarded
  <2>2. ran' = ran \/ ran' = [ran EXCEPT ![a] = @ + 1] BY <1>9 DEF AllowCall
  <2>3. rt.action_counts[a] \in Nat /\ MaxIdenticalActions \in Nat /\ ran[a] \in Nat
    BY <1>0, BudgetsAssumption DEF CountsInv
  <2> QED BY <1>0, <2>1, <2>2, <2>3 DEF CountsInv
<1>10. ASSUME NEW a \in Actions, BlockRepeat(a) PROVE CountsInv'
  <2> DEFINE g == GuardOutcome(a).s
  <2>1. Sound(g) /\ \A b \in Actions : rt.action_counts[b] <= g.action_counts[b]
    BY <1>0, <1>10, GuardOutcomeSound DEF BlockRepeat, Guarded
  <2>2. rt' = g \/ rt' = MarkRepair([Turn EXCEPT !.s = g], TRUE).s
    BY <1>10 DEF BlockRepeat, Becomes
  <2>3. [Turn EXCEPT !.s = g].s = g BY DEF Turn
  <2> HIDE DEF g
  <2>4. rt'.action_counts = g.action_counts
    BY <2>1, <2>2, <2>3, MarkRepairSound
  <2> QED BY <1>0, <1>10, <2>1, <2>4, CountsKept DEF BlockRepeat
<1>11. ASSUME NEW a \in Actions, RefuseTerminal(a) PROVE CountsInv'
  BY <1>0, <1>11, GuardOutcomeSound, CountsKept DEF RefuseTerminal, Guarded
<1>12. CASE EndDrained
  BY <1>0, <1>12, <1>a, FailSound DEF EndDrained, Fail, loopVars
<1>13. ASSUME NEW o \in Observations, NEW success \in BOOLEAN, NEW empty \in BOOLEAN, NEW matches \in BOOLEAN,
              RecordResult(o, success, empty, matches)
       PROVE  CountsInv'
  <2> DEFINE x == Observe(rt, o, success /\ empty)
             useful == rt.phase \notin Terminal /\ Useful(rt, o, success /\ empty)
             recorded == [s |-> x, agent |-> "observe", steps |-> Advance(steps, useful, matches)]
  <2>1. ran' = IF useful THEN [a \in Actions |-> 0] ELSE ran BY <1>13 DEF RecordResult
  <2>2. CASE useful
    BY <1>0, <2>1, <2>2, CountsKept
  <2>3. CASE ~useful
    <3>1. Sound(x) /\ x.action_counts = rt.action_counts
      BY <1>0, <1>13, <2>3, ObserveSound, ObserveCounts DEF ControllerInv, RecordResult
    <3>2. \/ rt' = rt
          \/ rt' = x
          \/ rt' = MarkRepair(recorded, TRUE).s
          \/ rt' = MarkRepair(recorded, FALSE).s
          \/ rt' = MarkRepair(MarkRepair(recorded, TRUE), FALSE).s
      BY <1>13 DEF RecordResult, Becomes
    <3>3. recorded.s = x OBVIOUS
    <3>4. ran' = ran BY <2>1, <2>3
    <3> HIDE DEF x, recorded, useful
    <3> DEFINE rerouted == MarkRepair(recorded, TRUE)
               guided == MarkRepair(recorded, FALSE)
    <3>5. Sound(rerouted.s) /\ rerouted.s.action_counts = x.action_counts
      BY <3>1, <3>3, MarkRepairSound
    <3>6. guided.s.action_counts = x.action_counts
      BY <3>1, <3>3, MarkRepairSound
    <3> HIDE DEF rerouted, guided
    <3> DEFINE both == MarkRepair(rerouted, FALSE)
    <3>7. both.s.action_counts = x.action_counts
      BY <3>5, MarkRepairSound
    <3>8. rt' \in {rt, x, rerouted.s, guided.s, both.s} BY <3>2 DEF rerouted, guided
    <3> HIDE DEF both
    <3> QED BY <1>a, <3>1, <3>4, <3>5, <3>6, <3>7, <3>8
  <2> QED BY <2>2, <2>3
<1>14. CASE Validate
  BY <1>0, <1>14, <1>a, BeginValidationSound DEF Validate, loopVars
<1>15. CASE RetryOnFreshRoute
  BY <1>0, <1>15, <1>a, MarkRepairSound DEF RetryOnFreshRoute, Becomes, Turn, loopVars
<1>16. CASE StopHookBlocks
  <2>1. rt' = FailWith(rt, "other") \/ rt' = MarkRepair(Turn, FALSE).s
    BY <1>16 DEF StopHookBlocks, Fail, Becomes
  <2>2. Turn.s = rt BY DEF Turn
  <2>3. rt'.action_counts = rt.action_counts
    BY <1>0, <2>1, <2>2, FailSound, MarkRepairSound
  <2> QED BY <1>16, <1>a, <2>3 DEF StopHookBlocks, loopVars
<1>17. CASE CompleteTurn
  <2>1. rt' = Complete(rt) \/ rt' = FailWith(BeginValidation(rt), "other") BY <1>17 DEF CompleteTurn
  <2>2. rt'.action_counts = rt.action_counts
    BY <1>0, <2>1, CompleteSound, BeginValidationSound, FailSound
  <2> QED BY <1>17, <1>a, <2>2 DEF CompleteTurn, loopVars
<1> QED BY <1>1, <1>2, <1>3, <1>4, <1>5, <1>6, <1>7, <1>9, <1>10, <1>11, <1>12, <1>13, <1>14,
           <1>15, <1>16, <1>17 DEF Next, Loop

(* An action is executed at most max_identical_actions times between two   *)
(* useful results (the repetition guard of guard_action).                  *)
THEOREM NoBlindRepetitionTheorem == Spec => []NoBlindRepetition
<1>1. Init => CountsInv
  <2> SUFFICES ASSUME Init PROVE CountsInv
    OBVIOUS
  <2>1. rt.action_counts = [a \in Actions |-> 0] /\ ran = [a \in Actions |-> 0]
    BY DEF Init, InitSnapshot
  <2> QED BY <2>1, BudgetsAssumption DEF CountsInv
<1>2. ControllerInv /\ CountsInv /\ [Next]_vars => CountsInv'
  BY CountsNext
<1>3. CountsInv => NoBlindRepetition
  BY DEF CountsInv, NoBlindRepetition
<1> QED BY <1>1, <1>2, <1>3, ControllerAlways, PTL DEF Spec

-----------------------------------------------------------------------------
(* The plan: at most one step in progress, none once the task has ended.   *)

SomePlan == UNION {[1 .. n -> Statuses] : n \in Nat}

AtMostOne(st) ==
    \A i, j \in DOMAIN st : st[i] = "in_progress" /\ st[j] = "in_progress" => i = j

Sane(st) == st \in SomePlan /\ AtMostOne(st)

PlanInv ==
    /\ Sane(steps)
    /\ agent \in {"completed", "failed"} => ~Has(steps, "in_progress")

LEMMA ClosedSane ==
    ASSUME NEW st, Sane(st), NEW status \in {"failed", "completed"}
    PROVE  Sane(Closed(st, status)) /\ ~Has(Closed(st, status), "in_progress")
<1>1. PICK n \in Nat : st \in [1 .. n -> Statuses] BY DEF Sane, SomePlan
<1>2. Closed(st, status) \in [1 .. n -> Statuses] BY <1>1 DEF Closed, Statuses
<1>3. \A i \in 1 .. n : Closed(st, status)[i] # "in_progress" BY <1>1 DEF Closed
<1> QED BY <1>2, <1>3 DEF Sane, SomePlan, AtMostOne, Has

LEMMA StartedSane ==
    ASSUME NEW st, Sane(st)
    PROVE  Sane(Started(st))
<1>1. PICK n \in Nat : st \in [1 .. n -> Statuses] BY DEF Sane, SomePlan
<1>2. CASE Has(st, "in_progress") \/ ~Has(st, "pending")
  BY <1>2 DEF Started
<1>3. CASE ~Has(st, "in_progress") /\ Has(st, "pending")
  <2> DEFINE k == First(st, "pending")
  <2>1. Started(st) = [st EXCEPT ![k] = "in_progress"] BY <1>3 DEF Started
  <2> HIDE DEF k
  <2>2. Started(st) \in [1 .. n -> Statuses] BY <1>1, <2>1 DEF Statuses
  <2>3. \A i \in 1 .. n : Started(st)[i] = "in_progress" => i = k
    BY <1>1, <1>3, <2>1 DEF Has
  <2> QED BY <2>2, <2>3 DEF Sane, SomePlan, AtMostOne
<1> QED BY <1>2, <1>3

LEMMA AdvanceSane ==
    ASSUME NEW st, Sane(st), NEW useful \in BOOLEAN, NEW matches \in BOOLEAN
    PROVE  Sane(Advance(st, useful, matches))
<1> DEFINE begun == Started(st)
<1>1. Sane(begun) BY StartedSane
<1> HIDE DEF begun
<1>2. PICK n \in Nat : begun \in [1 .. n -> Statuses] BY <1>1 DEF Sane, SomePlan
<1>3. CASE ~(useful /\ matches /\ Has(begun, "in_progress"))
  BY <1>1, <1>3 DEF Advance, begun
<1>4. CASE useful /\ matches /\ Has(begun, "in_progress")
  <2> DEFINE a == First(begun, "in_progress")
             done == [begun EXCEPT ![a] = "completed"]
             p == First(done, "pending")
  <2>1. a \in 1 .. n /\ begun[a] = "in_progress"
    <3>1. PICK i \in 1 .. n : begun[i] = "in_progress" BY <1>2, <1>4 DEF Has
    <3>2. \A j \in 1 .. (i - 1) : begun[j] # "in_progress"
      BY <1>1, <1>2, <3>1 DEF Sane, AtMostOne
    <3> QED BY <1>2, <3>1, <3>2 DEF First
  <2>2. \A i \in 1 .. n : begun[i] = "in_progress" => i = a
    BY <1>1, <1>2, <2>1 DEF Sane, AtMostOne
  <2> HIDE DEF a
  <2>3. done \in [1 .. n -> Statuses] /\ \A i \in 1 .. n : done[i] # "in_progress"
    BY <1>2, <2>1, <2>2 DEF Statuses
  <2>4. Advance(st, useful, matches) = IF Has(done, "pending") THEN [done EXCEPT ![p] = "in_progress"] ELSE done
    BY <1>4 DEF Advance, begun, a
  <2> HIDE DEF done, p
  <2>5. CASE Has(done, "pending")
    <3>1. Advance(st, useful, matches) = [done EXCEPT ![p] = "in_progress"] BY <2>4, <2>5
    <3>2. Advance(st, useful, matches) \in [1 .. n -> Statuses] BY <2>3, <3>1 DEF Statuses
    <3>3. \A i \in 1 .. n : Advance(st, useful, matches)[i] = "in_progress" => i = p
      BY <2>3, <3>1
    <3> QED BY <3>2, <3>3 DEF Sane, SomePlan, AtMostOne
  <2>6. CASE ~Has(done, "pending")
    BY <2>3, <2>4, <2>6 DEF Sane, SomePlan, AtMostOne
  <2> QED BY <2>5, <2>6
<1> QED BY <1>3, <1>4

LEMMA DeliveredSane ==
    ASSUME NEW st, Sane(st), NEW which
    PROVE  Sane(Delivered(st, which))
<1>1. PICK n \in Nat : st \in [1 .. n -> Statuses] BY DEF Sane, SomePlan
<1>2. Delivered(st, which) \in [1 .. n -> Statuses] BY <1>1 DEF Delivered, Statuses
<1>3. \A i \in 1 .. n : Delivered(st, which)[i] = "in_progress" => st[i] = "in_progress"
  BY <1>1 DEF Delivered
<1> QED BY <1>1, <1>2, <1>3 DEF Sane, SomePlan, AtMostOne

LEMMA FreshSane ==
    ASSUME NEW st \in FreshPlans
    PROVE  Sane(st) /\ ~Has(st, "in_progress")
<1>1. PICK n \in 0 .. NumSteps : st \in [1 .. n -> {"pending"}] BY DEF FreshPlans
<1>2. n \in Nat /\ st \in [1 .. n -> Statuses] BY <1>1, TurnAssumption DEF Statuses
<1>3. \A i \in 1 .. n : st[i] = "pending" BY <1>1
<1> QED BY <1>2, <1>3 DEF Sane, SomePlan, AtMostOne, Has

LEMMA SavedSane ==
    ASSUME NEW st \in SavedPlans
    PROVE  Sane(st)
<1>1. st \in [1 .. NumSteps -> Statuses] /\ NumSteps \in Nat BY TurnAssumption DEF SavedPlans
<1>2. \A i, j \in 1 .. NumSteps : i < j /\ st[i] = "in_progress" => st[j] = "pending"
  BY DEF SavedPlans
<1>3. AtMostOne(st) BY <1>1, <1>2 DEF AtMostOne
<1> QED BY <1>1, <1>3 DEF Sane, SomePlan

(* A follow-up is appended as a pending step.                              *)
LEMMA AppendSane ==
    ASSUME NEW st, Sane(st)
    PROVE  /\ Sane(Append(st, "pending"))
           /\ ~Has(st, "in_progress") => ~Has(Append(st, "pending"), "in_progress")
<1>1. PICK n \in Nat : st \in [1 .. n -> Statuses] BY DEF Sane, SomePlan
<1>2. st \in Seq(Statuses) /\ Len(st) = n BY <1>1, SeqDef
<1> DEFINE app == Append(st, "pending")
<1>p. "pending" \in Statuses BY DEF Statuses
<1>a. /\ app \in Seq(Statuses) /\ Len(app) = n + 1
      /\ \A i \in 1 .. n : app[i] = st[i]
      /\ app[n + 1] = "pending"
  BY <1>2, <1>p, AppendProperties
<1>3. /\ app \in [1 .. n + 1 -> Statuses]
      /\ \A i \in 1 .. n : app[i] = st[i]
      /\ app[n + 1] = "pending"
  <2> HIDE DEF app
  <2>1. app \in [1 .. Len(app) -> Statuses] BY <1>a, LenProperties
  <2> QED BY <1>a, <2>1
<1> HIDE DEF app
<1>4. n + 1 \in Nat BY <1>1
<1>5. \A i \in 1 .. n + 1 : app[i] = "in_progress" => i \in 1 .. n /\ st[i] = "in_progress"
  BY <1>1, <1>3
<1> QED BY <1>1, <1>3, <1>4, <1>5 DEF Sane, SomePlan, AtMostOne, Has, app

LEMMA MarkRepairPlan ==
    ASSUME NEW turn, Sane(turn.steps), NEW switch
    PROVE  LET t == MarkRepair(turn, switch) IN
           /\ Sane(t.steps)
           /\ t.agent \in {"completed", "failed"} => ~Has(t.steps, "in_progress")
           /\ t.agent \in {"repair", "failed"}
BY ClosedSane DEF MarkRepair
-----------------------------------------------------------------------------
(* PlanInv is kept: the operations that end the task close the step in     *)
(* progress, the others leave at most one.                                 *)

LEMMA PlanNext == PlanInv /\ [Next]_vars => PlanInv'
<1> SUFFICES ASSUME PlanInv, [Next]_vars PROVE PlanInv'
  OBVIOUS
<1>0. Sane(steps) BY DEF PlanInv
<1>a. ASSUME steps' = steps, agent' = agent PROVE PlanInv'
  BY <1>a DEF PlanInv
<1>b. ASSUME Sane(steps'), agent' \notin {"completed", "failed"} PROVE PlanInv'
  BY <1>b DEF PlanInv
<1>c. ASSUME steps' = Closed(steps, "failed") PROVE PlanInv'
  BY <1>0, <1>c, ClosedSane DEF PlanInv
<1>d. ASSUME NEW turn, Sane(turn.steps), NEW switch, Becomes(MarkRepair(turn, switch)) PROVE PlanInv'
  BY <1>d, MarkRepairPlan DEF Becomes, PlanInv
<1>1. CASE UNCHANGED vars
  BY <1>1, <1>a DEF vars
<1>2. CASE Begin
  <2>1. Sane(steps') BY <1>2, FreshSane, SavedSane DEF Begin
  <2>2. agent' \in {"understand", "plan"} BY <1>2 DEF Begin
  <2> QED BY <1>b, <2>1, <2>2
<1>3. CASE StartTurn
  BY <1>0, <1>3, <1>b DEF StartTurn
<1>4. CASE ProviderFails \/ RoundsSpent
  BY <1>4, <1>c DEF ProviderFails, RoundsSpent, Fail
<1>5. CASE ReplacePlan
  <2>1. CASE PlanSpent(rt) /\ ~CanExtendPlan(rt)
    BY <1>5, <2>1, <1>c DEF ReplacePlan, Fail
  <2>2. CASE ~(PlanSpent(rt) /\ ~CanExtendPlan(rt))
    <3>1. steps' \in FreshPlans BY <1>5, <2>2 DEF ReplacePlan
    <3> QED BY <3>1, FreshSane DEF PlanInv
  <2> QED BY <2>1, <2>2
<1>6. CASE AddFollowUp
  <2>1. steps' = Append(steps, "pending") /\ agent' = agent BY <1>6 DEF AddFollowUp
  <2> QED BY <1>0, <2>1, AppendSane DEF PlanInv
<1>7. CASE RepairRound
  BY <1>0, <1>7, <1>d DEF RepairRound, Turn
<1>8. CASE LiveCancel \/ ModelCallsTools \/ ModelAnswers \/ Flush \/ UnresolvedEdit \/ RejectAnswer \/ EpochRunsOut
  BY <1>8, <1>a DEF LiveCancel, ModelCallsTools, ModelAnswers, Flush, UnresolvedEdit, RejectAnswer, EpochRunsOut
<1>9. ASSUME NEW a \in Actions, AllowCall(a) \/ RefuseTerminal(a) PROVE PlanInv'
  BY <1>9, <1>a DEF AllowCall, RefuseTerminal
<1>10. ASSUME NEW a \in Actions, BlockRepeat(a) PROVE PlanInv'
  <2> DEFINE turn == [Turn EXCEPT !.s = GuardOutcome(a).s]
  <2>1. turn.steps = steps BY DEF Turn
  <2>2. (agent' = agent /\ steps' = steps) \/ Becomes(MarkRepair(turn, TRUE))
    BY <1>10 DEF BlockRepeat
  <2> HIDE DEF turn
  <2> QED BY <1>0, <1>a, <1>d, <2>1, <2>2
<1>11. CASE EndDrained
  BY <1>11, <1>a, <1>c DEF EndDrained, Fail
<1>12. ASSUME NEW o \in Observations, NEW success \in BOOLEAN, NEW empty \in BOOLEAN, NEW matches \in BOOLEAN,
              RecordResult(o, success, empty, matches)
       PROVE  PlanInv'
  <2> DEFINE useful == rt.phase \notin Terminal /\ Useful(rt, o, success /\ empty)
             advanced == Advance(steps, useful, matches)
             recorded == [s |-> Observe(rt, o, success /\ empty), agent |-> "observe", steps |-> advanced]
  <2>1. useful \in BOOLEAN BY DEF Useful
  <2>2. Sane(advanced)
    <3> HIDE DEF useful
    <3> QED BY <1>0, <2>1, AdvanceSane
  <2>3. recorded.steps = advanced /\ recorded.agent = "observe" OBVIOUS
  <2>4. \/ agent' = "failed" /\ steps' = Closed(advanced, "failed")
        \/ Becomes(MarkRepair(MarkRepair(recorded, TRUE), FALSE))
        \/ Becomes(MarkRepair(recorded, TRUE))
        \/ Becomes(MarkRepair(recorded, FALSE))
        \/ Becomes(recorded)
    BY <1>12 DEF RecordResult
  <2> HIDE DEF recorded, advanced
  <2>5. CASE steps' = Closed(advanced, "failed")
    BY <2>2, <2>5, ClosedSane DEF PlanInv
  <2>6. CASE Becomes(MarkRepair(MarkRepair(recorded, TRUE), FALSE))
    <3> DEFINE rerouted == MarkRepair(recorded, TRUE)
    <3>1. Sane(rerouted.steps) BY <2>2, <2>3, MarkRepairPlan
    <3> HIDE DEF rerouted
    <3> QED BY <1>d, <2>6, <3>1 DEF rerouted
  <2>7. CASE Becomes(MarkRepair(recorded, TRUE)) \/ Becomes(MarkRepair(recorded, FALSE))
    BY <1>d, <2>2, <2>3, <2>7
  <2>8. CASE Becomes(recorded)
    BY <1>b, <2>2, <2>3, <2>8 DEF Becomes
  <2> QED BY <2>4, <2>5, <2>6, <2>7, <2>8
<1>13. CASE Validate
  BY <1>0, <1>13, <1>b DEF Validate
<1>14. CASE RetryOnFreshRoute
  BY <1>0, <1>14, <1>d DEF RetryOnFreshRoute, Turn
<1>15. CASE StopHookBlocks
  <2>1. steps' = Closed(steps, "failed") \/ Becomes(MarkRepair(Turn, FALSE))
    BY <1>15 DEF StopHookBlocks, Fail
  <2> QED BY <1>0, <1>c, <1>d, <2>1 DEF Turn
<1>16. CASE CompleteTurn
  <2>1. CASE steps' = [i \in DOMAIN steps |-> "completed"]
    <3>1. PICK n \in Nat : steps \in [1 .. n -> Statuses] BY <1>0 DEF Sane, SomePlan
    <3>2. steps' \in [1 .. n -> Statuses] /\ \A i \in 1 .. n : steps'[i] = "completed"
      BY <2>1, <3>1 DEF Statuses
    <3> QED BY <3>2 DEF PlanInv, Sane, SomePlan, AtMostOne, Has
  <2>2. CASE \E report \in SUBSET (DOMAIN steps) : steps' = Closed(Delivered(steps, report), "failed")
    <3>1. PICK report : steps' = Closed(Delivered(steps, report), "failed") BY <2>2
    <3>2. Sane(Delivered(steps, report)) BY <1>0, DeliveredSane
    <3> QED BY <3>1, <3>2, ClosedSane DEF PlanInv
  <2> QED BY <1>16, <2>1, <2>2 DEF CompleteTurn
<1> QED BY <1>1, <1>2, <1>3, <1>4, <1>5, <1>6, <1>7, <1>8, <1>9, <1>10, <1>11, <1>12, <1>13,
           <1>14, <1>15, <1>16 DEF Next, Loop

LEMMA PlanAlways == Spec => []PlanInv
<1>1. Init => PlanInv
  <2> SUFFICES ASSUME Init PROVE PlanInv
    OBVIOUS
  <2>1. steps \in [1 .. 0 -> Statuses] /\ agent = "understand" BY DEF Init
  <2> QED BY <2>1 DEF PlanInv, Sane, SomePlan, AtMostOne
<1> QED BY <1>1, PlanNext, PTL DEF Spec

(* No operation on the plan leaves two of its steps in progress.           *)
THEOREM OneStepInProgressTheorem == Spec => []OneStepInProgress
<1>1. PlanInv => OneStepInProgress
  BY DEF PlanInv, Sane, AtMostOne, OneStepInProgress
<1> QED BY <1>1, PlanAlways, PTL

(* A task declared completed or failed has no step still in progress.      *)
THEOREM EndedPlanIsClosedTheorem == Spec => []EndedPlanIsClosed
<1>1. PlanInv => EndedPlanIsClosed
  BY DEF PlanInv, EndedPlanIsClosed
<1> QED BY <1>1, PlanAlways, PTL

\* Both, as the run checks them.
THEOREM PlanIsConsistentTheorem == Spec => []PlanIsConsistent
<1>1. PlanInv => PlanIsConsistent
  BY DEF PlanInv, Sane, AtMostOne, OneStepInProgress, EndedPlanIsClosed, PlanIsConsistent
<1> QED BY <1>1, PlanAlways, PTL
-----------------------------------------------------------------------------
(* Work done is kept: every operation on the plan, other than one that     *)
(* replaces it, leaves completed steps completed.                          *)

Keeps(st, t) == \A i \in DOMAIN st : st[i] = "completed" => i \in DOMAIN t /\ t[i] = "completed"

LEMMA LeastElement ==
    ASSUME NEW T, T \subseteq Nat, T # {}
    PROVE  \E m \in T : \A k \in T : m <= k
<1> DEFINE R == OpToRel(<, Nat)
<1>1. IsWellFoundedOn(R, Nat)
  BY NatLessThanWellFounded
<1>2. \A i, j \in Nat : i < j => <<i, j>> \in R
  BY DEF OpToRel
<1> HIDE DEF R
<1>3. PICK m \in T : \A k \in T : ~ (<<k, m>> \in R)
  BY <1>1, WFMin
<1>4. \A k \in T : m <= k
  <2> SUFFICES ASSUME NEW k \in T PROVE m <= k
    OBVIOUS
  <2>1. k \in Nat /\ m \in Nat /\ ~(k < m)
    BY <1>2, <1>3
  <2> QED BY <2>1
<1> QED BY <1>4

\* The first step of a status is a step of that status.
LEMMA FirstIsThere ==
    ASSUME NEW st \in SomePlan, NEW status, Has(st, status)
    PROVE  First(st, status) \in DOMAIN st /\ st[First(st, status)] = status
<1>1. PICK n \in Nat : st \in [1 .. n -> Statuses] BY DEF SomePlan
<1> DEFINE T == {i \in 1 .. n : st[i] = status}
<1>2. T \subseteq Nat /\ T # {} BY <1>1 DEF Has
<1>3. PICK m \in T : \A k \in T : m <= k
  <2> HIDE DEF T
  <2> QED BY <1>2, LeastElement
<1>4. m \in 1 .. n /\ st[m] = status BY <1>3
<1>5. \A j \in 1 .. (m - 1) : st[j] # status
  <2> SUFFICES ASSUME NEW j \in 1 .. (m - 1), st[j] = status PROVE FALSE
    OBVIOUS
  <2>1. j \in T BY <1>1, <1>4
  <2>2. m <= j BY <1>3, <2>1
  <2> QED BY <1>4, <2>2
<1>6. m \in DOMAIN st BY <1>1, <1>4
<1> QED BY <1>4, <1>5, <1>6 DEF First

LEMMA ClosedKeeps ==
    ASSUME NEW st, NEW status
    PROVE  Keeps(st, Closed(st, status))
BY DEF Keeps, Closed

\* A step that is not completed may be given any status.
LEMMA OtherKeeps ==
    ASSUME NEW st \in SomePlan, NEW k \in DOMAIN st, st[k] # "completed", NEW status
    PROVE  Keeps(st, [st EXCEPT ![k] = status])
BY DEF Keeps, SomePlan

LEMMA StartedKeeps ==
    ASSUME NEW st, Sane(st)
    PROVE  Keeps(st, Started(st))
<1>0. st \in SomePlan BY DEF Sane
<1>1. CASE Has(st, "in_progress") \/ ~Has(st, "pending")
  BY <1>1 DEF Started, Keeps
<1>2. CASE ~Has(st, "in_progress") /\ Has(st, "pending")
  <2> DEFINE k == First(st, "pending")
  <2>1. k \in DOMAIN st /\ st[k] = "pending" BY <1>0, <1>2, FirstIsThere
  <2>2. Started(st) = [st EXCEPT ![k] = "in_progress"] BY <1>2 DEF Started
  <2> HIDE DEF k
  <2> QED BY <1>0, <2>1, <2>2, OtherKeeps
<1> QED BY <1>1, <1>2

LEMMA AdvanceKeeps ==
    ASSUME NEW st, Sane(st), NEW useful \in BOOLEAN, NEW matches \in BOOLEAN
    PROVE  Keeps(st, Advance(st, useful, matches))
<1> DEFINE begun == Started(st)
<1>1. Sane(begun) /\ Keeps(st, begun) BY StartedSane, StartedKeeps
<1> HIDE DEF begun
<1>2. begun \in SomePlan BY <1>1 DEF Sane
<1>3. CASE ~(useful /\ matches /\ Has(begun, "in_progress"))
  BY <1>1, <1>3 DEF Advance, begun
<1>4. CASE useful /\ matches /\ Has(begun, "in_progress")
  <2> DEFINE a == First(begun, "in_progress")
             done == [begun EXCEPT ![a] = "completed"]
             p == First(done, "pending")
  <2>1. a \in DOMAIN begun /\ begun[a] = "in_progress" BY <1>2, <1>4, FirstIsThere
  <2>2. Advance(st, useful, matches) = IF Has(done, "pending") THEN [done EXCEPT ![p] = "in_progress"] ELSE done
    BY <1>4 DEF Advance, begun
  <2> HIDE DEF a
  <2>3. done \in SomePlan BY <1>2 DEF SomePlan, Statuses
  <2>4. Keeps(begun, done) BY <1>2, <2>1, OtherKeeps
  <2> HIDE DEF done
  <2>5. Keeps(done, Advance(st, useful, matches))
    <3>1. CASE Has(done, "pending")
      <4>1. p \in DOMAIN done /\ done[p] = "pending" BY <2>3, <3>1, FirstIsThere
      <4> HIDE DEF p
      <4> QED BY <2>2, <2>3, <3>1, <4>1, OtherKeeps
    <3>2. CASE ~Has(done, "pending")
      BY <2>2, <3>2 DEF Keeps
    <3> QED BY <3>1, <3>2
  <2> QED BY <1>1, <2>4, <2>5 DEF Keeps
<1> QED BY <1>3, <1>4

LEMMA DeliveredKeeps ==
    ASSUME NEW st, NEW which
    PROVE  Keeps(st, Delivered(st, which))
BY DEF Keeps, Delivered

LEMMA FollowUpKeeps ==
    ASSUME NEW st \in SomePlan
    PROVE  Keeps(st, Append(st, "pending"))
<1>1. st \in Seq(Statuses) BY SeqDef DEF SomePlan
<1>2. "pending" \in Statuses BY DEF Statuses
<1> DEFINE app == Append(st, "pending")
<1>3. /\ app \in Seq(Statuses) /\ Len(app) = Len(st) + 1
      /\ \A i \in 1 .. Len(st) : app[i] = st[i]
  BY <1>1, <1>2, AppendProperties
<1> HIDE DEF app
<1>4. DOMAIN st = 1 .. Len(st) /\ DOMAIN app = 1 .. Len(app) /\ Len(st) \in Nat BY <1>1, <1>3, LenProperties
<1>5. Keeps(st, app) BY <1>3, <1>4 DEF Keeps
<1> QED BY <1>5 DEF app

LEMMA MarkRepairKeeps ==
    ASSUME NEW turn, NEW switch
    PROVE  Keeps(turn.steps, MarkRepair(turn, switch).steps)
BY ClosedKeeps DEF MarkRepair, Keeps

LEMMA StepKeeps ==
    ASSUME PlanInv, [Next]_vars, pc # "begin", replans' = replans
    PROVE  Keeps(steps, steps')
<1>0. Sane(steps) /\ steps \in SomePlan BY DEF PlanInv, Sane
<1>a. ASSUME steps' = steps PROVE Keeps(steps, steps')
  BY <1>a DEF Keeps
<1>c. ASSUME steps' = Closed(steps, "failed") PROVE Keeps(steps, steps')
  BY <1>c, ClosedKeeps
<1>d. ASSUME NEW turn, Keeps(steps, turn.steps), NEW switch, Becomes(MarkRepair(turn, switch))
      PROVE  Keeps(steps, steps')
  BY <1>d, MarkRepairKeeps DEF Becomes, Keeps
<1>t. Keeps(steps, Turn.steps) BY DEF Turn, Keeps
<1>1. CASE UNCHANGED vars
  BY <1>1, <1>a DEF vars
<1>2. CASE Begin \/ ReplacePlan
  BY <1>2 DEF Begin, ReplacePlan
<1>3. CASE ProviderFails \/ RoundsSpent
  BY <1>3, <1>c DEF ProviderFails, RoundsSpent, Fail
<1>4. CASE AddFollowUp
  BY <1>0, <1>4, FollowUpKeeps DEF AddFollowUp
<1>5. CASE RepairRound \/ RetryOnFreshRoute
  BY <1>5, <1>d, <1>t DEF RepairRound, RetryOnFreshRoute
<1>6. CASE \/ StartTurn \/ LiveCancel \/ ModelCallsTools \/ ModelAnswers \/ Flush \/ UnresolvedEdit
           \/ Validate \/ RejectAnswer \/ EpochRunsOut
  BY <1>6, <1>a DEF StartTurn, LiveCancel, ModelCallsTools, ModelAnswers, Flush, UnresolvedEdit, Validate,
     RejectAnswer, EpochRunsOut
<1>7. ASSUME NEW a \in Actions, AllowCall(a) \/ RefuseTerminal(a) PROVE Keeps(steps, steps')
  BY <1>7, <1>a DEF AllowCall, RefuseTerminal
<1>8. ASSUME NEW a \in Actions, BlockRepeat(a) PROVE Keeps(steps, steps')
  <2> DEFINE turn == [Turn EXCEPT !.s = GuardOutcome(a).s]
  <2>1. turn.steps = steps BY DEF Turn
  <2>2. steps' = steps \/ Becomes(MarkRepair(turn, TRUE))
    BY <1>8 DEF BlockRepeat
  <2> HIDE DEF turn
  <2>3. Keeps(steps, turn.steps) BY <2>1 DEF Keeps
  <2> QED BY <1>a, <1>d, <2>2, <2>3
<1>9. CASE EndDrained
  BY <1>9, <1>a, <1>c DEF EndDrained, Fail
<1>10. ASSUME NEW o \in Observations, NEW success \in BOOLEAN, NEW empty \in BOOLEAN, NEW matches \in BOOLEAN,
              RecordResult(o, success, empty, matches)
       PROVE  Keeps(steps, steps')
  <2> DEFINE useful == rt.phase \notin Terminal /\ Useful(rt, o, success /\ empty)
             advanced == Advance(steps, useful, matches)
             recorded == [s |-> Observe(rt, o, success /\ empty), agent |-> "observe", steps |-> advanced]
  <2>1. useful \in BOOLEAN BY DEF Useful
  <2>2. Keeps(steps, advanced)
    <3> HIDE DEF useful
    <3> QED BY <1>0, <2>1, AdvanceKeeps
  <2>3. recorded.steps = advanced OBVIOUS
  <2>4. \/ steps' = Closed(advanced, "failed")
        \/ Becomes(MarkRepair(MarkRepair(recorded, TRUE), FALSE))
        \/ Becomes(MarkRepair(recorded, TRUE))
        \/ Becomes(MarkRepair(recorded, FALSE))
        \/ Becomes(recorded)
    BY <1>10 DEF RecordResult
  <2> HIDE DEF recorded, advanced
  <2>5. CASE steps' = Closed(advanced, "failed")
    BY <2>2, <2>5, ClosedKeeps DEF Keeps
  <2>6. CASE Becomes(MarkRepair(MarkRepair(recorded, TRUE), FALSE))
    <3> DEFINE rerouted == MarkRepair(recorded, TRUE)
    <3>1. Keeps(steps, rerouted.steps) BY <2>2, <2>3, MarkRepairKeeps DEF Keeps
    <3> HIDE DEF rerouted
    <3> QED BY <1>d, <2>6, <3>1 DEF rerouted
  <2>7. CASE Becomes(MarkRepair(recorded, TRUE)) \/ Becomes(MarkRepair(recorded, FALSE))
    BY <1>d, <2>2, <2>3, <2>7
  <2>8. CASE Becomes(recorded)
    BY <2>2, <2>3, <2>8 DEF Becomes
  <2> QED BY <2>4, <2>5, <2>6, <2>7, <2>8
<1>11. CASE StopHookBlocks
  <2>1. steps' = Closed(steps, "failed") \/ Becomes(MarkRepair(Turn, FALSE))
    BY <1>11 DEF StopHookBlocks, Fail
  <2> QED BY <1>c, <1>d, <1>t, <2>1
<1>12. CASE CompleteTurn
  <2>1. CASE steps' = [i \in DOMAIN steps |-> "completed"]
    BY <2>1 DEF Keeps
  <2>2. CASE \E report \in SUBSET (DOMAIN steps) : steps' = Closed(Delivered(steps, report), "failed")
    <3>1. PICK report : steps' = Closed(Delivered(steps, report), "failed") BY <2>2
    <3> QED BY <3>1, DeliveredKeeps, ClosedKeeps DEF Keeps
  <2> QED BY <1>12, <2>1, <2>2 DEF CompleteTurn
<1> QED BY <1>1, <1>2, <1>3, <1>4, <1>5, <1>6, <1>7, <1>8, <1>9, <1>10, <1>11, <1>12 DEF Next, Loop

(* Work already done is not lost: results, repairs, follow-ups, failures   *)
(* and the delivery report leave a completed step completed, until the     *)
(* plan is replaced as a whole.                                            *)
THEOREM CompletedStepsKeptTheorem == Spec => CompletedStepsKept
<1>1. PlanInv /\ [Next]_vars =>
        [(pc # "begin" /\ replans' = replans) =>
            \A i \in DOMAIN steps :
               steps[i] = "completed" => i \in DOMAIN steps' /\ steps'[i] = "completed"]_vars
  BY StepKeeps DEF Keeps
<1> QED BY <1>1, PlanAlways, PTL DEF Spec, CompletedStepsKept

-----------------------------------------------------------------------------
(* Types.  rt, steps and ran have their types by the invariants above; the *)
(* loop's own variables are typed here.  A turn the stop hooks have        *)
(* blocked once too often has ended, which bounds stopBlocks.              *)

LoopInv ==
    /\ agent \in AgentPhases
    /\ readOnly \in BOOLEAN
    /\ pc \in Points /\ answerFrom \in Sources
    /\ batch \in Seq(Actions) /\ queue \in Seq(Actions)
    /\ round \in 0 .. MaxRounds
    /\ toolFailed \in BOOLEAN
    /\ replans \in 0 .. 2 /\ routeRetries \in 0 .. 1 /\ stopBlocks \in 0 .. MaxStopBlocks + 1
    /\ pc # "end" => stopBlocks <= MaxStopBlocks
    /\ outcome \in Outcomes

LEMMA PointsAndOutcomes ==
    ASSUME NEW point \in Points, Continues(point), outcome \in Outcomes
    PROVE  pc' \in Points /\ outcome' \in Outcomes
BY DEF Continues, Ended, Points, Outcomes

LEMMA RepairedAgent ==
    ASSUME NEW turn, NEW switch, Becomes(MarkRepair(turn, switch))
    PROVE  agent' \in AgentPhases
BY DEF Becomes, MarkRepair, AgentPhases

LEMMA LoopNext == LoopInv /\ [Next]_vars => LoopInv'
<1> SUFFICES ASSUME LoopInv, [Next]_vars PROVE LoopInv'
  OBVIOUS
<1> USE DEF LoopInv
<1>p. {"begin", "start", "top", "batch", "flush", "drain", "expire", "final", "validated", "end"} = Points
  BY DEF Points
<1>1. CASE UNCHANGED vars
  BY <1>1 DEF vars
<1>2. CASE Begin
  BY <1>2, <1>p DEF Begin, AgentPhases, retryVars
<1>3. CASE StartTurn
  BY <1>3, <1>p, PointsAndOutcomes DEF StartTurn, AgentPhases, retryVars, turnVars, loopVars
<1>4. CASE ProviderFails \/ RoundsSpent
  BY <1>4, <1>p DEF ProviderFails, RoundsSpent, Fail, Ended, AgentPhases, Outcomes, retryVars, turnVars, loopVars
<1>5. CASE ReplacePlan
  <2>1. agent' \in AgentPhases BY <1>5 DEF ReplacePlan, Fail, AgentPhases
  <2>2. pc' \in Points /\ outcome' \in Outcomes
    BY <1>5, <1>p, PointsAndOutcomes DEF ReplacePlan
  <2>3. replans' \in {1, 2} /\ pc = "top" BY <1>5 DEF ReplacePlan
  <2> QED BY <1>5, <2>1, <2>2, <2>3 DEF ReplacePlan, turnVars, loopVars
<1>6. CASE AddFollowUp
  BY <1>6 DEF AddFollowUp, turnVars, loopVars, retryVars
<1>7. CASE LiveCancel
  BY <1>7, <1>p DEF LiveCancel, Ended, Outcomes, turnVars, loopVars, retryVars
<1>8. CASE RepairRound
  <2>1. round' \in 0 .. MaxRounds BY <1>8, TurnAssumption DEF RepairRound
  <2>2. agent' \in AgentPhases BY <1>8, RepairedAgent DEF RepairRound
  <2>3. pc' \in Points /\ outcome' \in Outcomes BY <1>8, <1>p, PointsAndOutcomes DEF RepairRound
  <2> QED BY <1>8, <2>1, <2>2, <2>3 DEF RepairRound, turnVars, retryVars
<1>9. CASE ModelCallsTools
  <2>1. round' \in 0 .. MaxRounds BY <1>9, TurnAssumption DEF ModelCallsTools
  <2>2. batch' \in Seq(Actions)
    <3>1. PICK n \in 1 .. MaxBatch : batch' \in [1 .. n -> Actions] BY <1>9 DEF ModelCallsTools
    <3>2. n \in Nat BY TurnAssumption
    <3> QED BY <3>1, <3>2, SeqDef
  <2> QED BY <1>9, <1>p, <2>1, <2>2 DEF ModelCallsTools, turnVars, retryVars
<1>10. CASE ModelAnswers
  <2>1. round' \in 0 .. MaxRounds BY <1>10, TurnAssumption DEF ModelAnswers
  <2> QED BY <1>10, <1>p, <2>1 DEF ModelAnswers, Sources, retryVars
<1>11. ASSUME NEW a \in Actions, Guarded(a, "allowed") \/ Guarded(a, "repeated")
                                 \/ \E v \in {"terminal", "tools", "time"} : Guarded(a, v)
       PROVE  batch' \in Seq(Actions) /\ pc = "batch"
  <2>1. batch # <<>> /\ batch' = Tail(batch) /\ pc = "batch" BY <1>11 DEF Guarded
  <2> QED BY <2>1, HeadTailProperties
<1>12. ASSUME NEW a \in Actions, AllowCall(a) PROVE LoopInv'
  <2>1. batch' \in Seq(Actions) /\ pc = "batch" BY <1>11, <1>12 DEF AllowCall
  <2>2. queue' \in Seq(Actions)
    <3>1. Append(queue, a) \in Seq(Actions) BY AppendProperties
    <3>2. queue' = queue \/ queue' = Append(queue, a) BY <1>12 DEF AllowCall
    <3> QED BY <3>1, <3>2
  <2>3. pc' \in Points /\ outcome' \in Outcomes BY <1>12, <1>p, PointsAndOutcomes DEF AllowCall
  <2> QED BY <1>12, <2>1, <2>2, <2>3 DEF AllowCall, turnVars, retryVars
<1>13. ASSUME NEW a \in Actions, BlockRepeat(a) PROVE LoopInv'
  <2>1. batch' \in Seq(Actions) /\ pc = "batch" BY <1>11, <1>13 DEF BlockRepeat
  <2>2. agent' \in AgentPhases BY <1>13, RepairedAgent DEF BlockRepeat
  <2>3. pc' \in Points /\ outcome' \in Outcomes BY <1>13, <1>p, PointsAndOutcomes DEF BlockRepeat
  <2>4. answerFrom' \in Sources BY <1>13 DEF BlockRepeat, Sources
  <2> QED BY <1>13, <2>1, <2>2, <2>3, <2>4 DEF BlockRepeat, retryVars
<1>14. ASSUME NEW a \in Actions, RefuseTerminal(a) PROVE LoopInv'
  <2>1. batch' \in Seq(Actions) /\ pc = "batch" BY <1>11, <1>14 DEF RefuseTerminal
  <2>2. pc' \in Points BY <1>14, <1>p DEF RefuseTerminal
  <2> QED BY <1>14, <2>1, <2>2 DEF RefuseTerminal, turnVars, retryVars
<1>15. CASE EndDrained
  <2>1. agent' \in AgentPhases BY <1>15 DEF EndDrained, Fail, AgentPhases
  <2>2. pc' = "end" /\ outcome' \in Outcomes BY <1>15 DEF EndDrained, Ended, Outcomes
  <2> QED BY <1>15, <1>p, <2>1, <2>2 DEF EndDrained, turnVars, loopVars, retryVars
<1>16. CASE Flush
  BY <1>16, <1>p DEF Flush, turnVars, loopVars, retryVars
<1>17. ASSUME NEW o \in Observations, NEW success \in BOOLEAN, NEW empty \in BOOLEAN, NEW matches \in BOOLEAN,
              RecordResult(o, success, empty, matches)
       PROVE  LoopInv'
  <2>1. queue' \in Seq(Actions) /\ pc # "end"
    <3>1. queue # <<>> /\ queue' = Tail(queue) /\ pc # "end" BY <1>17 DEF RecordResult
    <3> QED BY <3>1, HeadTailProperties
  <2>2. agent' \in AgentPhases
    BY <1>17, RepairedAgent DEF RecordResult, Becomes, AgentPhases
  <2>3. pc' \in Points /\ outcome' \in Outcomes
    BY <1>17, <1>p, PointsAndOutcomes DEF RecordResult, Ended, Outcomes
  <2>4. answerFrom' \in Sources BY <1>17 DEF RecordResult, Sources
  <2>5. toolFailed' \in BOOLEAN BY <1>17 DEF RecordResult
  <2> QED BY <1>17, <2>1, <2>2, <2>3, <2>4, <2>5 DEF RecordResult, retryVars
<1>18. CASE UnresolvedEdit \/ RejectAnswer
  BY <1>18, <1>p DEF UnresolvedEdit, RejectAnswer, Ended, Outcomes, turnVars, loopVars, retryVars
<1>19. CASE Validate
  BY <1>19, <1>p, PointsAndOutcomes DEF Validate, AgentPhases, turnVars, loopVars, retryVars
<1>20. ASSUME Resumes PROVE pc' \in Points /\ outcome' \in Outcomes
  BY <1>20, <1>p, PointsAndOutcomes DEF Resumes, Ended, Outcomes
<1>21. CASE RetryOnFreshRoute
  <2>1. agent' \in AgentPhases BY <1>21, RepairedAgent DEF RetryOnFreshRoute
  <2>2. pc = "validated" /\ routeRetries' \in 0 .. 1 BY <1>21 DEF RetryOnFreshRoute
  <2> QED BY <1>20, <1>21, <2>1, <2>2 DEF RetryOnFreshRoute, turnVars, loopVars
<1>22. CASE StopHookBlocks
  <2>1. agent' \in AgentPhases BY <1>22, RepairedAgent DEF StopHookBlocks, Fail, AgentPhases
  <2>2. pc' \in Points /\ outcome' \in Outcomes
    <3>1. Ended("failed") \/ Resumes BY <1>22 DEF StopHookBlocks
    <3>2. CASE Ended("failed") BY <3>2, <1>p DEF Ended, Outcomes
    <3> QED BY <1>20, <3>1, <3>2
  <2>3. /\ stopBlocks' \in 0 .. MaxStopBlocks + 1
        /\ pc' # "end" => stopBlocks' <= MaxStopBlocks
    <3>1. stopBlocks' = stopBlocks + 1 /\ pc = "validated" BY <1>22 DEF StopHookBlocks
    <3>2. stopBlocks + 1 > MaxStopBlocks => pc' = "end" BY <1>22 DEF StopHookBlocks, Ended
    <3>3. stopBlocks \in 0 .. MaxStopBlocks /\ MaxStopBlocks \in Nat BY <3>1, TurnAssumption
    <3> QED BY <3>1, <3>2, <3>3
  <2> QED BY <1>22, <2>1, <2>2, <2>3 DEF StopHookBlocks, turnVars, loopVars
<1>23. CASE CompleteTurn
  <2>1. agent' \in AgentPhases BY <1>23 DEF CompleteTurn, AgentPhases
  <2>2. pc' = "end" /\ outcome' \in Outcomes BY <1>23 DEF CompleteTurn, Ended, Outcomes
  <2> QED BY <1>23, <1>p, <2>1, <2>2 DEF CompleteTurn, turnVars, loopVars, retryVars
<1>24. CASE EpochRunsOut
  BY <1>24 DEF EpochRunsOut, turnVars, loopVars, retryVars
<1> QED BY <1>1, <1>2, <1>3, <1>4, <1>5, <1>6, <1>7, <1>8, <1>9, <1>10, <1>12, <1>13, <1>14, <1>15,
           <1>16, <1>17, <1>18, <1>19, <1>21, <1>22, <1>23, <1>24 DEF Next, Loop

LEMMA LoopAlways == Spec => []LoopInv
<1>1. Init => LoopInv
  <2> SUFFICES ASSUME Init PROVE LoopInv
    OBVIOUS
  <2>1. batch \in Seq(Actions) /\ queue \in Seq(Actions) BY EmptySeq DEF Init
  <2>2. /\ agent \in AgentPhases /\ pc \in Points /\ answerFrom \in Sources /\ outcome \in Outcomes
        /\ readOnly \in BOOLEAN /\ toolFailed \in BOOLEAN
    BY DEF Init, AgentPhases, Points, Sources, Outcomes
  <2>3. /\ round \in 0 .. MaxRounds /\ replans \in 0 .. 2 /\ routeRetries \in 0 .. 1
        /\ stopBlocks \in 0 .. MaxStopBlocks + 1 /\ stopBlocks <= MaxStopBlocks
    <3>1. round = 0 /\ replans = 0 /\ routeRetries = 0 /\ stopBlocks = 0 BY DEF Init
    <3>2. MaxRounds \in Nat /\ MaxStopBlocks \in Nat BY TurnAssumption
    <3> QED BY <3>1, <3>2
  <2> QED BY <2>1, <2>2, <2>3 DEF LoopInv
<1> QED BY <1>1, LoopNext, PTL DEF Spec

(* Every variable of the turn keeps its type.                              *)
THEOREM TypeOKTheorem == Spec => []TypeOK
<1>1. Init => CountsInv
  <2> SUFFICES ASSUME Init PROVE CountsInv
    OBVIOUS
  <2>1. rt.action_counts = [a \in Actions |-> 0] /\ ran = [a \in Actions |-> 0]
    BY DEF Init, InitSnapshot
  <2> QED BY <2>1, BudgetsAssumption DEF CountsInv
<1>2. ControllerInv /\ CountsInv /\ [Next]_vars => CountsInv'
  BY CountsNext
<1>3. ControllerInv /\ CountsInv /\ PlanInv /\ LoopInv => TypeOK
  <2> SUFFICES ASSUME ControllerInv, CountsInv, PlanInv, LoopInv PROVE TypeOK
    OBVIOUS
  <2>1. rt \in Snapshot /\ epochSpent \in BOOLEAN BY DEF ControllerInv, Sound
  <2>2. steps \in Seq(Statuses)
    <3>1. PICK n \in Nat : steps \in [1 .. n -> Statuses] BY DEF PlanInv, Sane, SomePlan
    <3> QED BY <3>1, SeqDef
  <2> QED BY <2>1, <2>2 DEF TypeOK, CountsInv, LoopInv
<1> QED BY <1>1, <1>2, <1>3, ControllerAlways, PlanAlways, LoopAlways, PTL DEF Spec

-----------------------------------------------------------------------------
(* The end of the turn.                                                    *)

(* What a turn has left, the coarser first: rounds, answers that may be    *)
(* sent back, the stages of a round, the calls of the batch to guard and   *)
(* to take up, plans to draft, follow-ups and the time of the epoch.       *)
Resumptions == (1 - routeRetries) + (MaxStopBlocks + 1 - stopBlocks)
Stage ==
    CASE pc = "begin" -> 6 [] pc = "start" -> 5
      [] pc \in {"batch", "flush", "drain", "expire"} -> 4
      [] pc = "top" -> 3 [] pc = "final" -> 2 [] pc = "validated" -> 1
      [] OTHER -> 0
Guarding  == IF pc = "batch" THEN 1 ELSE 0
FollowUps == IF Len(steps) <= NumSteps THEN NumSteps + 1 - Len(steps) ELSE 0
Epoch     == IF epochSpent THEN 0 ELSE 1

Rank == <<MaxRounds - round, Resumptions, Stage, Len(batch), Len(queue), Guarding, 2 - replans, FollowUps, Epoch>>

Ranks   == [1 .. 9 -> Nat]
Descent == LexProductOrdering(OpToRel(<, Nat), Nat, 9)

\* A step leaves less than there was.
Descends == <<Rank', Rank>> \in Descent

LEMMA DescentEnds == IsWellFoundedOn(Descent, Ranks)
<1> DEFINE R == OpToRel(<, Nat)
<1>1. IsWellFoundedOn(R, Nat)
  BY NatLessThanWellFounded
<1> HIDE DEF R
<1>2. IsWellFoundedOn(LexProductOrdering(R, Nat, 9), [1 .. 9 -> Nat])
  BY <1>1, WFLexProductOrdering
<1> QED BY <1>2 DEF R, Descent, Ranks

LEMMA Falls ==
    ASSUME NEW a \in Ranks, NEW b \in Ranks, NEW k \in 1 .. 9, a[k] < b[k], \A j \in 1 .. k - 1 : a[j] = b[j]
    PROVE  <<a, b>> \in Descent
<1> DEFINE R == OpToRel(<, Nat)
<1>1. a[k] \in Nat /\ b[k] \in Nat
  BY DEF Ranks
<1>2. <<a[k], b[k]>> \in R
  BY <1>1 DEF OpToRel
<1> HIDE DEF R
<1>3. <<a, b>> \in LexProductOrdering(R, Nat, 9)
  BY <1>2 DEF LexProductOrdering, Ranks
<1> QED BY <1>3 DEF Descent, R

LEMMA NineNumbers ==
    ASSUME NEW a \in Nat, NEW b \in Nat, NEW c \in Nat, NEW d \in Nat, NEW e \in Nat, NEW f \in Nat,
           NEW g \in Nat, NEW h \in Nat, NEW i \in Nat
    PROVE  <<a, b, c, d, e, f, g, h, i>> \in Ranks
BY DEF Ranks

LEMMA Quantities == TypeOK => Rank \in Ranks
<1> SUFFICES ASSUME TypeOK PROVE Rank \in Ranks
  OBVIOUS
<1>1. MaxRounds - round \in Nat /\ Resumptions \in Nat /\ 2 - replans \in Nat
  BY TurnAssumption DEF TypeOK, Resumptions
<1>2. Stage \in Nat /\ Guarding \in Nat /\ Epoch \in Nat
  BY DEF Stage, Guarding, Epoch
<1>3. Len(batch) \in Nat /\ Len(queue) \in Nat /\ Len(steps) \in Nat
  BY LenProperties DEF TypeOK
<1>4. FollowUps \in Nat
  BY <1>3, TurnAssumption DEF FollowUps
<1> QED BY <1>1, <1>2, <1>3, <1>4, NineNumbers DEF Rank

\* One of the quantities falls, and those before it stay.
Sooner ==
    \/ round' > round
    \/ UNCHANGED round /\ Resumptions' < Resumptions
    \/ /\ UNCHANGED <<round, Resumptions>>
       /\ \/ Stage' < Stage
          \/ UNCHANGED Stage /\ Len(batch') < Len(batch)
          \/ UNCHANGED <<Stage, batch>> /\ Len(queue') < Len(queue)
          \/ UNCHANGED <<Stage, batch, queue>> /\ Guarding' < Guarding
          \/ UNCHANGED <<Stage, batch, queue, Guarding>> /\ replans' > replans
          \/ UNCHANGED <<Stage, batch, queue, Guarding, replans>> /\ FollowUps' < FollowUps
          \/ UNCHANGED <<Stage, batch, queue, Guarding, replans, FollowUps>> /\ Epoch' < Epoch

LEMMA SoonerFalls == TypeOK /\ TypeOK' /\ Sooner => Descends
<1> SUFFICES ASSUME TypeOK, TypeOK', Sooner PROVE <<Rank', Rank>> \in Descent
  BY DEF Descends
<1> DEFINE a == Rank'
           b == Rank
<1>1. /\ a[1] = MaxRounds - round' /\ b[1] = MaxRounds - round /\ a[2] = Resumptions' /\ b[2] = Resumptions
      /\ a[3] = Stage' /\ b[3] = Stage /\ a[4] = Len(batch') /\ b[4] = Len(batch)
      /\ a[5] = Len(queue') /\ b[5] = Len(queue) /\ a[6] = Guarding' /\ b[6] = Guarding
      /\ a[7] = 2 - replans' /\ b[7] = 2 - replans /\ a[8] = FollowUps' /\ b[8] = FollowUps
      /\ a[9] = Epoch' /\ b[9] = Epoch
  BY DEF Rank
<1>2. a \in Ranks /\ b \in Ranks
  <2>1. Rank \in Ranks /\ (Rank \in Ranks)'
    BY Quantities, PTL
  <2> QED BY <2>1
<1>3. PICK m \in Int, x \in Int, x1 \in Int, y \in Int, y1 \in Int :
        m = MaxRounds /\ x = round /\ x1 = round' /\ y = replans /\ y1 = replans'
  BY TurnAssumption DEF TypeOK
<1> HIDE DEF a, b
<1>4. CASE round' > round
  <2>1. x1 > x
    BY <1>3, <1>4
  <2>2. m - x1 < m - x
    BY ONLY <2>1, m \in Int, x \in Int, x1 \in Int
  <2>3. a[1] < b[1]
    BY <1>1, <1>3, <2>2
  <2>4. \A j \in 1 .. 1 - 1 : a[j] = b[j]
    OBVIOUS
  <2> QED BY <1>2, <2>3, <2>4, Falls DEF a, b
<1>5. CASE UNCHANGED round /\ Resumptions' < Resumptions
  <2>1. a[1] = b[1] /\ a[2] < b[2]
    BY <1>1, <1>5
  <2>2. \A j \in 1 .. 2 - 1 : a[j] = b[j]
    BY <2>1
  <2> QED BY <1>2, <2>1, <2>2, Falls DEF a, b
<1>6. CASE UNCHANGED <<round, Resumptions>> /\ Stage' < Stage
  <2>1. a[1] = b[1] /\ a[2] = b[2] /\ a[3] < b[3]
    BY <1>1, <1>6
  <2>2. \A j \in 1 .. 3 - 1 : a[j] = b[j]
    BY <2>1
  <2> QED BY <1>2, <2>1, <2>2, Falls DEF a, b
<1>7. CASE UNCHANGED <<round, Resumptions, Stage>> /\ Len(batch') < Len(batch)
  <2>1. a[1] = b[1] /\ a[2] = b[2] /\ a[3] = b[3] /\ a[4] < b[4]
    BY <1>1, <1>7
  <2>2. \A j \in 1 .. 4 - 1 : a[j] = b[j]
    BY <2>1
  <2> QED BY <1>2, <2>1, <2>2, Falls DEF a, b
<1>8. CASE UNCHANGED <<round, Resumptions, Stage, batch>> /\ Len(queue') < Len(queue)
  <2>1. a[1] = b[1] /\ a[2] = b[2] /\ a[3] = b[3] /\ a[4] = b[4] /\ a[5] < b[5]
    BY <1>1, <1>8
  <2>2. \A j \in 1 .. 5 - 1 : a[j] = b[j]
    BY <2>1
  <2> QED BY <1>2, <2>1, <2>2, Falls DEF a, b
<1>9. CASE UNCHANGED <<round, Resumptions, Stage, batch, queue>> /\ Guarding' < Guarding
  <2>1. a[1] = b[1] /\ a[2] = b[2] /\ a[3] = b[3] /\ a[4] = b[4] /\ a[5] = b[5] /\ a[6] < b[6]
    BY <1>1, <1>9
  <2>2. \A j \in 1 .. 6 - 1 : a[j] = b[j]
    BY <2>1
  <2> QED BY <1>2, <2>1, <2>2, Falls DEF a, b
<1>10. CASE UNCHANGED <<round, Resumptions, Stage, batch, queue, Guarding>> /\ replans' > replans
  <2>1. y1 > y
    BY <1>3, <1>10
  <2>2. 2 - y1 < 2 - y
    BY ONLY <2>1, y \in Int, y1 \in Int
  <2>3. a[1] = b[1] /\ a[2] = b[2] /\ a[3] = b[3] /\ a[4] = b[4] /\ a[5] = b[5] /\ a[6] = b[6] /\ a[7] < b[7]
    BY <1>1, <1>3, <1>10, <2>2
  <2>4. \A j \in 1 .. 7 - 1 : a[j] = b[j]
    BY <2>3
  <2> QED BY <1>2, <2>3, <2>4, Falls DEF a, b
<1>11. CASE UNCHANGED <<round, Resumptions, Stage, batch, queue, Guarding, replans>> /\ FollowUps' < FollowUps
  <2>1. /\ a[1] = b[1] /\ a[2] = b[2] /\ a[3] = b[3] /\ a[4] = b[4] /\ a[5] = b[5] /\ a[6] = b[6] /\ a[7] = b[7]
        /\ a[8] < b[8]
    BY <1>1, <1>11
  <2>2. \A j \in 1 .. 8 - 1 : a[j] = b[j]
    BY <2>1
  <2> QED BY <1>2, <2>1, <2>2, Falls DEF a, b
<1>12. CASE UNCHANGED <<round, Resumptions, Stage, batch, queue, Guarding, replans, FollowUps>> /\ Epoch' < Epoch
  <2>1. /\ a[1] = b[1] /\ a[2] = b[2] /\ a[3] = b[3] /\ a[4] = b[4] /\ a[5] = b[5] /\ a[6] = b[6] /\ a[7] = b[7]
        /\ a[8] = b[8] /\ a[9] < b[9]
    BY <1>1, <1>12
  <2>2. \A j \in 1 .. 9 - 1 : a[j] = b[j]
    BY <2>1
  <2> QED BY <1>2, <2>1, <2>2, Falls DEF a, b
<1> QED BY <1>4, <1>5, <1>6, <1>7, <1>8, <1>9, <1>10, <1>11, <1>12 DEF Sooner

\* The stages before the first round, the ends of a turn and the answers.
LEMMA StageIsSooner ==
    ASSUME TypeOK,
           \/ Begin \/ StartTurn \/ ProviderFails \/ LiveCancel \/ RoundsSpent \/ EndDrained
           \/ UnresolvedEdit \/ Validate \/ RejectAnswer \/ CompleteTurn
    PROVE  Sooner
<1> USE DEF retryVars, loopVars, Ended
<1>1. UNCHANGED <<round, routeRetries, stopBlocks>> /\ Stage' < Stage
  <2> USE DEF Stage
  <2>1. CASE Begin
    BY <2>1 DEF Begin
  <2>2. CASE StartTurn
    <3>1. pc = "start" /\ pc' \in {"top", "end"} /\ UNCHANGED <<round, routeRetries, stopBlocks>>
      BY <2>2 DEF StartTurn, Continues
    <3> QED BY <3>1
  <2>3. CASE ProviderFails \/ LiveCancel \/ RoundsSpent \/ EndDrained
    <3>1. pc \in {"start", "top", "final", "drain", "expire"} /\ pc' = "end" /\ UNCHANGED <<round, routeRetries, stopBlocks>>
      BY <2>3 DEF ProviderFails, LiveCancel, RoundsSpent, EndDrained
    <3> QED BY <3>1
  <2>4. CASE Validate
    <3>1. pc = "final" /\ pc' \in {"validated", "end"} /\ UNCHANGED <<round, routeRetries, stopBlocks>>
      BY <2>4 DEF Validate, Continues
    <3> QED BY <3>1
  <2>5. CASE UnresolvedEdit \/ RejectAnswer \/ CompleteTurn
    <3>1. pc \in {"final", "validated"} /\ pc' = "end" /\ UNCHANGED <<round, routeRetries, stopBlocks>>
      BY <2>5 DEF UnresolvedEdit, RejectAnswer, CompleteTurn
    <3> QED BY <3>1
  <2> QED BY <2>1, <2>2, <2>3, <2>4, <2>5
<1>2. UNCHANGED Resumptions
  BY <1>1 DEF Resumptions
<1> QED BY <1>1, <1>2 DEF Sooner

\* A round more, or an answer sent back.
LEMMA RoundIsSooner ==
    ASSUME TypeOK, RepairRound \/ ModelCallsTools \/ ModelAnswers \/ RetryOnFreshRoute \/ StopHookBlocks
    PROVE  Sooner
<1>1. CASE RepairRound \/ ModelCallsTools \/ ModelAnswers
  <2>1. round' = round + 1 /\ round \in Nat
    BY <1>1 DEF RepairRound, ModelCallsTools, ModelAnswers, TypeOK
  <2> QED BY <2>1 DEF Sooner
<1>2. CASE RetryOnFreshRoute \/ StopHookBlocks
  <2>1. /\ UNCHANGED round
        /\ \/ routeRetries' = routeRetries + 1 /\ stopBlocks' = stopBlocks
           \/ stopBlocks' = stopBlocks + 1 /\ routeRetries' = routeRetries
    BY <1>2 DEF RetryOnFreshRoute, StopHookBlocks, loopVars
  <2>2. routeRetries \in Nat /\ stopBlocks \in Nat /\ MaxStopBlocks \in Nat
    BY TurnAssumption DEF TypeOK
  <2>3. Resumptions' < Resumptions
    BY <2>1, <2>2 DEF Resumptions
  <2> QED BY <2>1, <2>3 DEF Sooner
<1> QED BY <1>1, <1>2

LEMMA ShorterTail ==
    ASSUME NEW S, NEW s \in Seq(S), s # <<>>
    PROVE  Len(Tail(s)) < Len(s)
BY HeadTailProperties, LenProperties

\* The calls of a batch are guarded, and taken up.
LEMMA CallIsSooner ==
    ASSUME TypeOK, NEW a \in Actions, AllowCall(a) \/ BlockRepeat(a) \/ RefuseTerminal(a)
    PROVE  Sooner
<1>1. pc = "batch" /\ batch # <<>> /\ batch' = Tail(batch) /\ UNCHANGED <<round, routeRetries, stopBlocks>>
  BY DEF AllowCall, BlockRepeat, RefuseTerminal, Guarded, retryVars
<1>2. pc' \in {"batch", "drain", "expire", "final", "end"}
  <2>1. CASE AllowCall(a)
    BY <2>1 DEF AllowCall, Continues, Ended
  <2>2. CASE BlockRepeat(a)
    BY <2>2 DEF BlockRepeat, Continues, Ended
  <2>3. CASE RefuseTerminal(a)
    BY <2>3 DEF RefuseTerminal
  <2> QED BY <2>1, <2>2, <2>3
<1>3. Len(batch') < Len(batch)
  BY <1>1, ShorterTail DEF TypeOK
<1>4. Resumptions' = Resumptions /\ (Stage' = Stage \/ Stage' < Stage)
  BY <1>1, <1>2 DEF Resumptions, Stage
<1> QED BY <1>1, <1>3, <1>4 DEF Sooner

LEMMA ResultIsSooner ==
    ASSUME TypeOK, NEW o \in Observations, NEW success \in BOOLEAN, NEW empty \in BOOLEAN, NEW matches \in BOOLEAN,
           RecordResult(o, success, empty, matches)
    PROVE  Sooner
<1>1. /\ pc \in {"flush", "drain", "expire"} /\ queue # <<>> /\ queue' = Tail(queue)
      /\ UNCHANGED <<batch, round, routeRetries, stopBlocks>>
  BY DEF RecordResult, retryVars
<1>2. pc' \in {pc, "batch", "top", "final", "end"}
  BY DEF RecordResult, Continues, Ended
<1>3. Len(queue') < Len(queue)
  BY <1>1, ShorterTail DEF TypeOK
<1>4. Resumptions' = Resumptions /\ (Stage' = Stage \/ Stage' < Stage)
  BY <1>1, <1>2 DEF Resumptions, Stage
<1> QED BY <1>1, <1>3, <1>4 DEF Sooner

LEMMA FlushIsSooner == ASSUME TypeOK, Flush PROVE Sooner
<1>1. pc = "batch" /\ pc' \in {"top", "flush"} /\ UNCHANGED <<batch, queue, round, routeRetries, stopBlocks>>
  BY DEF Flush, loopVars, retryVars
<1>2. Resumptions' = Resumptions /\ (Stage' < Stage \/ (Stage' = Stage /\ Guarding' < Guarding))
  BY <1>1 DEF Resumptions, Stage, Guarding
<1> QED BY <1>1, <1>2 DEF Sooner

\* Between two rounds the plan may change, and time passes.
LEMMA PlanIsSooner == ASSUME TypeOK, ReplacePlan \/ AddFollowUp \/ EpochRunsOut PROVE Sooner
<1> USE DEF loopVars, retryVars
<1>1. CASE ReplacePlan
  <2>1. pc = "top" /\ pc' \in {"top", "end"} /\ UNCHANGED <<batch, queue, round, routeRetries, stopBlocks>>
    BY <1>1 DEF ReplacePlan, Continues, Ended
  <2>2. replans' > replans
    BY <1>1 DEF ReplacePlan, TypeOK
  <2>3. Resumptions' = Resumptions /\ Guarding' = Guarding /\ (Stage' = Stage \/ Stage' < Stage)
    BY <2>1 DEF Resumptions, Stage, Guarding
  <2> QED BY <2>1, <2>2, <2>3 DEF Sooner
<1>2. CASE AddFollowUp
  <2>1. UNCHANGED <<pc, batch, queue, round, replans, routeRetries, stopBlocks>>
    BY <1>2 DEF AddFollowUp
  <2>2. UNCHANGED <<Resumptions, Stage, Guarding>>
    BY <2>1 DEF Resumptions, Stage, Guarding
  <2>3. Len(steps') = Len(steps) + 1 /\ Len(steps) \in Nat /\ Len(steps) <= NumSteps
    <3>1. steps' = Append(steps, "pending") /\ Len(steps) \in 1 .. NumSteps /\ steps \in Seq(Statuses)
      BY <1>2 DEF AddFollowUp, TypeOK
    <3>2. "pending" \in Statuses
      BY DEF Statuses
    <3> QED BY <3>1, <3>2, AppendProperties, TurnAssumption
  <2>4. FollowUps' < FollowUps
    BY <2>3, TurnAssumption DEF FollowUps
  <2> QED BY <2>1, <2>2, <2>4 DEF Sooner
<1>3. CASE EpochRunsOut
  <2>1. UNCHANGED <<pc, steps, batch, queue, round, replans, routeRetries, stopBlocks>> /\ Epoch' < Epoch
    BY <1>3 DEF EpochRunsOut, Epoch
  <2>2. UNCHANGED <<Resumptions, Stage, Guarding, FollowUps>>
    BY <2>1 DEF Resumptions, Stage, Guarding, FollowUps
  <2> QED BY <2>1, <2>2 DEF Sooner
<1> QED BY <1>1, <1>2, <1>3

LEMMA EveryStepIsSooner == TypeOK /\ Next => Sooner
BY StageIsSooner, RoundIsSooner, CallIsSooner, ResultIsSooner, FlushIsSooner, PlanIsSooner DEF Next, Loop

(* A turn of the orchestrator takes finitely many steps, for any budgets,  *)
(* batches and plans: neither the extensions and renewals of its budgets,  *)
(* nor answers sent back by a validation or a hook, plans replaced or      *)
(* follow-ups typed elsewhere keep it going.                               *)
THEOREM TurnRunsDown ==
    /\ IsWellFoundedOn(Descent, Ranks)
    /\ Spec => [](Rank \in Ranks) /\ [][Descends]_vars
<1>1. TypeOK /\ TypeOK' /\ [Next]_vars => [Descends]_vars
  BY EveryStepIsSooner, SoonerFalls
<1>2. Spec => [](Rank \in Ranks) /\ [][Descends]_vars
  BY <1>1, TypeOKTheorem, Quantities, PTL DEF Spec
<1> QED BY <1>2, DescentEnds
=============================================================================
