--------------------------- MODULE CompletionProofs ---------------------------
(***************************************************************************)
(* What a completed turn has behind it: the commands the loop asks for     *)
(* (module RoundLoop) and the evidence the gate asks for (CompletionGate). *)
(* Theorems for turns of any length, any project, any files and any        *)
(* wording of the answers; and that a turn takes finitely many steps.      *)
(***************************************************************************)
EXTENDS RoundLoop, CompletionGate, FiniteSetTheorems, WellFoundedInduction, TLAPS

-----------------------------------------------------------------------------
(* The loop                                                                *)

(* Unless a resumption brought older results or a result was not what it   *)
(* seemed, what counts as confirmed or run passed after the last change; a *)
(* look at the layout is let off.                                          *)
Credited ==
    ~turn.resumed => \/ slipped
                     \/ confirmed \ Soft \subseteq since /\ (ran => "any" \in since)

\* An answer on its way out was verified when the loop let it go.
OnTheWay ==
    /\ pc \in {"final", "judge"} /\ ~rescued => Verified
    /\ ended.result = "completed" => pc = "done" /\ (~rescued => Verified)

LoopInv == Credited /\ OnTheWay

\* A step that leaves the work, its checks and the answer alone.
Beside ==
    /\ pc # "done" /\ UNCHANGED <<turn, work, ran, confirmed, since, slipped, rescued>>
    /\ pc' # "final" /\ (pc' = "judge" => pc = "final")
    /\ ended' = ended \/ ended'.result # "completed"

LEMMA BesideKeeps == LoopInv /\ Beside => LoopInv'
BY DEF LoopInv, Beside, Credited, OnTheWay, Verified, Unrun, Unconfirmed

LEMMA RequestsAreBeside == Requests => Beside
<1> USE DEF Go, End, Answers, Beside, rounds, loops, faults, proof, rescue
<1>1. Ask \/ FreshRoute \/ Exhausted => Beside
  BY DEF Ask, FreshRoute, Exhausted
<1>4. AskFails => Beside
  <2> SUFFICES ASSUME AskFails PROVE Beside
    OBVIOUS
  <2>1. pc = "ask" /\ UNCHANGED <<turn, work, ran, confirmed, since, slipped, rescued, ended>>
    BY DEF AskFails
  <2>2. \E can \in {TRUE, FALSE} : pc' = IF can THEN "retry" ELSE "exhausted"
    BY DEF AskFails
  <2> QED BY <2>1, <2>2
<1>5. NextPass => Beside
  BY DEF NextPass
<1>6. LastPass => Beside
  BY DEF LastPass
<1>2. ASSUME NEW p \in Providers, Skip(p) PROVE Beside
  BY <1>2 DEF Skip
<1>3. ASSUME NEW r \in Routes, TrySucceeds(r) \/ TryFails(r) PROVE Beside
  BY <1>3 DEF TrySucceeds, TryFails
<1> QED BY <1>1, <1>2, <1>3, <1>4, <1>5, <1>6 DEF Requests

LEMMA CorrectionsAreBeside ==
    \/ Steered \/ ReadPlannedFile \/ Discard \/ RecoverEmpty \/ Serialize
    \/ \E f \in Complaints : Correct(f) \/ Abandon(f)
    \/ PlanUnfinished \/ RequireRun \/ EvidenceMissing \/ AdviceOnly
    => Beside
<1> USE DEF Go, End, Strike, SwitchOrStop, Reroute, Spend, Beside, rounds, loops, faults, proof, rescue
<1>1. Steered \/ ReadPlannedFile => Beside
  BY DEF Steered, ReadPlannedFile
<1>2. Discard => Beside
  BY DEF Discard
<1>3. RecoverEmpty \/ Serialize => Beside
  BY DEF RecoverEmpty, Serialize
<1>4. ASSUME NEW f \in Complaints, Correct(f) PROVE Beside
  BY <1>4 DEF Correct
<1>5. ASSUME NEW f \in Complaints, Abandon(f) PROVE Beside
  BY <1>5 DEF Abandon
<1>6. PlanUnfinished \/ RequireRun \/ EvidenceMissing \/ AdviceOnly => Beside
  BY DEF PlanUnfinished, RequireRun, EvidenceMissing, AdviceOnly
<1> QED BY <1>1, <1>2, <1>3, <1>4, <1>5, <1>6

LEMMA OthersAreBeside ==
    \/ NextRound \/ OutOfRounds \/ GrantRound \/ Extend \/ LiveStop \/ LiveGo
    \/ Compact \/ RollOver \/ Widen \/ TooLarge
    \/ Continue \/ Reject \/ RetryElsewhere \/ StopHook
    \/ CountCalls \/ Malformed \/ Unoffered \/ UnofferedAgain \/ Looping \/ ToolsEnd
    \/ Nudge \/ LeaveStalledRoute \/ DisableTools
    => Beside
<1> USE DEF Go, End, Strike, Reroute, Spend, CleanSlate, Again, Beside, rounds, loops, faults, proof, rescue
<1>1. NextRound \/ OutOfRounds \/ GrantRound \/ Extend \/ LiveStop \/ LiveGo => Beside
  BY DEF NextRound, OutOfRounds, GrantRound, Extend, LiveStop, LiveGo
<1>2. Compact \/ RollOver \/ Widen \/ TooLarge => Beside
  BY DEF Compact, RollOver, Widen, TooLarge
<1>3. Continue \/ Reject \/ RetryElsewhere \/ StopHook => Beside
  BY DEF Continue, Reject, RetryElsewhere, StopHook
<1>4. CountCalls \/ Malformed \/ Unoffered \/ UnofferedAgain \/ Looping => Beside
  BY DEF CountCalls, Malformed, Unoffered, UnofferedAgain, Looping
<1>5. ToolsEnd \/ Nudge \/ LeaveStalledRoute \/ DisableTools => Beside
  BY DEF ToolsEnd, Nudge, LeaveStalledRoute, DisableTools
<1> QED BY <1>1, <1>2, <1>3, <1>4, <1>5

LEMMA InitLoopInv == Init => LoopInv
<1> SUFFICES ASSUME Init PROVE LoopInv
  OBVIOUS
<1>1. PICK done : (done # {} => turn.resumed) /\ ran = ("any" \in done) /\ confirmed = done \ {"any"}
  BY DEF Init, Restored
<1>2. Credited
  <2> SUFFICES ASSUME ~turn.resumed PROVE confirmed = {} /\ ~ran
    BY DEF Credited
  <2> QED BY <1>1
<1>3. pc = "top" /\ ended = Open
  BY DEF Init
<1>4. Open.result = "none"
  BY DEF Open
<1> QED BY <1>2, <1>3, <1>4 DEF LoopInv, OnTheWay

LEMMA StepLoopInv == LoopInv /\ [Next]_vars => LoopInv'
<1> SUFFICES ASSUME LoopInv, [Next]_vars PROVE LoopInv'
  OBVIOUS
<1> USE DEF Go, End, proof, rescue, LoopInv, Credited, OnTheWay, Verified, Unrun, Unconfirmed
<1>1. ASSUME NEW c \in turn.project, RequireCommand(c) PROVE LoopInv'
  BY <1>1 DEF RequireCommand
<1>2. CASE Deliver
  BY <1>2 DEF Deliver
<1>3. CASE Complete
  BY <1>3 DEF Complete
\* A change takes away what was confirmed before it, and what counted for it.
<1>4. CASE RunTools
  <2>1. PICK change \in {"none", "docs", "code"}, after, passed \in Commands, hidden \in BOOLEAN :
          Results(change, after, passed, hidden)
    BY <1>4 DEF RunTools
  <2>2. UNCHANGED <<turn, rescued, ended>> /\ pc = "dispatch" /\ pc' \in {"top", "stuck"}
    BY <1>4 DEF RunTools
  <2>3. ASSUME ~slipped', ~turn.resumed
        PROVE  confirmed' \ Soft \subseteq since' /\ (ran' => "any" \in since')
    <3>1. passed = after /\ ~hidden /\ (slipped => change # "none")
      BY <2>1, <2>3 DEF Results
    <3>2. since' = (IF change = "none" THEN since ELSE {}) \cup after
      BY <2>1, <3>1 DEF Results
    <3>3. /\ ran' = ("any" \in after \/ (ran /\ change = "none"))
          /\ confirmed' = (IF change # "none" THEN {} ELSE confirmed) \cup (after \cap turn.project)
      BY <2>1 DEF Results, ConfirmedAfter
    <3> QED BY <2>3, <3>1, <3>2, <3>3
  <2> QED BY <2>2, <2>3
<1>5. CASE Rescue
  BY <1>5 DEF Rescue
<1>6. CASE UNCHANGED vars
  BY <1>6 DEF vars
<1>7. CASE Prose
  BY <1>1, <1>2, <1>7, CorrectionsAreBeside, BesideKeeps DEF Prose
<1> QED BY <1>3, <1>4, <1>5, <1>6, <1>7, RequestsAreBeside, OthersAreBeside, BesideKeeps DEF Next

(* The check before an answer is final: when a turn completes with an      *)
(* answer of the model, every command of the project that looks at more    *)
(* than layout, or some command if it has none, has passed since its last  *)
(* change, whatever was corrected, retried, rerouted or repeated meanwhile;*)
(* unless a result since the last reported change was not what it seemed:  *)
(* of a command that had not passed, or beside a change it did not report. *)
THEOREM CompletedIsAlwaysVerified == Spec => []CompletedIsVerified
<1>1. LoopInv => CompletedIsVerified
  <2> SUFFICES ASSUME LoopInv, ended.result = "completed", ~rescued, ~turn.resumed, ~slipped PROVE Checked
    BY DEF CompletedIsVerified
  <2>1. Verified /\ Credited
    BY DEF LoopInv, OnTheWay
  <2> QED BY <2>1 DEF Verified, Unrun, Unconfirmed, Credited, Checked
<1> QED BY <1>1, InitLoopInv, StepLoopInv, PTL DEF Spec

-----------------------------------------------------------------------------
(* The types of the loop                                                   *)

LEMMA Numbers ==
    /\ Window \in Nat /\ Extensions \in Nat /\ MaxNovel \in Nat /\ LoopWindow \in Nat /\ Passes \in Nat
    /\ DeterministicPasses \in Nat /\ VerifyRetries \in Nat /\ MaxSize \in Nat
    /\ \A b \in Budgets : Limit[b] \in Nat /\ Limit[b] > 0
<1>1. /\ Window \in Nat /\ LoopWindow \in Nat
      /\ Extensions \in Nat /\ MaxNovel \in Nat /\ Passes \in Nat /\ DeterministicPasses \in Nat
      /\ VerifyRetries \in Nat /\ MaxSize \in Nat
  BY RoundLoopAssumption
<1>2. \A b \in Budgets : Limit[b] \in Nat \ {0}
  BY RoundLoopAssumption
<1> QED BY <1>1, <1>2

(* The types of the loop, and that its budget is spent at the cap.         *)
Bounded == TypeOK /\ (pc = "cap" => round >= cap)

LEMMA InitBounded == Init => Bounded
<1> SUFFICES ASSUME Init PROVE Bounded
  OBVIOUS
<1>1. PICK done \in Commands :
        /\ work \in IF turn.resumed THEN {"none", "docs", "code"} ELSE {"none"}
        /\ ran = ("any" \in done) /\ confirmed = done \ {"any"}
        /\ since \in Commands /\ slipped = FALSE
  BY DEF Init, Restored
<1>2. slipped \in BOOLEAN /\ work \in {"none", "docs", "code"} /\ ran \in BOOLEAN /\ confirmed \subseteq turn.project /\ since \in Commands
  <2>1. done \ {"any"} \subseteq turn.project
    BY DEF Commands
  <2>2. ran \in BOOLEAN
    BY ONLY <1>1
  <2>3. work \in {"none", "docs", "code"}
    BY <1>1
  <2> QED BY <1>1, <2>1, <2>2, <2>3
<1>3. retry \in [can : BOOLEAN, error : Errors, pool : SUBSET Providers, left : SUBSET Providers,
                  moved : BOOLEAN, passes : 0..Passes, det : 0..DeterministicPasses]
  BY RoundLoopAssumption DEF Init, NoRetry, Errors
<1>4. ended \in [result : {"none", "completed", "failed", "partial", "denied", "cancelled", "continue"},
                  agent : {"open", "completed", "failed"},
                  checkpoint : {"running", "checkpointing", "interrupted", "failed", "cleared"}]
  BY DEF Init, Open
<1>5. /\ corrected \in [Complaints -> SUBSET Providers] /\ struck \in [Faults -> SUBSET Providers]
      /\ used \in [Budgets -> Nat] /\ (\A b \in Budgets : used[b] <= Limit[b])
      /\ tries \in [turn.project -> 0..VerifyRetries]
  BY RoundLoopAssumption DEF Init
<1>6. /\ turn \in Turns /\ route \in Routes /\ stalled \subseteq Routes /\ pc = "top"
      /\ round = -1 /\ cap \in Nat /\ extensions \in 0..Extensions /\ novel \in 0..MaxNovel
      /\ identical \in Nat /\ seen \in 0..LoopWindow /\ called \in BOOLEAN /\ repeats \in 0..2
      /\ size \in 0..MaxSize /\ serialized \subseteq Providers /\ rescued \in BOOLEAN /\ inside \in BOOLEAN
  <2>1. turn \in Turns /\ route \in Routes /\ stalled \subseteq Routes /\ pc = "top" /\ serialized \subseteq Providers
    BY DEF Init
  <2>2. round = -1 /\ cap = Window /\ extensions = 0 /\ novel = 0 /\ identical = 0 /\ seen = 0 /\ repeats = 0 /\ size = 0
    BY DEF Init
  <2>3. called \in BOOLEAN /\ rescued \in BOOLEAN /\ inside \in BOOLEAN
    BY DEF Init
  <2> QED BY <2>1, <2>2, <2>3, Numbers
<1> QED BY <1>2, <1>3, <1>4, <1>5, <1>6 DEF Bounded, TypeOK

Outcomes == [result : {"none", "completed", "failed", "partial", "denied", "cancelled", "continue"},
             agent : {"open", "completed", "failed"},
             checkpoint : {"running", "checkpointing", "interrupted", "failed", "cleared"}]

Retries ==
    [can : BOOLEAN, error : Errors, pool : SUBSET Providers, left : SUBSET Providers,
     moved : BOOLEAN, passes : 0..Passes, det : 0..DeterministicPasses]

LEMMA SpendBounded ==
    ASSUME TypeOK, NEW b \in Budgets, Spend(b)
    PROVE  used' \in [Budgets -> Nat] /\ \A c \in Budgets : used'[c] <= Limit[c]
BY Numbers DEF TypeOK, Spend, MaySpend

LEMMA EndBounded ==
    ASSUME NEW r \in {"none", "completed", "failed", "partial", "denied", "cancelled", "continue"},
           NEW a \in {"open", "completed", "failed"},
           NEW c \in {"running", "checkpointing", "interrupted", "failed", "cleared"}, End(r, a, c)
    PROVE  pc' = "done" /\ ended' \in Outcomes
BY DEF End, Outcomes

LEMMA StrikeBounded ==
    ASSUME TypeOK, NEW f \in Faults, Strike(f)
    PROVE  struck' \in [Faults -> SUBSET Providers]
BY DEF TypeOK, Strike, Provider, Providers

LEMMA StepBounded == Bounded /\ [Next]_vars => Bounded'
<1> SUFFICES ASSUME Bounded, [Next]_vars PROVE Bounded'
  OBVIOUS
<1> USE Numbers DEF Bounded, TypeOK, Go, rounds, loops, faults, proof, rescue, Answers, Commands
<1>1. CASE NextRound
  BY <1>1 DEF NextRound
<1>2. CASE GrantRound \/ Extend \/ LiveGo
  BY <1>2 DEF GrantRound, Extend, LiveGo
<1>3. CASE OutOfRounds \/ LiveStop \/ TooLarge
  BY <1>3, EndBounded DEF OutOfRounds, LiveStop, TooLarge, Outcomes
<1>4. CASE Compact
  BY <1>4 DEF Compact
<1>5. CASE RollOver
  BY <1>5, SpendBounded DEF RollOver, Budgets
<1>6. CASE Widen
  BY <1>6 DEF Widen, Reroute
<1>7. CASE Continue
  BY <1>7, EndBounded DEF Continue, Reroute, Outcomes
<1>8. CASE Reject \/ Complete \/ ToolsEnd
  BY <1>8, EndBounded DEF Reject, Complete, ToolsEnd, Outcomes
<1>9. CASE RetryElsewhere
  <2>1. used' \in [Budgets -> Nat] /\ \A b \in Budgets : used'[b] <= Limit[b]
    BY <1>9, SpendBounded DEF RetryElsewhere, Budgets
  <2>2. pc' \in {"top", "done"} /\ ended' \in Outcomes /\ inside' \in BOOLEAN /\ route' \in Routes
    BY <1>9, EndBounded DEF RetryElsewhere, Again, Reroute, Outcomes
  <2> QED BY <1>9, <2>1, <2>2 DEF RetryElsewhere, Outcomes
<1>10. CASE StopHook
  <2>1. used' \in [Budgets -> Nat] /\ \A b \in Budgets : used'[b] <= Limit[b]
    BY <1>10, SpendBounded DEF StopHook, Budgets
  <2>2. pc' \in {"top", "done"} /\ ended' \in Outcomes /\ inside' \in BOOLEAN
    BY <1>10, EndBounded DEF StopHook, Again, Outcomes
  <2> QED BY <1>10, <2>1, <2>2 DEF StopHook, Outcomes
<1>11. CASE Malformed \/ Unoffered \/ Looping
  BY <1>11 DEF Malformed, Unoffered, Looping
<1>37. CASE CountCalls
  <2>1. identical' \in Nat /\ seen' \in 0..LoopWindow /\ called' \in BOOLEAN /\ pc' \in {"dispatch", "looping"}
    BY <1>37 DEF CountCalls
  <2> QED BY <1>37, <2>1 DEF CountCalls
<1>12. CASE UnofferedAgain
  BY <1>12, StrikeBounded DEF UnofferedAgain, Reroute, Faults
<1>13. CASE RunTools
  <2>1. PICK change \in {"none", "docs", "code"}, after, passed \in Commands, hidden \in BOOLEAN :
          Results(change, after, passed, hidden)
    BY <1>13 DEF RunTools
  <2>2. work' \in {"none", "docs", "code"} /\ confirmed' \subseteq turn.project
    BY <2>1 DEF Results, ConfirmedAfter
  <2>3. since' \in Commands
    BY <2>1 DEF Results
  <2>4. ran' \in BOOLEAN /\ slipped' \in BOOLEAN
    BY <2>1 DEF Results
  <2>5. novel' \in 0..MaxNovel
    <3>1. novel' \in {novel, IF novel < MaxNovel THEN novel + 1 ELSE novel} /\ novel \in 0..MaxNovel
      BY <1>13 DEF RunTools
    <3> QED BY <3>1
  <2>6. size' \in 0..MaxSize
    <3>1. size' \in {size, IF size < MaxSize THEN size + 1 ELSE size} /\ size \in 0..MaxSize
      BY <1>13 DEF RunTools
    <3> QED BY <3>1
  <2>7. inside' \in BOOLEAN /\ pc' \in {"top", "stuck"}
    BY <1>13 DEF RunTools
  <2> QED BY <1>13, <2>2, <2>3, <2>4, <2>5, <2>6, <2>7 DEF RunTools
<1>14. CASE Nudge
  <2>1. used' \in [Budgets -> Nat] /\ \A b \in Budgets : used'[b] <= Limit[b]
    BY <1>14, SpendBounded DEF Nudge, Budgets
  <2>2. identical' \in Nat /\ seen' \in 0..LoopWindow /\ inside' \in BOOLEAN /\ pc' = "top"
    <3>1. identical' = 0 /\ seen' = 0 /\ inside' = FALSE /\ pc' = "top"
      BY <1>14 DEF Nudge, CleanSlate
    <3>2. identical' \in Nat /\ seen' \in 0..LoopWindow
      BY ONLY <3>1, Numbers
    <3>3. inside' \in BOOLEAN
      BY <3>1
    <3> QED BY <3>1, <3>2, <3>3
  <2>3. UNCHANGED <<turn, rounds, novel, called, repeats, stalled, route, retry, size, faults, proof, rescued, ended>>
    BY <1>14 DEF Nudge
  <2> QED BY <2>1, <2>2, <2>3
<1>15. CASE LeaveStalledRoute
  <2>1. used' \in [Budgets -> Nat] /\ \A b \in Budgets : used'[b] <= Limit[b]
    <3>1. used' = [used EXCEPT !["nudge"] = 0]
      BY <1>15 DEF LeaveStalledRoute
    <3>2. used \in [Budgets -> Nat] /\ \A b \in Budgets : used[b] <= Limit[b]
      OBVIOUS
    <3>3. used' \in [Budgets -> Nat]
      BY ONLY <3>1, <3>2
    <3>4. ASSUME NEW b \in Budgets PROVE used'[b] <= Limit[b]
      <4>1. used'[b] = IF b = "nudge" THEN 0 ELSE used[b]
        BY ONLY <3>1, <3>2
      <4> QED BY <4>1, <3>2, Numbers
    <3> QED BY <3>3, <3>4
  <2>2. stalled' \subseteq Routes /\ route' \in Routes
    BY <1>15 DEF LeaveStalledRoute, Stalled, Untried
  <2>3. identical' \in Nat /\ seen' \in 0..LoopWindow /\ inside' \in BOOLEAN /\ pc' = "top"
    <3>1. identical' = 0 /\ seen' = 0 /\ inside' = FALSE /\ pc' = "top"
      BY <1>15 DEF LeaveStalledRoute, CleanSlate
    <3>2. identical' \in Nat /\ seen' \in 0..LoopWindow
      BY ONLY <3>1, Numbers
    <3>3. inside' \in BOOLEAN
      BY <3>1
    <3> QED BY <3>1, <3>2, <3>3
  <2>4. UNCHANGED <<turn, rounds, novel, called, repeats, retry, size, faults, proof, rescued, ended>>
    BY <1>15 DEF LeaveStalledRoute
  <2> QED BY <2>1, <2>2, <2>3, <2>4
<1>16. CASE DisableTools
  BY <1>16 DEF DisableTools, Stalled
<1>17. CASE Rescue
  <2>1. pc' \in {"final", "done"} /\ rescued' \in BOOLEAN /\ ended' \in Outcomes
    <3>1. CASE rescued' = TRUE /\ Go("final")
      BY <3>1 DEF Outcomes
    <3>2. CASE UNCHANGED rescued /\ End("failed", "failed", "running")
      BY <3>2, EndBounded
    <3> QED BY <1>17, <3>1, <3>2 DEF Rescue
  <2> QED BY <1>17, <2>1 DEF Rescue, Outcomes
<1>18. CASE UNCHANGED vars
  BY <1>18 DEF vars
<1>19. CASE Ask
  BY <1>19 DEF Ask
<1>20. CASE AskFails
  <2>1. PICK e \in Errors, allowed \in {TRUE, route \notin Premium}, pool \in SUBSET Providers :
          LET can == turn.fallback /\ e # "fatal" /\ allowed IN
          /\ retry' = [NoRetry EXCEPT !.can = can, !.error = e, !.pool = IF can THEN pool ELSE {},
                                      !.left = IF can THEN pool ELSE {}]
          /\ Go(IF can THEN "retry" ELSE "exhausted")
    BY <1>20 DEF AskFails
  <2>2. retry' \in Retries
    <3>1. PICK can \in BOOLEAN :
            retry' = [NoRetry EXCEPT !.can = can, !.error = e, !.pool = IF can THEN pool ELSE {},
                                     !.left = IF can THEN pool ELSE {}]
      <4> DEFINE can == turn.fallback /\ e # "fatal" /\ allowed
      <4>1. CASE can
        BY <2>1, <4>1
      <4>2. CASE ~can
        BY <2>1, <4>2
      <4> QED BY <4>1, <4>2
    <3>2. retry' = [can |-> can, error |-> e, pool |-> IF can THEN pool ELSE {}, left |-> IF can THEN pool ELSE {},
                    moved |-> FALSE, passes |-> 0, det |-> 0]
      BY <3>1 DEF NoRetry
    <3>3. e \in Errors /\ (IF can THEN pool ELSE {}) \in SUBSET Providers
      OBVIOUS
    <3> QED BY ONLY <3>2, <3>3, can \in BOOLEAN, Numbers DEF Retries
  <2>3. pc' \in {"retry", "exhausted"}
    BY <1>20 DEF AskFails
  <2> QED BY <1>20, <2>2, <2>3 DEF AskFails, Retries
<1>21. CASE NextPass
  <2>1. Deterministic \in 0..DeterministicPasses
    BY <1>21 DEF NextPass, Deterministic
  <2>2. retry' \in Retries
    <3>1. /\ retry' = [retry EXCEPT !.passes = @ + 1, !.det = Deterministic,
                                  !.pool = Anchor, !.left = Anchor, !.moved = FALSE]
          /\ retry.passes < Passes /\ Anchor \subseteq Providers
      BY <1>21, RoundLoopAssumption DEF NextPass, Later
    <3>2. retry \in Retries
      BY DEF Retries
    <3>3. retry.passes + 1 \in 0..Passes
      BY <3>1, <3>2 DEF Retries
    <3> QED BY ONLY <2>1, <3>1, <3>2, <3>3 DEF Retries
  <2> QED BY <1>21, <2>2 DEF NextPass, Retries
<1>22. CASE LastPass
  <2>1. retry' \in Retries
    <3>1. retry' = [NoRetry EXCEPT !.can = TRUE, !.error = retry.error]
      BY <1>22 DEF LastPass
    <3>2. retry' = [can |-> TRUE, error |-> retry.error, pool |-> {}, left |-> {}, moved |-> FALSE, passes |-> 0, det |-> 0]
      BY <3>1 DEF NoRetry
    <3>3. retry.error \in Errors
      OBVIOUS
    <3> QED BY ONLY <3>2, <3>3, Numbers DEF Retries
  <2> QED BY <1>22, <2>1 DEF LastPass, Retries
<1>23. CASE FreshRoute
  BY <1>23, SpendBounded DEF FreshRoute, NoRetry, Budgets, Errors
<1>24. CASE Exhausted
  BY <1>24, EndBounded DEF Exhausted, NoRetry, Outcomes, Errors
<1>25. ASSUME NEW p \in Providers, Skip(p) PROVE Bounded'
  BY <1>25 DEF Skip
<1>26. ASSUME NEW r \in Routes, TrySucceeds(r) PROVE Bounded'
  BY <1>26 DEF TrySucceeds, NoRetry, Errors
<1>27. ASSUME NEW r \in Routes, TryFails(r) PROVE Bounded'
  <2>1. retry' \in Retries
    <3>1. PICK e \in Errors : retry' = [retry EXCEPT !.error = e, !.moved = TRUE,
                                 !.left = IF e = "fatal" THEN {} ELSE @ \ {ProviderOf[r]}]
      BY <1>27 DEF TryFails
    <3>2. retry \in Retries
      BY DEF Retries
    <3>3. (IF e = "fatal" THEN {} ELSE retry.left \ {ProviderOf[r]}) \in SUBSET Providers
      BY <3>2 DEF Retries
    <3> QED BY ONLY <3>1, <3>2, <3>3, e \in Errors DEF Retries
  <2> QED BY <1>27, <2>1 DEF TryFails, Retries
<1>28. CASE Steered \/ Serialize \/ Deliver
  <2>1. CASE Steered
    BY <2>1 DEF Steered
  <2>2. CASE Serialize
    BY <2>2 DEF Serialize, Provider, Providers
  <2>3. CASE Deliver
    <3>1. rescued' \in BOOLEAN
      BY <2>3 DEF Deliver
    <3> QED BY <2>3, <3>1 DEF Deliver
  <2> QED BY <1>28, <2>1, <2>2, <2>3
<1>29. CASE ReadPlannedFile \/ PlanUnfinished \/ EvidenceMissing
  BY <1>29, SpendBounded DEF ReadPlannedFile, PlanUnfinished, EvidenceMissing, Budgets
<1>30. CASE Discard
  BY <1>30, StrikeBounded, EndBounded DEF Discard, SwitchOrStop, Reroute, Faults, Outcomes
<1>31. CASE RecoverEmpty
  BY <1>31, EndBounded DEF RecoverEmpty, Reroute, Outcomes
<1>32. ASSUME NEW f \in Complaints, Correct(f) PROVE Bounded'
  BY <1>32 DEF Correct, Provider, Providers
<1>33. ASSUME NEW f \in Complaints, Abandon(f) PROVE Bounded'
  BY <1>33, StrikeBounded, EndBounded DEF Abandon, SwitchOrStop, Reroute, Faults, Outcomes
<1>34. CASE RequireRun
  BY <1>34, SpendBounded, EndBounded DEF RequireRun, Budgets, Outcomes
<1>35. CASE AdviceOnly
  BY <1>35, EndBounded DEF AdviceOnly, Outcomes
<1>36. ASSUME NEW c \in turn.project, RequireCommand(c) PROVE Bounded'
  BY <1>36, EndBounded DEF RequireCommand, Outcomes, Unconfirmed
<1> QED
  BY <1>1, <1>2, <1>3, <1>4, <1>5, <1>6, <1>7, <1>8, <1>9, <1>10, <1>11, <1>12, <1>13, <1>14, <1>15, <1>16,
     <1>17, <1>18, <1>19, <1>20, <1>21, <1>22, <1>23, <1>24, <1>25, <1>26, <1>27, <1>28, <1>29, <1>30, <1>31,
     <1>32, <1>33, <1>34, <1>35, <1>36, <1>37 DEF Next, Requests, Prose

-----------------------------------------------------------------------------
(* The end of the loop                                                     *)

(* What the loop has left, the coarser first.  Between "live" and          *)
(* "dispatch" a round only goes forward; around the cap it may come back,  *)
(* each time at the price of a returned answer, a route or a nudge.        *)
Room ==             \* rounds of the budget still to begin
    IF round + 1 < cap THEN cap - (round + 1) ELSE 0
Asking ==           \* how far the round has got
    CASE pc = "live" -> 10 [] pc = "context" -> 9 [] pc = "rollover" -> 8 [] pc = "widen" -> 7
      [] pc = "ask" -> 6 [] pc = "retry" -> 5
      [] pc \in {"exhausted", "steered", "bad", "empty"} -> 4
      [] pc \in {"prose", "calls"} -> 3 [] pc = "looping" -> 2 [] pc = "dispatch" -> 1
      [] OTHER -> 0
Returns ==          \* answers that may be sent back to the rounds
    3 * ((Limit["route"] - used["route"]) + (Limit["hook"] - used["hook"]))
      + (IF pc = "final" THEN 1 ELSE IF pc \in {"judge", "done"} THEN 0 ELSE 2)
Elsewhere ==        \* routes that did not stall; on one that did, the next is one of them
    2 * Cardinality(Routes \ stalled) + (IF route \in stalled THEN 1 ELSE 0)
Closing ==
    CASE pc = "top" -> 6 [] pc = "cap" -> 5 [] pc = "stuck" -> 4 [] pc = "rescue" -> 3
      [] pc = "final" -> 2 [] pc = "judge" -> 1 [] OTHER -> 0

Rank == <<Extensions - extensions, Room, Asking, Passes - retry.passes, Cardinality(retry.left),
          Returns, Elsewhere, Limit["nudge"] - used["nudge"], Closing>>

Ranks   == [1 .. 9 -> Nat]
Descent == LexProductOrdering(OpToRel(<, Nat), Nat, 9)

LEMMA DescentEnds == IsWellFoundedOn(Descent, Ranks)
<1> DEFINE R == OpToRel(<, Nat)
<1>1. IsWellFoundedOn(R, Nat)
  BY NatLessThanWellFounded
<1> HIDE DEF R
<1>2. IsWellFoundedOn(LexProductOrdering(R, Nat, 9), [1 .. 9 -> Nat])
  BY <1>1, WFLexProductOrdering
<1> QED BY <1>2 DEF R, Descent, Ranks

LEMMA Falls ==
    ASSUME NEW a \in Ranks, NEW b \in Ranks, NEW k \in 1 .. 9, a[k] < b[k], \A j \in 1 .. k - 1 : a[j] = b[j]
    PROVE  <<a, b>> \in Descent
<1> DEFINE R == OpToRel(<, Nat)
<1>1. a[k] \in Nat /\ b[k] \in Nat
  BY DEF Ranks
<1>2. <<a[k], b[k]>> \in R
  BY <1>1 DEF OpToRel
<1> HIDE DEF R
<1>3. <<a, b>> \in LexProductOrdering(R, Nat, 9)
  BY <1>2 DEF LexProductOrdering, Ranks
<1> QED BY <1>3 DEF Descent, R

LEMMA NineNumbers ==
    ASSUME NEW a \in Nat, NEW b \in Nat, NEW c \in Nat, NEW d \in Nat, NEW e \in Nat, NEW f \in Nat,
           NEW g \in Nat, NEW h \in Nat, NEW i \in Nat
    PROVE  <<a, b, c, d, e, f, g, h, i>> \in Ranks
BY DEF Ranks

LEMMA FinitelyManyProviders == IsFiniteSet(Providers)
<1> DEFINE f == [r \in Routes |-> ProviderOf[r]]
<1>1. f \in Surjection(Routes, Providers)
  BY DEF Surjection, Providers
<1> QED BY <1>1, FS_Surjection, RoundLoopAssumption

LEMMA Quantities == Bounded => Rank \in Ranks
<1> SUFFICES ASSUME Bounded PROVE Rank \in Ranks
  OBVIOUS
<1>1. Extensions - extensions \in Nat /\ Room \in Nat
  BY Numbers DEF Bounded, TypeOK, Room
<1>2. Asking \in Nat /\ Closing \in Nat
  BY DEF Asking, Closing
<1>3. Passes - retry.passes \in Nat
  <2>1. retry.passes \in 0 .. Passes
    BY DEF Bounded, TypeOK
  <2> QED BY <2>1, Numbers
<1>4. Cardinality(retry.left) \in Nat
  <2>1. retry.left \subseteq Providers
    BY DEF Bounded, TypeOK
  <2> QED BY <2>1, FinitelyManyProviders, FS_Subset, FS_CardinalityType
<1>5. \A b \in Budgets : Limit[b] - used[b] \in Nat
  <2>1. \A b \in Budgets : used[b] \in Nat /\ used[b] <= Limit[b] /\ Limit[b] \in Nat
    BY Numbers DEF Bounded, TypeOK
  <2> QED BY <2>1
<1>6. Returns \in Nat /\ Limit["nudge"] - used["nudge"] \in Nat
  <2>1. /\ Limit["route"] - used["route"] \in Nat /\ Limit["hook"] - used["hook"] \in Nat
        /\ Limit["nudge"] - used["nudge"] \in Nat
    BY <1>5 DEF Budgets
  <2> QED BY <2>1 DEF Returns
<1>7. Elsewhere \in Nat
  <2>1. Cardinality(Routes \ stalled) \in Nat
    BY RoundLoopAssumption, FS_Subset, FS_CardinalityType
  <2> QED BY <2>1 DEF Elsewhere
<1> QED BY <1>1, <1>2, <1>3, <1>4, <1>6, <1>7, NineNumbers DEF Rank

\* A step leaves less than there was.
Descends == <<Rank', Rank>> \in Descent

\* One of the quantities falls, and those before it stay.
Sooner ==
    \/ extensions' > extensions
    \/ UNCHANGED extensions /\ Room' < Room
    \/ UNCHANGED rounds /\ Asking' < Asking
    \/ UNCHANGED <<rounds, pc>> /\ retry'.passes > retry.passes
    \/ UNCHANGED <<rounds, pc>> /\ retry'.passes = retry.passes /\ Cardinality(retry'.left) < Cardinality(retry.left)
    \/ /\ UNCHANGED <<extensions, Room, Asking, retry>>
       /\ \/ Returns' < Returns
          \/ UNCHANGED Returns /\ Elsewhere' < Elsewhere
          \/ UNCHANGED <<Returns, Elsewhere>> /\ used'["nudge"] > used["nudge"]
          \/ UNCHANGED <<Returns, Elsewhere, used>> /\ Closing' < Closing

LEMMA SoonerFalls == Bounded /\ Bounded' /\ Sooner => Descends
<1> SUFFICES ASSUME Bounded, Bounded', Sooner PROVE <<Rank', Rank>> \in Descent
  BY DEF Descends
<1> DEFINE a == Rank'
           b == Rank
<1>1. /\ a[1] = Extensions - extensions' /\ b[1] = Extensions - extensions
      /\ a[2] = Room' /\ b[2] = Room /\ a[3] = Asking' /\ b[3] = Asking
      /\ a[4] = Passes - retry'.passes /\ b[4] = Passes - retry.passes
      /\ a[5] = Cardinality(retry'.left) /\ b[5] = Cardinality(retry.left)
      /\ a[6] = Returns' /\ b[6] = Returns /\ a[7] = Elsewhere' /\ b[7] = Elsewhere
      /\ a[8] = Limit["nudge"] - used'["nudge"] /\ b[8] = Limit["nudge"] - used["nudge"]
      /\ a[9] = Closing' /\ b[9] = Closing
  BY DEF Rank
<1>2. a \in Ranks /\ b \in Ranks
  <2>1. Bounded => Rank \in Ranks
    BY Quantities
  <2>2. Rank \in Ranks /\ (Rank \in Ranks)'
    BY <2>1, Quantities, PTL
  <2> QED BY <2>2
<1>3. /\ a[1] \in Nat /\ b[1] \in Nat /\ a[4] \in Nat /\ b[4] \in Nat /\ a[8] \in Nat /\ b[8] \in Nat
  BY <1>2 DEF Ranks
<1>4. /\ extensions \in Int /\ extensions' \in Int /\ retry.passes \in Int /\ retry'.passes \in Int
      /\ used["nudge"] \in Int /\ used'["nudge"] \in Int
      /\ Extensions \in Int /\ Passes \in Int /\ Limit["nudge"] \in Int
  <2>1. extensions \in 0..Extensions /\ extensions' \in 0..Extensions /\ used \in [Budgets -> Nat] /\ used' \in [Budgets -> Nat]
    BY DEF Bounded, TypeOK
  <2>2. retry.passes \in 0..Passes /\ retry'.passes \in 0..Passes
    BY DEF Bounded, TypeOK
  <2> QED BY <2>1, <2>2, Numbers DEF Budgets
<1> HIDE DEF a, b
<1>5. CASE extensions' > extensions
  <2>1. a[1] = Extensions - extensions' /\ b[1] = Extensions - extensions
    BY <1>1
  <2>2. a[1] < b[1]
    <3>1. extensions \in Int /\ extensions' \in Int /\ Extensions \in Int
      BY <1>4
    <3>2. Extensions - extensions' < Extensions - extensions
      <4>1. PICK n \in Int, x \in Int, y \in Int : n = Extensions /\ x = extensions /\ y = extensions'
        BY ONLY <3>1
      <4>2. y > x
        BY <1>5, <4>1
      <4>3. n - y < n - x
        BY ONLY <4>2, y \in Int, x \in Int, n \in Int
      <4> QED BY <4>1, <4>3
    <3> QED BY ONLY <3>2, <2>1
  <2>3. \A j \in 1 .. 1 - 1 : a[j] = b[j]
    OBVIOUS
  <2> QED BY <1>2, <2>2, <2>3, Falls DEF a, b
<1>6. CASE UNCHANGED extensions /\ Room' < Room
  <2>1. a[1] = b[1] /\ a[2] < b[2]
    BY <1>1, <1>6
  <2>2. \A j \in 1 .. 2 - 1 : a[j] = b[j]
    BY <2>1
  <2> QED BY <1>2, <2>1, <2>2, Falls DEF a, b
<1>7. CASE UNCHANGED rounds /\ Asking' < Asking
  <2>1. a[1] = b[1] /\ a[2] = b[2] /\ a[3] < b[3]
    BY <1>1, <1>7 DEF rounds, Room
  <2>2. \A j \in 1 .. 3 - 1 : a[j] = b[j]
    BY <2>1
  <2> QED BY <1>2, <2>1, <2>2, Falls DEF a, b
<1>8. CASE UNCHANGED <<rounds, pc>> /\ retry'.passes > retry.passes
  <2>1. a[1] = b[1] /\ a[2] = b[2] /\ a[3] = b[3] /\ a[4] < b[4]
    BY <1>1, <1>4, <1>8 DEF rounds, Room, Asking
  <2>2. \A j \in 1 .. 4 - 1 : a[j] = b[j]
    BY <2>1
  <2> QED BY <1>2, <2>1, <2>2, Falls DEF a, b
<1>9. CASE UNCHANGED <<rounds, pc>> /\ retry'.passes = retry.passes /\ Cardinality(retry'.left) < Cardinality(retry.left)
  <2>1. a[1] = b[1] /\ a[2] = b[2] /\ a[3] = b[3] /\ a[4] = b[4] /\ a[5] < b[5]
    BY <1>1, <1>9 DEF rounds, Room, Asking
  <2>2. \A j \in 1 .. 5 - 1 : a[j] = b[j]
    BY <2>1
  <2> QED BY <1>2, <2>1, <2>2, Falls DEF a, b
<1>10. CASE /\ UNCHANGED <<extensions, Room, Asking, retry>>
            /\ \/ Returns' < Returns
               \/ UNCHANGED Returns /\ Elsewhere' < Elsewhere
               \/ UNCHANGED <<Returns, Elsewhere>> /\ used'["nudge"] > used["nudge"]
               \/ UNCHANGED <<Returns, Elsewhere, used>> /\ Closing' < Closing
  <2>1. a[1] = b[1] /\ a[2] = b[2] /\ a[3] = b[3] /\ a[4] = b[4] /\ a[5] = b[5]
    BY <1>1, <1>10
  <2>2. CASE Returns' < Returns
    <3>1. a[6] < b[6]
      BY <1>1, <2>2
    <3>2. \A j \in 1 .. 6 - 1 : a[j] = b[j]
      BY <2>1
    <3> QED BY <1>2, <3>1, <3>2, Falls DEF a, b
  <2>3. CASE UNCHANGED Returns /\ Elsewhere' < Elsewhere
    <3>1. a[6] = b[6] /\ a[7] < b[7]
      BY <1>1, <2>3
    <3>2. \A j \in 1 .. 7 - 1 : a[j] = b[j]
      BY <2>1, <3>1
    <3> QED BY <1>2, <3>1, <3>2, Falls DEF a, b
  <2>4. CASE UNCHANGED <<Returns, Elsewhere>> /\ used'["nudge"] > used["nudge"]
    <3>1. a[6] = b[6] /\ a[7] = b[7] /\ a[8] < b[8]
      BY <1>1, <1>4, <2>4
    <3>2. \A j \in 1 .. 8 - 1 : a[j] = b[j]
      BY <2>1, <3>1
    <3> QED BY <1>2, <3>1, <3>2, Falls DEF a, b
  <2>5. CASE UNCHANGED <<Returns, Elsewhere, used>> /\ Closing' < Closing
    <3>1. a[6] = b[6] /\ a[7] = b[7] /\ a[8] = b[8] /\ a[9] < b[9]
      BY <1>1, <2>5
    <3>2. \A j \in 1 .. 9 - 1 : a[j] = b[j]
      BY <2>1, <3>1
    <3> QED BY <1>2, <3>1, <3>2, Falls DEF a, b
  <2> QED BY <1>10, <2>2, <2>3, <2>4, <2>5
<1> QED BY <1>5, <1>6, <1>7, <1>8, <1>9, <1>10 DEF Sooner

-----------------------------------------------------------------------------
(* The steps of a round go forward.                                        *)
Onward == UNCHANGED rounds /\ Asking' < Asking

LEMMA RequestsGoOn ==
    Bounded /\ (Ask \/ AskFails \/ LastPass \/ FreshRoute \/ Exhausted \/ \E r \in Routes : TrySucceeds(r)) => Onward
<1> USE DEF Go, End, Onward, Asking, Answers
<1>1. Ask => Onward
  BY DEF Ask
<1>2. AskFails => Onward
  <2> SUFFICES ASSUME AskFails PROVE Onward
    OBVIOUS
  <2>1. pc = "ask" /\ UNCHANGED rounds /\ pc' \in {"retry", "exhausted"}
    BY DEF AskFails
  <2> QED BY <2>1
<1>3. LastPass \/ FreshRoute \/ Exhausted => Onward
  BY DEF LastPass, FreshRoute, Exhausted
<1>4. ASSUME NEW r \in Routes, TrySucceeds(r) PROVE Onward
  BY <1>4 DEF TrySucceeds
<1> QED BY <1>1, <1>2, <1>3, <1>4

LEMMA ProseGoesOn == Prose => Onward
<1> USE DEF Go, End, Onward, Asking
<1>1. Steered \/ ReadPlannedFile \/ Serialize \/ PlanUnfinished \/ EvidenceMissing => Onward
  BY DEF Steered, ReadPlannedFile, Serialize, PlanUnfinished, EvidenceMissing
<1>2. Discard \/ RecoverEmpty => Onward
  BY DEF Discard, RecoverEmpty, SwitchOrStop
<1>3. RequireRun \/ AdviceOnly \/ Deliver => Onward
  BY DEF RequireRun, AdviceOnly, Deliver
<1>4. ASSUME NEW f \in Complaints, Correct(f) \/ Abandon(f) PROVE Onward
  BY <1>4 DEF Correct, Abandon, SwitchOrStop
<1>5. ASSUME NEW c \in turn.project, RequireCommand(c) PROVE Onward
  BY <1>5 DEF RequireCommand
<1> QED BY <1>1, <1>2, <1>3, <1>4, <1>5 DEF Prose

LEMMA OthersGoOn ==
    \/ LiveStop \/ LiveGo \/ Compact \/ RollOver \/ Widen \/ TooLarge
    \/ CountCalls \/ Malformed \/ Unoffered \/ UnofferedAgain \/ Looping \/ RunTools \/ ToolsEnd
    => Onward
<1> USE DEF Go, End, Onward, Asking
<1>1. LiveStop \/ LiveGo \/ Compact \/ RollOver \/ Widen \/ TooLarge => Onward
  BY DEF LiveStop, LiveGo, Compact, RollOver, Widen, TooLarge
<1>2. CountCalls \/ Malformed \/ Unoffered => Onward
  BY DEF CountCalls, Malformed, Unoffered
<1>3. UnofferedAgain => Onward
  BY DEF UnofferedAgain, rounds
<1>4. Looping \/ ToolsEnd => Onward
  BY DEF Looping, ToolsEnd
<1>5. RunTools => Onward
  <2> SUFFICES ASSUME RunTools PROVE Onward
    OBVIOUS
  <2>1. pc = "dispatch" /\ UNCHANGED rounds /\ pc' \in {"top", "stuck"}
    BY DEF RunTools
  <2> QED BY <2>1
<1> QED BY <1>1, <1>2, <1>3, <1>4, <1>5

-----------------------------------------------------------------------------
(* A new round, the passes of a fallback, and the way around the cap.      *)
LEMMA NewRound == Bounded /\ NextRound => Sooner
<1> SUFFICES ASSUME Bounded, NextRound PROVE Sooner
  OBVIOUS
<1>1. pc = "top" /\ round' = round + 1 /\ UNCHANGED <<cap, extensions, retry, stalled, route, used>>
  BY DEF NextRound
<1>2. round \in Int /\ cap \in Int
  BY DEF Bounded, TypeOK
<1>3. CASE round + 1 < cap
  <2>1. Room' < Room
    BY <1>1, <1>2, <1>3 DEF Room
  <2> QED BY <1>1, <2>1 DEF Sooner
<1>4. CASE ~(round + 1 < cap)
  <2>1. pc' = "cap" /\ UNCHANGED Room
    BY <1>1, <1>2, <1>4 DEF NextRound, Go, Room
  <2>2. UNCHANGED <<Asking, Returns, Elsewhere>> /\ Closing' < Closing
    BY <1>1, <2>1 DEF Asking, Returns, Elsewhere, Closing
  <2> QED BY <1>1, <2>1, <2>2 DEF Sooner
<1> QED BY <1>3, <1>4

LEMMA Extended == Bounded /\ Extend => Sooner
<1> SUFFICES ASSUME Bounded, Extend PROVE Sooner
  OBVIOUS
<1>1. extensions' = extensions + 1 /\ extensions \in 0 .. Extensions
  BY DEF Extend, Bounded, TypeOK
<1>2. extensions' > extensions
  <2>1. PICK n \in Int : n = extensions
    BY <1>1, Numbers
  <2> QED BY <1>1, <2>1
<1> QED BY <1>2 DEF Sooner

LEMMA Taken ==
    ASSUME NEW S \in SUBSET Providers, NEW T \in SUBSET S, T # S
    PROVE  Cardinality(T) < Cardinality(S)
<1>1. IsFiniteSet(S)
  BY FinitelyManyProviders, FS_Subset
<1>2. Cardinality(T) <= Cardinality(S) /\ Cardinality(T) # Cardinality(S) /\ IsFiniteSet(T)
  BY <1>1, FS_Subset
<1>3. Cardinality(T) \in Nat /\ Cardinality(S) \in Nat
  BY <1>1, <1>2, FS_CardinalityType
<1> QED BY <1>2, <1>3

LEMMA PassesEnd ==
    Bounded /\ (NextPass \/ (\E p \in Providers : Skip(p)) \/ (\E r \in Routes : TryFails(r))) => Sooner
<1> SUFFICES ASSUME Bounded PROVE (NextPass \/ (\E p \in Providers : Skip(p)) \/ (\E r \in Routes : TryFails(r))) => Sooner
  OBVIOUS
<1>0. retry \in Retries
  BY DEF Bounded, TypeOK, Retries
<1>1. ASSUME NextPass PROVE Sooner
  <2>1. /\ retry' = [retry EXCEPT !.passes = @ + 1, !.det = Deterministic,
                                  !.pool = Anchor, !.left = Anchor, !.moved = FALSE]
        /\ UNCHANGED <<rounds, pc>>
    BY <1>1 DEF NextPass, Later
  <2>2. retry.passes \in 0 .. Passes /\ retry'.passes = retry.passes + 1
    BY <1>0, <2>1 DEF Retries
  <2>3. retry'.passes > retry.passes
    BY <2>2, Numbers
  <2> QED BY <2>1, <2>3 DEF Sooner
<1>2. ASSUME NEW left \in SUBSET retry.left, left # retry.left, retry'.left = left, retry'.passes = retry.passes,
             UNCHANGED <<rounds, pc>>
      PROVE Sooner
  <2>1. retry.left \in SUBSET Providers
    BY <1>0 DEF Retries
  <2>2. Cardinality(retry'.left) < Cardinality(retry.left)
    BY <1>2, <2>1, Taken
  <2> QED BY <1>2, <2>2 DEF Sooner
<1>3. ASSUME NEW p \in Providers, Skip(p) PROVE Sooner
  <2>1. p \in retry.left /\ retry' = [retry EXCEPT !.left = @ \ {p}] /\ UNCHANGED <<rounds, pc>>
    BY <1>3 DEF Skip
  <2>2. retry'.left = retry.left \ {p} /\ retry'.passes = retry.passes
    BY <1>0, <2>1 DEF Retries
  <2>3. retry'.left \in SUBSET retry.left /\ retry'.left # retry.left
    BY <2>1, <2>2
  <2> QED BY <1>2, <2>1, <2>2, <2>3
<1>4. ASSUME NEW r \in Routes, TryFails(r) PROVE Sooner
  <2>1. ProviderOf[r] \in retry.left /\ UNCHANGED <<rounds, pc>>
    BY <1>4 DEF TryFails
  <2>2. PICK e \in Errors : retry' = [retry EXCEPT !.error = e, !.moved = TRUE,
                                 !.left = IF e = "fatal" THEN {} ELSE @ \ {ProviderOf[r]}]
    BY <1>4 DEF TryFails
  <2>3. retry'.left = (IF e = "fatal" THEN {} ELSE retry.left \ {ProviderOf[r]}) /\ retry'.passes = retry.passes
    BY <1>0, <2>2 DEF Retries
  <2>4. retry'.left \in SUBSET retry.left /\ retry'.left # retry.left
    BY <2>1, <2>3
  <2> QED BY <1>2, <2>1, <2>3, <2>4
<1> QED BY <1>1, <1>3, <1>4

LEMMA ReturnsArePaid ==
    Bounded => \A b \in {"route", "hook"} :
        Spend(b) /\ pc = "judge" /\ pc' \in {"top", "done"} => Returns' < Returns
<1> SUFFICES ASSUME Bounded, NEW b \in {"route", "hook"}, Spend(b), pc = "judge", pc' \in {"top", "done"}
             PROVE  Returns' < Returns
  OBVIOUS
<1>1. used \in [Budgets -> Nat] /\ used' = [used EXCEPT ![b] = @ + 1]
  BY DEF Bounded, TypeOK, Spend
<1>2. PICK x \in Nat, y \in Nat, m \in Nat, n \in Nat :
        x = used["route"] /\ y = used["hook"] /\ m = Limit["route"] /\ n = Limit["hook"]
  BY <1>1, Numbers DEF Budgets
<1>3. Returns = 3 * ((m - x) + (n - y))
  BY <1>2 DEF Returns
<1>4. \/ used'["route"] = x + 1 /\ used'["hook"] = y
      \/ used'["route"] = x /\ used'["hook"] = y + 1
  BY <1>1, <1>2 DEF Budgets
<1>5. \/ Returns' = 3 * ((m - (x + 1)) + (n - y)) + 2 \/ Returns' = 3 * ((m - x) + (n - (y + 1))) + 2
      \/ Returns' = 3 * ((m - (x + 1)) + (n - y)) \/ Returns' = 3 * ((m - x) + (n - (y + 1)))
  BY <1>2, <1>4 DEF Returns
<1> QED BY <1>3, <1>5

LEMMA AroundTheCap ==
    Bounded /\ (OutOfRounds \/ GrantRound \/ Continue \/ Reject \/ Complete \/ RetryElsewhere \/ StopHook \/ Rescue) => Sooner
<1> SUFFICES ASSUME Bounded PROVE
      (OutOfRounds \/ GrantRound \/ Continue \/ Reject \/ Complete \/ RetryElsewhere \/ StopHook \/ Rescue) => Sooner
  OBVIOUS
<1>0. PICK n \in Int : n = 3 * ((Limit["route"] - used["route"]) + (Limit["hook"] - used["hook"]))
  <2>1. used["route"] \in Nat /\ used["hook"] \in Nat /\ Limit["route"] \in Nat /\ Limit["hook"] \in Nat
    BY Numbers DEF Bounded, TypeOK, Budgets
  <2> QED BY <2>1
<1>1. ASSUME GrantRound PROVE Sooner
  <2>1. pc = "cap" /\ pc' = "stuck" /\ UNCHANGED <<round, extensions, retry, stalled, route, used>>
    BY <1>1 DEF GrantRound, Go
  <2>2. round \in Int /\ cap \in Int /\ round >= cap /\ cap' \in {cap, cap + 1}
    BY <1>1, <2>1 DEF GrantRound, Bounded, TypeOK
  <2>3. UNCHANGED Room
    <3>1. cap' \in Int /\ ~(round + 1 < cap) /\ ~(round + 1 < cap')
      BY <2>2
    <3> QED BY <2>1, <3>1 DEF Room
  <2>4. UNCHANGED <<Asking, Returns, Elsewhere>> /\ Closing' < Closing
    BY <2>1 DEF Asking, Returns, Elsewhere, Closing
  <2> QED BY <2>1, <2>3, <2>4 DEF Sooner
<1>2. ASSUME OutOfRounds PROVE Sooner
  <2>1. pc = "cap" /\ pc' = "done" /\ UNCHANGED <<rounds, retry, stalled, route, used>>
    BY <1>2 DEF OutOfRounds, End
  <2>2. UNCHANGED <<Room, Asking>> /\ Returns = n + 2 /\ Returns' = n
    BY <1>0, <2>1 DEF rounds, Room, Asking, Returns
  <2> QED BY <2>1, <2>2 DEF Sooner, rounds
<1>3. ASSUME Continue PROVE Sooner
  <2>1. pc = "final" /\ pc' \in {"judge", "done"} /\ UNCHANGED <<rounds, retry, used>>
    BY <1>3 DEF Continue, Go, End
  <2>2. UNCHANGED <<Room, Asking>> /\ Returns = n + 1 /\ Returns' = n
    BY <1>0, <2>1 DEF rounds, Room, Asking, Returns
  <2> QED BY <2>1, <2>2 DEF Sooner, rounds
<1>4. ASSUME Rescue PROVE Sooner
  <2>1. pc = "rescue" /\ pc' \in {"final", "done"} /\ UNCHANGED <<rounds, retry, used>>
    BY <1>4 DEF Rescue, Go, End
  <2>2. UNCHANGED <<Room, Asking>> /\ Returns = n + 2 /\ Returns' \in {n + 1, n}
    BY <1>0, <2>1 DEF rounds, Room, Asking, Returns
  <2> QED BY <2>1, <2>2 DEF Sooner, rounds
<1>5. ASSUME pc = "judge", pc' = "done", UNCHANGED <<rounds, retry, used, stalled, route>> PROVE Sooner
  <2>1. UNCHANGED <<Room, Asking, Returns, Elsewhere>> /\ Closing' < Closing
    BY <1>5 DEF rounds, Room, Asking, Returns, Elsewhere, Closing
  <2> QED BY <1>5, <2>1 DEF Sooner, rounds
<1>6. ASSUME NEW b \in {"route", "hook"}, Spend(b), pc = "judge", pc' \in {"top", "done"}, UNCHANGED <<rounds, retry>>
      PROVE Sooner
  <2>1. UNCHANGED <<Room, Asking>> /\ Returns' < Returns
    BY <1>6, ReturnsArePaid DEF rounds, Room, Asking
  <2> QED BY <1>6, <2>1 DEF Sooner, rounds
<1>7. ASSUME Reject \/ Complete PROVE Sooner
  BY <1>5, <1>7 DEF Reject, Complete, End
<1>8. ASSUME RetryElsewhere PROVE Sooner
  BY <1>6, <1>8 DEF RetryElsewhere, Again, Go, End
<1>9. ASSUME StopHook PROVE Sooner
  BY <1>5, <1>6, <1>9 DEF StopHook, Again, Go, End
<1> QED BY <1>1, <1>2, <1>3, <1>4, <1>7, <1>8, <1>9

LEMMA FewerElsewhere ==
    ASSUME Bounded, stalled' = stalled \cup {route}, route \notin stalled
    PROVE  Cardinality(Routes \ stalled') = Cardinality(Routes \ stalled) - 1
<1>1. IsFiniteSet(Routes \ stalled) /\ route \in Routes \ stalled
  BY RoundLoopAssumption, FS_Subset DEF Bounded, TypeOK
<1>2. Routes \ stalled' = (Routes \ stalled) \ {route}
  OBVIOUS
<1> QED BY <1>1, <1>2, FS_RemoveElement

LEMMA StuckIsLeft == Bounded /\ (Nudge \/ LeaveStalledRoute \/ DisableTools) => Sooner
<1> SUFFICES ASSUME Bounded PROVE (Nudge \/ LeaveStalledRoute \/ DisableTools) => Sooner
  OBVIOUS
<1>1. ASSUME Nudge PROVE Sooner
  <2>1. pc = "stuck" /\ pc' = "top" /\ UNCHANGED <<rounds, retry, stalled, route>> /\ used' = [used EXCEPT !["nudge"] = @ + 1]
    BY <1>1 DEF Nudge, Spend, Go
  <2>2. used \in [Budgets -> Nat]
    BY DEF Bounded, TypeOK
  <2>3. used'["nudge"] = used["nudge"] + 1 /\ used["nudge"] \in Nat /\ used'["route"] = used["route"] /\ used'["hook"] = used["hook"]
    BY <2>1, <2>2 DEF Budgets
  <2>4. UNCHANGED <<Room, Asking, Returns, Elsewhere>> /\ used'["nudge"] > used["nudge"]
    BY <2>1, <2>3 DEF rounds, Room, Asking, Returns, Elsewhere
  <2> QED BY <2>1, <2>4 DEF Sooner, rounds
<1>2. Cardinality(Routes \ stalled) \in Nat /\ Cardinality(Routes \ stalled') \in Nat
  <2>1. IsFiniteSet(Routes \ stalled) /\ IsFiniteSet(Routes \ stalled')
    BY RoundLoopAssumption, FS_Subset
  <2> QED BY <2>1, FS_CardinalityType
<1>3. ASSUME LeaveStalledRoute PROVE Sooner
  <2>1. /\ pc = "stuck" /\ pc' = "top" /\ UNCHANGED <<rounds, retry>> /\ used' = [used EXCEPT !["nudge"] = 0]
        /\ stalled' = stalled \cup {route} /\ route' \notin stalled'
    BY <1>3 DEF LeaveStalledRoute, Go, Stalled, Untried
  <2>2. used'["route"] = used["route"] /\ used'["hook"] = used["hook"]
    BY <2>1 DEF Bounded, TypeOK, Budgets
  <2>3. UNCHANGED <<Room, Asking, Returns>>
    BY <2>1, <2>2 DEF rounds, Room, Asking, Returns
  <2>4. Elsewhere' < Elsewhere
    <3>1. CASE route \in stalled
      <4>1. stalled' = stalled
        BY <2>1, <3>1
      <4>2. PICK m \in Nat : m = Cardinality(Routes \ stalled)
        BY <1>2
      <4>3. Elsewhere = 2 * m + 1 /\ Elsewhere' = 2 * m
        <5>1. Elsewhere = 2 * Cardinality(Routes \ stalled) + 1
          BY <3>1 DEF Elsewhere
        <5>2. Elsewhere' = 2 * Cardinality(Routes \ stalled') + 0
          BY <2>1 DEF Elsewhere
        <5>3. Elsewhere' = 2 * m + 0
          BY <4>1, <4>2, <5>2
        <5> QED BY <4>2, <5>1, <5>3
      <4> QED BY <4>3
    <3>2. CASE route \notin stalled
      <4>1. Cardinality(Routes \ stalled') = Cardinality(Routes \ stalled) - 1
        BY <2>1, <3>2, FewerElsewhere
      <4> QED BY <1>2, <2>1, <3>2, <4>1 DEF Elsewhere
    <3> QED BY <3>1, <3>2
  <2> QED BY <2>1, <2>3, <2>4 DEF Sooner, rounds
<1>4. ASSUME DisableTools PROVE Sooner
  <2>1. /\ pc = "stuck" /\ pc' = "rescue" /\ UNCHANGED <<rounds, retry, used, route>>
        /\ stalled' = stalled \/ stalled' = stalled \cup {route}
    BY <1>4 DEF DisableTools, Go, Stalled
  <2>2. UNCHANGED <<Room, Asking, Returns>> /\ Closing' < Closing
    BY <2>1 DEF rounds, Room, Asking, Returns, Closing
  <2>3. CASE stalled' = stalled
    <3>1. UNCHANGED Elsewhere
      BY <2>1, <2>3 DEF Elsewhere
    <3> QED BY <2>1, <2>2, <3>1 DEF Sooner, rounds
  <2>4. CASE stalled' # stalled
    <3>1. stalled' = stalled \cup {route} /\ route \notin stalled /\ route \in stalled' /\ route' = route
      BY <2>1, <2>4
    <3>2. Cardinality(Routes \ stalled') = Cardinality(Routes \ stalled) - 1
      BY <3>1, FewerElsewhere
    <3>3. Elsewhere' < Elsewhere
      BY <1>2, <3>1, <3>2 DEF Elsewhere
    <3> QED BY <2>1, <2>2, <3>3 DEF Sooner, rounds
  <2> QED BY <2>3, <2>4
<1> QED BY <1>1, <1>3, <1>4

LEMMA EveryStepIsSooner == Bounded /\ Next => Sooner
<1>1. Onward => Sooner
  BY DEF Onward, Sooner
<1> QED
  BY <1>1, RequestsGoOn, ProseGoesOn, OthersGoOn, NewRound, Extended, PassesEnd, AroundTheCap, StuckIsLeft
  DEF Next, Requests

(* Every variable of the loop keeps its type: the counters respect their   *)
(* limits (Limit of a counted retry, the extensions of the budget, the     *)
(* passes of a fallback), and what counts as confirmed are commands of the *)
(* project.                                                                *)
THEOREM LoopTypes == Spec => []TypeOK
<1>1. Bounded => TypeOK
  BY DEF Bounded
<1> QED BY <1>1, InitBounded, StepBounded, PTL DEF Spec

(* A turn takes finitely many steps, whatever the model, the providers and *)
(* the tools do: each step of run_local_agent_turn uses up a part of what  *)
(* it has left - an extension, a round of the budget, a stage of the round,*)
(* a pass or a candidate of a fallback, an answer that may be sent back, a *)
(* route, a nudge - and what it gets back is of a lesser kind.  There is   *)
(* no infinite descent.                                                    *)
THEOREM LoopRunsDown ==
    /\ IsWellFoundedOn(Descent, Ranks)
    /\ Spec => [](Rank \in Ranks) /\ [][Descends]_vars
<1>1. Spec => []Bounded
  BY InitBounded, StepBounded, PTL DEF Spec
<1>2. Bounded /\ [Next]_vars => [Descends]_vars
  BY StepBounded, EveryStepIsSooner, SoonerFalls
<1>3. Spec => [](Rank \in Ranks) /\ [][Descends]_vars
  BY <1>1, <1>2, Quantities, PTL DEF Spec
<1> QED BY <1>3, DescentEnds

-----------------------------------------------------------------------------
(* The gate                                                                *)

Types == records \in Seq(Entries) /\ red \in BOOLEAN
\* What the histories say is what the gate finds in the records.
HistoryIsFound ==
    /\ red <=> LastFailed(Checks)
    /\ git = ShownByGit
    /\ Edited({}) \subseteq changed \cup hollow
    /\ mutated <=> Done({"edit"}) # {} \/ before # {}
\* A completed turn passed the terminal judgement on the records it ended with.
CompletedPassed ==
    Completed => stage = "done" /\ \E missing \in SUBSET task.outputs : Failing({}, FALSE, draft, missing) = {}

IInv == Types /\ HistoryIsFound /\ CompletedPassed

LEMMA InitIInv == GateAssumption /\ GateInit => IInv
<1> SUFFICES ASSUME GateAssumption, GateInit PROVE IInv
  OBVIOUS
<1>1. records \in Seq(Entries)
  <2>1. ASSUME NEW n \in 0 .. MaxRecords, NEW some \in [1 .. n -> Entries] PROVE some \in Seq(Entries)
    <3>1. n \in Nat
      BY DEF GateAssumption
    <3> QED BY <3>1
  <2>2. <<>> \in Seq(Entries)
    OBVIOUS
  <2>3. records \in UNION {[1 .. n -> Entries] : n \in 0 .. MaxRecords} \/ records = <<>>
    BY DEF GateInit
  <2> QED BY <2>1, <2>2, <2>3
<1>2. red \in BOOLEAN /\ (red <=> LastFailed(Checks))
  <2>1. red = LastFailed(Checks) /\ LastFailed(Checks) \in BOOLEAN
    BY DEF GateInit, LastFailed
  <2> QED BY <2>1
<1>3. git = ShownByGit /\ hollow = Edited({}) \ changed /\ outcome = "none"
  BY DEF GateInit
<1>4. mutated <=> Done({"edit"}) # {} \/ before # {}
  BY Zenon DEF GateInit
<1> QED BY <1>1, <1>2, <1>3, <1>4 DEF IInv, Types, HistoryIsFound, CompletedPassed, Completed

\* One more record: the others keep their places.
LEMMA Appended ==
    ASSUME records \in Seq(Entries), NEW entry \in Entries, records' = Append(records, entry)
    PROVE  /\ records' \in Seq(Entries) /\ Len(records) + 1 \notin DOMAIN records
           /\ DOMAIN records' = DOMAIN records \cup {Len(records) + 1}
           /\ \A i \in DOMAIN records : records'[i] = records[i] /\ i <= Len(records) + 1 /\ ~(Len(records) + 1 <= i)
           /\ records'[Len(records) + 1] = entry
<1>1. DOMAIN records = 1 .. Len(records) /\ Len(records) \in Nat
  OBVIOUS
<1>2. records' \in Seq(Entries) /\ Len(records') = Len(records) + 1
  OBVIOUS
<1>3. DOMAIN records' = 1 .. Len(records) + 1
  BY <1>1, <1>2
<1>4. \A i \in 1 .. Len(records) : records'[i] = records[i]
  BY <1>1
<1>5. records'[Len(records) + 1] = entry
  BY <1>1
<1> QED BY <1>1, <1>2, <1>3, <1>4, <1>5

\* The last check of a longer run.
LEMMA LastCheck ==
    ASSUME records \in Seq(Entries), NEW entry \in Entries, records' = Append(records, entry)
    PROVE  LastFailed(Checks)' <=>
             IF entry.tool = "command" /\ "delivery" \notin entry.traits
             THEN ~(entry.ok /\ entry.clean) ELSE LastFailed(Checks)
<1> DEFINE n == Len(records) + 1
<1>1. /\ n \notin DOMAIN records /\ DOMAIN records' = DOMAIN records \cup {n}
      /\ \A i \in DOMAIN records : records'[i] = records[i] /\ i <= n /\ ~(n <= i)
      /\ records'[n] = entry /\ n <= n
  BY Appended
<1> HIDE DEF n
<1>2. Checks' = Checks \cup (IF entry.tool = "command" /\ "delivery" \notin entry.traits THEN {n} ELSE {})
  BY <1>1 DEF Checks, CommandCalls
<1>3. Checks \subseteq DOMAIN records /\ n \notin Checks
  BY <1>1 DEF Checks, CommandCalls
<1>4. \A i : i \in Checks => (i \notin Clean <=> ~(records[i].ok /\ records[i].clean))
  BY DEF Checks, CommandCalls, Clean, Done
<1>5. \A i : i \in Checks' => (i \notin Clean' <=> ~(records'[i].ok /\ records'[i].clean))
  BY DEF Checks, CommandCalls, Clean, Done
<1>6. LastFailed(Checks) <=> \E i \in Checks : ~(records[i].ok /\ records[i].clean) /\ \A j \in Checks : j <= i
  BY <1>4 DEF LastFailed
<1>7. LastFailed(Checks)' <=> \E i \in Checks' : ~(records'[i].ok /\ records'[i].clean) /\ \A j \in Checks' : j <= i
  BY <1>5 DEF LastFailed
<1>8. CASE entry.tool = "command" /\ "delivery" \notin entry.traits
  <2>1. Checks' = Checks \cup {n}
    BY <1>2, <1>8
  <2>2. \A i \in Checks' : (\A j \in Checks' : j <= i) <=> i = n
    BY <1>1, <1>3, <2>1
  <2> QED BY <1>1, <1>7, <1>8, <2>1, <2>2
<1>9. CASE ~(entry.tool = "command" /\ "delivery" \notin entry.traits)
  <2>1. Checks' = Checks
    BY <1>2, <1>9
  <2> QED BY <1>1, <1>3, <1>6, <1>7, <1>9, <2>1
<1> QED BY <1>8, <1>9

\* What edits name and what git shows, of a longer run.
LEMMA ChangedGrows ==
    ASSUME records \in Seq(Entries), NEW entry \in Entries, records' = Append(records, entry)
    PROVE  /\ Edited({})' = Edited({}) \cup (IF entry.tool = "edit" /\ entry.ok THEN entry.paths ELSE {})
           /\ ShownByGit' = ShownByGit \cup
                (IF entry.tool = "command" /\ entry.ok /\ "git" \in entry.traits THEN entry.paths ELSE {})
           /\ Done({"edit"})' # {} <=> Done({"edit"}) # {} \/ (entry.tool = "edit" /\ entry.ok)
<1> DEFINE n == Len(records) + 1
           Edits(e) == e.tool = "edit" /\ e.ok
           Shows(e) == e.tool = "command" /\ e.ok /\ "git" \in e.traits
<1>1. /\ n \notin DOMAIN records /\ DOMAIN records' = DOMAIN records \cup {n}
      /\ \A i \in DOMAIN records : records'[i] = records[i]
      /\ records'[n] = entry
  BY Appended
<1> HIDE DEF n
<1>2. \A p : p \in Edited({}) <=> \E i \in DOMAIN records : Edits(records[i]) /\ p \in records[i].paths
  BY DEF Edited, Done
<1>3. \A p : p \in Edited({})' <=> \E i \in DOMAIN records' : Edits(records'[i]) /\ p \in records'[i].paths
  BY DEF Edited, Done
<1>4. \A p : p \in ShownByGit <=> \E i \in DOMAIN records : Shows(records[i]) /\ p \in records[i].paths
  BY DEF ShownByGit, Done
<1>5. \A p : p \in ShownByGit' <=> \E i \in DOMAIN records' : Shows(records'[i]) /\ p \in records'[i].paths
  BY DEF ShownByGit, Done
<1>6. /\ Done({"edit"}) # {} <=> \E i \in DOMAIN records : Edits(records[i])
      /\ Done({"edit"})' # {} <=> \E i \in DOMAIN records' : Edits(records'[i])
  BY DEF Done
<1> HIDE DEF Edits, Shows
<1>7. \A p : p \in Edited({})' <=> p \in Edited({}) \/ (Edits(entry) /\ p \in entry.paths)
  BY <1>1, <1>2, <1>3
<1>8. \A p : p \in ShownByGit' <=> p \in ShownByGit \/ (Shows(entry) /\ p \in entry.paths)
  BY <1>1, <1>4, <1>5
<1>9. Done({"edit"})' # {} <=> Done({"edit"}) # {} \/ Edits(entry)
  BY <1>1, <1>6
<1>10. Edited({})' = Edited({}) \cup (IF Edits(entry) THEN entry.paths ELSE {})
  BY <1>7
<1>11. ShownByGit' = ShownByGit \cup (IF Shows(entry) THEN entry.paths ELSE {})
  BY <1>8
<1> QED BY <1>9, <1>10, <1>11 DEF Edits, Shows

LEMMA StepIInv == IInv /\ [GateNext]_gateVars => IInv'
<1> SUFFICES ASSUME IInv, [GateNext]_gateVars PROVE IInv'
  OBVIOUS
<1>1. ASSUME NEW entry \in Entries, NEW written \in SUBSET Paths, Call(entry, written) PROVE IInv'
  <2>1. records \in Seq(Entries) /\ records' = Append(records, entry) /\ stage = "work"
    BY <1>1 DEF IInv, Types, Call
  <2>2. /\ entry.tool # "command" => entry.traits = {}
        /\ red' = IF entry.tool = "command" /\ "delivery" \notin entry.traits
                  THEN ~(entry.ok /\ entry.clean) ELSE red
        /\ before' = before
    BY <1>1 DEF Call
  <2>3. /\ git' = IF entry.ok /\ "git" \in entry.traits THEN git \cup entry.paths ELSE git
        /\ changed' = changed \cup written
        /\ hollow' = IF entry.tool = "edit" /\ entry.ok THEN hollow \cup (entry.paths \ written) ELSE hollow
    BY <1>1 DEF Call
  <2>4. mutated' <=> mutated \/ (entry.tool = "edit" /\ entry.ok)
    BY <1>1 DEF Call
  <2>5. Types'
    <3>1. red' \in BOOLEAN
      BY <2>2 DEF IInv, Types
    <3> QED BY <2>1, <3>1, Appended DEF Types
  <2>6. red' <=> LastFailed(Checks)'
    BY <2>1, <2>2, LastCheck DEF IInv, HistoryIsFound
  <2>7. git' = ShownByGit'
    BY <2>1, <2>2, <2>3, ChangedGrows DEF IInv, HistoryIsFound
  <2>8. Edited({})' \subseteq changed' \cup hollow'
    BY <2>1, <2>3, ChangedGrows DEF IInv, HistoryIsFound
  <2>9. mutated' <=> Done({"edit"})' # {} \/ before' # {}
    <3>1. Done({"edit"})' # {} <=> Done({"edit"}) # {} \/ (entry.tool = "edit" /\ entry.ok)
      BY <2>1, ChangedGrows
    <3>2. mutated <=> Done({"edit"}) # {} \/ before # {}
      BY DEF IInv, HistoryIsFound
    <3> QED BY <2>2, <2>4, <3>1, <3>2
  <2>10. CompletedPassed'
    BY <1>1, <2>1 DEF IInv, CompletedPassed, Completed, Call
  <2> QED BY <2>5, <2>6, <2>7, <2>8, <2>9, <2>10 DEF IInv, HistoryIsFound
\* The other steps leave the records alone.
<1>2. ASSUME UNCHANGED evidence PROVE Types' /\ HistoryIsFound'
  BY <1>2 DEF IInv, Types, HistoryIsFound, evidence, LastFailed, Checks, CommandCalls, ShownByGit, Edited, Clean, Done
<1>3. ASSUME UNCHANGED evidence, outcome' # "completed" PROVE IInv'
  BY <1>2, <1>3 DEF IInv, CompletedPassed, Completed
<1>4. ASSUME stage # "done" PROVE outcome # "completed"
  BY <1>4 DEF IInv, CompletedPassed, Completed
<1>5. CASE Escalate
  BY <1>3, <1>4, <1>5 DEF Escalate
<1>6. ASSUME NEW report \in Reports, Answer(report) PROVE IInv'
  <2>1. UNCHANGED evidence /\ (outcome' = outcome \/ outcome' = "advice") /\ stage = "work"
    BY <1>6 DEF Answer
  <2> QED BY <1>3, <1>4, <2>1
<1>7. ASSUME NEW report \in Reports, Recovered(report) PROVE IInv'
  BY <1>3, <1>4, <1>7 DEF Recovered
<1>8. CASE Judge
  <2>1. UNCHANGED evidence /\ outcome' \in {outcome, "stale", "unproven"} /\ stage = "judge"
    BY <1>8 DEF Judge
  <2> QED BY <1>3, <1>4, <2>1
<1>9. CASE CompleteTask
  <2>1. UNCHANGED <<evidence, task, draft>> /\ stage' = "done"
    BY <1>9 DEF CompleteTask
  <2>2. outcome' = "completed" => \E missing \in SUBSET task.outputs : Failing({}, FALSE, draft, missing) = {}
    BY <1>9 DEF CompleteTask, FinallyReadOnly
  <2>3. \A missing : Failing({}, FALSE, draft, missing)' = Failing({}, FALSE, draft, missing)
    BY <1>9 DEF CompleteTask, evidence, Failing, Nothing, Done, Clean, Changed, ShownByGit, Edited, Ran, MustEdit, Required, NoChange,
                LastFailed, CommandCalls, Checks, LatestRed, Validated
  <2>4. CompletedPassed'
    BY <2>1, <2>2, <2>3 DEF CompletedPassed, Completed
  <2> QED BY <1>2, <2>1, <2>4 DEF IInv
<1>10. CASE UNCHANGED gateVars
  <2>1. UNCHANGED <<evidence, task, draft, stage, outcome>>
    BY <1>10 DEF gateVars
  <2>2. \A missing : Failing({}, FALSE, draft, missing)' = Failing({}, FALSE, draft, missing)
    BY <2>1 DEF evidence, Failing, Nothing, Done, Clean, Changed, ShownByGit, Edited, Ran, MustEdit, Required, NoChange,
                LastFailed, CommandCalls, Checks, LatestRed, Validated
  <2> QED BY <1>2, <2>1, <2>2 DEF IInv, CompletedPassed, Completed
<1> QED BY <1>1, <1>5, <1>6, <1>7, <1>8, <1>9, <1>10 DEF GateNext

LEMMA Inductive == GateAssumption /\ GateSpec => []IInv
BY InitIInv, StepIInv, PTL DEF GateSpec

(* A change or a delivery that must be validated is never completed after  *)
(* a check that failed and that no record of one that succeeded follows.   *)
THEOREM RedIsNeverCompleted == GateAssumption /\ GateSpec => []RedIsNotCompleted
<1>1. IInv => RedIsNotCompleted
  <2> SUFFICES ASSUME IInv, Completed, task.validation, task.edits \/ task.git PROVE ~red
    BY DEF RedIsNotCompleted
  <2>1. PICK missing \in SUBSET task.outputs : "latest" \notin Failing({}, FALSE, draft, missing)
    BY DEF IInv, CompletedPassed
  <2>2. ~LatestRed(FALSE)
    BY <2>1 DEF Failing
  <2> QED BY <2>2 DEF LatestRed, MustEdit, IInv, HistoryIsFound
<1> QED BY <1>1, Inductive, PTL

(* A completed report names as changed only what the turn wrote, git       *)
(* showed, or an edit named that reported success and wrote nothing; and   *)
(* the turn had an edit that reported success, or goes on from a change    *)
(* and had git show one.                                                   *)
THEOREM CompletedClaimsAreBacked == GateAssumption /\ GateSpec => []ClaimsAreBacked
<1>1. IInv => ClaimsAreBacked
  <2> SUFFICES ASSUME IInv, Completed, "change" \in draft.claims
               PROVE  /\ draft.paths \subseteq changed \cup hollow \cup git
                      /\ Done({"edit"}) # {} \/ (before # {} /\ git # {})
    BY DEF ClaimsAreBacked
  <2>1. PICK missing \in SUBSET task.outputs : Failing({}, FALSE, draft, missing) = {}
    BY DEF IInv, CompletedPassed
  <2>2. mutated /\ Changed({}) # {}
    BY <2>1 DEF Failing
  <2>3. draft.paths \subseteq Changed({})
    BY <2>1 DEF Failing
  <2>4. Changed({}) = Edited({}) \cup git /\ Edited({}) \subseteq changed \cup hollow
    BY DEF Changed, IInv, HistoryIsFound
  <2>5. Done({"edit"}) = {} => Edited({}) = {}
    BY DEF Edited
  <2>6. mutated <=> Done({"edit"}) # {} \/ before # {}
    BY DEF IInv, HistoryIsFound
  <2> QED BY <2>2, <2>3, <2>4, <2>5, <2>6
<1> QED BY <1>1, Inductive, PTL

(* A fix that goes on from no earlier change is completed with an edit of  *)
(* its own that reported success, a change that git showed, or a statement *)
(* that none is needed, which no edit precedes and a look or a command     *)
(* does, and no failed one last: also in a read-only turn, and in one that *)
(* stops being read-only, whatever the ledger has of the session's edits.  *)
THEOREM NewFixAlwaysProvesItsWork == GateAssumption /\ GateSpec => []NewFixProvesItsWork
<1>1. IInv => NewFixProvesItsWork
  <2> SUFFICES ASSUME IInv, Completed, task.edits, before = {}, Done({"edit"}) = {}, git = {}
               PROVE  /\ draft.noChange # "no" /\ \A i \in DOMAIN records : records[i].tool # "edit"
                      /\ Done({"command", "look"}) # {} /\ ~LastFailed(CommandCalls)
    BY DEF NewFixProvesItsWork
  <2>1. PICK missing \in SUBSET task.outputs : Failing({}, FALSE, draft, missing) = {}
    BY DEF IInv, CompletedPassed
  <2>2. Required({}, FALSE, draft)
    BY <2>1 DEF Failing, MustEdit
  <2>3. ~mutated
    BY DEF IInv, HistoryIsFound
  <2>4. Changed({}) = {}
    BY DEF Changed, Edited, IInv, HistoryIsFound
  <2> QED BY <2>2, <2>3, <2>4 DEF Required, NoChange
<1> QED BY <1>1, Inductive, PTL
=============================================================================
