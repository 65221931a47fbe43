------------------------------ MODULE RoundLoop ------------------------------
(***************************************************************************)
(* The loop of run_local_agent_turn that asks the model, round after       *)
(* round, until the turn has an outcome: the budget of rounds and its      *)
(* extensions, the context window, the routes (a provider with a model)    *)
(* and the fallbacks between them, the corrections of unusable answers,    *)
(* the detection of loops, the checks before an answer is final.  What a   *)
(* round of tool calls does inside is module ToolRound; the controller's   *)
(* own budgets are module TaskRun.                                         *)
(*                                                                         *)
(* What an answer says (prose or calls, narrated or fabricated work,       *)
(* truncated or not) is the model's choice.  Which other routes are        *)
(* healthy changes with time: a fallback finds any route its filters let   *)
(* through, or none.                                                       *)
(***************************************************************************)
EXTENDS Integers, FiniteSets

CONSTANTS
    Routes, ProviderOf,     \* routes, and the provider of each
    Fits,                   \* tokens that fit the context window of a route
    MaxSize,                \* bound on the tokens of the conversation
    Premium,                \* routes whose fallback the user is asked about
    Anchor,                 \* providers that later passes of a fallback go back to
    Turns,                  \* the turns the loop may be started for
    Soft,                   \* validation commands that only look at the layout of a diff
    Window, Extensions,     \* rounds of one budget, and how often it is extended
    StallRounds, MinNovel, RoundsPerNovel,
    MaxNovel,               \* bound on the novel observations that are counted
    IdenticalRounds, LoopWindow,
    Passes,                 \* passes over the anchor before the time for them is over
    DeterministicPasses,    \* passes in a row that end in a deterministic failure
    Complaints,             \* sorts of unusable prose that get one correction
    VerifyRetries,
    Limit                   \* of each counted retry

Providers == {ProviderOf[r] : r \in Routes}
Budgets   == {"nudge", "rollover", "recovery", "read", "plan", "run", "evidence", "route", "hook"}
Faults    == Complaints \cup {"quality", "unoffered"}
Errors    == {"transient", "deterministic", "fatal"}

ASSUME RoundLoopAssumption ==
    /\ IsFiniteSet(Routes) /\ Premium \subseteq Routes /\ Anchor \subseteq Providers
    /\ Fits \in [Routes -> Nat] /\ MaxSize \in Nat
    /\ Turns \subseteq [auto : BOOLEAN, fallback : BOOLEAN, strict : BOOLEAN, planned : BOOLEAN,
                        edits : BOOLEAN, resumed : BOOLEAN, project : SUBSET STRING]
    /\ {Window, IdenticalRounds, LoopWindow, RoundsPerNovel} \subseteq Nat \ {0}
    /\ {Extensions, StallRounds, MinNovel, MaxNovel, Passes, DeterministicPasses, VerifyRetries} \subseteq Nat
    /\ Complaints \cap {"quality", "unoffered"} = {}
    /\ Limit \in [Budgets -> Nat \ {0}]

VARIABLES
    turn, pc,
    round, cap, extensions,     \* _round, max_rounds, _round_extensions_used
    novel,                      \* novel_observations of the controller
    identical, seen, called,    \* of the signatures of the calls; called: there is one
    stalled,                    \* stalled_routes
    repeats,                    \* invalid_tool_repeats
    route,                      \* resolved_provider and resolved_model
    retry,                      \* the fallback after a failed request
    size,                       \* estimated tokens of working_messages
    corrected, struck,          \* per fault: ..._retries and ..._failed_providers
    serialized,                 \* single_tool_call_retries
    used,                       \* the counted retries
    work, ran, confirmed,       \* any_mutation, any_execute_command_since_mutation, validation_confirmed
    tries,                      \* validation_retries
    since,                      \* history: project commands, or "any", that passed since the last change
    slipped,                    \* history: a result since the last reported change said too much or too little
    rescued,                    \* the answer was written with tools disabled
    inside,                     \* the loop treated as stuck is that of a batch of calls
    ended

rounds  == <<round, cap, extensions>>
loops   == <<identical, seen, called, repeats>>
faults  == <<corrected, struck, serialized>>
proof   == <<work, ran, confirmed, tries, since, slipped>>
rescue  == <<rescued, inside>>
vars == <<turn, pc, rounds, novel, loops, stalled, route, retry, size, faults, used, proof, rescue, ended>>

NoRetry == [can |-> FALSE, error |-> "transient", pool |-> {}, left |-> {}, moved |-> FALSE, passes |-> 0, det |-> 0]
Open    == [result |-> "none", agent |-> "open", checkpoint |-> "running"]

(* A resumed turn counts the successful commands of its saved records, in  *)
(* whatever order they and the changes came.                               *)
Commands == SUBSET (turn.project \cup {"any"})
Green(commands) == commands \cap turn.project # {} => "any" \in commands
Restored ==
    \E done \in {d \in Commands : Green(d)} :
        /\ done # {} => turn.resumed
        /\ work \in IF turn.resumed THEN {"none", "docs", "code"} ELSE {"none"}
        /\ ran = ("any" \in done) /\ confirmed = done \ {"any"}
        /\ since \in {d \in Commands : Green(d) /\ d \subseteq done}
        /\ work = "none" => since = done
        /\ slipped = FALSE

Init ==
    /\ turn \in Turns /\ pc = "top"
    /\ round = -1 /\ cap = Window /\ extensions = 0
    /\ novel = 0
    /\ identical = 0 /\ seen = 0 /\ called = FALSE /\ repeats = 0
    /\ stalled = {}
    /\ route \in Routes /\ retry = NoRetry
    /\ size = 0
    /\ corrected = [f \in Complaints |-> {}] /\ struck = [f \in Faults |-> {}] /\ serialized = {}
    /\ used = [b \in Budgets |-> 0]
    /\ Restored /\ tries = [c \in turn.project |-> 0]
    /\ rescued = FALSE /\ inside = FALSE
    /\ ended = Open

-----------------------------------------------------------------------------
(* What the actions have in common.                                        *)

Go(l) == pc' = l /\ UNCHANGED ended

End(result, agent, checkpoint) ==
    /\ pc' = "done"
    /\ ended' = [result |-> result, agent |-> agent, checkpoint |-> checkpoint]

Provider == ProviderOf[route]

MaySpend(b) == used[b] < Limit[b]
Spend(b) == MaySpend(b) /\ used' = [used EXCEPT ![b] = @ + 1]

(* The fallbacks that second-guess a route: only if the user pinned none.  *)
MayReroute == turn.auto /\ turn.fallback
Reroute(without) ==
    /\ MayReroute
    /\ \E r \in Routes : ProviderOf[r] \notin without /\ route' = r

-----------------------------------------------------------------------------
(* The top of the loop.                                                    *)

NextRound ==
    /\ pc = "top"
    /\ round' = round + 1
    /\ Go(IF round' < cap THEN "live" ELSE "cap")
    /\ UNCHANGED <<turn, cap, extensions, novel, loops, stalled, route, retry, size, faults, used, proof, rescue>>

(* _insufficient_novel_evidence.                                           *)
Needed == IF round \div RoundsPerNovel > MinNovel THEN round \div RoundsPerNovel ELSE MinNovel
TooLittleEvidence == round >= StallRounds /\ novel < Needed

OutOfRounds ==
    /\ pc = "cap"
    /\ turn.strict \/ (~TooLittleEvidence /\ extensions = Extensions)
    /\ End("failed", "failed", "interrupted")
    /\ UNCHANGED <<turn, rounds, novel, loops, stalled, route, retry, size, faults, used, proof, rescue>>

(* One more round, for the model to act on the reminder.                   *)
GrantRound ==
    /\ pc = "cap" /\ ~turn.strict /\ TooLittleEvidence
    /\ cap' = IF MaySpend("nudge") THEN cap + 1 ELSE cap
    /\ Go("stuck")
    /\ UNCHANGED <<turn, round, extensions, novel, loops, stalled, route, retry, size, faults, used, proof, rescue>>

Extend ==
    /\ pc = "cap" /\ ~turn.strict /\ ~TooLittleEvidence
    /\ extensions < Extensions
    /\ extensions' = extensions + 1 /\ cap' = cap + Window
    /\ Go("live")
    /\ UNCHANGED <<turn, round, novel, loops, stalled, route, retry, size, faults, used, proof, rescue>>

(* A live instruction that cancels, pauses or exits.                       *)
LiveStop ==
    /\ pc = "live"
    /\ End("cancelled", "open", "running")
    /\ UNCHANGED <<turn, rounds, novel, loops, stalled, route, retry, size, faults, used, proof, rescue>>

(* Other live instructions join the conversation.  An audit that has read  *)
(* enough is asked once without tools; a fallback of that request offers   *)
(* them again, so that any answer may still come.                          *)
LiveGo ==
    /\ pc = "live"
    /\ Go("context")
    /\ UNCHANGED <<turn, rounds, novel, loops, stalled, route, retry, size, faults, used, proof, rescue>>

-----------------------------------------------------------------------------
(* The context window.                                                     *)

Compact ==
    /\ pc = "context"
    /\ size' \in IF size <= Fits[route] THEN {size} ELSE 0..size
    /\ Go(IF size' <= Fits[route] THEN "ask" ELSE "rollover")
    /\ UNCHANGED <<turn, rounds, novel, loops, stalled, route, retry, faults, used, proof, rescue>>

RollOver ==
    /\ pc = "rollover"
    /\ \/ Spend("rollover") /\ size' \in 0..size
       \/ ~MaySpend("rollover") /\ UNCHANGED <<used, size>>
    /\ Go(IF size' <= Fits[route] THEN "ask" ELSE "widen")
    /\ UNCHANGED <<turn, rounds, novel, loops, stalled, route, retry, faults, proof, rescue>>

Widen ==
    /\ pc = "widen"
    /\ Reroute({})
    /\ Fits[route'] > Fits[route] /\ size <= Fits[route']
    /\ Go("ask")
    /\ UNCHANGED <<turn, rounds, novel, loops, stalled, retry, size, faults, used, proof, rescue>>

TooLarge ==
    /\ pc = "widen"
    /\ End("failed", "failed", "running")
    /\ UNCHANGED <<turn, rounds, novel, loops, stalled, route, retry, size, faults, used, proof, rescue>>

-----------------------------------------------------------------------------
(* The request, with its reconnections, and the fallback when it fails.    *)

Answers == {"steered", "bad", "empty", "prose", "calls"}

Ask ==
    /\ pc = "ask"
    /\ \E a \in Answers : Go(a)
    /\ UNCHANGED <<turn, rounds, novel, loops, stalled, route, retry, size, faults, used, proof, rescue>>

(* The fallback does not ask whether a provider is pinned; it asks the     *)
(* user about a premium route.                                             *)
AskFails ==
    /\ pc = "ask"
    /\ \E e \in Errors, allowed \in {TRUE, route \notin Premium}, pool \in SUBSET Providers :
          LET can == turn.fallback /\ e # "fatal" /\ allowed IN
          /\ retry' = [NoRetry EXCEPT !.can = can, !.error = e, !.pool = IF can THEN pool ELSE {},
                                      !.left = IF can THEN pool ELSE {}]
          /\ Go(IF can THEN "retry" ELSE "exhausted")
    /\ UNCHANGED <<turn, rounds, novel, loops, stalled, route, size, faults, used, proof, rescue>>

(* One candidate of the pass: skipped, for want of a client or a model,    *)
(* or asked.                                                               *)
Skip(p) ==
    /\ pc = "retry" /\ p \in retry.left
    /\ retry' = [retry EXCEPT !.left = @ \ {p}]
    /\ UNCHANGED <<turn, pc, rounds, novel, loops, stalled, route, size, faults, used, proof, rescue, ended>>

TrySucceeds(r) ==
    /\ pc = "retry" /\ ProviderOf[r] \in retry.left
    /\ route' = r /\ retry' = NoRetry
    /\ \E a \in Answers : Go(a)
    /\ UNCHANGED <<turn, rounds, novel, loops, stalled, size, faults, used, proof, rescue>>

TryFails(r) ==
    /\ pc = "retry" /\ ProviderOf[r] \in retry.left
    /\ \E e \in Errors :
          retry' = [retry EXCEPT !.error = e, !.moved = TRUE,
                                 !.left = IF e = "fatal" THEN {} ELSE @ \ {ProviderOf[r]}]
    /\ UNCHANGED <<turn, pc, rounds, novel, loops, stalled, route, size, faults, used, proof, rescue, ended>>

(* Back to the anchor, while there is time and hope.                       *)
Anchored == retry.pool = Anchor
Later_Mutant(n) == n            \* the time for the passes never runs out
Later(n) == n + 1
Deterministic ==
    IF ~Anchored THEN retry.det ELSE IF retry.error = "deterministic" THEN retry.det + 1 ELSE 0
NextPass ==
    /\ pc = "retry" /\ retry.left = {}
    /\ retry.passes < Passes /\ retry.error # "fatal"
    /\ Anchored => retry.moved /\ Deterministic < DeterministicPasses
    /\ retry' = [retry EXCEPT !.passes = Later(@), !.det = Deterministic,
                              !.pool = Anchor, !.left = Anchor, !.moved = FALSE]
    /\ UNCHANGED <<turn, pc, rounds, novel, loops, stalled, route, size, faults, used, proof, rescue, ended>>

(* The deadline can pass during any pass.                                  *)
LastPass ==
    /\ pc = "retry" /\ retry.left = {}
    /\ retry' = [NoRetry EXCEPT !.can = TRUE, !.error = retry.error]
    /\ Go("exhausted")
    /\ UNCHANGED <<turn, rounds, novel, loops, stalled, route, size, faults, used, proof, rescue>>

FreshRoute ==
    /\ pc = "exhausted" /\ retry.can /\ retry.error # "fatal"
    /\ Spend("recovery")
    /\ route' \in Routes /\ retry' = NoRetry
    /\ Go("top")
    /\ UNCHANGED <<turn, rounds, novel, loops, stalled, size, faults, proof, rescue>>

Exhausted ==
    /\ pc = "exhausted" /\ retry' = NoRetry
    /\ End("failed", "failed", "interrupted")
    /\ UNCHANGED <<turn, rounds, novel, loops, stalled, route, size, faults, used, proof, rescue>>

-----------------------------------------------------------------------------
(* Answers that are no answers.                                            *)

Steered ==
    /\ pc = "steered" /\ Go("top")
    /\ UNCHANGED <<turn, rounds, novel, loops, stalled, route, retry, size, faults, used, proof, rescue>>

(* _recover_audit_plan_file: the next file of the plan is read locally.    *)
ReadPlannedFile ==
    /\ pc \in {"bad", "prose"} /\ turn.planned /\ (turn.resumed \/ ~turn.edits)
    /\ Spend("read")
    /\ size' \in {size, IF size < MaxSize THEN size + 1 ELSE size}
    /\ Go("top")
    /\ UNCHANGED <<turn, rounds, novel, loops, stalled, route, retry, faults, proof, rescue>>

(* The provider is struck off for this fault; another one, or the end.     *)
Strike(f) == struck' = [struck EXCEPT ![f] = @ \cup {Provider}]
SwitchOrStop(f) ==
    \/ Reroute(struck'[f]) /\ Go("top")
    \/ UNCHANGED route /\ End("failed", "failed", "interrupted")

Discard ==
    /\ pc = "bad"
    /\ Strike("quality") /\ SwitchOrStop("quality")
    /\ UNCHANGED <<turn, rounds, novel, loops, stalled, retry, size, corrected, serialized, used, proof, rescue>>

(* _recover_empty_continuation.                                            *)
RecoverEmpty ==
    /\ pc = "empty"
    /\ \/ /\ UNCHANGED route \/ Reroute({})
          /\ \E a \in {"prose", "calls"} : Go(a)
       \/ UNCHANGED route /\ End("failed", "failed", "running")
    /\ UNCHANGED <<turn, rounds, novel, loops, stalled, retry, size, faults, used, proof, rescue>>

(* A route that takes one call at a time is told so once.                  *)
Serialize ==
    /\ pc = "prose" /\ Provider \notin serialized
    /\ serialized' = serialized \cup {Provider}
    /\ Go("top")
    /\ UNCHANGED <<turn, rounds, novel, loops, stalled, route, retry, size, corrected, struck, used, proof, rescue>>

Correct(f) ==
    /\ pc = "prose" /\ Provider \notin corrected[f]
    /\ corrected' = [corrected EXCEPT ![f] = @ \cup {Provider}]
    /\ Go("top")
    /\ UNCHANGED <<turn, rounds, novel, loops, stalled, route, retry, size, struck, serialized, used, proof, rescue>>

Abandon(f) ==
    /\ pc = "prose" /\ Provider \in corrected[f]
    /\ Strike(f) /\ SwitchOrStop(f)
    /\ UNCHANGED <<turn, rounds, novel, loops, stalled, retry, size, corrected, serialized, used, proof, rescue>>

-----------------------------------------------------------------------------
(* The checks before prose is delivered as the answer.                     *)

PlanUnfinished ==
    /\ pc = "prose" /\ turn.planned /\ ~(work = "code" /\ ran)
    /\ Spend("plan")
    /\ Go("top")
    /\ UNCHANGED <<turn, rounds, novel, loops, stalled, route, retry, size, faults, proof, rescue>>

Unrun == turn.edits /\ turn.project = {} /\ work = "code" /\ ~ran
Unconfirmed == IF work = "none" THEN {} ELSE turn.project \ confirmed

RequireRun ==
    /\ pc = "prose" /\ Unrun
    /\ \/ Spend("run") /\ Go("top")
       \/ ~MaySpend("run") /\ UNCHANGED used /\ End("failed", "failed", "failed")
    /\ UNCHANGED <<turn, rounds, novel, loops, stalled, route, retry, size, faults, proof, rescue>>

RequireCommand(c) ==
    /\ pc = "prose" /\ c \in Unconfirmed
    /\ \/ /\ tries[c] < VerifyRetries
          /\ tries' = [tries EXCEPT ![c] = @ + 1]
          /\ Go("top") /\ UNCHANGED confirmed
       \/ /\ tries[c] = VerifyRetries /\ c \in Soft
          /\ confirmed' = confirmed \cup {c}
          /\ Go("top") /\ UNCHANGED tries
       \/ /\ tries[c] = VerifyRetries /\ c \notin Soft
          /\ End("failed", "failed", "failed") /\ UNCHANGED <<tries, confirmed>>
    /\ UNCHANGED <<turn, rounds, novel, loops, stalled, route, retry, size, faults, used, work, ran, since, slipped, rescue>>

Verified == ~Unrun /\ Unconfirmed = {}

EvidenceMissing ==
    /\ pc = "prose" /\ Verified
    /\ Spend("evidence")
    /\ Go("top")
    /\ UNCHANGED <<turn, rounds, novel, loops, stalled, route, retry, size, faults, proof, rescue>>

AdviceOnly ==
    /\ pc = "prose" /\ Verified /\ work = "none" /\ ~MaySpend("evidence")
    /\ End("failed", "failed", "interrupted")
    /\ UNCHANGED <<turn, rounds, novel, loops, stalled, route, retry, size, faults, used, proof, rescue>>

Deliver ==
    /\ pc = "prose" /\ Verified
    /\ rescued' = FALSE
    /\ Go("final")
    /\ UNCHANGED <<turn, rounds, novel, loops, stalled, route, retry, size, faults, used, proof, inside>>

-----------------------------------------------------------------------------
(* _finalize_completed_answer.                                             *)

(* A truncated answer is continued, if need be on another route.           *)
Continue ==
    /\ pc = "final"
    /\ \/ (UNCHANGED route \/ Reroute({})) /\ Go("judge")
       \/ UNCHANGED route /\ End("failed", "failed", "interrupted")
    /\ UNCHANGED <<turn, rounds, novel, loops, stalled, retry, size, faults, used, proof, rescue>>

(* An edit that never applied, or an error of the validator.               *)
Reject ==
    /\ pc = "judge"
    /\ \E checkpoint \in {"failed", "interrupted"} : End("failed", "open", checkpoint)
    /\ UNCHANGED <<turn, rounds, novel, loops, stalled, route, retry, size, faults, used, proof, rescue>>

(* Another round; but an answer given inside a batch ends the turn with    *)
(* the request for one, unless it was a refused repetition that led to it. *)
Again ==
    /\ inside' = FALSE
    /\ Go("top") \/ (inside /\ End("continue", "open", "running"))

RetryElsewhere ==
    /\ pc = "judge"
    /\ Spend("route") /\ Reroute({})
    /\ Again
    /\ UNCHANGED <<turn, rounds, novel, loops, stalled, retry, size, faults, proof, rescued>>

StopHook ==
    /\ pc = "judge"
    /\ \/ Spend("hook") /\ Again
       \/ ~MaySpend("hook") /\ UNCHANGED <<used, inside>> /\ End("failed", "failed", "interrupted")
    /\ UNCHANGED <<turn, rounds, novel, loops, stalled, route, retry, size, faults, proof, rescued>>

Complete ==
    /\ pc = "judge"
    /\ \/ End("completed", "completed", "cleared")
       \/ End("failed", "failed", "failed")
    /\ UNCHANGED <<turn, rounds, novel, loops, stalled, route, retry, size, faults, used, proof, rescue>>

-----------------------------------------------------------------------------
(* Tool calls.                                                             *)

(* The signature of the calls against the last one and the last few.       *)
CountCalls ==
    /\ pc = "calls"
    /\ called' = TRUE
    /\ identical' \in {0} \cup (IF called THEN {identical + 1} ELSE {})
    /\ seen' = IF seen < LoopWindow THEN seen + 1 ELSE seen
    /\ \/ identical' < IdenticalRounds /\ Go("dispatch")
       \/ (identical' >= IdenticalRounds \/ seen' = LoopWindow) /\ Go("looping")
    /\ UNCHANGED <<turn, rounds, novel, repeats, stalled, route, retry, size, faults, used, proof, rescue>>

(* Only calls that could not be parsed.                                    *)
Malformed ==
    /\ pc \in {"dispatch", "looping"} /\ Go("top")
    /\ UNCHANGED <<turn, rounds, novel, loops, stalled, route, retry, size, faults, used, proof, rescue>>

(* Only calls of tools that were not offered: answered; when the same ones *)
(* come again, with another route or the treatment of a loop.              *)
Unoffered ==
    /\ pc \in {"dispatch", "looping"}
    /\ repeats' = 1
    /\ Go(IF pc = "looping" THEN "stuck" ELSE "top")
    /\ UNCHANGED <<turn, rounds, novel, identical, seen, called, stalled, route, retry, size, faults, used, proof, rescue>>

UnofferedAgain ==
    /\ pc \in {"dispatch", "looping"} /\ repeats > 0
    /\ Strike("unoffered")
    /\ \/ Reroute(struck'["unoffered"]) /\ repeats' = 0 /\ identical' = 0 /\ seen' = 0 /\ Go("top")
       \/ repeats' = 2 /\ UNCHANGED <<route, identical, seen>> /\ Go("stuck")
    /\ UNCHANGED <<turn, rounds, novel, called, stalled, retry, size, corrected, serialized, used, proof, rescue>>

Looping ==
    /\ pc = "looping" /\ Go("stuck")
    /\ UNCHANGED <<turn, rounds, novel, loops, stalled, route, retry, size, faults, used, proof, rescue>>

(* What a change and then, or only, commands leave confirmed, as their     *)
(* results have it.                                                        *)
ConfirmedAfter_Mutant(mutates, commands) == confirmed \cup commands     \* an edit keeps old results
ConfirmedAfter(mutates, commands) == (IF mutates THEN {} ELSE confirmed) \cup commands

(* after: the commands that count as successful since the change.  The     *)
(* result of a command is a success when it has been started at all:       *)
(* passed, the ones that ended without an error.  hidden: files were       *)
(* changed by a command, or by a write that then failed.                   *)
Results(change, after, passed, hidden) ==
    /\ passed \subseteq after
    /\ work' = IF change = "none" \/ work = "code" THEN work ELSE change
    /\ ran' = ("any" \in after \/ (ran /\ change = "none"))
    /\ confirmed' = ConfirmedAfter(change # "none", after \cap turn.project)
    /\ since' = IF hidden THEN {} ELSE (IF change = "none" THEN since ELSE {}) \cup passed
    /\ slipped' = ((slipped /\ change = "none") \/ passed # after \/ hidden)

RunTools ==
    /\ pc = "dispatch"
    /\ \E change \in {"none", "docs", "code"}, after, passed \in Commands, hidden \in BOOLEAN :
          Green(after) /\ Green(passed) /\ Results(change, after, passed, hidden)
    /\ novel' \in {novel, IF novel < MaxNovel THEN novel + 1 ELSE novel}
    /\ size' \in {size, IF size < MaxSize THEN size + 1 ELSE size}
    /\ \/ Go("top") /\ UNCHANGED inside
       \/ Go("stuck") /\ inside' = TRUE     \* a result without evidence, or a refused repetition
    /\ UNCHANGED <<turn, rounds, loops, stalled, route, retry, faults, used, tries, rescued>>

(* A terminal verdict of the controller, the scope guard, the review before *)
(* a change.                                                               *)
ToolsEnd ==
    /\ pc = "dispatch"
    /\ \/ \E checkpoint \in {"failed", "running"} : End("failed", "failed", checkpoint)
       \/ End("partial", "open", "checkpointing")
       \/ End("denied", "open", "running")
    /\ UNCHANGED <<turn, rounds, novel, loops, stalled, route, retry, size, faults, used, proof, rescue>>

-----------------------------------------------------------------------------
(* _handle_stuck_loop.                                                     *)

CleanSlate == identical' = 0 /\ seen' = 0 /\ inside' = FALSE

Nudge ==
    /\ pc = "stuck"
    /\ Spend("nudge") /\ CleanSlate
    /\ Go("top")
    /\ UNCHANGED <<turn, rounds, novel, called, repeats, stalled, route, retry, size, faults, proof, rescued>>

Stalled == IF MayReroute THEN stalled \cup {route} ELSE stalled
Untried == Routes \ Stalled

LeaveStalledRoute ==
    /\ pc = "stuck" /\ ~MaySpend("nudge") /\ MayReroute
    /\ stalled' = Stalled
    /\ route' \in Untried
    /\ used' = [used EXCEPT !["nudge"] = 0] /\ CleanSlate
    /\ Go("top")
    /\ UNCHANGED <<turn, rounds, novel, called, repeats, retry, size, faults, proof, rescued>>

DisableTools ==
    /\ pc = "stuck" /\ ~MaySpend("nudge")
    /\ stalled' = Stalled
    /\ Go("rescue")
    /\ UNCHANGED <<turn, rounds, novel, loops, route, retry, size, faults, used, proof, rescue>>

(* The answer without tools, from this or another route, or the summary    *)
(* made up from the results; or nothing.                                   *)
Rescue ==
    /\ pc = "rescue"
    /\ \/ rescued' = TRUE /\ Go("final")
       \/ UNCHANGED rescued /\ End("failed", "failed", "running")
    /\ UNCHANGED <<turn, rounds, novel, loops, stalled, route, retry, size, faults, used, proof, inside>>

-----------------------------------------------------------------------------
Requests ==
    \/ Ask \/ AskFails \/ NextPass \/ LastPass \/ FreshRoute \/ Exhausted
    \/ \E p \in Providers : Skip(p)
    \/ \E r \in Routes : TrySucceeds(r) \/ TryFails(r)

Prose ==
    \/ Steered \/ ReadPlannedFile \/ Discard \/ RecoverEmpty \/ Serialize
    \/ \E f \in Complaints : Correct(f) \/ Abandon(f)
    \/ PlanUnfinished \/ RequireRun \/ EvidenceMissing \/ AdviceOnly \/ Deliver
    \/ \E c \in turn.project : RequireCommand(c)

Next ==
    \/ NextRound \/ OutOfRounds \/ GrantRound \/ Extend \/ LiveStop \/ LiveGo
    \/ Compact \/ RollOver \/ Widen \/ TooLarge
    \/ Requests \/ Prose
    \/ Continue \/ Reject \/ RetryElsewhere \/ StopHook \/ Complete
    \/ CountCalls \/ Malformed \/ Unoffered \/ UnofferedAgain \/ Looping \/ RunTools \/ ToolsEnd
    \/ Nudge \/ LeaveStalledRoute \/ DisableTools \/ Rescue

(* The turn is one coroutine, and everything it awaits has a time limit.   *)
Spec == Init /\ [][Next]_vars /\ WF_vars(Next)

-----------------------------------------------------------------------------
(* Types, with the bounds of the counters.                                 *)
TypeOK ==
    /\ turn \in Turns /\ route \in Routes /\ stalled \subseteq Routes
    /\ pc \in Answers \cup {"top", "cap", "stuck", "rescue", "live", "context", "rollover", "widen", "ask",
                            "retry", "exhausted", "final", "judge", "dispatch", "looping", "done"}
    /\ round \in Nat \cup {-1} /\ cap \in Nat /\ extensions \in 0..Extensions /\ novel \in 0..MaxNovel
    /\ identical \in Nat /\ seen \in 0..LoopWindow /\ called \in BOOLEAN /\ repeats \in 0..2
    /\ retry \in [can : BOOLEAN, error : Errors, pool : SUBSET Providers, left : SUBSET Providers,
                  moved : BOOLEAN, passes : 0..Passes, det : 0..DeterministicPasses]
    /\ size \in 0..MaxSize
    /\ corrected \in [Complaints -> SUBSET Providers] /\ struck \in [Faults -> SUBSET Providers]
    /\ serialized \subseteq Providers
    /\ used \in [Budgets -> Nat] /\ \A b \in Budgets : used[b] <= Limit[b]
    /\ work \in {"none", "docs", "code"} /\ ran \in BOOLEAN /\ confirmed \subseteq turn.project
    /\ tries \in [turn.project -> 0..VerifyRetries]
    /\ since \in Commands /\ slipped \in BOOLEAN /\ rescued \in BOOLEAN /\ inside \in BOOLEAN
    /\ ended \in [result : {"none", "completed", "failed", "partial", "denied", "cancelled", "continue"},
                  agent : {"open", "completed", "failed"},
                  checkpoint : {"running", "checkpointing", "interrupted", "failed", "cleared"}]

(* A turn that completes with an answer of the model has its changes       *)
(* checked: every command of the project that looks at more than layout,   *)
(* or some command if the project has none, has passed since the last      *)
(* change; unless, since the last change that was reported, a command      *)
(* counted as a success that had not passed, or a change went unreported.  *)
Checked ==
    /\ work # "none" => turn.project \ Soft \subseteq since
    /\ turn.edits /\ turn.project = {} /\ work = "code" => "any" \in since
CompletedIsVerified == ended.result = "completed" /\ ~rescued /\ ~turn.resumed => Checked \/ slipped

(* Every turn comes to an end.                                             *)
TurnEnds == <>(ended.result # "none")

-----------------------------------------------------------------------------
(* What comments of the code say and the code does not do; the README      *)
(* quotes them.                                                            *)

(* "Real functional checks ... still hard-fail": a turn does not complete  *)
(* on a check that failed.                                                 *)
FailedCheckIsFatal == ended.result = "completed" /\ ~rescued /\ ~turn.resumed => Checked

(* A command stands for the changes made before it, in a resumed turn too. *)
ResumedIsVerified == ended.result = "completed" /\ ~rescued /\ turn.resumed => Checked
=============================================================================
