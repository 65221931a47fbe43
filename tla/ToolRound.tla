------------------------------- MODULE ToolRound -------------------------------
(***************************************************************************)
(* One round of tool calls of the agent turn (runner_local.py): protocol   *)
(* errors are answered, every admitted call is queued, the queue runs in   *)
(* groups of calls that do not conflict, each group concurrently, and the  *)
(* results are taken up in the order of the calls.  The loop and stall     *)
(* recovery (_handle_stuck_loop) can answer in place of a call.            *)
(*                                                                         *)
(* Whether a call is admitted is decided by module ApprovalGate and the    *)
(* controller's guard; here a call may be refused at any time.             *)
(***************************************************************************)
EXTENDS Naturals, Sequences, FiniteSets

CONSTANTS
    Paths,
    CallKinds,          \* the calls a model may make
    MaxCalls,       \* bound: calls the model makes in the turn
    MaxBatch,       \* bound: calls in a round
    MaxNudges,      \* MAX_LOOP_NUDGE_RETRIES
    MaxRoutes       \* other routes AUTO may fall back to; 0 for a pinned provider

(* restart: a service restart or listener reclamation; check: the command  *)
(* that validates the change;                                              *)
(* unoffered: a tool name that is not on offer; malformed: a call written  *)
(* as text that does not parse.                                            *)
Operations == {"read", "write", "command", "check", "restart",
               "unoffered", "malformed"}
Commands   == {"command", "check", "restart"}
Calls      == [op : Operations, paths : SUBSET Paths]

ASSUME RoundAssumption ==
    /\ CallKinds \subseteq Calls
    /\ MaxCalls \in Nat \ {0} /\ MaxBatch \in Nat \ {0}
    /\ MaxNudges \in Nat /\ MaxRoutes \in Nat

VARIABLES
    made,           \* calls the model has made in the turn
    batch,          \* the calls of its round
    todo,           \* tool_calls, as positions of the batch still to be processed
    stage,          \* where the round stands
    after,          \* where a flush returns to
    queue,          \* _dispatch_queue
    groups,         \* groups of the flush under way, the first one at work
    settled,        \* results of that group not yet taken up
    talk,           \* assistant and tool messages since the round began
    nudges, routes, repeats,
    cache,          \* reusable_observations: paths read, and no write reported since
    validated,      \* validation_confirmed
    mutated,        \* any_mutation
    finished,       \* history: calls of the round whose result was taken up
    applied,        \* history: writes of the round that changed their file
    seen,           \* history: the writes each read of the round saw
    reused,         \* history: reads of the round answered from the cache
    writes,         \* history: writes of the turn that changed their file and said so
    checkedAt,      \* history: writes when the last check with a success ran
    sound,          \* history: a check has passed, and no file was changed since
    slipped,        \* history: since the last write with a success, a result did not say
                    \* what its call had done
    switched        \* history: the round was abandoned for another route

dispatch == <<queue, groups, settled, after>>
recovery == <<nudges, routes, repeats>>
effects  == <<cache, validated, mutated>>
truth    == <<writes, checkedAt, sound, slipped>>
history  == <<finished, applied, seen, reused, truth, switched>>
roundVars == <<made, batch, todo, stage, dispatch, talk, recovery, effects, history>>

Stages == {"idle", "screen", "calls", "run", "finish", "end"}
Ids    == 1 .. Len(batch)
Op(i)  == batch[i].op

\* The id of the read that is inserted after a failed edit.
Refresh == 0

Asks(ids)    == [role |-> "assistant", calls |-> ids]
Answer(i)    == [role |-> "tool", calls |-> {i}]
AnswersTo(ids) == [k \in 1 .. Cardinality(ids) |->
                    Answer(CHOOSE i \in ids : Cardinality({j \in ids : j < i}) = k - 1)]
Reply(messages) == talk' = talk \o messages

RoundInit ==
    /\ made = 0 /\ batch = <<>> /\ todo = {} /\ stage = "idle" /\ after = "idle"
    /\ queue = <<>> /\ groups = <<>> /\ settled = [i \in {} |-> FALSE] /\ talk = <<>>
    /\ nudges = 0 /\ routes = 0 /\ repeats = 0
    /\ cache = {} /\ validated = FALSE /\ mutated = FALSE
    /\ finished = {} /\ applied = {} /\ seen = [i \in {} |-> {}] /\ reused = {}
    /\ writes = 0 /\ checkedAt = 0 /\ sound = FALSE /\ slipped = FALSE /\ switched = FALSE

-----------------------------------------------------------------------------
(* The model's calls are echoed back before anything is done about them.   *)
ModelCallsTools ==
    /\ stage = "idle"
    /\ \E n \in 1 .. MaxBatch :
          /\ made' = made + n /\ made' <= MaxCalls
          /\ batch' \in [1 .. n -> CallKinds]
    /\ todo' = DOMAIN batch'
    /\ talk' = <<Asks(DOMAIN batch')>>
    /\ stage' = "screen"
    /\ finished' = {} /\ applied' = {} /\ seen' = [i \in {} |-> {}] /\ reused' = {}
    /\ switched' = FALSE
    /\ UNCHANGED <<dispatch, recovery, effects, truth>>

TurnEnds ==
    /\ stage = "idle"
    /\ stage' = "end"
    /\ UNCHANGED <<made, batch, todo, dispatch, talk, recovery, effects, history>>

(* _handle_stuck_loop: a reminder, then another route, then one answer     *)
(* without tools.  "on" goes on, "over" ends the turn, "continue" asks the *)
(* loop for another round.                                                 *)
Recover(result) ==
    \/ /\ nudges < MaxNudges
       /\ nudges' = nudges + 1 /\ UNCHANGED routes
       /\ result = "on"
    \/ /\ nudges = MaxNudges /\ routes < MaxRoutes
       /\ routes' = routes + 1 /\ nudges' = 0
       /\ result = "on"
    \/ /\ nudges = MaxNudges /\ routes = MaxRoutes
       /\ UNCHANGED <<nudges, routes>>
       /\ result \in {"over", "continue"}

Results == {"on", "over", "continue"}

(* A call written as text has no name that is on offer either.             *)
Invalid   == {i \in todo : Op(i) \in {"unoffered", "malformed"}}
Malformed == {i \in todo : Op(i) = "malformed"}

RejectInvalid_Mutant ==     \* drops them without an answer
    /\ stage = "screen" /\ Invalid # {} /\ Invalid # todo
    /\ todo' = todo \ Invalid
    /\ UNCHANGED <<made, batch, stage, dispatch, talk, recovery, effects, history>>

\* Part of the batch is not on offer: that part is answered, the rest goes on.
RejectInvalid ==
    /\ stage = "screen" /\ Invalid # {} /\ Invalid # todo
    /\ Reply(AnswersTo(Invalid))
    /\ todo' = todo \ Invalid
    /\ UNCHANGED <<made, batch, stage, dispatch, recovery, effects, history>>

AnswerMalformed ==
    /\ stage = "screen" /\ Invalid = todo /\ Malformed # {}
    /\ Reply(AnswersTo(Malformed))
    /\ todo' = todo \ Malformed
    /\ stage' = IF todo' = {} THEN "idle" ELSE "screen"
    /\ UNCHANGED <<made, batch, dispatch, recovery, effects, history>>

(* Nothing in the batch is on offer: it is answered the first time; the    *)
(* same names again leave the route, or go to the recovery ladder.         *)
NothingOffered == stage = "screen" /\ todo # {} /\ Invalid = todo /\ Malformed = {}

AnswerUnoffered ==
    /\ NothingOffered
    /\ Reply(AnswersTo(todo))
    /\ todo' = {} /\ stage' = "idle" /\ repeats' = 1
    /\ UNCHANGED <<made, batch, dispatch, nudges, routes, effects, history>>

LeaveRoute ==
    /\ NothingOffered /\ repeats = 1 /\ routes < MaxRoutes
    /\ routes' = routes + 1 /\ repeats' = 0
    /\ todo' = {} /\ stage' = "idle" /\ switched' = TRUE
    /\ UNCHANGED <<made, batch, dispatch, talk, nudges, effects, finished, applied, seen,
                   reused, truth>>

(* The round repeats an earlier one, or a cycle of rounds, or names on no  *)
(* offer with no other route left: no call is executed.                    *)
BlockLoop ==
    /\ stage = "screen" /\ todo # {} /\ Malformed = {} /\ Invalid \in {{}, todo}
    /\ Reply(AnswersTo(todo))
    /\ todo' = {}
    /\ repeats' = IF Invalid = todo THEN 1 ELSE repeats
    /\ \E result \in Results :
          /\ Recover(result)
          /\ stage' = IF result = "over" THEN "end" ELSE "idle"
    /\ UNCHANGED <<made, batch, dispatch, effects, history>>

StartCalls ==
    /\ stage = "screen" /\ Invalid = {}
    /\ stage' = "calls"
    /\ UNCHANGED <<made, batch, todo, dispatch, talk, recovery, effects, history>>

-----------------------------------------------------------------------------
(* The loop over the calls, in their order.                                *)

Current == CHOOSE i \in todo : \A j \in todo : i <= j
AtCall  == stage = "calls" /\ todo # {}
Taken   == todo' = todo \ {Current} /\ UNCHANGED <<made, batch>>

Cached(i) == Op(i) = "read" /\ batch[i].paths \subseteq cache

(* Refused by the guard, a gate or a hook, or executed on the spot as a    *)
(* delegation: answered before anything queued so far has run.             *)
AnswerAtOnce ==
    /\ AtCall
    /\ Taken /\ Reply(<<Answer(Current)>>)
    /\ UNCHANGED <<stage, dispatch, recovery, effects, history>>

\* "Blocked repeated action": answered, and the recovery ladder taken.
BlockRepeat ==
    /\ AtCall
    /\ Taken /\ Reply(<<Answer(Current)>>)
    /\ \E result \in Results :
          /\ Recover(result)
          /\ stage' = IF result = "over" THEN "end" ELSE stage
    /\ UNCHANGED <<dispatch, repeats, effects, history>>

AnswerFromCache ==
    /\ AtCall /\ Cached(Current)
    /\ Taken /\ Reply(<<Answer(Current)>>)
    /\ reused' = reused \cup {Current}
    /\ seen' = [i \in DOMAIN seen \cup {Current} |-> IF i = Current THEN {} ELSE seen[i]]
    /\ UNCHANGED <<stage, dispatch, recovery, effects, finished, applied, truth, switched>>

Enqueue ==
    /\ AtCall /\ ~Cached(Current)
    /\ Op(Current) = "restart" => queue = <<>>
    /\ Taken
    /\ queue' = Append(queue, Current)
    /\ UNCHANGED <<stage, groups, settled, after, talk, recovery, effects, history>>

-----------------------------------------------------------------------------
(* The flush: maximal conflict-free groups in the order of the calls.      *)

ReadOnly(i) == Op(i) = "read"

Conflicts(i, j) ==
    \/ (Op(i) \in Commands) # (Op(j) \in Commands)
          /\ \E k \in {i, j} : Op(k) \notin Commands /\ ~ReadOnly(k)
    \/ ~(ReadOnly(i) /\ ReadOnly(j)) /\ batch[i].paths \cap batch[j].paths # {}

Apart_Mutant(i, group) == ~Conflicts(group[Len(group)], i)      \* looks at the last member only
Apart(i, group) == \A k \in DOMAIN group : ~Conflicts(group[k], i)

Joined(gs, i) ==
    IF gs # <<>> /\ Apart(i, gs[Len(gs)]) THEN [gs EXCEPT ![Len(gs)] = Append(@, i)]
                                          ELSE Append(gs, <<i>>)

\* Split(q)[n]: the groups of the first n calls of a queue.
Split(q) ==
    LET split[n \in 0 .. Len(q)] == IF n = 0 THEN <<>> ELSE Joined(split[n - 1], q[n])
    IN  split
Grouping(q) == Split(q)[Len(q)]

Group == groups[1]
Members(group) == {group[k] : k \in DOMAIN group}

Flush(next) ==
    /\ groups' = Grouping(queue) /\ queue' = <<>> /\ settled' = [i \in {} |-> FALSE]
    /\ after' = next /\ stage' = "run"
    /\ UNCHANGED <<made, batch, todo, talk, recovery, effects, history>>

\* A restart is judged on the outcome of everything queued before it.
FlushBeforeRestart ==
    /\ AtCall /\ Op(Current) = "restart" /\ queue # <<>>
    /\ Flush("calls")

\* Out of budget, or three calls in a row outside the scope: run what is queued, then stop.
StopRound ==
    /\ AtCall
    /\ Taken /\ Reply(<<Answer(Current)>>)
    /\ IF queue = <<>> THEN stage' = "end" /\ UNCHANGED dispatch
       ELSE /\ groups' = Grouping(queue) /\ queue' = <<>> /\ settled' = [i \in {} |-> FALSE]
            /\ after' = "end" /\ stage' = "run"
    /\ UNCHANGED <<recovery, effects, history>>

FlushAtEnd ==
    /\ stage = "calls" /\ todo = {} /\ queue # <<>>
    /\ Flush("idle")

RoundDone ==
    /\ stage = "calls" /\ todo = {} /\ queue = <<>>
    /\ stage' = "idle"
    /\ UNCHANGED <<made, batch, todo, dispatch, talk, recovery, effects, history>>

(* The calls of the group run concurrently, each to an outcome of its own. *)
Running == IF stage = "run" THEN Members(Group) \ DOMAIN settled ELSE {}

SettleCall(i, success) ==
    /\ i \in Running
    /\ settled' = [j \in DOMAIN settled \cup {i} |-> IF j = i THEN success ELSE settled[j]]
    /\ stage' = IF DOMAIN settled' = Members(Group) THEN "finish" ELSE "run"
    /\ UNCHANGED <<made, batch, todo, queue, groups, after, talk, recovery, effects,
                   finished, reused, switched>>

(* What a call has done, whatever its result says.  A success only says    *)
(* that the tool's function returned (call_tool): it does for a write that *)
(* is refused or finds the file as asked, for a command that exits with an *)
(* error and for one that Ctrl+B moves to the background.  A failure may   *)
(* come after the file was replaced.                                       *)
(*                                                                         *)
(* effect, of a write: the file was changed.  Of a command: it did not     *)
(* end, failed, or edited files itself; none of that is in the result the  *)
(* loop looks at.                                                          *)
Does(i, success, effect) ==
    /\ applied' = IF Op(i) = "write" /\ effect THEN applied \cup {i} ELSE applied
    /\ writes'  = IF Op(i) = "write" /\ effect /\ success THEN writes + 1 ELSE writes
    /\ sound'   = ((sound \/ (Op(i) = "check" /\ success)) /\ ~effect)
    /\ slipped' = ((slipped \/ effect) /\ ~(Op(i) = "write" /\ success))

EffectOf(i) == IF Op(i) = "read" THEN {FALSE} ELSE BOOLEAN

CallSucceeds(i) ==
    /\ SettleCall(i, TRUE)
    /\ \E effect \in EffectOf(i) : Does(i, TRUE, effect)
    /\ seen' = IF Op(i) = "read"
                 THEN [j \in DOMAIN seen \cup {i} |->
                          IF j = i THEN {w \in applied : batch[w].paths \cap batch[i].paths # {}}
                                   ELSE seen[j]]
                 ELSE seen
    /\ checkedAt' = IF Op(i) = "check" THEN writes ELSE checkedAt

CallFails(i) ==
    /\ SettleCall(i, FALSE)
    /\ \E effect \in EffectOf(i) : Does(i, FALSE, effect)
    /\ UNCHANGED <<seen, checkedAt>>

\* _bounded_tool_call: a call that never returns is given up.
CallTimesOut_Mutant(i) == Op(i) \in Commands /\ CallFails(i)    \* commands only have a limit
CallTimesOut(i) == CallFails(i)

-----------------------------------------------------------------------------
(* _finish_tool_call, for the results of a group in the order of its calls. *)

First == CHOOSE i \in DOMAIN settled : \A j \in DOMAIN settled : i <= j

\* Where the flush goes once the result of call i is taken up.
Proceed(i) ==
    /\ settled' = [j \in DOMAIN settled \ {i} |-> settled[j]]
    /\ IF DOMAIN settled' # {} THEN UNCHANGED <<groups, stage>>
       ELSE /\ groups' = Tail(groups)
            /\ stage' = IF groups' = <<>> THEN after ELSE "run"
    /\ UNCHANGED <<made, batch, todo, queue, after>>

Remembered_Mutant(i) == [cache |-> cache, validated |-> validated \/ Op(i) = "check"]

(* What a result with a success leaves behind: a read is remembered; a     *)
(* write takes back what was remembered and confirmed before it, also when *)
(* it changed nothing; a check confirms, also when it did not pass.        *)
Remembered(i) ==
    CASE Op(i) = "read"  -> [cache |-> cache \cup batch[i].paths, validated |-> validated]
      [] Op(i) = "write" -> [cache |-> {}, validated |-> FALSE]
      [] Op(i) = "check" -> [cache |-> cache, validated |-> TRUE]
      [] OTHER           -> [cache |-> cache, validated |-> validated]

TakeEffect(i) ==
    IF ~settled[i] THEN UNCHANGED effects
    ELSE /\ cache' = Remembered(i).cache /\ validated' = Remembered(i).validated
         /\ mutated' = (mutated \/ Op(i) = "write")

\* The ordinary case; stalled evidence takes the recovery ladder and goes on.
FinishCall ==
    /\ stage = "finish"
    /\ Proceed(First) /\ TakeEffect(First)
    /\ Reply(<<Answer(First)>>)
    /\ finished' = finished \cup {First}
    /\ UNCHANGED repeats
    /\ UNCHANGED <<nudges, routes>> \/ Recover("on")
    /\ UNCHANGED <<applied, seen, reused, truth, switched>>

(* An edit whose old text is not found is followed by a fresh read of the  *)
(* file, asked and answered in the model's name.                           *)
FinishFailedEdit ==
    /\ stage = "finish" /\ Op(First) = "write" /\ ~settled[First] /\ First \notin applied
    /\ Proceed(First) /\ TakeEffect(First)
    /\ Reply(<<Answer(First), Asks({Refresh}), Answer(Refresh)>>)
    /\ finished' = finished \cup {First}
    /\ UNCHANGED repeats
    /\ UNCHANGED <<nudges, routes>> \/ Recover("on")
    /\ UNCHANGED <<applied, seen, reused, truth, switched>>

(* The result ends the task, or the recovery ladder is at its end: the     *)
(* turn returns in the middle of the batch.                                *)
FinishAndStop ==
    /\ stage = "finish"
    /\ stage' = "end"
    /\ Reply(<<Answer(First)>>)
    /\ UNCHANGED repeats
    /\ \/ UNCHANGED <<nudges, routes>>
       \/ \E result \in {"over", "continue"} : Recover(result)
    /\ IF Op(First) = "read" /\ settled[First] THEN cache' = cache \cup batch[First].paths
                                               ELSE UNCHANGED cache
    /\ UNCHANGED <<made, batch, todo, dispatch, validated, mutated, history>>

Process ==
    \/ RejectInvalid \/ AnswerMalformed \/ AnswerUnoffered \/ LeaveRoute \/ BlockLoop
    \/ StartCalls \/ AnswerAtOnce \/ BlockRepeat \/ AnswerFromCache \/ Enqueue
    \/ FlushBeforeRestart \/ StopRound \/ FlushAtEnd \/ RoundDone
    \/ FinishCall \/ FinishFailedEdit \/ FinishAndStop

RoundNext ==
    \/ ModelCallsTools \/ TurnEnds \/ Process
    \/ \E i \in Ids : CallSucceeds(i) \/ CallFails(i) \/ CallTimesOut(i)

RoundSpec == RoundInit /\ [][RoundNext]_roundVars

(* The turn is one coroutine and takes its next step; a tool may never     *)
(* return, but its time limit fires.                                       *)
FairRound == RoundSpec /\ WF_roundVars(Process) /\ \A i \in 1 .. MaxBatch : WF_roundVars(i \in Ids /\ CallTimesOut(i))

-----------------------------------------------------------------------------
RoundTypes ==
    /\ made \in 0 .. MaxCalls /\ Len(batch) <= MaxBatch
    /\ \A i \in Ids : batch[i] \in CallKinds
    /\ todo \subseteq Ids /\ stage \in Stages /\ after \in {"calls", "idle", "end"}
    /\ \A k \in DOMAIN queue : queue[k] \in Ids \ todo
    /\ \A k \in DOMAIN groups : Members(groups[k]) \subseteq Ids
    /\ DOMAIN settled \subseteq Ids /\ \A i \in DOMAIN settled : settled[i] \in BOOLEAN
    /\ \A k \in DOMAIN talk : talk[k].calls \subseteq Ids \cup {Refresh}
    /\ nudges \in 0 .. MaxNudges /\ routes \in 0 .. MaxRoutes /\ repeats \in 0 .. 1
    /\ cache \subseteq Paths /\ validated \in BOOLEAN /\ mutated \in BOOLEAN
    /\ finished \subseteq Ids /\ applied \subseteq Ids /\ reused \subseteq Ids
    /\ writes \in 0 .. made /\ checkedAt \in 0 .. writes
    /\ sound \in BOOLEAN /\ slipped \in BOOLEAN

\* Calls whose order matters run in the model's order: a later one starts
\* only when the earlier one's result has been taken up.
Outstanding == (Members(queue) \cup UNION {Members(groups[k]) : k \in DOMAIN groups}) \ finished

StartsInOrder ==
    \A i \in Outstanding, j \in Ids :
        i < j /\ Conflicts(i, j) => j \notin Running \cup DOMAIN settled \cup finished

\* Concurrency does not show: a read that is executed returns what the calls
\* before it have written, no less and no more.
ReadsAreOrdered ==
    \A i \in DOMAIN seen \ reused :
        seen[i] = {w \in applied : w < i /\ batch[w].paths \cap batch[i].paths # {}}

(* Running calls of a round together never shows: neither in the order of  *)
(* those that conflict (_calls_conflict, the groups of the queue) nor in   *)
(* what the reads among them return.                                       *)
ConflictsRunInOrder == StartsInOrder /\ ReadsAreOrdered

(* "A further edit after a clean verify run invalidates that result": no   *)
(* write that changed a file and said so comes after the check a confirmed *)
(* validation rests on, whatever ran together with it; the files are those *)
(* of a check that passed, unless a result since the last write did not    *)
(* say what its call had done; and the turn knows of the writes that said  *)
(* so.                                                                     *)
ValidationIsFresh ==
    stage \in {"idle", "calls"} =>
        /\ validated => checkedAt = writes
        /\ validated /\ ~slipped => sound
        /\ writes > 0 => mutated

(* What a provider is sent of the talk (system_messages_first): a result   *)
(* counts only for a call of the last assistant message before it, once.   *)
Survives(k) ==
    /\ talk[k].role = "tool"
    /\ \E m \in 1 .. (k - 1) :
          /\ talk[m].role = "assistant" /\ talk[k].calls \subseteq talk[m].calls
          /\ \A j \in (m + 1) .. (k - 1) :
                talk[j].role = "tool" /\ talk[j].calls # talk[k].calls

Delivered(i) == \E k \in DOMAIN talk : talk[k].calls = {i} /\ Survives(k)

(* Every call of a completed round has one result in the next request,     *)
(* however the calls were answered, unless an edit failed in the batch or  *)
(* the route was left.                                                     *)
ResultsArrive ==
    (stage = "idle" /\ ~switched /\ \A k \in DOMAIN talk : talk[k].calls # {Refresh}) =>
        \A i \in Ids : /\ Delivered(i)
                       /\ \A j, k \in DOMAIN talk :
                             talk[j] = Answer(i) /\ talk[k] = Answer(i) => j = k

(* Every round is brought to an end, although tools may never return.      *)
RoundEnds == (stage = "screen") ~> (stage \in {"idle", "end"})

-----------------------------------------------------------------------------
(* What comments of the code say and the code does not do; the README      *)
(* quotes them.                                                            *)

(* "Every tool_call_id needs a matching role==tool response either way."   *)
EveryCallIsAnswered == stage = "idle" => \A i \in Ids : Delivered(i)

(* "the operation's truth, not only transport success": what is confirmed  *)
(* has passed, on the files as they are.                                   *)
ConfirmedHasPassed == stage = "idle" /\ validated => sound

(* "Identical content is a truthful result, never a mutation."             *)
OnlyChangesCount == stage = "idle" /\ mutated => writes > 0
=============================================================================
