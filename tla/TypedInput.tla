----------------------------- MODULE TypedInput -----------------------------
(***************************************************************************)
(* What a user types, from the keyboard to the model: the prompt of the    *)
(* idle loop (interactive.py), the composer that stays open while a turn   *)
(* runs (live_input.py), the queue of instructions in the session's row    *)
(* (state.py) and the turn, which takes instructions from that queue at    *)
(* the top of each round (runner_local.py).  The loop, the composer's      *)
(* input task and the turn are tasks of one event loop; another terminal   *)
(* (`tamfis-code queue`) and a background job (background.py) write to the *)
(* same queue.  A line of text is its number, in the order of typing.      *)
(***************************************************************************)
EXTENDS Naturals, FiniteSets, SequencesExt

CONSTANTS
    MaxLines,       \* lines typed in a session, at every keyboard
    None

ASSUME TypedAssumption == MaxLines \in Nat /\ None \notin Nat

Result == 0         \* the message of the background job
Lines == 0 .. MaxLines

VARIABLES
    queue,          \* the instructions still queued, in the row's order
    repl,           \* the loop: look, prompt, listing, turn, over
    turn,           \* none, plans, works, pausing, gate, ending
    back,           \* where the turn goes on after a gate: plans or works
    outcome,        \* how it ended: none, done, stopped, exited
    listener,       \* the composer: active, paused, interrupt
    stopped,        \* history: the phase in which the turn was interrupted, or "ignored"
    input,          \* its task: none, starting, prompt, entered, closing, leaving
    marker,         \* _prompt_exit_requested
    buffer, draft,  \* the text in the prompt, and the one kept across prompts
    editing,        \* the queued line that was recalled into the prompt
    job,            \* the background job: its process, its record, and a listing's copy
    used,           \* lines typed so far
    fate            \* history: what became of each line
prompt == <<input, marker, buffer, draft, editing>>
running == <<turn, back, outcome, stopped>>
typedVars == <<queue, repl, running, listener, prompt, job, used, fate>>

Off == [active |-> FALSE, paused |-> FALSE, interrupt |-> "none"]

TypedInit ==
    /\ queue = <<>> /\ repl = "look"
    /\ turn = "none" /\ back = "plans" /\ outcome = "none" /\ stopped = "no"
    /\ listener = Off
    /\ input = "none" /\ marker = FALSE /\ buffer = None /\ draft = None /\ editing = None
    /\ job = [child |-> "none", record |-> "none", read |-> "none"]
    /\ used = 0
    /\ fate = [l \in Lines |-> "none"]

-----------------------------------------------------------------------------
(* The queue.  A stop carries when it was made: before this turn, while it *)
(* planned, or in its rounds.  Items that were taken are left out.         *)

Phase == IF turn \in {"pausing", "gate"} THEN back ELSE turn
Made == CASE Phase = "works" -> "rounds" [] Phase = "plans" -> "plans" [] OTHER -> "before"

Stops == {"cancel", "exit"}
Item(line, class, priority) ==
    [line |-> line, class |-> class, priority |-> priority,
     made |-> IF class \in Stops THEN Made ELSE "before"]

\* Sorted by priority, then by age.
enqueue_instruction(q, item) ==
    InsertAt(q, Cardinality({k \in DOMAIN q : q[k].priority <= item.priority}) + 1, item)

IsStop(item) == item.class \in Stops
Queued(line) == \E k \in DOMAIN queue : queue[k].line = line

\* What reaches the model a second time is seen in the history.
Give(f, ls) == [l \in Lines |-> IF l \notin ls THEN f[l] ELSE IF f[l] = "given" THEN "twice" ELSE "given"]
Drop(f, ls) == [l \in Lines |-> IF l \in ls THEN "dropped" ELSE f[l]]

-----------------------------------------------------------------------------
(* The interrupt of the composer: once per turn.  The task of the turn is  *)
(* cancelled where it waits; while it waits for the prompt to close, the   *)
(* wait swallows the cancellation.                                         *)

OutcomeOf(class) == IF class = "exit" THEN "exited" ELSE "stopped"

Interrupt(class, q) ==
    IF listener.interrupt # "none"
      THEN queue' = q /\ UNCHANGED <<listener, turn, outcome, stopped>>
      ELSE
        /\ listener' = [listener EXCEPT !.paused = TRUE, !.interrupt = class] /\ stopped' = Phase
        /\ queue' = IF class = "stall" THEN q ELSE enqueue_instruction(q, Item(None, class, 100))
        /\ IF turn \in {"plans", "works"}
             THEN turn' = "ending" /\ outcome' = OutcomeOf(class)
             ELSE UNCHANGED <<turn, outcome>>

\* Esc and Ctrl+C, and a terminal that is gone; half-typed text goes with them.
KeyInterrupt ==
    /\ input = "prompt"
    /\ \E class \in {"cancel", "exit"} : Interrupt(class, queue)
    /\ input' = "none" /\ buffer' = None
    /\ fate' = Drop(fate, {buffer} \cap Lines)
    /\ UNCHANGED <<repl, back, marker, draft, editing, job, used>>

\* Ctrl+C again, while the prompt is being closed.
KeyWhileClosing ==
    /\ input = "closing"
    /\ Interrupt("cancel", queue)
    /\ UNCHANGED <<repl, back, prompt, job, used, fate>>

\* The watchdog: a provider that has been silent for too long.
Stall ==
    /\ turn = "works" /\ listener.active /\ listener.interrupt = "none"
    /\ Interrupt("stall", queue)
    /\ UNCHANGED <<repl, back, prompt, job, used, fate>>

-----------------------------------------------------------------------------
(* The composer's task.                                                    *)

\* A task is started, and opens a prompt with the draft in it.
OpenPrompt ==
    /\ input = "starting"
    /\ IF listener.active /\ ~listener.paused /\ listener.interrupt = "none"
         THEN input' = "prompt" /\ buffer' = draft /\ draft' = None
         ELSE input' = "none" /\ UNCHANGED <<buffer, draft>>
    /\ marker' = FALSE
    /\ UNCHANGED <<queue, repl, running, listener, editing, job, used, fate>>

Type ==
    /\ input = "prompt" /\ buffer = None /\ used < MaxLines
    /\ used' = used + 1 /\ buffer' = used + 1
    /\ fate' = [fate EXCEPT ![used + 1] = "typed"]
    /\ UNCHANGED <<queue, repl, running, listener, input, marker, draft, editing, job>>

\* Up: the newest instruction that is still queued comes back, to be reworded.
_recall_latest_queued ==
    /\ input = "prompt" /\ buffer = None /\ used < MaxLines
    /\ \E k \in DOMAIN queue :
         /\ queue[k].class = "live"
         /\ \A j \in DOMAIN queue : j > k => queue[j].class # "live"
         /\ editing' = queue[k].line
    /\ used' = used + 1 /\ buffer' = used + 1
    /\ fate' = [fate EXCEPT ![used + 1] = "typed"]
    /\ UNCHANGED <<queue, repl, running, listener, input, marker, draft, job>>

PressEnter ==
    /\ input = "prompt" /\ buffer # None
    /\ input' = "entered"
    /\ fate' = [fate EXCEPT ![buffer] = "entered"]
    /\ UNCHANGED <<queue, repl, running, listener, marker, buffer, draft, editing, job, used>>

(* _enqueue, when the task gets to run: the turn may have ended meanwhile. *)

ForcedExit == marker \/ listener.paused

\* After the line: the next prompt, if there is still to be one.
Reopen == input' = IF listener'.active /\ ~listener'.paused THEN "prompt" ELSE "none"

Submitting ==
    /\ input = "entered" /\ ~ForcedExit
    /\ buffer' = None
    /\ UNCHANGED <<repl, back, marker, draft, job, used>>

Became(what) == fate' = [fate EXCEPT ![buffer] = what]
Accept(class, priority) == queue' = enqueue_instruction(queue, Item(buffer, class, priority))

\* /btw, /status, /model, /help: answered beside the turn.
Aside ==
    /\ Submitting /\ Became("done")
    /\ UNCHANGED <<queue, turn, outcome, stopped, listener, editing>>
    /\ Reopen

\* /stop, /pause, /exit
StopTyped ==
    /\ Submitting /\ Became("done")
    /\ \E class \in {"cancel", "exit"} : Interrupt(class, queue)
    /\ UNCHANGED editing
    /\ Reopen

\* Another command waits until the turn has ended.
CommandTyped ==
    /\ Submitting /\ Became("accepted") /\ Accept("command", 50)
    /\ UNCHANGED <<turn, outcome, stopped, listener, editing>>
    /\ Reopen

\* "only /path": the turn is stopped, and the line is for the next one.
_handle_live_scope_correction ==
    /\ Submitting /\ listener.active /\ Became("accepted")
    /\ Interrupt("cancel", enqueue_instruction(queue, Item(buffer, "live", 150)))
    /\ UNCHANGED editing
    /\ Reopen

\* The recalled instruction is reworded even when a turn has taken it.
edit_queued_instruction_Mutant ==
    /\ Submitting /\ editing # None
    /\ queue' = [k \in DOMAIN queue |->
                   IF queue[k].line = editing THEN [queue[k] EXCEPT !.line = buffer] ELSE queue[k]]
    /\ fate' = [fate EXCEPT ![buffer] = "accepted", ![editing] = "reworded"]
    /\ editing' = None
    /\ UNCHANGED <<turn, outcome, stopped, listener>>
    /\ Reopen

\* The recalled instruction, if no turn has taken it yet.
edit_queued_instruction ==
    /\ Submitting /\ editing # None /\ Queued(editing)
    /\ queue' = [k \in DOMAIN queue |->
                   IF queue[k].line = editing THEN [queue[k] EXCEPT !.line = buffer] ELSE queue[k]]
    /\ fate' = [fate EXCEPT ![buffer] = "accepted", ![editing] = "reworded"]
    /\ editing' = None
    /\ UNCHANGED <<turn, outcome, stopped, listener>>
    /\ Reopen

NotAnEdit == editing = None \/ ~Queued(editing)

\* "bye": queued in a class of its own, and the turn is stopped.
Farewell ==
    /\ Submitting /\ NotAnEdit /\ listener.active /\ Became("accepted")
    /\ Interrupt("cancel", enqueue_instruction(queue, Item(buffer, "cancelled", 100)))
    /\ editing' = None
    /\ Reopen

\* classify_active_follow_up: for this turn, or a task of its own.
FollowUp ==
    /\ Submitting /\ NotAnEdit /\ Became("accepted")
    /\ \E class \in IF listener.active THEN {"live", "deferred"} ELSE {"live"} : Accept(class, 100)
    /\ editing' = None
    /\ UNCHANGED <<turn, outcome, stopped, listener>>
    /\ Reopen

\* The composer was paused by the watchdog since.
EnteredTooLate ==
    /\ input = "entered" /\ ForcedExit
    /\ input' = "none" /\ buffer' = None /\ marker' = FALSE /\ Became("dropped")
    /\ UNCHANGED <<queue, repl, running, listener, draft, editing, job, used>>

_enqueue ==
    \/ EnteredTooLate
    \/ Aside \/ StopTyped \/ CommandTyped \/ _handle_live_scope_correction
    \/ edit_queued_instruction \/ Farewell \/ FollowUp

\* A prompt that was made to exit: cancelled by pause_async, or left alone by stop.
Closed ==
    /\ input \in {"closing", "leaving"}
    /\ input' = "none" /\ marker' = (marker /\ input = "closing")
    /\ UNCHANGED <<queue, repl, running, listener, buffer, draft, editing, job, used, fate>>

\* The prompt is closed without its text.
_request_prompt_exit_Mutant(next) ==
    IF input = "prompt"
      THEN input' = next /\ marker' = TRUE /\ buffer' = None /\ UNCHANGED draft
      ELSE UNCHANGED <<marker, buffer, draft>>

\* A prompt that is open is asked to exit, and what is in it becomes the draft.
_request_prompt_exit(next) ==
    IF input = "prompt"
      THEN /\ input' = next /\ marker' = TRUE /\ buffer' = None
           /\ draft' = IF buffer = None THEN draft ELSE buffer
      ELSE UNCHANGED <<marker, buffer, draft>>

-----------------------------------------------------------------------------
(* The turn.                                                               *)

StartTurn(q, given) ==
    /\ repl' = "turn" /\ turn' = "plans" /\ back' = "plans" /\ outcome' = "none" /\ stopped' = "no"
    /\ listener' = [Off EXCEPT !.active = TRUE]
    /\ input' = "starting"
    /\ queue' = [k \in DOMAIN q |-> [q[k] EXCEPT !.made = "before"]]
    /\ fate' = Give(fate, given)

\* An approval, or a question of the turn, needs the terminal.
pause_async ==
    /\ turn \in {"plans", "works"}
    /\ back' = turn
    /\ listener' = [listener EXCEPT !.paused = TRUE]
    /\ _request_prompt_exit("closing")
    /\ IF input = "none"
         THEN turn' = "gate" /\ UNCHANGED <<input, fate>>
         ELSE /\ turn' = "pausing" /\ input' = "closing"
              /\ fate' = IF input = "entered" THEN Drop(fate, {buffer}) ELSE fate
    /\ UNCHANGED <<queue, repl, outcome, stopped, editing, job, used>>

GateOpens ==
    /\ turn = "pausing" /\ input = "none"
    /\ turn' = "gate"
    /\ UNCHANGED <<queue, repl, back, outcome, stopped, listener, prompt, job, used, fate>>

resume ==
    /\ turn = "gate"
    /\ turn' = back
    /\ listener' = [listener EXCEPT !.paused = FALSE]
    /\ marker' = FALSE
    /\ input' = IF listener.active /\ input = "none" THEN "starting" ELSE input
    /\ UNCHANGED <<queue, repl, back, outcome, stopped, buffer, draft, editing, job, used, fate>>

\* The top of a round.  Stops made before the rounds began are taken for old.
Live == {"live"} \cup Stops
\* A stop is a stop, however old.
Stale_Mutant(item) == FALSE
Stale(item) == IsStop(item) /\ item.made # "rounds"
_claim_live_queued_instructions == {k \in DOMAIN queue : queue[k].class \in Live /\ ~Stale(queue[k])}
LinesOf(positions) == {queue[k].line : k \in positions} \cap Lines

\* The items at these positions, in their order.
At(q, positions) ==
    [n \in 1 .. Cardinality(positions) |->
       q[CHOOSE k \in positions : Cardinality({j \in positions : j < k}) = n - 1]]

(* The claimed instructions are applied in order, up to the first stop;    *)
(* those behind it stay claimed, and no one takes them.                    *)
Round ==
    /\ turn \in {"plans", "works"}
    /\ queue' = At(queue, {k \in DOMAIN queue : queue[k].class \notin Live})
    /\ LET claimed == _claim_live_queued_instructions
           stops == {k \in claimed : IsStop(queue[k])}
           given == LinesOf({k \in claimed : \A j \in stops : k < j}) IN
       /\ fate' = [l \in Lines |-> IF l \in LinesOf(claimed) \ given THEN "stranded" ELSE Give(fate, given)[l]]
       /\ IF stops = {}
            THEN /\ turn' = "works" /\ UNCHANGED outcome
                 /\ stopped' = IF stopped = "works" THEN "ignored" ELSE stopped
            ELSE /\ turn' = "ending" /\ UNCHANGED stopped
                 /\ \E first \in stops : (\A j \in stops : first <= j) /\ outcome' = OutcomeOf(queue[first].class)
    /\ UNCHANGED <<repl, back, listener, prompt, job, used>>

TurnEnds ==
    /\ turn \in {"plans", "works"}
    /\ turn' = "ending" /\ outcome' = "done"
    /\ UNCHANGED <<queue, repl, back, stopped, listener, prompt, job, used, fate>>

\* stop: the prompt may still bring in a line that was entered before.
_stop_async ==
    /\ turn = "ending" /\ listener.active
    /\ listener' = [listener EXCEPT !.active = FALSE]
    /\ _request_prompt_exit("leaving")
    /\ input # "prompt" => UNCHANGED input
    /\ UNCHANGED <<queue, repl, running, editing, job, used, fate>>

\* The composer is gone, with what was half typed in it.
TurnOver ==
    /\ turn = "ending" /\ ~listener.active /\ input = "none"
    /\ repl' = IF outcome = "exited" THEN "over" ELSE "look"
    /\ turn' = "none" /\ back' = "plans" /\ outcome' = "none" /\ stopped' = "no" /\ listener' = Off
    /\ marker' = FALSE /\ buffer' = None /\ draft' = None /\ editing' = None
    /\ fate' = Drop(fate, {draft} \cap Lines)
    /\ UNCHANGED <<queue, input, job, used>>

-----------------------------------------------------------------------------
(* The loop.  An instruction that waits goes before the prompt.            *)

Look ==
    /\ repl = "look" /\ queue = <<>>
    /\ repl' = "prompt"
    /\ UNCHANGED <<queue, running, listener, prompt, job, used, fate>>

\* A stop that no turn took: nothing is left to be stopped.
DropStop ==
    /\ repl = "look" /\ queue # <<>> /\ IsStop(Head(queue))
    /\ queue' = Tail(queue)
    /\ UNCHANGED <<repl, running, listener, prompt, job, used, fate>>

RunCommand ==
    /\ repl = "look" /\ queue # <<>> /\ Head(queue).class = "command"
    /\ queue' = Tail(queue)
    /\ fate' = Give(fate, {Head(queue).line})
    /\ UNCHANGED <<repl, running, listener, prompt, job, used>>

\* A task, or a command that is one, such as /retry.
RunQueued ==
    /\ repl = "look" /\ queue # <<>> /\ ~IsStop(Head(queue))
    /\ StartTurn(Tail(queue), {Head(queue).line})
    /\ UNCHANGED <<marker, buffer, draft, editing, job, used>>

TypeIdle ==
    /\ repl = "prompt" /\ buffer = None /\ used < MaxLines
    /\ used' = used + 1 /\ buffer' = used + 1
    /\ fate' = [fate EXCEPT ![used + 1] = "typed"]
    /\ UNCHANGED <<queue, repl, running, listener, input, marker, draft, editing, job>>

Submitted == repl = "prompt" /\ buffer # None

RunTask ==
    /\ Submitted /\ StartTurn(queue, {buffer}) /\ buffer' = None
    /\ UNCHANGED <<marker, draft, editing, job, used>>

\* A command: /queue puts a line off, others are done at once.
IdleCommand ==
    /\ Submitted
    /\ repl' = "look" /\ buffer' = None
    /\ \/ queue' = enqueue_instruction(queue, Item(buffer, "live", 100)) /\ Became("accepted")
       \/ UNCHANGED queue /\ Became("done")
    /\ UNCHANGED <<running, listener, input, marker, draft, editing, job, used>>

\* /exit, Ctrl+C, Ctrl+D
Leave ==
    /\ repl = "prompt"
    /\ repl' = "over" /\ buffer' = None
    /\ fate' = Drop(fate, {buffer} \cap Lines)
    /\ UNCHANGED <<queue, running, listener, input, marker, draft, editing, job, used>>

\* The watcher beside the prompt knows results of jobs by their text.
_wait_for_background_reinjection ==
    /\ repl = "prompt" /\ Queued(Result)
    /\ repl' = "look" /\ buffer' = None
    /\ fate' = Drop(fate, {buffer} \cap Lines)
    /\ UNCHANGED <<queue, running, listener, input, marker, draft, editing, job, used>>

\* `tamfis-code queue` in another terminal.
queue_command ==
    /\ repl # "over" /\ used < MaxLines
    /\ used' = used + 1
    /\ fate' = [fate EXCEPT ![used + 1] = "accepted"]
    /\ \E class \in {"live", "deferred"} :
         queue' = enqueue_instruction(queue, Item(used + 1, class, 100))
    /\ UNCHANGED <<repl, running, listener, prompt, job>>

\* Its --classification cancel.
QueueCancel ==
    /\ repl # "over" /\ used < MaxLines
    /\ used' = used + 1
    /\ fate' = [fate EXCEPT ![used + 1] = "done"]
    /\ queue' = enqueue_instruction(queue, Item(None, "cancel", 100))
    /\ UNCHANGED <<repl, running, listener, prompt, job>>

\* `tamfis-code queue remove`: of a stop, too, which is then taken back.
QueueRemove ==
    /\ repl # "over"
    /\ \E k \in DOMAIN queue :
         /\ queue' = RemoveAt(queue, k)
         /\ fate' = [l \in Lines |-> IF l = queue[k].line THEN "done" ELSE fate[l]]
         /\ stopped' = IF IsStop(queue[k]) THEN "no" ELSE stopped
    /\ UNCHANGED <<repl, turn, back, outcome, listener, prompt, job, used>>

-----------------------------------------------------------------------------
(* A background job: its process, and its record in a file of its own.     *)

\* /background
spawn_background_task ==
    /\ Submitted /\ job.child = "none"
    /\ job' = [job EXCEPT !.child = "runs", !.record = "running"]
    /\ repl' = "look" /\ buffer' = None /\ Became("done")
    /\ UNCHANGED <<queue, running, listener, input, marker, draft, editing, used>>

\* update_job_status, in the child: the message first, the record after it.
Announce ==
    /\ job.child = "runs"
    /\ job' = [job EXCEPT !.child = "announced"]
    /\ queue' = enqueue_instruction(queue, Item(Result, "live", 20))
    /\ fate' = [fate EXCEPT ![Result] = "accepted"]
    /\ UNCHANGED <<repl, running, listener, prompt, used>>

WriteRecord ==
    /\ job.child = "announced"
    /\ job' = [job EXCEPT !.child = "gone", !.record = "completed"]
    /\ UNCHANGED <<queue, repl, running, listener, prompt, used, fate>>

\* read_job, for a listing or a stop: the record is read, the process looked for.
read_job ==
    /\ Submitted /\ job.record # "none"
    /\ repl' = "listing" /\ job' = [job EXCEPT !.read = job.record]
    /\ buffer' = None /\ Became("done")
    /\ UNCHANGED <<queue, running, listener, input, marker, draft, editing, used>>

\* A record that says running is put right when the process is gone, or the
\* process is stopped; either writes the record as it was read.
FinishListing ==
    /\ repl = "listing" /\ repl' = "look"
    /\ \/ job.read = "running" /\ job' = [child |-> "gone", record |-> "stopped", read |-> "none"]
       \/ (job.read = "running" => job.child # "gone") /\ job' = [job EXCEPT !.read = "none"]
    /\ UNCHANGED <<queue, running, listener, prompt, used, fate>>

TypedNext ==
    \/ KeyInterrupt \/ KeyWhileClosing \/ Stall
    \/ OpenPrompt \/ Type \/ _recall_latest_queued \/ PressEnter \/ _enqueue \/ Closed
    \/ pause_async \/ GateOpens \/ resume \/ Round \/ TurnEnds \/ _stop_async \/ TurnOver
    \/ Look \/ DropStop \/ RunCommand \/ RunQueued
    \/ TypeIdle \/ RunTask \/ IdleCommand \/ Leave \/ _wait_for_background_reinjection
    \/ queue_command \/ QueueCancel \/ QueueRemove
    \/ spawn_background_task \/ Announce \/ WriteRecord \/ read_job \/ FinishListing

(* The event loop runs what is ready, the watcher looks every half second, *)
(* a turn ends (RoundLoop), and a human answers at a gate.  Nothing is     *)
(* assumed of the keyboard, of another terminal or of the job.             *)
Fairness ==
    /\ WF_typedVars(OpenPrompt) /\ WF_typedVars(_enqueue) /\ WF_typedVars(Closed)
    /\ WF_typedVars(GateOpens) /\ WF_typedVars(resume) /\ WF_typedVars(_stop_async) /\ WF_typedVars(TurnOver)
    /\ SF_typedVars(TurnEnds)
    /\ WF_typedVars(Look \/ DropStop \/ RunCommand \/ RunQueued) /\ WF_typedVars(FinishListing)
    /\ WF_typedVars(_wait_for_background_reinjection)

TypedSpec == TypedInit /\ [][TypedNext]_typedVars
FairTyped == TypedSpec /\ Fairness

-----------------------------------------------------------------------------
TypedTypes ==
    /\ repl \in {"look", "prompt", "listing", "turn", "over"}
    /\ turn \in {"none", "plans", "works", "pausing", "gate", "ending"}
    /\ turn # "none" <=> repl = "turn"
    /\ input \in {"none", "starting", "prompt", "entered", "closing", "leaving"}
    /\ buffer \in Lines \cup {None} /\ draft \in Lines \cup {None} /\ editing \in Lines \cup {None}
    /\ fate \in [Lines -> {"none", "typed", "entered", "accepted", "given", "done",
                           "reworded", "stranded", "dropped", "twice"}]

(* What a user types is kept while the turn's approvals take the terminal  *)
(* away and give it back, as often as they like, and what is accepted      *)
(* reaches a model once: not the running turn and then again as a task of  *)
(* its own, nor as it was and as it was reworded.                          *)
TypedTextIsKept ==
    \A l \in Lines :
        /\ fate[l] = "typed" => l \in {buffer, draft}
        /\ fate[l] # "twice"

(* Whoever stops a turn in its rounds stops it: the cancellation may be    *)
(* swallowed by the closing of the prompt, and then the queued stop ends   *)
(* the turn before another round, unless it is taken back.  And a stop     *)
(* that was meant for an older turn, and waited behind other instructions, *)
(* ends none.                                                              *)
StopIsObeyed ==
    [][/\ stopped' # "ignored"
       /\ turn \in {"plans", "works"} /\ outcome' \in {"stopped", "exited"} /\ outcome' # outcome =>
            \/ listener'.interrupt # "none"
            \/ \E k \in DOMAIN queue : IsStop(queue[k]) /\ queue[k].made # "before"]_typedVars

(* Every accepted instruction is taken, unless it is removed or the        *)
(* session ends first: by the running turn, by one of its own after it, or *)
(* with a stop that was queued before it.  Only the idle prompt may leave  *)
(* one waiting for the next key, and not the message of a background job.  *)
ForTheNextKey(l) == repl = "prompt" /\ l # Result /\ Queued(l)
Waiting == \E l \in Lines : fate[l] = "accepted" /\ ~ForTheNextKey(l)
AcceptedIsTaken == Waiting ~> (repl = "over" \/ ~Waiting)

-----------------------------------------------------------------------------
(* What comments say and the code does not keep; no run checks these.      *)

(* After a farewell "the interaction is over" (live_input.py:1749): but it *)
(* is queued in a class that neither the turn nor the loop knows as a      *)
(* stop, and the loop runs it as a task.                                   *)
FarewellIsNotATask ==
    [][\A k \in DOMAIN queue : queue[k].class = "cancelled" => fate'[queue[k].line] # "given"]_typedVars

(* An instruction that was claimed "must not stay `running` forever"       *)
(* (runner_local.py:6472): but one claimed together with a stop that goes  *)
(* before it does, for the turn returns at the stop.                       *)
NothingIsStranded == \A l \in Lines : fate[l] # "stranded"

(* "The message was dropped" was the bug of a teardown that outlived its   *)
(* prompt (live_input.py:1395): but a line entered just before a gate or a *)
(* stall closes the prompt is still dropped.                               *)
EnterIsHeard == [][\A l \in Lines : fate[l] = "entered" => fate'[l] # "dropped"]_typedVars

(* A stop made "BEFORE this run started targeted a previous run"           *)
(* (runner_local.py:6452): but the start is noted after planning, and a    *)
(* stop of this turn, made while it planned, is taken for one of those.    *)
StopsOfThisTurnCount ==
    [][Round /\ (\E k \in DOMAIN queue : IsStop(queue[k]) /\ queue[k].made # "before")
        => outcome' # "none"]_typedVars

(* A job that succeeded is not "later misreported as merely stopped"       *)
(* (background.py:123): but a listing that read its record before it was   *)
(* written, and looked for its process afterwards, writes just that.       *)
CompletedStaysCompleted ==
    [][job.record = "completed" => job'.record = "completed"]_typedVars
=============================================================================
