---------------------------- MODULE UnifiedRuntime ----------------------------
(***************************************************************************)
(* The one runtime of a process (runtime/unified.py) that every execution  *)
(* goes through: a turn, a lightweight chat, a stream, and the sub-tasks   *)
(* that agents.py fans out.  A call that finds an execution active is      *)
(* refused; one that is let in has its operation run in a task, reviewed   *)
(* against the task's contract, and recorded in the history, the journal   *)
(* and a checkpoint, however it ends.                                      *)
(*                                                                         *)
(* A caller stands for one call and the task that makes it.  Between two   *)
(* awaits nothing interleaves: from the lock to the start of the operation *)
(* is one step.  Every write to disk may fail.                             *)
(***************************************************************************)
EXTENDS Naturals, Sequences, FiniteSets

CONSTANTS
    Callers, Nobody,
    Streams,          \* callers of stream_local_chat
    Changes,          \* callers whose contract requests a mutation
    Sessions,         \* callers with a local agent's session to mark
    Delegated,        \* sub-tasks of execute_tasks
    Parent,           \* the caller whose operation fans a sub-task out
    MaxConcurrency

\* What the constants stand for; the theorems take it as their hypothesis.
RuntimeAssumption ==
    /\ Nobody \notin Callers
    /\ Streams \subseteq Callers /\ Changes \subseteq Callers \ Streams
    /\ Sessions \subseteq Callers \ Streams
    /\ Delegated \subseteq Callers \ Streams
    /\ Parent \in [Delegated -> ((Callers \ Streams) \ Delegated) \cup {Nobody}]
    /\ MaxConcurrency \in Nat \ {0}

\* Of a TaskOutcome's statuses; the others are recorded as they are, like "partial".
Statuses == {"completed", "partial"}

\* What an operation ends with: a TaskOutcome with its evidence, or an exception.
Returns  == [status : Statuses, changed : BOOLEAN, validated : BOOLEAN]
Raises   == [status |-> "raises", changed |-> FALSE, validated |-> FALSE]
Stopped  == [status |-> "stopped", changed |-> FALSE, validated |-> FALSE]
Results  == Returns \cup {Raises, Stopped}
None     == [status |-> "none", changed |-> FALSE, validated |-> FALSE]
Running  == [status |-> "running", changed |-> FALSE, validated |-> FALSE]

VARIABLES
    pc,          \* where a call is
    ended,       \* callers whose task is done
    lock,        \* who holds _lock
    waiters,     \* who waits for it
    runner,      \* _runner_task
    active,      \* _active_task, by the caller it belongs to
    op,          \* a caller's operation: none, running, or its result
    cancelling,  \* callers whose operation or stream was asked to stop
    late,        \* callers that were cancelled after their operation was done
    history,
    checkpoint,  \* the status in a caller's execution checkpoint
    damaged      \* callers some write of whose records failed or was interrupted

sync    == <<lock, waiters, runner, active>>
records == <<history, checkpoint, damaged>>
vars == <<pc, ended, sync, op, cancelling, late, records>>

Init ==
    /\ pc = [c \in Callers |-> "idle"] /\ ended = {}
    /\ lock = Nobody /\ waiters = <<>> /\ runner = Nobody /\ active = Nobody
    /\ op = [c \in Callers |-> None] /\ cancelling = {} /\ late = {}
    /\ history = <<>> /\ checkpoint = [c \in Callers |-> "none"] /\ damaged = {}

-----------------------------------------------------------------------------
\* The runner of a setup that failed counts until its task is done.
OperationActive ==
    active # Nobody /\ (IF active \in Streams THEN active \notin ended ELSE op[active] = Running)
Active == OperationActive \/ (runner # Nobody /\ runner \notin ended)

Goes(c, place) == pc' = [pc EXCEPT ![c] = place]

\* With the lock in hand: the second look, the setup, and the operation's start.
EnterRefused(c) == Active /\ Goes(c, "refused") /\ UNCHANGED <<lock, runner, active, op, records>>
SetupFails(c) ==       \* memories, contract or worktree: nothing undoes the reservation
    /\ ~Active /\ c \notin Streams
    /\ runner' = c /\ Goes(c, "raised")
    /\ UNCHANGED <<lock, active, op, records>>
StartOperation(c) ==
    /\ ~Active /\ c \notin Streams
    /\ lock' = c /\ runner' = c /\ active' = c
    /\ op' = [op EXCEPT ![c] = Running] /\ Goes(c, "awaiting")
    /\ \/ checkpoint' = [checkpoint EXCEPT ![c] = "running"] /\ UNCHANGED damaged
       \/ damaged' = damaged \cup {c} /\ UNCHANGED checkpoint
    /\ UNCHANGED history
StartStream(c) ==
    /\ ~Active /\ c \in Streams
    /\ lock' = c /\ active' = c /\ Goes(c, "streaming")
    /\ UNCHANGED <<runner, op, records>>
Enter(c) == EnterRefused(c) \/ SetupFails(c) \/ StartOperation(c) \/ StartStream(c)

\* A sub-task starts when its parent's operation runs and the semaphore has room.
Fanned(c) ==
    c \in Delegated =>
        /\ Parent[c] # Nobody => op[Parent[c]] = Running
        /\ Cardinality({d \in Delegated : Parent[d] = Parent[c] /\ pc[d] # "idle" /\ d \notin ended})
             < MaxConcurrency
FailsFast(c) == c \notin Streams /\ (Active \/ lock # Nobody)

Refuse(c) ==
    /\ pc[c] = "idle" /\ Fanned(c) /\ FailsFast(c)
    /\ Goes(c, "refused")
    /\ UNCHANGED <<ended, sync, op, cancelling, late, records>>
Wait(c) ==             \* also for a lock that is free but promised to another
    /\ pc[c] = "idle" /\ Fanned(c) /\ ~FailsFast(c)
    /\ lock # Nobody \/ waiters # <<>>
    /\ waiters' = Append(waiters, c) /\ Goes(c, "queued")
    /\ UNCHANGED <<ended, lock, runner, active, op, cancelling, late, records>>
Acquire(c) ==
    /\ pc[c] = "idle" /\ Fanned(c) /\ ~FailsFast(c)
    /\ lock = Nobody /\ waiters = <<>>
    /\ Enter(c)
    /\ UNCHANGED <<ended, waiters, cancelling, late>>
Granted(c) ==
    /\ pc[c] = "queued" /\ lock = Nobody /\ c = Head(waiters)
    /\ waiters' = Tail(waiters)
    /\ Enter(c)
    /\ UNCHANGED <<ended, cancelling, late>>

-----------------------------------------------------------------------------
\* gather: a turn that fans out goes on when every sub-task it began is over.
OperationEnds(c) ==
    /\ op[c] = Running
    /\ \A d \in Delegated : Parent[d] = c /\ pc[d] # "idle" => d \in ended
    /\ \E result \in Returns \cup {Raises} \cup (IF c \in cancelling THEN {Stopped} ELSE {}) :
         op' = [op EXCEPT ![c] = result]
    /\ UNCHANGED <<pc, ended, sync, cancelling, late, records>>

(* The independent review: a change needs a changed file and a validation  *)
(* that passed.  Summary and observation are added by the runtime itself.  *)
Approved(c, result) == c \in Changes => result.changed /\ result.validated

FinalStatus(c) ==
    IF c \in late \/ op[c] = Stopped THEN "cancelled"
    ELSE IF op[c] = Raises THEN "failed"
    ELSE IF op[c].status = "completed" /\ ~Approved(c, op[c]) THEN "partial"
    ELSE op[c].status

Release == lock' = Nobody /\ active' = Nobody /\ UNCHANGED waiters

Record(c, status) == history' = Append(history, [of |-> c, status |-> status])

Resumes(c) == pc[c] = "awaiting" /\ op[c] \in Results
Failing(c) == c \in late \/ op[c] \in {Raises, Stopped}
Finally(c) ==
    /\ Release /\ runner' = Nobody
    /\ Goes(c, IF Failing(c) THEN "raised" ELSE "returned")
    /\ UNCHANGED <<ended, op, cancelling, late>>

Finish(c) ==
    /\ Resumes(c)
    /\ Record(c, FinalStatus(c))
    /\ \/ checkpoint' = [checkpoint EXCEPT ![c] = FinalStatus(c)] /\ UNCHANGED damaged
       \/ damaged' = damaged \cup {c} /\ UNCHANGED checkpoint
    /\ Finally(c)

(* The session's row could not be marked, or Ctrl+C came again while a     *)
(* cancellation was being recorded, before or after the history had it.    *)
FinishCutShort(c) ==
    /\ Resumes(c) /\ Failing(c)
    /\ c \in Sessions \/ FinalStatus(c) = "cancelled"
    /\ \/ UNCHANGED history
       \/ FinalStatus(c) = "cancelled" /\ Record(c, "cancelled")
    /\ damaged' = damaged \cup {c} /\ UNCHANGED checkpoint
    /\ Finally(c)

StreamEnds(c) ==
    /\ pc[c] = "streaming" /\ c \notin ended
    /\ \E status \in {"completed", "failed"} \cup (IF c \in cancelling THEN {"cancelled"} ELSE {}) :
         Record(c, status) /\ Goes(c, IF status = "completed" THEN "returned" ELSE "raised")
    /\ Release
    /\ UNCHANGED <<ended, runner, op, cancelling, late, checkpoint, damaged>>

\* A consumer that ends between two chunks leaves its generator to be closed later.
TaskEnds(c) ==
    /\ pc[c] \in {"refused", "raised", "returned", "streaming"} /\ c \notin ended
    /\ ended' = ended \cup {c}
    /\ UNCHANGED <<pc, sync, op, cancelling, late, records>>
CloseStream(c) ==
    /\ pc[c] = "streaming" /\ c \in ended
    /\ Release /\ Goes(c, "abandoned")
    /\ UNCHANGED <<ended, runner, op, cancelling, late, records>>

-----------------------------------------------------------------------------
\* task.cancel() of a caller's task goes to what it awaits.
CancelTask(c) ==
    /\ c \notin ended
    /\ \/ /\ pc[c] = "queued" /\ Goes(c, "raised")
          /\ waiters' = SelectSeq(waiters, LAMBDA w : w # c)
          /\ UNCHANGED <<cancelling, late>>
       \/ /\ pc[c] = "streaming" \/ op[c] = Running
          /\ cancelling' = cancelling \cup {c}
          /\ UNCHANGED <<pc, waiters, late>>
       \/ /\ Resumes(c)
          /\ late' = late \cup {c}
          /\ UNCHANGED <<pc, waiters, cancelling>>
    /\ UNCHANGED <<ended, lock, runner, active, op, records>>

\* cancel(): the active task, or else the one that is setting up or resuming.
CancelRuntime == \E c \in Callers :
    /\ c = (IF OperationActive THEN active ELSE runner)
    /\ CancelTask(c)

Next ==
    \/ \E c \in Callers :
         \/ Refuse(c) \/ Wait(c) \/ Acquire(c) \/ Granted(c)
         \/ OperationEnds(c) \/ Finish(c) \/ FinishCutShort(c)
         \/ StreamEnds(c) \/ TaskEnds(c) \/ CloseStream(c)
         \/ CancelTask(c)
    \/ CancelRuntime

Spec == Init /\ [][Next]_vars

-----------------------------------------------------------------------------
InOperation(c) == op[c] = Running \/ pc[c] = "streaming"

(* "An agent execution is already active in this runtime": whatever calls  *)
(* queue, fail in their setup, are cancelled or abandoned, one operation   *)
(* at most runs in the process.                                            *)
OneOperation == \A c, d \in Callers : InOperation(c) /\ InOperation(d) => c = d

(* An execution is recorded once, and as completed only when it returned   *)
(* completed and, if it was asked for a change, has changed something and  *)
(* passed a validation.                                                    *)
RecordedOnce ==
    \A i, j \in DOMAIN history : history[i].of = history[j].of => i = j
CompletedIsReviewed ==
    \A i \in DOMAIN history :
        (history[i].status = "completed" /\ history[i].of \notin Streams) =>
            LET result == op[history[i].of]
            IN  result.status = "completed" /\ Approved(history[i].of, result)

(* An operation that ended is in the history and is not left running in    *)
(* its checkpoint, unless one of its records could not be written.         *)
NothingLeftRunning ==
    \A c \in Callers :
        (op[c] \in Results /\ pc[c] # "awaiting" /\ c \notin damaged) =>
            /\ checkpoint[c] # "running"
            /\ \E i \in DOMAIN history : history[i].of = c

(* A sub-task that a running turn delegates (delegate_agent, or the        *)
(* parallel tasks of runner_local.py) goes through the runtime that the    *)
(* turn itself occupies, and never runs.                                   *)
DelegatedIsRefused ==
    \A c \in Delegated : Parent[c] # Nobody => op[c] = None /\ pc[c] \in {"idle", "refused"}

-----------------------------------------------------------------------------
(* What docstrings say and the code does not do; see the README.           *)

(* "Fan out N sub-objectives concurrently": of a fan-out, the first runs   *)
(* and those that start meanwhile are refused.                             *)
SubtasksAreRun == \A c \in Delegated : pc[c] # "refused"

(* "Fail fast instead of queueing a second agent behind the first": a call *)
(* that finds the lock free but promised to a stream queues behind it.     *)
NeverQueued == \A c \in Callers \ Streams : pc[c] # "queued"

(* "Block unsupported completion claims": the record says partial, the     *)
(* caller is handed the result that says completed.                        *)
ReturnedAsRecorded ==
    \A i \in DOMAIN history : LET c == history[i].of IN
        pc[c] = "returned" /\ c \notin Streams => op[c].status = history[i].status
=============================================================================
