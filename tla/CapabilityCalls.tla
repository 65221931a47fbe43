--------------------------- MODULE CapabilityCalls ---------------------------
(***************************************************************************)
(* A tool call on its way down: FailoverCapabilityGateway sends it to a    *)
(* remote MCP server over one stdio pipe that all calls share              *)
(* (mcp_client.py) and, when the transport fails, to the local gateway,    *)
(* whose ledger of idempotency keys (capability_gateway.py) lets one call  *)
(* of a key run and the others wait for its outcome.  The local tool is    *)
(* execute_command of mcp.py: a process that completes, times out and is   *)
(* killed, or is moved to the background on Ctrl+B and watched there.      *)
(*                                                                         *)
(* Schema validation and approval reject a call before it does anything    *)
(* and are one choice at the start.  A caller may be cancelled while it    *)
(* waits for anything.  The remote server is external.                     *)
(***************************************************************************)
EXTENDS Naturals, Sequences, FiniteSets

CONSTANTS
    Callers,
    Keys, NoKey,      \* idempotency keys; NoKey: the request carries none
    Arguments,        \* what the fingerprint of a request tells apart
    Key, Args,        \* of each caller's request
    Remote,           \* callers whose capability_id is remote.*
    HasLocalTool,     \* callers whose remote tool has a native namesake
    Shell,            \* callers whose tool is execute_command
    NoOne

ASSUME CapabilityAssumption ==
    /\ NoKey \notin Keys /\ NoOne \notin Callers
    /\ Key \in [Callers -> Keys \cup {NoKey}]
    /\ Args \in [Callers -> Arguments]
    /\ Remote \subseteq Callers /\ HasLocalTool \subseteq Callers /\ Shell \subseteq Callers

VARIABLES
    pc,           \* where the caller is
    answer,       \* what it was told: a kind, where from, and whose run it was
    requests, replies, peerAlive,   \* the pipe to the remote server's process
    reader,       \* the caller inside process.stdout.readline()
    remoteRuns,   \* callers whose request the remote server executed
    inflight,     \* _inflight: the caller that runs a key
    completed,    \* _completed: the caller that ran a key
    proc,         \* the local process of a caller
    retried,      \* callers whose command runs a second time (WP-CLI as root)
    signalled,    \* background_signal of a caller's command
    jobs          \* _BACKGROUND_JOBS

vars == <<pc, answer, requests, replies, peerAlive, reader, remoteRuns,
          inflight, completed, proc, retried, signalled, jobs>>
pipe == <<requests, replies, peerAlive, reader, remoteRuns>>
ledger == <<inflight, completed>>
local == <<proc, retried, signalled, jobs>>

Nothing == [kind |-> "none", at |-> "nowhere", of |-> NoOne]
Outcome(k, w, c) == [kind |-> k, at |-> w, of |-> c]
Kinds == {"none", "rejected", "output", "timed out", "detached", "conflict",
          "unavailable", "raised", "refused"}

TypeOK ==
    /\ pc \in [Callers -> {"idle", "remote", "local", "wait", "run", "done", "cancelled"}]
    /\ answer \in [Callers -> [kind: Kinds, at: {"nowhere", "remote", "local"}, of: Callers \cup {NoOne}]]
    /\ requests \in Seq(Callers) /\ replies \in Seq(Callers) /\ peerAlive \in BOOLEAN
    /\ reader \in Callers \cup {NoOne} /\ remoteRuns \subseteq Callers
    /\ inflight \in [Keys -> Callers \cup {NoOne}]
    /\ completed \in [Keys -> Callers \cup {NoOne}]
    /\ proc \in [Callers -> {"none", "running", "exited"}]
    /\ signalled \subseteq Callers /\ retried \subseteq Callers
    /\ jobs \in [Callers -> {"none", "running", "finished"}]

Init ==
    /\ pc = [c \in Callers |-> "idle"] /\ answer = [c \in Callers |-> Nothing]
    /\ requests = <<>> /\ replies = <<>> /\ peerAlive = TRUE
    /\ reader = NoOne /\ remoteRuns = {}
    /\ inflight = [k \in Keys |-> NoOne] /\ completed = [k \in Keys |-> NoOne]
    /\ proc = [c \in Callers |-> "none"] /\ signalled = {} /\ retried = {}
    /\ jobs = [c \in Callers |-> "none"]

Finish(c, o) ==
    /\ pc' = [pc EXCEPT ![c] = "done"]
    /\ answer' = [answer EXCEPT ![c] = o]

-----------------------------------------------------------------------------
(* The remote hop *)

(* A transport failure: the local namesake, when there is one. *)
Fallback(c) ==
    IF c \in HasLocalTool
    THEN pc' = [pc EXCEPT ![c] = "local"] /\ UNCHANGED answer
    ELSE Finish(c, Outcome("unavailable", "remote", NoOne))

(* Unknown tool, malformed arguments, or a side effect without approval. *)
RejectRemote(c) ==
    /\ pc[c] = "idle" /\ c \in Remote
    /\ Finish(c, Outcome("rejected", "remote", NoOne))
    /\ UNCHANGED <<pipe, ledger, local>>

(* The request is written before the answer is awaited.  A second reader   *)
(* of the same stream raises at once, which is no transport error.         *)
BeginRemote(c) ==
    /\ pc[c] = "idle" /\ c \in Remote
    /\ \/ /\ ~peerAlive
          /\ Fallback(c)
          /\ UNCHANGED <<requests, reader>>
       \/ /\ peerAlive /\ reader = NoOne
          /\ requests' = Append(requests, c)
          /\ reader' = c
          /\ pc' = [pc EXCEPT ![c] = "remote"] /\ UNCHANGED answer
       \/ /\ peerAlive /\ reader # NoOne
          /\ requests' = Append(requests, c)
          /\ Finish(c, Outcome("raised", "remote", NoOne))
          /\ UNCHANGED reader
    /\ UNCHANGED <<replies, peerAlive, remoteRuns, ledger, local>>

PeerServe ==
    /\ peerAlive /\ requests # <<>>
    /\ remoteRuns' = remoteRuns \cup {Head(requests)}
    /\ requests' = Tail(requests)
    /\ replies' = Append(replies, Head(requests))
    /\ UNCHANGED <<pc, answer, peerAlive, reader, ledger, local>>

PeerExit ==
    /\ peerAlive
    /\ peerAlive' = FALSE
    /\ requests' = <<>>
    /\ UNCHANGED <<pc, answer, replies, reader, remoteRuns, ledger, local>>

(* The first line that comes is taken for the answer. *)
ReadReply_Mutant(c) ==
    /\ pc[c] = "remote" /\ reader = c /\ replies # <<>>
    /\ replies' = Tail(replies)
    /\ reader' = NoOne
    /\ Finish(c, Outcome("output", "remote", Head(replies)))
    /\ UNCHANGED <<requests, peerAlive, remoteRuns, ledger, local>>

(* A reply to another request, one that gave up or raised, is skipped. *)
ReadReply(c) ==
    /\ pc[c] = "remote" /\ reader = c /\ replies # <<>>
    /\ replies' = Tail(replies)
    /\ \/ /\ Head(replies) = c
          /\ reader' = NoOne
          /\ Finish(c, Outcome("output", "remote", Head(replies)))
       \/ /\ Head(replies) # c
          /\ UNCHANGED <<reader, pc, answer>>
    /\ UNCHANGED <<requests, peerAlive, remoteRuns, ledger, local>>

(* No line within the 15 seconds, or the end of the stream. *)
ReadFails(c) ==
    /\ pc[c] = "remote" /\ reader = c /\ replies = <<>>
    /\ reader' = NoOne
    /\ Fallback(c)
    /\ UNCHANGED <<requests, replies, peerAlive, remoteRuns, ledger, local>>

-----------------------------------------------------------------------------
(* The local gateway *)

BeginLocal(c) ==
    /\ pc[c] = "idle" /\ c \notin Remote
    /\ pc' = [pc EXCEPT ![c] = "local"]
    /\ UNCHANGED <<answer, pipe, ledger, local>>

UnknownCapability(c) ==
    /\ pc[c] = "local"
    /\ Finish(c, Outcome("rejected", "local", NoOne))
    /\ UNCHANGED <<pipe, ledger, local>>

(* Malformed arguments are normalised, and refused when that is not enough. *)
InvalidArguments(c) ==
    /\ pc[c] = "local"
    /\ Finish(c, Outcome("rejected", "local", NoOne))
    /\ UNCHANGED <<pipe, ledger, local>>

Run(c) == pc' = [pc EXCEPT ![c] = "run"] /\ UNCHANGED answer

(* The section under _idempotency_lock: without a key the call just runs;  *)
(* a key used for another request is a conflict.                           *)
Conflict(c, d) == Args[d] # Args[c]

EnterWithoutKey(c) ==
    /\ pc[c] = "local" /\ Key[c] = NoKey
    /\ Run(c)
    /\ UNCHANGED <<pipe, ledger, local>>

EnterCompleted(c) ==
    /\ pc[c] = "local" /\ Key[c] # NoKey
    /\ LET d == completed[Key[c]] IN
       /\ d # NoOne
       /\ Finish(c, IF Conflict(c, d) THEN Outcome("conflict", "local", NoOne)
                    ELSE Outcome(answer[d].kind, "local", d))
    /\ UNCHANGED <<pipe, ledger, local>>

EnterInFlight(c) ==
    /\ pc[c] = "local" /\ Key[c] # NoKey /\ completed[Key[c]] = NoOne
    /\ LET d == inflight[Key[c]] IN
       /\ d # NoOne
       /\ IF Conflict(c, d) THEN Finish(c, Outcome("conflict", "local", NoOne))
          ELSE pc' = [pc EXCEPT ![c] = "wait"] /\ UNCHANGED answer
    /\ UNCHANGED <<pipe, ledger, local>>

(* Only outcomes are remembered, not calls under way. *)
Claimable_Mutant(k) == completed[k] = NoOne

Claimable(k) == completed[k] = NoOne /\ inflight[k] = NoOne

EnterFirst(c) ==
    /\ pc[c] = "local" /\ Key[c] # NoKey /\ Claimable(Key[c])
    /\ inflight' = [inflight EXCEPT ![Key[c]] = c]
    /\ Run(c)
    /\ UNCHANGED <<pipe, completed, local>>

(* The owner of a key files its outcome and resolves the future. *)
Settle(c, kind) ==
    /\ Finish(c, Outcome(kind, "local", c))
    /\ IF Key[c] = NoKey THEN UNCHANGED ledger
       ELSE /\ inflight' = [inflight EXCEPT ![Key[c]] = NoOne]
            /\ completed' = [completed EXCEPT ![Key[c]] = c]

(* A waiter only looks while the key is in flight. *)
WaiterWakes_Mutant(c) ==
    /\ pc[c] = "wait" /\ inflight[Key[c]] # NoOne /\ completed[Key[c]] # NoOne
    /\ Finish(c, Outcome(answer[completed[Key[c]]].kind, "local", completed[Key[c]]))
    /\ UNCHANGED <<pipe, ledger, local>>

WaiterWakes(c) ==
    /\ pc[c] = "wait" /\ completed[Key[c]] # NoOne
    /\ Finish(c, Outcome(answer[completed[Key[c]]].kind, "local", completed[Key[c]]))
    /\ UNCHANGED <<pipe, ledger, local>>

-----------------------------------------------------------------------------
(* execute_command *)

(* The checks before the launch: the directory, a protected training job,  *)
(* the project manifest, the sandbox.                                      *)
RefuseCommand(c) ==
    /\ pc[c] = "run" /\ proc[c] = "none"
    /\ Settle(c, "refused")
    /\ UNCHANGED <<pipe, local>>

(* A plain cat of files is read without a process, as other tools run. *)
ReadDirectly(c) ==
    /\ pc[c] = "run" /\ proc[c] = "none"
    /\ Settle(c, "output")
    /\ UNCHANGED <<pipe, local>>

LaunchCommand(c) ==
    /\ pc[c] = "run" /\ c \in Shell /\ proc[c] = "none"
    /\ proc' = [proc EXCEPT ![c] = "running"]
    /\ UNCHANGED <<pc, answer, pipe, ledger, retried, signalled, jobs>>

ProcessExits(c) ==
    /\ proc[c] = "running"
    /\ proc' = [proc EXCEPT ![c] = "exited"]
    /\ UNCHANGED <<pc, answer, pipe, ledger, retried, signalled, jobs>>

CtrlB ==
    /\ \E c \in Shell : pc[c] = "run" /\ c \notin signalled
    /\ signalled' = signalled \cup {c \in Shell : pc[c] = "run"}
    /\ UNCHANGED <<pc, answer, pipe, ledger, proc, retried, jobs>>

CommandCompletes(c) ==
    /\ pc[c] = "run" /\ proc[c] = "exited"
    /\ Settle(c, "output")
    /\ UNCHANGED <<pipe, local>>

(* WP-CLI refused a read as root: the same read again, with --allow-root. *)
RetryAsRoot(c) ==
    /\ pc[c] = "run" /\ proc[c] = "exited" /\ c \notin retried
    /\ retried' = retried \cup {c}
    /\ proc' = [proc EXCEPT ![c] = "running"]
    /\ UNCHANGED <<pc, answer, pipe, ledger, signalled, jobs>>

CommandDetaches(c) ==
    /\ pc[c] = "run" /\ proc[c] = "running" /\ c \in signalled
    /\ jobs' = [jobs EXCEPT ![c] = "running"]
    /\ Settle(c, "detached")
    /\ UNCHANGED <<pipe, proc, retried, signalled>>

(* The timeout is reported, the process left alone. *)
CommandTimesOut_Mutant(c) ==
    /\ pc[c] = "run" /\ proc[c] = "running" /\ c \notin signalled
    /\ Settle(c, "timed out")
    /\ UNCHANGED <<pipe, local>>

CommandTimesOut(c) ==
    /\ pc[c] = "run" /\ proc[c] = "running" /\ c \notin signalled
    /\ proc' = [proc EXCEPT ![c] = "exited"]
    /\ Settle(c, "timed out")
    /\ UNCHANGED <<pipe, retried, signalled, jobs>>

WatchBackgroundJob(c) ==
    /\ jobs[c] = "running" /\ proc[c] = "exited"
    /\ jobs' = [jobs EXCEPT ![c] = "finished"]
    /\ UNCHANGED <<pc, answer, pipe, ledger, proc, retried, signalled>>

(* SIGKILL.  A process may outlive the SIGTERM sent without force. *)
KillBackgroundJob(c) ==
    /\ jobs[c] = "running" /\ proc[c] = "running"
    /\ proc' = [proc EXCEPT ![c] = "exited"]
    /\ UNCHANGED <<pc, answer, pipe, ledger, retried, signalled, jobs>>

(* CancelledError passes every except clause on the way: the process goes  *)
(* on, and a key that was in flight stays there.                           *)
Cancel(c) ==
    /\ pc[c] \in {"remote", "wait", "run"}
    /\ pc' = [pc EXCEPT ![c] = "cancelled"]
    /\ reader' = IF reader = c THEN NoOne ELSE reader
    /\ UNCHANGED <<answer, requests, replies, peerAlive, remoteRuns, ledger, local>>

CallerStep(c) ==
    \/ BeginRemote(c) \/ RejectRemote(c) \/ ReadReply(c) \/ ReadFails(c)
    \/ BeginLocal(c) \/ UnknownCapability(c) \/ InvalidArguments(c) \/ EnterWithoutKey(c) \/ EnterCompleted(c)
    \/ EnterInFlight(c) \/ EnterFirst(c) \/ WaiterWakes(c)
    \/ RefuseCommand(c) \/ ReadDirectly(c) \/ LaunchCommand(c) \/ RetryAsRoot(c)
    \/ CommandCompletes(c) \/ CommandDetaches(c) \/ CommandTimesOut(c)

Next ==
    \/ \E c \in Callers :
         CallerStep(c) \/ ProcessExits(c) \/ Cancel(c)
           \/ WatchBackgroundJob(c) \/ KillBackgroundJob(c)
    \/ PeerServe \/ PeerExit \/ CtrlB

Spec == Init /\ [][Next]_vars

(* The event loop runs every caller and every watcher; a command has a     *)
(* timeout, so none waits for ever.                                        *)
FairSpec == Spec /\ \A c \in Callers : WF_vars(CallerStep(c)) /\ WF_vars(WatchBackgroundJob(c))

-----------------------------------------------------------------------------
(* The command of a key starts at most once, whoever asks, in whatever     *)
(* order, and whichever of them are cancelled (the ledger of               *)
(* TamfisCodeCapabilityGateway.execute).                                   *)
OneLocalRunPerKey ==
    \A k \in Keys : Cardinality({c \in Callers : Key[c] = k /\ proc[c] # "none"}) <= 1

(* No caller is given the outcome of a request that was not the same as    *)
(* its own: not through the ledger, and not through a pipe on which late   *)
(* replies to requests that gave up are still to come.                     *)
AnswerIsOwn ==
    \A c \in Callers : answer[c].of # NoOne =>
        IF answer[c].at = "remote" THEN answer[c].of = c
        ELSE answer[c].of = c \/ (Key[answer[c].of] = Key[c] /\ Args[answer[c].of] = Args[c])

(* A process that is still running has someone who waits for it or watches *)
(* it, except that of a caller that was cancelled.                         *)
NoStrayProcess ==
    \A c \in Callers : (proc[c] = "running" /\ pc[c] # "cancelled") => pc[c] = "run" \/ jobs[c] = "running"

(* Every caller gets an answer, unless it waits for a key whose owner was  *)
(* cancelled.                                                              *)
Abandoned(c) == pc[c] = "wait" /\ inflight[Key[c]] # NoOne /\ pc[inflight[Key[c]]] = "cancelled"

EveryCallerAnswered ==
    <>(\A c \in Callers : pc[c] \in {"done", "cancelled"} \/ Abandoned(c))

(* Claim of FailoverCapabilityGateway: a request the remote server may     *)
(* have executed is never run again locally.                               *)
NoReplayAfterRemoteRun == \A c \in remoteRuns : proc[c] = "none"
=============================================================================
