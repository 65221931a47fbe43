----------------------------- MODULE RemoteAgent -----------------------------
(***************************************************************************)
(* The persistent bridge of remote_agent.py: the server sends requests     *)
(* over a websocket, the bridge runs each in a task of its own, writes the *)
(* result to an outbox file shared by every bridge of the device, sends    *)
(* it, and drops it from the outbox when the server acknowledges it.       *)
(*                                                                         *)
(* The connection can break at any moment, a save can fail, the process    *)
(* can crash and start again, and the server sends a request again while   *)
(* it has no result.  A request stands for its identifier; its output      *)
(* messages and the workspace sync carry no control and are left out.      *)
(***************************************************************************)
EXTENDS Naturals, Sequences, FiniteSets

CONSTANTS
    Bridges,        \* one bridge for each workspace root of the process
    Requests,
    Home,           \* Home[r]: the bridge the server sends r to
    MaxConns,       \* bound: connections a bridge opens
    MaxCrashes,     \* bound: crashes of the process
    MaxFailedSaves, \* bound: saves of the outbox that raise OSError
    MaxQueue        \* bound: length of a channel the server still adds to

ASSUME RemoteAgentAssumption ==
    /\ Home \in [Requests -> Bridges]
    /\ MaxConns \in Nat /\ MaxCrashes \in Nat
    /\ MaxFailedSaves \in Nat /\ MaxQueue \in Nat

VARIABLES
    phase,      \* where the bridge's task is
    started,    \* what start() tells its caller
    conn,       \* number of the latest connection of the bridge
    replay,     \* outbox entries still to send after the connection opened
    outbox,     \* RemoteAgentBridge._outbox
    running,    \* RemoteAgentBridge._running
    handler,    \* the _handle_rpc task of a request, and its websocket
    disk,       \* agent-outbox.json
    toAgent, toServer,          \* the two directions of the live websocket
    answered,   \* requests the server has a result of
    executed,   \* how often a request's command ran
    lostRuns,   \* executions whose result a crash took with it
    crashes, failedSaves

vars == <<phase, started, conn, replay, outbox, running, handler, disk, toAgent,
          toServer, answered, executed, lostRuns, crashes, failedSaves>>

link == <<phase, conn, replay, toAgent, toServer>>
server == <<answered, executed, lostRuns>>
faults == <<crashes, failedSaves>>

NoHandler == [pc |-> "none", sock |-> 0]
Live(b) == phase[b] \in {"replay", "listen"}
Request(r) == [type |-> "rpc_request", id |-> r]
Ack(r) == [type |-> "rpc_ack", id |-> r]

TypeOK ==
    /\ phase \in [Bridges -> {"down", "offline", "replay", "listen", "ended"}]
    /\ started \in [Bridges -> {"no", "server", "error"}]
    /\ conn \in [Bridges -> 0..MaxConns]
    /\ replay \in [Bridges -> SUBSET Requests]
    /\ outbox \in [Bridges -> SUBSET Requests]
    /\ running \in [Bridges -> SUBSET Requests]
    /\ handler \in [Requests -> [pc: {"none", "execute", "record", "send", "sync"}, sock: 0..MaxConns]]
    /\ disk \subseteq Requests /\ answered \subseteq Requests
    /\ \A b \in Bridges : toServer[b] \in Seq(Requests)
    /\ \A b \in Bridges : toAgent[b] \in Seq([type: {"rpc_request", "rpc_ack"}, id: Requests])
    /\ executed \in [Requests -> Nat] /\ lostRuns \in [Requests -> Nat]
    /\ crashes \in 0..MaxCrashes /\ failedSaves \in 0..MaxFailedSaves

Init ==
    /\ phase = [b \in Bridges |-> "offline"]
    /\ started = [b \in Bridges |-> "no"]
    /\ conn = [b \in Bridges |-> 0]
    /\ replay = [b \in Bridges |-> {}]
    /\ outbox = [b \in Bridges |-> {}]
    /\ running = [b \in Bridges |-> {}]
    /\ handler = [r \in Requests |-> NoHandler]
    /\ disk = {}
    /\ toAgent = [b \in Bridges |-> <<>>] /\ toServer = [b \in Bridges |-> <<>>]
    /\ answered = {}
    /\ executed = [r \in Requests |-> 0] /\ lostRuns = [r \in Requests |-> 0]
    /\ crashes = 0 /\ failedSaves = 0

-----------------------------------------------------------------------------
(* The bridge's task *)

Send(b, r) == toServer' = [toServer EXCEPT ![b] = Append(@, r)]

(* The websocket of b is gone and what it carried is lost; the task is at p. *)
Disconnect(b, p) ==
    /\ phase' = [phase EXCEPT ![b] = p]
    /\ replay' = [replay EXCEPT ![b] = {}]
    /\ toAgent' = [toAgent EXCEPT ![b] = <<>>]
    /\ toServer' = [toServer EXCEPT ![b] = <<>>]

Register(b) ==
    /\ phase[b] = "offline" /\ started[b] = "no"
    /\ started' = [started EXCEPT ![b] = "server"]
    /\ UNCHANGED <<link, outbox, running, handler, disk, server, faults>>

Connect(b) ==
    /\ phase[b] = "offline" /\ started[b] = "server" /\ conn[b] < MaxConns
    /\ phase' = [phase EXCEPT ![b] = "replay"]
    /\ conn' = [conn EXCEPT ![b] = @ + 1]
    /\ replay' = [replay EXCEPT ![b] = outbox[b]]
    /\ UNCHANGED <<started, outbox, running, handler, disk, toAgent, toServer, server, faults>>

Replay(b) ==
    /\ phase[b] = "replay"
    /\ \/ \E r \in replay[b] :
            /\ replay' = [replay EXCEPT ![b] = @ \ {r}]
            /\ Send(b, r)
            /\ UNCHANGED phase
       \/ /\ replay[b] = {}
          /\ phase' = [phase EXCEPT ![b] = "listen"]
          /\ UNCHANGED <<replay, toServer>>
    /\ UNCHANGED <<started, conn, outbox, running, handler, disk, toAgent, server, faults>>

Receives(b, type, r) ==
    /\ phase[b] = "listen" /\ toAgent[b] # <<>> /\ Head(toAgent[b]) = [type |-> type, id |-> r]
    /\ toAgent' = [toAgent EXCEPT ![b] = Tail(@)]

(* A request that comes again is left to the acknowledgement to settle. *)
ResendResult_Mutant(b, r) ==
    /\ Receives(b, "rpc_request", r) /\ r \in outbox[b]
    /\ UNCHANGED <<phase, started, conn, replay, outbox, running, handler, disk, toServer, server, faults>>

ResendResult(b, r) ==
    /\ Receives(b, "rpc_request", r) /\ r \in outbox[b]
    /\ Send(b, r)
    /\ UNCHANGED <<phase, started, conn, replay, outbox, running, handler, disk, server, faults>>

(* Only finished requests are remembered. *)
IsNew_Mutant(b, r) == r \notin outbox[b]

IsNew(b, r) == r \notin outbox[b] \cup running[b]

StartHandler(b, r) ==
    /\ Receives(b, "rpc_request", r) /\ IsNew(b, r)
    /\ running' = [running EXCEPT ![b] = @ \cup {r}]
    /\ handler' = [handler EXCEPT ![r] = [pc |-> "execute", sock |-> conn[b]]]
    /\ UNCHANGED <<phase, started, conn, replay, outbox, disk, toServer, server, faults>>

IgnoreDuplicate(b, r) ==
    /\ Receives(b, "rpc_request", r) /\ r \in running[b] \ outbox[b]
    /\ UNCHANGED <<phase, started, conn, replay, outbox, running, handler, disk, toServer, server, faults>>

(* The save replaces the whole file with this bridge's own outbox; a save  *)
(* that raises leaves the file as it was and costs the connection.         *)
ReceiveAck(b, r) ==
    /\ phase[b] = "listen" /\ toAgent[b] # <<>> /\ Head(toAgent[b]) = Ack(r)
    /\ outbox' = [outbox EXCEPT ![b] = @ \ {r}]
    /\ \/ /\ toAgent' = [toAgent EXCEPT ![b] = Tail(@)]
          /\ disk' = outbox'[b]
          /\ UNCHANGED <<phase, replay, toServer, failedSaves>>
       \/ /\ failedSaves < MaxFailedSaves
          /\ failedSaves' = failedSaves + 1
          /\ Disconnect(b, "offline")
          /\ UNCHANGED disk
    /\ UNCHANGED <<started, conn, running, handler, server, crashes>>

(* The connection breaks, or the server closes it: back off and try again. *)
Drop(b) ==
    /\ Live(b)
    /\ Disconnect(b, "offline")
    /\ UNCHANGED <<started, conn, outbox, running, handler, disk, server, faults>>

(* An expired login ends the task for good.  Its handlers go on. *)
AuthLost(b) ==
    /\ phase[b] = "offline"
    /\ phase' = [phase EXCEPT ![b] = "ended"]
    /\ started' = [started EXCEPT ![b] = IF @ = "no" THEN "error" ELSE @]
    /\ UNCHANGED <<conn, replay, outbox, running, handler, disk, toAgent, toServer, server, faults>>

Stop(b) ==
    /\ phase[b] = "offline" \/ Live(b)
    /\ Disconnect(b, "ended")
    /\ UNCHANGED <<started, conn, outbox, running, handler, disk, server, faults>>

-----------------------------------------------------------------------------
(* The task of one request *)

Execute(r) ==
    /\ handler[r].pc = "execute"
    /\ handler' = [handler EXCEPT ![r].pc = "record"]
    /\ executed' = [executed EXCEPT ![r] = @ + 1]
    /\ UNCHANGED <<link, started, outbox, running, disk, answered, lostRuns, faults>>

(* A save that raises here ends the task before its finally clause, so the *)
(* request stays in _running.                                              *)
Record(r) ==
    LET b == Home[r] IN
    /\ handler[r].pc = "record"
    /\ outbox' = [outbox EXCEPT ![b] = @ \cup {r}]
    /\ \/ /\ disk' = outbox'[b]
          /\ handler' = [handler EXCEPT ![r].pc = "send"]
          /\ UNCHANGED failedSaves
       \/ /\ failedSaves < MaxFailedSaves
          /\ failedSaves' = failedSaves + 1
          /\ handler' = [handler EXCEPT ![r] = NoHandler]
          /\ UNCHANGED disk
    /\ UNCHANGED <<link, started, running, server, crashes>>

(* The result goes out on the websocket the request came on.  When that    *)
(* one is closed the send raises, and the result waits in the outbox.      *)
SendResult(r) ==
    LET b == Home[r]
        open == Live(b) /\ handler[r].sock = conn[b]
    IN
    /\ handler[r].pc = "send"
    /\ \/ /\ open
          /\ Send(b, r)
          /\ handler' = [handler EXCEPT ![r].pc = "sync"]
          /\ UNCHANGED running
       \/ /\ ~open
          /\ handler' = [handler EXCEPT ![r] = NoHandler]
          /\ running' = [running EXCEPT ![b] = @ \ {r}]
          /\ UNCHANGED toServer
    /\ UNCHANGED <<phase, started, conn, replay, outbox, disk, toAgent, server, faults>>

Finish(r) ==
    /\ handler[r].pc = "sync"
    /\ handler' = [handler EXCEPT ![r] = NoHandler]
    /\ running' = [running EXCEPT ![Home[r]] = @ \ {r}]
    /\ UNCHANGED <<link, started, outbox, disk, server, faults>>

-----------------------------------------------------------------------------
(* The server, and the process the bridges live in *)

Deliver(r) ==
    LET b == Home[r] IN
    /\ Live(b) /\ r \notin answered
    /\ Len(toAgent[b]) < MaxQueue /\ Len(toServer[b]) < MaxQueue
    /\ Request(r) \notin {toAgent[b][i] : i \in DOMAIN toAgent[b]}
    /\ toAgent' = [toAgent EXCEPT ![b] = Append(@, Request(r))]
    /\ UNCHANGED <<phase, started, conn, replay, outbox, running, handler, disk, toServer, server, faults>>

Accept(b) ==
    /\ Live(b) /\ toServer[b] # <<>>
    /\ answered' = answered \cup {Head(toServer[b])}
    /\ toServer' = [toServer EXCEPT ![b] = Tail(@)]
    /\ toAgent' = [toAgent EXCEPT ![b] = Append(@, Ack(Head(toServer[b])))]
    /\ UNCHANGED <<phase, started, conn, replay, outbox, running, handler, disk, executed, lostRuns, faults>>

Crash ==
    /\ crashes < MaxCrashes
    /\ \E b \in Bridges : phase[b] # "down"
    /\ crashes' = crashes + 1
    /\ lostRuns' = [r \in Requests |->
         IF r \notin disk /\ (handler[r].pc = "record" \/ r \in outbox[Home[r]])
         THEN lostRuns[r] + 1 ELSE lostRuns[r]]
    /\ phase' = [b \in Bridges |-> "down"]
    /\ started' = [b \in Bridges |-> "no"]
    /\ replay' = [b \in Bridges |-> {}]
    /\ outbox' = [b \in Bridges |-> {}]
    /\ running' = [b \in Bridges |-> {}]
    /\ handler' = [r \in Requests |-> NoHandler]
    /\ toAgent' = [b \in Bridges |-> <<>>]
    /\ toServer' = [b \in Bridges |-> <<>>]
    /\ UNCHANGED <<conn, disk, answered, executed, failedSaves>>

(* The outbox file is not read again. *)
Restart_Mutant(b) ==
    /\ phase[b] = "down"
    /\ phase' = [phase EXCEPT ![b] = "offline"]
    /\ UNCHANGED <<started, conn, replay, outbox, running, handler, disk, toAgent, toServer, server, faults>>

Restart(b) ==
    /\ phase[b] = "down"
    /\ phase' = [phase EXCEPT ![b] = "offline"]
    /\ outbox' = [outbox EXCEPT ![b] = disk]
    /\ UNCHANGED <<started, conn, replay, running, handler, disk, toAgent, toServer, server, faults>>

BridgeStep(b) ==
    \/ Register(b) \/ Connect(b) \/ Replay(b) \/ Restart(b)
    \/ \E r \in Requests :
         ResendResult(b, r) \/ StartHandler(b, r) \/ IgnoreDuplicate(b, r) \/ ReceiveAck(b, r)

HandlerStep(r) == Execute(r) \/ Record(r) \/ SendResult(r) \/ Finish(r)

Next ==
    \/ \E b \in Bridges : BridgeStep(b) \/ Drop(b) \/ AuthLost(b) \/ Stop(b) \/ Accept(b)
    \/ \E r \in Requests : HandlerStep(r) \/ Deliver(r)
    \/ Crash

Spec == Init /\ [][Next]_vars

(* The event loop serves the bridge and every task; the server reads what  *)
(* it is sent and asks again for a result it does not have.  Connections   *)
(* break a bounded number of times, after that one holds.                  *)
FairSpec ==
    /\ Spec
    /\ \A b \in Bridges : WF_vars(BridgeStep(b)) /\ WF_vars(Accept(b))
    /\ \A r \in Requests : WF_vars(HandlerStep(r)) /\ WF_vars(Deliver(r))

-----------------------------------------------------------------------------
(* A request's command runs once, and once more only for each run whose    *)
(* result a crash took before the outbox file had it: redelivery over the  *)
(* same or a new connection never repeats it (_run's checks of _outbox and *)
(* _running).                                                              *)
OneRunPerRequest == \A r \in Requests : executed[r] <= 1 + lostRuns[r]

(* What the outbox file is for (_save_outbox): while no save has failed, a *)
(* result that was recorded and that the server has not is in the file.    *)
ResultsSurvive ==
    failedSaves = 0 =>
        \A r \in Requests :
            (executed[r] > lostRuns[r] /\ r \notin answered /\ handler[r].pc # "record")
                => r \in disk

(* A request the server keeps asking for is answered, unless the bridge    *)
(* was stopped, lost its login or used up its connections.                 *)
Unreachable(b) == phase[b] = "ended" \/ (conn[b] = MaxConns /\ ~Live(b))

EveryRequestAnswered ==
    \A r \in Requests : <>(r \in answered \/ Unreachable(Home[r]))
=============================================================================
