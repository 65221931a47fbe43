--------------------------- MODULE DeliveryProofs ---------------------------
(***************************************************************************)
(* Theorems about what is delivered once: the results of module            *)
(* RemoteAgent, for any number of bridges, requests, connections, crashes  *)
(* and failing saves, and the calls and the text of module                 *)
(* StreamedCompletion, for any replies, limits and routes; and that a      *)
(* streamed request runs out.                                              *)
(***************************************************************************)
EXTENDS RemoteAgent, StreamedCompletion, FiniteSetTheorems, SequenceTheorems, WellFoundedInduction, TLAPS

-----------------------------------------------------------------------------
(* RemoteAgent.                                                            *)

Handlers == [pc: {"none", "execute", "record", "send", "sync"}, sock: Nat]
Messages == [type : {"rpc_request", "rpc_ack"}, id : Requests]

Types ==
    /\ phase \in [Bridges -> {"down", "offline", "replay", "listen", "ended"}]
    /\ outbox \in [Bridges -> SUBSET Requests]
    /\ running \in [Bridges -> SUBSET Requests]
    /\ handler \in [Requests -> Handlers]
    /\ conn \in [Bridges -> Nat]
    /\ replay \in [Bridges -> SUBSET Requests]
    /\ disk \subseteq Requests /\ answered \subseteq Requests
    /\ toServer \in [Bridges -> Seq(Requests)]
    /\ toAgent \in [Bridges -> Seq(Messages)]
    /\ executed \in [Requests -> Nat] /\ lostRuns \in [Requests -> Nat]
    /\ failedSaves \in Nat

\* A handler works for a request that its bridge counts as running.
HandlersRun ==
    \A r \in Requests : handler[r].pc # "none" => r \in running[Home[r]] /\ phase[Home[r]] # "down"

(* What the server sends: requests to their own bridge, acknowledgements   *)
(* of results it has; after one, that request does not come again.         *)
Queues ==
    \A b \in Bridges : \A i \in DOMAIN toAgent[b] :
        /\ toAgent[b][i].type = "rpc_request" => b = Home[toAgent[b][i].id]
        /\ toAgent[b][i].type = "rpc_ack" =>
             /\ toAgent[b][i].id \in answered
             /\ \A j \in DOMAIN toAgent[b] : i < j => toAgent[b][j] # Request(toAgent[b][i].id)

\* A process that is gone has no websocket.
DownIsSilent == \A b \in Bridges : phase[b] = "down" => toAgent[b] = <<>>

Requested(r) == \E i \in DOMAIN toAgent[Home[r]] : toAgent[Home[r]][i] = Request(r)
Unlost(r)    == lostRuns[r] < executed[r]
InHand(r)    == handler[r].pc = "record" \/ r \in outbox[Home[r]]

\* A result that no crash took is with the server, in hand, or in the file
\* from which every bridge that is up again has read it.
Held(r) ==
    \/ r \in answered
    \/ phase[Home[r]] # "down" /\ InHand(r)
    \/ /\ phase[Home[r]] = "down" /\ r \in disk
       /\ \A c \in Bridges : phase[c] # "down" => r \in outbox[c]

RunOk(r) ==
    /\ executed[r] <= 1 + lostRuns[r]
    /\ handler[r].pc = "execute" => ~Unlost(r)
    /\ Unlost(r) => Held(r)
    /\ Unlost(r) /\ Requested(r) => InHand(r)

Runs == \A r \in Requests : RunOk(r)

IInv == Types /\ HandlersRun /\ Queues /\ DownIsSilent /\ Runs

\* With one bridge the file is its outbox, as long as it could be written.
FileIsOutbox == \A b \in Bridges : failedSaves = 0 /\ phase[b] # "down" => disk = outbox[b]

-----------------------------------------------------------------------------
(* Sequences.                                                              *)

LEMMA TailShifts ==
    ASSUME NEW M, NEW s \in Seq(M), s # <<>>
    PROVE  /\ Tail(s) \in Seq(M) /\ Head(s) = s[1] /\ 1 \in DOMAIN s
           /\ \A i \in DOMAIN Tail(s) : i + 1 \in DOMAIN s /\ Tail(s)[i] = s[i + 1]
OBVIOUS

LEMMA AppendKeeps ==
    ASSUME NEW M, NEW s \in Seq(M), NEW m \in M
    PROVE  \A t : t = Append(s, m) =>
              \A i \in DOMAIN t : \/ i \in DOMAIN s /\ t[i] = s[i] /\ i < Len(s) + 1
                                  \/ i = Len(s) + 1 /\ t[i] = m
OBVIOUS

\* A handler goes on to another place, or is over.
LEMMA HandlerTyped ==
    ASSUME handler \in [Requests -> Handlers], NEW r \in Requests,
           NEW p \in {"none", "execute", "record", "send", "sync"}
    PROVE  /\ [handler EXCEPT ![r].pc = p] \in [Requests -> Handlers]
           /\ [handler EXCEPT ![r] = NoHandler] \in [Requests -> Handlers]
           /\ \A q \in Requests \ {r} : [handler EXCEPT ![r].pc = p][q] = handler[q]
           /\ \A q \in Requests \ {r} : [handler EXCEPT ![r] = NoHandler][q] = handler[q]
           /\ [handler EXCEPT ![r].pc = p][r].pc = p
           /\ [handler EXCEPT ![r] = NoHandler][r].pc = "none"
BY DEF Handlers, NoHandler

LEMMA SetsTyped ==
    ASSUME NEW S, NEW T, NEW f \in [S -> SUBSET T], NEW x \in S, NEW e \in T
    PROVE  /\ [f EXCEPT ![x] = @ \cup {e}] \in [S -> SUBSET T]
           /\ [f EXCEPT ![x] = @ \ {e}] \in [S -> SUBSET T]
           /\ [f EXCEPT ![x] = {}] \in [S -> SUBSET T]
OBVIOUS

\* What the steps of a handler do to it.
LEMMA HandlerMoves ==
    ASSUME handler \in [Requests -> Handlers], running \in [Bridges -> SUBSET Requests],
           RemoteAgentAssumption, NEW r \in Requests,
           Execute(r) \/ Record(r) \/ SendResult(r) \/ Finish(r)
    PROVE  /\ handler' \in [Requests -> Handlers]
           /\ running' \in [Bridges -> SUBSET Requests]
           /\ handler[r].pc # "none" /\ (handler'[r].pc # "none" => UNCHANGED running)
           /\ \A q \in Requests \ {r} :
                handler'[q] = handler[q] /\ (q \in running[Home[q]] => q \in running'[Home[q]])
           /\ UNCHANGED phase
<1> USE RemoteAgentAssumption
<1>1. CASE Execute(r)
  <2>1. handler' = [handler EXCEPT ![r].pc = "record"] /\ handler[r].pc = "execute" /\ UNCHANGED <<running, phase>>
    BY <1>1 DEF Execute, link
  <2> QED BY <2>1, HandlerTyped
<1>2. CASE Record(r)
  <2>1. /\ handler' = [handler EXCEPT ![r].pc = "send"] \/ handler' = [handler EXCEPT ![r] = NoHandler]
        /\ handler[r].pc = "record" /\ UNCHANGED <<running, phase>>
    BY <1>2 DEF Record, link
  <2>2. CASE handler' = [handler EXCEPT ![r].pc = "send"]
    BY <2>1, <2>2, HandlerTyped
  <2>3. CASE handler' = [handler EXCEPT ![r] = NoHandler]
    BY <2>1, <2>3, HandlerTyped
  <2> QED BY <2>1, <2>2, <2>3
<1>3. CASE SendResult(r)
  <2>1. /\ handler[r].pc = "send" /\ UNCHANGED phase
        /\ \/ handler' = [handler EXCEPT ![r].pc = "sync"] /\ UNCHANGED running
           \/ handler' = [handler EXCEPT ![r] = NoHandler] /\ running' = [running EXCEPT ![Home[r]] = @ \ {r}]
    BY <1>3 DEF SendResult
  <2>2. CASE handler' = [handler EXCEPT ![r].pc = "sync"] /\ UNCHANGED running
    BY <2>1, <2>2, HandlerTyped
  <2>3. CASE handler' = [handler EXCEPT ![r] = NoHandler] /\ running' = [running EXCEPT ![Home[r]] = @ \ {r}]
    BY <2>1, <2>3, HandlerTyped, SetsTyped
  <2> QED BY <2>1, <2>2, <2>3
<1>4. CASE Finish(r)
  <2>1. /\ handler[r].pc = "sync" /\ UNCHANGED phase
        /\ handler' = [handler EXCEPT ![r] = NoHandler] /\ running' = [running EXCEPT ![Home[r]] = @ \ {r}]
    BY <1>4 DEF Finish, link
  <2> QED BY <2>1, HandlerTyped, SetsTyped
<1> QED BY <1>1, <1>2, <1>3, <1>4

-----------------------------------------------------------------------------
LEMMA InitIInv == Init => IInv /\ FileIsOutbox
BY RemoteAgentAssumption
   DEF Init, IInv, FileIsOutbox, Types, Handlers, HandlersRun, Queues, DownIsSilent, Runs,
       RunOk, Unlost, Requested, NoHandler

LEMMA StepTypes == Types /\ [Next]_vars => Types'
<1> SUFFICES ASSUME Types, [Next]_vars PROVE Types'
  OBVIOUS
<1> USE RemoteAgentAssumption DEF Types, link, server, faults
<1>1. ASSUME NEW b \in Bridges, Register(b) \/ Connect(b) \/ Restart(b) PROVE Types'
  <2>1. CASE Register(b)
    BY <2>1 DEF Register
  <2>2. CASE Connect(b)
    <3>1. conn' \in [Bridges -> Nat] /\ replay' \in [Bridges -> SUBSET Requests]
      BY <2>2 DEF Connect
    <3>2. phase' \in [Bridges -> {"down", "offline", "replay", "listen", "ended"}]
      BY <2>2 DEF Connect
    <3> QED BY <2>2, <3>1, <3>2 DEF Connect
  <2>3. CASE Restart(b)
    BY <2>3 DEF Restart
  <2> QED BY <1>1, <2>1, <2>2, <2>3
<1>2. ASSUME NEW b \in Bridges, Replay(b) PROVE Types'
  <2>1. ASSUME NEW r \in replay[b], Send(b, r) PROVE toServer' \in [Bridges -> Seq(Requests)]
    BY <2>1 DEF Send
  <2>2. toServer' \in [Bridges -> Seq(Requests)]
    BY <1>2, <2>1 DEF Replay
  <2>3. replay' \in [Bridges -> SUBSET Requests]
    <3>1. CASE UNCHANGED replay
      BY <3>1
    <3>2. ASSUME NEW r \in replay[b], replay' = [replay EXCEPT ![b] = @ \ {r}] PROVE replay' \in [Bridges -> SUBSET Requests]
      BY <3>2, SetsTyped
    <3> QED BY <1>2, <3>1, <3>2 DEF Replay
  <2>4. phase' \in [Bridges -> {"down", "offline", "replay", "listen", "ended"}]
    BY <1>2 DEF Replay
  <2> QED BY <1>2, <2>2, <2>3, <2>4 DEF Replay
<1>3. ASSUME NEW b \in Bridges, NEW r \in Requests, ResendResult(b, r) PROVE Types'
  <2>1. toServer' \in [Bridges -> Seq(Requests)]
    BY <1>3 DEF ResendResult, Send
  <2>2. toAgent' \in [Bridges -> Seq(Messages)]
    BY <1>3, TailShifts DEF ResendResult, Receives
  <2> QED BY <1>3, <2>1, <2>2 DEF ResendResult
<1>4. ASSUME NEW b \in Bridges, NEW r \in Requests, StartHandler(b, r) PROVE Types'
  BY <1>4, TailShifts DEF StartHandler, Receives, Handlers
<1>5. ASSUME NEW b \in Bridges, NEW r \in Requests, IgnoreDuplicate(b, r) PROVE Types'
  BY <1>5, TailShifts DEF IgnoreDuplicate, Receives
<1>6. ASSUME NEW b \in Bridges, NEW r \in Requests, ReceiveAck(b, r) PROVE Types'
  <2>1. outbox' \in [Bridges -> SUBSET Requests] /\ outbox'[b] \subseteq Requests
    BY <1>6 DEF ReceiveAck
  <2>2. CASE Disconnect(b, "offline")
    BY <1>6, <2>1, <2>2 DEF ReceiveAck, Disconnect
  <2>3. CASE toAgent' = [toAgent EXCEPT ![b] = Tail(@)] /\ UNCHANGED <<phase, replay, toServer>>
    <3>1. toAgent' \in [Bridges -> Seq(Messages)]
      BY <1>6, <2>3, TailShifts DEF ReceiveAck
    <3>2. disk' \subseteq Requests /\ failedSaves' \in Nat
      BY <1>6, <2>1 DEF ReceiveAck
    <3>3. UNCHANGED <<conn, running, handler, answered, executed, lostRuns>>
      BY <1>6 DEF ReceiveAck
    <3> QED BY <2>1, <2>3, <3>1, <3>2, <3>3
  <2> QED BY <1>6, <2>2, <2>3 DEF ReceiveAck
<1>7. ASSUME NEW b \in Bridges, Drop(b) \/ AuthLost(b) \/ Stop(b) PROVE Types'
  <2>1. ASSUME NEW p \in {"offline", "ended"}, Disconnect(b, p)
        PROVE  /\ phase' \in [Bridges -> {"down", "offline", "replay", "listen", "ended"}]
               /\ replay' \in [Bridges -> SUBSET Requests]
               /\ toServer' \in [Bridges -> Seq(Requests)]
               /\ toAgent' \in [Bridges -> Seq(Messages)]
    BY <2>1 DEF Disconnect
  <2>2. CASE Drop(b) \/ Stop(b)
    BY <2>1, <2>2 DEF Drop, Stop
  <2>3. CASE AuthLost(b)
    BY <2>3 DEF AuthLost
  <2> QED BY <1>7, <2>2, <2>3
<1>8. ASSUME NEW b \in Bridges, Accept(b) PROVE Types'
  <2>1. Head(toServer[b]) \in Requests
    BY <1>8 DEF Accept
  <2> DEFINE m == Ack(Head(toServer[b]))
  <2>2. m \in Messages
    BY <2>1 DEF Ack, Messages
  <2>3. toAgent' = [toAgent EXCEPT ![b] = Append(@, m)]
    BY <1>8 DEF Accept
  <2> HIDE DEF m
  <2>4. toAgent' \in [Bridges -> Seq(Messages)]
    BY <2>2, <2>3
  <2>5. toServer' \in [Bridges -> Seq(Requests)]
    BY <1>8, TailShifts DEF Accept
  <2> QED BY <1>8, <2>1, <2>4, <2>5 DEF Accept
<1>9. ASSUME NEW r \in Requests, Execute(r) \/ Record(r) \/ Finish(r) PROVE Types'
  <2>1. handler' \in [Requests -> Handlers]
    BY <1>9, HandlerMoves
  <2>2. CASE Execute(r)
    <3>1. executed' \in [Requests -> Nat]
      BY <2>2 DEF Execute
    <3> QED BY <2>1, <2>2, <3>1 DEF Execute
  <2>3. CASE Record(r)
    <3>1. outbox' \in [Bridges -> SUBSET Requests] /\ outbox'[Home[r]] \subseteq Requests
      BY <2>3 DEF Record
    <3>2. disk' \subseteq Requests /\ failedSaves' \in Nat
      BY <2>3, <3>1 DEF Record
    <3> QED BY <2>1, <2>3, <3>1, <3>2 DEF Record
  <2>4. CASE Finish(r)
    <3>1. running' \in [Bridges -> SUBSET Requests]
      BY <2>4 DEF Finish
    <3> QED BY <2>1, <2>4, <3>1 DEF Finish
  <2> QED BY <1>9, <2>2, <2>3, <2>4
<1>10. ASSUME NEW r \in Requests, SendResult(r) PROVE Types'
  <2>1. handler' \in [Requests -> Handlers] /\ running' \in [Bridges -> SUBSET Requests]
    BY <1>10, HandlerMoves
  <2>3. toServer' \in [Bridges -> Seq(Requests)]
    <3>1. CASE UNCHANGED toServer
      BY <3>1
    <3>2. CASE Send(Home[r], r)
      BY <3>2 DEF Send
    <3> QED BY <1>10, <3>1, <3>2 DEF SendResult
  <2> QED BY <1>10, <2>1, <2>3 DEF SendResult
<1>11. ASSUME NEW r \in Requests, Deliver(r) PROVE Types'
  <2> DEFINE m == Request(r)
  <2>1. m \in Messages
    BY DEF Request, Messages
  <2>2. toAgent' = [toAgent EXCEPT ![Home[r]] = Append(@, m)]
    BY <1>11 DEF Deliver
  <2> HIDE DEF m
  <2>3. toAgent' \in [Bridges -> Seq(Messages)]
    BY <2>1, <2>2
  <2> QED BY <1>11, <2>3 DEF Deliver
<1>12. CASE Crash
  BY <1>12 DEF Crash, NoHandler, Handlers
<1>13. CASE UNCHANGED vars
  BY <1>13 DEF vars
<1> QED
  BY <1>1, <1>2, <1>3, <1>4, <1>5, <1>6, <1>7, <1>8, <1>9, <1>10, <1>11, <1>12, <1>13
     DEF Next, BridgeStep, HandlerStep

LEMMA StepHandlersRun == Types /\ Queues /\ HandlersRun /\ [Next]_vars => HandlersRun'
<1> SUFFICES ASSUME Types, Queues, HandlersRun, [Next]_vars PROVE HandlersRun'
  OBVIOUS
<1> USE RemoteAgentAssumption DEF Types, HandlersRun, link, server, faults
<1>1. ASSUME NEW b \in Bridges, Register(b) \/ Connect(b) \/ Restart(b) \/ Replay(b) PROVE HandlersRun'
  BY <1>1 DEF Register, Connect, Restart, Replay
<1>2. ASSUME NEW b \in Bridges, NEW r \in Requests, ResendResult(b, r) \/ IgnoreDuplicate(b, r) PROVE HandlersRun'
  BY <1>2 DEF ResendResult, IgnoreDuplicate
<1>3. ASSUME NEW b \in Bridges, NEW r \in Requests, StartHandler(b, r) PROVE HandlersRun'
  <2>1. toAgent[b] # <<>> /\ Head(toAgent[b]) = [type |-> "rpc_request", id |-> r]
    BY <1>3 DEF StartHandler, Receives
  <2>2. toAgent[b] \in Seq(Messages)
    OBVIOUS
  <2>3. 1 \in DOMAIN toAgent[b] /\ toAgent[b][1] = [type |-> "rpc_request", id |-> r]
    BY <2>1, <2>2, TailShifts
  <2>4. b = Home[r]
    BY <2>3, toAgent[b][1].type = "rpc_request", toAgent[b][1].id = r DEF Queues
  <2> QED BY <1>3, <2>4 DEF StartHandler, Receives
<1>4. ASSUME NEW b \in Bridges, NEW r \in Requests, ReceiveAck(b, r) PROVE HandlersRun'
  BY <1>4 DEF ReceiveAck, Disconnect
<1>5. ASSUME NEW b \in Bridges, Drop(b) \/ AuthLost(b) \/ Stop(b) PROVE HandlersRun'
  BY <1>5 DEF Drop, AuthLost, Stop, Disconnect
<1>6. ASSUME NEW b \in Bridges, Accept(b) PROVE HandlersRun'
  BY <1>6 DEF Accept
<1>7. ASSUME NEW r \in Requests, Execute(r) \/ Record(r) \/ SendResult(r) \/ Finish(r) PROVE HandlersRun'
  BY <1>7, HandlerMoves
<1>8. ASSUME NEW r \in Requests, Deliver(r) PROVE HandlersRun'
  BY <1>8 DEF Deliver
<1>9. CASE Crash
  BY <1>9 DEF Crash, NoHandler, Handlers
<1>10. CASE UNCHANGED vars
  BY <1>10 DEF vars
<1> QED
  BY <1>1, <1>2, <1>3, <1>4, <1>5, <1>6, <1>7, <1>8, <1>9, <1>10 DEF Next, BridgeStep, HandlerStep

-----------------------------------------------------------------------------
\* What a step does to the messages for a bridge.
Same(b)      == toAgent'[b] = toAgent[b]
Cleared(b)   == toAgent'[b] = <<>>
Taken(b)     == toAgent[b] # <<>> /\ toAgent'[b] = Tail(toAgent[b])
Acked(b)     == \E r \in answered' : r \in Requests /\ toAgent'[b] = Append(toAgent[b], Ack(r))
Asked(b)     == \E r \in Requests \ answered :
                   b = Home[r] /\ toAgent'[b] = Append(toAgent[b], Request(r)) /\ phase[b] # "down"

LEMMA ChannelMoves ==
    ASSUME Types, [Next]_vars
    PROVE  /\ answered \subseteq answered'
           /\ \A b \in Bridges : Same(b) \/ Cleared(b) \/ Taken(b) \/ Acked(b) \/ Asked(b)
<1> DEFINE Goal == /\ answered \subseteq answered'
                   /\ \A b \in Bridges : Same(b) \/ Cleared(b) \/ Taken(b) \/ Acked(b) \/ Asked(b)
<1> USE RemoteAgentAssumption DEF link, server, faults, Same
<1>0. ASSUME UNCHANGED <<toAgent, answered>> PROVE Goal
  BY <1>0
<1>1. ASSUME NEW b \in Bridges, Register(b) \/ Connect(b) \/ Restart(b) \/ Replay(b) \/ AuthLost(b) PROVE Goal
  BY <1>0, <1>1 DEF Register, Connect, Restart, Replay, AuthLost
<1>2. ASSUME NEW b \in Bridges, NEW r \in Requests, NEW type \in {"rpc_request", "rpc_ack"},
             Receives(b, type, r), UNCHANGED answered
      PROVE  Goal
  BY <1>2 DEF Receives, Taken, Types
<1>3. ASSUME NEW b \in Bridges, NEW p \in {"offline", "ended"}, Disconnect(b, p), UNCHANGED answered PROVE Goal
  BY <1>3 DEF Disconnect, Cleared, Types
<1>4. ASSUME NEW b \in Bridges, NEW r \in Requests,
             ResendResult(b, r) \/ StartHandler(b, r) \/ IgnoreDuplicate(b, r)
      PROVE  Goal
  BY <1>2, <1>4 DEF ResendResult, StartHandler, IgnoreDuplicate
<1>5. ASSUME NEW b \in Bridges, NEW r \in Requests, ReceiveAck(b, r) PROVE Goal
  <2>1. CASE toAgent' = [toAgent EXCEPT ![b] = Tail(@)]
    BY <1>5, <2>1 DEF ReceiveAck, Taken, Types
  <2>2. CASE Disconnect(b, "offline")
    BY <1>3, <1>5, <2>2 DEF ReceiveAck
  <2> QED BY <1>5, <2>1, <2>2 DEF ReceiveAck
<1>6. ASSUME NEW b \in Bridges, Drop(b) \/ Stop(b) PROVE Goal
  BY <1>3, <1>6 DEF Drop, Stop
<1>7. ASSUME NEW b \in Bridges, Accept(b) PROVE Goal
  <2> DEFINE r == Head(toServer[b])
  <2>1. r \in Requests /\ r \in answered' /\ answered \subseteq answered'
    BY <1>7 DEF Accept, Types
  <2>2. toAgent' = [toAgent EXCEPT ![b] = Append(@, Ack(r))]
    BY <1>7 DEF Accept
  <2> HIDE DEF r
  <2>3. Acked(b)
    BY <2>1, <2>2 DEF Acked, Types
  <2>4. \A c \in Bridges \ {b} : Same(c)
    BY <2>2 DEF Types
  <2> QED BY <2>1, <2>3, <2>4
<1>8. ASSUME NEW r \in Requests, HandlerStep(r) PROVE Goal
  BY <1>0, <1>8 DEF HandlerStep, Execute, Record, SendResult, Finish
<1>9. ASSUME NEW r \in Requests, Deliver(r) PROVE Goal
  <2>1. /\ toAgent' = [toAgent EXCEPT ![Home[r]] = Append(@, Request(r))]
        /\ r \notin answered /\ Live(Home[r]) /\ UNCHANGED answered
    BY <1>9 DEF Deliver
  <2>2. Asked(Home[r])
    BY <2>1 DEF Asked, Types, Live
  <2>3. \A c \in Bridges \ {Home[r]} : Same(c)
    BY <2>1 DEF Types
  <2> QED BY <2>1, <2>2, <2>3
<1>10. CASE Crash
  BY <1>10 DEF Crash, Cleared
<1>11. CASE UNCHANGED vars
  BY <1>0, <1>11 DEF vars
<1> QED
  BY <1>1, <1>4, <1>5, <1>6, <1>7, <1>8, <1>9, <1>10, <1>11 DEF Next, BridgeStep

LEMMA StepQueues == Types /\ Queues /\ [Next]_vars => Queues'
<1> SUFFICES ASSUME Types, Queues, [Next]_vars, NEW b \in Bridges, NEW i \in DOMAIN toAgent'[b]
             PROVE  /\ toAgent'[b][i].type = "rpc_request" => b = Home[toAgent'[b][i].id]
                    /\ toAgent'[b][i].type = "rpc_ack" =>
                         /\ toAgent'[b][i].id \in answered'
                         /\ \A j \in DOMAIN toAgent'[b] : i < j => toAgent'[b][j] # Request(toAgent'[b][i].id)
  BY DEF Queues, Request
<1> DEFINE old == toAgent[b]
           new == toAgent'[b]
<1>1. old \in Seq(Messages) /\ answered \subseteq answered'
  BY ChannelMoves DEF Types
<1>2. Same(b) \/ Cleared(b) \/ Taken(b) \/ Acked(b) \/ Asked(b)
  BY ChannelMoves
<1>3. \A k \in DOMAIN old :
        /\ old[k].type = "rpc_request" => b = Home[old[k].id]
        /\ old[k].type = "rpc_ack" =>
             /\ old[k].id \in answered
             /\ \A j \in DOMAIN old : k < j => old[j] # Request(old[k].id)
  BY DEF Queues
<1>4. CASE Same(b)
  BY <1>1, <1>3, <1>4 DEF Same
<1>5. CASE Cleared(b)
  BY <1>5 DEF Cleared
<1>6. CASE Taken(b)
  <2>1. \A k \in DOMAIN new : k \in Nat /\ k + 1 \in DOMAIN old /\ new[k] = old[k + 1]
    BY <1>1, <1>6, TailShifts DEF Taken
  <2> HIDE DEF old, new
  <2> QED BY <1>1, <1>3, <2>1 DEF new
<1>7. CASE Acked(b)
  <2>1. PICK r \in answered' : r \in Requests /\ new = Append(old, Ack(r))
    BY <1>7 DEF Acked
  <2>2. Ack(r) \in Messages /\ Ack(r).type = "rpc_ack" /\ Ack(r).id = r
    BY <2>1 DEF Ack, Messages
  <2>3. ASSUME NEW q PROVE Ack(r) # Request(q)
    BY <2>2, Request(q).type = "rpc_request" DEF Request
  <2>4. \A k \in DOMAIN new : \/ k \in DOMAIN old /\ new[k] = old[k] /\ k < Len(old) + 1
                              \/ k = Len(old) + 1 /\ new[k] = Ack(r)
    <3> DEFINE m == Ack(r)
    <3>1. m \in Messages /\ new = Append(old, m)
      BY <2>1, <2>2
    <3> HIDE DEF m, old, new
    <3>2. \A k \in DOMAIN new : \/ k \in DOMAIN old /\ new[k] = old[k] /\ k < Len(old) + 1
                                \/ k = Len(old) + 1 /\ new[k] = m
      BY <1>1, <3>1, AppendKeeps
    <3> QED BY <3>2 DEF m
  <2>5. \A k \in DOMAIN old : k \in Nat /\ k < Len(old) + 1
    BY <1>1
  <2> HIDE DEF old, new
  <2> QED BY <1>1, <1>3, <2>1, <2>2, <2>3, <2>4, <2>5 DEF new
<1>8. CASE Asked(b)
  <2>1. PICK r \in Requests \ answered : b = Home[r] /\ new = Append(old, Request(r))
    BY <1>8 DEF Asked
  <2>2. Request(r) \in Messages /\ Request(r).type = "rpc_request" /\ Request(r).id = r
        /\ \A q : Request(r) = Request(q) => q = r
    BY DEF Messages, Request
  <2>3. \A k \in DOMAIN new : \/ k \in DOMAIN old /\ new[k] = old[k] /\ k < Len(old) + 1
                              \/ k = Len(old) + 1 /\ new[k] = Request(r)
    <3> DEFINE m == Request(r)
    <3>1. m \in Messages /\ new = Append(old, m)
      BY <2>1, <2>2
    <3> HIDE DEF m, old, new
    <3>2. \A k \in DOMAIN new : \/ k \in DOMAIN old /\ new[k] = old[k] /\ k < Len(old) + 1
                                \/ k = Len(old) + 1 /\ new[k] = m
      BY <1>1, <3>1, AppendKeeps
    <3> QED BY <3>2 DEF m
  <2>4. \A k \in DOMAIN old : k \in Nat /\ k < Len(old) + 1
    BY <1>1
  <2> HIDE DEF old, new
  <2> QED BY <1>1, <1>3, <2>1, <2>2, <2>3, <2>4 DEF new
<1> QED BY <1>2, <1>4, <1>5, <1>6, <1>7, <1>8

LEMMA StepDownIsSilent == Types /\ DownIsSilent /\ [Next]_vars => DownIsSilent'
<1> SUFFICES ASSUME Types, DownIsSilent, [Next]_vars PROVE DownIsSilent'
  OBVIOUS
<1> USE RemoteAgentAssumption DEF Types, DownIsSilent, link, server, faults
<1>1. ASSUME NEW b \in Bridges, Register(b) \/ Connect(b) \/ Restart(b) \/ Replay(b) \/ AuthLost(b) PROVE DownIsSilent'
  BY <1>1 DEF Register, Connect, Restart, Replay, AuthLost
<1>2. ASSUME NEW b \in Bridges, NEW r \in Requests,
             ResendResult(b, r) \/ StartHandler(b, r) \/ IgnoreDuplicate(b, r)
      PROVE  DownIsSilent'
  BY <1>2 DEF ResendResult, StartHandler, IgnoreDuplicate, Receives
<1>3. ASSUME NEW b \in Bridges, NEW r \in Requests, ReceiveAck(b, r) PROVE DownIsSilent'
  BY <1>3 DEF ReceiveAck, Disconnect
<1>4. ASSUME NEW b \in Bridges, Drop(b) \/ Stop(b) PROVE DownIsSilent'
  BY <1>4 DEF Drop, Stop, Disconnect
<1>5. ASSUME NEW b \in Bridges, Accept(b) PROVE DownIsSilent'
  BY <1>5 DEF Accept, Live
<1>6. ASSUME NEW r \in Requests, HandlerStep(r) PROVE DownIsSilent'
  BY <1>6 DEF HandlerStep, Execute, Record, SendResult, Finish
<1>7. ASSUME NEW r \in Requests, Deliver(r) PROVE DownIsSilent'
  BY <1>7 DEF Deliver, Live
<1>8. CASE Crash
  BY <1>8 DEF Crash
<1>9. CASE UNCHANGED vars
  BY <1>9 DEF vars
<1> QED
  BY <1>1, <1>2, <1>3, <1>4, <1>5, <1>6, <1>7, <1>8, <1>9 DEF Next, BridgeStep

-----------------------------------------------------------------------------
\* A request is in the queue because it was, or because the server, which has
\* no result of it, asks a bridge that is up.
LEMMA RequestsAreAsked ==
    ASSUME Types, [Next]_vars, NEW q \in Requests, Requested(q)'
    PROVE  Requested(q) \/ (q \notin answered /\ phase[Home[q]] # "down")
<1> DEFINE b == Home[q]
           old == toAgent[b]
           new == toAgent'[b]
<1>1. b \in Bridges /\ old \in Seq(Messages)
  BY RemoteAgentAssumption DEF Types
<1>2. Same(b) \/ Cleared(b) \/ Taken(b) \/ Acked(b) \/ Asked(b)
  BY <1>1, ChannelMoves
<1>3. PICK i \in DOMAIN new : new[i] = Request(q)
  BY DEF Requested
<1>4. Requested(q) <=> \E j \in DOMAIN old : old[j] = Request(q)
  BY DEF Requested
<1>5. CASE Same(b)
  BY <1>3, <1>4, <1>5 DEF Same
<1>6. CASE Cleared(b)
  BY <1>3, <1>6 DEF Cleared
<1>7. CASE Taken(b)
  <2>1. i + 1 \in DOMAIN old /\ new[i] = old[i + 1]
    BY <1>1, <1>3, <1>7, TailShifts DEF Taken
  <2> QED BY <1>3, <1>4, <2>1
<1>8. CASE Acked(b)
  <2>1. PICK r \in answered' : r \in Requests /\ new = Append(old, Ack(r))
    BY <1>8 DEF Acked
  <2> DEFINE m == Ack(r)
  <2>2. m \in Messages /\ m # Request(q)
    BY <2>1, Ack(r).type = "rpc_ack", Request(q).type = "rpc_request" DEF Ack, Request, Messages
  <2>3. new = Append(old, m)
    BY <2>1
  <2> HIDE DEF m, old, new
  <2>4. i \in DOMAIN old /\ old[i] = new[i]
    BY <1>1, <1>3, <2>2, <2>3, AppendKeeps
  <2> QED BY <1>3, <1>4, <2>4
<1>9. CASE Asked(b)
  <2>1. PICK r \in Requests \ answered : phase[b] # "down" /\ new = Append(old, Request(r))
    BY <1>9 DEF Asked
  <2> DEFINE m == Request(r)
  <2>2. m \in Messages /\ (m = Request(q) => r = q)
    BY DEF Request, Messages
  <2>3. new = Append(old, m)
    BY <2>1
  <2> HIDE DEF m, old, new
  <2>4. (i \in DOMAIN old /\ old[i] = new[i]) \/ new[i] = m
    BY <1>1, <1>3, <2>2, <2>3, AppendKeeps
  <2> QED BY <1>3, <1>4, <2>1, <2>2, <2>4
<1> QED BY <1>2, <1>5, <1>6, <1>7, <1>8, <1>9

\* What a step must leave of a request's result.
LEMMA KeepsRun ==
    ASSUME Types, [Next]_vars, NEW q \in Requests, RunOk(q),
           executed'[q] = executed[q], lostRuns'[q] = lostRuns[q],
           \A c \in Bridges : phase'[c] = "down" <=> phase[c] = "down",
           \A c \in Bridges : q \in outbox[c] => q \in outbox'[c],
           handler'[q].pc = "execute" => handler[q].pc = "execute",
           handler[q].pc = "record" => handler'[q].pc = "record" \/ q \in outbox'[Home[q]],
           q \in disk /\ (\A c \in Bridges : phase[c] # "down" => q \in outbox[c]) => q \in disk'
    PROVE  RunOk(q)'
<1>1. answered \subseteq answered' /\ Home[q] \in Bridges
  BY ChannelMoves, RemoteAgentAssumption
<1>2. (Unlost(q)' <=> Unlost(q)) /\ (InHand(q) => InHand(q)')
  BY <1>1 DEF Unlost, InHand
<1>3. Held(q) => Held(q)'
  BY <1>1, <1>2 DEF Held
<1>4. Unlost(q)' /\ Requested(q)' => InHand(q)'
  BY <1>2, RequestsAreAsked DEF RunOk, Held
<1> QED BY <1>2, <1>3, <1>4 DEF RunOk

\* The request at the head of a bridge's queue is one of its own.
LEMMA HeadIsOwn ==
    ASSUME Types, Queues, NEW b \in Bridges, NEW r \in Requests, Receives(b, "rpc_request", r)
    PROVE  b = Home[r] /\ Requested(r)
<1>1. /\ toAgent[b] # <<>> /\ toAgent[b] \in Seq(Messages)
      /\ Head(toAgent[b]) = [type |-> "rpc_request", id |-> r]
  BY DEF Receives, Types
<1>2. 1 \in DOMAIN toAgent[b] /\ toAgent[b][1] = [type |-> "rpc_request", id |-> r]
  BY <1>1, TailShifts
<1>3. b = Home[r]
  BY <1>2, toAgent[b][1].type = "rpc_request", toAgent[b][1].id = r DEF Queues
<1> QED BY <1>2, <1>3 DEF Requested, Request

\* An acknowledged request has its result at the server and is not asked again.
LEMMA AckSettles ==
    ASSUME Types, Queues, NEW b \in Bridges, NEW r \in Requests, ReceiveAck(b, r)
    PROVE  r \in answered /\ (b = Home[r] => ~Requested(r)')
<1> DEFINE old == toAgent[b]
           new == toAgent'[b]
<1>1. old \in Seq(Messages) /\ old # <<>> /\ Head(old) = Ack(r)
  BY DEF ReceiveAck, Types
<1>2. 1 \in DOMAIN old /\ old[1] = Ack(r)
  BY <1>1, TailShifts
<1>3. Ack(r).type = "rpc_ack" /\ Ack(r).id = r
  BY DEF Ack
<1>4. r \in answered /\ \A j \in DOMAIN old : 1 < j => old[j] # Request(r)
  BY <1>2, <1>3 DEF Queues
<1>5. \A i \in DOMAIN new : new[i] # Request(r)
  <2>1. CASE toAgent' = [toAgent EXCEPT ![b] = Tail(@)]
    <3>1. new = Tail(old)
      BY <2>1 DEF Types
    <3>2. \A i \in DOMAIN new : i \in Nat \ {0} /\ i + 1 \in DOMAIN old /\ new[i] = old[i + 1]
      BY <1>1, <3>1, TailShifts
    <3> HIDE DEF old, new
    <3>3. \A i \in DOMAIN new : 1 < i + 1
      BY <3>2
    <3> QED BY <1>4, <3>2, <3>3
  <2>2. CASE Disconnect(b, "offline")
    BY <2>2 DEF Disconnect, Types
  <2> QED BY <2>1, <2>2 DEF ReceiveAck
<1> QED BY <1>4, <1>5 DEF Requested

LEMMA StepRuns == IInv /\ [Next]_vars => Runs'
<1> SUFFICES ASSUME Types, HandlersRun, Queues, DownIsSilent, Runs, [Next]_vars, NEW q \in Requests
             PROVE  RunOk(q)'
  BY DEF IInv, Runs
<1>0. RunOk(q) /\ Home[q] \in Bridges
  BY RemoteAgentAssumption DEF Runs
<1> USE DEF link, server, faults
<1>1. ASSUME NEW b \in Bridges, Register(b) \/ Connect(b) \/ Replay(b) \/ AuthLost(b) PROVE RunOk(q)'
  <2>1. UNCHANGED <<outbox, handler, disk, executed, lostRuns>>
    BY <1>1 DEF Register, Connect, Replay, AuthLost
  <2>2. \A c \in Bridges : phase'[c] = "down" <=> phase[c] = "down"
    BY <1>1 DEF Register, Connect, Replay, AuthLost, Types
  <2> QED BY <1>0, <2>1, <2>2, KeepsRun
<1>2. ASSUME NEW b \in Bridges, Drop(b) \/ Stop(b) PROVE RunOk(q)'
  <2>1. UNCHANGED <<outbox, handler, disk, executed, lostRuns>>
    BY <1>2 DEF Drop, Stop
  <2>2. \A c \in Bridges : phase'[c] = "down" <=> phase[c] = "down"
    BY <1>2 DEF Drop, Stop, Disconnect, Live, Types
  <2> QED BY <1>0, <2>1, <2>2, KeepsRun
<1>3. ASSUME NEW b \in Bridges, NEW r \in Requests, ResendResult(b, r) \/ IgnoreDuplicate(b, r) PROVE RunOk(q)'
  <2>1. UNCHANGED <<phase, outbox, handler, disk, executed, lostRuns>>
    BY <1>3 DEF ResendResult, IgnoreDuplicate
  <2> QED BY <1>0, <2>1, KeepsRun
<1>4. ASSUME NEW b \in Bridges, Accept(b) PROVE RunOk(q)'
  <2>1. UNCHANGED <<phase, outbox, handler, disk, executed, lostRuns>>
    BY <1>4 DEF Accept
  <2> QED BY <1>0, <2>1, KeepsRun
<1>5. ASSUME NEW r \in Requests, Deliver(r) PROVE RunOk(q)'
  <2>1. UNCHANGED <<phase, outbox, handler, disk, executed, lostRuns>>
    BY <1>5 DEF Deliver
  <2> QED BY <1>0, <2>1, KeepsRun
<1>6. ASSUME NEW r \in Requests, SendResult(r) \/ Finish(r) PROVE RunOk(q)'
  <2>1. UNCHANGED <<phase, outbox, disk, executed, lostRuns>>
    BY <1>6 DEF SendResult, Finish
  <2>2. /\ handler[r].pc \in {"send", "sync"}
        /\ handler' = [handler EXCEPT ![r].pc = "sync"] \/ handler' = [handler EXCEPT ![r] = NoHandler]
    BY <1>6 DEF SendResult, Finish
  <2>3. handler'[q].pc = handler[q].pc \/ (handler[q].pc \in {"send", "sync"} /\ handler'[q].pc \in {"sync", "none"})
    <3>1. handler \in [Requests -> Handlers]
      BY DEF Types
    <3>2. CASE q # r
      BY <2>2, <3>1, <3>2, HandlerTyped
    <3>3. CASE q = r
      <4>1. handler'[r].pc \in {"sync", "none"}
        <5>1. CASE handler' = [handler EXCEPT ![r].pc = "sync"]
          BY <3>1, <5>1, HandlerTyped
        <5>2. CASE handler' = [handler EXCEPT ![r] = NoHandler]
          BY <3>1, <5>2, HandlerTyped
        <5> QED BY <2>2, <5>1, <5>2
      <4> QED BY <2>2, <3>3, <4>1
    <3> QED BY <3>2, <3>3
  <2> QED BY <1>0, <2>1, <2>3, KeepsRun
<1>7. CASE UNCHANGED vars
  <2>1. UNCHANGED <<phase, outbox, handler, disk, executed, lostRuns>>
    BY <1>7 DEF vars
  <2> QED BY <1>0, <2>1, KeepsRun
<1>8. ASSUME NEW b \in Bridges, NEW r \in Requests, StartHandler(b, r) PROVE RunOk(q)'
  <2>1. UNCHANGED <<phase, outbox, disk, executed, lostRuns>>
    BY <1>8 DEF StartHandler
  <2>2. handler' = [handler EXCEPT ![r] = [pc |-> "execute", sock |-> conn[b]]]
    BY <1>8 DEF StartHandler
  <2>3. CASE q # r
    <3>1. handler'[q] = handler[q]
      BY <2>2, <2>3 DEF Types
    <3> QED BY <1>0, <2>1, <3>1, KeepsRun
  <2>4. CASE q = r
    <3>1. b = Home[q] /\ Requested(q)
      BY <1>8, <2>4, HeadIsOwn DEF StartHandler
    <3>2. q \notin outbox[b] /\ q \notin running[b]
      BY <1>8, <2>4 DEF StartHandler, IsNew
    <3>3. ~InHand(q)
      BY <3>1, <3>2 DEF InHand, HandlersRun
    <3>4. ~Unlost(q)
      BY <1>0, <3>1, <3>3 DEF RunOk
    <3>5. ~Unlost(q)'
      BY <2>1, <3>4 DEF Unlost
    <3> QED BY <1>0, <2>1, <3>5 DEF RunOk
  <2> QED BY <2>3, <2>4
<1>9. ASSUME NEW r \in Requests, Execute(r) PROVE RunOk(q)'
  <2>1. UNCHANGED <<phase, outbox, disk, lostRuns>>
    BY <1>9 DEF Execute
  <2>2. handler[r].pc = "execute" /\ handler' = [handler EXCEPT ![r].pc = "record"]
    BY <1>9 DEF Execute
  <2>3. executed' = [executed EXCEPT ![r] = @ + 1]
    BY <1>9 DEF Execute
  <2>4. CASE q # r
    <3>1. handler'[q] = handler[q] /\ executed'[q] = executed[q]
      BY <2>2, <2>3, <2>4, HandlerTyped DEF Types
    <3> QED BY <1>0, <2>1, <3>1, KeepsRun
  <2>5. CASE q = r
    <3>1. handler'[q].pc = "record" /\ phase'[Home[q]] # "down"
      <4>1. handler'[r].pc = "record"
        BY <2>2, HandlerTyped DEF Types
      <4>2. phase[Home[q]] # "down"
        BY <2>2, <2>5 DEF HandlersRun
      <4> QED BY <2>1, <2>5, <4>1, <4>2
    <3>2. InHand(q)' /\ Held(q)'
      BY <3>1 DEF InHand, Held
    <3>3. ~(lostRuns[q] < executed[q]) /\ executed[q] \in Nat /\ lostRuns[q] \in Nat
      BY <1>0, <2>2, <2>5 DEF RunOk, Unlost, Types
    <3>4. executed'[q] = executed[q] + 1 /\ lostRuns'[q] = lostRuns[q]
      BY <2>1, <2>3, <2>5 DEF Types
    <3>5. executed'[q] <= 1 + lostRuns'[q]
      BY <3>3, <3>4
    <3> QED BY <3>1, <3>2, <3>5 DEF RunOk
  <2> QED BY <2>4, <2>5
<1>10. ASSUME NEW r \in Requests, Record(r) PROVE RunOk(q)'
  <2>1. UNCHANGED <<phase, executed, lostRuns>> /\ Home[r] \in Bridges
    BY <1>10, RemoteAgentAssumption DEF Record
  <2>2. handler[r].pc = "record" /\ outbox' = [outbox EXCEPT ![Home[r]] = @ \cup {r}]
    BY <1>10 DEF Record
  <2>3. handler' = [handler EXCEPT ![r].pc = "send"] \/ handler' = [handler EXCEPT ![r] = NoHandler]
    BY <1>10 DEF Record
  <2>4. disk' = outbox'[Home[r]] \/ UNCHANGED disk
    BY <1>10 DEF Record
  <2>5. phase[Home[r]] # "down"
    BY <2>2 DEF HandlersRun
  <2>6. \A c \in Bridges : q \in outbox[c] => q \in outbox'[c]
    BY <2>1, <2>2 DEF Types
  <2>7. q \in disk /\ (\A c \in Bridges : phase[c] # "down" => q \in outbox[c]) => q \in disk'
    BY <2>1, <2>4, <2>5, <2>6
  <2>8. \/ handler'[q] = handler[q]
        \/ handler'[q].pc \in {"send", "none"} /\ q \in outbox'[Home[q]]
    <3>1. handler \in [Requests -> Handlers]
      BY DEF Types
    <3>2. CASE q # r
      BY <2>3, <3>1, <3>2, HandlerTyped
    <3>3. CASE q = r
      <4>1. handler'[r].pc \in {"send", "none"}
        <5>1. CASE handler' = [handler EXCEPT ![r].pc = "send"]
          BY <3>1, <5>1, HandlerTyped
        <5>2. CASE handler' = [handler EXCEPT ![r] = NoHandler]
          BY <3>1, <5>2, HandlerTyped
        <5> QED BY <2>3, <5>1, <5>2
      <4>2. r \in outbox'[Home[r]]
        BY <2>1, <2>2 DEF Types
      <4> QED BY <3>3, <4>1, <4>2
    <3> QED BY <3>2, <3>3
  <2> QED BY <1>0, <2>1, <2>6, <2>7, <2>8, KeepsRun
<1>11. ASSUME NEW b \in Bridges, NEW r \in Requests, ReceiveAck(b, r) PROVE RunOk(q)'
  <2>1. UNCHANGED <<handler, executed, lostRuns, answered>>
    BY <1>11 DEF ReceiveAck
  <2>2. phase[b] = "listen" /\ outbox' = [outbox EXCEPT ![b] = @ \ {r}]
    BY <1>11 DEF ReceiveAck
  <2>3. disk' = outbox'[b] \/ UNCHANGED disk
    BY <1>11 DEF ReceiveAck
  <2>4. \A c \in Bridges : phase'[c] = "down" <=> phase[c] = "down"
    BY <1>11, <2>2 DEF ReceiveAck, Disconnect, Types
  <2>5. CASE q # r
    <3>1. \A c \in Bridges : q \in outbox[c] => q \in outbox'[c]
      BY <2>2, <2>5 DEF Types
    <3>2. q \in disk /\ (\A c \in Bridges : phase[c] # "down" => q \in outbox[c]) => q \in disk'
      BY <2>2, <2>3, <3>1
    <3> QED BY <1>0, <2>1, <2>4, <3>1, <3>2, KeepsRun
  <2>6. CASE q = r
    <3>1. q \in answered' /\ (b = Home[q] => ~Requested(q)')
      BY <1>11, <2>1, <2>6, AckSettles
    <3>2. Held(q)' /\ (Unlost(q)' <=> Unlost(q))
      BY <2>1, <3>1 DEF Held, Unlost
    <3>3. CASE b # Home[q]
      <4>1. InHand(q)' <=> InHand(q)
        BY <1>0, <2>1, <2>2, <3>3 DEF InHand, Types
      <4>2. Requested(q)' => Requested(q)
        BY <2>1, <3>1, RequestsAreAsked
      <4> QED BY <1>0, <2>1, <3>2, <4>1, <4>2 DEF RunOk
    <3>4. CASE b = Home[q]
      BY <1>0, <2>1, <3>1, <3>2, <3>4 DEF RunOk
    <3> QED BY <3>3, <3>4
  <2> QED BY <2>5, <2>6
<1>12. ASSUME NEW b \in Bridges, Restart(b) PROVE RunOk(q)'
  <2>1. UNCHANGED <<handler, disk, toAgent, answered, executed, lostRuns>>
    BY <1>12 DEF Restart
  <2>2. phase[b] = "down" /\ phase' = [phase EXCEPT ![b] = "offline"] /\ outbox' = [outbox EXCEPT ![b] = disk]
    BY <1>12 DEF Restart
  <2>3. Unlost(q)' <=> Unlost(q)
    BY <2>1 DEF Unlost
  <2>4. CASE Home[q] = b
    <3>1. ~Requested(q)'
      BY <1>0, <2>1, <2>2, <2>4 DEF Requested, DownIsSilent
    <3>2. Held(q) => Held(q)'
      BY <1>0, <2>1, <2>2, <2>4 DEF Held, InHand, Types
    <3> QED BY <1>0, <2>1, <2>3, <3>1, <3>2 DEF RunOk
  <2>5. CASE Home[q] # b
    <3>1. InHand(q)' <=> InHand(q)
      BY <1>0, <2>1, <2>2, <2>5 DEF InHand, Types
    <3>2. phase'[Home[q]] = phase[Home[q]]
      BY <1>0, <2>2, <2>5 DEF Types
    <3>3. q \in disk /\ (\A c \in Bridges : phase[c] # "down" => q \in outbox[c])
            => \A c \in Bridges : phase'[c] # "down" => q \in outbox'[c]
      BY <2>2 DEF Types
    <3>4. Held(q) => Held(q)'
      BY <2>1, <3>1, <3>2, <3>3 DEF Held
    <3>5. Requested(q)' <=> Requested(q)
      BY <2>1 DEF Requested
    <3> QED BY <1>0, <2>1, <2>3, <3>1, <3>4, <3>5 DEF RunOk
  <2> QED BY <2>4, <2>5
<1>13. CASE Crash
  <2>1. UNCHANGED <<disk, answered, executed>>
    BY <1>13 DEF Crash
  <2>2. phase' = [b \in Bridges |-> "down"] /\ toAgent' = [b \in Bridges |-> <<>>]
    BY <1>13 DEF Crash
  <2>3. handler'[q].pc = "none" /\ ~Requested(q)'
    BY <1>0, <1>13 DEF Crash, NoHandler, Requested
  <2>4. lostRuns'[q] = IF q \notin disk /\ InHand(q) THEN lostRuns[q] + 1 ELSE lostRuns[q]
    BY <1>13 DEF Crash, InHand
  <2>5. executed[q] \in Nat /\ lostRuns[q] \in Nat /\ executed[q] <= 1 + lostRuns[q]
    BY <1>0 DEF RunOk, Types
  <2>6. executed'[q] <= 1 + lostRuns'[q]
    BY <2>1, <2>4, <2>5
  <2>7. CASE q \notin disk /\ InHand(q)
    <3>1. ~Unlost(q)'
      BY <2>1, <2>4, <2>5, <2>7 DEF Unlost
    <3> QED BY <2>3, <2>6, <3>1 DEF RunOk
  <2>8. CASE ~(q \notin disk /\ InHand(q))
    <3>1. Unlost(q)' => Unlost(q)
      BY <2>1, <2>4, <2>8 DEF Unlost
    <3>2. Held(q) => Held(q)'
      BY <1>0, <2>1, <2>2, <2>8 DEF Held
    <3> QED BY <1>0, <2>3, <2>6, <3>1, <3>2 DEF RunOk
  <2> QED BY <2>7, <2>8
<1> QED
  BY <1>1, <1>2, <1>3, <1>4, <1>5, <1>6, <1>7, <1>8, <1>9, <1>10, <1>11, <1>12, <1>13
     DEF Next, BridgeStep, HandlerStep

LEMMA Inductive == Spec => []IInv
<1>1. Init => IInv
  BY InitIInv
<1>2. IInv /\ [Next]_vars => IInv'
  BY StepTypes, StepHandlersRun, StepQueues, StepDownIsSilent, StepRuns DEF IInv
<1> QED BY <1>1, <1>2, PTL DEF Spec

(* However often the server asks again, over whatever connections and      *)
(* whatever fails, a request's command runs once, and once more only for   *)
(* each run whose result a crash took before the file had it.              *)
THEOREM OneRunAlways == Spec => []OneRunPerRequest
<1>1. IInv => OneRunPerRequest
  BY DEF IInv, Runs, RunOk, OneRunPerRequest
<1> QED BY <1>1, Inductive, PTL

-----------------------------------------------------------------------------
LEMMA StepFileIsOutbox ==
    ASSUME NEW b, Bridges = {b}, Types, HandlersRun, FileIsOutbox, [Next]_vars
    PROVE  FileIsOutbox'
<1> USE RemoteAgentAssumption DEF FileIsOutbox, link, server, faults
<1>1. CASE Register(b) \/ Connect(b) \/ Replay(b) \/ AuthLost(b) \/ Drop(b) \/ Stop(b) \/ Accept(b)
  <2>1. UNCHANGED <<outbox, disk, failedSaves>>
    BY <1>1 DEF Register, Connect, Replay, AuthLost, Drop, Stop, Accept
  <2>2. phase'[b] # "down" => phase[b] # "down"
    BY <1>1 DEF Register, Connect, Replay, AuthLost, Drop, Stop, Accept, Live
  <2> QED BY <2>1, <2>2
<1>2. ASSUME NEW r \in Requests,
             ResendResult(b, r) \/ StartHandler(b, r) \/ IgnoreDuplicate(b, r) \/ Deliver(r)
                \/ Execute(r) \/ SendResult(r) \/ Finish(r)
      PROVE  FileIsOutbox'
  BY <1>2 DEF ResendResult, StartHandler, IgnoreDuplicate, Deliver, Execute, SendResult, Finish
<1>3. ASSUME NEW r \in Requests, ReceiveAck(b, r) PROVE FileIsOutbox'
  BY <1>3 DEF ReceiveAck, Types
<1>4. ASSUME NEW r \in Requests, Record(r) PROVE FileIsOutbox'
  BY <1>4 DEF Record, Types, HandlersRun
<1>5. CASE Restart(b)
  BY <1>5 DEF Restart, Types
<1>6. CASE Crash
  BY <1>6 DEF Crash
<1>7. CASE UNCHANGED vars
  BY <1>7 DEF vars
<1> QED
  BY <1>1, <1>2, <1>3, <1>4, <1>5, <1>6, <1>7 DEF Next, BridgeStep, HandlerStep

(* One bridge: while no save has failed, a result that was recorded and    *)
(* that the server has not is in the file, whatever breaks or crashes.     *)
(* (Two bridges of a device replace the file by their own results.)        *)
THEOREM ResultsAlwaysSurvive ==
    ASSUME NEW b, Bridges = {b}
    PROVE  Spec => []ResultsSurvive
<1>1. Init => FileIsOutbox
  BY InitIInv
<1>2. IInv /\ FileIsOutbox /\ [Next]_vars => FileIsOutbox'
  BY StepFileIsOutbox DEF IInv
<1>3. IInv /\ FileIsOutbox => ResultsSurvive
  <2> SUFFICES ASSUME IInv, FileIsOutbox, failedSaves = 0, NEW r \in Requests,
                      executed[r] > lostRuns[r], r \notin answered, handler[r].pc # "record"
               PROVE  r \in disk
    BY DEF ResultsSurvive
  <2>1. Home[r] = b
    BY RemoteAgentAssumption
  <2>2. Unlost(r)
    BY DEF Unlost, IInv, Types
  <2>3. Held(r)
    BY <2>2 DEF IInv, Runs, RunOk
  <2> QED BY <2>1, <2>3 DEF Held, InHand, FileIsOutbox
<1> QED BY <1>1, <1>2, <1>3, Inductive, PTL DEF Spec

-----------------------------------------------------------------------------
(* The calls of a streamed answer.                                         *)

\* What the attempt has read of an item that a reply has once.
Read(item) == \E i \in DOMAIN reply : i < at /\ reply[i] = item
OneJson(text) == \A k, l \in DOMAIN text : text[k] = "json" /\ text[l] = "json" => k = l

StreamShape ==
    /\ reply \in Replies /\ at \in Nat \ {0}
    /\ content \in Seq(Text) /\ pending \in Seq(Text)
    /\ native \in {"none", "partial", "whole"} /\ textual \in Nat

\* A call in tags or in JSON was read once at most, by this attempt; the
\* arguments of half a call are still to come.
ReadOnce ==
    /\ textual \in {0, 1} /\ (textual = 1 => Read("markup"))
    /\ OneJson(content \o pending)
    /\ (\E k \in DOMAIN (content \o pending) : (content \o pending)[k] = "json") => Read("json")
    /\ native = "partial" => \E j \in DOMAIN reply : at <= j /\ reply[j] = "args"

CallInv ==
    /\ StreamShape
    /\ pc \in {"stream", "close"} => ReadOnce
    /\ finish = "corrupted" => bad
    /\ pc = "close" /\ finish = "stop" => native # "partial"
    /\ CallsAreOfThisReply

LEMMA InitCallInv == StreamInit => CallInv
<1> SUFFICES ASSUME StreamInit PROVE CallInv
  OBVIOUS
<1> QED BY DEF StreamInit, Fresh, CallInv, StreamShape, CallsAreOfThisReply

LEMMA ReplyOnce ==
    ASSUME reply \in Replies
    PROVE  /\ reply \in Seq(Items)
           /\ \A i, j \in DOMAIN reply : reply[i] = reply[j] /\ reply[i] \notin Letters => i = j
           /\ \A i \in DOMAIN reply : reply[i] = "call" => \E j \in DOMAIN reply : i < j /\ reply[j] = "args"
BY StreamAssumption

\* Nothing that was read is touched.
LEMMA NothingRead ==
    ASSUME CallInv, UNCHANGED <<reply, at, content, pending, native, textual>>,
           pc' \in {"stream", "close"} => pc \in {"stream", "close"},
           pc' # "done", finish' = "corrupted" => bad',
           pc' = "close" /\ finish' = "stop" => native # "partial"
    PROVE  CallInv'
<1>1. StreamShape'
  BY DEF CallInv, StreamShape
<1>2. pc' \in {"stream", "close"} => ReadOnce'
  BY DEF CallInv, ReadOnce, OneJson, Read
<1> QED BY <1>1, <1>2 DEF CallInv, CallsAreOfThisReply

\* Where a continuation goes on is somewhere in the reply.
Pointed == Retrying => Onward \in 1 .. Len(reply) + 1

LEMMA AskCalls == ASSUME CallInv, Pointed, Ask PROVE CallInv'
<1>1. at' \in Nat \ {0}
  <2>1. at' \in StartsAt
    BY DEF Ask
  <2>2. CASE Retrying
    <3>1. PICK o \in 1 .. Len(reply) + 1 : o = Onward
      BY <2>2 DEF Pointed
    <3>2. at' \in {o} \cup {i \in 1 .. o - 1 : reply[i] \in Text /\ Len(Says(i, o)) <= Overlap}
      BY <2>1, <2>2, <3>1 DEF StartsAt
    <3> QED BY <3>2
  <2>3. CASE ~Retrying
    BY <2>1, <2>3 DEF StartsAt
  <2> QED BY <2>2, <2>3
<1>2. StreamShape'
  BY <1>1 DEF CallInv, StreamShape, Ask
<1>3. content' \o pending' = <<>>
  BY DEF Ask
<1>4. ReadOnce'
  BY <1>3 DEF Ask, ReadOnce, OneJson
<1>5. pc' = "stream" /\ finish' = "none"
  BY DEF Ask
<1> QED BY <1>2, <1>4, <1>5 DEF CallInv, CallsAreOfThisReply

LEMMA Reading ==
    ASSUME CallInv, NEW item, Reads(item)
    PROVE  /\ pc = "stream" /\ pc' = "stream" /\ at' = at + 1 /\ at \in DOMAIN reply /\ reply[at] = item /\ ReadOnce
           /\ UNCHANGED <<reply, finish, bad>>
           /\ \A x : Read(x) => Read(x)'
           /\ Read(item)' /\ (item \notin Letters => ~Read(item))
           /\ (item # "args" /\ \E j \in DOMAIN reply : at <= j /\ reply[j] = "args")
                => \E j \in DOMAIN reply' : at' <= j /\ reply'[j] = "args"
<1>1. pc = "stream" /\ pc' = "stream" /\ at' = at + 1 /\ at <= Len(reply) /\ reply[at] = item /\ UNCHANGED <<reply, finish, bad>>
  BY DEF Reads
<1>2. ReadOnce /\ at \in Nat \ {0} /\ reply \in Seq(Items) /\ \A i, j \in DOMAIN reply : reply[i] = reply[j] /\ reply[i] \notin Letters => i = j
  BY <1>1, ReplyOnce DEF CallInv, StreamShape
<1>3. at \in DOMAIN reply /\ \A i \in DOMAIN reply : i \in Nat
  BY <1>1, <1>2
<1>4. \A i \in DOMAIN reply : (i < at => i < at + 1) /\ (at <= i /\ i # at => at + 1 <= i)
  BY <1>2, <1>3
<1>5. at < at + 1 /\ ~(at < at)
  BY <1>2
<1>6. \A x : Read(x) => Read(x)'
  BY <1>1, <1>4 DEF Read
<1>7. Read(item)' /\ (item \notin Letters => ~Read(item))
  BY <1>1, <1>2, <1>3, <1>5 DEF Read
<1>8. ASSUME item # "args", NEW j \in DOMAIN reply, at <= j, reply[j] = "args" PROVE at' <= j /\ reply'[j] = "args"
  BY <1>1, <1>4, <1>8
<1> QED BY <1>1, <1>2, <1>3, <1>6, <1>7, <1>8

LEMMA Joined ==
    ASSUME NEW S, NEW s \in Seq(S), NEW t \in Seq(S)
    PROVE  /\ s \o t \in Seq(S) /\ Len(s \o t) = Len(s) + Len(t)
           /\ \A k \in 1 .. Len(s) + Len(t) : (s \o t)[k] = IF k <= Len(s) THEN s[k] ELSE t[k - Len(s)]
OBVIOUS

\* The text is one item longer, wherever the held tail begins.
LEMMA Grows ==
    ASSUME NEW c \in Seq(Text), NEW p \in Seq(Text), NEW x \in Text, NEW n \in 0 .. Len(p) + 1
    PROVE  LET held == Append(p, x)
           IN  /\ c \o SubSeq(held, 1, n) \in Seq(Text) /\ SubSeq(held, n + 1, Len(held)) \in Seq(Text)
               /\ (c \o SubSeq(held, 1, n)) \o SubSeq(held, n + 1, Len(held)) = Append(c \o p, x)
<1> DEFINE held == Append(p, x)
           a == SubSeq(held, 1, n)
           b == SubSeq(held, n + 1, Len(held))
<1>1. held \in Seq(Text) /\ Len(held) = Len(p) + 1 /\ Len(p) \in Nat /\ Len(c) \in Nat /\ n \in Nat
  OBVIOUS
<1>2. \A k \in 1 .. Len(p) + 1 : held[k] = IF k = Len(p) + 1 THEN x ELSE p[k]
  OBVIOUS
<1> HIDE DEF held
<1>3. a \in Seq(Text) /\ Len(a) = n /\ \A k \in 1 .. n : a[k] = held[k]
  BY <1>1
<1>4. b \in Seq(Text) /\ Len(b) = Len(p) + 1 - n /\ \A k \in 1 .. Len(p) + 1 - n : b[k] = held[n + k]
  BY <1>1
<1> HIDE DEF a, b
<1> DEFINE d == c \o a
<1>5. d \in Seq(Text) /\ Len(d) = Len(c) + n /\ \A k \in 1 .. Len(c) + n : d[k] = IF k <= Len(c) THEN c[k] ELSE a[k - Len(c)]
  <2>1. d \in Seq(Text) /\ Len(d) = Len(c) + n
    BY <1>1, <1>3, Joined
  <2>2. \A k \in 1 .. Len(c) + n : d[k] = IF k <= Len(c) THEN c[k] ELSE a[k - Len(c)]
    BY <1>1, <1>3
  <2> QED BY <2>1, <2>2
<1> HIDE DEF d
<1> DEFINE u == d \o b
           v == Append(c \o p, x)
           m == Len(c) + Len(p) + 1
<1>6. u \in Seq(Text) /\ Len(u) = m /\ \A k \in 1 .. m : u[k] = IF k <= Len(d) THEN d[k] ELSE b[k - Len(d)]
  <2>1. u \in Seq(Text) /\ Len(u) = Len(d) + Len(b)
    BY <1>4, <1>5, Joined
  <2>2. Len(d) + Len(b) = m
    BY <1>1, <1>4, <1>5
  <2>3. \A k \in 1 .. Len(d) + Len(b) : u[k] = IF k <= Len(d) THEN d[k] ELSE b[k - Len(d)]
    BY <1>4, <1>5
  <2> QED BY <2>1, <2>2, <2>3
<1>7. v \in Seq(Text) /\ Len(v) = m /\ \A k \in 1 .. m : v[k] = IF k <= Len(c) THEN c[k] ELSE IF k = m THEN x ELSE p[k - Len(c)]
  BY <1>1
<1> HIDE DEF u, v
<1>8. ASSUME NEW k \in 1 .. m PROVE u[k] = v[k]
  <2>1. k \in Nat /\ 1 <= k /\ k <= m /\ m \in Nat
    BY <1>1, <1>8
  <2>2. CASE k <= Len(c)
    BY <1>1, <1>5, <1>6, <1>7, <2>1, <2>2
  <2>3. CASE Len(c) < k
    <3>1. k - Len(c) \in 1 .. Len(p) + 1
      BY <1>1, <2>1, <2>3
    <3>2. v[k] = held[k - Len(c)]
      <4>1. v[k] = IF k = m THEN x ELSE p[k - Len(c)]
        BY <1>1, <1>7, <1>8, <2>1, <2>3
      <4>2. k = m <=> k - Len(c) = Len(p) + 1
        BY <1>1, <2>1
      <4> QED BY <1>2, <3>1, <4>1, <4>2
    <3>3. CASE k <= Len(d)
      <4>1. k \in 1 .. Len(c) + n /\ k - Len(c) \in 1 .. n
        BY <1>1, <1>5, <2>1, <2>3, <3>3
      <4> QED BY <1>1, <1>3, <1>5, <1>6, <1>8, <2>1, <2>3, <3>2, <3>3, <4>1
    <3>4. CASE Len(d) < k
      <4>1. k - Len(d) \in 1 .. Len(p) + 1 - n /\ n + (k - Len(d)) = k - Len(c)
        BY <1>1, <1>5, <2>1, <3>4
      <4>2. u[k] = b[k - Len(d)]
        BY <1>1, <1>5, <1>6, <1>8, <2>1, <3>4
      <4> QED BY <1>4, <3>2, <4>1, <4>2
    <3>5. k <= Len(d) \/ Len(d) < k
      BY <1>1, <1>5, <2>1
    <3> QED BY <3>3, <3>4, <3>5
  <2>4. k <= Len(c) \/ Len(c) < k
    BY <1>1, <2>1
  <2> QED BY <2>2, <2>3, <2>4
<1>9. u = v
  <2>1. u = [k \in 1 .. m |-> u[k]] /\ v = [k \in 1 .. m |-> v[k]]
    BY <1>6, <1>7
  <2> QED BY <1>8, <2>1
<1> QED BY <1>3, <1>4, <1>5, <1>9 DEF u, v, d, a, b, held

LEMMA ReadTextCalls == ASSUME CallInv, ReadText PROVE CallInv'
<1>0. PICK item : item = reply[at]
  OBVIOUS
<1> DEFINE held == Append(pending, item)
           n    == IF Len(held) > Lag THEN Len(held) - Lag ELSE 0
           said == content \o pending
<1>1. item \in Text /\ Reads(item)
  BY <1>0 DEF ReadText
<1>2. content \in Seq(Text) /\ pending \in Seq(Text) /\ StreamShape
  BY DEF CallInv, StreamShape
<1>3. n \in 0 .. Len(pending) + 1 /\ Len(held) = Len(pending) + 1
  BY <1>1, <1>2, StreamAssumption
<1>4. content' = content \o SubSeq(held, 1, n) /\ pending' = SubSeq(held, n + 1, Len(held))
  BY <1>0 DEF ReadText, Forward
<1>5. UNCHANGED <<native, textual>>
  BY DEF ReadText
<1>6. item # "args" /\ item # "markup"
  BY <1>1, StreamAssumption DEF Text
<1> HIDE DEF n
<1>7. content' \in Seq(Text) /\ pending' \in Seq(Text) /\ content' \o pending' = Append(said, item)
  BY <1>1, <1>2, <1>3, <1>4, Grows
<1>8. /\ pc = "stream" /\ pc' = "stream" /\ at' = at + 1 /\ ReadOnce
      /\ UNCHANGED <<reply, finish, bad>>
      /\ \A x : Read(x) => Read(x)'
      /\ Read(item)' /\ (item \notin Letters => ~Read(item))
      /\ (\E j \in DOMAIN reply : at <= j /\ reply[j] = "args") => \E j \in DOMAIN reply' : at' <= j /\ reply'[j] = "args"
  <2>1. /\ pc = "stream" /\ pc' = "stream" /\ at' = at + 1 /\ at \in DOMAIN reply /\ reply[at] = item /\ ReadOnce
        /\ UNCHANGED <<reply, finish, bad>>
        /\ \A x : Read(x) => Read(x)'
        /\ Read(item)' /\ (item \notin Letters => ~Read(item))
        /\ (item # "args" /\ \E j \in DOMAIN reply : at <= j /\ reply[j] = "args")
             => \E j \in DOMAIN reply' : at' <= j /\ reply'[j] = "args"
    BY <1>1, Reading
  <2> QED BY <1>6, <2>1
<1>9. StreamShape'
  BY <1>2, <1>5, <1>7, <1>8 DEF StreamShape
<1>10. said \in Seq(Text)
  BY <1>2
<1>11. OneJson(said) /\ ((\E k \in DOMAIN said : said[k] = "json") => Read("json"))
  BY <1>8 DEF ReadOnce
<1> DEFINE grown == content' \o pending'
<1> HIDE DEF said
<1>12. DOMAIN grown = DOMAIN said \cup {Len(said) + 1} /\ grown[Len(said) + 1] = item /\ (\A k \in DOMAIN said : grown[k] = said[k])
  BY <1>1, <1>7, <1>10
<1> HIDE DEF grown
<1>13. OneJson(grown)
  <2> SUFFICES ASSUME NEW k \in DOMAIN grown, NEW l \in DOMAIN grown, grown[k] = "json", grown[l] = "json" PROVE k = l
    BY DEF OneJson
  <2>1. CASE item = "json"
    <3>1. \A i \in DOMAIN said : said[i] # "json"
      BY <1>8, <1>11, <2>1, StreamAssumption
    <3> QED BY <1>12, <3>1
  <2>2. CASE item # "json"
    <3>1. k \in DOMAIN said /\ l \in DOMAIN said
      BY <1>12, <2>2
    <3> QED BY <1>11, <1>12, <3>1 DEF OneJson
  <2> QED BY <2>1, <2>2
<1>14. (\E k \in DOMAIN grown : grown[k] = "json") => Read("json")'
  <2> SUFFICES ASSUME NEW k \in DOMAIN grown, grown[k] = "json" PROVE Read("json")'
    OBVIOUS
  <2>1. CASE k \in DOMAIN said
    BY <1>8, <1>11, <1>12, <2>1
  <2>2. CASE k = Len(said) + 1
    BY <1>8, <1>12, <2>2
  <2> QED BY <1>12, <2>1, <2>2
<1>15. ReadOnce'
  BY <1>5, <1>8, <1>13, <1>14 DEF ReadOnce, grown
<1> QED BY <1>8, <1>9, <1>15 DEF CallInv, CallsAreOfThisReply

LEMMA ReadOtherCalls == ASSUME CallInv, ReadMarkup \/ ReadWrapper \/ ReadCall PROVE CallInv'
<1>1. UNCHANGED <<content, pending>>
  BY DEF ReadMarkup, ReadWrapper, ReadCall
<1>2. StreamShape
  BY DEF CallInv
<1>3. PICK item \in {"markup", "wrapper", "call", "args"} :
        /\ Reads(item)
        /\ textual' = IF item = "markup" THEN textual + 1 ELSE textual
        /\ native' = IF item = "call" THEN "partial" ELSE IF item = "args" THEN "whole" ELSE native
  BY DEF ReadMarkup, ReadWrapper, ReadCall
<1>4. /\ pc = "stream" /\ pc' = "stream" /\ at' = at + 1 /\ ReadOnce /\ at \in DOMAIN reply /\ reply[at] = item
      /\ UNCHANGED <<reply, finish, bad>>
      /\ \A x : Read(x) => Read(x)'
      /\ Read(item)' /\ (item \notin Letters => ~Read(item))
      /\ (item # "args" /\ \E j \in DOMAIN reply : at <= j /\ reply[j] = "args")
                => \E j \in DOMAIN reply' : at' <= j /\ reply'[j] = "args"
  BY <1>3, Reading
<1>5. StreamShape'
  BY <1>1, <1>2, <1>3, <1>4 DEF StreamShape
<1>6. textual' \in {0, 1} /\ (textual' = 1 => Read("markup")')
  BY <1>3, <1>4, StreamAssumption DEF ReadOnce
<1>7. native' = "partial" => \E j \in DOMAIN reply' : at' <= j /\ reply'[j] = "args"
  <2>1. CASE item = "call"
    <3>1. PICK j \in DOMAIN reply : at < j /\ reply[j] = "args"
      BY <1>2, <1>4, <2>1, ReplyOnce DEF StreamShape
    <3>2. at \in Nat /\ j \in Nat
      BY <1>2, ReplyOnce DEF StreamShape
    <3>3. at + 1 <= j
      BY <3>1, <3>2
    <3> QED BY <1>4, <3>1, <3>3
  <2>2. CASE item # "call"
    BY <1>3, <1>4, <2>2 DEF ReadOnce
  <2> QED BY <2>1, <2>2
<1>8. ReadOnce'
  BY <1>1, <1>4, <1>6, <1>7 DEF ReadOnce, OneJson
<1> QED BY <1>4, <1>5, <1>8 DEF CallInv, CallsAreOfThisReply

LEMMA StopCalls == ASSUME CallInv, GoesBad \/ PreemptWrite \/ StreamEnds \/ StreamBreaks \/ TimesOut \/ SteeringCuts PROVE CallInv'
<1>1. PICK reason, e : Stops(reason, e)
  BY DEF GoesBad, PreemptWrite, StreamEnds, StreamBreaks, TimesOut, SteeringCuts
<1>2. pc = "stream" /\ pc' = "close" /\ UNCHANGED <<reply, at, content, pending, native, textual>>
  BY <1>1 DEF Stops, GoesBad, PreemptWrite, StreamEnds, StreamBreaks, TimesOut, SteeringCuts
<1>3. finish' = "corrupted" => bad'
  BY DEF GoesBad, PreemptWrite, StreamEnds, StreamBreaks, TimesOut, SteeringCuts, Stops
<1>4. finish' = "stop" => at > Len(reply)
  BY DEF GoesBad, PreemptWrite, StreamEnds, StreamBreaks, TimesOut, SteeringCuts, Stops
<1>5. finish' = "stop" => native # "partial"
  <2> SUFFICES ASSUME finish' = "stop", native = "partial" PROVE FALSE
    OBVIOUS
  <2>1. PICK j \in DOMAIN reply : at <= j
    BY <1>2 DEF CallInv, ReadOnce
  <2>2. reply \in Seq(Items) /\ at \in Nat
    BY ReplyOnce DEF CallInv, StreamShape
  <2>3. j \in Nat /\ j <= Len(reply) /\ Len(reply) \in Nat
    BY <2>2
  <2> QED BY <1>4, <2>1, <2>2, <2>3
<1> QED BY <1>2, <1>3, <1>5, NothingRead

\* At most one call of each kind.
LEMMA AtMostOneEach ==
    ASSUME NEW n \in {"none", "partial", "whole"}, NEW t \in {0, 1}, NEW j \in {0, 1}, NEW s,
           s = (IF n = "none" THEN <<>> ELSE <<n>>) \o Times(t, "markup") \o Times(j, "json")
    PROVE  IsInjective(s) /\ (n # "partial" => "partial" \notin Range(s))
<1> DEFINE A == IF n = "none" THEN <<>> ELSE <<n>>
           B == Times(t, "markup")
           C == Times(j, "json")
           S == {"none", "partial", "whole", "markup", "json"}
<1>1. A \in Seq(S) /\ Len(A) \in {0, 1} /\ (n = "none" => Len(A) = 0) /\ \A k \in 1 .. Len(A) : A[k] = n
  <2>1. CASE n = "none"
    BY <2>1
  <2>2. CASE n # "none"
    <3>1. A = <<n>>
      BY <2>2
    <3> HIDE DEF A
    <3> QED BY <2>2, <3>1
  <2> QED BY <2>1, <2>2
<1>2. B \in Seq(S) /\ Len(B) \in {0, 1} /\ \A k \in 1 .. Len(B) : B[k] = "markup"
  <2>1. B = [k \in 1 .. t |-> "markup"] /\ t \in Nat
    BY DEF Times
  <2> HIDE DEF B
  <2>2. B \in Seq(S) /\ Len(B) = t
    BY <2>1
  <2> QED BY <2>1, <2>2
<1>3. C \in Seq(S) /\ Len(C) \in {0, 1} /\ \A k \in 1 .. Len(C) : C[k] = "json"
  <2>1. C = [k \in 1 .. j |-> "json"] /\ j \in Nat
    BY DEF Times
  <2> HIDE DEF C
  <2>2. C \in Seq(S) /\ Len(C) = j
    BY <2>1
  <2> QED BY <2>1, <2>2
<1> DEFINE u == A \o B
<1>4. s = u \o C
  OBVIOUS
<1> HIDE DEF A, B, C, S
<1>5. u \in Seq(S) /\ Len(u) = Len(A) + Len(B)
      /\ \A k \in 1 .. Len(A) + Len(B) : u[k] = IF k <= Len(A) THEN A[k] ELSE B[k - Len(A)]
  BY <1>1, <1>2, Joined
<1> HIDE DEF u
<1>6. s \in Seq(S) /\ Len(s) = Len(u) + Len(C)
      /\ \A k \in 1 .. Len(u) + Len(C) : s[k] = IF k <= Len(u) THEN u[k] ELSE C[k - Len(u)]
  <2>1. (u \o C) \in Seq(S) /\ Len(u \o C) = Len(u) + Len(C)
        /\ \A k \in 1 .. Len(u) + Len(C) : (u \o C)[k] = IF k <= Len(u) THEN u[k] ELSE C[k - Len(u)]
    <3>1. u \in Seq(S) /\ C \in Seq(S)
      BY <1>3, <1>5
    <3> QED BY <3>1, Joined
  <2> QED BY <1>4, <2>1
<1>7. Len(A) \in Nat /\ Len(B) \in Nat /\ Len(C) \in Nat /\ Len(A) <= 1 /\ Len(B) <= 1 /\ Len(C) <= 1
      /\ DOMAIN s = 1 .. Len(A) + Len(B) + Len(C)
  <2>1. Len(A) \in Nat /\ Len(B) \in Nat /\ Len(C) \in Nat /\ Len(A) <= 1 /\ Len(B) <= 1 /\ Len(C) <= 1
    <3>1. \A m \in {0, 1} : m \in Nat /\ m <= 1
      OBVIOUS
    <3> QED BY <1>1, <1>2, <1>3, <3>1, Zenon
  <2>2. DOMAIN s = 1 .. Len(s) /\ Len(s) = Len(A) + Len(B) + Len(C)
    BY <1>5, <1>6
  <2> QED BY <2>1, <2>2
<1>8. ASSUME NEW k \in DOMAIN s
      PROVE  /\ k <= Len(A) => s[k] = n /\ n # "none"
             /\ Len(A) < k /\ k <= Len(A) + Len(B) => s[k] = "markup"
             /\ Len(A) + Len(B) < k => s[k] = "json"
  <2>1. k \in Nat /\ 1 <= k /\ k <= Len(A) + Len(B) + Len(C)
    BY <1>7, <1>8
  <2>2. CASE k <= Len(A)
    <3>1. s[k] = u[k] /\ u[k] = A[k]
      BY <1>5, <1>6, <1>7, <2>1, <2>2
    <3> QED BY <1>1, <1>7, <2>1, <2>2, <3>1
  <2>3. CASE Len(A) < k /\ k <= Len(A) + Len(B)
    <3>1. k \in 1 .. Len(A) + Len(B) /\ k - Len(A) \in 1 .. Len(B) /\ ~(k <= Len(A))
      BY <1>7, <2>1, <2>3
    <3>2. s[k] = u[k] /\ u[k] = B[k - Len(A)]
      BY <1>5, <1>6, <1>7, <2>1, <2>3, <3>1
    <3>3. s[k] = "markup"
      BY <1>2, <3>1, <3>2
    <3> QED BY <1>7, <2>1, <2>3, <3>1, <3>3
  <2>4. CASE Len(A) + Len(B) < k
    <3>1. k \in 1 .. Len(u) + Len(C) /\ k - Len(u) \in 1 .. Len(C) /\ ~(k <= Len(u))
      BY <1>5, <1>7, <2>1, <2>4
    <3>2. s[k] = C[k - Len(u)]
      BY <1>6, <3>1
    <3>3. s[k] = "json"
      BY <1>3, <3>1, <3>2
    <3> QED BY <1>7, <2>1, <2>4, <3>3
  <2>5. k <= Len(A) \/ (Len(A) < k /\ k <= Len(A) + Len(B)) \/ Len(A) + Len(B) < k
    BY <1>7, <2>1
  <2> QED BY <1>7, <2>1, <2>2, <2>3, <2>4, <2>5
<1>9. ASSUME NEW k \in DOMAIN s, NEW l \in DOMAIN s, k < l PROVE s[k] # s[l]
  <2>1. k \in Nat /\ 1 <= k /\ l \in Nat /\ l <= Len(A) + Len(B) + Len(C)
    BY <1>7, <1>9
  <2>2. CASE k <= Len(A)
    <3>1. Len(A) < l
      BY <1>7, <1>9, <2>1, <2>2
    <3>2. (Len(A) < l /\ l <= Len(A) + Len(B)) \/ Len(A) + Len(B) < l
      BY <1>7, <2>1, <3>1
    <3>3. s[l] = "markup" \/ s[l] = "json"
      BY <1>8, <3>2
    <3>4. n # "markup" /\ n # "json"
      OBVIOUS
    <3> QED BY <1>8, <2>2, <3>3, <3>4
  <2>3. CASE Len(A) < k
    <3>1. k = Len(A) + 1 /\ k <= Len(A) + Len(B) /\ Len(A) + Len(B) < l
      BY <1>7, <1>9, <2>1, <2>3
    <3> QED BY <1>8, <2>3, <3>1
  <2>4. k <= Len(A) \/ Len(A) < k
    BY <1>7, <2>1
  <2> QED BY <2>2, <2>3, <2>4
<1>10. \A k, l \in DOMAIN s : s[k] = s[l] => k = l
  <2> SUFFICES ASSUME NEW k \in DOMAIN s, NEW l \in DOMAIN s, k # l PROVE s[k] # s[l]
    OBVIOUS
  <2>1. k < l \/ l < k
    BY <1>7
  <2> QED BY <1>9, <2>1
<1>11. \A k \in DOMAIN s : s[k] \in {n, "markup", "json"}
  <2> SUFFICES ASSUME NEW k \in DOMAIN s PROVE s[k] \in {n, "markup", "json"}
    OBVIOUS
  <2>1. k \in Nat
    BY <1>7
  <2> QED BY <1>7, <1>8, <2>1
<1> QED BY <1>10, <1>11 DEF IsInjective, Range

LEMMA CloseCalls == ASSUME CallInv, CloseWithAnswer PROVE CallInv'
<1>1. /\ pc = "close" /\ pc' = "done" /\ (error = "none" \/ Broken)
      /\ result'.calls = Calls /\ result'.finish = IF Broken THEN "corrupted" ELSE finish
      /\ UNCHANGED <<reply, at, content, pending, native, textual, bad, finish, error>>
  BY DEF CloseWithAnswer, request
<1>2. StreamShape /\ ReadOnce /\ (finish = "corrupted" => bad) /\ (finish = "stop" => native # "partial")
  BY <1>1 DEF CallInv
<1>3. StreamShape'
  BY <1>1, <1>2 DEF StreamShape
<1>4. CallsAreOfThisReply'
  <2>1. CASE Broken
    BY <1>1, <2>1 DEF Calls, CallsAreOfThisReply, IsInjective, Range
  <2>2. CASE ~Broken
    <3> DEFINE J == {k \in DOMAIN content : content[k] = "json"}
    <3>1. content \in Seq(Text) /\ pending \in Seq(Text)
      BY <1>2 DEF StreamShape
    <3>2. \A k \in DOMAIN content : k \in DOMAIN (content \o pending) /\ (content \o pending)[k] = content[k]
      BY <3>1
    <3>3. \A k, l \in J : k = l
      BY <1>2, <3>2 DEF ReadOnce, OneJson
    <3>4. Cardinality(J) \in {0, 1}
      <4>1. CASE J = {}
        BY <4>1, FS_EmptySet
      <4>2. CASE J # {}
        <5>1. PICK k : J = {k}
          BY <3>3, <4>2
        <5> QED BY <5>1, FS_Singleton
      <4> QED BY <4>1, <4>2
    <3>5. Calls = (IF native = "none" THEN <<>> ELSE <<native>>) \o Times(textual, "markup") \o Times(Cardinality(J), "json")
      BY <2>2 DEF Calls
    <3>6. native \in {"none", "partial", "whole"} /\ textual \in {0, 1}
      BY <1>2 DEF StreamShape, ReadOnce
    <3> HIDE DEF J
    <3>7. IsInjective(Calls) /\ (native # "partial" => "partial" \notin Range(Calls))
      BY <3>4, <3>5, <3>6, AtMostOneEach
    <3>8. error = "none" /\ finish # "corrupted" /\ result'.finish = finish
      BY <1>1, <1>2, <2>2 DEF Broken
    <3> QED BY <1>1, <1>2, <3>7, <3>8 DEF CallsAreOfThisReply
  <2> QED BY <2>1, <2>2
<1> QED BY <1>1, <1>2, <1>3, <1>4 DEF CallInv

LEMMA StepCallInv == ASSUME Pointed, CallInv, [StreamNext]_streamVars PROVE CallInv'
<1>1. CASE ReadText
  BY <1>1, ReadTextCalls
<1>2. CASE ReadMarkup \/ ReadWrapper \/ ReadCall
  BY <1>2, ReadOtherCalls
<1>3. CASE GoesBad \/ PreemptWrite \/ StreamEnds \/ StreamBreaks \/ TimesOut \/ SteeringCuts
  BY <1>3, StopCalls
<1>4. CASE Reasons \/ SteeringDeferred \/ Tick
  <2>1. pc = "stream" /\ UNCHANGED <<pc, reply, at, content, pending, native, textual, finish, bad>>
    BY <1>4 DEF Reasons, SteeringDeferred, Tick
  <2> QED BY <2>1, NothingRead DEF CallInv
<1>5. CASE ContextRejected \/ UserSteers
  <2>1. pc \in {"ask", "stream", "raised"} /\ UNCHANGED <<pc, reply, at, content, pending, native, textual, finish, bad>>
    BY <1>5 DEF ContextRejected, UserSteers, request
  <2> QED BY <2>1, NothingRead DEF CallInv
<1>6. CASE Ask
  BY <1>6, AskCalls
<1>7. CASE RequestFails
  <2>1. pc' = "raised" /\ content' = <<>> /\ pending' = <<>> /\ UNCHANGED <<reply, at, native, textual, finish, bad>>
    BY <1>7 DEF RequestFails
  <2> QED BY <2>1 DEF CallInv, StreamShape, CallsAreOfThisReply
<1>8. CASE CloseWithError
  <2>1. pc' = "raised" /\ content' = content \o pending /\ UNCHANGED <<reply, at, pending, native, textual, finish, bad>>
    BY <1>8 DEF CloseWithError, Forward
  <2>2. content' \in Seq(Text)
    BY <2>1, Joined DEF CallInv, StreamShape
  <2> QED BY <2>1, <2>2 DEF CallInv, StreamShape, CallsAreOfThisReply
<1>9. CASE CloseWithAnswer
  BY <1>9, CloseCalls
<1>10. CASE Reconnect \/ FallBack \/ GiveUp
  <2>1. pc' \in {"ask", "failed"} /\ UNCHANGED <<reply, at, content, pending, native, textual, finish, bad>>
    BY <1>10 DEF Reconnect, FallBack, GiveUp, Resume, request
  <2> QED BY <2>1, NothingRead DEF CallInv
<1>11. CASE UNCHANGED streamVars
  BY <1>11 DEF streamVars, request, output, CallInv, StreamShape, ReadOnce, OneJson, Read, CallsAreOfThisReply
<1> QED BY <1>1, <1>2, <1>3, <1>4, <1>5, <1>6, <1>7, <1>8, <1>9, <1>10, <1>11 DEF StreamNext, Provider, Runner

-----------------------------------------------------------------------------
(* What a text has of a set of items.                                      *)

Picked(s, S) == {i \in DOMAIN s : s[i] \in S}
Below(S, i) == {j \in S : j < i}
NthSmallest(S, n) == CHOOSE i \in S : Cardinality(Below(S, i)) = n - 1

LEMMA OnlyPicks ==
    ASSUME NEW s, NEW S
    PROVE  Only(s, S) = [n \in 1 .. Cardinality(Picked(s, S)) |-> s[NthSmallest(Picked(s, S), n)]]
BY DEF Only, Picked, NthSmallest, Below

LEMMA CountedUp ==
    ASSUME NEW S \in SUBSET Nat, IsFiniteSet(S)
    PROVE  /\ Cardinality(S) \in Nat
           /\ \A n \in 1 .. Cardinality(S) :
                 NthSmallest(S, n) \in S /\ Cardinality(Below(S, NthSmallest(S, n))) = n - 1
           /\ \A i \in S, n \in Nat : Cardinality(Below(S, i)) = n - 1 => NthSmallest(S, n) = i
<1> DEFINE size == Cardinality(S)
           rank == [i \in S |-> Cardinality(Below(S, i)) + 1]
<1>1. size \in Nat
  BY FS_CardinalityType
<1>2. ASSUME NEW i \in S
      PROVE  IsFiniteSet(Below(S, i)) /\ Cardinality(Below(S, i)) \in Nat /\ Cardinality(Below(S, i)) < size
  <2>1. Below(S, i) \in SUBSET S /\ i \notin Below(S, i)
    BY DEF Below
  <2>2. /\ IsFiniteSet(Below(S, i)) /\ Cardinality(Below(S, i)) <= size
        /\ size = Cardinality(Below(S, i)) => S = Below(S, i)
    BY <2>1, FS_Subset
  <2>3. Cardinality(Below(S, i)) \in Nat
    BY <2>2, FS_CardinalityType
  <2> QED BY <1>1, <2>1, <2>2, <2>3
<1>3. ASSUME NEW i \in S, NEW j \in S, i < j PROVE Cardinality(Below(S, i)) < Cardinality(Below(S, j))
  <2>1. \A x \in S : x < i => x < j
    <3> SUFFICES ASSUME NEW x \in S, x < i PROVE x < j
      OBVIOUS
    <3>1. x \in Nat /\ i \in Nat /\ j \in Nat
      OBVIOUS
    <3> QED BY <1>3, <3>1
  <2>2. i \in Below(S, j) /\ i \notin Below(S, i)
    BY <1>3 DEF Below
  <2>3. Below(S, i) \in SUBSET Below(S, j) /\ Below(S, i) # Below(S, j)
    BY <2>1, <2>2 DEF Below
  <2>4. /\ Cardinality(Below(S, i)) <= Cardinality(Below(S, j))
        /\ Cardinality(Below(S, j)) = Cardinality(Below(S, i)) => Below(S, j) = Below(S, i)
    BY <1>2, <2>3, FS_Subset
  <2>5. Cardinality(Below(S, i)) \in Nat /\ Cardinality(Below(S, j)) \in Nat
    BY <1>2
  <2> QED BY <2>3, <2>4, <2>5
<1> HIDE DEF size
<1>4. ASSUME NEW i \in S, NEW j \in S, Cardinality(Below(S, i)) = Cardinality(Below(S, j)) PROVE i = j
  <2>1. ~(i < j) /\ ~(j < i)
    BY <1>2, <1>3, <1>4
  <2>2. i \in Nat /\ j \in Nat
    OBVIOUS
  <2> QED BY <2>1, <2>2
<1>5. rank \in [S -> 1 .. size]
  BY <1>1, <1>2
<1>6. rank \in Injection(S, 1 .. size)
  <2>1. \A i, j \in S : rank[i] = rank[j] => i = j
    BY <1>2, <1>4
  <2> QED BY <1>5, <2>1 DEF Injection, IsInjective
<1>7. IsFiniteSet(1 .. size) /\ Cardinality(1 .. size) = size
  BY <1>1, FS_Interval
<1>8. rank \in Surjection(S, 1 .. size)
  BY <1>6, <1>7, FS_Injection DEF size
<1>9. ASSUME NEW n \in 1 .. size
      PROVE  NthSmallest(S, n) \in S /\ Cardinality(Below(S, NthSmallest(S, n))) = n - 1
  <2>1. PICK i \in S : rank[i] = n
    BY <1>8 DEF Surjection
  <2>2. Cardinality(Below(S, i)) = n - 1
    BY <1>2, <2>1
  <2> QED BY <2>2 DEF NthSmallest
<1>10. ASSUME NEW i \in S, NEW n \in Nat, Cardinality(Below(S, i)) = n - 1 PROVE NthSmallest(S, n) = i
  <2>1. NthSmallest(S, n) \in S /\ Cardinality(Below(S, NthSmallest(S, n))) = n - 1
    BY <1>10 DEF NthSmallest
  <2> QED BY <1>4, <1>10, <2>1
<1> QED BY <1>1, <1>9, <1>10 DEF size

LEMMA PickedFinite ==
    ASSUME NEW V, NEW s \in Seq(V), NEW S
    PROVE  Picked(s, S) \in SUBSET Nat /\ Picked(s, S) \subseteq 1 .. Len(s) /\ IsFiniteSet(Picked(s, S))
<1>1. Len(s) \in Nat /\ DOMAIN s = 1 .. Len(s)
  OBVIOUS
<1>2. IsFiniteSet(1 .. Len(s))
  BY <1>1, FS_Interval
<1>3. Picked(s, S) \subseteq 1 .. Len(s)
  BY <1>1 DEF Picked
<1> QED BY <1>1, <1>2, <1>3, FS_Subset

LEMMA OnlyTyped ==
    ASSUME NEW V, NEW s \in Seq(V), NEW S
    PROVE  /\ Only(s, S) \in Seq(V \cap S)
           /\ \A n \in DOMAIN Only(s, S) : \E i \in DOMAIN s : Only(s, S)[n] = s[i]
<1> DEFINE P == Picked(s, S)
<1>1. Cardinality(P) \in Nat /\ \A n \in 1 .. Cardinality(P) : NthSmallest(P, n) \in P
  BY PickedFinite, CountedUp
<1>2. \A i \in P : i \in DOMAIN s /\ s[i] \in V \cap S
  BY DEF Picked
<1> HIDE DEF P
<1>3. Only(s, S) = [n \in 1 .. Cardinality(P) |-> s[NthSmallest(P, n)]]
  BY OnlyPicks DEF P
<1>4. Only(s, S) \in [1 .. Cardinality(P) -> V \cap S]
  BY <1>1, <1>2, <1>3
<1>5. Only(s, S) \in Seq(V \cap S)
  BY <1>1, <1>4
<1>6. ASSUME NEW n \in DOMAIN Only(s, S) PROVE \E i \in DOMAIN s : Only(s, S)[n] = s[i]
  <2>1. n \in 1 .. Cardinality(P) /\ Only(s, S)[n] = s[NthSmallest(P, n)]
    BY <1>3
  <2> QED BY <1>1, <1>2, <2>1
<1> QED BY <1>5, <1>6

LEMMA OnlyEmpty == \A S : Only(<<>>, S) = <<>>
<1> SUFFICES ASSUME NEW S PROVE Only(<<>>, S) = <<>>
  OBVIOUS
<1>1. Picked(<<>>, S) = {}
  BY DEF Picked
<1>2. Cardinality(Picked(<<>>, S)) = 0
  BY <1>1, FS_EmptySet
<1> QED BY <1>2, OnlyPicks
LEMMA SameItems ==
    ASSUME NEW V, NEW u \in Seq(V), NEW w \in Seq(V), Len(u) = Len(w),
           \A i \in 1 .. Len(u) : u[i] = w[i]
    PROVE  u = w
<1>1. u = [i \in 1 .. Len(u) |-> u[i]] /\ w = [i \in 1 .. Len(u) |-> w[i]]
  OBVIOUS
<1> QED BY <1>1

LEMMA AppendIs ==
    ASSUME NEW V, NEW s \in Seq(V), NEW x \in V
    PROVE  Append(s, x) = [n \in 1 .. Len(s) + 1 |-> IF n = Len(s) + 1 THEN x ELSE s[n]]
<1> DEFINE t == Append(s, x)
           m == Len(s) + 1
<1>1. t \in Seq(V) /\ Len(t) = m /\ \A n \in 1 .. m : t[n] = IF n = m THEN x ELSE s[n]
  OBVIOUS
<1> HIDE DEF t
<1>2. t = [n \in 1 .. m |-> t[n]]
  BY <1>1
<1> QED BY <1>1, <1>2 DEF t

LEMMA OnlyAppend ==
    ASSUME NEW V, NEW s \in Seq(V), NEW x \in V, NEW S
    PROVE  Only(Append(s, x), S) = IF x \in S THEN Append(Only(s, S), x) ELSE Only(s, S)
<1> DEFINE t == Append(s, x)
           m == Len(s) + 1
           P == Picked(s, S)
           Q == Picked(t, S)
           size == Cardinality(P)
<1>1. m \in Nat /\ t \in Seq(V) /\ DOMAIN s = 1 .. Len(s) /\ DOMAIN t = 1 .. m /\ t[m] = x /\ \A i \in 1 .. Len(s) : t[i] = s[i]
  OBVIOUS
<1>2. P \in SUBSET Nat /\ P \subseteq 1 .. Len(s) /\ IsFiniteSet(P) /\ Q \in SUBSET Nat /\ IsFiniteSet(Q)
  BY <1>1, PickedFinite
<1>3. 1 .. m = 1 .. Len(s) \cup {m} /\ m \notin 1 .. Len(s) /\ \A i \in 1 .. Len(s) : i < m
  OBVIOUS
<1> HIDE DEF t, m
<1>4. Q = IF x \in S THEN P \cup {m} ELSE P
  BY <1>1, <1>3 DEF Picked
<1>5. \A i \in P : t[i] = s[i] /\ i < m
  BY <1>1, <1>2, <1>3
<1> HIDE DEF P, Q
<1>6. /\ size \in Nat
      /\ \A n \in 1 .. size : NthSmallest(P, n) \in P /\ Cardinality(Below(P, NthSmallest(P, n))) = n - 1
  BY <1>2, CountedUp
<1>7. Only(s, S) = [n \in 1 .. size |-> s[NthSmallest(P, n)]]
  BY OnlyPicks DEF P
<1>8. Only(t, S) = [n \in 1 .. Cardinality(Q) |-> t[NthSmallest(Q, n)]]
  BY OnlyPicks DEF Q
<1> DEFINE u == Only(s, S)
<1>9. Len(u) = size /\ u \in Seq(V)
  <2>1. u \in Seq(V \cap S)
    BY OnlyTyped
  <2> QED BY <1>6, <1>7, <2>1
<1> HIDE DEF size, u
<1>10. CASE x \in S
  <2>1. Q = P \cup {m} /\ m \notin P
    BY <1>2, <1>3, <1>4, <1>10
  <2>2. Cardinality(Q) = size + 1
    BY <1>2, <2>1, FS_AddElement DEF size
  <2>3. \A i \in Q, n \in Nat : Cardinality(Below(Q, i)) = n - 1 => NthSmallest(Q, n) = i
    BY <1>2, CountedUp
  <2>4. Below(Q, m) = P
    <3>1. \A i \in P : i < m
      BY <1>5
    <3>2. ~(m < m)
      BY <1>1
    <3> QED BY <2>1, <3>1, <3>2 DEF Below
  <2>5. NthSmallest(Q, size + 1) = m
    <3>1. size + 1 \in Nat /\ Cardinality(Below(Q, m)) = (size + 1) - 1
      BY <1>6, <2>4 DEF size
    <3> QED BY <2>1, <2>3, <3>1
  <2>6. ASSUME NEW n \in 1 .. size PROVE NthSmallest(Q, n) = NthSmallest(P, n) /\ NthSmallest(P, n) \in P
    <3>1. PICK i \in P : i = NthSmallest(P, n)
      BY <1>6 DEF size
    <3>2. Cardinality(Below(P, i)) = n - 1
      BY <1>6, <3>1 DEF size
    <3>3. i < m /\ i \in Nat
      BY <1>2, <1>5
    <3>4. ~(m < i)
      BY <1>1, <3>3
    <3>5. Below(Q, i) = Below(P, i)
      BY <2>1, <3>4 DEF Below
    <3>6. n \in Nat /\ i \in Q
      BY <1>6, <2>1 DEF size
    <3> QED BY <2>3, <3>1, <3>2, <3>5, <3>6
  <2> DEFINE w == Append(u, x)
  <2>7. w = [n \in 1 .. size + 1 |-> IF n = size + 1 THEN x ELSE u[n]]
    BY <1>9, AppendIs
  <2>8. ASSUME NEW n \in 1 .. size + 1 PROVE t[NthSmallest(Q, n)] = IF n = size + 1 THEN x ELSE u[n]
    <3>1. CASE n = size + 1
      BY <1>1, <2>5, <3>1
    <3>2. CASE n # size + 1
      <4>1. n \in 1 .. size
        BY <1>6, <3>2 DEF size
      <4>2. u[n] = s[NthSmallest(P, n)]
        BY <1>7, <4>1 DEF u, size
      <4> QED BY <1>5, <2>6, <3>2, <4>1, <4>2
    <3> QED BY <3>1, <3>2
  <2>9. Only(t, S) = [n \in 1 .. size + 1 |-> IF n = size + 1 THEN x ELSE u[n]]
    BY <1>8, <2>2, <2>8
  <2> QED BY <1>10, <2>7, <2>9 DEF u, t
<1>11. CASE x \notin S
  <2>1. Q = P
    BY <1>4, <1>11
  <2>2. \A n \in 1 .. size : t[NthSmallest(P, n)] = s[NthSmallest(P, n)]
    BY <1>5, <1>6 DEF size
  <2>3. Only(t, S) = Only(s, S)
    BY <1>7, <1>8, <2>1, <2>2 DEF size
  <2> QED BY <1>11, <2>3 DEF t
<1> QED BY <1>10, <1>11

-----------------------------------------------------------------------------
(* Induction over sequences, for a set of them.                            *)

LEMMA LeastElement ==
    ASSUME NEW T, T \subseteq Nat, T # {}
    PROVE  \E m \in T : \A k \in T : m <= k
<1> DEFINE R == OpToRel(<, Nat)
<1>1. IsWellFoundedOn(R, Nat)
  BY NatLessThanWellFounded
<1>2. \A i, j \in Nat : i < j => <<i, j>> \in R
  BY DEF OpToRel
<1> HIDE DEF R
<1>3. PICK m \in T : \A k \in T : ~ (<<k, m>> \in R)
  BY <1>1, WFMin
<1>4. \A k \in T : m <= k
  <2> SUFFICES ASSUME NEW k \in T PROVE m <= k
    OBVIOUS
  <2>1. k \in Nat /\ m \in Nat /\ ~(k < m)
    BY <1>2, <1>3
  <2> QED BY <2>1
<1> QED BY <1>4

\* A sequence that is not empty is a shorter one and its last element.
LEMMA Shortened ==
    ASSUME NEW V, NEW s \in Seq(V), s # <<>>
    PROVE  \E t \in Seq(V), x \in V : s = Append(t, x) /\ Len(s) = Len(t) + 1 /\ x = s[Len(s)]
<1> DEFINE t == SubSeq(s, 1, Len(s) - 1)
<1>1. Len(s) \in Nat /\ Len(s) # 0 /\ s[Len(s)] \in V
  OBVIOUS
<1>2. t \in Seq(V) /\ Len(t) = Len(s) - 1 /\ \A i \in 1 .. Len(s) - 1 : t[i] = s[i]
  <2>1. PICK n \in Nat : Len(s) = n + 1
    BY <1>1
  <2>2. SubSeq(s, 1, n) \in Seq(V) /\ Len(SubSeq(s, 1, n)) = n /\ \A i \in 1 .. n : SubSeq(s, 1, n)[i] = s[i]
    BY <2>1
  <2>3. n = Len(s) - 1
    BY <2>1
  <2> QED BY <2>2, <2>3
<1> HIDE DEF t
<1>3. Append(t, s[Len(s)]) = s
  <2> DEFINE u == Append(t, s[Len(s)])
  <2>1. u \in Seq(V) /\ Len(u) = Len(s) /\ \A i \in 1 .. Len(s) : u[i] = IF i = Len(s) THEN s[Len(s)] ELSE t[i]
    BY <1>1, <1>2
  <2> HIDE DEF u
  <2>2. \A i \in 1 .. Len(u) : u[i] = s[i]
    <3> SUFFICES ASSUME NEW i \in 1 .. Len(s) PROVE u[i] = s[i]
      BY <2>1
    <3>1. CASE i = Len(s)
      BY <2>1, <3>1
    <3>2. CASE i # Len(s)
      <4>1. i \in 1 .. Len(s) - 1
        BY <1>1, <3>2
      <4> QED BY <1>2, <2>1, <3>2, <4>1
    <3> QED BY <3>1, <3>2
  <2> QED BY <2>1, <2>2, SameItems DEF u
<1> QED BY <1>1, <1>2, <1>3

LEMMA Induction ==
    ASSUME NEW V, NEW G \in SUBSET Seq(V), <<>> \in G,
           \A t \in G, x \in V : Append(t, x) \in G
    PROVE  G = Seq(V)
<1> SUFFICES ASSUME NEW other \in Seq(V) \ G PROVE FALSE
  OBVIOUS
<1> DEFINE T == {Len(s) : s \in Seq(V) \ G}
<1>0. \A s \in Seq(V) : Len(s) \in Nat
  OBVIOUS
<1>1. T \subseteq Nat /\ T # {}
  <2>1. Len(other) \in T
    OBVIOUS
  <2> QED BY <1>0, <2>1
<1>2. PICK m \in T : \A k \in T : m <= k
  BY <1>1, LeastElement
<1>3. PICK s \in Seq(V) \ G : Len(s) = m
  OBVIOUS
<1>4. PICK t \in Seq(V), x \in V : s = Append(t, x) /\ Len(s) = Len(t) + 1 /\ x = s[Len(s)]
  <2>1. s \in Seq(V) /\ s # <<>>
    BY <1>3
  <2> QED BY <2>1, Shortened
<1>5. t \notin G
  BY <1>3, <1>4
<1>6. Len(t) \in T /\ Len(t) \in Nat
  BY <1>5
<1>7. m <= Len(t)
  BY <1>2, <1>6
<1> QED BY <1>3, <1>4, <1>6, <1>7

LEMMA OnlyJoined ==
    ASSUME NEW V, NEW s \in Seq(V), NEW t \in Seq(V), NEW S
    PROVE  Only(s \o t, S) = Only(s, S) \o Only(t, S)
<1> DEFINE G == {u \in Seq(V) : Only(s \o u, S) = Only(s, S) \o Only(u, S)}
           o(u) == Only(u, S)
<1>1. \A u \in Seq(V) : Only(u, S) \in Seq(V)
  <2> SUFFICES ASSUME NEW u \in Seq(V) PROVE Only(u, S) \in Seq(V)
    OBVIOUS
  <2>1. Only(u, S) \in Seq(V \cap S)
    BY OnlyTyped
  <2> QED BY <2>1
<1>2. <<>> \in G
  <2>1. s \o <<>> = s /\ Only(<<>>, S) = <<>>
    BY OnlyEmpty
  <2>2. Only(s, S) \o <<>> = Only(s, S)
    BY <1>1
  <2>3. Only(s \o <<>>, S) = Only(s, S) \o Only(<<>>, S)
    BY <2>1, <2>2
  <2>4. <<>> \in Seq(V)
    OBVIOUS
  <2> QED BY <2>3, <2>4
<1>3. ASSUME NEW u \in G, NEW x \in V PROVE Append(u, x) \in G
  <2>1. u \in Seq(V) /\ Only(s \o u, S) = Only(s, S) \o Only(u, S) /\ s \o u \in Seq(V) /\ s \o Append(u, x) = Append(s \o u, x)
    BY <1>3
  <2>2. Only(Append(u, x), S) = IF x \in S THEN Append(Only(u, S), x) ELSE Only(u, S)
    BY <2>1, OnlyAppend
  <2>3. Only(s \o Append(u, x), S) = IF x \in S THEN Append(Only(s \o u, S), x) ELSE Only(s \o u, S)
    <3>1. PICK w \in Seq(V) : w = s \o u
      BY <2>1
    <3>2. Only(Append(w, x), S) = IF x \in S THEN Append(Only(w, S), x) ELSE Only(w, S)
      BY OnlyAppend
    <3> QED BY <2>1, <3>1, <3>2
  <2>4. Only(s, S) \in Seq(V) /\ Only(u, S) \in Seq(V)
    BY <1>1, <2>1
  <2>5. Only(s, S) \o Append(Only(u, S), x) = Append(Only(s, S) \o Only(u, S), x)
    BY <2>4
  <2>6. Append(u, x) \in Seq(V)
    BY <2>1
  <2> QED BY <2>1, <2>2, <2>3, <2>5, <2>6
<1>4. G = Seq(V)
  <2> HIDE DEF G
  <2>1. G \in SUBSET Seq(V)
    BY DEF G
  <2> QED BY <1>2, <1>3, <2>1, Induction
<1> QED BY <1>4

LEMMA OnlyOnly ==
    ASSUME NEW V, NEW s \in Seq(V), NEW S, NEW R \in SUBSET S
    PROVE  Only(Only(s, S), R) = Only(s, R)
<1> DEFINE G == {u \in Seq(V) : Only(Only(u, S), R) = Only(u, R)}
<1>1. \A u \in Seq(V) : Only(u, S) \in Seq(V)
  <2> SUFFICES ASSUME NEW u \in Seq(V) PROVE Only(u, S) \in Seq(V)
    OBVIOUS
  <2>1. Only(u, S) \in Seq(V \cap S)
    BY OnlyTyped
  <2> QED BY <2>1
<1>2. <<>> \in G
  BY OnlyEmpty
<1>3. ASSUME NEW u \in G, NEW x \in V PROVE Append(u, x) \in G
  <2>1. u \in Seq(V) /\ Only(Only(u, S), R) = Only(u, R) /\ Append(u, x) \in Seq(V)
    BY <1>3
  <2>2. Only(u, S) \in Seq(V)
    BY <1>1, <2>1
  <2>3. Only(Append(u, x), S) = IF x \in S THEN Append(Only(u, S), x) ELSE Only(u, S)
    BY <2>1, OnlyAppend
  <2>4. Only(Append(u, x), R) = IF x \in R THEN Append(Only(u, R), x) ELSE Only(u, R)
    BY <2>1, OnlyAppend
  <2>5. Only(Append(Only(u, S), x), R) = IF x \in R THEN Append(Only(Only(u, S), R), x) ELSE Only(Only(u, S), R)
    BY <2>2, OnlyAppend
  <2> QED BY <2>1, <2>3, <2>4, <2>5
<1>4. G = Seq(V)
  <2> HIDE DEF G
  <2>1. G \in SUBSET Seq(V)
    BY DEF G
  <2> QED BY <1>2, <1>3, <2>1, Induction
<1> QED BY <1>4
LEMMA OnlyEnds ==
    ASSUME NEW V, NEW s \in Seq(V), NEW S, Only(s, S) # <<>>
    PROVE  \E d \in DOMAIN s : s[d] = Last(Only(s, S)) /\ Only(s, S) = Only(SubSeq(s, 1, d), S)
<1> DEFINE EndsAt(u, d) == u[d] = Last(Only(u, S)) /\ Only(u, S) = Only(SubSeq(u, 1, d), S)
           G == {u \in Seq(V) : Only(u, S) # <<>> => \E d \in DOMAIN u : EndsAt(u, d)}
<1>1. <<>> \in G
  <2>1. <<>> \in Seq(V) /\ Only(<<>>, S) = <<>>
    BY OnlyEmpty
  <2> QED BY <2>1
<1>2. ASSUME NEW u \in G, NEW x \in V PROVE Append(u, x) \in G
  <2> DEFINE t == Append(u, x)
  <2>1. u \in Seq(V) /\ (Only(u, S) # <<>> => \E d \in DOMAIN u : EndsAt(u, d))
    BY <1>2
  <2>2. /\ t \in Seq(V) /\ Len(t) = Len(u) + 1 /\ DOMAIN u = 1 .. Len(u) /\ DOMAIN t = 1 .. Len(u) + 1 /\ Len(u) \in Nat
        /\ t[Len(u) + 1] = x /\ \A i \in 1 .. Len(u) : t[i] = u[i]
    BY <2>1
  <2>3. Only(t, S) = IF x \in S THEN Append(Only(u, S), x) ELSE Only(u, S)
    BY <2>1, OnlyAppend
  <2>4. Only(u, S) \in Seq(V)
    <3>1. Only(u, S) \in Seq(V \cap S)
      BY <2>1, OnlyTyped
    <3> QED BY <3>1
  <2> HIDE DEF t
  <2>5. ASSUME NEW d \in DOMAIN u PROVE d \in DOMAIN t /\ t[d] = u[d] /\ SubSeq(t, 1, d) = SubSeq(u, 1, d)
    <3>1. d \in 1 .. Len(u) /\ d \in Nat
      BY <2>2
    <3>2. SubSeq(t, 1, d) \in Seq(V) /\ Len(SubSeq(t, 1, d)) = d /\ \A i \in 1 .. d : SubSeq(t, 1, d)[i] = t[i]
      BY <2>2, <3>1
    <3>3. SubSeq(u, 1, d) \in Seq(V) /\ Len(SubSeq(u, 1, d)) = d /\ \A i \in 1 .. d : SubSeq(u, 1, d)[i] = u[i]
      BY <2>1, <2>2, <3>1
    <3>4. \A i \in 1 .. d : i \in 1 .. Len(u)
      BY <2>2, <3>1
    <3>5. \A i \in 1 .. d : SubSeq(t, 1, d)[i] = SubSeq(u, 1, d)[i]
      BY <2>2, <3>2, <3>3, <3>4
    <3> QED BY <2>2, <3>1, <3>2, <3>3, <3>5, SameItems
  <2>6. ASSUME Only(t, S) # <<>> PROVE \E d \in DOMAIN t : EndsAt(t, d)
    <3>1. CASE x \notin S
      <4>1. Only(t, S) = Only(u, S)
        BY <2>3, <3>1
      <4>2. PICK d \in DOMAIN u : EndsAt(u, d)
        BY <2>1, <2>6, <4>1
      <4>3. EndsAt(t, d)
        BY <2>5, <4>1, <4>2
      <4> QED BY <2>5, <4>3
    <3>2. CASE x \in S
      <4>1. Only(t, S) = Append(Only(u, S), x)
        BY <2>3, <3>2
      <4>2. Last(Only(t, S)) = x
        BY <2>4, <4>1 DEF Last
      <4>3. SubSeq(t, 1, Len(u) + 1) = t /\ Len(u) + 1 \in DOMAIN t
        BY <2>2
      <4>4. EndsAt(t, Len(u) + 1)
        BY <2>2, <4>2, <4>3
      <4> QED BY <4>3, <4>4
    <3> QED BY <3>1, <3>2
  <2>7. t \in G
    BY <2>2, <2>6
  <2> QED BY <2>7 DEF t
<1>3. G = Seq(V)
  <2> HIDE DEF G
  <2>1. G \in SUBSET Seq(V)
    BY DEF G
  <2> QED BY <1>1, <1>2, <2>1, Induction
<1> QED BY <1>3

-----------------------------------------------------------------------------
(* What a reply says of a set of items, from one position up to another.   *)

Told(r, S, a, b) == Only(SubSeq(r, a, b - 1), S)

LEMMA SubSeqJoined ==
    ASSUME NEW V, NEW r \in Seq(V), NEW a \in Nat \ {0}, NEW b \in Nat, NEW c \in Nat,
           a <= b, b <= c, c <= Len(r) + 1
    PROVE  /\ SubSeq(r, a, b - 1) \in Seq(V) /\ SubSeq(r, b, c - 1) \in Seq(V)
           /\ SubSeq(r, a, c - 1) = SubSeq(r, a, b - 1) \o SubSeq(r, b, c - 1)
<1>1. Len(r) \in Nat
  OBVIOUS
<1>2. SubSeq(r, a, b - 1) \in Seq(V)
  <2>1. a \in Int /\ b - 1 \in Int /\ (a <= b - 1 => a \in 1 .. Len(r) /\ b - 1 \in 1 .. Len(r))
    BY <1>1
  <2> QED BY <2>1, SubSeqProperties
<1>3. SubSeq(r, b, c - 1) \in Seq(V)
  <2>1. b \in Int /\ c - 1 \in Int /\ (b <= c - 1 => b \in 1 .. Len(r) /\ c - 1 \in 1 .. Len(r))
    BY <1>1
  <2> QED BY <2>1, SubSeqProperties
<1>4. a \in 1 .. Len(r) + 1 /\ b - 1 \in a - 1 .. Len(r) /\ c - 1 \in b - 1 .. Len(r) /\ (b - 1) + 1 = b
  BY <1>1
<1>5. SubSeq(r, a, b - 1) \o SubSeq(r, (b - 1) + 1, c - 1) = SubSeq(r, a, c - 1)
  BY <1>4, ConcatAdjacentSubSeq
<1> QED BY <1>2, <1>3, <1>4, <1>5

LEMMA ToldJoined ==
    ASSUME NEW V, NEW r \in Seq(V), NEW S, NEW a \in Nat \ {0}, NEW b \in Nat, NEW c \in Nat,
           a <= b, b <= c, c <= Len(r) + 1
    PROVE  Told(r, S, a, c) = Told(r, S, a, b) \o Told(r, S, b, c)
<1>1. /\ SubSeq(r, a, b - 1) \in Seq(V) /\ SubSeq(r, b, c - 1) \in Seq(V)
      /\ SubSeq(r, a, c - 1) = SubSeq(r, a, b - 1) \o SubSeq(r, b, c - 1)
  BY SubSeqJoined
<1>2. PICK u \in Seq(V), v \in Seq(V) : u = SubSeq(r, a, b - 1) /\ v = SubSeq(r, b, c - 1)
  BY <1>1
<1>3. Only(u \o v, S) = Only(u, S) \o Only(v, S)
  BY OnlyJoined
<1> QED BY <1>1, <1>2, <1>3 DEF Told

LEMMA ToldTyped ==
    ASSUME NEW V, NEW r \in Seq(V), NEW S, NEW a \in Nat \ {0}, NEW b \in Nat, a <= b, b <= Len(r) + 1
    PROVE  Told(r, S, a, b) \in Seq(V \cap S)
<1>1. SubSeq(r, a, b - 1) \in Seq(V)
  BY SubSeqJoined
<1>2. PICK u \in Seq(V) : u = SubSeq(r, a, b - 1)
  BY <1>1
<1> QED BY <1>2, OnlyTyped DEF Told

LEMMA ToldOne ==
    ASSUME NEW V, NEW r \in Seq(V), NEW S, NEW a \in 1 .. Len(r)
    PROVE  /\ Told(r, S, a, a) = <<>>
           /\ Told(r, S, a, a + 1) = IF r[a] \in S THEN <<r[a]>> ELSE <<>>
<1>1. <<>> \in Seq(V) /\ r[a] \in V /\ a \in Nat /\ a >= 1 /\ Len(r) \in Nat /\ a <= Len(r)
  OBVIOUS
<1>2. SubSeq(r, a, a - 1) \in Seq(V) /\ Len(SubSeq(r, a, a - 1)) = 0
  <2>1. a - 1 \in Int /\ a \in Int /\ ~(a <= a - 1)
    BY <1>1
  <2> QED BY <1>1, <2>1, SubSeqProperties
<1>3. SubSeq(r, a, a) \in Seq(V) /\ Len(SubSeq(r, a, a)) = 1 /\ SubSeq(r, a, a)[1] = r[a]
  BY <1>1
<1>4. SubSeq(r, a, a - 1) = <<>>
  BY <1>2
<1>5. SubSeq(r, a, a) = Append(<<>>, r[a])
  <2> DEFINE w == Append(<<>>, r[a])
  <2>1. w \in Seq(V) /\ Len(w) = 1 /\ w[1] = r[a]
    BY <1>1
  <2> HIDE DEF w
  <2>2. \A i \in 1 .. 1 : SubSeq(r, a, a)[i] = w[i]
    BY <1>3, <2>1
  <2> QED BY <1>3, <2>1, <2>2, SameItems DEF w
<1>6. (a + 1) - 1 = a
  BY <1>1
<1>7. Only(Append(<<>>, r[a]), S) = IF r[a] \in S THEN Append(Only(<<>>, S), r[a]) ELSE Only(<<>>, S)
  <2>1. PICK u \in Seq(V), x \in V : u = <<>> /\ x = r[a]
    BY <1>1
  <2>2. Only(Append(u, x), S) = IF x \in S THEN Append(Only(u, S), x) ELSE Only(u, S)
    BY OnlyAppend
  <2> QED BY <2>1, <2>2
<1>8. Append(<<>>, r[a]) = <<r[a]>>
  OBVIOUS
<1>9. Told(r, S, a, a) = <<>>
  BY <1>4, OnlyEmpty DEF Told
<1>10. Told(r, S, a, a + 1) = Only(Append(<<>>, r[a]), S)
  BY <1>5, <1>6 DEF Told
<1> QED BY <1>7, <1>8, <1>9, <1>10, OnlyEmpty

LEMMA ToldAll ==
    ASSUME NEW V, NEW r \in Seq(V), NEW S
    PROVE  Told(r, S, 1, Len(r) + 1) = Only(r, S)
<1>1. (Len(r) + 1) - 1 = Len(r) /\ SubSeq(r, 1, Len(r)) = r
  OBVIOUS
<1> QED BY <1>1 DEF Told

LEMMA ToldOf ==
    ASSUME NEW V, NEW r \in Seq(V), NEW S, NEW R \in SUBSET S, NEW a \in Nat \ {0}, NEW b \in Nat, a <= b, b <= Len(r) + 1
    PROVE  Only(Told(r, S, a, b), R) = Told(r, R, a, b)
<1>1. SubSeq(r, a, b - 1) \in Seq(V)
  BY SubSeqJoined
<1>2. PICK u \in Seq(V) : u = SubSeq(r, a, b - 1)
  BY <1>1
<1> QED BY <1>2, OnlyOnly DEF Told
-----------------------------------------------------------------------------
(* Prefixes, and what is new in a continuation.                            *)

LEMMA PrefixOf ==
    ASSUME NEW V, NEW s \in Seq(V), NEW t \in Seq(V)
    PROVE  IsPrefix(s, s \o t)
<1> DEFINE u == s \o t
<1>1. u \in Seq(V) /\ Len(u) = Len(s) + Len(t) /\ \A i \in 1 .. Len(s) : u[i] = s[i]
  <2>1. u \in Seq(V) /\ Len(u) = Len(s) + Len(t) /\ \A i \in 1 .. Len(s) + Len(t) : u[i] = IF i <= Len(s) THEN s[i] ELSE t[i - Len(s)]
    BY Joined
  <2>2. \A i \in 1 .. Len(s) : i \in 1 .. Len(s) + Len(t) /\ i <= Len(s)
    OBVIOUS
  <2> QED BY <2>1, <2>2
<1> HIDE DEF u
<1>2. Len(s) \in Nat /\ Len(t) \in Nat /\ SubSeq(s, 1, Len(s)) = s
  OBVIOUS
<1>3. SubSeq(u, 1, Len(s)) \in Seq(V) /\ Len(SubSeq(u, 1, Len(s))) = Len(s) /\ \A i \in 1 .. Len(s) : SubSeq(u, 1, Len(s))[i] = u[i]
  BY <1>1, <1>2
<1>4. SubSeq(u, 1, Len(s)) = s
  BY <1>1, <1>3, SameItems
<1> QED BY <1>1, <1>2, <1>4 DEF IsPrefix, u

LEMMA ReverseIs ==
    ASSUME NEW V, NEW s \in Seq(V)
    PROVE  /\ Reverse(s) \in Seq(V) /\ Len(Reverse(s)) = Len(s)
           /\ \A i \in 1 .. Len(s) : Reverse(s)[i] = s[Len(s) - i + 1]
<1>1. Len(s) \in Nat /\ Reverse(s) = [i \in 1 .. Len(s) |-> s[Len(s) - i + 1]]
  BY DEF Reverse
<1>2. \A i \in 1 .. Len(s) : Len(s) - i + 1 \in 1 .. Len(s)
  BY <1>1
<1>3. Reverse(s) \in [1 .. Len(s) -> V]
  BY <1>1, <1>2
<1> QED BY <1>1, <1>3

LEMMA PrefixMeans ==
    ASSUME NEW V, NEW p \in Seq(V), NEW q \in Seq(V)
    PROVE  IsPrefix(p, q) <=> Len(p) <= Len(q) /\ \A i \in 1 .. Len(p) : p[i] = q[i]
<1>1. SubSeq(p, 1, Len(p)) = p /\ Len(p) \in Nat /\ Len(q) \in Nat
  OBVIOUS
<1>2. IsPrefix(p, q) <=> Len(p) <= Len(q) /\ p = SubSeq(q, 1, Len(p))
  BY <1>1 DEF IsPrefix
<1>3. ASSUME Len(p) <= Len(q)
      PROVE  /\ SubSeq(q, 1, Len(p)) \in Seq(V) /\ Len(SubSeq(q, 1, Len(p))) = Len(p)
             /\ \A i \in 1 .. Len(p) : SubSeq(q, 1, Len(p))[i] = q[i]
  BY <1>1, <1>3
<1>4. ASSUME Len(p) <= Len(q), \A i \in 1 .. Len(p) : p[i] = q[i] PROVE p = SubSeq(q, 1, Len(p))
  BY <1>3, <1>4, SameItems
<1> QED BY <1>2, <1>3, <1>4

LEMMA SuffixMeans ==
    ASSUME NEW V, NEW h \in Seq(V), NEW e \in Seq(V)
    PROVE  IsSuffix(h, e) <=> Len(h) <= Len(e) /\ \A i \in 1 .. Len(h) : h[i] = e[(Len(e) - Len(h)) + i]
<1>1. PICK p \in Seq(V), q \in Seq(V) :
        /\ p = Reverse(h) /\ Len(p) = Len(h) /\ \A i \in 1 .. Len(h) : p[i] = h[Len(h) - i + 1]
        /\ q = Reverse(e) /\ Len(q) = Len(e) /\ \A i \in 1 .. Len(e) : q[i] = e[Len(e) - i + 1]
  BY ReverseIs
<1>2. IsSuffix(h, e) <=> Len(h) <= Len(e) /\ \A i \in 1 .. Len(h) : p[i] = q[i]
  <2>1. IsSuffix(h, e) <=> IsPrefix(p, q)
    BY <1>1 DEF IsSuffix
  <2>2. IsPrefix(p, q) <=> Len(p) <= Len(q) /\ \A i \in 1 .. Len(p) : p[i] = q[i]
    BY PrefixMeans
  <2> QED BY <1>1, <2>1, <2>2
<1>m. PICK m \in Nat : m = Len(h)
  OBVIOUS
<1>n. PICK n \in Nat : n = Len(e)
  OBVIOUS
<1>3. /\ m = Len(h) /\ n = Len(e)
      /\ \A i \in 1 .. m : p[i] = h[m - i + 1]
      /\ \A i \in 1 .. n : q[i] = e[n - i + 1]
  BY ONLY <1>1, <1>m, <1>n
<1>4. ASSUME m <= n, \A i \in 1 .. m : p[i] = q[i], NEW i \in 1 .. m PROVE h[i] = e[(n - m) + i]
  <2>1. PICK j \in 1 .. m : j = m - i + 1 /\ m - j + 1 = i /\ n - j + 1 = (n - m) + i /\ j \in 1 .. n
    BY <1>4
  <2>2. p[j] = h[m - j + 1] /\ q[j] = e[n - j + 1] /\ p[j] = q[j]
    BY <1>3, <1>4, <2>1
  <2> QED BY ONLY <2>1, <2>2
<1>5. ASSUME m <= n, \A i \in 1 .. m : h[i] = e[(n - m) + i], NEW j \in 1 .. m PROVE p[j] = q[j]
  <2>1. PICK i \in 1 .. m : i = m - j + 1 /\ n - j + 1 = (n - m) + i /\ j \in 1 .. n
    BY <1>5
  <2>2. p[j] = h[m - j + 1] /\ q[j] = e[n - j + 1] /\ h[i] = e[(n - m) + i]
    BY <1>3, <1>5, <2>1
  <2> QED BY ONLY <2>1, <2>2
<1> QED BY <1>2, <1>3, <1>4, <1>5

\* \o, with nothing known of it but what is said here.
Cat(s, t) == s \o t

LEMMA CatSeq ==
    ASSUME NEW V, NEW s \in Seq(V), NEW t \in Seq(V), NEW u \in Seq(V)
    PROVE  /\ Cat(s, t) \in Seq(V)
           /\ Cat(Cat(s, t), u) = Cat(s, Cat(t, u))
           /\ Cat(s, t) = Cat(s, u) => t = u
           /\ Cat(s, <<>>) = s /\ Cat(<<>>, s) = s
<1>1. s \o t \in Seq(V)
  OBVIOUS
<1>2. (s \o t) \o u = s \o (t \o u)
  BY ConcatAssociative
<1>3. s \o t = s \o u => t = u
  BY ConcatSimplifications
<1>4. s \o <<>> = s /\ <<>> \o s = s
  BY ConcatEmptySeq
<1> QED BY <1>1, <1>2, <1>3, <1>4 DEF Cat

\* A text and its beginning of n items, and what follows that.
LEMMA CutAt ==
    ASSUME NEW V, NEW s \in Seq(V), NEW n \in 0 .. Len(s)
    PROVE  \E h \in Seq(V), g \in Seq(V) :
              /\ h = SubSeq(s, 1, n) /\ g = SubSeq(s, n + 1, Len(s))
              /\ Len(h) = n /\ s = Cat(h, g)
              /\ \A i \in 1 .. n : h[i] = s[i]
<1>1. PICK m \in Nat : m = Len(s) /\ n \in Nat /\ n <= m
  OBVIOUS
<1>2. PICK b \in Nat : b = n + 1 /\ b - 1 = n
  BY <1>1
<1>3. PICK c \in Nat : c = m + 1 /\ c - 1 = m
  BY <1>1
<1>4. 1 <= b /\ b <= c /\ c <= Len(s) + 1 /\ 1 \in Nat \ {0}
  BY <1>1, <1>2, <1>3
<1>5. /\ SubSeq(s, 1, b - 1) \in Seq(V) /\ SubSeq(s, b, c - 1) \in Seq(V)
      /\ SubSeq(s, 1, c - 1) = SubSeq(s, 1, b - 1) \o SubSeq(s, b, c - 1)
  BY <1>4, SubSeqJoined
<1>6. SubSeq(s, 1, m) = s
  BY <1>1
<1>7. Len(SubSeq(s, 1, n)) = n /\ \A i \in 1 .. n : SubSeq(s, 1, n)[i] = s[i]
  BY <1>1
<1>8. PICK h \in Seq(V), g \in Seq(V) : h = SubSeq(s, 1, n) /\ g = SubSeq(s, b, m) /\ s = h \o g
  BY <1>2, <1>3, <1>5, <1>6
<1> QED BY <1>1, <1>2, <1>7, <1>8 DEF Cat

\* A text that falls into two.
FallsInto(u, s, t) == Len(s) \in 0 .. Len(u) /\ SubSeq(u, 1, Len(s)) = s /\ SubSeq(u, Len(s) + 1, Len(u)) = t

LEMMA UncutAt ==
    ASSUME NEW V, NEW s \in Seq(V), NEW t \in Seq(V)
    PROVE  FallsInto(Cat(s, t), s, t)
<1>1. PICK u \in Seq(V) : u = Cat(s, t)
  BY CatSeq
<1>2. Len(u) = Len(s) + Len(t) /\ \A k \in 1 .. Len(s) + Len(t) : u[k] = IF k <= Len(s) THEN s[k] ELSE t[k - Len(s)]
  BY <1>1, Joined DEF Cat
<1>3. PICK n \in 0 .. Len(u) : n = Len(s)
  BY <1>2
<1>4. PICK h \in Seq(V), g \in Seq(V) :
        /\ h = SubSeq(u, 1, n) /\ g = SubSeq(u, n + 1, Len(u))
        /\ Len(h) = n /\ u = Cat(h, g)
        /\ \A i \in 1 .. n : h[i] = u[i]
  BY CutAt
<1>5. \A i \in 1 .. Len(h) : h[i] = s[i]
  <2>1. \A i \in 1 .. Len(s) : i \in 1 .. Len(s) + Len(t) /\ i <= Len(s)
    OBVIOUS
  <2> QED BY <1>2, <1>3, <1>4, <2>1
<1>6. h = s
  BY <1>3, <1>4, <1>5, SameItems
<1>7. g = t
  <2>1. Cat(s, t) = Cat(s, g)
    BY <1>1, <1>4, <1>6
  <2> QED BY <2>1, CatSeq
<1> QED BY <1>1, <1>3, <1>4, <1>6, <1>7 DEF FallsInto

LEMMA SuffixOf ==
    ASSUME NEW V, NEW x \in Seq(V), NEW h \in Seq(V)
    PROVE  IsSuffix(h, Cat(x, h))
<1>1. PICK u \in Seq(V) : u = Cat(x, h)
  BY CatSeq
<1>2. Len(u) = Len(x) + Len(h) /\ \A k \in 1 .. Len(x) + Len(h) : u[k] = IF k <= Len(x) THEN x[k] ELSE h[k - Len(x)]
  BY <1>1, Joined DEF Cat
<1>3. PICK l \in Nat, m \in Nat : l = Len(x) /\ m = Len(h)
  OBVIOUS
<1>4. ASSUME NEW i \in 1 .. m PROVE h[i] = u[((l + m) - m) + i]
  <2>1. PICK k \in 1 .. l + m : k = ((l + m) - m) + i /\ ~(k <= l) /\ k - l = i
    OBVIOUS
  <2> QED BY <1>2, <1>3, <2>1
<1>5. m <= l + m
  OBVIOUS
<1> QED BY <1>1, <1>2, <1>3, <1>4, <1>5, SuffixMeans

LEMMA SuffixIs ==
    ASSUME NEW V, NEW h \in Seq(V), NEW e \in Seq(V), IsSuffix(h, e)
    PROVE  \E x \in Seq(V) : e = Cat(x, h)
<1>1. Len(h) <= Len(e) /\ \A i \in 1 .. Len(h) : h[i] = e[(Len(e) - Len(h)) + i]
  BY SuffixMeans
<1>2. PICK m \in Nat, n \in Nat : m = Len(h) /\ n = Len(e) /\ m <= n
  BY <1>1
<1>3. PICK l \in 0 .. Len(e) : l = n - m /\ n = l + m /\ l \in Nat
  <2>1. n - m \in 0 .. Len(e) /\ n = (n - m) + m /\ n - m \in Nat
    BY <1>2
  <2> QED BY <2>1
<1>4. PICK x \in Seq(V), t \in Seq(V) : Len(x) = l /\ e = Cat(x, t)
  BY CutAt
<1>5. Len(e) = Len(x) + Len(t) /\ \A k \in 1 .. Len(x) + Len(t) : e[k] = IF k <= Len(x) THEN x[k] ELSE t[k - Len(x)]
  BY <1>4, Joined DEF Cat
<1>6. Len(t) = m
  BY <1>2, <1>3, <1>4, <1>5
<1>7. ASSUME NEW i \in 1 .. m PROVE t[i] = h[i]
  <2>1. PICK k \in 1 .. l + m : k = l + i /\ ~(k <= l) /\ k - l = i
    BY <1>3
  <2>2. e[k] = t[i]
    BY <1>4, <1>5, <1>6, <2>1
  <2>3. h[i] = e[k]
    BY <1>1, <1>2, <1>3, <2>1
  <2> QED BY <2>2, <2>3
<1>8. t = h
  BY <1>2, <1>6, <1>7, SameItems
<1> QED BY <1>4, <1>8

LEMMA LargestIs ==
    ASSUME NEW T, NEW m \in Nat, T \subseteq 0 .. m, T # {}
    PROVE  Max(T) \in T /\ \A k \in T : k <= Max(T)
<1> DEFINE U == {m - k : k \in T}
<1>1. U \subseteq Nat /\ U # {}
  <2>1. ASSUME NEW k \in T PROVE m - k \in Nat
    <3>1. k \in 0 .. m
      OBVIOUS
    <3> QED BY <3>1
  <2>2. U \subseteq Nat
    BY <2>1
  <2>3. PICK k : k \in T
    OBVIOUS
  <2>4. m - k \in U
    BY <2>3
  <2> QED BY <2>2, <2>4
<1>2. PICK u \in U : \A v \in U : u <= v
  <2> HIDE DEF U
  <2> QED BY <1>1, LeastElement
<1>3. PICK t \in T : u = m - t
  OBVIOUS
<1>4. \A k \in T : t >= k
  <2> SUFFICES ASSUME NEW k \in T PROVE t >= k
    OBVIOUS
  <2>1. m - k \in U
    OBVIOUS
  <2>2. u <= m - k
    BY <1>2, <2>1
  <2>3. k \in 0 .. m /\ t \in 0 .. m
    OBVIOUS
  <2> HIDE DEF U
  <2> QED BY <1>3, <2>2, <2>3
<1>5. Max(T) \in T /\ \A k \in T : Max(T) >= k
  BY <1>4 DEF Max
<1> QED BY <1>5

\* What is dropped from a continuation: an end of what is there, no shorter
\* than any the continuation begins with.
LEMMA NovelIs ==
    ASSUME NEW V, NEW e \in Seq(V), NEW s \in Seq(V)
    PROVE  \E h \in Seq(V), x \in Seq(V) :
              /\ Novel(e, s) \in Seq(V) /\ s = Cat(h, Novel(e, s)) /\ e = Cat(x, h)
              /\ \A t \in Seq(V) : IsPrefix(t, s) /\ IsSuffix(t, e) /\ Len(t) <= Window => Len(t) <= Len(h)
<1> DEFINE T == {k \in 0 .. Len(s) : k <= Len(e) /\ k <= Window /\ IsSuffix(SubSeq(s, 1, k), e)}
<1>1. Len(s) \in Nat /\ Len(e) \in Nat /\ Window \in Nat /\ T \subseteq 0 .. Len(s)
  BY StreamAssumption
<1>2. 0 \in T
  <2>1. PICK u \in Seq(V) : u = <<>> /\ u = SubSeq(s, 1, 0)
    <3>1. <<>> \in Seq(V) /\ SubSeq(s, 1, 0) = <<>>
      OBVIOUS
    <3> QED BY <3>1
  <2>2. IsSuffix(u, Cat(e, u))
    BY SuffixOf
  <2>3. Cat(e, u) = e
    BY <2>1, CatSeq
  <2>4. IsSuffix(SubSeq(s, 1, 0), e)
    BY <2>1, <2>2, <2>3
  <2> QED BY <1>1, <2>4
<1>3. Novel(e, s) = SubSeq(s, Max(T) + 1, Len(s))
  BY DEF Novel
<1>4. ASSUME NEW t \in Seq(V), IsPrefix(t, s), IsSuffix(t, e), Len(t) <= Window PROVE Len(t) \in T
  <2>1. Len(t) <= Len(s) /\ (\A i \in 1 .. Len(t) : t[i] = s[i]) /\ Len(t) \in 0 .. Len(s)
    BY <1>1, <1>4, PrefixMeans
  <2>0. PICK n \in 0 .. Len(s) : n = Len(t)
    BY <2>1
  <2>2. PICK u \in Seq(V), g \in Seq(V) :
          /\ u = SubSeq(s, 1, n) /\ g = SubSeq(s, n + 1, Len(s))
          /\ Len(u) = n /\ s = Cat(u, g)
          /\ \A i \in 1 .. n : u[i] = s[i]
    BY CutAt
  <2>3. u = t
    BY <2>0, <2>1, <2>2, SameItems
  <2>4. Len(t) <= Len(e)
    BY <1>4, SuffixMeans
  <2> QED BY <1>4, <2>0, <2>1, <2>2, <2>3, <2>4
<1>5. \A k \in T : k \in 0 .. Len(s) /\ IsSuffix(SubSeq(s, 1, k), e)
  OBVIOUS
<1> HIDE DEF T
<1>6. PICK n \in 0 .. Len(s) : n \in T /\ n = Max(T) /\ \A k \in T : k <= n
  BY <1>1, <1>2, LargestIs
<1>7. PICK h \in Seq(V), g \in Seq(V) :
        /\ h = SubSeq(s, 1, n) /\ g = SubSeq(s, n + 1, Len(s))
        /\ Len(h) = n /\ s = Cat(h, g)
        /\ \A i \in 1 .. n : h[i] = s[i]
  BY CutAt
<1>8. PICK x \in Seq(V) : e = Cat(x, h)
  <2>1. IsSuffix(h, e)
    BY <1>5, <1>6, <1>7
  <2> QED BY <2>1, SuffixIs
<1>9. Novel(e, s) = g
  BY <1>3, <1>6, <1>7
<1> QED BY <1>4, <1>6, <1>7, <1>8, <1>9

LEMMA ToldNone ==
    ASSUME NEW V, NEW r \in Seq(V), NEW S, NEW a \in 1 .. Len(r) + 1
    PROVE  Told(r, S, a, a) = <<>>
<1>1. SubSeq(r, a, a - 1) \in Seq(V) /\ Len(SubSeq(r, a, a - 1)) = 0
  <2>1. a - 1 \in Int /\ a \in Int /\ ~(a <= a - 1)
    OBVIOUS
  <2> QED BY <2>1, SubSeqProperties
<1>2. SubSeq(r, a, a - 1) = <<>>
  BY <1>1
<1> QED BY <1>2, OnlyEmpty DEF Told

\* Prose(text), of a text.
LEMMA ProseIs ==
    ASSUME NEW s \in Seq(Text)
    PROVE  /\ WithoutJson(s) = Prose(s) /\ Prose(s) \in Seq(Text) /\ Prose(s) \in Seq(Letters)
           /\ Prose(Prose(s)) = Prose(s)
           /\ \A n \in DOMAIN Prose(s) : \E i \in DOMAIN s : Prose(s)[n] = s[i]
<1>1. Text \ {"json"} = Letters /\ Text \cap Letters = Letters /\ Letters \subseteq Text
  BY StreamAssumption DEF Text
<1>2. WithoutJson(s) = Prose(s)
  BY <1>1 DEF WithoutJson, Prose
<1>3. /\ Prose(s) \in Seq(Text \cap Letters)
      /\ \A n \in DOMAIN Prose(s) : \E i \in DOMAIN s : Prose(s)[n] = s[i]
  BY OnlyTyped DEF Prose
<1>4. Prose(s) \in Seq(Letters) /\ Prose(s) \in Seq(Text)
  BY <1>1, <1>3
<1>5. Prose(Prose(s)) = Prose(s)
  BY OnlyOnly DEF Prose
<1> QED BY <1>2, <1>3, <1>4, <1>5

LEMMA ProseJoined ==
    ASSUME NEW s \in Seq(Text), NEW t \in Seq(Text)
    PROVE  Prose(s \o t) = Prose(s) \o Prose(t)
BY OnlyJoined DEF Prose

LEMMA ProseCat ==
    ASSUME NEW s \in Seq(Text), NEW t \in Seq(Text)
    PROVE  Prose(Cat(s, t)) = Cat(Prose(s), Prose(t))
BY ProseJoined DEF Cat

LEMMA ToldText ==
    ASSUME NEW r \in Seq(Items), NEW a \in Nat \ {0}, NEW b \in Nat, a <= b, b <= Len(r) + 1
    PROVE  /\ Told(r, Text, a, b) \in Seq(Text) /\ Told(r, Letters, a, b) \in Seq(Text)
           /\ Prose(Told(r, Text, a, b)) = Told(r, Letters, a, b)
<1>1. Items \cap Text = Text /\ Items \cap Letters \subseteq Text /\ Letters \subseteq Text
  BY DEF Text, Items
<1>2. Told(r, Text, a, b) \in Seq(Items \cap Text)
  BY ToldTyped
<1>4. Told(r, Letters, a, b) \in Seq(Items \cap Letters)
  BY ToldTyped
<1>5. Told(r, Letters, a, b) \in Seq(Text)
  BY <1>1, <1>4
<1>6. Prose(Told(r, Text, a, b)) = Told(r, Letters, a, b)
  BY <1>1, ToldOf DEF Prose
<1> QED BY <1>1, <1>2, <1>5, <1>6

LEMMA ToldCat ==
    ASSUME NEW r \in Seq(Items), NEW S, NEW a \in Nat \ {0}, NEW b \in Nat, NEW c \in Nat,
           a <= b, b <= c, c <= Len(r) + 1
    PROVE  Told(r, S, a, c) = Cat(Told(r, S, a, b), Told(r, S, b, c))
BY ToldJoined DEF Cat

\* What is read of a reply up to a position, and what is still to be read.
LEMMA ToldBefore ==
    ASSUME NEW r \in Seq(Items), NEW s \in Seq(Text), NEW x \in Seq(Text), NEW b \in 1 .. Len(r) + 1,
           Cat(Prose(s), x) = Told(r, Letters, 1, b)
    PROVE  /\ IsPrefix(Prose(s), Prose(r))
           /\ x = <<>> /\ b = Len(r) + 1 => Prose(s) = Prose(r)
<1>1. b \in Nat /\ Len(r) + 1 \in Nat /\ 1 \in Nat \ {0} /\ 1 <= b /\ b <= Len(r) + 1 /\ b \in Nat \ {0} /\ Len(r) + 1 <= Len(r) + 1
  OBVIOUS
<1>2. Told(r, Letters, b, Len(r) + 1) \in Seq(Text)
  BY <1>1, ToldText
<1>3. Told(r, Letters, 1, Len(r) + 1) = Cat(Told(r, Letters, 1, b), Told(r, Letters, b, Len(r) + 1))
  BY <1>1, ToldCat
<1>4. Prose(r) = Told(r, Letters, 1, Len(r) + 1)
  BY ToldAll DEF Prose
<1>5. PICK v \in Seq(Text) : v = Told(r, Letters, b, Len(r) + 1)
  BY <1>2
<1>6. PICK w \in Seq(Text) : w = Prose(s)
  BY ProseIs
<1>7. Prose(r) = Cat(Cat(w, x), v)
  BY <1>3, <1>4, <1>5, <1>6
<1>8. Prose(r) = Cat(w, Cat(x, v)) /\ Cat(x, v) \in Seq(Text)
  BY <1>7, CatSeq
<1>9. PICK u \in Seq(Text) : u = Cat(x, v)
  BY <1>8
<1>10. IsPrefix(w, w \o u)
  BY PrefixOf
<1>11. IsPrefix(Prose(s), Prose(r))
  BY <1>6, <1>8, <1>9, <1>10 DEF Cat
<1>12. ASSUME x = <<>>, b = Len(r) + 1 PROVE Prose(s) = Prose(r)
  <2>1. v = <<>>
    <3>1. Len(r) + 1 \in 1 .. Len(r) + 1
      BY <1>1
    <3> QED BY <1>5, <1>12, <3>1, ToldNone
  <2>2. Cat(x, v) = x /\ Cat(w, x) = w
    BY <1>12, <2>1, CatSeq
  <2> QED BY <1>6, <1>8, <2>2
<1> QED BY <1>11, <1>12

KeptOf(c, p, whole) == IF whole THEN Cat(Prose(c), p) ELSE Prose(c)

\* What is kept of an attempt, and what it leaves out of the reply.
LEMMA KeptIsTold ==
    ASSUME NEW r \in Seq(Items), NEW c \in Seq(Text), NEW p \in Seq(Text),
           NEW a \in Nat \ {0}, NEW b \in Nat, a <= b, b <= Len(r) + 1,
           Cat(c, p) = Told(r, Text, a, b), NEW whole \in BOOLEAN
    PROVE  /\ KeptOf(c, p, whole) \in Seq(Text)
           /\ \E y \in Seq(Text) :
                 /\ Cat(Prose(KeptOf(c, p, whole)), y) = Told(r, Letters, a, Len(r) + 1)
                 /\ whole /\ b = Len(r) + 1 => y = <<>>
<1>1. PICK w \in Seq(Text), x \in Seq(Text) : w = Prose(c) /\ x = Prose(p) /\ Prose(w) = w
  <2>1. Prose(c) \in Seq(Text) /\ Prose(p) \in Seq(Text) /\ Prose(Prose(c)) = Prose(c)
    BY ProseIs
  <2> QED BY <2>1
<1>2. Len(r) + 1 \in Nat /\ b \in Nat \ {0} /\ Len(r) + 1 <= Len(r) + 1 /\ a <= Len(r) + 1
  OBVIOUS
<1>3. PICK v \in Seq(Text) : v = Told(r, Letters, b, Len(r) + 1)
  BY <1>2, ToldText
<1>4. Told(r, Letters, a, Len(r) + 1) = Cat(Told(r, Letters, a, b), v)
  BY <1>2, <1>3, ToldCat
<1>5. Told(r, Letters, a, b) = Cat(w, x)
  <2>1. Prose(Cat(c, p)) = Cat(w, x)
    BY <1>1, ProseJoined DEF Cat
  <2> QED BY <2>1, ToldText
<1>6. CASE whole
  <2>1. KeptOf(c, p, whole) = Cat(w, p) /\ Cat(w, p) \in Seq(Text)
    BY <1>1, <1>6, CatSeq DEF KeptOf
  <2>2. Prose(Cat(w, p)) = Cat(w, x)
    BY <1>1, ProseJoined DEF Cat
  <2>3. b = Len(r) + 1 => v = <<>>
    <3>1. Len(r) + 1 \in 1 .. Len(r) + 1
      BY <1>2
    <3> QED BY <1>3, <3>1, ToldNone
  <2> QED BY <1>4, <1>5, <2>1, <2>2, <2>3
<1>7. CASE ~whole
  <2>1. KeptOf(c, p, whole) = w
    BY <1>1, <1>7 DEF KeptOf
  <2>2. PICK y \in Seq(Text) : y = Cat(x, v)
    BY CatSeq
  <2>3. Cat(Prose(w), y) = Cat(Cat(w, x), v)
    BY <1>1, <2>2, CatSeq
  <2> QED BY <1>4, <1>5, <1>7, <2>1, <2>2, <2>3
<1> QED BY <1>6, <1>7

\* What follows the text that was there, when all that was said again is
\* recognized: what the reply goes on with but for its first n letters.
GoesOn(e, again, rest, news, y) ==
    \E n \in 0 .. Len(rest) :
       /\ IsSuffix(Cat(Prose(again), SubSeq(rest, 1, n)), Prose(e))
       /\ Cat(Prose(Cat(e, news)), y) = Cat(Prose(e), SubSeq(rest, n + 1, Len(rest)))

LEMMA Spliced ==
    ASSUME NEW e \in Seq(Text), NEW again \in Seq(Text), NEW x \in Seq(Text), e = Cat(x, again),
           NEW kept \in Seq(Text), IsPrefix(again, kept), Len(again) <= Window,
           NEW rest \in Seq(Text), NEW y \in Seq(Text), Cat(Prose(kept), y) = Cat(Prose(again), rest)
    PROVE  GoesOn(e, again, rest, Novel(e, kept), y)
<1>1. IsSuffix(again, e)
  BY SuffixOf
<1>2. PICK h \in Seq(Text), z \in Seq(Text) :
        /\ Novel(e, kept) \in Seq(Text) /\ kept = Cat(h, Novel(e, kept)) /\ e = Cat(z, h)
        /\ \A t \in Seq(Text) : IsPrefix(t, kept) /\ IsSuffix(t, e) /\ Len(t) <= Window => Len(t) <= Len(h)
  BY NovelIs
<1>3. PICK news \in Seq(Text) : news = Novel(e, kept) /\ kept = Cat(h, news)
  BY <1>2
<1>4. Len(again) <= Len(h)
  BY <1>1, <1>2
<1>5. PICK lost \in Seq(Text) : h = Cat(again, lost)
  <2>1. PICK n \in 0 .. Len(h) : n = Len(again)
    BY <1>4
  <2>2. PICK u \in Seq(Text), g \in Seq(Text) : Len(u) = n /\ h = Cat(u, g) /\ \A i \in 1 .. n : u[i] = h[i]
    BY CutAt
  <2>3. \A i \in 1 .. Len(h) : h[i] = kept[i]
    <3>1. IsPrefix(h, kept)
      BY <1>3, PrefixOf DEF Cat
    <3> QED BY <3>1, PrefixMeans
  <2>4. \A i \in 1 .. Len(again) : again[i] = kept[i] /\ i \in 1 .. Len(h)
    <3>1. \A i \in 1 .. Len(again) : i \in 1 .. Len(h)
      BY <1>4
    <3> QED BY <3>1, PrefixMeans
  <2>5. u = again
    <3>1. \A i \in 1 .. n : u[i] = again[i]
      BY <2>1, <2>2, <2>3, <2>4
    <3> QED BY <2>1, <2>2, <3>1, SameItems
  <2> QED BY <2>2, <2>5
<1>6. PICK R \in Seq(Text), L \in Seq(Text), N \in Seq(Text), Z \in Seq(Text), E \in Seq(Text) :
        R = Prose(again) /\ L = Prose(lost) /\ N = Prose(news) /\ Z = Prose(z) /\ E = Prose(e)
  BY ProseIs
<1>7. Prose(h) = Cat(R, L) /\ Cat(R, L) \in Seq(Text)
  BY <1>5, <1>6, ProseCat, CatSeq
<1>8. Prose(kept) = Cat(Cat(R, L), N)
  <2>1. Prose(Cat(h, news)) = Cat(Prose(h), Prose(news))
    BY ProseCat
  <2> QED BY <1>3, <1>6, <1>7, <2>1
<1>9. rest = Cat(L, Cat(N, y))
  <2>1. PICK H \in Seq(Text), K \in Seq(Text), M \in Seq(Text) : H = Cat(R, L) /\ M = Cat(N, y) /\ K = Cat(L, M)
    <3>1. PICK H \in Seq(Text), M \in Seq(Text) : H = Cat(R, L) /\ M = Cat(N, y)
      BY CatSeq
    <3>2. Cat(L, M) \in Seq(Text)
      BY CatSeq
    <3> QED BY <3>1, <3>2
  <2>2. Cat(Cat(H, N), y) = Cat(H, M)
    BY <2>1, CatSeq
  <2>3. Cat(H, M) = Cat(R, K)
    BY <2>1, CatSeq
  <2>4. Cat(R, K) = Cat(R, rest)
    BY <1>6, <1>8, <2>1, <2>2, <2>3
  <2> QED BY <2>1, <2>4, CatSeq
<1>10. PICK M \in Seq(Text) : M = Cat(N, y) /\ rest = Cat(L, M)
  BY <1>9, CatSeq
<1>11. /\ Len(L) \in 0 .. Len(rest)
       /\ SubSeq(rest, 1, Len(L)) = L /\ SubSeq(rest, Len(L) + 1, Len(rest)) = M
  <2>1. FallsInto(rest, L, M)
    BY <1>10, UncutAt
  <2> QED BY <2>1 DEF FallsInto
<1>12. IsSuffix(Cat(R, L), E)
  <2>1. E = Cat(Z, Cat(R, L))
    BY ONLY <1>2, <1>6, <1>7, h \in Seq(Text), z \in Seq(Text), ProseCat
  <2> QED BY <1>7, <2>1, SuffixOf
<1>13. Cat(Prose(Cat(e, news)), y) = Cat(E, M)
  <2>1. Prose(Cat(e, news)) = Cat(E, N)
    BY ONLY <1>3, <1>6, e \in Seq(Text), news \in Seq(Text), ProseCat
  <2> QED BY <1>10, <2>1, CatSeq
<1> QED BY <1>3, <1>6, <1>11, <1>12, <1>13 DEF GoesOn

-----------------------------------------------------------------------------
(* The text of a streamed answer.                                          *)

\* A text that is what the reply says up to its last item.
Reached(text) ==
    text = <<>> \/ \E d \in DOMAIN reply : reply[d] = Last(text) /\ text = Told(reply, Text, 1, d + 1)

\* Where an attempt began: at the first item, or not after the partial answer.
Began == IF Retrying THEN from \in 1 .. Onward ELSE from = 1

Said == from \in 1 .. at /\ Began /\ Cat(content, pending) = Told(reply, Text, from, at)

\* What has left the quarantine, as far as it is shown.
Remembered == IF Retrying THEN durable ELSE IF pc = "ask" THEN <<>> ELSE content

TextShape ==
    /\ pc \in {"ask", "stream", "close", "raised", "done", "failed"}
    /\ at <= Len(reply) + 1
    /\ durable \in Seq(Text) /\ saved \in Seq(Text)

Closing ==
    /\ finish = "stop" => at = Len(reply) + 1
    /\ finish = "live_steering" /\ native = "none" => Cat(content, pending) = <<>>

Answered ==
    /\ Prose(result.content) = Prose(saved)
    /\ ~Retrying => InOneStream
    /\ Retrying /\ Recognized => Continued
    /\ result.finish = "live_steering" /\ native = "none" /\ ~Retrying => result.content = <<>>

TextInv ==
    /\ TextShape
    /\ Reached(durable)
    /\ pc \in {"stream", "close"} => Said
    /\ pc = "raised" /\ ~Retrying => Reached(content)
    /\ pc \in {"ask", "stream", "close", "raised"} => saved = Remembered
    /\ pc = "failed" => saved = durable
    /\ emit => shown = saved
    /\ pc = "close" => Closing
    /\ pc = "done" => Answered

LEMMA InitText == StreamInit => TextInv
<1> SUFFICES ASSUME StreamInit PROVE TextInv
  OBVIOUS
<1>1. <<>> \in Seq(Text)
  OBVIOUS
<1>2. reply \in Seq(Items)
  BY ReplyOnce DEF StreamInit
<1>3. at <= Len(reply) + 1
  BY <1>2 DEF StreamInit
<1> QED BY <1>1, <1>3 DEF StreamInit, Fresh, TextInv, TextShape, Reached, Remembered, Retrying

\* Nothing but the clocks and marks of a request changes.
LEMMA QuietText ==
    ASSUME TextInv, UNCHANGED <<reply, emit, pc, durable, from, at, content, pending, native, wrapper, bad, finish, shown, saved, result>>
    PROVE  TextInv'
<1>1. UNCHANGED <<Onward, Retrying, Kept>>
  BY DEF Onward, Ends, Says, Retrying, Kept, Broken, WithoutJson
<1>2. Said => Said'
  BY <1>1 DEF Said, Began
<1>3. Answered => Answered'
  BY <1>1 DEF Answered, InOneStream, Continued, Recognized, Repeated, Says, Prose
<1>4. TextShape' /\ Reached(durable)' /\ (Reached(content) => Reached(content)') /\ Remembered' = Remembered
  BY <1>1 DEF TextInv, TextShape, Reached, Remembered
<1> QED BY <1>1, <1>2, <1>3, <1>4 DEF TextInv, Closing

\* A partial answer ends where the reply goes on.
LEMMA OnwardIs ==
    ASSUME TextInv, CallInv, Retrying
    PROVE  /\ Onward \in 1 .. Len(reply) + 1
           /\ durable = Told(reply, Text, 1, Onward)
<1>1. PICK d \in DOMAIN reply : reply[d] = Last(durable) /\ durable = Told(reply, Text, 1, d + 1)
  BY DEF TextInv, Reached, Retrying
<1>2. reply \in Seq(Items) /\ durable \in Seq(Text) /\ durable # <<>>
  BY ReplyOnce DEF CallInv, StreamShape, TextInv, TextShape, Retrying
<1>3. Last(durable) \in Text
  BY <1>2 DEF Last
<1>4. d + 1 \in 1 .. Len(reply) + 1 /\ d + 1 > 1 /\ (d + 1) - 1 = d
  BY <1>2
<1>5. Ends(durable, d + 1)
  BY <1>1, <1>3, <1>4 DEF Ends, Says, Told
<1>6. \E i \in 1 .. Len(reply) + 1 : Ends(durable, i)
  BY <1>4, <1>5
<1>7. Onward \in 1 .. Len(reply) + 1 /\ Ends(durable, Onward)
  BY <1>6 DEF Onward
<1> QED BY <1>7 DEF Ends, Says, Told

LEMMA AskText == ASSUME TextInv, CallInv, Ask PROVE TextInv'
<1>1. /\ pc = "ask" /\ pc' = "stream" /\ at' \in StartsAt /\ from' = at' /\ content' = <<>> /\ pending' = <<>>
      /\ UNCHANGED <<reply, emit, durable, shown, saved, result>>
  BY DEF Ask, chain, output
<1>2. reply \in Seq(Items) /\ Len(reply) \in Nat
  BY ReplyOnce DEF CallInv, StreamShape
<1>0. UNCHANGED <<Onward, Retrying>>
  BY <1>1 DEF Onward, Ends, Says, Retrying
<1>3. at' \in 1 .. Len(reply) + 1 /\ Began'
  <2>1. CASE Retrying
    <3>1. PICK o \in 1 .. Len(reply) + 1 : o = Onward
      BY <2>1, OnwardIs
    <3>2. at' \in {o} \cup {i \in 1 .. o - 1 : reply[i] \in Text /\ Len(Says(i, o)) <= Overlap}
      BY <1>1, <2>1, <3>1 DEF StartsAt
    <3>3. at' \in 1 .. o /\ at' \in 1 .. Len(reply) + 1
      BY <1>2, <3>2
    <3> QED BY <1>0, <1>1, <2>1, <3>1, <3>3 DEF Began
  <2>2. CASE ~Retrying
    <3>1. at' = 1
      BY <1>1, <2>2 DEF StartsAt
    <3> QED BY <1>0, <1>1, <1>2, <2>2, <3>1 DEF Began
  <2> QED BY <2>1, <2>2
<1>4. Said'
  <2>0. PICK r \in Seq(Items) : r = reply
    BY <1>2
  <2>1. PICK a \in 1 .. Len(r) + 1 : r = reply /\ a = at'
    BY <1>3, <2>0
  <2>2. Told(r, Text, a, a) = <<>>
    BY ToldNone
  <2>3. Cat(content', pending') = <<>>
    <3>1. PICK u \in Seq(Text) : u = <<>>
      <4>1. <<>> \in Seq(Text)
        OBVIOUS
      <4> QED BY <4>1
    <3>2. Cat(u, <<>>) = u
      BY CatSeq
    <3> QED BY <1>1, <3>1, <3>2
  <2>4. from' \in 1 .. at'
    BY <1>1, <2>1
  <2> QED BY <1>1, <1>3, <2>1, <2>2, <2>3, <2>4 DEF Said
<1>5. saved' = Remembered'
  BY <1>1 DEF TextInv, Remembered, Retrying
<1>6. TextShape' /\ Reached(durable)'
  BY <1>1, <1>2, <1>3 DEF TextInv, TextShape, Reached
<1>7. emit' => shown' = saved'
  BY <1>1 DEF TextInv
<1> QED BY <1>1, <1>4, <1>5, <1>6, <1>7 DEF TextInv

\* What an attempt has said grows by the item that it reads.
LEMMA ReadsOn ==
    ASSUME TextInv, CallInv, NEW item, Reads(item)
    PROVE  /\ pc = "stream" /\ pc' = "stream" /\ at' = at + 1 /\ at' <= Len(reply) + 1 /\ item \in Items
           /\ UNCHANGED <<reply, emit, durable, finish, result>>
           /\ from' \in 1 .. at' /\ Began'
           /\ Told(reply', Text, from', at') = Cat(Cat(content, pending), IF item \in Text THEN <<item>> ELSE <<>>)
<1>1. /\ pc = "stream" /\ pc' = "stream" /\ at' = at + 1 /\ at <= Len(reply) /\ item = reply[at]
      /\ UNCHANGED <<reply, emit, from, durable, finish, result>>
  BY DEF Reads, chain
<1>2. reply \in Seq(Items) /\ at \in Nat \ {0} /\ Len(reply) \in Nat
  BY ReplyOnce DEF CallInv, StreamShape
<1>3. PICK a \in 1 .. at : a = from /\ Began /\ Cat(content, pending) = Told(reply, Text, a, at)
  BY <1>1 DEF TextInv, Said
<1>4. PICK r \in Seq(Items) : r = reply
  BY <1>2
<1>5. PICK b \in 1 .. Len(r) : b = at
  BY <1>1, <1>2, <1>4
<1>6. a \in Nat \ {0} /\ b \in Nat /\ b + 1 \in Nat /\ a <= b /\ b <= b + 1 /\ b + 1 <= Len(r) + 1
  BY <1>2, <1>4, <1>5
<1>7. Told(r, Text, a, b + 1) = Cat(Told(r, Text, a, b), Told(r, Text, b, b + 1))
  BY <1>6, ToldCat
<1>8. Told(r, Text, b, b + 1) = IF r[b] \in Text THEN <<r[b]>> ELSE <<>>
  BY ToldOne
<1>9. item \in Items /\ at' <= Len(reply) + 1
  BY <1>1, <1>2
<1>10. a \in 1 .. at' /\ Began'
  <2>1. Began'
    BY <1>1, <1>3 DEF Began, Retrying, Onward, Ends, Says
  <2> QED BY <1>1, <1>2, <2>1
<1>11. Told(reply', Text, a, at') = Cat(Cat(content, pending), IF item \in Text THEN <<item>> ELSE <<>>)
  BY <1>1, <1>3, <1>4, <1>5, <1>7, <1>8
<1> QED BY <1>1, <1>3, <1>9, <1>10, <1>11

LEMMA ReadTextText == ASSUME TextInv, CallInv, ReadText PROVE TextInv'
<1>0. PICK item : item = reply[at]
  OBVIOUS
<1> DEFINE held == Append(pending, item)
           n    == IF Len(held) > Lag THEN Len(held) - Lag ELSE 0
<1>1. item \in Text /\ Reads(item)
  BY <1>0 DEF ReadText
<1>2. content \in Seq(Text) /\ pending \in Seq(Text)
  BY DEF CallInv, StreamShape
<1>3. n \in 0 .. Len(pending) + 1
  BY <1>1, <1>2, StreamAssumption
<1>4. content' = content \o SubSeq(held, 1, n) /\ pending' = SubSeq(held, n + 1, Len(held))
  BY <1>0 DEF ReadText, Forward
<1>5. /\ saved' = IF Retrying THEN saved ELSE saved \o SubSeq(held, 1, n)
      /\ shown' = IF Retrying \/ ~emit THEN shown ELSE shown \o SubSeq(held, 1, n)
  BY <1>0 DEF ReadText, Forward
<1> HIDE DEF n
<1>6. content' \in Seq(Text) /\ pending' \in Seq(Text) /\ content' \o pending' = Append(content \o pending, item)
  BY <1>1, <1>2, <1>3, <1>4, Grows
<1>7. Cat(content', pending') = Cat(Cat(content, pending), <<item>>)
  <2>1. PICK s \in Seq(Text) : s = content \o pending
    <3>1. Cat(content, pending) \in Seq(Text)
      BY <1>2, CatSeq
    <3> QED BY <3>1 DEF Cat
  <2>2. Append(s, item) = s \o <<item>>
    BY <1>1
  <2> QED BY <1>6, <2>1, <2>2 DEF Cat
<1> HIDE DEF held
<1>8. /\ pc = "stream" /\ pc' = "stream" /\ at' = at + 1 /\ at' <= Len(reply) + 1
      /\ UNCHANGED <<reply, emit, durable, finish, result>>
      /\ Said'
  <2>1. /\ pc = "stream" /\ pc' = "stream" /\ at' = at + 1 /\ at' <= Len(reply) + 1
        /\ UNCHANGED <<reply, emit, durable, finish, result>>
        /\ from' \in 1 .. at' /\ Began'
        /\ Told(reply', Text, from', at') = Cat(Cat(content, pending), IF item \in Text THEN <<item>> ELSE <<>>)
    BY <1>1, ReadsOn
  <2> QED BY <1>1, <1>7, <2>1 DEF Said
<1>9. saved = IF Retrying THEN durable ELSE content
  BY <1>8 DEF TextInv, Remembered
<1>10. saved' = IF Retrying THEN durable ELSE content'
  BY <1>4, <1>5, <1>9
<1>11. emit' => shown' = saved'
  BY <1>5, <1>8 DEF TextInv
<1>12. saved' \in Seq(Text) /\ durable' \in Seq(Text)
  BY <1>6, <1>8, <1>10 DEF TextInv, TextShape
<1>13. TextShape'
  BY <1>8, <1>12 DEF TextShape
<1>14. Reached(durable)' /\ saved' = Remembered'
  BY <1>8, <1>10 DEF TextInv, Reached, Remembered, Retrying
<1> QED BY <1>8, <1>11, <1>13, <1>14 DEF TextInv

LEMMA ReadOtherText == ASSUME TextInv, CallInv, ReadMarkup \/ ReadWrapper \/ ReadCall PROVE TextInv'
<1>1. PICK item : Reads(item) /\ item \in {"markup", "wrapper", "call", "args"} /\ UNCHANGED <<content, pending, shown, saved>>
  BY DEF ReadMarkup, ReadWrapper, ReadCall
<1>2. item \notin Text
  BY <1>1, StreamAssumption DEF Text
<1>3. content \in Seq(Text) /\ pending \in Seq(Text)
  BY DEF CallInv, StreamShape
<1>4. Cat(Cat(content, pending), <<>>) = Cat(content, pending)
  <2>1. Cat(content, pending) \in Seq(Text)
    BY <1>3, CatSeq
  <2>2. PICK s \in Seq(Text) : s = Cat(content, pending)
    BY <2>1
  <2> QED BY <2>2, CatSeq
<1>5. /\ pc = "stream" /\ pc' = "stream" /\ at' = at + 1 /\ at' <= Len(reply) + 1
      /\ UNCHANGED <<reply, emit, durable, finish, result>>
      /\ Said'
  <2>1. /\ pc = "stream" /\ pc' = "stream" /\ at' = at + 1 /\ at' <= Len(reply) + 1
        /\ UNCHANGED <<reply, emit, durable, finish, result>>
        /\ from' \in 1 .. at' /\ Began'
        /\ Told(reply', Text, from', at') = Cat(Cat(content, pending), IF item \in Text THEN <<item>> ELSE <<>>)
    BY <1>1, ReadsOn
  <2> QED BY <1>1, <1>2, <1>4, <2>1 DEF Said
<1>6. TextShape' /\ Reached(durable)' /\ saved' = Remembered' /\ (emit' => shown' = saved')
  BY <1>1, <1>5 DEF TextInv, TextShape, Reached, Remembered, Retrying
<1> QED BY <1>5, <1>6 DEF TextInv

LEMMA FailsText == ASSUME TextInv, CallInv, RequestFails PROVE TextInv'
<1>1. /\ pc = "ask" /\ pc' = "raised" /\ content' = <<>> /\ UNCHANGED <<reply, emit, at, durable, shown, saved, result>>
  BY DEF RequestFails, chain, output
<1>2. saved' = Remembered' /\ Reached(content)' /\ Reached(durable)' /\ TextShape' /\ (emit' => shown' = saved')
  BY <1>1 DEF TextInv, TextShape, Reached, Remembered, Retrying
<1> QED BY <1>1, <1>2 DEF TextInv

LEMMA StopText ==
    ASSUME TextInv, CallInv, GoesBad \/ PreemptWrite \/ StreamEnds \/ StreamBreaks \/ TimesOut \/ SteeringCuts
    PROVE  TextInv'
<1>1. PICK reason, e : Stops(reason, e)
  BY DEF GoesBad, PreemptWrite, StreamEnds, StreamBreaks, TimesOut, SteeringCuts
<1>2. /\ pc = "stream" /\ pc' = "close" /\ UNCHANGED <<reply, emit, at, content, pending, native, durable, shown, saved, result>>
  BY <1>1 DEF Stops, chain, output, GoesBad, PreemptWrite, StreamEnds, StreamBreaks, TimesOut, SteeringCuts
<1>3. content \in Seq(Text) /\ pending \in Seq(Text) /\ reply \in Seq(Items) /\ at \in Nat
  BY ReplyOnce DEF CallInv, StreamShape
<1>4. Closing'
  <2>1. ASSUME finish' = "stop" PROVE at' = Len(reply') + 1
    <3>1. at > Len(reply)
      BY <2>1 DEF Stops, GoesBad, PreemptWrite, StreamEnds, StreamBreaks, TimesOut, SteeringCuts
    <3>2. at <= Len(reply) + 1 /\ Len(reply) \in Nat
      BY <1>3 DEF TextInv, TextShape
    <3> QED BY <1>2, <1>3, <3>1, <3>2
  <2>2. ASSUME finish' = "live_steering", native' = "none" PROVE Cat(content', pending') = <<>>
    <3>1. ~Writing
      BY <2>2 DEF Stops, GoesBad, PreemptWrite, StreamEnds, StreamBreaks, TimesOut, SteeringCuts
    <3> QED BY <1>2, <2>2, <3>1 DEF Writing, Cat
  <2> QED BY <2>1, <2>2 DEF Closing
<1>5. Said'
  <2>1. UNCHANGED from
    BY <1>1 DEF Stops, GoesBad, PreemptWrite, StreamEnds, StreamBreaks, TimesOut, SteeringCuts
  <2> QED BY <1>2, <2>1 DEF TextInv, Said, Began, Retrying, Onward, Ends, Says
<1>6. TextShape' /\ Reached(durable)' /\ saved' = Remembered' /\ (emit' => shown' = saved')
  BY <1>2 DEF TextInv, TextShape, Reached, Remembered, Retrying
<1> QED BY <1>2, <1>4, <1>5, <1>6 DEF TextInv

\* All that was said of the reply up to a position ends with one of its items.
LEMMA ReachedHere ==
    ASSUME NEW r \in Seq(Items), NEW b \in 1 .. Len(r) + 1, NEW s, s = Told(r, Text, 1, b)
    PROVE  s = <<>> \/ \E d \in DOMAIN r : r[d] = Last(s) /\ s = Told(r, Text, 1, d + 1)
<1>1. b - 1 \in 0 .. Len(r) /\ Len(r) \in Nat /\ b - 1 \in Nat
  OBVIOUS
<1>2. PICK n \in 0 .. Len(r) : n = b - 1
  BY <1>1
<1>3. /\ SubSeq(r, 1, n) \in Seq(Items) /\ Len(SubSeq(r, 1, n)) = n
      /\ \A i \in 1 .. n : SubSeq(r, 1, n)[i] = r[i]
  BY <1>1
<1>4. PICK u \in Seq(Items) : u = SubSeq(r, 1, n)
  BY <1>3
<1>5. s = Only(u, Text)
  BY <1>2, <1>4 DEF Told
<1>6. ASSUME s # <<>> PROVE \E d \in DOMAIN r : r[d] = Last(s) /\ s = Told(r, Text, 1, d + 1)
  <2>1. PICK d \in DOMAIN u : u[d] = Last(Only(u, Text)) /\ Only(u, Text) = Only(SubSeq(u, 1, d), Text)
    BY <1>5, <1>6, OnlyEnds
  <2>2. d \in 1 .. n /\ d \in DOMAIN r /\ d \in Nat
    BY <1>1, <1>3, <1>4
  <2>3. SubSeq(u, 1, d) = SubSeq(r, 1, d)
    <3>1. SubSeq(u, 1, d) \in Seq(Items) /\ Len(SubSeq(u, 1, d)) = d /\ \A i \in 1 .. d : SubSeq(u, 1, d)[i] = u[i]
      BY <1>3, <1>4, <2>2
    <3>2. SubSeq(r, 1, d) \in Seq(Items) /\ Len(SubSeq(r, 1, d)) = d /\ \A i \in 1 .. d : SubSeq(r, 1, d)[i] = r[i]
      BY <2>2
    <3>3. \A i \in 1 .. d : u[i] = r[i]
      <4>1. \A i \in 1 .. d : i \in 1 .. n
        BY <1>1, <2>2
      <4> QED BY <1>3, <1>4, <4>1
    <3> QED BY <3>1, <3>2, <3>3, SameItems
  <2>4. (d + 1) - 1 = d
    BY <2>2
  <2>5. r[d] = Last(s) /\ s = Told(r, Text, 1, d + 1)
    BY <1>3, <1>4, <1>5, <2>1, <2>2, <2>3, <2>4 DEF Told
  <2> QED BY <2>2, <2>5
<1> QED BY <1>6

LEMMA CloseErrorText == ASSUME TextInv, CallInv, CloseWithError PROVE TextInv'
<1>1. /\ pc = "close" /\ pc' = "raised" /\ content' = content \o pending
      /\ saved' = IF Retrying THEN saved ELSE saved \o pending
      /\ shown' = IF Retrying \/ ~emit THEN shown ELSE shown \o pending
      /\ UNCHANGED <<reply, emit, at, durable, pending, result>>
  BY DEF CloseWithError, Forward, chain
<1>2. content \in Seq(Text) /\ pending \in Seq(Text) /\ reply \in Seq(Items) /\ at \in Nat \ {0}
  BY ReplyOnce DEF CallInv, StreamShape
<1>3. saved = IF Retrying THEN durable ELSE content
  BY <1>1 DEF TextInv, Remembered
<1>4. saved' = (IF Retrying THEN durable ELSE content') /\ (emit' => shown' = saved')
  BY <1>1, <1>3 DEF TextInv
<1>5. content' \in Seq(Text)
  BY <1>1, <1>2, CatSeq DEF Cat
<1>6. ASSUME ~Retrying PROVE Reached(content)'
  <2>1. content' = Told(reply, Text, 1, at)
    BY <1>1, <1>6 DEF TextInv, Said, Began, Cat
  <2>2. PICK r \in Seq(Items) : r = reply
    BY <1>2
  <2>3. PICK b \in 1 .. Len(r) + 1 : b = at
    BY <1>2, <2>2 DEF TextInv, TextShape
  <2>4. content' = <<>> \/ \E d \in DOMAIN r : r[d] = Last(content') /\ content' = Told(r, Text, 1, d + 1)
    BY <2>1, <2>2, <2>3, ReachedHere
  <2> QED BY <1>1, <2>2, <2>4 DEF Reached
<1>7. TextShape' /\ Reached(durable)' /\ saved' = Remembered'
  BY <1>1, <1>4, <1>5 DEF TextInv, TextShape, Reached, Remembered, Retrying
<1> QED BY <1>1, <1>4, <1>6, <1>7 DEF TextInv, Retrying

LEMMA RecoverText == ASSUME TextInv, CallInv, Reconnect \/ FallBack \/ GiveUp PROVE TextInv'
<1>1. /\ pc = "raised" /\ pc' \in {"ask", "failed"} /\ durable' = Partial
      /\ saved' = (IF Partial # <<>> THEN Partial ELSE saved) \/ saved' = saved \/ saved' = Partial
      /\ UNCHANGED <<reply, emit, at, content, shown, result>>
  BY DEF Reconnect, FallBack, GiveUp, Resume, request
<1>2. saved = Partial /\ Reached(Partial)
  BY <1>1 DEF TextInv, Remembered, Partial
<1>3. saved' = Partial /\ (emit' => shown' = saved')
  BY <1>1, <1>2 DEF TextInv
<1>4. saved' \in Seq(Text)
  BY <1>2, <1>3 DEF TextInv, TextShape
<1>5. TextShape' /\ Reached(durable)' /\ (pc' = "ask" => saved' = Remembered')
  BY <1>1, <1>2, <1>3, <1>4 DEF TextInv, TextShape, Reached, Remembered, Retrying
<1> QED BY <1>1, <1>3, <1>5 DEF TextInv

LEMMA ReachedFits ==
    ASSUME NEW r \in Seq(Items), NEW s \in Seq(Text),
           s = <<>> \/ \E d \in DOMAIN r : r[d] = Last(s) /\ s = Told(r, Text, 1, d + 1)
    PROVE  IsPrefix(Prose(s), Prose(r))
<1>1. PICK b \in 1 .. Len(r) + 1 : Prose(s) = Told(r, Letters, 1, b)
  <2>1. CASE s = <<>>
    <3>1. 1 \in 1 .. Len(r) + 1
      OBVIOUS
    <3>2. Told(r, Letters, 1, 1) = <<>>
      BY <3>1, ToldNone
    <3> QED BY <2>1, <3>1, <3>2, OnlyEmpty DEF Prose
  <2>2. ASSUME NEW d \in DOMAIN r, s = Told(r, Text, 1, d + 1) PROVE \E b \in 1 .. Len(r) + 1 : Prose(s) = Told(r, Letters, 1, b)
    <3>1. d + 1 \in Nat /\ 1 \in Nat \ {0} /\ 1 <= d + 1 /\ d + 1 <= Len(r) + 1 /\ d + 1 \in 1 .. Len(r) + 1
      OBVIOUS
    <3> QED BY <2>2, <3>1, ToldText
  <2> QED BY <2>1, <2>2
<1>2. PICK u \in Seq(Text), w \in Seq(Text) : u = <<>> /\ w = Prose(s)
  <2>1. <<>> \in Seq(Text) /\ Prose(s) \in Seq(Text)
    BY ProseIs
  <2> QED BY <2>1
<1>3. Cat(w, u) = w
  BY <1>2, CatSeq
<1>4. Cat(Prose(s), u) = Told(r, Letters, 1, b)
  BY <1>1, <1>2, <1>3
<1> QED BY <1>4, ToldBefore

\* What is saved, before the answer is handed on, is a beginning of the reply.
LEMMA SavedFits == ASSUME TextInv, CallInv, pc # "done" PROVE IsPrefix(Prose(saved), Prose(reply))
<1>1. PICK r \in Seq(Items), s \in Seq(Text) : r = reply /\ s = saved
  BY ReplyOnce DEF CallInv, StreamShape, TextInv, TextShape
<1>2. CASE s = <<>> \/ \E d \in DOMAIN r : r[d] = Last(s) /\ s = Told(r, Text, 1, d + 1)
  BY <1>1, <1>2, ReachedFits
<1>3. CASE ~Retrying /\ pc \in {"stream", "close"}
  <2>1. content \in Seq(Text) /\ pending \in Seq(Text) /\ at \in Nat \ {0} /\ at <= Len(reply) + 1
    BY DEF CallInv, StreamShape, TextInv, TextShape
  <2>2. saved = content /\ Cat(content, pending) = Told(reply, Text, 1, at)
    BY <1>3 DEF TextInv, Remembered, Said, Began
  <2>3. PICK b \in 1 .. Len(r) + 1 : b = at
    BY <1>1, <2>1
  <2>4. PICK t \in Seq(Text) : t = pending
    BY <2>1
  <2>5. Cat(s, t) = Told(r, Text, 1, b)
    BY <1>1, <2>2, <2>3, <2>4
  <2>6. Prose(Cat(s, t)) = Told(r, Letters, 1, b)
    <3>1. b \in Nat /\ 1 \in Nat \ {0} /\ 1 <= b /\ b <= Len(r) + 1
      OBVIOUS
    <3> QED BY <2>5, <3>1, ToldText
  <2>7. PICK x \in Seq(Text) : x = Prose(t)
    BY ProseIs
  <2>8. Cat(Prose(s), x) = Told(r, Letters, 1, b)
    BY <2>6, <2>7, ProseJoined DEF Cat
  <2> QED BY <1>1, <2>8, ToldBefore
<1>4. Retrying \/ pc \in {"ask", "raised", "failed"} => s = <<>> \/ \E d \in DOMAIN r : r[d] = Last(s) /\ s = Told(r, Text, 1, d + 1)
  <2>1. Retrying \/ pc \in {"ask", "raised", "failed"} => Reached(saved)
    BY DEF TextInv, TextShape, Remembered, Reached
  <2> QED BY <1>1, <2>1 DEF Reached
<1> QED BY <1>2, <1>3, <1>4 DEF TextInv, TextShape

\* The answer of a request that continues nothing.
LEMMA AnsweredAtOnce ==
    ASSUME NEW r \in Seq(Items), NEW c \in Seq(Text), NEW p \in Seq(Text), NEW b \in 1 .. Len(r) + 1,
           Cat(c, p) = Told(r, Text, 1, b),
           NEW whole \in BOOLEAN, NEW s, s = IF whole THEN Cat(c, p) ELSE c,
           NEW k, k = IF whole THEN Cat(Prose(c), p) ELSE Prose(c)
    PROVE  /\ s \in Seq(Text) /\ Prose(k) = Prose(s)
           /\ IsPrefix(Prose(s), Prose(r))
           /\ whole /\ b = Len(r) + 1 => Prose(s) = Prose(r)
<1>1. PICK w \in Seq(Text), x \in Seq(Text) : w = Prose(c) /\ x = Prose(p) /\ Prose(w) = w
  <2>1. Prose(c) \in Seq(Text) /\ Prose(p) \in Seq(Text) /\ Prose(Prose(c)) = Prose(c)
    BY ProseIs
  <2> QED BY <2>1
<1>2. Prose(Cat(c, p)) = Cat(w, x)
  BY <1>1, ProseJoined DEF Cat
<1>3. Prose(Cat(w, p)) = Cat(w, x)
  BY <1>1, ProseJoined DEF Cat
<1>4. Cat(w, x) = Told(r, Letters, 1, b)
  <2>1. b \in Nat /\ 1 \in Nat \ {0} /\ 1 <= b /\ b <= Len(r) + 1
    OBVIOUS
  <2> QED BY <1>2, <2>1, ToldText
<1>5. CASE whole
  <2>1. PICK t \in Seq(Text), u \in Seq(Text) : t = Cat(c, p) /\ u = <<>>
    <3>1. Cat(c, p) \in Seq(Text) /\ <<>> \in Seq(Text)
      BY CatSeq
    <3> QED BY <3>1
  <2>2. Prose(t) = Cat(w, x) /\ Cat(w, x) \in Seq(Text)
    BY <1>2, <2>1, CatSeq
  <2>3. Cat(Prose(t), u) = Prose(t)
    <3>1. PICK v \in Seq(Text) : v = Prose(t)
      BY <2>2
    <3> QED BY <2>1, <3>1, CatSeq
  <2>4. Cat(Prose(t), u) = Told(r, Letters, 1, b)
    BY <1>4, <2>2, <2>3
  <2>5. IsPrefix(Prose(t), Prose(r)) /\ (b = Len(r) + 1 => Prose(t) = Prose(r))
    BY <2>1, <2>4, ToldBefore
  <2>6. s = t /\ k = Cat(w, p)
    BY <1>1, <1>5, <2>1
  <2> QED BY <1>3, <2>2, <2>5, <2>6
<1>6. CASE ~whole
  <2>1. Cat(Prose(c), x) = Told(r, Letters, 1, b)
    BY <1>1, <1>4
  <2>2. IsPrefix(Prose(c), Prose(r))
    BY <2>1, ToldBefore
  <2>3. s = c /\ k = w
    BY <1>1, <1>6
  <2> QED BY <1>1, <1>6, <2>2, <2>3
<1> QED BY <1>5, <1>6

LEMMA CloseAnswerText == ASSUME TextInv, CallInv, CloseWithAnswer PROVE TextInv'
<1> DEFINE whole == ~Broken
           news == IF Retrying THEN Novel(durable, Kept) ELSE IF Broken THEN <<>> ELSE pending
<1>1. /\ pc = "close" /\ pc' = "done" /\ saved' = saved \o news
      /\ shown' = IF emit THEN shown \o news ELSE shown
      /\ result'.content = IF Retrying THEN durable \o news ELSE Kept
      /\ result'.finish = IF Broken THEN "corrupted" ELSE finish
      /\ UNCHANGED <<reply, emit, from, at, content, pending, native, wrapper, bad, durable>>
  BY DEF CloseWithAnswer, request, chain
<1>2. PICK r \in Seq(Items), c \in Seq(Text), p \in Seq(Text) : r = reply /\ c = content /\ p = pending
  BY ReplyOnce DEF CallInv, StreamShape
<1>3. PICK b \in 1 .. Len(r) + 1 : b = at
  BY <1>2 DEF CallInv, StreamShape, TextInv, TextShape
<1>4. Kept = (IF whole THEN Cat(Prose(c), p) ELSE Prose(c)) /\ Prose(c) \in Seq(Text)
  BY <1>2, ProseIs DEF Kept, Cat
<1>5. saved = IF Retrying THEN durable ELSE content
  BY <1>1 DEF TextInv, Remembered
<1>6. Said /\ Closing
  BY <1>1 DEF TextInv
<1>7. whole \in BOOLEAN
  OBVIOUS
<1>8. CASE ~Retrying
  <2>1. Cat(c, p) = Told(r, Text, 1, b)
    BY <1>2, <1>3, <1>6, <1>8 DEF Said, Began
  <2>2. saved' = IF whole THEN Cat(c, p) ELSE c
    <3>1. c \o <<>> = c
      OBVIOUS
    <3> QED BY <1>1, <1>2, <1>5, <1>8, <3>1 DEF Cat
  <2>3. result'.content = IF whole THEN Cat(Prose(c), p) ELSE Prose(c)
    BY <1>1, <1>4, <1>8
  <2>4. PICK s, k : s = saved' /\ k = result'.content
    OBVIOUS
  <2>5. s = (IF whole THEN Cat(c, p) ELSE c) /\ k = (IF whole THEN Cat(Prose(c), p) ELSE Prose(c))
    BY <2>2, <2>3, <2>4
  <2>6. PICK all \in BOOLEAN : all <=> whole
    BY <1>7
  <2>7. s = (IF all THEN Cat(c, p) ELSE c) /\ k = (IF all THEN Cat(Prose(c), p) ELSE Prose(c))
    BY <2>5, <2>6
  <2>8. /\ s \in Seq(Text) /\ Prose(k) = Prose(s)
        /\ IsPrefix(Prose(s), Prose(r))
        /\ all /\ b = Len(r) + 1 => Prose(s) = Prose(r)
    BY <2>1, <2>7, AnsweredAtOnce
  <2>9. ASSUME result'.finish = "stop" PROVE Prose(s) = Prose(r)
    <3>1. whole /\ finish = "stop"
      BY <1>1, <2>9
    <3> QED BY <1>2, <1>3, <1>6, <2>6, <2>8, <3>1 DEF Closing
  <2>10. ASSUME result'.finish = "live_steering", native' = "none" PROVE result'.content = <<>>
    <3>1. whole /\ Cat(content, pending) = <<>>
      BY <1>1, <1>6, <2>10 DEF Closing
    <3>2. c = <<>> /\ p = <<>>
      BY <1>2, <3>1, ConcatSimplifications DEF Cat
    <3>3. Prose(c) = <<>>
      BY <3>2, OnlyEmpty DEF Prose
    <3> QED BY <2>3, <3>1, <3>2, <3>3 DEF Cat
  <2>11. Answered'
    <3>1. /\ Prose(saved') = Prose(s) /\ Prose(reply') = Prose(r) /\ Prose(result'.content) = Prose(k)
      BY <1>1, <1>2, <2>4
    <3>2. ~Retrying'
      BY <1>1, <1>8 DEF Retrying
    <3>3. InOneStream'
      BY <1>1, <2>8, <2>9, <3>1 DEF InOneStream
    <3> QED BY <2>8, <2>10, <3>1, <3>2, <3>3 DEF Answered
  <2> QED BY <1>1, <1>5, <1>8, <2>4, <2>8, <2>11 DEF TextInv, TextShape, Reached
<1>9. CASE Retrying
  <2>1. PICK e \in Seq(Text) : e = durable /\ e # <<>>
    BY <1>9 DEF TextInv, TextShape, Retrying
  <2>2. PICK o \in 1 .. Len(r) + 1 : o = Onward /\ e = Told(r, Text, 1, o)
    BY <1>2, <1>9, <2>1, OnwardIs
  <2>3. PICK a \in 1 .. b : a = from /\ a \in 1 .. o /\ Cat(c, p) = Told(r, Text, a, b)
    BY <1>2, <1>3, <1>6, <1>9, <2>2 DEF Said, Began
  <2>4. PICK all \in BOOLEAN : all <=> whole
    BY <1>7
  <2>5. Kept = KeptOf(c, p, all)
    BY <1>4, <2>4 DEF KeptOf
  <2>6. /\ a \in Nat \ {0} /\ o \in Nat /\ b \in Nat /\ a <= b /\ b <= Len(r) + 1 /\ a <= o /\ o <= Len(r) + 1
        /\ Len(r) + 1 \in Nat /\ Len(r) + 1 <= Len(r) + 1 /\ 1 \in Nat \ {0} /\ 1 <= a /\ o \in Nat \ {0} /\ a \in Nat
    BY <2>3
  <2>7. PICK kept \in Seq(Text), y \in Seq(Text) :
          /\ kept = Kept
          /\ Cat(Prose(kept), y) = Told(r, Letters, a, Len(r) + 1)
          /\ all /\ b = Len(r) + 1 => y = <<>>
    BY <2>3, <2>5, <2>6, KeptIsTold
  <2>8. PICK again \in Seq(Text), x \in Seq(Text), rest \in Seq(Text) :
          /\ again = Told(r, Text, a, o) /\ x = Told(r, Text, 1, a) /\ rest = Told(r, Letters, o, Len(r) + 1)
          /\ Prose(again) = Told(r, Letters, a, o)
          /\ Prose(Told(r, Text, o, Len(r) + 1)) = rest
    <3>1. Told(r, Text, a, o) \in Seq(Text) /\ Prose(Told(r, Text, a, o)) = Told(r, Letters, a, o)
      BY <2>6, ToldText
    <3>2. Told(r, Text, 1, a) \in Seq(Text)
      BY <2>6, ToldText
    <3>3. Told(r, Letters, o, Len(r) + 1) \in Seq(Text) /\ Prose(Told(r, Text, o, Len(r) + 1)) = Told(r, Letters, o, Len(r) + 1)
      BY <2>6, ToldText
    <3> QED BY <3>1, <3>2, <3>3
  <2>9. e = Cat(x, again) /\ Cat(Prose(kept), y) = Cat(Prose(again), rest)
    <3>1. Told(r, Text, 1, o) = Cat(Told(r, Text, 1, a), Told(r, Text, a, o))
      BY <2>6, ToldCat
    <3>2. Told(r, Letters, a, Len(r) + 1) = Cat(Told(r, Letters, a, o), Told(r, Letters, o, Len(r) + 1))
      BY <2>6, ToldCat
    <3> QED BY <2>2, <2>7, <2>8, <3>1, <3>2
  <2>10. PICK n \in Seq(Text) : n = news
    <3>1. Novel(e, kept) \in Seq(Text)
      BY NovelIs
    <3> QED BY <1>9, <2>1, <2>7, <3>1
  <2>11. saved' = Cat(e, n) /\ result'.content = Cat(e, n) /\ n = Novel(e, kept)
    BY <1>1, <1>5, <1>9, <2>1, <2>7, <2>10 DEF Cat
  <2>12. UNCHANGED <<Onward, Retrying, Kept, Repeated>> /\ Repeated = again
    <3>1. UNCHANGED <<Onward, Retrying, Kept>>
      BY <1>1 DEF Onward, Ends, Says, Retrying, Kept, Broken, WithoutJson
    <3>2. Repeated = again /\ UNCHANGED Repeated
      BY <1>1, <1>2, <2>2, <2>3, <2>8, <3>1 DEF Repeated, Says, Told
    <3> QED BY <3>1, <3>2
  <2>13. ASSUME Recognized' PROVE Continued'
    <3>1. IsPrefix(again, kept) /\ Len(again) <= Window
      BY <2>7, <2>12, <2>13 DEF Recognized
    <3>2. GoesOn(e, again, rest, n, y)
      BY <2>9, <2>11, <3>1, Spliced
    <3>3. PICK i \in 0 .. Len(rest) :
            /\ IsSuffix(Cat(Prose(again), SubSeq(rest, 1, i)), Prose(e))
            /\ Cat(Prose(Cat(e, n)), y) = Cat(Prose(e), SubSeq(rest, i + 1, Len(rest)))
      BY <3>2 DEF GoesOn
    <3>4. PICK s \in Seq(Text) : s = Prose(Cat(e, n))
      <4>1. PICK u \in Seq(Text) : u = Cat(e, n)
        BY CatSeq
      <4> QED BY <4>1, ProseIs
    <3>5. IsPrefix(s, Cat(s, y)) /\ (y = <<>> => Cat(s, y) = s)
      BY PrefixOf, CatSeq DEF Cat
    <3>6. ASSUME result'.finish = "stop" PROVE y = <<>>
      <4>1. whole /\ finish = "stop"
        BY <1>1, <3>6
      <4> QED BY <1>2, <1>3, <1>6, <2>4, <2>7, <4>1 DEF Closing
    <3>7. Prose(Says(Onward, Len(reply) + 1))' = rest
      BY <1>1, <1>2, <2>2, <2>8, <2>12 DEF Says, Told, Prose
    <3>8. /\ Prose(saved)' = s /\ Prose(durable)' = Prose(e) /\ Prose(Repeated)' = Prose(again)
      BY <1>1, <2>1, <2>11, <2>12, <3>4 DEF Prose
    <3>9. /\ IsPrefix(s, Cat(Prose(e), SubSeq(rest, i + 1, Len(rest))))
          /\ result'.finish = "stop" => s = Cat(Prose(e), SubSeq(rest, i + 1, Len(rest)))
      BY <3>3, <3>4, <3>5, <3>6
    <3> QED BY <3>3, <3>7, <3>8, <3>9 DEF Continued, Cat
  <2>14. Answered'
    <3>1. Prose(saved') = Prose(Cat(e, n)) /\ Prose(result'.content) = Prose(Cat(e, n))
      BY <2>11
    <3> QED BY <1>9, <2>12, <2>13, <3>1 DEF Answered, Prose
  <2>15. saved' \in Seq(Text)
    BY <2>11, CatSeq
  <2> QED BY <1>1, <1>5, <1>9, <2>1, <2>11, <2>14, <2>15 DEF TextInv, TextShape, Reached
<1> QED BY <1>8, <1>9

LEMMA StepTextInv == ASSUME TextInv, CallInv, [StreamNext]_streamVars PROVE TextInv'
<1>1. CASE Ask
  BY <1>1, AskText
<1>2. CASE RequestFails
  BY <1>2, FailsText
<1>3. CASE ReadText
  BY <1>3, ReadTextText
<1>4. CASE ReadMarkup \/ ReadWrapper \/ ReadCall
  BY <1>4, ReadOtherText
<1>5. CASE GoesBad \/ PreemptWrite \/ StreamEnds \/ StreamBreaks \/ TimesOut \/ SteeringCuts
  BY <1>5, StopText
<1>6. CASE CloseWithError
  BY <1>6, CloseErrorText
<1>7. CASE CloseWithAnswer
  BY <1>7, CloseAnswerText
<1>8. CASE Reconnect \/ FallBack \/ GiveUp
  BY <1>8, RecoverText
<1>9. CASE ContextRejected \/ Reasons \/ SteeringDeferred \/ UserSteers \/ Tick \/ UNCHANGED streamVars
  <2>1. UNCHANGED <<reply, emit, pc, durable, from, at, content, pending, native, wrapper, bad, finish, shown, saved, result>>
    BY <1>9 DEF ContextRejected, Reasons, SteeringDeferred, UserSteers, Tick, streamVars, request, chain, output
  <2> QED BY <2>1, QuietText
<1> QED BY <1>1, <1>2, <1>3, <1>4, <1>5, <1>6, <1>7, <1>8, <1>9 DEF StreamNext, Provider, Runner

LEMMA StreamStart == StreamInit => TextInv /\ CallInv
BY InitText, InitCallInv

LEMMA StreamStep == TextInv /\ CallInv /\ [StreamNext]_streamVars => TextInv' /\ CallInv'
<1>1. TextInv /\ CallInv => Pointed
  BY OnwardIs DEF Pointed
<1> QED BY <1>1, StepTextInv, StepCallInv

(* What the model calls is run once and only as it was meant: however      *)
(* often a stream breaks, is cut or goes bad, the calls handed on are of   *)
(* one attempt, each once, none of a broken completion, and no half of one *)
(* unless the caller knows that it was cut (_stream_one_completion_impl,   *)
(* _stream_completion_with_reconnect), for any replies, limits and routes. *)
THEOREM CallsAreAlwaysOfThisReply == StreamSpec => []CallsAreOfThisReply
<1>1. CallInv => CallsAreOfThisReply
  BY DEF CallInv
<1> QED BY <1>1, StreamStart, StreamStep, PTL DEF StreamSpec

(* The user is shown one whole reply, however often its stream breaks,     *)
(* within a route or across routes, and wherever it breaks, between words  *)
(* or inside one: its letters in order, each once, the answer handed on is *)
(* what was shown and saved, a finished one is the whole of it, and a      *)
(* steering update cuts none that is being written.  It holds for replies  *)
(* of any letters and for continuations that repeat as much as they like,  *)
(* with the exception that Continued states: a continuation that got past  *)
(* what it repeats loses the letters that happen to look like more of it.  *)
THEOREM ReplyIsAlwaysWhole == StreamSpec => []ReplyIsWhole
<1>1. TextInv /\ CallInv => ReplyIsWhole
  <2> SUFFICES ASSUME TextInv, CallInv PROVE ReplyIsWhole
    OBVIOUS
  <2>1. CASE pc = "done"
    BY <2>1 DEF TextInv, Answered, ReplyIsWhole, NothingLostOrRepeated, WrittenReplyIsNotCut
  <2>2. CASE pc # "done"
    <3>1. IsPrefix(Prose(saved), Prose(reply))
      BY <2>2, SavedFits
    <3> QED BY <2>2, <3>1 DEF TextInv, ReplyIsWhole, NothingLostOrRepeated, WrittenReplyIsNotCut
  <2> QED BY <2>1, <2>2
<1> QED BY <1>1, StreamStart, StreamStep, PTL DEF StreamSpec

-----------------------------------------------------------------------------
(* The end of a request                                                    *)

(* What a request has left: routes, reconnections on this one, and the     *)
(* stages of an attempt, among them the time of its stream.                *)
Stage ==
    CASE pc = "ask"    -> TotalLimit + 5
      [] pc = "stream" -> (TotalLimit - total) + (IF deferred THEN 3 ELSE 4)
      [] pc = "close"  -> 2
      [] pc = "raised" -> 1
      [] OTHER         -> 0
Rank    == <<MaxRoutes - route, MaxReconnects - attempt, Stage>>
Ranks   == [1 .. 3 -> Nat]
Descent == LexProductOrdering(OpToRel(<, Nat), Nat, 3)

\* A step leaves less than there was.
Descends == <<Rank', Rank>> \in Descent

Budgeted ==
    /\ pc \in {"ask", "stream", "close", "raised", "done", "failed"}
    /\ route \in 1 .. MaxRoutes /\ attempt \in 0 .. MaxReconnects
    /\ total \in 0 .. TotalLimit /\ deferred \in BOOLEAN

LEMMA Limits == MaxRoutes \in Nat /\ MaxReconnects \in Nat /\ TotalLimit \in Nat /\ MaxRoutes >= 1
BY StreamAssumption

LEMMA InitBudgeted == StreamInit => Budgeted
<1> SUFFICES ASSUME StreamInit PROVE Budgeted
  OBVIOUS
<1>1. pc = "ask" /\ route = 1 /\ attempt = 0 /\ total = 0 /\ deferred = FALSE
  BY DEF StreamInit, Fresh
<1>2. route \in 1 .. MaxRoutes /\ attempt \in 0 .. MaxReconnects /\ total \in 0 .. TotalLimit
  BY <1>1, Limits
<1> QED BY <1>1, <1>2 DEF Budgeted

LEMMA DescentEnds == IsWellFoundedOn(Descent, Ranks)
<1> DEFINE R == OpToRel(<, Nat)
<1>1. IsWellFoundedOn(R, Nat)
  BY NatLessThanWellFounded
<1> HIDE DEF R
<1>2. IsWellFoundedOn(LexProductOrdering(R, Nat, 3), [1 .. 3 -> Nat])
  BY <1>1, WFLexProductOrdering
<1> QED BY <1>2 DEF R, Descent, Ranks

LEMMA Falls ==
    ASSUME NEW a \in Ranks, NEW b \in Ranks, NEW k \in 1 .. 3, a[k] < b[k], \A j \in 1 .. k - 1 : a[j] = b[j]
    PROVE  <<a, b>> \in Descent
<1> DEFINE R == OpToRel(<, Nat)
<1>1. a[k] \in Nat /\ b[k] \in Nat
  BY DEF Ranks
<1>2. <<a[k], b[k]>> \in R
  BY <1>1 DEF OpToRel
<1> HIDE DEF R
<1>3. <<a, b>> \in LexProductOrdering(R, Nat, 3)
  BY <1>2 DEF LexProductOrdering, Ranks
<1> QED BY <1>3 DEF Descent, R

LEMMA ThreeNumbers ==
    ASSUME NEW a \in Nat, NEW b \in Nat, NEW c \in Nat PROVE <<a, b, c>> \in Ranks
BY DEF Ranks

LEMMA Quantities == Budgeted => Rank \in Ranks
<1> SUFFICES ASSUME Budgeted PROVE Rank \in Ranks
  OBVIOUS
<1>1. MaxRoutes - route \in Nat /\ MaxReconnects - attempt \in Nat /\ TotalLimit - total \in Nat
  BY Limits DEF Budgeted
<1>2. Stage \in Nat
  BY <1>1, Limits DEF Stage
<1> QED BY <1>1, <1>2, ThreeNumbers DEF Rank

\* One of the quantities falls, and those before it stay.
Sooner ==
    \/ route' > route
    \/ UNCHANGED route /\ attempt' > attempt
    \/ UNCHANGED <<route, attempt>> /\ Stage' < Stage

LEMMA SoonerFalls == Budgeted /\ Budgeted' /\ Sooner => Descends
<1> SUFFICES ASSUME Budgeted, Budgeted', Sooner PROVE <<Rank', Rank>> \in Descent
  BY DEF Descends
<1> DEFINE a == Rank'
           b == Rank
<1>1. /\ a[1] = MaxRoutes - route' /\ b[1] = MaxRoutes - route
      /\ a[2] = MaxReconnects - attempt' /\ b[2] = MaxReconnects - attempt
      /\ a[3] = Stage' /\ b[3] = Stage
  BY DEF Rank
<1>2. a \in Ranks /\ b \in Ranks
  <2>1. Rank \in Ranks /\ (Rank \in Ranks)'
    BY Quantities, PTL
  <2> QED BY <2>1
<1>3. PICK m \in Int, n \in Int, x \in Int, x1 \in Int, y \in Int, y1 \in Int :
        m = MaxRoutes /\ n = MaxReconnects /\ x = route /\ x1 = route' /\ y = attempt /\ y1 = attempt'
  BY Limits DEF Budgeted
<1> HIDE DEF a, b
<1>4. CASE route' > route
  <2>1. x1 > x
    BY <1>3, <1>4
  <2>2. m - x1 < m - x
    BY ONLY <2>1, m \in Int, x \in Int, x1 \in Int
  <2>3. a[1] < b[1]
    BY <1>1, <1>3, <2>2
  <2>4. \A j \in 1 .. 1 - 1 : a[j] = b[j]
    OBVIOUS
  <2> QED BY <1>2, <2>3, <2>4, Falls DEF a, b
<1>5. CASE UNCHANGED route /\ attempt' > attempt
  <2>1. y1 > y
    BY <1>3, <1>5
  <2>2. n - y1 < n - y
    BY ONLY <2>1, n \in Int, y \in Int, y1 \in Int
  <2>3. a[1] = b[1] /\ a[2] < b[2]
    BY <1>1, <1>3, <1>5, <2>2
  <2>4. \A j \in 1 .. 2 - 1 : a[j] = b[j]
    BY <2>3
  <2> QED BY <1>2, <2>3, <2>4, Falls DEF a, b
<1>6. CASE UNCHANGED <<route, attempt>> /\ Stage' < Stage
  <2>3. a[1] = b[1] /\ a[2] = b[2] /\ a[3] < b[3]
    BY <1>1, <1>6
  <2>4. \A j \in 1 .. 3 - 1 : a[j] = b[j]
    BY <2>3
  <2> QED BY <1>2, <2>3, <2>4, Falls DEF a, b
<1> QED BY <1>4, <1>5, <1>6 DEF Sooner

\* The provider and the user leave the routes, the reconnections and the
\* clock as they are, or end the stream.
LEMMA OutsideGivesNothing ==
    (Provider \/ UserSteers) /\ Budgeted => Budgeted' /\ (UNCHANGED Rank \/ Sooner)
<1> SUFFICES ASSUME Budgeted, Provider \/ UserSteers PROVE Budgeted' /\ (UNCHANGED Rank \/ Sooner)
  OBVIOUS
<1>1. /\ UNCHANGED <<route, attempt, total, deferred>>
      /\ pc' = pc \/ (pc = "stream" /\ pc' = "close")
  <2> USE DEF Reads, Stops, chain
  <2>1. CASE ReadText \/ ReadMarkup \/ ReadWrapper \/ ReadCall \/ Reasons
    <3>1. CASE ReadText
      BY <3>1 DEF ReadText
    <3>2. CASE ReadMarkup \/ ReadWrapper \/ ReadCall
      BY <3>2 DEF ReadMarkup, ReadWrapper, ReadCall
    <3>3. CASE Reasons
      BY <3>3 DEF Reasons
    <3> QED BY <2>1, <3>1, <3>2, <3>3
  <2>2. CASE GoesBad \/ PreemptWrite \/ StreamBreaks
    BY <2>2 DEF GoesBad, PreemptWrite, StreamBreaks
  <2>3. CASE StreamEnds
    BY <2>3 DEF StreamEnds
  <2>4. CASE ContextRejected \/ UserSteers
    <3>1. CASE ContextRejected
      BY <3>1 DEF ContextRejected, request
    <3>2. CASE UserSteers
      BY <3>2 DEF UserSteers, request
    <3> QED BY <2>4, <3>1, <3>2
  <2> QED BY <2>1, <2>2, <2>3, <2>4 DEF Provider
<1>2. CASE pc' = pc
  BY <1>1, <1>2 DEF Budgeted, Rank, Stage
<1>3. CASE pc = "stream" /\ pc' = "close"
  <2>1. TotalLimit - total \in Nat
    BY Limits DEF Budgeted
  <2>2. Stage >= 3 /\ Stage' = 2
    BY <1>3, <2>1 DEF Stage
  <2>3. Stage \in Int
    BY <1>3, <2>1 DEF Stage
  <2> QED BY <1>1, <1>3, <2>2, <2>3 DEF Budgeted, Sooner
<1> QED BY <1>1, <1>2, <1>3

LEMMA RunnerAndClock == (Runner \/ Tick) /\ Budgeted => Budgeted' /\ Sooner
<1> SUFFICES ASSUME Budgeted, Runner \/ Tick PROVE Budgeted' /\ Sooner
  OBVIOUS
<1>0. PICK t \in Nat, x \in Nat : t = TotalLimit /\ x = total /\ x <= t
  BY Limits DEF Budgeted
<1>1. ASSUME UNCHANGED <<route, attempt>>, Stage' < Stage, total' \in 0 .. TotalLimit, deferred' \in BOOLEAN,
             pc' \in {"ask", "stream", "close", "raised", "done", "failed"}
      PROVE Budgeted' /\ Sooner
  BY <1>1 DEF Budgeted, Sooner
<1>2. CASE Ask
  <2>1. pc = "ask" /\ pc' = "stream" /\ total' = 0 /\ deferred' = FALSE /\ UNCHANGED <<route, attempt>>
    BY <1>2 DEF Ask, chain
  <2>2. Stage = t + 5 /\ Stage' = (t - 0) + 4
    BY <1>0, <2>1 DEF Stage
  <2>3. Stage' < Stage /\ total' \in 0 .. TotalLimit
    BY <1>0, <2>1, <2>2
  <2>4. deferred' \in BOOLEAN
    BY <2>1
  <2> QED BY <1>1, <2>1, <2>3, <2>4
<1>3. CASE RequestFails
  <2>1. pc = "ask" /\ pc' = "raised" /\ UNCHANGED <<route, attempt, total, deferred>>
    BY <1>3 DEF RequestFails, chain
  <2>2. Stage = t + 5 /\ Stage' = 1
    BY <1>0, <2>1 DEF Stage
  <2> QED BY <1>0, <1>1, <2>1, <2>2 DEF Budgeted
<1>4. CASE TimesOut \/ SteeringCuts
  <2>1. pc = "stream" /\ pc' = "close" /\ UNCHANGED <<route, attempt, total, deferred>>
    BY <1>4 DEF TimesOut, SteeringCuts, Stops, chain
  <2>2. (Stage = (t - x) + 3 \/ Stage = (t - x) + 4) /\ Stage' = 2
    BY <1>0, <2>1 DEF Stage
  <2> QED BY <1>0, <1>1, <2>1, <2>2 DEF Budgeted
<1>5. CASE SteeringDeferred
  <2>1. pc = "stream" /\ pc' = "stream" /\ ~deferred /\ deferred' = TRUE /\ UNCHANGED <<route, attempt, total>>
    BY <1>5 DEF SteeringDeferred, chain
  <2>2. Stage = (t - x) + 4 /\ Stage' = (t - x) + 3
    BY <1>0, <2>1 DEF Stage
  <2> QED BY <1>0, <1>1, <2>1, <2>2 DEF Budgeted
<1>6. CASE Tick
  <2>1. /\ pc = "stream" /\ pc' = "stream" /\ total < TotalLimit /\ total' = total + 1
        /\ UNCHANGED <<route, attempt, deferred>>
    BY <1>6 DEF Tick, InTime, chain
  <2>2. x < t /\ total' = x + 1
    BY <1>0, <2>1
  <2>3. \/ Stage = (t - x) + 4 /\ Stage' = (t - (x + 1)) + 4
        \/ Stage = (t - x) + 3 /\ Stage' = (t - (x + 1)) + 3
    BY <1>0, <2>1, <2>2 DEF Stage
  <2>4. Stage' < Stage /\ total' \in 0 .. TotalLimit
    BY <1>0, <2>2, <2>3
  <2> QED BY <1>1, <2>1, <2>4 DEF Budgeted
<1>7. CASE CloseWithError
  <2>1. pc = "close" /\ pc' = "raised" /\ UNCHANGED <<route, attempt, total, deferred>>
    BY <1>7 DEF CloseWithError, chain
  <2>2. Stage = 2 /\ Stage' = 1
    BY <2>1 DEF Stage
  <2> QED BY <1>1, <2>1, <2>2 DEF Budgeted
<1>8. CASE CloseWithAnswer
  <2>1. pc = "close" /\ pc' = "done" /\ UNCHANGED <<route, attempt, total, deferred>>
    BY <1>8 DEF CloseWithAnswer, chain, request
  <2>2. Stage = 2 /\ Stage' = 0
    BY <2>1 DEF Stage
  <2> QED BY <1>1, <2>1, <2>2 DEF Budgeted
<1>9. CASE GiveUp
  <2>1. pc = "raised" /\ pc' = "failed" /\ UNCHANGED <<route, attempt, total, deferred>>
    BY <1>9 DEF GiveUp, request
  <2>2. Stage = 1 /\ Stage' = 0
    BY <2>1 DEF Stage
  <2> QED BY <1>1, <2>1, <2>2 DEF Budgeted
<1>10. CASE Reconnect
  <2>1. /\ attempt < MaxReconnects /\ attempt' = attempt + 1 /\ pc' = "ask" /\ UNCHANGED <<route, total, deferred>>
    BY <1>10 DEF Reconnect, Reconnects, Resume, request
  <2>2. attempt \in 0 .. MaxReconnects
    BY DEF Budgeted
  <2>3. attempt' \in 0 .. MaxReconnects /\ attempt' > attempt
    BY <2>1, <2>2, Limits
  <2> QED BY <2>1, <2>3 DEF Budgeted, Sooner
<1>11. CASE FallBack
  <2>1. /\ route < MaxRoutes /\ route' = route + 1 /\ attempt' = 0 /\ pc' = "ask" /\ UNCHANGED <<total, deferred>>
    BY <1>11 DEF FallBack, FallsBack, Resume, request
  <2>2. route \in 1 .. MaxRoutes
    BY DEF Budgeted
  <2>3. route' \in 1 .. MaxRoutes /\ route' > route /\ attempt' \in 0 .. MaxReconnects
    BY <2>1, <2>2, Limits
  <2> QED BY <2>1, <2>3 DEF Budgeted, Sooner
<1> QED BY <1>2, <1>3, <1>4, <1>5, <1>6, <1>7, <1>8, <1>9, <1>10, <1>11 DEF Runner

(* A request takes finitely many steps of the runner and of its clock,     *)
(* whatever the provider does: silence, keepalives, endless reasoning and  *)
(* streams that break again and again give it no time, no reconnection and *)
(* no route that was used up before.                                       *)
THEOREM RequestRunsDown ==
    /\ IsWellFoundedOn(Descent, Ranks)
    /\ StreamSpec => /\ [](Rank \in Ranks)
                     /\ [][(Runner \/ Tick => Descends) /\ (Descends \/ UNCHANGED Rank)]_streamVars
<1>1. Budgeted /\ [StreamNext]_streamVars => Budgeted'
  <2>1. Budgeted /\ UNCHANGED streamVars => Budgeted'
    BY DEF Budgeted, streamVars, chain, request
  <2> QED BY <2>1, OutsideGivesNothing, RunnerAndClock DEF StreamNext
<1>2. Budgeted /\ Budgeted' /\ [StreamNext]_streamVars
        => [(Runner \/ Tick => Descends) /\ (Descends \/ UNCHANGED Rank)]_streamVars
  BY OutsideGivesNothing, RunnerAndClock, SoonerFalls DEF StreamNext
<1>3. StreamSpec => [](Rank \in Ranks) /\ [][(Runner \/ Tick => Descends) /\ (Descends \/ UNCHANGED Rank)]_streamVars
  BY <1>1, <1>2, InitBudgeted, Quantities, PTL DEF StreamSpec
<1> QED BY <1>3, DescentEnds
=============================================================================
