---------------------------- MODULE ApprovalMailbox ----------------------------
(***************************************************************************)
(* The approval mailbox of swarm workers (mailbox.py) and the coordinators *)
(* that answer it (swarm.py, SwarmCoordinator and run_swarm).  The mailbox *)
(* is one SQLite file for all processes of a user, so swarms of different  *)
(* processes share it, and it survives them.  Every write is one IMMEDIATE *)
(* transaction: an atomic step.                                            *)
(***************************************************************************)
EXTENDS Naturals, FiniteSets, ApprovalPolicy

CONSTANTS
    Requests,       \* the ids of requests, never used twice
    Risk,           \* the risk of the call a request is about
    Swarms,         \* each with its coordinator
    Workers,
    Team,           \* the swarm of a worker
    Policy,         \* the approval policy of a swarm
    Interactive,    \* the swarms with a console
    WaitLimit,      \* DEFAULT_WAIT_SECONDS, on the scale of the model's clock
    StaleAge,       \* stale_after_seconds, on the same scale
    MaxTime         \* bound: the clock

ASSUME MailboxAssumption ==
    /\ Risk \in [Requests -> Risks \ {"read_only"}]
    /\ Team \in [Workers -> Swarms] /\ Policy \in [Swarms -> Policies] /\ Interactive \subseteq Swarms
    /\ WaitLimit \in Nat /\ StaleAge \in Nat /\ MaxTime \in Nat
    /\ WaitLimit < StaleAge     \* 120 s and 900 s

VARIABLES
    now,
    status, created,            \* the table approval_requests
    stage,          \* of a swarm's coordinator
    handling,       \* the request a coordinator holds, as a set of at most one
    waits,          \* the request a worker waits for, as a set of at most one
    working,        \* workers whose task is under way
    heard           \* history: what was returned for a request

table       == <<status, created>>
coordinator == <<stage, handling>>
worker      == <<waits, working, heard>>
vars == <<now, table, coordinator, worker>>

Statuses == {"none", "pending", "claimed", "approved", "denied", "expired"}
Open(r)  == status[r] \in {"pending", "claimed"}
Members(s) == {w \in Workers : Team[w] = s}

Init ==
    /\ now = 0
    /\ status = [r \in Requests |-> "none"]
    /\ created = [r \in Requests |-> 0]
    /\ stage = [s \in Swarms |-> "off"] /\ handling = [s \in Swarms |-> {}]
    /\ waits = [w \in Workers |-> {}] /\ working = {}
    /\ heard = [r \in Requests |-> "none"]

-----------------------------------------------------------------------------
(* The workers.                                                            *)

(* run_swarm with mutate: only under a policy that approves by itself.     *)
StartSwarm(s) ==
    /\ stage[s] = "off" /\ Policy[s] \in {"auto", "full-auto"}
    /\ stage' = [stage EXCEPT ![s] = "sweep"]
    /\ working' = working \cup Members(s)
    /\ UNCHANGED <<now, table, handling, waits, heard>>

(* file_request: a call that is not read-only.                             *)
File(w, r) ==
    /\ w \in working /\ waits[w] = {} /\ status[r] = "none"
    /\ now + WaitLimit <= MaxTime
    /\ status' = [status EXCEPT ![r] = "pending"]
    /\ created' = [created EXCEPT ![r] = now]
    /\ waits' = [waits EXCEPT ![w] = {r}]
    /\ UNCHANGED <<now, coordinator, working, heard>>

(* One poll of wait_for_decision that ends it.                             *)
Returned(r) ==
    CASE status[r] = "approved" -> "approve_once"
      [] status[r] = "denied"   -> "deny"
      [] OTHER                  -> "timeout"

Hear_Mutant(w, r) ==        \* waits for an answer however long it takes
    /\ r \in waits[w] /\ ~Open(r)
    /\ heard' = [heard EXCEPT ![r] = Returned(r)]
    /\ waits' = [waits EXCEPT ![w] = {}]
    /\ UNCHANGED <<now, table, coordinator, working>>

Hear(w, r) ==
    /\ r \in waits[w]
    /\ Open(r) => now >= created[r] + WaitLimit
    /\ heard' = [heard EXCEPT ![r] = Returned(r)]
    /\ waits' = [waits EXCEPT ![w] = {}]
    /\ UNCHANGED <<now, table, coordinator, working>>

Finish(w) ==
    /\ w \in working /\ waits[w] = {}
    /\ working' = working \ {w}
    /\ UNCHANGED <<now, table, coordinator, waits, heard>>

-----------------------------------------------------------------------------
(* The coordinators.                                                       *)

(* drain begins with expire_stale; a failure of it is passed over.         *)
Stale(r) == Open(r) /\ created[r] + StaleAge < now

Sweep(s) ==
    /\ stage[s] = "sweep"
    /\ stage' = [stage EXCEPT ![s] = "poll"]
    /\ \/ status' = [r \in Requests |-> IF Stale(r) THEN "expired" ELSE status[r]]
       \/ UNCHANGED status
    /\ UNCHANGED <<now, created, handling, worker>>

\* The set of requests claim_next may take: the oldest pending ones.
Claimable_Mutant ==         \* also claims what another coordinator holds
    {r \in Requests : Open(r) /\ \A q \in Requests : Open(q) => created[r] <= created[q]}

Claimable ==
    {r \in Requests : /\ status[r] = "pending"
                      /\ \A q \in Requests : status[q] = "pending" => created[r] <= created[q]}

(* claim_next: the row it returns is the newest claim of this coordinator, *)
(* the one just made.                                                      *)
Claim(s) ==
    /\ stage[s] = "poll" /\ Members(s) \cap working # {}
    /\ \E r \in Claimable :
          /\ status' = [status EXCEPT ![r] = "claimed"]
          /\ handling' = [handling EXCEPT ![s] = {r}]
    /\ stage' = [stage EXCEPT ![s] = "handle"]
    /\ UNCHANGED <<now, created, worker>>

(* _decide: by the policy of this swarm, or at its console, where an error *)
(* or a closed prompt denies.                                              *)
Verdicts(s, r) ==
    LET implied == DecisionForPolicy(Policy[s], Risk[r], s \in Interactive)
    IN  IF implied = "prompt" THEN {"approve", "deny"} ELSE {implied}

Answered(d) == IF d = "approve" THEN "approved" ELSE "denied"

Resolved_Mutant(r, d) == Answered(d)        \* answers what is already answered
\* resolve: the first answer wins.
Resolved(r, d) == IF Open(r) THEN Answered(d) ELSE status[r]

Forget(s) == handling' = [handling EXCEPT ![s] = {}]

(* handle: the decision may take any time; it depends on nothing that      *)
(* changes meanwhile, so it is taken with the resolve.  A resolve that     *)
(* raises leaves the request claimed.                                      *)
Handle(s, r) ==
    /\ stage[s] = "handle" /\ r \in handling[s]
    /\ \/ \E d \in Verdicts(s, r) : status' = [status EXCEPT ![r] = Resolved(r, d)]
       \/ UNCHANGED status
    /\ Forget(s)
    /\ stage' = [stage EXCEPT ![s] = "poll"]
    /\ UNCHANGED <<now, created, worker>>

(* Its workers are done: the coordinator stops between two requests, or is *)
(* cancelled five seconds later where it stands.                           *)
Stop(s) ==
    /\ stage[s] # "off" /\ Members(s) \cap working = {}
    /\ stage' = [stage EXCEPT ![s] = "off"]
    /\ Forget(s)
    /\ UNCHANGED <<now, table, worker>>

-----------------------------------------------------------------------------
(* The process of a swarm dies: the table stays.                           *)
Die(s) ==
    /\ stage[s] # "off"
    /\ stage' = [stage EXCEPT ![s] = "off"] /\ Forget(s)
    /\ waits' = [w \in Workers |-> IF w \in Members(s) THEN {} ELSE waits[w]]
    /\ working' = working \ Members(s)
    /\ UNCHANGED <<now, table, heard>>

Tick ==
    /\ now < MaxTime
    /\ now' = now + 1
    /\ UNCHANGED <<table, coordinator, worker>>

Next ==
    \/ \E s \in Swarms : StartSwarm(s) \/ Sweep(s) \/ Claim(s) \/ Stop(s) \/ Die(s)
    \/ \E s \in Swarms, r \in Requests : Handle(s, r)
    \/ \E w \in Workers, r \in Requests : File(w, r) \/ Hear(w, r)
    \/ \E w \in Workers : Finish(w)
    \/ Tick

Spec == Init /\ [][Next]_vars

(* Time passes and a worker polls until it is told; nothing is assumed of  *)
(* coordinators, which may have no console answer or be dead.              *)
FairSpec ==
    /\ Spec /\ WF_vars(Tick)
    /\ \A w \in Workers : WF_vars(\E r \in Requests : Hear(w, r))

-----------------------------------------------------------------------------
Stages == {"off", "sweep", "poll", "handle"}

TypeOK ==
    /\ now \in Nat
    /\ status \in [Requests -> Statuses] /\ created \in [Requests -> Nat]
    /\ stage \in [Swarms -> Stages] /\ handling \in [Swarms -> SUBSET Requests]
    /\ waits \in [Workers -> SUBSET Requests] /\ working \subseteq Workers
    /\ heard \in [Requests -> {"none", "approve_once", "deny", "timeout"}]

(* "Exactly one observes rowcount == 1": two coordinators never have the   *)
(* same request in hand, whichever processes they are in.                  *)
HandledByOne ==
    \A s, t \in Swarms : s # t => handling[s] \cap handling[t] = {}

(* A worker is always told something in the end, even if no coordinator    *)
(* is alive: the call it is about is not held for ever.                    *)
WaitEnds == \A w \in Workers : (waits[w] # {}) ~> (waits[w] = {})

(* The mailbox keeps its promise for every request.                        *)
Abstract == [r \in Requests |-> IF Open(r) THEN "open" ELSE status[r]]
Promise  == INSTANCE ApprovalPromise WITH answer <- Abstract

Promised == Promise!Spec
=============================================================================
