---------------------------- MODULE ApprovalPromise ----------------------------
(***************************************************************************)
(* What the approval mailbox promises for every request, whatever workers, *)
(* coordinators, timeouts and crashes do: the first answer is the only     *)
(* one, and a worker hears that answer, or a timeout, once.                *)
(***************************************************************************)
CONSTANT Requests

VARIABLES answer, heard

Answers == {"none", "open", "approved", "denied", "expired"}
Hearing == {"none", "approve_once", "deny", "timeout"}

TypeOK == answer \in [Requests -> Answers] /\ heard \in [Requests -> Hearing]

Init == /\ answer = [r \in Requests |-> "none"]
        /\ heard  = [r \in Requests |-> "none"]

File(r) ==
    /\ answer[r] = "none"
    /\ answer' = [answer EXCEPT ![r] = "open"]
    /\ UNCHANGED heard

Answer(r) ==
    /\ answer[r] = "open"
    /\ \E a \in {"approved", "denied"} : answer' = [answer EXCEPT ![r] = a]
    /\ UNCHANGED heard

Expire(rs) ==
    /\ \A r \in rs : answer[r] = "open"
    /\ answer' = [r \in Requests |-> IF r \in rs THEN "expired" ELSE answer[r]]
    /\ UNCHANGED heard

Hear(r, h) ==
    /\ heard[r] = "none" /\ answer[r] # "none"
    /\ h = "approve_once" => answer[r] = "approved"
    /\ h = "deny" => answer[r] = "denied"
    /\ heard' = [heard EXCEPT ![r] = h]
    /\ UNCHANGED answer

Next ==
    \/ \E r \in Requests : File(r) \/ Answer(r)
    \/ \E rs \in SUBSET Requests : Expire(rs)
    \/ \E r \in Requests, h \in {"approve_once", "deny", "timeout"} : Hear(r, h)

Spec == Init /\ [][Next]_<<answer, heard>>
=============================================================================
