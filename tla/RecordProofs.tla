----------------------------- MODULE RecordProofs -----------------------------
(***************************************************************************)
(* Theorems about module ApprovalMailbox, for any number of requests,      *)
(* swarms and workers, any policies and any time limits; and about module  *)
(* FileMutations, for any files, any number of turns and writes and any    *)
(* caps of the ledger.                                                     *)
(***************************************************************************)
EXTENDS ApprovalMailbox, FileMutations, FiniteSetTheorems, SequenceTheorems, TLAPS

(* A request that is waited for is in the table, unheard, and waited for   *)
(* by one worker.                                                          *)
OneWaits ==
    /\ \A w \in Workers : \A r \in waits[w] : heard[r] = "none" /\ status[r] # "none"
    /\ \A v, w \in Workers : v # w => waits[v] \cap waits[w] = {}

\* What is not in the table has not been heard of.
HeardIsFiled == \A r \in Requests : heard[r] # "none" => status[r] # "none"

\* What a coordinator holds is no longer there to be claimed.
HeldIsClaimed == \A s \in Swarms : \A r \in handling[s] : status[r] \notin {"none", "pending"}

IInv == TypeOK /\ OneWaits /\ HeardIsFiled /\ HeldIsClaimed /\ HandledByOne

LEMMA InitIInv == Init => IInv
BY DEF Init, IInv, TypeOK, OneWaits, HeardIsFiled, HeldIsClaimed, HandledByOne, Statuses, Stages

LEMMA ResolvedFinal ==
    ASSUME NEW r \in Requests, NEW d, status \in [Requests -> Statuses]
    PROVE  /\ Resolved(r, d) \in Statuses
           /\ Open(r) => Resolved(r, d) \in {"approved", "denied"}
           /\ ~Open(r) => Resolved(r, d) = status[r]
BY DEF Resolved, Answered, Open, Statuses

LEMMA StepIInv == IInv /\ [Next]_vars => IInv'
<1> SUFFICES ASSUME IInv, [Next]_vars PROVE IInv'
  OBVIOUS
<1> USE MailboxAssumption DEF IInv, TypeOK, OneWaits, HeardIsFiled, HeldIsClaimed, HandledByOne, Statuses, Stages
<1>1. ASSUME NEW s \in Swarms, StartSwarm(s) PROVE IInv'
  <2>1. stage' \in [Swarms -> Stages] /\ working' \subseteq Workers
    BY <1>1 DEF StartSwarm, Members
  <2> QED BY <1>1, <2>1 DEF StartSwarm, table
<1>2. ASSUME NEW s \in Swarms, Sweep(s) PROVE IInv'
  BY <1>2 DEF Sweep, worker, Stale, Open
<1>3. ASSUME NEW s \in Swarms, Claim(s) PROVE IInv'
  <2>1. PICK r \in Claimable : /\ status' = [status EXCEPT ![r] = "claimed"]
                               /\ handling' = [handling EXCEPT ![s] = {r}]
    BY <1>3 DEF Claim
  <2>2. r \in Requests /\ status[r] = "pending"
    BY <2>1 DEF Claimable
  <2>3. TypeOK'
    BY <1>3, <2>1, <2>2 DEF Claim, worker
  <2>4. HandledByOne' /\ HeldIsClaimed'
    BY <1>3, <2>1, <2>2
  <2>5. OneWaits' /\ HeardIsFiled'
    BY <1>3, <2>1, <2>2 DEF Claim, worker
  <2> QED BY <2>3, <2>4, <2>5
<1>4. ASSUME NEW s \in Swarms, Stop(s) PROVE IInv'
  BY <1>4 DEF Stop, Forget, table, worker
<1>5. ASSUME NEW s \in Swarms, Die(s) PROVE IInv'
  BY <1>5 DEF Die, Forget, table, Members
<1>6. ASSUME NEW s \in Swarms, NEW r \in Requests, Handle(s, r) PROVE IInv'
  <2>1. CASE UNCHANGED status
    BY <1>6, <2>1 DEF Handle, Forget, worker
  <2>2. ASSUME NEW d \in Verdicts(s, r), status' = [status EXCEPT ![r] = Resolved(r, d)] PROVE IInv'
    <3>1. /\ status' \in [Requests -> Statuses]
          /\ \A q \in Requests : status'[q] = status[q] \/ status'[q] \in {"approved", "denied"}
      BY <2>2, ResolvedFinal
    <3>2. \A q \in Requests : status[q] # "none" => status'[q] # "none"
      BY <3>1
    <3>3. \A q \in Requests : status[q] \notin {"none", "pending"} => status'[q] \notin {"none", "pending"}
      BY <3>1
    <3> QED BY <1>6, <3>1, <3>2, <3>3 DEF Handle, Forget, worker
  <2> QED BY <1>6, <2>1, <2>2 DEF Handle
<1>7. ASSUME NEW w \in Workers, NEW r \in Requests, File(w, r) PROVE IInv'
  <2>1. \A v \in Workers : r \notin waits[v]
    BY <1>7 DEF File
  <2>2. TypeOK'
    BY <1>7 DEF File, coordinator
  <2>3. OneWaits'
    BY <1>7, <2>1 DEF File
  <2> QED BY <1>7, <2>2, <2>3 DEF File, coordinator
<1>8. ASSUME NEW w \in Workers, NEW r \in Requests, Hear(w, r) PROVE IInv'
  <2>1. Returned(r) \in {"approve_once", "deny", "timeout"}
    BY DEF Returned
  <2>2. TypeOK'
    BY <1>8, <2>1 DEF Hear, table, coordinator
  <2>3. OneWaits'
    BY <1>8 DEF Hear, table
  <2> QED BY <1>8, <2>2, <2>3 DEF Hear, table, coordinator
<1>9. ASSUME NEW w \in Workers, Finish(w) PROVE IInv'
  BY <1>9 DEF Finish, table, coordinator
<1>10. CASE Tick
  BY <1>10 DEF Tick, table, coordinator, worker
<1>11. CASE UNCHANGED vars
  BY <1>11 DEF vars, table, coordinator, worker
<1> QED
  BY <1>1, <1>2, <1>3, <1>4, <1>5, <1>6, <1>7, <1>8, <1>9, <1>10, <1>11 DEF Next

LEMMA Inductive == Spec => []IInv
BY InitIInv, StepIInv, PTL DEF Spec

(* Every variable keeps its type.                                          *)
THEOREM TypeCorrect == Spec => []TypeOK
BY Inductive, PTL DEF IInv

(* claim_next: two coordinators never have the same request in hand.       *)
THEOREM OneCoordinatorEach == Spec => []HandledByOne
BY Inductive, PTL DEF IInv

-----------------------------------------------------------------------------
(* The refinement, step by step.                                           *)

LEMMA InitPromise == Init => Promise!Init
BY DEF Init, Promise!Init, Abstract, Open

LEMMA StepPromise == IInv /\ [Next]_vars => [Promise!Next]_<<Abstract, heard>>
<1> SUFFICES ASSUME IInv, [Next]_vars PROVE [Promise!Next]_<<Abstract, heard>>
  OBVIOUS
<1> USE DEF IInv, TypeOK, Statuses
<1>1. ASSUME UNCHANGED <<status, heard>> PROVE UNCHANGED <<Abstract, heard>>
  BY <1>1 DEF Abstract, Open
<1>2. ASSUME NEW s \in Swarms, StartSwarm(s) \/ Stop(s) \/ Die(s) PROVE UNCHANGED <<status, heard>>
  BY <1>2 DEF StartSwarm, Stop, Die, table, worker
<1>3. ASSUME NEW s \in Swarms, Sweep(s) PROVE [Promise!Next]_<<Abstract, heard>>
  <2>1. CASE UNCHANGED status
    BY <1>1, <1>3, <2>1 DEF Sweep, worker
  <2>2. CASE status' = [r \in Requests |-> IF Stale(r) THEN "expired" ELSE status[r]]
    <3> DEFINE rs == {r \in Requests : Stale(r)}
    <3>1. Promise!Expire(rs)
      BY <1>3, <2>2 DEF Promise!Expire, Sweep, worker, Abstract, Open, Stale
    <3>2. rs \in SUBSET Requests
      OBVIOUS
    <3> QED BY <3>1, <3>2 DEF Promise!Next
  <2> QED BY <1>3, <2>1, <2>2 DEF Sweep
<1>4. ASSUME NEW s \in Swarms, Claim(s) PROVE UNCHANGED <<Abstract, heard>>
  BY <1>4 DEF Claim, Claimable, Abstract, Open, worker
<1>5. ASSUME NEW s \in Swarms, NEW r \in Requests, Handle(s, r) PROVE [Promise!Next]_<<Abstract, heard>>
  <2>1. CASE UNCHANGED status
    BY <1>1, <1>5, <2>1 DEF Handle, worker
  <2>2. ASSUME NEW d \in Verdicts(s, r), status' = [status EXCEPT ![r] = Resolved(r, d)], Open(r)
        PROVE  Promise!Answer(r)
    <3> DEFINE a == Resolved(r, d)
    <3>1. a \in {"approved", "denied"}
      BY <2>2, ResolvedFinal
    <3>2. status' = [status EXCEPT ![r] = a]
      BY <2>2
    <3> HIDE DEF a
    <3>3. Abstract' = [Abstract EXCEPT ![r] = a]
      BY <3>1, <3>2 DEF Abstract, Open
    <3>4. Abstract[r] = "open"
      BY <2>2 DEF Abstract
    <3>5. UNCHANGED heard
      BY <1>5 DEF Handle, worker
    <3> QED BY <3>1, <3>3, <3>4, <3>5 DEF Promise!Answer
  <2>3. ASSUME NEW d \in Verdicts(s, r), status' = [status EXCEPT ![r] = Resolved(r, d)], ~Open(r)
        PROVE  UNCHANGED <<status, heard>>
    BY <1>5, <2>3, ResolvedFinal DEF Handle, worker
  <2> QED BY <1>1, <1>5, <2>1, <2>2, <2>3 DEF Handle, Promise!Next
<1>6. ASSUME NEW w \in Workers, NEW r \in Requests, File(w, r) PROVE Promise!File(r)
  BY <1>6 DEF File, Promise!File, Abstract, Open
<1>7. ASSUME NEW w \in Workers, NEW r \in Requests, Hear(w, r) PROVE Promise!Hear(r, Returned(r))
  BY <1>7 DEF Hear, Returned, Promise!Hear, OneWaits, table, Abstract, Open
<1>8. ASSUME NEW w \in Workers, Finish(w) PROVE UNCHANGED <<status, heard>>
  BY <1>8 DEF Finish, table
<1>9. CASE Tick
  BY <1>1, <1>9 DEF Tick, table, worker
<1>10. CASE UNCHANGED vars
  BY <1>1, <1>10 DEF vars, table, worker
<1>11. \A r \in Requests : Returned(r) \in {"approve_once", "deny", "timeout"}
  BY DEF Returned
<1> QED
  BY <1>1, <1>2, <1>3, <1>4, <1>5, <1>6, <1>7, <1>8, <1>9, <1>10, <1>11 DEF Next, Promise!Next

(* The mailbox implements its promise: the first answer to a request is    *)
(* the only one, and its worker hears that answer, or a timeout, once.     *)
THEOREM MailboxKeepsPromise == Spec => Promised
BY Inductive, InitPromise, StepPromise, PTL DEF Spec, Promised, Promise!Spec


-----------------------------------------------------------------------------
(* Numbers counted down.                                                   *)

NthLargest(S, n) == CHOOSE i \in S : Cardinality({j \in S : j > i}) = n - 1

LEMMA CountedDown ==
    ASSUME NEW S \in SUBSET Nat, IsFiniteSet(S)
    PROVE  /\ Cardinality(S) \in Nat
           /\ \A n \in 1 .. Cardinality(S) : NthLargest(S, n) \in S
           /\ \A i \in S : \E n \in 1 .. Cardinality(S) : NthLargest(S, n) = i
           /\ \A m, n \in 1 .. Cardinality(S) : m < n => NthLargest(S, m) > NthLargest(S, n)
<1> DEFINE Over(i) == {j \in S : j > i}
           size == Cardinality(S)
           rank == [i \in S |-> Cardinality(Over(i)) + 1]
<1>1. size \in Nat
  BY FS_CardinalityType
<1>2. ASSUME NEW i \in S PROVE IsFiniteSet(Over(i)) /\ Cardinality(Over(i)) \in Nat /\ Cardinality(Over(i)) < size
  <2>1. Over(i) \in SUBSET S /\ i \notin Over(i)
    OBVIOUS
  <2>2. IsFiniteSet(Over(i)) /\ Cardinality(Over(i)) <= size /\ (size = Cardinality(Over(i)) => S = Over(i))
    BY <2>1, FS_Subset
  <2>3. Cardinality(Over(i)) \in Nat
    BY <2>2, FS_CardinalityType
  <2> QED BY <1>1, <2>1, <2>2, <2>3
<1>3. ASSUME NEW i \in S, NEW j \in S, i < j PROVE Cardinality(Over(j)) < Cardinality(Over(i))
  <2>1. \A x \in S : x > j => x > i
    <3> SUFFICES ASSUME NEW x \in S, x > j PROVE x > i
      OBVIOUS
    <3>1. x \in Nat /\ i \in Nat /\ j \in Nat
      OBVIOUS
    <3> QED BY <1>3, <3>1
  <2>2. Over(j) \subseteq Over(i)
    BY <2>1
  <2>3. j \in Over(i) /\ j \notin Over(j)
    BY <1>3
  <2>4. Over(j) \in SUBSET Over(i) /\ Over(i) # Over(j)
    BY <2>2, <2>3
  <2>5. Cardinality(Over(j)) <= Cardinality(Over(i)) /\ (Cardinality(Over(i)) = Cardinality(Over(j)) => Over(i) = Over(j))
    BY <1>2, <2>4, FS_Subset
  <2>6. Cardinality(Over(i)) \in Nat /\ Cardinality(Over(j)) \in Nat
    BY <1>2
  <2> HIDE DEF Over
  <2> QED BY <2>4, <2>5, <2>6
<1> HIDE DEF Over, size
<1>4. ASSUME NEW i \in S, NEW j \in S, Cardinality(Over(i)) = Cardinality(Over(j)) PROVE i = j
  <2>1. ~(i < j) /\ ~(j < i)
    BY <1>2, <1>3, <1>4
  <2>2. i \in Nat /\ j \in Nat
    OBVIOUS
  <2> QED BY <2>1, <2>2
<1>5. rank \in [S -> 1 .. size]
  BY <1>1, <1>2
<1>6. rank \in Injection(S, 1 .. size)
  <2>1. \A i, j \in S : rank[i] = rank[j] => i = j
    BY <1>2, <1>4
  <2> QED BY <1>5, <2>1 DEF Injection, IsInjective
<1>7. IsFiniteSet(1 .. size) /\ Cardinality(1 .. size) = size
  BY <1>1, FS_Interval
<1>8. rank \in Surjection(S, 1 .. size)
  BY <1>6, <1>7, FS_Injection DEF size
<1>9. ASSUME NEW n \in 1 .. size PROVE NthLargest(S, n) \in S /\ Cardinality(Over(NthLargest(S, n))) = n - 1
  <2>1. PICK i \in S : rank[i] = n
    BY <1>8 DEF Surjection
  <2>2. Cardinality(Over(i)) = n - 1
    BY <1>2, <2>1
  <2> QED BY <2>2 DEF NthLargest, Over
<1>10. ASSUME NEW i \in S PROVE \E n \in 1 .. size : NthLargest(S, n) = i
  <2>1. rank[i] \in 1 .. size /\ Cardinality(Over(i)) = rank[i] - 1
    BY <1>2, <1>5
  <2>2. NthLargest(S, rank[i]) \in S /\ Cardinality(Over(NthLargest(S, rank[i]))) = rank[i] - 1
    BY <1>9, <2>1
  <2> QED BY <1>4, <2>1, <2>2
<1>11. ASSUME NEW m \in 1 .. size, NEW n \in 1 .. size, m < n PROVE NthLargest(S, m) > NthLargest(S, n)
  <2>1. PICK i \in S, j \in S : i = NthLargest(S, m) /\ j = NthLargest(S, n) /\ Cardinality(Over(i)) = m - 1 /\ Cardinality(Over(j)) = n - 1
    BY <1>9
  <2>2. i # j /\ ~(i < j)
    BY <1>1, <1>3, <1>11, <2>1
  <2>3. i \in Nat /\ j \in Nat
    OBVIOUS
  <2> QED BY <2>1, <2>2, <2>3
<1> QED BY <1>1, <1>9, <1>10, <1>11 DEF size

-----------------------------------------------------------------------------
(* What the entries of a turn say of a path.                               *)

\* The changes of the path that are still in place.
OwnIds(list, t, p) == {list[i].id : i \in {j \in DOMAIN list : list[j].turn = t /\ list[j].path = p /\ ~list[j].reverted}}

\* What these changes leave, of a path that was first found as `first`, or
\* what reverts made of that.
Leave(ids, first, value) ==
    IF ids = {} THEN value \in Versions(first)
    ELSE \E k \in ids : value \in Versions(k) /\ \A j \in ids : j <= k

\* The path holds what its changes leave, and each change, unless its body is
\* gone, has what the changes before it left.
Linked(list, t, p, ids, first) ==
    \A i \in DOMAIN list :
         list[i].turn = t /\ list[i].path = p /\ ~list[i].reverted /\ ~list[i].trimmed
           => Leave({k \in ids : k < list[i].id}, first, list[i].original)
Chain(list, t, p, first, value) ==
    Leave(OwnIds(list, t, p), first, value) /\ Linked(list, t, p, OwnIds(list, t, p), first)

\* Contents that are text, as every pre-image of the ledger is.
Texts == {c \in Contents : Decoded[c] = c}
Values == Contents \cup {Unseen}
Entries == [id : Contents, turn : Turns, path : Paths, original : Texts, body : 0 .. 1, reverted : BOOLEAN, trimmed : BOOLEAN]

FilesShape ==
    /\ content \in [Paths -> Contents] /\ fresh \in Nat
    /\ at \in {"prompt", "turn", "down"} /\ turn \in 0 .. MaxTurns /\ (at = "turn" => turn \in Turns)
    /\ write \in [stage : {"none", "prepared", "replaced"}, tool : {"none", "text", "artifact"},
                  path : Paths \cup {NoWrite.path}, original : Texts, new : Nat]
    /\ write.stage # "none" =>
         /\ at = "turn" /\ write.path \in Paths /\ write.new \in Contents /\ write.new <= fresh
         /\ write.tool = "artifact" => write.path \in Artifacts
    /\ ledger \in Seq(Entries) /\ Len(ledger) <= MutationHistory
    /\ preimage \in [Contents -> Values] /\ before \in [Turns -> [Paths -> Values]]
    /\ foreign \in [Turns -> SUBSET Paths] /\ unrecorded \in [Turns -> SUBSET Paths] /\ evicted \subseteq Turns
    /\ undo \in [status : {"none", "running", "done", "failed"}, turn : Nat, pending : Seq(Contents), remaining : SUBSET Contents]

\* Later changes have larger numbers, and an entry of a text file that has no
\* text had no file before it.
Numbered ==
    /\ \A i, j \in DOMAIN ledger : i < j => ledger[i].id < ledger[j].id
    /\ \A i \in DOMAIN ledger : ledger[i].id <= fresh /\ (write.stage # "none" => ledger[i].id < write.new)
    /\ \A i \in DOMAIN ledger :
         ledger[i].path \notin Artifacts /\ ~ledger[i].trimmed /\ ledger[i].original = Absent => preimage[ledger[i].id] = Absent

\* A turn knows what it has written, and while it writes.
Known ==
    /\ \A i \in DOMAIN ledger : before[ledger[i].turn][ledger[i].path] # Unseen
    /\ write.stage = "replaced" => /\ before[turn][write.path] # Unseen
                                   /\ content[write.path] = write.new \/ write.path \in foreign[turn]

\* What the path would hold without the write that is not yet recorded.
Held(t, p) == IF write.stage = "replaced" /\ turn = t /\ write.path = p THEN write.original ELSE content[p]
Clean(t, p) == t \notin evicted /\ p \notin foreign[t] /\ p \notin unrecorded[t] /\ before[t][p] # Unseen
Chains == \A t \in Turns, p \in Paths : Clean(t, p) => Chain(ledger, t, p, before[t][p], Held(t, p))

\* A revert has yet to undo what is in place of its turn, the newest first.
Undoing ==
    undo.status = "running" =>
        /\ at = "prompt" /\ undo.turn \in Turns
        /\ undo.remaining = InPlace(undo.turn)
        /\ undo.remaining = {undo.pending[n] : n \in DOMAIN undo.pending}
        /\ \A m, n \in DOMAIN undo.pending : m < n => undo.pending[m] > undo.pending[n]

FilesInv == FilesShape /\ Numbered /\ Known /\ Chains /\ Undoing

-----------------------------------------------------------------------------
(* A ledger that is trimmed, cut, extended or reverted.                    *)

LEMMA TextFacts ==
    /\ Absent \in Texts /\ Texts \subseteq Contents /\ Contents \subseteq Nat
    /\ \A c \in Contents : Decoded[c] \in Texts /\ c \in Versions(c)
    /\ \A c \in Texts : Redacted[c] \in Texts /\ (Redacted[c] = Absent => c = Absent)
    /\ \A c \in Contents : \A v \in Versions(c) :
         v \in Contents /\ Decoded[v] \in Versions(c) /\ (v \in Texts => Redacted[v] \in Versions(c))
<1>1. Contents \subseteq Nat /\ Absent \in Contents
  BY FileMutationsAssumption DEF Contents, Absent
<1>2. \A c \in Contents : Decoded[c] \in Texts /\ c \in Versions(c)
  BY TextAssumption DEF Texts, Versions
<1>3. Absent \in Texts
  BY <1>1, TextAssumption DEF Texts
<1>4. \A c \in Texts : Redacted[c] \in Texts /\ (Redacted[c] = Absent => c = Absent)
  BY TextAssumption DEF Texts
<1>5. ASSUME NEW c \in Contents, NEW v \in Versions(c)
      PROVE  v \in Contents /\ Decoded[v] \in Versions(c) /\ (v \in Texts => Redacted[v] \in Versions(c))
  <2>1. v = c \/ v = Decoded[c] \/ v = Redacted[Decoded[c]]
    BY <1>5 DEF Versions
  <2>2. Decoded[c] \in Contents /\ Redacted[Decoded[c]] \in Contents
    BY TextAssumption
  <2>3. Decoded[v] \in {Decoded[c], Redacted[Decoded[c]]}
    BY <2>1, <2>2, TextAssumption
  <2>4. v \in Texts => Redacted[v] = Redacted[Decoded[c]]
    BY <2>1, <2>2, TextAssumption DEF Texts
  <2> QED BY <2>1, <2>2, <2>3, <2>4 DEF Versions
<1> QED BY <1>1, <1>2, <1>3, <1>4, <1>5 DEF Texts

LEMMA LeavesVersions ==
    ASSUME NEW ids \in SUBSET Contents, NEW first \in Contents, NEW value, Leave(ids, first, value)
    PROVE  Leave(ids, first, Decoded[value]) /\ (value \in Texts => Leave(ids, first, Redacted[value]))
<1>1. CASE ids = {}
  <2>1. value \in Versions(first)
    BY <1>1 DEF Leave
  <2> QED BY <1>1, <2>1, TextFacts DEF Leave
<1>2. CASE ids # {}
  <2>1. PICK k \in ids : value \in Versions(k) /\ \A j \in ids : j <= k
    BY <1>2 DEF Leave
  <2>2. Decoded[value] \in Versions(k) /\ (value \in Texts => Redacted[value] \in Versions(k))
    BY <2>1, TextFacts
  <2> QED BY <1>2, <2>1, <2>2 DEF Leave
<1> QED BY <1>1, <1>2

\* The same change, which may have lost its body, or the secrets of its text.
Copy(e, f) ==
    /\ e.id = f.id /\ e.turn = f.turn /\ e.path = f.path /\ e.reverted = f.reverted
    /\ e.trimmed \/ (e.original \in {f.original, Redacted[f.original]} /\ ~f.trimmed)

LEMMA CopyAbsent ==
    ASSUME NEW e, NEW f \in Entries, Copy(e, f), ~e.trimmed
    PROVE  ~f.trimmed /\ (e.original = Absent => f.original = Absent)
<1>1. f.original \in Texts
  BY DEF Entries
<1> QED BY <1>1, TextFacts DEF Copy

\* What the list says of a turn, the other one says.
Covers(list, other, t) ==
    /\ \A i \in DOMAIN list : \E j \in DOMAIN other : Copy(list[i], other[j])
    /\ \A j \in DOMAIN other : other[j].turn = t => \E i \in DOMAIN list : Copy(list[i], other[j])

LEMMA SameOwn ==
    ASSUME NEW list, NEW other, NEW t, NEW p, Covers(list, other, t)
    PROVE  OwnIds(list, t, p) = OwnIds(other, t, p)
<1>1. ASSUME NEW i \in DOMAIN list, list[i].turn = t, list[i].path = p, ~list[i].reverted PROVE list[i].id \in OwnIds(other, t, p)
  <2>1. PICK j \in DOMAIN other : Copy(list[i], other[j])
    BY DEF Covers
  <2> QED BY <1>1, <2>1 DEF Copy, OwnIds
<1>2. ASSUME NEW j \in DOMAIN other, other[j].turn = t, other[j].path = p, ~other[j].reverted PROVE other[j].id \in OwnIds(list, t, p)
  <2>1. PICK i \in DOMAIN list : Copy(list[i], other[j])
    BY <1>2 DEF Covers
  <2> QED BY <1>2, <2>1 DEF Copy, OwnIds
<1> QED BY <1>1, <1>2 DEF OwnIds

LEMMA ChainCopied ==
    ASSUME NEW list, NEW other \in Seq(Entries), NEW t, NEW p, NEW first \in Contents, NEW value,
           Covers(list, other, t), Chain(other, t, p, first, value)
    PROVE  Chain(list, t, p, first, value)
<1>1. PICK own : own = OwnIds(list, t, p) /\ own = OwnIds(other, t, p)
  BY SameOwn
<1>2. ASSUME NEW i \in DOMAIN list, list[i].turn = t, list[i].path = p, ~list[i].reverted, ~list[i].trimmed
      PROVE  Leave({k \in own : k < list[i].id}, first, list[i].original)
  <2>1. PICK j \in DOMAIN other : Copy(list[i], other[j])
    BY DEF Covers
  <2>2. /\ other[j].turn = t /\ other[j].path = p /\ ~other[j].reverted /\ ~other[j].trimmed
        /\ other[j].id = list[i].id /\ list[i].original \in {other[j].original, Redacted[other[j].original]}
    BY <1>2, <2>1 DEF Copy
  <2>3. Leave({k \in own : k < other[j].id}, first, other[j].original)
    <3>1. Linked(other, t, p, own, first)
      BY <1>1 DEF Chain
    <3> QED BY <2>2, <3>1 DEF Linked
  <2>4. other[j].original \in Texts /\ own \subseteq Contents
    <3>1. \A k \in DOMAIN other : other[k].id \in Contents /\ other[k].original \in Texts
      <4>1. \A k \in DOMAIN other : other[k] \in Entries
        OBVIOUS
      <4> QED BY <4>1 DEF Entries
    <3> QED BY <1>1, <3>1 DEF OwnIds
  <2>5. Leave({k \in own : k < other[j].id}, first, Redacted[other[j].original])
    BY <2>3, <2>4, LeavesVersions
  <2> QED BY <2>2, <2>3, <2>5
<1>3. Leave(own, first, value)
  BY <1>1 DEF Chain
<1>4. Linked(list, t, p, own, first)
  BY <1>2 DEF Linked
<1> QED BY <1>1, <1>3, <1>4 DEF Chain

LEMMA BelowAll ==
    ASSUME NEW S \in SUBSET Nat, NEW n \in Nat, \A k \in S : k < n
    PROVE  {k \in S \cup {n} : k < n} = S /\ \A m \in Nat : m <= n => {k \in S \cup {n} : k < m} = {k \in S : k < m}
<1>1. \A k \in S : k \in Nat /\ k < n
  OBVIOUS
<1>2. ~(n < n) /\ \A m \in Nat : m <= n => ~(n < m)
  OBVIOUS
<1>3. {k \in S \cup {n} : k < n} = S
  BY <1>1, <1>2
<1>4. ASSUME NEW m \in Nat, m <= n PROVE {k \in S \cup {n} : k < m} = {k \in S : k < m}
  BY <1>2, <1>4
<1> QED BY <1>3, <1>4

\* Another change, after all others.
LEMMA ChainGrows ==
    ASSUME NEW list \in Seq(Entries), NEW e \in Entries, NEW t, NEW p, NEW first, NEW value, Chain(list, t, p, first, value),
           \A i \in DOMAIN list : list[i].id < e.id, NEW longer, longer = Append(list, e)
    PROVE  /\ ~(e.turn = t /\ e.path = p) => Chain(longer, t, p, first, value)
           /\ e.turn = t /\ e.path = p /\ ~e.reverted /\ (e.trimmed \/ e.original = value) => Chain(longer, t, p, first, e.id)
<1> DEFINE own == OwnIds(list, t, p)
           last == Len(list) + 1
<1>1. /\ Len(list) \in Nat /\ DOMAIN list = 1 .. Len(list) /\ DOMAIN longer = DOMAIN list \cup {last} /\ last \notin DOMAIN list
      /\ longer[last] = e /\ \A i \in DOMAIN list : longer[i] = list[i]
  OBVIOUS
<1>2. \A i \in DOMAIN list : list[i] \in Entries /\ list[i].id \in Nat
  <2>1. \A i \in DOMAIN list : list[i] \in Entries
    OBVIOUS
  <2> QED BY <2>1, FileMutationsAssumption DEF Entries, Contents
<1>3. e.id \in Nat
  BY FileMutationsAssumption DEF Entries, Contents
<1>4. own \subseteq Nat /\ \A k \in own : k < e.id
  BY <1>2 DEF OwnIds
<1>5. CASE ~(e.turn = t /\ e.path = p)
  <2>1. OwnIds(longer, t, p) = own
    BY <1>1, <1>5 DEF OwnIds
  <2> QED BY <1>1, <1>5, <2>1 DEF Chain, Linked
<1>6. CASE e.turn = t /\ e.path = p /\ ~e.reverted /\ (e.trimmed \/ e.original = value)
  <2>8. OwnIds(longer, t, p) = own \cup {e.id}
    BY <1>1, <1>6 DEF OwnIds
  <2>1. PICK mine, n : mine = OwnIds(longer, t, p) /\ mine = own \cup {n} /\ n = e.id
    BY <2>8
  <2> HIDE DEF own
  <2>3. own \in SUBSET Nat /\ n \in Nat /\ \A k \in own : k < n
    BY <1>3, <1>4, <2>1
  <2>10. n \in mine /\ mine # {}
    BY <2>1
  <2>11. ASSUME NEW k \in mine PROVE k <= n
    <3>1. k = n \/ (k \in Nat /\ k < n)
      BY <2>1, <2>3
    <3> QED BY <2>3, <3>1
  <2>2. Leave(mine, first, n)
    BY <2>10, <2>11 DEF Leave, Versions
  <2>4. {k \in mine : k < n} = own /\ \A m \in Nat : m <= n => {k \in mine : k < m} = {k \in own : k < m}
    BY <2>1, <2>3, BelowAll
  <2>5. Leave(own, first, value)
    BY DEF own, Chain
  <2>6. \A i \in DOMAIN list : list[i].turn = t /\ list[i].path = p /\ ~list[i].reverted /\ ~list[i].trimmed
           => Leave({k \in own : k < list[i].id}, first, list[i].original)
    BY DEF own, Chain, Linked
  <2>7. ASSUME NEW i \in DOMAIN longer, longer[i].turn = t, longer[i].path = p, ~longer[i].reverted, ~longer[i].trimmed
        PROVE  Leave({k \in mine : k < longer[i].id}, first, longer[i].original)
    <3>1. CASE i = last
      BY <1>1, <1>6, <2>1, <2>4, <2>5, <2>7, <3>1
    <3>2. CASE i \in DOMAIN list
      <4>1. PICK m \in Nat : m = list[i].id /\ m <= n
        BY <1>2, <2>1, <2>3, <3>2
      <4>2. Leave({k \in own : k < m}, first, list[i].original)
        BY <1>1, <2>6, <2>7, <3>2, <4>1
      <4>3. {k \in mine : k < m} = {k \in own : k < m}
        BY <2>4, <4>1
      <4> QED BY <1>1, <3>2, <4>1, <4>2, <4>3
    <3> QED BY <1>1, <3>1, <3>2
  <2>9. Linked(longer, t, p, mine, first)
    BY <2>7 DEF Linked
  <2>12. Chain(longer, t, p, first, n)
    BY <2>1, <2>2, <2>9 DEF Chain
  <2> QED BY <1>6, <2>1, <2>12
<1> QED BY <1>5, <1>6

\* The latest change of a path is taken back.
LEMMA ChainReverted ==
    ASSUME NEW list \in Seq(Entries), NEW i \in DOMAIN list, NEW t, NEW p, NEW first, NEW value, Chain(list, t, p, first, value),
           \A j, k \in DOMAIN list : list[j].id = list[k].id => j = k, NEW less, less = [list EXCEPT ![i].reverted = TRUE]
    PROVE  /\ ~(list[i].turn = t /\ list[i].path = p) => Chain(less, t, p, first, value)
           /\ list[i].turn = t /\ list[i].path = p /\ ~list[i].reverted /\ ~list[i].trimmed
                /\ (\A k \in OwnIds(list, t, p) : k <= list[i].id) => Chain(less, t, p, first, list[i].original)
<1> DEFINE own == OwnIds(list, t, p)
<1>1. \A j \in DOMAIN list : list[j] \in Entries /\ list[j].id \in Nat
  <2>1. \A j \in DOMAIN list : list[j] \in Entries
    OBVIOUS
  <2> QED BY <2>1, FileMutationsAssumption DEF Entries, Contents
<1>2. /\ DOMAIN less = DOMAIN list /\ \A j \in DOMAIN list \ {i} : less[j] = list[j]
      /\ less[i].reverted = TRUE /\ less[i].turn = list[i].turn /\ less[i].path = list[i].path
  BY <1>1 DEF Entries
<1>3. CASE ~(list[i].turn = t /\ list[i].path = p)
  <2>1. OwnIds(less, t, p) = own
    BY <1>2, <1>3 DEF OwnIds
  <2> QED BY <1>2, <1>3, <2>1 DEF Chain, Linked
<1>4. CASE /\ list[i].turn = t /\ list[i].path = p /\ ~list[i].reverted /\ ~list[i].trimmed
           /\ \A k \in OwnIds(list, t, p) : k <= list[i].id
  <2> DEFINE n == list[i].id
  <2>1. PICK mine : mine = OwnIds(less, t, p) /\ mine = own \ {n}
    <3>1. ASSUME NEW j \in DOMAIN less, less[j].turn = t, less[j].path = p, ~less[j].reverted PROVE less[j].id \in own \ {n}
      BY <1>2, <3>1 DEF OwnIds
    <3>2. ASSUME NEW j \in DOMAIN list, list[j].turn = t, list[j].path = p, ~list[j].reverted, list[j].id # n PROVE list[j].id \in OwnIds(less, t, p)
      BY <1>2, <3>2 DEF OwnIds
    <3>3. OwnIds(less, t, p) \subseteq own \ {n}
      BY <3>1 DEF OwnIds
    <3>4. own \ {n} \subseteq OwnIds(less, t, p)
      BY <3>2 DEF OwnIds
    <3> QED BY <3>3, <3>4
  <2>2. n \in own /\ own \subseteq Nat /\ n \in Nat
    BY <1>1, <1>4 DEF OwnIds
  <2>3. \A k \in own : k <= n
    BY <1>4
  <2>4. \A j \in DOMAIN list : list[j].turn = t /\ list[j].path = p /\ ~list[j].reverted /\ ~list[j].trimmed
           => Leave({k \in own : k < list[j].id}, first, list[j].original) /\ list[j].id \in own
    BY DEF Chain, Linked, OwnIds
  <2>5. Leave({k \in own : k < n}, first, list[i].original)
    BY <1>4, <2>4
  <2> HIDE DEF own, n
  <2>6. {k \in own : k < n} = own \ {n}
    BY <2>2, <2>3
  <2>7. ASSUME NEW j \in DOMAIN less, less[j].turn = t, less[j].path = p, ~less[j].reverted, ~less[j].trimmed
        PROVE  Leave({k \in mine : k < less[j].id}, first, less[j].original)
    <3>1. j \in DOMAIN list /\ less[j] = list[j]
      BY <1>2, <2>7
    <3>2. PICK m : m = list[j].id /\ m \in own /\ Leave({k \in own : k < m}, first, list[j].original)
      BY <2>4, <2>7, <3>1
    <3>3. {k \in mine : k < m} = {k \in own : k < m}
      <4>1. m \in Nat /\ m <= n /\ ~(n < m)
        BY <2>2, <2>3, <3>2
      <4> QED BY <2>1, <4>1
    <3> QED BY <3>1, <3>2, <3>3
  <2>8. Leave(mine, first, list[i].original)
    BY <2>1, <2>5, <2>6
  <2>9. Linked(less, t, p, mine, first)
    BY <2>7 DEF Linked
  <2>10. Chain(less, t, p, first, list[i].original)
    BY <2>1, <2>8, <2>9 DEF Chain
  <2> QED BY <1>4, <2>10
<1> QED BY <1>3, <1>4

LEMMA Trimmed ==
    ASSUME NEW list \in Seq(Entries), NEW s, s = TrimBodies(list)
    PROVE  /\ s \in Seq(Entries) /\ Len(s) = Len(list) /\ DOMAIN s = DOMAIN list
           /\ \A i \in DOMAIN list : Copy(s[i], list[i])
<1>1. Len(list) \in Nat /\ DOMAIN list = 1 .. Len(list)
  OBVIOUS
<1>2. s = [i \in DOMAIN list |-> s[i]] /\ DOMAIN s = DOMAIN list
  BY DEF TrimBodies
<1>3. ASSUME NEW i \in DOMAIN list
      PROVE  s[i] = list[i] \/ s[i] = [list[i] EXCEPT !.original = Absent, !.body = 0, !.trimmed = TRUE]
  BY DEF TrimBodies
<1>4. \A i \in DOMAIN list : s[i] \in Entries /\ Copy(s[i], list[i])
  <2> SUFFICES ASSUME NEW i \in DOMAIN list PROVE s[i] \in Entries /\ Copy(s[i], list[i])
    OBVIOUS
  <2>1. list[i] \in Entries
    OBVIOUS
  <2>2. CASE s[i] = list[i]
    BY <2>1, <2>2 DEF Copy, Entries
  <2>3. CASE s[i] = [list[i] EXCEPT !.original = Absent, !.body = 0, !.trimmed = TRUE]
    <3>3. list[i] \in Entries /\ s[i] = [list[i] EXCEPT !.original = 0, !.body = 0, !.trimmed = TRUE] /\ 0 \in Texts /\ 0 \in 0 .. 1
      BY <2>1, <2>3, TextFacts DEF Absent
    <3>4. PICK f : f = list[i] /\ f \in Entries /\ s[i] = [f EXCEPT !.original = 0, !.body = 0, !.trimmed = TRUE]
      BY <3>3
    <3>1. /\ s[i].id = list[i].id /\ s[i].turn = list[i].turn /\ s[i].path = list[i].path
          /\ s[i].reverted = list[i].reverted /\ s[i].trimmed
      BY <2>1, <2>3 DEF Entries
    <3>2. s[i] \in Entries
      BY <3>3, <3>4 DEF Entries
    <3> QED BY <3>1, <3>2 DEF Copy
  <2> QED BY <1>3, <2>2, <2>3
<1>5. s \in [1 .. Len(list) -> Entries]
  BY <1>1, <1>2, <1>4
<1> QED BY <1>1, <1>2, <1>4, <1>5

\* The list without its first d entries.
Newest(s, list, d) ==
    /\ s \in Seq(Entries) /\ Len(s) <= MutationHistory /\ Len(s) <= Len(list) /\ Len(s) \in Nat
    /\ Len(s) = Len(list) \/ Len(s) = MutationHistory
    /\ d = Len(list) - Len(s)
    /\ \A i \in DOMAIN s : i + d \in DOMAIN list /\ s[i] = list[i + d]
    /\ \A j \in DOMAIN list : j > d => \E i \in DOMAIN s : s[i] = list[j]

LEMMA KeptNewest ==
    ASSUME NEW list \in Seq(Entries), NEW s, s = KeepNewest(list)
    PROVE  \E d : Newest(s, list, d)
<1>1. Len(list) \in Nat /\ DOMAIN list = 1 .. Len(list) /\ MutationHistory \in Nat
  BY FileMutationsAssumption
<1>2. PICK m, h, n, d : m = Len(list) /\ m \in Nat /\ h = MutationHistory /\ h \in Nat /\ n = (IF m < h THEN m ELSE h) /\ d = m - n
  BY <1>1
<1>3. n \in Nat /\ n <= m /\ n <= h /\ (n = m \/ n = h)
  <2>1. CASE m < h
    BY <1>2, <2>1
  <2>2. CASE ~(m < h)
    BY <1>2, <2>2
  <2> QED BY <2>1, <2>2
<1>4. d \in Nat /\ d + n = m
  BY <1>2, <1>3
<1>5. s = SubSeq(list, d + 1, m)
  BY <1>2 DEF KeepNewest
<1>6. s \in Seq(Entries) /\ Len(s) = n /\ \A i \in 1 .. n : s[i] = list[i + d]
  <2>1. PICK a : a = d + 1
    OBVIOUS
  <2>2. a \in Nat
    BY <1>4, <2>1
  <2>7. m \in Nat /\ n \in Nat
    BY <1>2, <1>3
  <2>8. m - a + 1 = n
    BY <1>4, <2>1, <2>7
  <2>3. a <= m + 1 /\ m - a + 1 = n /\ (a <= m \/ n = 0)
    BY <2>2, <2>7, <2>8
  <2>4. a \in Int /\ m \in Int /\ \A i \in a .. m : list[i] \in Entries
    <3>1. a \in Int /\ m \in Int /\ 1 <= a
      BY <1>2, <1>4, <2>1
    <3>2. \A i \in a .. m : i \in 1 .. m
      BY <3>1
    <3>3. \A i \in 1 .. Len(list) : list[i] \in Entries
      OBVIOUS
    <3> QED BY <1>2, <3>1, <3>2, <3>3
  <2>5. s \in Seq(Entries) /\ Len(s) = (IF a <= m THEN m - a + 1 ELSE 0) /\ \A i \in 1 .. m - a + 1 : s[i] = list[a + i - 1]
    BY <1>5, <2>1, <2>4, SubSeqProperties
  <2>6. \A i \in 1 .. n : a + i - 1 = i + d
    BY <1>3, <1>4, <2>1
  <2> QED BY <2>3, <2>5, <2>6
<1>7. DOMAIN s = 1 .. n
  BY <1>6
<1>8. \A i \in 1 .. n : i + d \in 1 .. m
  BY <1>2, <1>3, <1>4
<1>9. ASSUME NEW j \in 1 .. m, j > d PROVE \E i \in 1 .. n : s[i] = list[j]
  <2>1. j - d \in 1 .. n /\ (j - d) + d = j
    BY <1>2, <1>3, <1>4, <1>9
  <2> QED BY <1>6, <2>1
<1>10. Len(list) - Len(s) = d
  BY <1>2, <1>3, <1>4, <1>6
<1>11. DOMAIN list = 1 .. m /\ Len(s) = n /\ Len(list) = m /\ MutationHistory = h
  BY <1>1, <1>2, <1>6
<1>12. \A i \in DOMAIN s : i + d \in DOMAIN list /\ s[i] = list[i + d]
  BY <1>6, <1>7, <1>8, <1>11
<1>13. \A j \in DOMAIN list : j > d => \E i \in DOMAIN s : s[i] = list[j]
  BY <1>7, <1>9, <1>11
<1>14. Len(s) <= MutationHistory /\ Len(s) <= Len(list) /\ Len(s) \in Nat /\ (Len(s) = Len(list) \/ Len(s) = MutationHistory)
  BY <1>3, <1>11
<1>15. Newest(s, list, d)
  BY <1>6, <1>10, <1>12, <1>13, <1>14 DEF Newest
<1> QED BY <1>15

-----------------------------------------------------------------------------
(* Steps that change neither a file nor the ledger.                        *)

Quiet == UNCHANGED <<content, ledger, preimage, before, foreign, unrecorded, evicted>>

LEMMA NoWriteHasNoStage ==
    /\ NoWrite.stage = "none" /\ NoWrite.tool = "none" /\ NoWrite.original = 0 /\ NoWrite.new = 0
    /\ NoWrite \in [stage : {"none", "prepared", "replaced"}, tool : {"none", "text", "artifact"},
                    path : Paths \cup {NoWrite.path}, original : Texts, new : Nat]
  BY TextFacts DEF NoWrite, Absent

LEMMA QuietKeepsChains ==
    ASSUME Chains, Quiet, write.stage # "replaced", write'.stage # "replaced"
    PROVE  Chains'
<1> SUFFICES ASSUME NEW t \in Turns, NEW p \in Paths, Clean(t, p)'
             PROVE  Chain(ledger, t, p, before[t][p], Held(t, p))'
  BY DEF Chains
<1>1. Clean(t, p)
  BY DEF Clean, Quiet
<1>2. Chain(ledger, t, p, before[t][p], content[p])
  BY <1>1 DEF Chains, Held
<1>3. ledger' = ledger /\ before' = before /\ Held(t, p)' = content[p]
  BY DEF Held, Quiet
<1> QED BY <1>2, <1>3 DEF Chain, OwnIds, Linked

LEMMA QuietKeepsNumbered ==
    ASSUME FilesInv, Quiet, fresh' = fresh, write' = NoWrite \/ (write' = write /\ (turn' = turn \/ write.stage # "replaced"))
    PROVE  Numbered' /\ Known'
<1>1. Numbered /\ Known
  BY DEF FilesInv
<1>2. CASE write' = NoWrite
  BY <1>1, <1>2, NoWriteHasNoStage DEF Numbered, Known, Quiet
<1>3. CASE write' = write /\ (turn' = turn \/ write.stage # "replaced")
  BY <1>1, <1>3 DEF Numbered, Known, Quiet
<1> QED BY <1>2, <1>3

LEMMA IdleInTurns ==
    ASSUME FilesInv
    PROVE  (at # "turn" => write.stage = "none") /\ (at # "prompt" => undo.status # "running")
  BY DEF FilesInv, FilesShape, Undoing

LEMMA BeginTurnInv == ASSUME FilesInv, BeginTurn PROVE FilesInv'
<1>1. write.stage = "none" /\ Quiet /\ write' = write /\ fresh' = fresh
  BY IdleInTurns DEF BeginTurn, history, Quiet
<1>2. turn \in 0 .. MaxTurns /\ turn < MaxTurns /\ MaxTurns \in Nat /\ turn' = turn + 1
  BY FileMutationsAssumption DEF BeginTurn, FilesInv, FilesShape
<1>3. turn' \in Turns /\ turn' \in 0 .. MaxTurns
  BY <1>2 DEF Turns
<1>4. FilesShape'
  BY <1>1, <1>3 DEF BeginTurn, history, FilesInv, FilesShape, NoWrite
<1>5. Numbered' /\ Known'
  BY <1>1, QuietKeepsNumbered
<1>6. Chains'
  BY <1>1, QuietKeepsChains DEF FilesInv
<1>7. Undoing'
  BY DEF BeginTurn, Undoing
<1> QED BY <1>4, <1>5, <1>6, <1>7 DEF FilesInv

\* The steps of a turn that write no file.
LEMMA TurnStepInv ==
    ASSUME FilesInv, at = "turn", at' \in {"prompt", "turn"}, Quiet, write.stage # "replaced", write' = write \/ write' = NoWrite,
           at' = "prompt" => write' = NoWrite,
           UNCHANGED <<turn, fresh, undo>>
    PROVE  FilesInv'
<1>1. FilesShape'
  BY NoWriteHasNoStage DEF FilesInv, FilesShape, Quiet, NoWrite
<1>2. Numbered' /\ Known'
  BY QuietKeepsNumbered
<1>3. Chains'
  BY QuietKeepsChains, NoWriteHasNoStage DEF FilesInv
<1>4. Undoing'
  BY IdleInTurns DEF Undoing
<1> QED BY <1>1, <1>2, <1>3, <1>4 DEF FilesInv

LEMMA IdleTurnInv ==
    ASSUME FilesInv, EndTurn \/ (\E p \in Paths : ReadFile(p)) \/ WriteFails \/ SaveTurnCheckpoint
    PROVE  FilesInv'
<1>1. CASE EndTurn
  BY <1>1, TurnStepInv, NoWriteHasNoStage DEF EndTurn, history, Quiet
<1>2. CASE \E p \in Paths : ReadFile(p)
  BY <1>2, TurnStepInv, NoWriteHasNoStage DEF ReadFile, history, Quiet
<1>3. CASE WriteFails
  BY <1>3, TurnStepInv, NoWriteHasNoStage DEF WriteFails, history, Quiet
<1>4. CASE SaveTurnCheckpoint
  BY <1>4, TurnStepInv, NoWriteHasNoStage DEF SaveTurnCheckpoint, history, Quiet
<1> QED BY <1>1, <1>2, <1>3, <1>4

LEMMA PrepareInv ==
    ASSUME FilesInv, NEW p \in Paths, NEW tool \in {"text", "artifact"}, Prepare(p, tool), tool = "artifact" => p \in Artifacts
    PROVE  FilesInv'
<1>1. /\ at = "turn" /\ write = NoWrite /\ fresh < MaxWritten /\ fresh \in Nat /\ MaxContents \in Nat /\ fresh' = fresh + 1 /\ fresh' \in Contents
      /\ fresh' \in Nat /\ Quiet /\ at' = at /\ turn' = turn /\ undo' = undo
  BY FileMutationsAssumption DEF Prepare, history, Quiet, FilesInv, FilesShape, Contents
<1>2. /\ write' = [stage |-> "prepared", tool |-> tool, path |-> p, original |-> Decoded[content[p]], new |-> fresh']
      /\ Decoded[content[p]] \in Texts
  BY <1>1, TextFacts DEF Prepare, FilesInv, FilesShape
<1>3. FilesShape'
  <2>1. write' \in [stage : {"none", "prepared", "replaced"}, tool : {"none", "text", "artifact"},
                    path : Paths \cup {NoWrite.path}, original : Texts, new : Nat]
    BY <1>1, <1>2
  <2>2. write'.path \in Paths /\ write'.new \in Contents /\ write'.new <= fresh' /\ (write'.tool = "artifact" => write'.path \in Artifacts)
    BY <1>1, <1>2
  <2>3. (NoWrite.path)' = NoWrite.path
    BY DEF NoWrite
  <2> QED BY <1>1, <2>1, <2>2, <2>3 DEF FilesInv, FilesShape, Quiet
<1>4. Numbered'
  <2>1. \A i \in DOMAIN ledger : ledger[i].id \in Nat /\ ledger[i].id <= fresh
    <3>1. \A i \in DOMAIN ledger : ledger[i] \in Entries
      BY DEF FilesInv, FilesShape
    <3> QED BY <3>1, FileMutationsAssumption DEF Entries, Contents, FilesInv, Numbered
  <2>2. \A i \in DOMAIN ledger : ledger[i].id <= fresh' /\ ledger[i].id < fresh'
    BY <1>1, <2>1
  <2>3. write'.new = fresh'
    BY <1>2
  <2>4. ledger' = ledger /\ preimage' = preimage /\ Numbered
    BY <1>1 DEF FilesInv, Quiet
  <2> QED BY <2>2, <2>3, <2>4 DEF Numbered
<1>5. Known'
  <2>1. write'.stage = "prepared"
    BY <1>2
  <2> QED BY <1>1, <2>1 DEF FilesInv, Known, Quiet
<1>6. Chains'
  BY <1>1, <1>2, QuietKeepsChains, NoWriteHasNoStage DEF FilesInv
<1>7. Undoing'
  BY <1>1, IdleInTurns DEF Undoing
<1> QED BY <1>3, <1>4, <1>5, <1>6, <1>7 DEF FilesInv

\* The rows of the state file take the place of those in memory.
LEMMA ReadBackInv ==
    ASSUME FilesInv, ledger' = ReadBack(ledger), UNCHANGED <<content, fresh, write, preimage, before, foreign, unrecorded, evicted>>,
           turn' = turn \/ write.stage # "replaced"
    PROVE  /\ ledger' \in Seq(Entries) /\ Len(ledger') <= MutationHistory /\ Numbered' /\ Known' /\ Chains'
           /\ \A t : InPlace(t)' = InPlace(t) /\ \A i \in DOMAIN ledger : ledger'[i].reverted = ledger[i].reverted
<1>1. PICK list, s : list = ledger /\ s = ledger' /\ s = ReadBack(list) /\ list \in Seq(Entries)
  BY DEF FilesInv, FilesShape
<1>2. \A i \in DOMAIN list : list[i] \in Entries
  BY <1>1
<1>3. DOMAIN s = DOMAIN list /\ \A i \in DOMAIN list : s[i] = [list[i] EXCEPT !.original = Redacted[@]]
  BY <1>1 DEF ReadBack
<1>4. ASSUME NEW i \in DOMAIN list PROVE s[i] \in Entries /\ Copy(s[i], list[i]) /\ s[i].trimmed = list[i].trimmed
  <2>1. PICK e, text : e = list[i] /\ e \in Entries /\ text = Redacted[e.original]
    BY <1>2
  <2>2. text \in Texts
    BY <2>1, TextFacts DEF Entries
  <2>3. s[i] = [e EXCEPT !.original = text]
    BY <1>3, <2>1
  <2>4. s[i] \in Entries
    BY <2>1, <2>2, <2>3 DEF Entries
  <2>5. /\ s[i].id = e.id /\ s[i].turn = e.turn /\ s[i].path = e.path /\ s[i].reverted = e.reverted
        /\ s[i].trimmed = e.trimmed /\ s[i].original = text
    BY <2>1, <2>3 DEF Entries
  <2>6. Copy(s[i], e)
    BY <2>1, <2>5 DEF Copy
  <2> QED BY <2>1, <2>4, <2>5, <2>6
<1>5. s \in Seq(Entries) /\ Len(s) = Len(list)
  <2>1. Len(list) \in Nat /\ DOMAIN list = 1 .. Len(list)
    BY <1>1
  <2>2. s \in [1 .. Len(list) -> Entries]
    <3>1. s = [i \in DOMAIN list |-> s[i]]
      BY <1>1 DEF ReadBack
    <3> QED BY <1>4, <2>1, <3>1
  <2> QED BY <2>1, <2>2
<1>6. \A i \in DOMAIN ledger : /\ Copy(ledger'[i], ledger[i]) /\ ledger'[i].trimmed = ledger[i].trimmed /\ ledger[i] \in Entries
  BY <1>1, <1>2, <1>4
<1>7. DOMAIN ledger' = DOMAIN ledger
  BY <1>1, <1>3
<1>8. Numbered'
  <2>1. \A i \in DOMAIN ledger : ledger'[i].id = ledger[i].id /\ ledger'[i].path = ledger[i].path
    BY <1>6 DEF Copy
  <2>2. \A i, j \in DOMAIN ledger' : i < j => ledger'[i].id < ledger'[j].id
    BY <1>7, <2>1 DEF FilesInv, Numbered
  <2>3. \A i \in DOMAIN ledger' : ledger'[i].id <= fresh' /\ (write'.stage # "none" => ledger'[i].id < write'.new)
    BY <1>7, <2>1 DEF FilesInv, Numbered
  <2>4. \A i \in DOMAIN ledger' : ledger'[i].path \notin Artifacts /\ ~ledger'[i].trimmed /\ ledger'[i].original = Absent
           => preimage'[ledger'[i].id] = Absent
    BY <1>6, <1>7, <2>1, CopyAbsent DEF FilesInv, Numbered
  <2> QED BY <2>2, <2>3, <2>4 DEF Numbered
<1>9. Known'
  BY <1>6, <1>7 DEF FilesInv, Known, Copy
<1>10. Chains'
  <2> SUFFICES ASSUME NEW t \in Turns, NEW q \in Paths, Clean(t, q)'
               PROVE  Chain(ledger', t, q, before'[t][q], Held(t, q)')
    BY DEF Chains, Chain, OwnIds, Linked
  <2>1. Clean(t, q) /\ Held(t, q)' = Held(t, q) /\ before' = before
    BY DEF Clean, Held
  <2>2. PICK first, value : first = before[t][q] /\ value = Held(t, q) /\ Chain(list, t, q, first, value) /\ first \in Contents
    BY <1>1, <2>1 DEF FilesInv, FilesShape, Chains, Clean, Values
  <2>3. Covers(s, list, t)
    BY <1>3, <1>4 DEF Covers
  <2>4. Chain(s, t, q, first, value)
    BY <1>1, <2>2, <2>3, ChainCopied
  <2> QED BY <1>1, <2>1, <2>2, <2>4
<1>11. \A t : Indexes(t)' = Indexes(t)
  BY <1>6, <1>7 DEF Indexes, Copy
<1>12. \A t : InPlace(t)' = InPlace(t)
  <2> SUFFICES ASSUME NEW t PROVE InPlace(t)' = InPlace(t)
    OBVIOUS
  <2>1. \A i \in Indexes(t) : ledger'[i].id = ledger[i].id
    BY <1>6 DEF Indexes, Copy
  <2> QED BY <1>11, <2>1 DEF InPlace
<1>13. \A i \in DOMAIN ledger : ledger'[i].reverted = ledger[i].reverted
  BY <1>6 DEF Copy
<1> QED BY <1>1, <1>5, <1>8, <1>9, <1>10, <1>12, <1>13 DEF FilesInv, FilesShape

LEMMA ReloadInv == ASSUME FilesInv, Reload PROVE FilesInv'
<1>1. ledger' = ReadBack(ledger) /\ UNCHANGED <<content, fresh, at, turn, write, undo, before, preimage, foreign, unrecorded, evicted>>
  BY DEF Reload, history
<1>2. /\ ledger' \in Seq(Entries) /\ Len(ledger') <= MutationHistory /\ Numbered' /\ Known' /\ Chains'
      /\ \A t : InPlace(t)' = InPlace(t)
  BY <1>1, ReadBackInv
<1>3. FilesShape'
  BY <1>1, <1>2 DEF FilesInv, FilesShape, NoWrite
<1>4. Undoing'
  <2>1. InPlace(undo.turn)' = InPlace(undo.turn)
    <3>1. undo'.turn = undo.turn
      BY <1>1
    <3> QED BY <1>2, <3>1 DEF InPlace, Indexes
  <2> QED BY <1>1, <2>1 DEF FilesInv, Undoing
<1> QED BY <1>2, <1>3, <1>4 DEF FilesInv

LEMMA ResumeTurnInv == ASSUME FilesInv, ResumeTurn PROVE FilesInv'
<1>1. /\ write.stage = "none" /\ write' = write /\ fresh' = fresh /\ undo' = undo /\ undo.status # "running"
      /\ ledger' = ReadBack(ledger) /\ UNCHANGED <<content, before, preimage, foreign, unrecorded, evicted>>
  BY IdleInTurns DEF ResumeTurn, history
<1>2. turn \in 0 .. MaxTurns /\ turn < MaxTurns /\ MaxTurns \in Nat /\ turn' = turn + 1
  BY FileMutationsAssumption DEF ResumeTurn, FilesInv, FilesShape
<1>3. turn' \in Turns /\ turn' \in 0 .. MaxTurns
  BY <1>2 DEF Turns
<1>5. ledger' \in Seq(Entries) /\ Len(ledger') <= MutationHistory /\ Numbered' /\ Known' /\ Chains'
  BY <1>1, ReadBackInv
<1>4. FilesShape'
  BY <1>1, <1>3, <1>5 DEF ResumeTurn, FilesInv, FilesShape, NoWrite
<1>7. Undoing'
  BY <1>1 DEF Undoing
<1> QED BY <1>4, <1>5, <1>7 DEF FilesInv

-----------------------------------------------------------------------------
(* Writes.                                                                 *)

LEMMA NothingRecorded ==
    ASSUME FilesInv, NEW t \in Turns, NEW p \in Paths, before[t][p] = Unseen, NEW first
    PROVE  \A value \in Versions(first) : Chain(ledger, t, p, first, value)
<1>1. \A i \in DOMAIN ledger : ~(ledger[i].turn = t /\ ledger[i].path = p)
  BY DEF FilesInv, Known
<1>2. OwnIds(ledger, t, p) = {}
  BY <1>1 DEF OwnIds
<1> QED BY <1>1, <1>2 DEF Chain, Leave, Linked

\* A tool has read what the path holds.
LEMMA ChainDecoded ==
    ASSUME NEW list \in Seq(Entries), NEW t, NEW p, NEW first \in Contents, NEW value, Chain(list, t, p, first, value)
    PROVE  Chain(list, t, p, first, Decoded[value])
<1>1. \A k \in DOMAIN list : list[k].id \in Contents
  <2>1. \A k \in DOMAIN list : list[k] \in Entries
    OBVIOUS
  <2> QED BY <2>1 DEF Entries
<1>2. OwnIds(list, t, p) \in SUBSET Contents
  BY <1>1 DEF OwnIds
<1>3. Leave(OwnIds(list, t, p), first, value)
  BY DEF Chain
<1>4. Leave(OwnIds(list, t, p), first, Decoded[value])
  BY <1>2, <1>3, LeavesVersions
<1> QED BY <1>4 DEF Chain

LEMMA ReplaceFileInv == ASSUME FilesInv, ReplaceFile PROVE FilesInv'
<1> DEFINE p == write.path
<1>1. /\ write.stage = "prepared" /\ at = "turn" /\ at' = "turn" /\ turn \in Turns /\ turn' = turn /\ p \in Paths
      /\ write.original \in Texts /\ write.new \in Contents /\ write.new \in Nat
  BY FileMutationsAssumption DEF ReplaceFile, FilesInv, FilesShape, Contents
<1>2. /\ write'.stage = "replaced" /\ write'.tool = write.tool /\ write'.path = p /\ write'.original = write.original /\ write'.new = write.new
      /\ write' \in [stage : {"none", "prepared", "replaced"}, tool : {"none", "text", "artifact"},
                     path : Paths \cup {NoWrite.path}, original : Texts, new : Nat]
  BY DEF ReplaceFile, FilesInv, FilesShape
<1>3. content' = [content EXCEPT ![p] = write.new] /\ content \in [Paths -> Contents] /\ content' \in [Paths -> Contents]
  BY <1>1 DEF ReplaceFile, FilesInv, FilesShape
<1>4. /\ before \in [Turns -> [Paths -> Values]]
      /\ before' = IF before[turn][p] = Unseen THEN [before EXCEPT ![turn][p] = content[p]] ELSE before
  BY DEF ReplaceFile, FilesInv, FilesShape
<1>5. /\ before' \in [Turns -> [Paths -> Values]]
      /\ \A t \in Turns, q \in Paths : (t # turn \/ q # p) => before'[t][q] = before[t][q]
      /\ before[turn][p] = Unseen => before'[turn][p] = content[p]
      /\ before[turn][p] # Unseen => before' = before
  BY <1>1, <1>3, <1>4 DEF Values
<1>6. \A t \in Turns, q \in Paths : before[t][q] # Unseen => before'[t][q] # Unseen
  BY <1>5
<1>7. before'[turn][p] # Unseen
  BY <1>1, <1>3, <1>5, TextFacts DEF Unseen
<1>8. /\ foreign \in [Turns -> SUBSET Paths]
      /\ foreign' = [t \in Turns |->
            IF (t # turn /\ before[t][p] # Unseen) \/ (t = turn /\ Decoded[content[p]] # write.original)
            THEN foreign[t] \cup {p} ELSE foreign[t]]
  BY DEF ReplaceFile, FilesInv, FilesShape
<1>9. /\ foreign' \in [Turns -> SUBSET Paths]
      /\ \A t \in Turns : foreign[t] \subseteq foreign'[t]
      /\ \A t \in Turns : t # turn /\ before[t][p] # Unseen => p \in foreign'[t]
      /\ p \notin foreign'[turn] => Decoded[content[p]] = write.original
  BY <1>1, <1>8
<1>10. UNCHANGED <<fresh, ledger, undo, preimage, unrecorded, evicted>>
  BY DEF ReplaceFile, session
<1>11. (NoWrite.path)' = NoWrite.path
  BY DEF NoWrite
<1>12. FilesShape'
  BY <1>1, <1>2, <1>3, <1>5, <1>9, <1>10, <1>11 DEF FilesInv, FilesShape
<1>13. Numbered'
  BY <1>1, <1>2, <1>10 DEF FilesInv, Numbered
<1>14. Known'
  <2>1. \A i \in DOMAIN ledger : ledger[i].turn \in Turns /\ ledger[i].path \in Paths
    <3>1. \A i \in DOMAIN ledger : ledger[i] \in Entries
      BY DEF FilesInv, FilesShape
    <3> QED BY <3>1 DEF Entries
  <2>2. \A i \in DOMAIN ledger' : before'[ledger'[i].turn][ledger'[i].path] # Unseen
    BY <1>6, <1>10, <2>1 DEF FilesInv, Known
  <2>3. content'[p] = write.new
    BY <1>1, <1>3
  <2> QED BY <1>1, <1>2, <1>7, <2>2, <2>3 DEF Known
<1>15. Chains'
  <2> SUFFICES ASSUME NEW t \in Turns, NEW q \in Paths, Clean(t, q)'
               PROVE  Chain(ledger', t, q, before'[t][q], Held(t, q)')
    BY DEF Chains, Chain, OwnIds, Linked
  <2>1. t \notin evicted /\ q \notin foreign[t] /\ q \notin foreign'[t] /\ q \notin unrecorded[t] /\ before'[t][q] # Unseen
    BY <1>9, <1>10 DEF Clean
  <2> HIDE DEF p
  <2>2. CASE q # p
    <3>1. before'[t][q] = before[t][q] /\ Clean(t, q)
      BY <1>5, <2>1, <2>2 DEF Clean
    <3>2. Held(t, q)' = content[q] /\ Held(t, q) = content[q]
      BY <1>1, <1>2, <1>3, <2>2 DEF Held
    <3> QED BY <1>10, <3>1, <3>2 DEF FilesInv, Chains
  <2>3. CASE q = p /\ t # turn
    BY <1>5, <1>9, <2>1, <2>3
  <2>4. CASE q = p /\ t = turn
    <3>1. Held(t, q)' = write.original
      BY <1>1, <1>2, <2>4 DEF Held
    <3>4. Decoded[content[q]] = write.original /\ content[q] \in Contents
      BY <1>3, <1>9, <2>1, <2>4
    <3>2. CASE before[t][q] = Unseen
      <4>1. write.original \in Versions(content[q])
        BY <3>4 DEF Versions
      <4>2. Chain(ledger, t, q, content[q], write.original)
        BY <3>2, <4>1, NothingRecorded
      <4> QED BY <1>5, <1>10, <2>4, <3>1, <3>2, <4>2
    <3>3. CASE before[t][q] # Unseen
      <4>1. before'[t][q] = before[t][q] /\ Clean(t, q) /\ Held(t, q) = content[q]
        BY <1>1, <1>5, <1>9, <2>1, <2>4, <3>3 DEF Clean, Held
      <4>2. Chain(ledger, t, q, before[t][q], content[q])
        BY <4>1 DEF FilesInv, Chains
      <4>3. before[t][q] \in Contents
        BY <1>4, <3>3 DEF Values
      <4>4. Chain(ledger, t, q, before[t][q], Decoded[content[q]])
        BY <4>2, <4>3, ChainDecoded DEF FilesInv, FilesShape
      <4> QED BY <1>10, <3>1, <3>4, <4>1, <4>4
    <3> QED BY <3>2, <3>3
  <2> QED BY <2>2, <2>3, <2>4
<1>16. Undoing'
  BY <1>1, <1>10, IdleInTurns DEF Undoing
<1> QED BY <1>12, <1>13, <1>14, <1>15, <1>16 DEF FilesInv

LEMMA ExternalWriteInv == ASSUME FilesInv, NEW p \in Paths, ExternalWrite(p) PROVE FilesInv'
<1>1. /\ fresh \in Nat /\ fresh' \in Nat /\ fresh <= fresh' /\ content \in [Paths -> Contents] /\ content' \in [Paths -> Contents]
      /\ \A q \in Paths : q # p => content'[q] = content[q]
  <2>0. fresh \in Nat /\ content \in [Paths -> Contents]
    BY DEF FilesInv, FilesShape
  <2>1. CASE fresh < MaxWritten /\ fresh' = fresh + 1 /\ content' = [content EXCEPT ![p] = fresh + 1]
    <3>1. fresh + 1 \in Contents
      BY <2>0, <2>1, FileMutationsAssumption DEF Contents
    <3> QED BY <2>0, <2>1, <3>1
  <2>2. CASE fresh' = fresh /\ content' = [content EXCEPT ![p] = Absent]
    BY <2>0, <2>2, TextFacts
  <2> QED BY <2>1, <2>2 DEF ExternalWrite
<1>2. /\ foreign \in [Turns -> SUBSET Paths]
      /\ foreign' = [t \in Turns |-> IF before[t][p] # Unseen THEN foreign[t] \cup {p} ELSE foreign[t]]
  BY DEF ExternalWrite, FilesInv, FilesShape
<1>3. /\ foreign' \in [Turns -> SUBSET Paths]
      /\ \A t \in Turns : foreign[t] \subseteq foreign'[t]
      /\ \A t \in Turns : before[t][p] # Unseen => p \in foreign'[t]
  BY <1>2
<1>4. UNCHANGED <<at, turn, write, ledger, undo, before, preimage, unrecorded, evicted>>
  BY DEF ExternalWrite, session
<1>5. (NoWrite.path)' = NoWrite.path
  BY DEF NoWrite
<1>6. FilesShape'
  <2>1. write.stage # "none" => write.new <= fresh'
    <3>1. write.stage # "none" => write.new \in Nat /\ write.new <= fresh
      BY FileMutationsAssumption DEF FilesInv, FilesShape, Contents
    <3> QED BY <1>1, <3>1
  <2> QED BY <1>1, <1>3, <1>4, <1>5, <2>1 DEF FilesInv, FilesShape
<1>7. Numbered'
  <2>1. \A i \in DOMAIN ledger : ledger[i].id <= fresh'
    <3>1. \A i \in DOMAIN ledger : ledger[i] \in Entries
      BY DEF FilesInv, FilesShape
    <3>2. \A i \in DOMAIN ledger : ledger[i].id \in Nat /\ ledger[i].id <= fresh
      BY <3>1, FileMutationsAssumption DEF Entries, Contents, FilesInv, Numbered
    <3> QED BY <1>1, <3>2
  <2> QED BY <1>4, <2>1 DEF FilesInv, Numbered
<1>8. Known'
  <2>1. write.stage = "replaced" =>
          turn \in Turns /\ before[turn][write.path] # Unseen /\ (content[write.path] = write.new \/ write.path \in foreign[turn]) /\ write.path \in Paths
    BY DEF FilesInv, FilesShape, Known
  <2>2. write.stage = "replaced" => content'[write.path] = write.new \/ write.path \in foreign'[turn]
    BY <1>1, <1>3, <2>1
  <2>3. \A i \in DOMAIN ledger : before[ledger[i].turn][ledger[i].path] # Unseen
    BY DEF FilesInv, Known
  <2> QED BY <1>4, <2>1, <2>2, <2>3 DEF Known
<1>9. Chains'
  <2> SUFFICES ASSUME NEW t \in Turns, NEW q \in Paths, Clean(t, q)'
               PROVE  Chain(ledger', t, q, before'[t][q], Held(t, q)')
    BY DEF Chains, Chain, OwnIds, Linked
  <2>1. q # p /\ Clean(t, q)
    BY <1>3, <1>4 DEF Clean
  <2>2. Held(t, q)' = Held(t, q)
    BY <1>1, <1>4, <2>1 DEF Held
  <2> QED BY <1>4, <2>1, <2>2 DEF FilesInv, Chains
<1>10. Undoing'
  BY <1>4 DEF FilesInv, Undoing, InPlace, Indexes
<1> QED BY <1>6, <1>7, <1>8, <1>9, <1>10 DEF FilesInv

LEMMA CrashInv == ASSUME FilesInv, Crash PROVE FilesInv'
<1>1. at = "turn" /\ at' = "down" /\ turn \in Turns /\ write' = NoWrite
  BY DEF Crash, FilesInv, FilesShape
<1>2. UNCHANGED <<content, fresh, turn, ledger, undo, before, preimage, foreign, evicted>>
  BY DEF Crash, session
<1>3. /\ unrecorded' \in [Turns -> SUBSET Paths]
      /\ \A t \in Turns : unrecorded[t] \subseteq unrecorded'[t]
      /\ write.stage = "replaced" => write.path \in unrecorded'[turn]
  <2>1. unrecorded \in [Turns -> SUBSET Paths] /\ (write.stage = "replaced" => write.path \in Paths)
    BY DEF FilesInv, FilesShape
  <2>2. unrecorded' = IF write.stage = "replaced" THEN [unrecorded EXCEPT ![turn] = @ \cup {write.path}] ELSE unrecorded
    BY DEF Crash
  <2> QED BY <1>1, <2>1, <2>2
<1>4. (NoWrite.path)' = NoWrite.path
  BY DEF NoWrite
<1>5. FilesShape'
  BY <1>1, <1>2, <1>3, <1>4, NoWriteHasNoStage DEF FilesInv, FilesShape
<1>6. Numbered' /\ Known'
  BY <1>1, <1>2, NoWriteHasNoStage DEF FilesInv, Numbered, Known
<1>7. Chains'
  <2> SUFFICES ASSUME NEW t \in Turns, NEW q \in Paths, Clean(t, q)'
               PROVE  Chain(ledger', t, q, before'[t][q], Held(t, q)')
    BY DEF Chains, Chain, OwnIds, Linked
  <2>1. Clean(t, q) /\ ~(write.stage = "replaced" /\ turn = t /\ write.path = q)
    BY <1>2, <1>3 DEF Clean
  <2>2. Held(t, q)' = content[q] /\ Held(t, q) = content[q]
    BY <1>1, <1>2, <2>1, NoWriteHasNoStage DEF Held
  <2> QED BY <1>2, <2>1, <2>2 DEF FilesInv, Chains
<1>8. Undoing'
  BY <1>1, <1>2, IdleInTurns DEF Undoing
<1> QED BY <1>5, <1>6, <1>7, <1>8 DEF FilesInv

-----------------------------------------------------------------------------
(* A write is recorded.                                                    *)

\* The turns whose entries the cap drops.
Dropped(list, kept) == {list[i].turn : i \in 1 .. (Len(list) + 1 - Len(kept))}

\* Some of the entries, in their order, and those of the turns that lost none.
Extract(s, longer, dropped) ==
    /\ \A i \in DOMAIN s : \E j \in DOMAIN longer : Copy(s[i], longer[j])
    /\ \A i, k \in DOMAIN s : i < k => \E j, l \in DOMAIN longer : j < l /\ s[i].id = longer[j].id /\ s[k].id = longer[l].id
    /\ \A t \in Turns : t \notin dropped => Covers(s, longer, t)

\* The ledger with one more entry, cut to the cap and trimmed.
LEMMA Recorded ==
    ASSUME NEW list \in Seq(Entries), NEW e \in Entries, NEW longer, longer = Append(list, e),
           NEW kept, kept = KeepNewest(longer), NEW s, s = TrimBodies(kept)
    PROVE  s \in Seq(Entries) /\ Len(s) <= MutationHistory /\ Extract(s, longer, Dropped(list, kept))
<1>1. longer \in Seq(Entries) /\ Len(longer) = Len(list) + 1 /\ Len(list) \in Nat /\ DOMAIN longer = 1 .. Len(longer) /\ DOMAIN list = 1 .. Len(list)
      /\ \A i \in 1 .. Len(list) : longer[i] = list[i]
  OBVIOUS
<1>2. PICK d : Newest(kept, longer, d)
  BY <1>1, KeptNewest
<1>12. PICK m, n, h : /\ m = Len(longer) /\ n = Len(kept) /\ h = MutationHistory
                      /\ h \in Nat /\ h # 0 /\ m \in Nat /\ m = Len(list) + 1
  BY <1>1, FileMutationsAssumption
<1>3. /\ kept \in Seq(Entries) /\ n <= h /\ n <= m /\ n \in Nat /\ (n = m \/ n = h) /\ d = m - n
      /\ \A i \in DOMAIN kept : i + d \in DOMAIN longer /\ kept[i] = longer[i + d]
      /\ \A j \in DOMAIN longer : j > d => \E i \in DOMAIN kept : kept[i] = longer[j]
  BY <1>2, <1>12 DEF Newest
<1>4. d \in Nat /\ d + n = m
  BY <1>12, <1>3
<1>5. s \in Seq(Entries) /\ Len(s) = n /\ DOMAIN s = DOMAIN kept /\ \A i \in DOMAIN kept : Copy(s[i], kept[i])
  BY <1>12, <1>3, Trimmed
<1>6. DOMAIN kept = 1 .. n
  BY <1>12, <1>3
<1>7. \A i \in DOMAIN s : i + d \in DOMAIN longer /\ Copy(s[i], longer[i + d])
  BY <1>3, <1>5
<1>8. ASSUME NEW i \in DOMAIN s, NEW k \in DOMAIN s, i < k
      PROVE  \E j, l \in DOMAIN longer : j < l /\ s[i].id = longer[j].id /\ s[k].id = longer[l].id
  <2>1. i + d < k + d
    BY <1>4, <1>5, <1>6, <1>8
  <2>2. i + d \in DOMAIN longer /\ k + d \in DOMAIN longer /\ s[i].id = longer[i + d].id /\ s[k].id = longer[k + d].id
    BY <1>7 DEF Copy
  <2> QED BY <2>1, <2>2
<1>9. ASSUME NEW t \in Turns, t \notin Dropped(list, kept) PROVE Covers(s, longer, t)
  <2>1. ASSUME NEW j \in DOMAIN longer, longer[j].turn = t PROVE \E i \in DOMAIN s : Copy(s[i], longer[j])
    <3>1. CASE j > d
      BY <1>3, <1>5, <3>1
    <3>2. CASE ~(j > d)
      <4>1. j \in Nat /\ 1 <= j /\ j <= d
        BY <1>1, <1>4, <3>2
      <4>2. 1 <= n
        BY <1>1, <1>12, <1>3
      <4>3. j <= m - 1 /\ j <= m - n
        BY <1>12, <1>3, <1>4, <4>1, <4>2
      <4>4. j \in 1 .. Len(list) /\ j \in 1 .. (Len(list) + 1 - Len(kept))
        BY <1>1, <1>12, <1>3, <4>1, <4>3
      <4> QED BY <1>1, <1>9, <2>1, <4>4 DEF Dropped
    <3> QED BY <3>1, <3>2
  <2> QED BY <1>7, <2>1 DEF Covers
<1>10. Len(s) <= MutationHistory
  BY <1>12, <1>3, <1>5
<1>11. Extract(s, longer, Dropped(list, kept))
  BY <1>7, <1>8, <1>9 DEF Extract
<1> QED BY <1>5, <1>10, <1>11

RecordedEntry == [id |-> write.new, turn |-> turn, path |-> write.path,
                  original |-> IF write.tool = "artifact" THEN Absent ELSE write.original,
                  body |-> IF write.tool = "artifact" THEN 0 ELSE 1,
                  reverted |-> FALSE, trimmed |-> FALSE]

Verified == (write.tool = "text" /\ Decoded[content[write.path]] = write.new) \/ (write.tool = "artifact" /\ content[write.path] # Absent)

LEMMA RecordMutationInv == ASSUME FilesInv, RecordMutation PROVE FilesInv'
<1> DEFINE p == write.path
<1>1. /\ write.stage = "replaced" /\ at = "turn" /\ at' = "turn" /\ write' = NoWrite /\ turn \in Turns /\ p \in Paths /\ write.new \in Contents
      /\ write.new \in Nat /\ write.original \in Texts /\ write.tool \in {"none", "text", "artifact"} /\ ledger \in Seq(Entries)
      /\ (write.tool = "artifact" => p \in Artifacts)
  BY FileMutationsAssumption DEF RecordMutation, FilesInv, FilesShape, Contents
<1>2. UNCHANGED <<content, fresh, turn, undo, before, foreign>>
  BY DEF RecordMutation, session
<1>3. /\ unrecorded \in [Turns -> SUBSET Paths]
      /\ unrecorded' = IF Verified /\ RecordedEntry.original = write.original THEN unrecorded ELSE [unrecorded EXCEPT ![turn] = @ \cup {p}]
  BY DEF RecordMutation, Verified, RecordedEntry, FilesInv, FilesShape
<1>4. /\ unrecorded' \in [Turns -> SUBSET Paths]
      /\ \A t \in Turns : unrecorded[t] \subseteq unrecorded'[t]
      /\ ~(Verified /\ RecordedEntry.original = write.original) => p \in unrecorded'[turn]
  BY <1>1, <1>3
<1>5. (NoWrite.path)' = NoWrite.path
  BY DEF NoWrite
<1>6. Undoing'
  BY <1>1, <1>2, IdleInTurns DEF Undoing
<1>7. CASE ~Verified
  <2>1. UNCHANGED <<ledger, preimage, evicted>>
    BY <1>7 DEF RecordMutation, Verified
  <2>2. FilesShape'
    BY <1>1, <1>2, <1>4, <1>5, <2>1, NoWriteHasNoStage DEF FilesInv, FilesShape
  <2>3. Numbered' /\ Known'
    BY <1>1, <1>2, <2>1, NoWriteHasNoStage DEF FilesInv, Numbered, Known
  <2>4. Chains'
    <3> SUFFICES ASSUME NEW t \in Turns, NEW q \in Paths, Clean(t, q)'
                 PROVE  Chain(ledger', t, q, before'[t][q], Held(t, q)')
      BY DEF Chains, Chain, OwnIds, Linked
    <3>1. Clean(t, q) /\ ~(turn = t /\ p = q)
      BY <1>2, <1>4, <1>7, <2>1 DEF Clean
    <3>2. Held(t, q)' = content[q] /\ Held(t, q) = content[q]
      BY <1>1, <1>2, <3>1, NoWriteHasNoStage DEF Held
    <3> QED BY <1>2, <2>1, <3>1, <3>2 DEF FilesInv, Chains
  <2> QED BY <1>6, <2>2, <2>3, <2>4 DEF FilesInv
<1>8. CASE Verified
  <2>1. PICK list, e, longer, kept, s :
           /\ list = ledger /\ e = RecordedEntry /\ longer = Append(list, e) /\ kept = KeepNewest(longer) /\ s = TrimBodies(kept)
    OBVIOUS
  <2>2. /\ ledger' = s /\ evicted' = evicted \cup Dropped(list, kept)
        /\ preimage' = [preimage EXCEPT ![e.id] = write.original]
    BY <1>8, <2>1 DEF RecordMutation, Verified, RecordedEntry, Dropped
  <2>3. /\ e \in Entries /\ e.id = write.new /\ e.turn = turn /\ e.path = p /\ ~e.reverted /\ ~e.trimmed
        /\ (p \notin Artifacts => e.original = write.original)
    <3>1. e.original \in Texts /\ e.body \in 0 .. 1 /\ (write.tool # "artifact" => e.original = write.original)
      BY <1>1, <2>1, TextFacts DEF RecordedEntry
    <3>2. e.id = write.new /\ e.turn = turn /\ e.path = p /\ e.reverted = FALSE /\ e.trimmed = FALSE
      BY <2>1 DEF RecordedEntry
    <3>3. e = [id |-> e.id, turn |-> e.turn, path |-> e.path, original |-> e.original, body |-> e.body, reverted |-> e.reverted, trimmed |-> e.trimmed]
      BY <2>1 DEF RecordedEntry
    <3>4. e \in Entries
      BY <1>1, <3>1, <3>2, <3>3 DEF Entries
    <3> QED BY <1>1, <3>1, <3>2, <3>4
  <2>4. /\ list \in Seq(Entries) /\ Len(list) \in Nat /\ DOMAIN list = 1 .. Len(list)
        /\ DOMAIN longer = DOMAIN list \cup {Len(list) + 1} /\ longer[Len(list) + 1] = e /\ \A i \in DOMAIN list : longer[i] = list[i]
    BY <1>1, <2>1, <2>3
  <2>14. s \in Seq(Entries) /\ Len(s) <= MutationHistory /\ Extract(s, longer, Dropped(list, kept))
    BY <2>1, <2>3, <2>4, Recorded
  <2>5. /\ \A i \in DOMAIN s : \E j \in DOMAIN longer : Copy(s[i], longer[j])
        /\ \A i, k \in DOMAIN s : i < k => \E j, l \in DOMAIN longer : j < l /\ s[i].id = longer[j].id /\ s[k].id = longer[l].id
        /\ \A t \in Turns : t \notin Dropped(list, kept) => Covers(s, longer, t)
    BY <2>14 DEF Extract
  <2> HIDE DEF p
  <2>6. \A i \in DOMAIN list : list[i].id \in Nat /\ list[i].id < e.id /\ list[i].id <= fresh
    <3>1. \A i \in DOMAIN list : list[i] \in Entries
      BY <2>4
    <3> QED BY <1>1, <2>1, <2>3, <3>1, FileMutationsAssumption DEF Entries, Contents, FilesInv, Numbered
  <2>7. FilesShape'
    <3>1. preimage' \in [Contents -> Values]
      <4>1. preimage \in [Contents -> Values]
        BY DEF FilesInv, FilesShape
      <4>2. write.original \in Values
        BY <1>1 DEF Values, Texts
      <4> QED BY <2>2, <4>1, <4>2
    <3>2. evicted' \subseteq Turns
      <4>1. ASSUME NEW i \in 1 .. (Len(list) + 1 - Len(kept)) PROVE list[i].turn \in Turns
        <5>1. 1 <= Len(kept) /\ Len(kept) \in Nat
          <6>1. longer \in Seq(Entries) /\ Len(longer) = Len(list) + 1
            BY <2>1, <2>3, <2>4
          <6>2. Len(kept) \in Nat /\ (Len(kept) = Len(longer) \/ Len(kept) = MutationHistory)
            BY <2>1, <6>1, KeptNewest DEF Newest
          <6>3. MutationHistory \in Nat /\ MutationHistory # 0
            BY FileMutationsAssumption
          <6> QED BY <2>4, <6>1, <6>2, <6>3
        <5>2. i \in DOMAIN list
          BY <2>4, <5>1
        <5>3. list[i] \in Entries
          BY <2>4, <5>2
        <5> QED BY <5>3 DEF Entries
      <4> QED BY <2>2, <4>1 DEF FilesInv, FilesShape, Dropped
    <3> QED BY <1>1, <1>2, <1>4, <1>5, <2>2, <2>14, <3>1, <3>2, NoWriteHasNoStage DEF FilesInv, FilesShape
  <2>8. Numbered'
    <3>1. \A j, l \in DOMAIN longer : j < l => longer[j].id < longer[l].id
      <4> SUFFICES ASSUME NEW j \in DOMAIN longer, NEW l \in DOMAIN longer, j < l PROVE longer[j].id < longer[l].id
        OBVIOUS
      <4>1. j \in DOMAIN list
        BY <2>4
      <4>2. CASE l \in DOMAIN list
        BY <2>1, <2>4, <4>1, <4>2 DEF FilesInv, Numbered
      <4>3. CASE l = Len(list) + 1
        BY <2>4, <2>6, <4>1, <4>3
      <4> QED BY <2>4, <4>2, <4>3
    <3>2. \A i, k \in DOMAIN s : i < k => s[i].id < s[k].id
      BY <2>5, <3>1
    <3>3. \A j \in DOMAIN longer : longer[j].id <= fresh
      <4>1. e.id <= fresh
        BY <1>1, <2>3 DEF FilesInv, FilesShape
      <4> QED BY <2>4, <2>6, <4>1
    <3>4. \A i \in DOMAIN s : s[i].id <= fresh
      BY <2>5, <3>3 DEF Copy
    <3>5. \A j \in DOMAIN longer : longer[j].path \notin Artifacts /\ ~longer[j].trimmed /\ longer[j].original = Absent => preimage'[longer[j].id] = Absent
      <4> SUFFICES ASSUME NEW j \in DOMAIN longer, longer[j].path \notin Artifacts, ~longer[j].trimmed, longer[j].original = Absent PROVE preimage'[longer[j].id] = Absent
        OBVIOUS
      <4>0. preimage \in [Contents -> Values]
        BY DEF FilesInv, FilesShape
      <4>1. CASE j \in DOMAIN list
        <5>1. list[j].id # e.id
          BY <1>1, <2>3, <2>6, <4>1
        <5>2. longer[j] = list[j] /\ preimage[list[j].id] = Absent
          BY <2>1, <2>4, <4>1 DEF FilesInv, Numbered
        <5>3. list[j].id \in Contents
          <6>1. list[j] \in Entries
            BY <2>4, <4>1
          <6> QED BY <6>1 DEF Entries
        <5> QED BY <2>2, <4>0, <5>1, <5>2, <5>3
      <4>2. CASE j = Len(list) + 1
        BY <1>1, <2>2, <2>3, <2>4, <4>0, <4>2
      <4> QED BY <2>4, <4>1, <4>2
    <3>6. \A i \in DOMAIN s : s[i].path \notin Artifacts /\ ~s[i].trimmed /\ s[i].original = Absent => preimage'[s[i].id] = Absent
      <4> SUFFICES ASSUME NEW i \in DOMAIN s, s[i].path \notin Artifacts, ~s[i].trimmed, s[i].original = Absent PROVE preimage'[s[i].id] = Absent
        OBVIOUS
      <4>1. PICK j \in DOMAIN longer : Copy(s[i], longer[j])
        BY <2>5
      <4>2. s[i].path = longer[j].path /\ s[i].id = longer[j].id /\ longer[j].original = Absent /\ ~longer[j].trimmed
        <5>1. longer[j] \in Entries
          BY <2>3, <2>4
        <5> QED BY <4>1, <5>1, CopyAbsent DEF Copy
      <4> QED BY <3>5, <4>2
    <3> QED BY <1>1, <1>2, <2>2, <3>2, <3>4, <3>6, NoWriteHasNoStage DEF Numbered
  <2>9. Known'
    <3>1. before[turn][p] # Unseen
      BY <1>1 DEF p, FilesInv, Known
    <3>2. \A j \in DOMAIN longer : before[longer[j].turn][longer[j].path] # Unseen
      BY <2>1, <2>3, <2>4, <3>1 DEF FilesInv, Known
    <3>3. \A i \in DOMAIN s : before[s[i].turn][s[i].path] # Unseen
      BY <2>5, <3>2 DEF Copy
    <3> QED BY <1>1, <1>2, <2>2, <3>3, NoWriteHasNoStage DEF Known
  <2>10. Chains'
    <3> SUFFICES ASSUME NEW t \in Turns, NEW q \in Paths, Clean(t, q)'
                 PROVE  Chain(ledger', t, q, before'[t][q], Held(t, q)')
      BY DEF Chains, Chain, OwnIds, Linked
    <3>1. Clean(t, q) /\ q \notin unrecorded'[t] /\ t \notin Dropped(list, kept) /\ q \notin foreign[t]
      BY <1>2, <1>4, <2>2 DEF Clean
    <3>2. PICK first, value : first = before[t][q] /\ value = Held(t, q) /\ Chain(list, t, q, first, value)
      BY <2>1, <3>1 DEF FilesInv, Chains
    <3>3. Covers(s, longer, t)
      BY <2>5, <3>1
    <3>4. Held(t, q)' = content[q] /\ before'[t][q] = first
      BY <1>1, <1>2, <3>2, NoWriteHasNoStage DEF Held
    <3>5. /\ ~(e.turn = t /\ e.path = q) => Chain(longer, t, q, first, value)
          /\ e.turn = t /\ e.path = q /\ ~e.reverted /\ (e.trimmed \/ e.original = value) => Chain(longer, t, q, first, e.id)
      BY <2>1, <2>3, <2>4, <2>6, <3>2, ChainGrows
    <3>8. first \in Contents /\ longer \in Seq(Entries)
      <4>1. first # Unseen
        BY <3>1, <3>2 DEF Clean
      <4>2. before \in [Turns -> [Paths -> Values]]
        BY DEF FilesInv, FilesShape
      <4>3. first \in Contents
        BY <3>2, <4>1, <4>2 DEF Values
      <4>4. longer \in Seq(Entries)
        BY <2>1, <2>3, <2>4
      <4> QED BY <4>3, <4>4
    <3>6. CASE t = turn /\ q = p
      <4>1. value = write.original /\ e.original = write.original
        BY <1>1, <1>4, <2>1, <3>1, <3>2, <3>6 DEF Held, p
      <4>2. content[q] = e.id
        BY <1>1, <2>3, <3>1, <3>6 DEF FilesInv, Known, p
      <4>3. Chain(longer, t, q, first, content[q])
        BY <2>3, <3>5, <3>6, <4>1, <4>2
      <4> QED BY <2>2, <3>3, <3>4, <3>8, <4>3, ChainCopied
    <3>7. CASE ~(t = turn /\ q = p)
      <4>1. value = content[q]
        BY <3>2, <3>7 DEF Held, p
      <4>2. Chain(longer, t, q, first, content[q])
        BY <2>3, <3>5, <3>7, <4>1
      <4> QED BY <2>2, <3>3, <3>4, <3>8, <4>2, ChainCopied
    <3> QED BY <3>6, <3>7
  <2> QED BY <1>6, <2>7, <2>8, <2>9, <2>10 DEF FilesInv
<1> QED BY <1>7, <1>8

-----------------------------------------------------------------------------
(* Reverts.                                                                *)

\* The entries of a revert, each before those with smaller numbers.
Descending(order, ids) ==
    /\ order \in Seq(Contents)
    /\ ids = {order[n] : n \in DOMAIN order}
    /\ \A m, n \in DOMAIN order : m < n => order[m] > order[n]

LEMMA UndoOrderDescends ==
    ASSUME FilesInv, NEW t \in Turns
    PROVE  Descending(UndoOrder(t), InPlace(t))
<1>1. PICK list, S, size, order : list = ledger /\ S = Indexes(t) /\ size = Cardinality(S) /\ order = UndoOrder(t)
  OBVIOUS
<1>2. /\ list \in Seq(Entries) /\ DOMAIN list = 1 .. Len(list) /\ Len(list) \in Nat
      /\ \A i, j \in DOMAIN list : i < j => list[i].id < list[j].id
  BY <1>1 DEF FilesInv, FilesShape, Numbered
<1>3. \A i \in DOMAIN list : list[i].id \in Contents /\ list[i].id \in Nat
  <2>1. \A i \in DOMAIN list : list[i] \in Entries
    BY <1>2
  <2> QED BY <2>1, FileMutationsAssumption DEF Entries, Contents
<1>4. S \in SUBSET Nat /\ IsFiniteSet(S) /\ S \subseteq DOMAIN list
  <2>1. S \subseteq DOMAIN list
    BY <1>1 DEF Indexes
  <2>2. IsFiniteSet(1 .. Len(list))
    BY <1>2, FS_Interval
  <2>3. IsFiniteSet(S)
    BY <1>2, <2>1, <2>2, FS_Subset
  <2> QED BY <1>2, <2>1, <2>3
<1>5. /\ size \in Nat
      /\ \A n \in 1 .. size : NthLargest(S, n) \in S
      /\ \A i \in S : \E n \in 1 .. size : NthLargest(S, n) = i
      /\ \A m, n \in 1 .. size : m < n => NthLargest(S, m) > NthLargest(S, n)
  BY <1>1, <1>4, CountedDown
<1>6. order = [n \in 1 .. size |-> list[NthLargest(S, n)].id]
  BY <1>1 DEF UndoOrder, NthLargest
<1>7. DOMAIN order = 1 .. size /\ \A n \in 1 .. size : order[n] = list[NthLargest(S, n)].id /\ NthLargest(S, n) \in DOMAIN list
  BY <1>4, <1>5, <1>6
<1>8. order \in Seq(Contents)
  <2>1. \A n \in 1 .. size : order[n] \in Contents
    BY <1>3, <1>7
  <2>2. order = [n \in 1 .. size |-> order[n]]
    BY <1>6, <1>7
  <2> QED BY <1>5, <2>1, <2>2
<1>9. InPlace(t) = {list[i].id : i \in S}
  BY <1>1 DEF InPlace
<1>10. InPlace(t) = {order[n] : n \in DOMAIN order}
  <2>1. ASSUME NEW i \in S PROVE \E n \in DOMAIN order : list[i].id = order[n]
    BY <1>5, <1>7
  <2>2. ASSUME NEW n \in DOMAIN order PROVE \E i \in S : order[n] = list[i].id
    BY <1>5, <1>7
  <2> QED BY <1>9, <2>1, <2>2
<1>11. ASSUME NEW m \in DOMAIN order, NEW n \in DOMAIN order, m < n PROVE order[m] > order[n]
  <2>1. PICK i \in DOMAIN list, j \in DOMAIN list : i = NthLargest(S, m) /\ j = NthLargest(S, n) /\ i > j
    BY <1>5, <1>7, <1>11
  <2>2. list[j].id < list[i].id /\ list[i].id \in Nat /\ list[j].id \in Nat
    BY <1>2, <1>3, <2>1
  <2> QED BY <1>7, <2>1, <2>2
<1> QED BY <1>1, <1>8, <1>10, <1>11 DEF Descending

LEMMA RevertTransactionInv == ASSUME FilesInv, NEW t \in Turns, RevertTransaction(t) PROVE FilesInv'
<1>1. /\ at = "prompt" /\ UNCHANGED <<at, turn, write, fresh>> /\ Quiet /\ write.stage = "none"
      /\ undo' = [status |-> "running", turn |-> t, pending |-> UndoOrder(t), remaining |-> InPlace(t)]
  BY IdleInTurns DEF RevertTransaction, session, history, Quiet, InPlace
<1>2. Descending(UndoOrder(t), InPlace(t))
  BY UndoOrderDescends
<1>3. UndoOrder(t) \in Seq(Contents) /\ InPlace(t) \subseteq Contents
  <2>1. \A i \in Indexes(t) : ledger[i] \in Entries
    BY DEF Indexes, FilesInv, FilesShape
  <2> QED BY <1>2, <2>1 DEF Descending, InPlace, Entries
<1>4. FilesShape'
  <2>1. t \in Nat
    BY FileMutationsAssumption DEF Turns
  <2>2. undo' \in [status : {"none", "running", "done", "failed"}, turn : Nat, pending : Seq(Contents), remaining : SUBSET Contents]
    BY <1>1, <1>3, <2>1
  <2> QED BY <1>1, <2>2 DEF FilesInv, FilesShape, Quiet, NoWrite
<1>5. Numbered' /\ Known'
  BY <1>1, QuietKeepsNumbered
<1>6. Chains'
  BY <1>1, QuietKeepsChains DEF FilesInv
<1>7. Undoing'
  <2>1. InPlace(t)' = InPlace(t)
    BY <1>1 DEF InPlace, Indexes, Quiet
  <2>2. PICK order, ids : order = UndoOrder(t) /\ ids = InPlace(t)
    OBVIOUS
  <2>3. undo'.status = "running" /\ undo'.turn = t /\ undo'.pending = order /\ undo'.remaining = ids
    BY <1>1, <2>2
  <2>4. ids = {order[n] : n \in DOMAIN order} /\ \A m, n \in DOMAIN order : m < n => order[m] > order[n]
    BY <1>2, <2>2 DEF Descending
  <2> QED BY <1>1, <2>1, <2>2, <2>3, <2>4 DEF Undoing
<1> QED BY <1>4, <1>5, <1>6, <1>7 DEF FilesInv

LEMMA RevertFinishedInv == ASSUME FilesInv, RevertStops \/ RevertEnds PROVE FilesInv'
<1>1. /\ undo.status = "running" /\ UNCHANGED <<at, turn, write, fresh>> /\ Quiet
      /\ undo' = [undo EXCEPT !.status = "failed"] \/ undo' = [undo EXCEPT !.status = "done"]
  BY DEF RevertStops, RevertEnds, session, history, Quiet
<1>2. write.stage = "none"
  BY <1>1, IdleInTurns
<1>3. /\ undo' \in [status : {"none", "running", "done", "failed"}, turn : Nat, pending : Seq(Contents), remaining : SUBSET Contents]
      /\ undo'.status # "running"
  BY <1>1 DEF FilesInv, FilesShape
<1>4. FilesShape'
  BY <1>1, <1>3 DEF FilesInv, FilesShape, Quiet, NoWrite
<1>5. Numbered' /\ Known'
  BY <1>1, <1>2, QuietKeepsNumbered
<1>6. Chains'
  BY <1>1, <1>2, QuietKeepsChains DEF FilesInv
<1>7. Undoing'
  BY <1>3 DEF Undoing
<1> QED BY <1>4, <1>5, <1>6, <1>7 DEF FilesInv

\* An entry is restored, and the ledger trimmed again.
LEMMA RestoredEntry ==
    ASSUME FilesInv, NEW i \in DOMAIN ledger, RestorePreImage(i), NEW less, less = [ledger EXCEPT ![i].reverted = TRUE]
    PROVE  /\ content' \in [Paths -> Contents] /\ ledger[i].path \in Paths /\ ledger[i].turn \in Turns
           /\ content'[ledger[i].path] = ledger[i].original /\ \A q \in Paths : q # ledger[i].path => content'[q] = content[q]
           /\ ledger' \in Seq(Entries) /\ Len(ledger') <= MutationHistory /\ DOMAIN ledger' = DOMAIN ledger
           /\ \A k \in DOMAIN ledger : Copy(ledger'[k], less[k]) /\ (k # i => less[k] = ledger[k])
           /\ less[i].reverted /\ less[i].id = ledger[i].id /\ less[i].turn = ledger[i].turn /\ less[i].path = ledger[i].path
           /\ less[i].trimmed = ledger[i].trimmed /\ less[i].original = ledger[i].original /\ less \in Seq(Entries)
<1>1. ledger \in Seq(Entries) /\ content \in [Paths -> Contents] /\ Len(ledger) <= MutationHistory
  BY DEF FilesInv, FilesShape
<1>2. PICK e : e = ledger[i] /\ e \in Entries
  BY <1>1
<1>3. e.path \in Paths /\ e.turn \in Turns /\ e.original \in Contents
  BY <1>2, TextFacts DEF Entries
<1>4. content' = [content EXCEPT ![e.path] = e.original] /\ ledger' = TrimBodies(less)
  BY <1>2 DEF RestorePreImage
<1>5. PICK f : f = [e EXCEPT !.reverted = TRUE]
  OBVIOUS
<1>6. f \in Entries /\ f.reverted /\ f.id = e.id /\ f.turn = e.turn /\ f.path = e.path /\ f.trimmed = e.trimmed /\ f.original = e.original
  BY <1>2, <1>5 DEF Entries
<1>7. less = [ledger EXCEPT ![i] = f]
  BY <1>2, <1>5
<1>8. /\ less \in Seq(Entries) /\ Len(less) = Len(ledger) /\ DOMAIN less = DOMAIN ledger /\ less[i] = f
      /\ \A k \in DOMAIN ledger : k # i => less[k] = ledger[k]
  <2>1. PICK list, n : list = ledger /\ n = Len(list) /\ list \in [1 .. n -> Entries] /\ n \in Nat
    BY <1>1
  <2>2. f \in Entries /\ i \in 1 .. n /\ DOMAIN list = 1 .. n
    BY <1>6, <2>1
  <2>3. less \in [1 .. n -> Entries] /\ less[i] = f /\ \A k \in 1 .. n : k # i => less[k] = list[k]
    BY <1>7, <2>1, <2>2
  <2>4. less \in Seq(Entries) /\ Len(less) = n /\ DOMAIN less = 1 .. n
    BY <2>1, <2>3
  <2> QED BY <2>1, <2>2, <2>3, <2>4
<1>9. /\ ledger' \in Seq(Entries) /\ Len(ledger') = Len(less) /\ DOMAIN ledger' = DOMAIN less
      /\ \A k \in DOMAIN less : Copy(ledger'[k], less[k])
  <2>1. PICK s : s = ledger' /\ s = TrimBodies(less)
    BY <1>4
  <2> QED BY <1>8, <2>1, Trimmed
<1>10. /\ content' \in [Paths -> Contents] /\ content'[e.path] = e.original /\ \A q \in Paths : q # e.path => content'[q] = content[q]
  BY <1>1, <1>3, <1>4
<1> QED BY <1>1, <1>2, <1>3, <1>6, <1>8, <1>9, <1>10

LEMMA RestoredKeeps ==
    ASSUME FilesInv, NEW i \in DOMAIN ledger, RestorePreImage(i), write.stage = "none",
           UNCHANGED <<fresh, turn, write, before, preimage>>
    PROVE  Numbered' /\ Known'
<1>1. PICK less : less = [ledger EXCEPT ![i].reverted = TRUE]
  OBVIOUS
<1>2. /\ DOMAIN ledger' = DOMAIN ledger
      /\ \A k \in DOMAIN ledger : Copy(ledger'[k], less[k]) /\ (k # i => less[k] = ledger[k])
      /\ less[i].reverted /\ less[i].id = ledger[i].id /\ less[i].turn = ledger[i].turn /\ less[i].path = ledger[i].path
      /\ less[i].trimmed = ledger[i].trimmed /\ less[i].original = ledger[i].original
      /\ \A k \in DOMAIN ledger : less[k] \in Entries
  <2>1. less \in Seq(Entries) /\ DOMAIN less = DOMAIN ledger
    BY <1>1, RestoredEntry
  <2>2. \A k \in DOMAIN ledger : less[k] \in Entries
    BY <2>1
  <2> QED BY <1>1, <2>2, RestoredEntry
<1>3. \A k \in DOMAIN ledger :
         /\ ledger'[k].id = ledger[k].id /\ ledger'[k].turn = ledger[k].turn /\ ledger'[k].path = ledger[k].path
         /\ ledger'[k].trimmed \/ ((ledger'[k].original = Absent => ledger[k].original = Absent) /\ ~ledger[k].trimmed)
  <2> SUFFICES ASSUME NEW k \in DOMAIN ledger
               PROVE  /\ ledger'[k].id = ledger[k].id /\ ledger'[k].turn = ledger[k].turn /\ ledger'[k].path = ledger[k].path
                      /\ ledger'[k].trimmed \/ ((ledger'[k].original = Absent => ledger[k].original = Absent) /\ ~ledger[k].trimmed)
    OBVIOUS
  <2>3. Copy(ledger'[k], less[k]) /\ less[k] \in Entries
    BY <1>2
  <2>4. ledger'[k].trimmed \/ ((ledger'[k].original = Absent => less[k].original = Absent) /\ ~less[k].trimmed)
    BY <2>3, CopyAbsent
  <2>1. CASE k = i
    BY <1>2, <2>1, <2>3, <2>4 DEF Copy
  <2>2. CASE k # i
    BY <1>2, <2>2, <2>3, <2>4 DEF Copy
  <2> QED BY <2>1, <2>2
<1>4. Numbered'
  <2>1. \A k, l \in DOMAIN ledger' : k < l => ledger'[k].id < ledger'[l].id
    BY <1>2, <1>3 DEF FilesInv, Numbered
  <2>2. \A k \in DOMAIN ledger' : ledger'[k].id <= fresh' /\ (write'.stage # "none" => ledger'[k].id < write'.new)
    BY <1>2, <1>3 DEF FilesInv, Numbered
  <2>3. \A k \in DOMAIN ledger' : ledger'[k].path \notin Artifacts /\ ~ledger'[k].trimmed /\ ledger'[k].original = Absent
                            => preimage'[ledger'[k].id] = Absent
    BY <1>2, <1>3 DEF FilesInv, Numbered
  <2> QED BY <2>1, <2>2, <2>3 DEF Numbered
<1>5. Known'
  <2>1. \A k \in DOMAIN ledger' : before'[ledger'[k].turn][ledger'[k].path] # Unseen
    BY <1>2, <1>3 DEF FilesInv, Known
  <2> QED BY <2>1 DEF Known
<1> QED BY <1>4, <1>5

\* What a revert leaves of the chain of another path or turn, and of its own.
LEMMA RestoredChain ==
    ASSUME FilesInv, NEW i \in DOMAIN ledger, RestorePreImage(i), NEW t \in Turns, NEW q \in Paths, NEW first, NEW value,
           first \in Contents, Chain(ledger, t, q, first, value)
    PROVE  /\ ~(ledger[i].turn = t /\ ledger[i].path = q) => Chain(ledger', t, q, first, value)
           /\ ledger[i].turn = t /\ ledger[i].path = q /\ (\A k \in OwnIds(ledger, t, q) : k <= ledger[i].id)
                => Chain(ledger', t, q, first, ledger[i].original)
<1>1. PICK list, less, s : list = ledger /\ less = [list EXCEPT ![i].reverted = TRUE] /\ s = ledger'
  OBVIOUS
<1>2. list \in Seq(Entries) /\ i \in DOMAIN list /\ ~list[i].reverted /\ ~list[i].trimmed
  BY <1>1 DEF FilesInv, FilesShape, RestorePreImage, Restorable
<1>3. \A j, k \in DOMAIN list : list[j].id = list[k].id => j = k
  <2> SUFFICES ASSUME NEW j \in DOMAIN list, NEW k \in DOMAIN list, list[j].id = list[k].id PROVE j = k
    OBVIOUS
  <2>1. list[j].id \in Nat /\ list[k].id \in Nat
    <3>1. list[j] \in Entries /\ list[k] \in Entries
      BY <1>2
    <3> QED BY <3>1, FileMutationsAssumption DEF Entries, Contents
  <2>2. ~(j < k) /\ ~(k < j)
    BY <1>1, <2>1 DEF FilesInv, Numbered
  <2>3. j \in Nat /\ k \in Nat
    BY <1>2
  <2> QED BY <2>2, <2>3
<1>4. Covers(s, less, t) /\ less \in Seq(Entries)
  <2>1. less \in Seq(Entries) /\ DOMAIN s = DOMAIN list /\ DOMAIN less = DOMAIN list /\ \A k \in DOMAIN list : Copy(s[k], less[k])
    BY <1>1, RestoredEntry
  <2> QED BY <2>1 DEF Covers
<1>8. Chain(list, t, q, first, value) /\ less = [list EXCEPT ![i].reverted = TRUE]
  BY <1>1
<1>5. /\ ~(list[i].turn = t /\ list[i].path = q) => Chain(less, t, q, first, value)
      /\ list[i].turn = t /\ list[i].path = q /\ ~list[i].reverted /\ ~list[i].trimmed
           /\ (\A k \in OwnIds(list, t, q) : k <= list[i].id) => Chain(less, t, q, first, list[i].original)
  BY <1>2, <1>3, <1>8, ChainReverted
<1>6. ASSUME ~(list[i].turn = t /\ list[i].path = q) PROVE Chain(s, t, q, first, value)
  BY <1>4, <1>5, <1>6, ChainCopied
<1>7. ASSUME list[i].turn = t, list[i].path = q, \A k \in OwnIds(list, t, q) : k <= list[i].id PROVE Chain(s, t, q, first, list[i].original)
  <2>1. Chain(less, t, q, first, list[i].original)
    BY <1>2, <1>5, <1>7
  <2> QED BY <1>4, <2>1, ChainCopied
<1> QED BY <1>1, <1>6, <1>7

LEMMA PlacedIds ==
    ASSUME FilesInv, NEW t \in Turns, NEW i \in DOMAIN ledger, ledger[i].id \in InPlace(t)
    PROVE  ledger[i].turn = t /\ ~ledger[i].reverted
<1>1. PICK j \in DOMAIN ledger : ledger[j].turn = t /\ ~ledger[j].reverted /\ ledger[j].id = ledger[i].id
  BY DEF InPlace, Indexes
<1>2. ledger \in Seq(Entries) /\ i \in Nat /\ j \in Nat
  BY DEF FilesInv, FilesShape
<1>3. ledger[i].id \in Nat
  <2>1. ledger[i] \in Entries
    BY <1>2
  <2> QED BY <2>1, FileMutationsAssumption DEF Entries, Contents
<1>4. ~(i < j) /\ ~(j < i)
  BY <1>1, <1>3 DEF FilesInv, Numbered
<1> QED BY <1>1, <1>2, <1>4

LEMMA RestoredInPlace ==
    ASSUME FilesInv, NEW t \in Turns, NEW i \in DOMAIN ledger, RestorePreImage(i), ledger[i].id \in InPlace(t)
    PROVE  InPlace(t)' = InPlace(t) \ {ledger[i].id}
<1>1. PICK less : less = [ledger EXCEPT ![i].reverted = TRUE]
  OBVIOUS
<1>2. /\ DOMAIN ledger' = DOMAIN ledger
      /\ \A k \in DOMAIN ledger : Copy(ledger'[k], less[k]) /\ (k # i => less[k] = ledger[k])
      /\ less[i].reverted /\ less[i].id = ledger[i].id
  BY <1>1, RestoredEntry
<1>3. \A k \in DOMAIN ledger : k # i => ledger'[k].id = ledger[k].id /\ ledger'[k].turn = ledger[k].turn /\ ledger'[k].reverted = ledger[k].reverted
  BY <1>2 DEF Copy
<1>4. ledger'[i].reverted
  BY <1>2 DEF Copy
<1>5. ASSUME NEW k \in DOMAIN ledger, k # i PROVE ledger[k].id # ledger[i].id
  <2>1. ledger \in Seq(Entries) /\ i \in Nat /\ k \in Nat
    BY DEF FilesInv, FilesShape
  <2>2. ledger[i].id \in Nat /\ ledger[k].id \in Nat
    <3>1. ledger[i] \in Entries /\ ledger[k] \in Entries
      BY <2>1
    <3> QED BY <3>1, FileMutationsAssumption DEF Entries, Contents
  <2>3. ledger[i].id < ledger[k].id \/ ledger[k].id < ledger[i].id
    BY <1>5, <2>1 DEF FilesInv, Numbered
  <2> QED BY <2>2, <2>3
<1>6. Indexes(t)' = Indexes(t) \ {i}
  BY <1>2, <1>3, <1>4 DEF Indexes
<1>7. \A k \in Indexes(t) \ {i} : ledger'[k].id = ledger[k].id /\ k \in DOMAIN ledger
  BY <1>3 DEF Indexes
<1> QED BY <1>5, <1>6, <1>7 DEF InPlace

LEMMA PopDescending ==
    ASSUME NEW order, NEW ids, Descending(order, ids), order # <<>>, NEW rest, rest = Tail(order)
    PROVE  /\ Descending(rest, ids \ {Head(order)}) /\ Head(order) \in ids /\ \A k \in ids : k <= Head(order)
<1>1. /\ order \in Seq(Contents) /\ ids = {order[n] : n \in DOMAIN order}
      /\ \A m, n \in DOMAIN order : m < n => order[m] > order[n]
  BY DEF Descending
<1>2. PICK size : size = Len(order) /\ size \in Nat /\ size >= 1 /\ DOMAIN order = 1 .. size
  BY <1>1
<1>3. /\ rest \in Seq(Contents) /\ Len(rest) = size - 1 /\ DOMAIN rest = 1 .. (size - 1)
      /\ \A n \in 1 .. (size - 1) : rest[n] = order[n + 1]
  BY <1>1, <1>2
<1>4. Head(order) = order[1] /\ 1 \in DOMAIN order
  BY <1>1, <1>2
<1>5. \A n \in DOMAIN order : order[n] \in Nat
  BY <1>1, FileMutationsAssumption DEF Contents
<1>6. \A n \in DOMAIN order : n # 1 => order[n] < order[1]
  BY <1>1, <1>2, <1>4, <1>5
<1>7. ids \ {order[1]} = {rest[n] : n \in DOMAIN rest}
  <2>1. ASSUME NEW n \in DOMAIN order, order[n] # order[1] PROVE \E m \in DOMAIN rest : order[n] = rest[m]
    <3>1. n - 1 \in 1 .. (size - 1) /\ (n - 1) + 1 = n
      BY <1>2, <2>1
    <3> QED BY <1>3, <3>1
  <2>2. ASSUME NEW n \in DOMAIN rest PROVE rest[n] \in ids /\ rest[n] # order[1]
    <3>1. n + 1 \in DOMAIN order /\ n + 1 # 1 /\ rest[n] = order[n + 1]
      BY <1>2, <1>3
    <3> QED BY <1>1, <1>4, <1>5, <1>6, <3>1
  <2> QED BY <1>1, <2>1, <2>2
<1>8. ASSUME NEW m \in DOMAIN rest, NEW n \in DOMAIN rest, m < n PROVE rest[m] > rest[n]
  <2>1. m + 1 \in DOMAIN order /\ n + 1 \in DOMAIN order /\ m + 1 < n + 1
    BY <1>2, <1>3, <1>8
  <2> QED BY <1>1, <1>3, <2>1
<1>9. Descending(rest, ids \ {Head(order)})
  BY <1>3, <1>4, <1>7, <1>8 DEF Descending
<1>10. Head(order) \in ids
  BY <1>1, <1>4
<1>11. \A k \in ids : k <= Head(order)
  <2> SUFFICES ASSUME NEW n \in DOMAIN order PROVE order[n] <= order[1]
    BY <1>1, <1>4
  <2> QED BY <1>4, <1>5, <1>6
<1> QED BY <1>9, <1>10, <1>11

LEMMA RevertNextInv == ASSUME FilesInv, RevertNext PROVE FilesInv'
<1>1. PICK i \in DOMAIN ledger :
         /\ ledger[i].id = Head(undo.pending)
         /\ RestorePreImage(i)
         /\ undo' = [undo EXCEPT !.pending = Tail(@), !.remaining = @ \ {ledger[i].id}]
         /\ foreign' = [t \in Turns |->
               IF t # undo.turn /\ before[t][ledger[i].path] # Unseen THEN foreign[t] \cup {ledger[i].path} ELSE foreign[t]]
  BY DEF RevertNext
<1>2. /\ undo.status = "running" /\ undo.pending # <<>>
      /\ UNCHANGED <<fresh, at, turn, write, before, preimage, unrecorded, evicted>>
  BY DEF RevertNext, session
<1>3. PICK T, order, ids : T = undo.turn /\ order = undo.pending /\ ids = undo.remaining
  OBVIOUS
<1>4. at = "prompt" /\ T \in Turns /\ ids = InPlace(T) /\ Descending(order, ids) /\ order # <<>> /\ write.stage = "none"
  <2>1. order \in Seq(Contents) /\ ids \subseteq Contents
    BY <1>3 DEF FilesInv, FilesShape
  <2>2. /\ at = "prompt" /\ T \in Turns /\ ids = InPlace(T) /\ ids = {order[n] : n \in DOMAIN order}
        /\ \A m, n \in DOMAIN order : m < n => order[m] > order[n]
    BY <1>2, <1>3 DEF FilesInv, Undoing
  <2>3. Descending(order, ids)
    BY <2>1, <2>2 DEF Descending
  <2> QED BY <1>2, <1>3, <2>2, <2>3, IdleInTurns
<1>5. PICK id, p, rest : id = ledger[i].id /\ p = ledger[i].path /\ rest = Tail(order)
  OBVIOUS
<1>6. id = Head(order) /\ id \in ids /\ Descending(rest, ids \ {id}) /\ \A k \in ids : k <= id
  BY <1>1, <1>3, <1>4, <1>5, PopDescending
<1>7. ledger[i].turn = T /\ ~ledger[i].reverted
  BY <1>4, <1>5, <1>6, PlacedIds
<1>8. /\ content' \in [Paths -> Contents] /\ p \in Paths /\ content'[p] = ledger[i].original /\ \A q \in Paths : q # p => content'[q] = content[q]
      /\ ledger' \in Seq(Entries) /\ Len(ledger') <= MutationHistory
  <2>1. PICK less : less = [ledger EXCEPT ![i].reverted = TRUE]
    OBVIOUS
  <2> QED BY <1>1, <1>5, <2>1, RestoredEntry
<1>9. /\ foreign' \in [Turns -> SUBSET Paths] /\ \A t \in Turns : foreign[t] \subseteq foreign'[t]
      /\ \A t \in Turns : t # T /\ before[t][p] # Unseen => p \in foreign'[t]
  <2>1. foreign \in [Turns -> SUBSET Paths]
    BY DEF FilesInv, FilesShape
  <2>2. foreign' = [t \in Turns |-> IF t # T /\ before[t][p] # Unseen THEN foreign[t] \cup {p} ELSE foreign[t]]
    BY <1>1, <1>3, <1>5
  <2> QED BY <1>8, <2>1, <2>2
<1>10. /\ undo' \in [status : {"none", "running", "done", "failed"}, turn : Nat, pending : Seq(Contents), remaining : SUBSET Contents]
       /\ undo'.status = "running" /\ undo'.turn = T /\ undo'.pending = rest /\ undo'.remaining = ids \ {id}
  <2>1. undo \in [status : {"none", "running", "done", "failed"}, turn : Nat, pending : Seq(Contents), remaining : SUBSET Contents]
    BY DEF FilesInv, FilesShape
  <2>2. undo' = [undo EXCEPT !.pending = rest, !.remaining = ids \ {id}]
    BY <1>1, <1>3, <1>5
  <2>3. rest \in Seq(Contents) /\ ids \ {id} \subseteq Contents
    BY <1>3, <1>6, <2>1 DEF Descending
  <2> QED BY <1>2, <1>3, <2>1, <2>2, <2>3
<1>11. FilesShape'
  <2>1. (NoWrite.path)' = NoWrite.path
    BY DEF NoWrite
  <2> QED BY <1>2, <1>8, <1>9, <1>10, <2>1 DEF FilesInv, FilesShape
<1>12. Numbered' /\ Known'
  BY <1>1, <1>2, <1>4, RestoredKeeps
<1>13. Chains'
  <2> SUFFICES ASSUME NEW t \in Turns, NEW q \in Paths, Clean(t, q)'
               PROVE  Chain(ledger', t, q, before'[t][q], Held(t, q)')
    BY DEF Chains, Chain, OwnIds, Linked
  <2>1. Clean(t, q) /\ q \notin foreign'[t] /\ before[t][q] # Unseen
    BY <1>2, <1>9 DEF Clean
  <2>2. PICK first, value : first = before[t][q] /\ value = content[q]
    OBVIOUS
  <2>3. Held(t, q) = value /\ Held(t, q)' = content'[q] /\ before'[t][q] = first
    BY <1>2, <1>4, <2>2 DEF Held
  <2>4. Chain(ledger, t, q, first, value) /\ first \in Contents
    BY <2>1, <2>2, <2>3 DEF FilesInv, FilesShape, Chains, Values
  <2>5. /\ ~(ledger[i].turn = t /\ ledger[i].path = q) => Chain(ledger', t, q, first, value)
        /\ ledger[i].turn = t /\ ledger[i].path = q /\ (\A k \in OwnIds(ledger, t, q) : k <= ledger[i].id)
             => Chain(ledger', t, q, first, ledger[i].original)
    BY <1>1, <2>4, RestoredChain
  <2>6. CASE q # p
    BY <1>5, <1>8, <2>2, <2>3, <2>5, <2>6
  <2>7. CASE q = p /\ t = T
    <3>1. OwnIds(ledger, t, q) \subseteq ids
      BY <1>4, <2>7 DEF OwnIds, InPlace, Indexes
    <3> QED BY <1>5, <1>6, <1>7, <1>8, <2>3, <2>5, <2>7, <3>1
  <2>8. CASE q = p /\ t # T
    BY <1>9, <2>1, <2>8
  <2> QED BY <2>6, <2>7, <2>8
<1>14. Undoing'
  <2>1. InPlace(T)' = ids \ {id}
    BY <1>1, <1>4, <1>5, <1>6, RestoredInPlace
  <2>2. ids \ {id} = {rest[n] : n \in DOMAIN rest} /\ \A m, n \in DOMAIN rest : m < n => rest[m] > rest[n]
    BY <1>6 DEF Descending
  <2>3. InPlace(undo.turn)' = InPlace(T)'
    BY <1>10 DEF InPlace, Indexes
  <2> QED BY <1>2, <1>4, <1>10, <2>1, <2>2, <2>3 DEF Undoing
<1> QED BY <1>11, <1>12, <1>13, <1>14 DEF FilesInv

LEMMA RevertMutationInv == ASSUME FilesInv, RevertMutation PROVE FilesInv'
<1>1. PICK i \in DOMAIN ledger :
         /\ RestorePreImage(i)
         /\ foreign' = [t \in Turns |->
               IF before[t][ledger[i].path] # Unseen THEN foreign[t] \cup {ledger[i].path} ELSE foreign[t]]
  BY DEF RevertMutation
<1>2. /\ at = "prompt" /\ undo.status # "running"
      /\ UNCHANGED <<fresh, at, turn, write, undo, before, preimage, unrecorded, evicted>>
  BY DEF RevertMutation, session
<1>3. write.stage = "none"
  BY <1>2, IdleInTurns
<1>4. PICK p : p = ledger[i].path
  OBVIOUS
<1>5. /\ content' \in [Paths -> Contents] /\ p \in Paths /\ \A q \in Paths : q # p => content'[q] = content[q]
      /\ ledger' \in Seq(Entries) /\ Len(ledger') <= MutationHistory
  <2>1. PICK less : less = [ledger EXCEPT ![i].reverted = TRUE]
    OBVIOUS
  <2> QED BY <1>1, <1>4, <2>1, RestoredEntry
<1>6. /\ foreign' \in [Turns -> SUBSET Paths] /\ \A t \in Turns : foreign[t] \subseteq foreign'[t]
      /\ \A t \in Turns : before[t][p] # Unseen => p \in foreign'[t]
  <2>1. foreign \in [Turns -> SUBSET Paths]
    BY DEF FilesInv, FilesShape
  <2>2. foreign' = [t \in Turns |-> IF before[t][p] # Unseen THEN foreign[t] \cup {p} ELSE foreign[t]]
    BY <1>1, <1>4
  <2> QED BY <1>5, <2>1, <2>2
<1>7. FilesShape'
  <2>1. (NoWrite.path)' = NoWrite.path
    BY DEF NoWrite
  <2> QED BY <1>2, <1>5, <1>6, <2>1 DEF FilesInv, FilesShape
<1>8. Numbered' /\ Known'
  BY <1>1, <1>2, <1>3, RestoredKeeps
<1>9. Chains'
  <2> SUFFICES ASSUME NEW t \in Turns, NEW q \in Paths, Clean(t, q)'
               PROVE  Chain(ledger', t, q, before'[t][q], Held(t, q)')
    BY DEF Chains, Chain, OwnIds, Linked
  <2>1. Clean(t, q) /\ q # p
    BY <1>2, <1>6 DEF Clean
  <2>2. PICK first, value : first = before[t][q] /\ value = content[q]
    OBVIOUS
  <2>3. Held(t, q) = value /\ Held(t, q)' = value /\ before'[t][q] = first
    BY <1>2, <1>3, <1>5, <2>1, <2>2 DEF Held
  <2>4. Chain(ledger, t, q, first, value) /\ first \in Contents
    <3>1. Chain(ledger, t, q, first, value)
      BY <2>1, <2>2, <2>3 DEF FilesInv, Chains
    <3>2. first # Unseen
      BY <2>1, <2>2 DEF Clean
    <3>3. before \in [Turns -> [Paths -> Values]]
      BY DEF FilesInv, FilesShape
    <3> QED BY <2>2, <3>1, <3>2, <3>3 DEF Values
  <2>5. Chain(ledger', t, q, first, value)
    BY <1>1, <1>4, <2>1, <2>4, RestoredChain
  <2> QED BY <2>3, <2>5
<1>10. Undoing'
  BY <1>2 DEF Undoing
<1> QED BY <1>7, <1>8, <1>9, <1>10 DEF FilesInv

-----------------------------------------------------------------------------
(* Every state, every step.                                                *)

LEMMA FilesInitInv == ASSUME FilesInit PROVE FilesInv
<1>1. /\ content \in [Paths -> {Absent, 1}] /\ fresh = 1 /\ at = "prompt" /\ turn = 0 /\ write = NoWrite /\ ledger = <<>>
      /\ undo = NoUndo /\ before = [t \in Turns |-> NoFingerprint] /\ preimage = [c \in Contents |-> Unseen]
      /\ foreign = [t \in Turns |-> {}] /\ unrecorded = [t \in Turns |-> {}] /\ evicted = {}
  BY DEF FilesInit
<1>2. undo.status = "none" /\ undo \in [status : {"none", "running", "done", "failed"}, turn : Nat, pending : Seq(Contents), remaining : SUBSET Contents]
  BY <1>1 DEF NoUndo
<1>3. DOMAIN ledger = {} /\ ledger \in Seq(Entries) /\ Len(ledger) = 0 /\ Len(ledger) <= MutationHistory
  BY <1>1, FileMutationsAssumption
<1>4. /\ content \in [Paths -> Contents] /\ before \in [Turns -> [Paths -> Values]] /\ preimage \in [Contents -> Values]
      /\ foreign \in [Turns -> SUBSET Paths] /\ unrecorded \in [Turns -> SUBSET Paths] /\ turn \in 0 .. MaxTurns
  BY <1>1, FileMutationsAssumption DEF Absent, Contents, Values, NoFingerprint
<1>5. \A t \in Turns, p \in Paths : before[t][p] = Unseen
  BY <1>1 DEF NoFingerprint
<1>6. FilesShape
  BY <1>1, <1>2, <1>3, <1>4, NoWriteHasNoStage DEF FilesShape
<1>7. Numbered /\ Known
  BY <1>1, <1>3, NoWriteHasNoStage DEF Numbered, Known
<1>8. Chains
  BY <1>5 DEF Chains, Clean
<1>9. Undoing
  BY <1>2 DEF Undoing
<1> QED BY <1>6, <1>7, <1>8, <1>9 DEF FilesInv

LEMMA FilesStutterInv == ASSUME FilesInv, UNCHANGED filesVars PROVE FilesInv'
<1>1. UNCHANGED <<content, fresh, at, turn, write, ledger, undo, before, preimage, foreign, unrecorded, evicted>>
  BY DEF filesVars
<1>2. FilesShape'
  BY <1>1 DEF FilesInv, FilesShape, NoWrite
<1>3. Numbered' /\ Known'
  BY <1>1 DEF FilesInv, Numbered, Known
<1>4. Chains'
  <2> SUFFICES ASSUME NEW t \in Turns, NEW q \in Paths, Clean(t, q)'
               PROVE  Chain(ledger', t, q, before'[t][q], Held(t, q)')
    BY DEF Chains, Chain, OwnIds, Linked
  <2>1. Clean(t, q) /\ Held(t, q)' = Held(t, q)
    BY <1>1 DEF Clean, Held
  <2> QED BY <1>1, <2>1 DEF FilesInv, Chains
<1>5. Undoing'
  BY <1>1 DEF FilesInv, Undoing, InPlace, Indexes
<1> QED BY <1>2, <1>3, <1>4, <1>5 DEF FilesInv

LEMMA FilesStepInv == ASSUME FilesInv, [FilesNext]_filesVars PROVE FilesInv'
<1>1. CASE BeginTurn
  BY <1>1, BeginTurnInv
<1>2. CASE EndTurn \/ (\E p \in Paths : ReadFile(p)) \/ WriteFails \/ SaveTurnCheckpoint
  BY <1>2, IdleTurnInv
<1>3. CASE ReplaceFile
  BY <1>3, ReplaceFileInv
<1>4. CASE RecordMutation
  BY <1>4, RecordMutationInv
<1>5. CASE \E p \in Paths : WriteFile(p) \/ EditFile(p) \/ CreateArtifact(p)
  BY <1>5, PrepareInv DEF WriteFile, EditFile, CreateArtifact
<1>6. CASE \E p \in Paths : ExternalWrite(p)
  BY <1>6, ExternalWriteInv
<1>7. CASE Crash
  BY <1>7, CrashInv
<1>8. CASE ResumeTurn
  BY <1>8, ResumeTurnInv
<1>9. CASE \E t \in Turns : RevertTransaction(t)
  BY <1>9, RevertTransactionInv
<1>10. CASE RevertNext
  BY <1>10, RevertNextInv
<1>11. CASE RevertStops \/ RevertEnds
  BY <1>11, RevertFinishedInv
<1>12. CASE RevertMutation
  BY <1>12, RevertMutationInv
<1>14. CASE Reload
  BY <1>14, ReloadInv
<1>13. CASE UNCHANGED filesVars
  BY <1>13, FilesStutterInv
<1> QED BY <1>1, <1>2, <1>3, <1>4, <1>5, <1>6, <1>7, <1>8, <1>9, <1>10, <1>11, <1>12, <1>13, <1>14 DEF FilesNext

(* In every state a file that only one turn has written since it first     *)
(* wrote it holds what the latest of the turn's changes still in place     *)
(* left, each of these changes has the content the one before it left, the *)
(* ledger's entries are numbered in the order of the writes, and a revert  *)
(* of a transaction has exactly the changes still in place before it, the  *)
(* newest first.  A content a revert put back, and the pre-image a change  *)
(* has, are the content meant, its text, or its text without its secrets:  *)
(* which of them, decoding and the state file decide.                      *)
THEOREM LedgerAlwaysChained == FilesSpec => []FilesInv
<1>1. FilesInit => FilesInv
  BY FilesInitInv
<1>2. FilesInv /\ [FilesNext]_filesVars => FilesInv'
  BY FilesStepInv
<1> QED BY <1>1, <1>2, PTL DEF FilesSpec

-----------------------------------------------------------------------------
(* What a revert promises.                                                 *)

LEMMA UndoneIsRestored ==
    ASSUME FilesInv, undo.status = "running", undo.pending = <<>>, undo.turn \notin evicted
    PROVE  RestoredFiles(undo.turn)
<1>1. PICK t : t = undo.turn
  OBVIOUS
<1>2. t \in Turns /\ at = "prompt" /\ InPlace(t) = {} /\ write.stage = "none"
  BY <1>1, IdleInTurns DEF FilesInv, Undoing
<1>3. ASSUME NEW p \in Paths \ (foreign[t] \cup unrecorded[t]), before[t][p] # Unseen PROVE content[p] \in Versions(before[t][p])
  <2>1. Clean(t, p)
    BY <1>1, <1>3 DEF Clean
  <2>2. Chain(ledger, t, p, before[t][p], content[p])
    BY <1>2, <2>1 DEF FilesInv, Chains, Held
  <2>3. OwnIds(ledger, t, p) = {}
    BY <1>2 DEF OwnIds, InPlace, Indexes
  <2> QED BY <2>2, <2>3 DEF Chain, Leave
<1> QED BY <1>1, <1>3 DEF RestoredFiles

LEMMA RevertStepRestores ==
    ASSUME FilesInv, [FilesNext]_filesVars, undo.status = "running"
    PROVE  /\ undo'.status = "done" /\ undo.turn \notin evicted => RestoredFiles(undo.turn)
           /\ undo'.status = "failed" => undo'.remaining = InPlace(undo.turn)
<1>1. /\ undo \in [status : {"none", "running", "done", "failed"}, turn : Nat, pending : Seq(Contents), remaining : SUBSET Contents]
      /\ at = "prompt" /\ undo.remaining = InPlace(undo.turn)
  BY DEF FilesInv, FilesShape, Undoing
<1>2. CASE RevertNext
  <2>1. undo'.status = "running"
    BY <1>1, <1>2 DEF RevertNext
  <2> QED BY <2>1
<1>3. CASE RevertStops
  <2>1. undo'.status = "failed" /\ undo'.remaining = undo.remaining
    BY <1>1, <1>3 DEF RevertStops
  <2> QED BY <1>1, <2>1
<1>4. CASE RevertEnds
  <2>1. undo'.status = "done" /\ undo.pending = <<>>
    BY <1>1, <1>4 DEF RevertEnds
  <2> QED BY <2>1, UndoneIsRestored
<1>5. CASE undo' = undo
  BY <1>5
<1>6. RevertNext \/ RevertStops \/ RevertEnds \/ undo' = undo
  BY <1>1 DEF FilesNext, filesVars, BeginTurn, EndTurn, ReplaceFile, WriteFails, RecordMutation, ReadFile, WriteFile, EditFile, CreateArtifact, Prepare,
              ExternalWrite, SaveTurnCheckpoint, Crash, ResumeTurn, Reload, RevertTransaction, RevertMutation
<1> QED BY <1>2, <1>3, <1>4, <1>5, <1>6

(* A revert of a turn that ends puts each file back to what it was before  *)
(* the turn first wrote it, to the byte where that is text without a       *)
(* secret and otherwise to its text, with its secrets or without, unless   *)
(* someone else wrote the file since, a write of the turn has no usable    *)
(* entry, or the history cap dropped one; one that stops names exactly the *)
(* changes still in place (revert_transaction in safety.py).               *)
THEOREM RevertAlwaysRestoresTurn == FilesSpec => RevertRestoresTurn
<1>1. FilesInv /\ [FilesNext]_filesVars
        => [undo.status = "running" =>
             /\ undo'.status = "done" /\ undo.turn \notin evicted => RestoredFiles(undo.turn)
             /\ undo'.status = "failed" => undo'.remaining = InPlace(undo.turn)]_filesVars
  BY RevertStepRestores
<1> QED BY <1>1, LedgerAlwaysChained, PTL DEF FilesSpec, RevertRestoresTurn

LEMMA RevertStepLosesNothing ==
    ASSUME FilesInv, [FilesNext]_filesVars, NEW i \in DOMAIN ledger, at = "prompt", at' = "prompt", ledger[i].path \notin Artifacts,
           ~ledger[i].reverted, ledger'[i].reverted, content'[ledger[i].path] = Absent
    PROVE  preimage[ledger[i].id] = Absent
<1>7. ~Reload
  <2> SUFFICES ASSUME Reload PROVE FALSE
    OBVIOUS
  <2>1. ledger' = ReadBack(ledger) /\ UNCHANGED <<content, fresh, write, turn, preimage, before, foreign, unrecorded, evicted>>
    BY DEF Reload, history
  <2>2. ledger'[i].reverted = ledger[i].reverted
    BY <2>1, ReadBackInv
  <2> QED BY <2>2
<1>1. \E j \in DOMAIN ledger : RestorePreImage(j)
  BY <1>7 DEF FilesNext, filesVars, BeginTurn, EndTurn, ReplaceFile, WriteFails, RecordMutation, ReadFile, WriteFile, EditFile, CreateArtifact, Prepare,
         ExternalWrite, SaveTurnCheckpoint, Crash, ResumeTurn, RevertTransaction, RevertNext, RevertStops, RevertEnds, RevertMutation
<1>2. PICK j \in DOMAIN ledger : RestorePreImage(j)
  BY <1>1
<1>6. PICK less : less = [ledger EXCEPT ![j].reverted = TRUE]
  OBVIOUS
<1>3. /\ content'[ledger[j].path] = ledger[j].original
      /\ \A k \in DOMAIN ledger : Copy(ledger'[k], less[k]) /\ (k # j => less[k] = ledger[k])
  BY <1>2, <1>6, RestoredEntry
<1>4. i = j
  BY <1>3 DEF Copy
<1> QED BY <1>2, <1>3, <1>4 DEF FilesInv, Numbered, RestorePreImage, Restorable

(* A revert deletes no text file that existed before the change, however   *)
(* often the ledger was trimmed between: an entry without its body is not  *)
(* restored (revert_mutation's refusal of `body_trimmed`).                 *)
THEOREM NothingIsLostToTrimming == FilesSpec => NothingLostToTrimming
<1>1. FilesInv /\ [FilesNext]_filesVars
        => [\A i \in DOMAIN ledger :
             (at = "prompt" /\ at' = "prompt" /\ ledger[i].path \notin Artifacts
                /\ ~ledger[i].reverted /\ ledger'[i].reverted /\ content'[ledger[i].path] = Absent)
             => preimage[ledger[i].id] = Absent]_filesVars
  BY RevertStepLosesNothing
<1> QED BY <1>1, LedgerAlwaysChained, PTL DEF FilesSpec, NothingLostToTrimming
=============================================================================
