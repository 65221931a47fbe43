---------------------------- MODULE RuntimeProofs ----------------------------
(***************************************************************************)
(* Theorems about the runtime that admits one operation at a time          *)
(* (UnifiedRuntime), for any number of callers and sub-tasks, and about    *)
(* the requests that operations make to providers (ProviderRoutes), for    *)
(* any requests, providers, models and number of keys.                     *)
(***************************************************************************)
EXTENDS UnifiedRuntime, ProviderRoutes, FiniteSetTheorems, TLAPS

Places == {"idle", "queued", "awaiting", "streaming", "refused", "raised", "returned", "abandoned"}
Entry  == [of : Callers, status : {"completed", "partial", "failed", "cancelled"}]

Types ==
    /\ pc \in [Callers -> Places] /\ ended \subseteq Callers
    /\ lock \in Callers \cup {Nobody} /\ active \in Callers \cup {Nobody}
    /\ runner \in Callers \cup {Nobody}
    /\ op \in [Callers -> Results \cup {None, Running}]
    /\ history \in Seq(Entry)
    /\ checkpoint \in [Callers -> {"none", "running", "completed", "partial", "failed", "cancelled"}]
    /\ damaged \subseteq Callers

\* Whoever is inside holds the lock, and its task is the active one.
Inside ==
    /\ active = lock
    /\ \A c \in Callers : lock = c <=> pc[c] \in {"awaiting", "streaming"}
    /\ \A c \in Callers : pc[c] = "awaiting" => runner = c
\* Which calls run operations, and when.
Operations ==
    \A c \in Callers :
        /\ op[c] = Running => pc[c] = "awaiting"
        /\ pc[c] = "awaiting" => op[c] # None /\ c \notin Streams /\ c \notin ended
        /\ pc[c] = "streaming" => c \in Streams
        /\ pc[c] \in {"idle", "queued", "refused"} => op[c] = None
        /\ op[c] # None => c \notin Streams /\ pc[c] \in {"awaiting", "raised", "returned"}
        /\ pc[c] \in {"idle", "queued"} => c \notin ended
\* A record is of a call that is over; nothing is recorded of the others.
Recorded ==
    /\ \A i \in DOMAIN history : pc[history[i].of] \in {"raised", "returned"}
    /\ \A c \in Callers : checkpoint[c] = "running" => op[c] # None

IInv == Types /\ Inside /\ Operations /\ Recorded /\ RecordedOnce /\ CompletedIsReviewed
          /\ NothingLeftRunning /\ DelegatedIsRefused

LEMMA ResultsDiffer ==
    /\ None \notin Results /\ Running \notin Results /\ None # Running
    /\ \A result \in Results : result.status \in Statuses \cup {"raises", "stopped"}
    /\ Raises \in Results /\ Stopped \in Results /\ Raises # Stopped
BY DEF None, Running, Results, Returns, Raises, Stopped, Statuses

LEMMA InitIInv ==
    ASSUME RuntimeAssumption
    PROVE  Init => IInv
BY ResultsDiffer
   DEF RuntimeAssumption, Init, IInv, Types, Inside, Operations, Recorded, RecordedOnce, CompletedIsReviewed,
       NothingLeftRunning, DelegatedIsRefused, Places

LEMMA RecordsAreOfCallers ==
    ASSUME Types
    PROVE  \A i \in DOMAIN history : history[i].of \in Callers
<1>1. history \in Seq(Entry)
  BY DEF Types
<1>2. \A i \in DOMAIN history : history[i] \in Entry
  BY <1>1
<1>3. \A e \in Entry : e.of \in Callers
  BY DEF Entry
<1> QED BY <1>2, <1>3

LEMMA StatusIsRecorded ==
    ASSUME IInv, NEW c \in Callers, Resumes(c)
    PROVE  /\ FinalStatus(c) \in {"completed", "partial", "failed", "cancelled"}
           /\ FinalStatus(c) = "completed" => op[c].status = "completed" /\ Approved(c, op[c])
BY ResultsDiffer DEF Resumes, FinalStatus, Results, Returns, Raises, Stopped, Statuses

\* One more record, of a call that had none.
LEMMA RecordKeeps ==
    ASSUME IInv, NEW c \in Callers, pc[c] \in {"awaiting", "streaming"},
           NEW status \in {"completed", "partial", "failed", "cancelled"}, Record(c, status)
    PROVE  /\ history' \in Seq(Entry)
           /\ RecordedOnce'
           /\ \A i \in DOMAIN history' : history'[i].of = c \/ (i \in DOMAIN history /\ history'[i] = history[i])
           /\ \A i \in DOMAIN history' : history'[i].of = c => history'[i].status = status
           /\ \A i \in DOMAIN history : i \in DOMAIN history' /\ history'[i] = history[i]
           /\ \E i \in DOMAIN history' : history'[i].of = c
<1> DEFINE e == [of |-> c, status |-> status]
<1>1. e \in Entry /\ e.of = c /\ e.status = status
  BY DEF Entry
<1>2. history \in Seq(Entry) /\ history' = Append(history, e)
  BY DEF IInv, Types, Record
<1> HIDE DEF e
<1>3. /\ Len(history') = Len(history) + 1 /\ history' \in Seq(Entry)
      /\ \A i \in 1 .. Len(history) : history'[i] = history[i]
      /\ history'[Len(history) + 1] = e
  BY <1>1, <1>2
<1>4. DOMAIN history = 1 .. Len(history) /\ DOMAIN history' = 1 .. Len(history) + 1 /\ Len(history) \in Nat
  BY <1>2, <1>3
<1>5. \A i \in DOMAIN history : history[i].of # c
  BY DEF IInv, Recorded
<1>6. \A i \in DOMAIN history' : i \in DOMAIN history \/ i = Len(history) + 1
  BY <1>4
<1>7. RecordedOnce'
  BY <1>1, <1>3, <1>4, <1>5, <1>6 DEF RecordedOnce, IInv
<1> QED BY <1>1, <1>3, <1>4, <1>5, <1>6, <1>7

LEMMA StepIInv ==
    ASSUME RuntimeAssumption
    PROVE  IInv /\ [Next]_vars => IInv'
<1> SUFFICES ASSUME IInv, [Next]_vars PROVE IInv'
  OBVIOUS
<1> USE ResultsDiffer DEF RuntimeAssumption
\* A step that only moves a call that has begun nothing.
<1>a. ASSUME NEW c \in Callers, pc[c] \in {"idle", "queued"}, NEW place \in {"queued", "refused", "raised"},
             Goes(c, place), place = "queued" => c \notin Delegated \/ Parent[c] = Nobody,
             c \in Delegated /\ Parent[c] # Nobody => place = "refused",
             UNCHANGED <<ended, lock, active, op, records>>,
             runner' \in Callers \cup {Nobody}, runner' # runner => lock = Nobody
      PROVE  IInv'
  <2>1. Types'
    BY <1>a DEF IInv, Types, Goes, Places, records
  <2>2. Inside'
    BY <1>a DEF IInv, Types, Inside, Goes
  <2>3. Operations'
    BY <1>a DEF IInv, Types, Operations, Goes
  <2>4. Recorded'
    BY <1>a DEF IInv, Types, Recorded, Goes, records, Entry
  <2>5. RecordedOnce' /\ CompletedIsReviewed'
    BY <1>a DEF IInv, RecordedOnce, CompletedIsReviewed, Approved, records
  <2>6. NothingLeftRunning'
    BY <1>a DEF IInv, Types, Operations, NothingLeftRunning, Goes, records
  <2>7. DelegatedIsRefused'
    BY <1>a DEF IInv, Types, DelegatedIsRefused, Goes
  <2> QED BY <2>1, <2>2, <2>3, <2>4, <2>5, <2>6, <2>7 DEF IInv
\* No sub-task of a running turn gets as far as the lock.
<1>b. ASSUME NEW c \in Callers, pc[c] = "idle", Fanned(c), ~FailsFast(c)
      PROVE  c \in Delegated => Parent[c] = Nobody
  <2> SUFFICES ASSUME c \in Delegated, Parent[c] # Nobody PROVE FALSE
    OBVIOUS
  <2>1. op[Parent[c]] = Running /\ Parent[c] \in Callers
    BY <1>b DEF Fanned
  <2>2. lock = Parent[c]
    BY <2>1 DEF IInv, Operations, Inside
  <2> QED BY <1>b, <2>1, <2>2 DEF FailsFast
<1>c. ASSUME NEW c \in Callers, pc[c] \in {"idle", "queued"}, lock = Nobody,
             c \in Delegated => Parent[c] = Nobody, UNCHANGED ended, Enter(c)
      PROVE  IInv'
  <2>1. CASE EnterRefused(c)
    BY <1>a, <1>c, <2>1 DEF EnterRefused, IInv, Types
  <2>2. CASE SetupFails(c)
    BY <1>a, <1>c, <2>2 DEF SetupFails
  <2>3. CASE StartOperation(c)
    <3>1. op[c] = None /\ \A d \in Callers : pc[d] \notin {"awaiting", "streaming"}
      BY <1>c DEF IInv, Types, Inside, Operations
    <3>2. c \notin ended
      BY <1>c DEF IInv, Operations
    <3>3. Types'
      BY <1>c, <2>3 DEF IInv, Types, StartOperation, Goes, Places
    <3>4. Inside'
      BY <1>c, <2>3, <3>1 DEF IInv, Types, Inside, StartOperation, Goes
    <3>5. Operations'
      BY <1>c, <2>3, <3>1, <3>2 DEF IInv, Types, Operations, StartOperation, Goes
    <3>6. Recorded'
      BY <1>c, <2>3 DEF IInv, Types, Recorded, StartOperation, Goes, Entry
    <3>7. RecordedOnce' /\ CompletedIsReviewed'
      BY <1>c, <2>3 DEF IInv, Types, Recorded, RecordedOnce, CompletedIsReviewed, Approved, StartOperation, Entry
    <3>8. NothingLeftRunning'
      BY <1>c, <2>3 DEF IInv, Types, NothingLeftRunning, StartOperation, Goes
    <3>9. DelegatedIsRefused'
      BY <1>c, <2>3 DEF IInv, Types, DelegatedIsRefused, StartOperation, Goes
    <3> QED BY <3>3, <3>4, <3>5, <3>6, <3>7, <3>8, <3>9 DEF IInv
  <2>4. CASE StartStream(c)
    <3>1. op[c] = None /\ \A d \in Callers : pc[d] \notin {"awaiting", "streaming"}
      BY <1>c DEF IInv, Types, Inside, Operations
    <3>2. Types' /\ Inside'
      BY <1>c, <2>4, <3>1 DEF IInv, Types, Inside, StartStream, Goes, Places, records
    <3>3. Operations' /\ Recorded'
      BY <1>c, <2>4, <3>1 DEF IInv, Types, Operations, Recorded, StartStream, Goes, Entry, records
    <3>4. RecordedOnce' /\ CompletedIsReviewed'
      BY <2>4 DEF IInv, RecordedOnce, CompletedIsReviewed, Approved, StartStream, records
    <3>5. NothingLeftRunning' /\ DelegatedIsRefused'
      BY <1>c, <2>4, <3>1 DEF IInv, Types, NothingLeftRunning, DelegatedIsRefused, StartStream, Goes, records
    <3> QED BY <3>2, <3>3, <3>4, <3>5 DEF IInv
  <2> QED BY <1>c, <2>1, <2>2, <2>3, <2>4 DEF Enter
\* A call that held the lock is over, and its record, if it has one, is its first.
<1>d. ASSUME NEW c \in Callers, lock = c, NEW place \in {"raised", "returned", "abandoned"},
             Goes(c, place), place = "abandoned" => UNCHANGED history /\ c \in Streams,
             lock' = Nobody, active' = Nobody, runner' \in {runner, Nobody},
             op[c] \in Results \/ c \in Streams, UNCHANGED <<ended, op>>,
             \/ UNCHANGED history
             \/ \E status \in {"completed", "partial", "failed", "cancelled"} :
                    /\ Record(c, status)
                    /\ status = "completed" /\ c \notin Streams =>
                         op[c].status = "completed" /\ Approved(c, op[c]),
             \/ UNCHANGED checkpoint
             \/ \E status \in {"completed", "partial", "failed", "cancelled"} :
                    checkpoint' = [checkpoint EXCEPT ![c] = status],
             damaged \subseteq damaged' /\ damaged' \subseteq damaged \cup {c},
             c \notin Streams /\ c \notin damaged' => history' # history /\ checkpoint'[c] # "running"
      PROVE  IInv'
  <2>2. pc[c] \in {"awaiting", "streaming"}
    BY <1>d DEF IInv, Inside
  <2>3. \A d \in Callers \ {c} : pc[d] \notin {"awaiting", "streaming"} /\ pc'[d] = pc[d]
    BY <1>d DEF IInv, Types, Inside, Goes
  <2>4. pc'[c] = place
    BY <1>d DEF IInv, Types, Goes
  <2>5. /\ history' \in Seq(Entry) /\ RecordedOnce'
        /\ \A i \in DOMAIN history' :
              \/ history'[i].of = c /\ place # "abandoned"
              \/ i \in DOMAIN history /\ history'[i] = history[i]
        /\ \A i \in DOMAIN history : i \in DOMAIN history' /\ history'[i] = history[i]
        /\ history' # history => \E i \in DOMAIN history' : history'[i].of = c
    BY <1>d, <2>2, RecordKeeps DEF IInv, Types, RecordedOnce
  <2>6. Types'
    BY <1>d, <2>5 DEF IInv, Types, Goes, Places
  <2>7. Inside'
    BY <1>d, <2>3, <2>4 DEF IInv, Inside
  <2>8. Operations'
    BY <1>d, <2>2, <2>3, <2>4 DEF IInv, Operations
  <2>9. Recorded'
    <3>1. ASSUME NEW i \in DOMAIN history' PROVE pc'[history'[i].of] \in {"raised", "returned"}
      <4>1. CASE history'[i].of = c /\ place # "abandoned"
        BY <1>d, <2>4, <4>1
      <4>2. CASE i \in DOMAIN history /\ history'[i] = history[i]
        <5>1. pc[history[i].of] \in {"raised", "returned"} /\ history[i].of \in Callers
          BY <4>2, RecordsAreOfCallers DEF IInv, Recorded
        <5> QED BY <1>d, <2>2, <2>3, <4>2, <5>1
      <4> QED BY <2>5, <3>1, <4>1, <4>2
    <3>2. ASSUME NEW d \in Callers, checkpoint'[d] = "running" PROVE op'[d] # None
      <4>1. checkpoint[d] = "running"
        BY <1>d, <3>2 DEF IInv, Types
      <4> QED BY <1>d, <4>1 DEF IInv, Recorded
    <3> QED BY <3>1, <3>2 DEF Recorded
  <2>10. CompletedIsReviewed'
    <3> SUFFICES ASSUME NEW i \in DOMAIN history', history'[i].status = "completed", history'[i].of \notin Streams
                 PROVE  op[history'[i].of].status = "completed" /\ Approved(history'[i].of, op[history'[i].of])
      BY <1>d DEF CompletedIsReviewed, Approved
    <3>1. CASE i \in DOMAIN history /\ history'[i] = history[i]
      BY <3>1 DEF IInv, CompletedIsReviewed
    <3>2. CASE history'[i].of = c /\ ~(i \in DOMAIN history /\ history'[i] = history[i])
      BY <1>d, <2>2, <3>2, RecordKeeps
    <3> QED BY <2>5, <3>1, <3>2
  <2>11. NothingLeftRunning'
    <3> SUFFICES ASSUME NEW d \in Callers, op'[d] \in Results, pc'[d] # "awaiting", d \notin damaged'
                 PROVE  /\ checkpoint'[d] # "running"
                        /\ \E i \in DOMAIN history' : history'[i].of = d
      BY DEF NothingLeftRunning
    <3>1. CASE d = c
      <4>1. c \notin Streams
        BY <1>d, <3>1 DEF IInv, Operations
      <4> QED BY <1>d, <2>5, <3>1, <4>1
    <3>2. CASE d # c
      <4>1. pc[d] # "awaiting" /\ d \notin damaged /\ checkpoint'[d] = checkpoint[d]
        BY <1>d, <2>3, <3>2 DEF IInv, Types
      <4>2. checkpoint[d] # "running" /\ \E i \in DOMAIN history : history[i].of = d
        BY <1>d, <4>1 DEF IInv, NothingLeftRunning
      <4> QED BY <2>5, <4>1, <4>2
    <3> QED BY <3>1, <3>2
  <2>12. DelegatedIsRefused'
    BY <1>d, <2>2, <2>3 DEF IInv, DelegatedIsRefused
  <2> QED BY <2>5, <2>6, <2>7, <2>8, <2>9, <2>10, <2>11, <2>12 DEF IInv
\* A call that is over, or an operation that has its result.
<1>e. ASSUME NEW c \in Callers, OperationEnds(c) PROVE IInv'
  <2>1. PICK result \in Results : op' = [op EXCEPT ![c] = result]
    BY <1>e DEF OperationEnds, Results
  <2>2. pc[c] = "awaiting" /\ op'[c] = result /\ \A d \in Callers \ {c} : op'[d] = op[d]
    BY <1>e, <2>1 DEF IInv, Types, Operations, OperationEnds
  <2>3. UNCHANGED <<pc, ended, lock, waiters, runner, active, records>>
    BY <1>e DEF OperationEnds, sync
  <2>4. Types' /\ Inside'
    BY <2>1, <2>3 DEF IInv, Types, Inside, records
  <2>5. Operations'
    BY <2>2, <2>3 DEF IInv, Operations
  <2>6. Recorded'
    BY <2>2, <2>3 DEF IInv, Recorded, records
  <2>7. RecordedOnce' /\ CompletedIsReviewed'
    <3>1. \A i \in DOMAIN history : history[i].of \in Callers \ {c}
      BY <2>2, RecordsAreOfCallers DEF IInv, Recorded
    <3> QED BY <2>2, <2>3, <3>1 DEF IInv, RecordedOnce, CompletedIsReviewed, Approved, records
  <2>8. NothingLeftRunning'
    BY <2>2, <2>3 DEF IInv, NothingLeftRunning, records
  <2>9. DelegatedIsRefused'
    BY <2>2, <2>3 DEF IInv, DelegatedIsRefused
  <2> QED BY <2>4, <2>5, <2>6, <2>7, <2>8, <2>9 DEF IInv
<1>f. ASSUME NEW c \in Callers, TaskEnds(c) PROVE IInv'
  <2>1. /\ pc[c] \in {"refused", "raised", "returned", "streaming"} /\ ended' = ended \cup {c}
        /\ UNCHANGED <<pc, lock, waiters, runner, active, op, records>>
    BY <1>f DEF TaskEnds, sync
  <2> QED BY <2>1 DEF IInv, Types, Inside, Operations, Recorded, RecordedOnce, CompletedIsReviewed,
                      Approved, NothingLeftRunning, DelegatedIsRefused, records
<1>g. ASSUME NEW c \in Callers, CancelTask(c) PROVE IInv'
  <2>1. UNCHANGED <<ended, lock, runner, active, op, records>>
    BY <1>g DEF CancelTask
  <2>2. CASE pc[c] = "queued" /\ Goes(c, "raised")
    BY <1>a, <2>1, <2>2 DEF IInv, Types, DelegatedIsRefused
  <2>3. CASE UNCHANGED pc
    BY <2>1, <2>3 DEF IInv, Types, Inside, Operations, Recorded, RecordedOnce, CompletedIsReviewed,
                      Approved, NothingLeftRunning, DelegatedIsRefused, records
  <2> QED BY <1>g, <2>2, <2>3 DEF CancelTask
<1>1. ASSUME NEW c \in Callers, Refuse(c) PROVE IInv'
  BY <1>a, <1>1 DEF Refuse, sync, IInv, Types
<1>2. ASSUME NEW c \in Callers, Wait(c) PROVE IInv'
  BY <1>a, <1>b, <1>2 DEF Wait, IInv, Types
<1>3. ASSUME NEW c \in Callers, Acquire(c) PROVE IInv'
  BY <1>b, <1>c, <1>3 DEF Acquire
<1>4. ASSUME NEW c \in Callers, Granted(c) PROVE IInv'
  BY <1>c, <1>4 DEF Granted, IInv, DelegatedIsRefused
<1>5. ASSUME NEW c \in Callers, Finish(c) PROVE IInv'
  <2>1. lock = c /\ c \notin Streams /\ op[c] \in Results
    BY <1>5 DEF Finish, Resumes, IInv, Inside, Operations
  <2>2. /\ FinalStatus(c) \in {"completed", "partial", "failed", "cancelled"}
        /\ FinalStatus(c) = "completed" => op[c].status = "completed" /\ Approved(c, op[c])
    BY <1>5, StatusIsRecorded DEF Finish
  <2>3. Record(c, FinalStatus(c)) /\ history' # history
    <3>1. Record(c, FinalStatus(c))
      BY <1>5 DEF Finish
    <3>2. history \in Seq(Entry)
      BY DEF IInv, Types
    <3>3. Len(Append(history, [of |-> c, status |-> FinalStatus(c)])) = Len(history) + 1 /\ Len(history) \in Nat
      BY <2>2, <3>2 DEF Entry
    <3> QED BY <3>1, <3>3 DEF Record
  <2>4. PICK place \in {"raised", "returned"} : Goes(c, place)
    BY <1>5 DEF Finish, Finally
  <2>5. lock' = Nobody /\ active' = Nobody /\ runner' = Nobody /\ UNCHANGED <<ended, op>>
    BY <1>5 DEF Finish, Finally, Release
  <2>6. CASE checkpoint' = [checkpoint EXCEPT ![c] = FinalStatus(c)] /\ UNCHANGED damaged
    <3>1. checkpoint'[c] # "running"
      BY <2>2, <2>6 DEF IInv, Types
    <3> QED BY <1>d, <2>1, <2>2, <2>3, <2>4, <2>5, <2>6, <3>1
  <2>7. CASE damaged' = damaged \cup {c} /\ UNCHANGED checkpoint
    BY <1>d, <2>1, <2>2, <2>3, <2>4, <2>5, <2>7
  <2> QED BY <1>5, <2>6, <2>7 DEF Finish
<1>6. ASSUME NEW c \in Callers, FinishCutShort(c) PROVE IInv'
  <2>1. lock = c /\ c \notin Streams /\ op[c] \in Results
    BY <1>6 DEF FinishCutShort, Resumes, IInv, Inside, Operations
  <2>2. PICK place \in {"raised", "returned"} : Goes(c, place)
    BY <1>6 DEF FinishCutShort, Finally
  <2>3. /\ lock' = Nobody /\ active' = Nobody /\ runner' = Nobody /\ UNCHANGED <<ended, op>>
        /\ damaged' = damaged \cup {c} /\ UNCHANGED checkpoint
    BY <1>6 DEF FinishCutShort, Finally, Release
  <2>4. UNCHANGED history \/ Record(c, "cancelled")
    BY <1>6 DEF FinishCutShort
  <2> QED BY <1>d, <2>1, <2>2, <2>3, <2>4
<1>7. ASSUME NEW c \in Callers, StreamEnds(c) PROVE IInv'
  <2>1. lock = c /\ c \in Streams
    BY <1>7 DEF StreamEnds, IInv, Inside, Operations
  <2>2. PICK status \in {"completed", "failed", "cancelled"} :
          Record(c, status) /\ Goes(c, IF status = "completed" THEN "returned" ELSE "raised")
    BY <1>7 DEF StreamEnds
  <2>3. /\ lock' = Nobody /\ active' = Nobody /\ runner' = runner
        /\ UNCHANGED <<ended, op, checkpoint, damaged>>
    BY <1>7 DEF StreamEnds, Release
  <2> QED BY <1>d, <2>1, <2>2, <2>3
<1>8. ASSUME NEW c \in Callers, CloseStream(c) PROVE IInv'
  <2>1. lock = c /\ c \in Streams
    BY <1>8 DEF CloseStream, IInv, Inside, Operations
  <2>2. /\ Goes(c, "abandoned") /\ lock' = Nobody /\ active' = Nobody /\ runner' = runner
        /\ UNCHANGED <<ended, op, history, checkpoint, damaged>>
    BY <1>8 DEF CloseStream, Release, records
  <2> QED BY <1>d, <2>1, <2>2
<1>9. ASSUME CancelRuntime PROVE IInv'
  BY <1>g, <1>9 DEF CancelRuntime
<1>10. ASSUME UNCHANGED vars PROVE IInv'
  BY <1>10 DEF IInv, Types, Inside, Operations, Recorded, RecordedOnce, CompletedIsReviewed, Approved,
               NothingLeftRunning, DelegatedIsRefused, vars, sync, records
<1> QED
  BY <1>e, <1>f, <1>g, <1>1, <1>2, <1>3, <1>4, <1>5, <1>6, <1>7, <1>8, <1>9, <1>10 DEF Next

LEMMA Inductive ==
    ASSUME RuntimeAssumption
    PROVE  Spec => []IInv
BY InitIInv, StepIInv, PTL DEF Spec

(* Two executions never overlap: whichever calls wait, fail in their setup *)
(* or are cancelled, _run_exclusive lets one operation or stream in.       *)
THEOREM OneOperationAlways ==
    ASSUME RuntimeAssumption
    PROVE  Spec => []OneOperation
<1>1. IInv => OneOperation
  BY DEF IInv, Inside, Operations, OneOperation, InOperation
<1> QED BY <1>1, Inductive, PTL

(* The history has one entry for an execution at most, and "completed" in  *)
(* it means returned completed and approved by the review.                 *)
THEOREM RecordsAreTrue ==
    ASSUME RuntimeAssumption
    PROVE  Spec => [](RecordedOnce /\ CompletedIsReviewed)
<1>1. IInv => RecordedOnce /\ CompletedIsReviewed
  BY DEF IInv
<1> QED BY <1>1, Inductive, PTL

(* When _run_exclusive has let go of an execution, its entry is in the     *)
(* history and its checkpoint no longer says running, unless a write of    *)
(* its records failed or was interrupted.                                  *)
THEOREM NothingIsLeftRunning ==
    ASSUME RuntimeAssumption
    PROVE  Spec => []NothingLeftRunning
<1>1. IInv => NothingLeftRunning
  BY DEF IInv
<1> QED BY <1>1, Inductive, PTL

(* A sub-task delegated by a turn that is running in the same process is   *)
(* never executed, however many there are and whatever the concurrency.    *)
THEOREM DelegatedNeverRuns ==
    ASSUME RuntimeAssumption
    PROVE  Spec => []DelegatedIsRefused
<1>1. IInv => DelegatedIsRefused
  BY DEF IInv
<1> QED BY <1>1, Inductive, PTL

-----------------------------------------------------------------------------
(* The routes that are left to a request.                                  *)

LEMMA SetOfTail ==
    ASSUME NEW S, NEW s \in Seq(S), s # <<>>
    PROVE  Head(s) \in S /\ Tail(s) \in Seq(S) /\ ToSet(s) = {Head(s)} \cup ToSet(Tail(s))
<1>1. Len(s) \in Nat \ {0} /\ Head(s) = s[1] /\ 1 \in DOMAIN s /\ DOMAIN s = 1 .. Len(s)
  OBVIOUS
<1>2. Tail(s) \in Seq(S) /\ DOMAIN Tail(s) = 1 .. Len(s) - 1 /\ \A k \in DOMAIN Tail(s) : Tail(s)[k] = s[k + 1]
  OBVIOUS
<1>3. \A k \in DOMAIN s \ {1} : k - 1 \in DOMAIN Tail(s) /\ Tail(s)[k - 1] = s[k]
  <2> SUFFICES ASSUME NEW k \in DOMAIN s \ {1} PROVE k - 1 \in DOMAIN Tail(s) /\ Tail(s)[k - 1] = s[k]
    OBVIOUS
  <2>1. k - 1 \in DOMAIN Tail(s) /\ (k - 1) + 1 = k
    BY <1>1, <1>2
  <2> QED BY <1>2, <2>1
<1>4. \A k \in DOMAIN Tail(s) : k + 1 \in DOMAIN s
  BY <1>1, <1>2
<1>5. ToSet(Tail(s)) \subseteq ToSet(s) /\ Head(s) \in ToSet(s)
  BY <1>1, <1>2, <1>4 DEF ToSet
<1>6. \A x \in ToSet(s) : x = Head(s) \/ x \in ToSet(Tail(s))
  <2> SUFFICES ASSUME NEW k \in DOMAIN s, k # 1 PROVE s[k] \in ToSet(Tail(s))
    BY <1>1 DEF ToSet
  <2> QED BY <1>3 DEF ToSet
<1> QED BY <1>1, <1>2, <1>5, <1>6

LEMMA SetOfConcatenation ==
    ASSUME NEW S, NEW s \in Seq(S), NEW t \in Seq(S)
    PROVE  s \o t \in Seq(S) /\ ToSet(s) \subseteq ToSet(s \o t) /\ ToSet(t) \subseteq ToSet(s \o t)
<1> DEFINE u == s \o t
<1>1. u \in Seq(S) /\ Len(s) \in Nat /\ Len(t) \in Nat /\ DOMAIN u = 1 .. Len(s) + Len(t)
  OBVIOUS
<1>2. \A k \in DOMAIN s : k \in DOMAIN u /\ u[k] = s[k]
  OBVIOUS
<1>3. ASSUME NEW k \in DOMAIN t PROVE Len(s) + k \in DOMAIN u /\ u[Len(s) + k] = t[k]
  <2>1. k \in 1 .. Len(t)
    OBVIOUS
  <2>2. Len(s) + k \in 1 .. Len(s) + Len(t) /\ ~(Len(s) + k <= Len(s)) /\ Len(s) + k - Len(s) = k
    BY <1>1, <2>1
  <2> QED BY <1>1, <2>2
<1> HIDE DEF u
<1>4. ToSet(s) \subseteq ToSet(u)
  BY <1>2 DEF ToSet
<1>5. ToSet(t) \subseteq ToSet(u)
  BY <1>3 DEF ToSet
<1> QED BY <1>1, <1>4, <1>5 DEF u

LEMMA OthersAreLeft ==
    ASSUME NEW p
    PROVE  Others(p) \in Seq(Providers) /\ ToSet(Order) \ {p} \subseteq ToSet(Others(p))
<1> USE RoutesAssumption
<1>1. CASE p \notin ToSet(Order)
  BY <1>1 DEF Others
<1>2. CASE p \in ToSet(Order)
  <2> DEFINE i == CHOOSE k \in DOMAIN Order : Order[k] = p
             n == Len(Order)
             before == SubSeq(Order, 1, i - 1)
             rest == SubSeq(Order, i + 1, n)
  <2>1. \E k \in DOMAIN Order : Order[k] = p
    BY <1>2 DEF ToSet
  <2>2. i \in DOMAIN Order /\ Order[i] = p
    BY <2>1
  <2>3. n \in Nat /\ DOMAIN Order = 1 .. n
    OBVIOUS
  <2>4. Others(p) = before \o rest
    BY <1>2 DEF Others, RemoveAt
  <2> HIDE DEF i
  <2>5. before \in Seq(Providers) /\ rest \in Seq(Providers)
    BY <2>2, <2>3
  <2>6. \A k \in 1 .. i - 1 : k \in DOMAIN before /\ before[k] = Order[k]
    BY <2>2, <2>3
  <2>7. ASSUME NEW k \in i + 1 .. n PROVE k - i \in DOMAIN rest /\ rest[k - i] = Order[k]
    BY <2>2, <2>3
  <2> HIDE DEF before, rest, n
  <2>8. ASSUME NEW k \in DOMAIN Order, Order[k] # p PROVE Order[k] \in ToSet(before) \cup ToSet(rest)
    <3>1. k \in 1 .. i - 1 \/ k \in i + 1 .. n
      BY <2>2, <2>3, <2>8
    <3> QED BY <3>1, <2>6, <2>7 DEF ToSet
  <2>9. ToSet(Order) \ {p} \subseteq ToSet(before) \cup ToSet(rest)
    BY <2>8 DEF ToSet
  <2> QED BY <2>4, <2>5, <2>9, SetOfConcatenation
<1> QED BY <1>1, <1>2

LEMMA CandidatesAreAllOthers ==
    ASSUME NEW p \in Providers
    PROVE  FallbackCandidates(p) \in Seq(Providers) /\ ToSet(Order) \ {p} \subseteq ToSet(FallbackCandidates(p))
<1>1. \/ FallbackCandidates(p) = <<p>> \o Others(p)
      \/ FallbackCandidates(p) = <<>> \o Others(p)
  BY DEF FallbackCandidates
<1>2. <<p>> \in Seq(Providers) /\ <<>> \in Seq(Providers)
  OBVIOUS
<1> QED BY <1>1, <1>2, OthersAreLeft, SetOfConcatenation

-----------------------------------------------------------------------------
(* The keys that have failed.                                              *)

NimKeys == 0 .. NumKeys - 1

\* From one key round to another.
Arc(s, k) == IF s <= k THEN s .. k ELSE (s .. NumKeys - 1) \cup (0 .. k)

LEMMA NextOfArc ==
    ASSUME NEW s \in NimKeys, NEW k \in NimKeys, Cardinality(Arc(s, k)) < NumKeys, NEW n, n = (k + 1) % NumKeys
    PROVE  n \in NimKeys /\ n \notin Arc(s, k) /\ Arc(s, k) \cup {n} = Arc(s, n)
<1>1. NumKeys \in Nat /\ NumKeys > 0
  BY RoutesAssumption
<1>2. Arc(s, k) # NimKeys
  <2>1. Cardinality(NimKeys) = NumKeys
    BY <1>1, FS_Interval DEF NimKeys
  <2> QED BY <1>1, <2>1
<1>3. s \in Nat /\ k \in Nat /\ s < NumKeys /\ k < NumKeys
  BY <1>1 DEF NimKeys
<1>4. n = IF k + 1 = NumKeys THEN 0 ELSE k + 1
  <2>1. CASE k + 1 = NumKeys
    BY <1>1, <2>1
  <2>2. CASE k + 1 # NumKeys
    <3>1. k + 1 \in 0 .. NumKeys - 1
      BY <1>1, <1>3, <2>2
    <3> QED BY <1>1, <2>2, <3>1
  <2> QED BY <2>1, <2>2
<1>5. CASE k + 1 = NumKeys
  <2>1. n = 0 /\ Arc(s, k) = s .. NumKeys - 1
    BY <1>1, <1>3, <1>4, <1>5 DEF Arc
  <2>2. s # 0
    BY <1>2, <2>1 DEF NimKeys
  <2> QED BY <1>1, <1>3, <2>1, <2>2 DEF Arc, NimKeys
<1>6. CASE k + 1 # NumKeys
  <2>1. n = k + 1 /\ n \in NimKeys
    BY <1>1, <1>3, <1>4, <1>6 DEF NimKeys
  <2>2. CASE s <= k
    BY <1>1, <1>3, <2>1, <2>2 DEF Arc
  <2>3. CASE k < s
    <3>1. Arc(s, k) = (s .. NumKeys - 1) \cup (0 .. k)
      BY <1>3, <2>3 DEF Arc
    <3>2. n # s
      BY <1>1, <1>2, <1>3, <2>1, <2>3, <3>1 DEF NimKeys
    <3> QED BY <1>1, <1>3, <2>1, <2>3, <3>1, <3>2 DEF Arc
  <2> QED BY <1>3, <2>1, <2>2, <2>3
<1> QED BY <1>5, <1>6

-----------------------------------------------------------------------------
(* The requests.                                                           *)

ModelNames ==
    {NoModel} \cup {Wants[r].model : r \in Requests} \cup UNION {Models(p) \cup {Head(Pool[p])} : p \in Providers}

Underway == {"wait", "stream", "failed", "recorded"}
CallRecords ==
    [pc : Underway \cup {"resolve", "done", "error", "cancelled"},
     target : Providers \cup {AUTO}, provider : Providers, model : ModelNames,
     key : NimKeys, keys : SUBSET NimKeys, models : SUBSET ModelNames,
     retried : BOOLEAN, override : BOOLEAN, started : BOOLEAN,
     error : {"none", "quota", "credit", "server", "denied", "context"},
     left : Seq(Providers), inFallback : BOOLEAN, asked : SUBSET Providers]

\* In the fallback loop, every provider was asked, is, or is left to be; and
\* AUTO is resolved anew only before anyone was asked, or for a smaller context.
OnRoute(c) ==
    /\ c.pc \in Underway => c.provider \in c.asked
    /\ c.pc = "resolve" /\ c.target = AUTO => c.asked = {} \/ c.error = "context"
    /\ c.inFallback /\ c.pc \in Underway \cup {"resolve"} => c.target # AUTO
    /\ c.inFallback /\ c.pc \in Underway => ToSet(Order) \subseteq c.asked \cup ToSet(c.left)
    /\ c.inFallback /\ c.pc = "resolve" => ToSet(Order) \subseteq c.asked \cup ToSet(c.left) \cup {c.target}

\* The keys that failed are the ones before the key in use, from some key on.
OnKeys(c) ==
    /\ c.override => c.target = Nim /\ c.target # AUTO /\ c.key \notin c.keys /\ (c.pc \in Underway => c.provider = Nim)
    /\ ~c.override => c.keys = {}
    /\ \E s \in NimKeys : c.keys \cup {c.key} = Arc(s, c.key)

\* NoRouteStranded, of one request.
NotStranded(r, c) ==
    (c.pc = "error" /\ c.asked # {} /\ Wants[r].fallback /\ (c.inFallback \/ Retryable(c.error)))
        => ToSet(Order) \subseteq c.asked

Fine(r, c) == c \in CallRecords /\ OnRoute(c) /\ OnKeys(c) /\ NotStranded(r, c)

RoutesInv ==
    /\ DOMAIN call = Requests /\ nimKey \in NimKeys
    /\ \A r \in Requests : Fine(r, call[r])

LEMMA FirstArc == \A k \in NimKeys : Arc(k, k) = {k}
BY RoutesAssumption DEF Arc, NimKeys

LEMMA NewCallIsFine ==
    ASSUME NEW r \in Requests
    PROVE  NewCall(Wants[r].provider) \in CallRecords /\ 0 \in NimKeys /\ Fine(r, NewCall(Wants[r].provider))
<1> DEFINE c == NewCall(Wants[r].provider)
<1>1. 0 \in NimKeys
  BY RoutesAssumption DEF NimKeys
<1>2. Wants[r].provider \in Providers \cup {AUTO} /\ Gateway \in Providers
  BY RoutesAssumption DEF Providers
<1>3. c \in CallRecords
  BY <1>1, <1>2 DEF NewCall, CallRecords, ModelNames
<1>4. c.pc = "resolve" /\ c.inFallback = FALSE /\ c.asked = {} /\ c.override = FALSE /\ c.keys = {} /\ c.key = 0
  BY DEF NewCall
<1> HIDE DEF c
<1>5. OnRoute(c) /\ NotStranded(r, c)
  BY <1>4 DEF OnRoute, NotStranded, Underway
<1>6. OnKeys(c)
  BY <1>1, <1>4, FirstArc DEF OnKeys
<1>7. Fine(r, c)
  BY <1>3, <1>5, <1>6 DEF Fine
<1> QED BY <1>1, <1>3, <1>7 DEF c

LEMMA InitRoutesInv == RoutesInit => RoutesInv
BY NewCallIsFine, RoutesAssumption DEF RoutesInit, RoutesInv, NimKeys

\* A step changes the call of one request.
LEMMA OneCall ==
    ASSUME RoutesInv, NEW r \in Requests, NEW c, call' = [call EXCEPT ![r] = c], Fine(r, c), nimKey' \in NimKeys
    PROVE  RoutesInv'
<1>1. DOMAIN call' = Requests /\ call'[r] = c /\ \A q \in Requests \ {r} : call'[q] = call[q]
  BY DEF RoutesInv
<1>2. \A q \in Requests : Fine(q, call'[q])
  BY <1>1 DEF RoutesInv
<1>3. \A q \in Requests : Fine(q, call'[q]) <=> Fine(q, call[q])'
  BY DEF Fine, OnRoute, OnKeys, NotStranded
<1> QED BY <1>1, <1>2, <1>3 DEF RoutesInv

\* A call that is over says nothing but how it ended.
LEMMA EndIsFine ==
    ASSUME RoutesInv, NEW r \in Requests, NEW at \in {"done", "error", "cancelled"}, Ends(r, at), UNCHANGED nimKey,
           at = "error" => NotStranded(r, [call[r] EXCEPT !.pc = "error"])
    PROVE  RoutesInv'
<1> DEFINE c == [NewCall(Wants[r].provider) EXCEPT !.pc = at, !.error = call[r].error,
                                                   !.inFallback = call[r].inFallback, !.asked = call[r].asked]
<1>1. call' = [call EXCEPT ![r] = c]
  BY DEF Ends
<1>2. call[r] \in CallRecords
  BY DEF RoutesInv, Fine
<1>3. NewCall(Wants[r].provider) \in CallRecords /\ 0 \in NimKeys
  BY NewCallIsFine
<1>4. c \in CallRecords
  BY <1>2, <1>3 DEF CallRecords
<1>5. /\ c.pc = at /\ c.override = FALSE /\ c.keys = {} /\ c.key = 0
      /\ c.error = call[r].error /\ c.inFallback = call[r].inFallback /\ c.asked = call[r].asked
  BY DEF NewCall
<1> HIDE DEF c
<1>6. OnRoute(c)
  BY <1>5 DEF OnRoute, Underway
<1>7. OnKeys(c)
  BY <1>3, <1>5, FirstArc DEF OnKeys
<1>8. NotStranded(r, c)
  <2> DEFINE d == [call[r] EXCEPT !.pc = "error"]
  <2>1. d.pc = "error" /\ d.error = call[r].error /\ d.inFallback = call[r].inFallback /\ d.asked = call[r].asked
    BY <1>2 DEF CallRecords
  <2> HIDE DEF d
  <2>2. at = "error" => NotStranded(r, d)
    BY DEF d
  <2> QED BY <1>5, <2>1, <2>2 DEF NotStranded
<1> QED BY <1>1, <1>4, <1>6, <1>7, <1>8, OneCall DEF Fine, RoutesInv

-----------------------------------------------------------------------------
(* The steps of a request.                                                 *)

LEMMA NoRouteKeeps == ASSUME RoutesInv, NEW r \in Requests, NoRoute(r) PROVE RoutesInv'
<1>1. call[r].pc = "resolve" /\ call[r].target = AUTO
  BY DEF NoRoute, ResolvedTo
<1>2. call[r] \in CallRecords /\ call[r].inFallback = FALSE /\ (call[r].asked = {} \/ call[r].error = "context")
  BY <1>1 DEF RoutesInv, Fine, OnRoute, CallRecords
<1> DEFINE d == [call[r] EXCEPT !.pc = "error"]
<1>3. d.error = call[r].error /\ d.inFallback = call[r].inFallback /\ d.asked = call[r].asked
  BY <1>2 DEF CallRecords
<1> HIDE DEF d
<1>4. NotStranded(r, d)
  BY <1>2, <1>3 DEF NotStranded, Retryable
<1> QED BY <1>4, EndIsFine DEF NoRoute, d

LEMMA OverKeeps == ASSUME RoutesInv, NEW r \in Requests, Answered(r) \/ Cancel(r) PROVE RoutesInv'
BY EndIsFine DEF Answered, Cancel

LEMMA ResolvedIsProvider ==
    ASSUME NEW r \in Requests, call[r] \in CallRecords, NEW p \in ResolvedTo(r)
    PROVE  p \in Providers /\ (call[r].target # AUTO => p = call[r].target)
<1>1. CASE call[r].target # AUTO
  BY <1>1 DEF ResolvedTo, CallRecords
<1>2. CASE call[r].target = AUTO
  <2>1. p = Gateway \/ p \in ToSet(Order)
    BY <1>2 DEF ResolvedTo, BestProviders
  <2> QED BY <1>2, <2>1 DEF Providers
<1> QED BY <1>1, <1>2

LEMMA ModelHasName ==
    ASSUME NEW r \in Requests, NEW p \in Providers, NEW m \in ModelsFor(r, p)
    PROVE  m \in ModelNames
BY DEF ModelsFor, ModelNames

LEMMA AskKeeps == ASSUME RoutesInv, NEW r \in Requests, Ask(r) PROVE RoutesInv'
<1>1. PICK p \in ResolvedTo(r) : \E m \in ModelsFor(r, p) : call' = [call EXCEPT ![r] = Sent(call[r], p, m)]
  BY DEF Ask
<1>2. PICK m \in ModelsFor(r, p) : call' = [call EXCEPT ![r] = Sent(call[r], p, m)]
  BY <1>1
<1> DEFINE o == call[r]
           k == IF p # Nim THEN 0 ELSE IF o.override THEN o.key ELSE nimKey
           c == Sent(o, p, m)
<1>3. o \in CallRecords /\ o.pc = "resolve" /\ OnRoute(o) /\ OnKeys(o) /\ nimKey \in NimKeys
  BY DEF RoutesInv, Fine, Ask
<1>4. p \in Providers /\ (o.target # AUTO => p = o.target) /\ m \in ModelNames
  BY <1>3, ResolvedIsProvider, ModelHasName
<1>5. 0 \in NimKeys /\ k \in NimKeys
  BY <1>3, NewCallIsFine DEF CallRecords
<1>6. call' = [call EXCEPT ![r] = c]
  BY <1>2
<1>7. /\ c.pc = "wait" /\ c.provider = p /\ c.asked = o.asked \cup {p} /\ c.key = k /\ c.error = "none"
      /\ c.target = o.target /\ c.keys = o.keys /\ c.override = o.override /\ c.left = o.left /\ c.inFallback = o.inFallback
  BY <1>3 DEF CallRecords, Sent
<1> HIDE DEF k
<1>8. c \in CallRecords
  BY <1>3, <1>4, <1>5 DEF CallRecords, Underway, Sent, k
<1> HIDE DEF c, o
<1>9. OnRoute(c)
  BY <1>3, <1>4, <1>7 DEF OnRoute, Underway
<1>10. OnKeys(c)
  <2>1. CASE o.override
    <3>1. o.target = Nim /\ o.target # AUTO
      BY <1>3, <2>1 DEF OnKeys
    <3>2. p = Nim /\ k = o.key
      BY <1>4, <2>1, <3>1 DEF k, o
    <3> QED BY <1>3, <1>7, <2>1, <3>2 DEF OnKeys
  <2>2. CASE ~o.override
    BY <1>3, <1>5, <1>7, <2>2, FirstArc DEF OnKeys
  <2> QED BY <2>1, <2>2
<1>11. NotStranded(r, c)
  BY <1>7 DEF NotStranded
<1>12. nimKey' \in NimKeys
  BY <1>3 DEF Ask
<1> QED BY <1>6, <1>8, <1>9, <1>10, <1>11, <1>12, OneCall DEF Fine

\* The call is answered in part, fails or is recorded as failed.
LEMMA UnderwayKeeps ==
    ASSUME RoutesInv, NEW r \in Requests, StreamBegins(r) \/ NoAnswer(r) \/ Breaks(r) \/ RecordOutcome(r)
    PROVE  RoutesInv'
<1> DEFINE o == call[r]
<1>1. o \in CallRecords /\ OnRoute(o) /\ OnKeys(o) /\ nimKey \in NimKeys /\ o.provider \in Providers
  BY DEF RoutesInv, Fine, CallRecords
<1>2. o.pc \in Underway /\ UNCHANGED nimKey
  BY DEF StreamBegins, NoAnswer, Breaks, RecordOutcome, Underway
<1>3. ASSUME NEW at \in Underway, NEW error \in {"none", "quota", "credit", "server", "denied", "context"},
             NEW started \in BOOLEAN, call' = [call EXCEPT ![r] = [o EXCEPT !.pc = at, !.error = error, !.started = started]]
      PROVE  RoutesInv'
  <2> DEFINE c == [o EXCEPT !.pc = at, !.error = error, !.started = started]
  <2>1. c \in CallRecords
    BY <1>1, <1>3 DEF CallRecords
  <2>2. /\ c.pc = at /\ c.provider = o.provider /\ c.asked = o.asked /\ c.key = o.key
        /\ c.target = o.target /\ c.keys = o.keys /\ c.override = o.override /\ c.left = o.left /\ c.inFallback = o.inFallback
    BY <1>1 DEF CallRecords
  <2>3. call' = [call EXCEPT ![r] = c]
    BY <1>3
  <2> HIDE DEF c
  <2>4. OnRoute(c)
    BY <1>1, <1>2, <1>3, <2>2 DEF OnRoute, Underway
  <2>5. OnKeys(c)
    BY <1>1, <1>2, <2>2 DEF OnKeys
  <2>6. NotStranded(r, c)
    BY <1>3, <2>2 DEF NotStranded, Underway
  <2> QED BY <1>1, <1>2, <2>1, <2>3, <2>4, <2>5, <2>6, OneCall DEF Fine
<1>4. \E at \in Underway, error \in {"none", "quota", "credit", "server", "denied", "context"}, started \in BOOLEAN :
        call' = [call EXCEPT ![r] = [o EXCEPT !.pc = at, !.error = error, !.started = started]]
  <2>1. CASE StreamBegins(r)
    <3>1. call' = [call EXCEPT ![r] = [o EXCEPT !.pc = "stream", !.error = o.error, !.started = TRUE]]
      BY <1>1, <2>1 DEF StreamBegins, CallRecords
    <3> QED BY <1>1, <3>1 DEF Underway, CallRecords
  <2>2. CASE NoAnswer(r)
    <3>1. call' = [call EXCEPT ![r] = [o EXCEPT !.pc = "failed", !.error = "server", !.started = o.started]]
      BY <1>1, <2>2 DEF NoAnswer, Fails, CallRecords
    <3> QED BY <1>1, <3>1 DEF Underway, CallRecords
  <2>3. CASE Breaks(r)
    <3>1. PICK e \in Faults[o.provider] : Fails(r, e)
      BY <2>3 DEF Breaks
    <3>2. e \in {"quota", "credit", "server", "denied", "context"}
      BY <1>1, <3>1, RoutesAssumption
    <3>3. call' = [call EXCEPT ![r] = [o EXCEPT !.pc = "failed", !.error = e, !.started = o.started]]
      BY <1>1, <3>1 DEF Fails, CallRecords
    <3> QED BY <1>1, <3>2, <3>3 DEF Underway, CallRecords
  <2>4. CASE RecordOutcome(r)
    <3>1. call' = [call EXCEPT ![r] = [o EXCEPT !.pc = "recorded", !.error = o.error, !.started = o.started]]
      BY <1>1, <2>4 DEF RecordOutcome, GoesOn, CallRecords
    <3> QED BY <1>1, <3>1 DEF Underway, CallRecords
  <2> QED BY <2>1, <2>2, <2>3, <2>4
<1> QED BY <1>3, <1>4

LEMMA SmallerContextKeeps == ASSUME RoutesInv, NEW r \in Requests, RetryWithSmallerContext(r) PROVE RoutesInv'
<1> DEFINE o == call[r]
           c == [o EXCEPT !.pc = "resolve", !.retried = TRUE]
<1>1. o \in CallRecords /\ OnRoute(o) /\ OnKeys(o) /\ nimKey' \in NimKeys /\ o.pc = "failed" /\ o.error = "context"
  BY DEF RoutesInv, Fine, RetryWithSmallerContext, ContextRetry
<1>2. call' = [call EXCEPT ![r] = c]
  BY <1>1 DEF RetryWithSmallerContext, CallRecords
<1>3. c \in CallRecords
  BY <1>1 DEF CallRecords
<1>4. /\ c.pc = "resolve" /\ c.asked = o.asked /\ c.key = o.key /\ c.error = "context"
      /\ c.target = o.target /\ c.keys = o.keys /\ c.override = o.override /\ c.left = o.left /\ c.inFallback = o.inFallback
  BY <1>1 DEF CallRecords
<1> HIDE DEF c
<1>5. OnRoute(c)
  BY <1>1, <1>4 DEF OnRoute, Underway
<1>6. OnKeys(c)
  BY <1>1, <1>4 DEF OnKeys, Underway
<1>7. NotStranded(r, c)
  BY <1>4 DEF NotStranded
<1> QED BY <1>1, <1>2, <1>3, <1>5, <1>6, <1>7, OneCall DEF Fine

\* The call goes back to the provider that failed it, by name.
LEMMA RotateKeyKeeps == ASSUME RoutesInv, NEW r \in Requests, RotateKey(r) PROVE RoutesInv'
<1> DEFINE o == call[r]
           c == [o EXCEPT !.pc = "resolve", !.target = Nim, !.keys = TriedKeys(r),
                          !.key = NextKey(r), !.override = TRUE, !.retried = FALSE]
<1>1. o \in CallRecords /\ OnRoute(o) /\ OnKeys(o) /\ o.pc = "failed" /\ o.provider = Nim
  BY DEF RoutesInv, Fine, RotateKey, RotatesKey
<1>2. Nim \in Providers /\ Nim # AUTO /\ o.key \in NimKeys /\ o.keys \subseteq NimKeys
  BY <1>1, RoutesAssumption DEF CallRecords
<1>3. PICK s \in NimKeys : o.keys \cup {o.key} = Arc(s, o.key)
  BY <1>1 DEF OnKeys
<1>4. TriedKeys(r) = Arc(s, o.key) /\ NextKey(r) = (o.key + 1) % NumKeys /\ Cardinality(Arc(s, o.key)) < NumKeys
  BY <1>3 DEF RotateKey, RotatesKey, TriedKeys, NextKey
<1>5. NextKey(r) \in NimKeys /\ NextKey(r) \notin TriedKeys(r) /\ TriedKeys(r) \cup {NextKey(r)} = Arc(s, NextKey(r))
  BY <1>2, <1>4, NextOfArc
<1>6. TriedKeys(r) \subseteq NimKeys
  BY <1>2 DEF TriedKeys
<1>7. call' = [call EXCEPT ![r] = c] /\ nimKey' = NextKey(r)
  BY DEF RotateKey
<1>8. c \in CallRecords
  BY <1>1, <1>2, <1>5, <1>6 DEF CallRecords
<1>9. /\ c.pc = "resolve" /\ c.asked = o.asked /\ c.key = NextKey(r) /\ c.provider = o.provider
      /\ c.target = Nim /\ c.keys = TriedKeys(r) /\ c.override = TRUE /\ c.left = o.left /\ c.inFallback = o.inFallback
  BY <1>1 DEF CallRecords
<1> HIDE DEF c
<1>10. OnRoute(c)
  BY <1>1, <1>2, <1>9 DEF OnRoute, Underway
<1>11. OnKeys(c)
  BY <1>2, <1>5, <1>9 DEF OnKeys, Underway
<1>12. NotStranded(r, c)
  BY <1>9 DEF NotStranded
<1> QED BY <1>5, <1>7, <1>8, <1>10, <1>11, <1>12, OneCall DEF Fine

LEMMA RotateModelKeeps == ASSUME RoutesInv, NEW r \in Requests, RotateModel(r) PROVE RoutesInv'
<1> DEFINE o == call[r]
           c == [o EXCEPT !.pc = "resolve", !.target = OpenRouter, !.retried = FALSE]
<1>1. o \in CallRecords /\ OnRoute(o) /\ OnKeys(o) /\ nimKey' \in NimKeys /\ o.pc = "recorded" /\ o.provider = OpenRouter
  BY DEF RoutesInv, Fine, RotateModel, RotatesModel
<1>2. OpenRouter \in Providers /\ OpenRouter # AUTO
  BY <1>1, RoutesAssumption DEF CallRecords
<1>3. call' = [call EXCEPT ![r] = c]
  BY <1>1 DEF RotateModel, CallRecords
<1>4. c \in CallRecords
  BY <1>1, <1>2 DEF CallRecords
<1>5. /\ c.pc = "resolve" /\ c.asked = o.asked /\ c.key = o.key
      /\ c.target = OpenRouter /\ c.keys = o.keys /\ c.override = o.override /\ c.left = o.left /\ c.inFallback = o.inFallback
  BY <1>1 DEF CallRecords
<1> HIDE DEF c
<1>6. OnRoute(c)
  BY <1>1, <1>2, <1>5 DEF OnRoute, Underway
<1>7. OnKeys(c)
  BY <1>1, <1>2, <1>5 DEF OnKeys, Underway
<1>8. NotStranded(r, c)
  BY <1>5 DEF NotStranded
<1> QED BY <1>1, <1>3, <1>4, <1>6, <1>7, <1>8, OneCall DEF Fine

\* The fallback loop asks the next of the candidates, or ends with the last.
LEMMA AskNextKeeps ==
    ASSUME RoutesInv, NEW r \in Requests, call[r].pc = "recorded", NEW candidates \in Seq(Providers),
           ToSet(Order) \subseteq call[r].asked \cup ToSet(candidates), AskNext(r, candidates), UNCHANGED nimKey
    PROVE  RoutesInv'
<1> DEFINE o == call[r]
<1>1. o \in CallRecords /\ nimKey' \in NimKeys
  BY DEF RoutesInv, Fine
<1>2. CASE candidates = <<>>
  <2>1. ToSet(candidates) = {}
    BY <1>2 DEF ToSet
  <2>2. Ends(r, "error")
    BY <1>2 DEF AskNext
  <2> DEFINE d == [o EXCEPT !.pc = "error"]
  <2>3. d.asked = o.asked
    BY <1>1 DEF CallRecords
  <2> HIDE DEF d
  <2>4. NotStranded(r, d)
    BY <2>1, <2>3 DEF NotStranded
  <2> QED BY <2>2, <2>4, EndIsFine DEF d
<1>3. CASE candidates # <<>>
  <2> DEFINE c == [o EXCEPT !.pc = "resolve", !.target = Head(candidates), !.left = Tail(candidates),
                            !.inFallback = TRUE, !.keys = {}, !.models = {}, !.key = 0,
                            !.override = FALSE, !.retried = FALSE]
  <2>1. Head(candidates) \in Providers /\ Tail(candidates) \in Seq(Providers)
        /\ ToSet(candidates) = {Head(candidates)} \cup ToSet(Tail(candidates))
    BY <1>3, SetOfTail
  <2>2. call' = [call EXCEPT ![r] = c]
    BY <1>3 DEF AskNext
  <2>3. 0 \in NimKeys
    BY NewCallIsFine
  <2>4. c \in CallRecords
    BY <1>1, <2>1, <2>3 DEF CallRecords
  <2>5. /\ c.pc = "resolve" /\ c.asked = o.asked /\ c.key = 0 /\ c.target = Head(candidates) /\ c.keys = {}
        /\ c.override = FALSE /\ c.left = Tail(candidates) /\ c.inFallback = TRUE
    BY <1>1 DEF CallRecords
  <2> HIDE DEF c
  <2>6. OnRoute(c)
    BY <2>1, <2>5, RoutesAssumption DEF OnRoute, Underway
  <2>7. OnKeys(c)
    BY <2>3, <2>5, FirstArc DEF OnKeys
  <2>8. NotStranded(r, c)
    BY <2>5 DEF NotStranded
  <2> QED BY <1>1, <2>2, <2>4, <2>6, <2>7, <2>8, OneCall DEF Fine
<1> QED BY <1>2, <1>3

LEMMA FallBackKeeps == ASSUME RoutesInv, NEW r \in Requests, FallBack(r) PROVE RoutesInv'
<1> DEFINE o == call[r]
<1>1. o \in CallRecords /\ OnRoute(o) /\ o.pc = "recorded" /\ UNCHANGED nimKey
  BY DEF RoutesInv, Fine, FallBack
<1>2. o.left \in Seq(Providers) /\ o.provider \in Providers /\ o.provider \in o.asked
  BY <1>1 DEF CallRecords, OnRoute, Underway
<1>3. CASE o.inFallback
  BY <1>1, <1>2, <1>3, AskNextKeeps DEF FallBack, OnRoute, Underway
<1>4. CASE ~o.inFallback /\ MayFallBack(r)
  <2>1. AskNext(r, FallbackCandidates(o.provider))
    BY <1>4 DEF FallBack
  <2> QED BY <1>1, <1>2, <2>1, CandidatesAreAllOthers, AskNextKeeps
<1>5. CASE ~o.inFallback /\ ~MayFallBack(r)
  <2> DEFINE d == [o EXCEPT !.pc = "error"]
  <2>1. d.error = o.error /\ d.inFallback = o.inFallback
    BY <1>1 DEF CallRecords
  <2> HIDE DEF d
  <2>2. NotStranded(r, d)
    BY <1>5, <2>1 DEF NotStranded, MayFallBack
  <2>3. Ends(r, "error")
    BY <1>5 DEF FallBack
  <2> QED BY <1>1, <2>2, <2>3, EndIsFine DEF d
<1> QED BY <1>3, <1>4, <1>5

LEMMA StepRoutesInv == RoutesInv /\ [RoutesNext]_routesVars => RoutesInv'
<1> SUFFICES ASSUME RoutesInv, [RoutesNext]_routesVars PROVE RoutesInv'
  OBVIOUS
<1>1. ASSUME NEW r \in Requests, Step(r) \/ Cancel(r) PROVE RoutesInv'
  BY <1>1, NoRouteKeeps, OverKeeps, AskKeeps, UnderwayKeeps, SmallerContextKeeps, RotateKeyKeeps,
     RotateModelKeeps, FallBackKeeps
     DEF Step
<1>2. CASE Tick \/ UNCHANGED routesVars
  <2>1. UNCHANGED <<call, nimKey>>
    BY <1>2 DEF Tick, routesVars
  <2> QED BY <2>1 DEF RoutesInv, Fine, OnRoute, OnKeys, NotStranded
<1> QED BY <1>1, <1>2 DEF RoutesNext

LEMMA RoutesInvariance == RoutesSpec => []RoutesInv
BY InitRoutesInv, StepRoutesInv, PTL DEF RoutesSpec

(* A request that may fall back and was sent at all fails with a retryable *)
(* error only after every provider of the routing order was asked, for any *)
(* order, pools, keys and concurrent requests (chat_completion's fallback  *)
(* loop with include_cooling).                                             *)
THEOREM NoRouteIsStranded == RoutesSpec => []NoRouteStranded
<1>1. RoutesInv => NoRouteStranded
  BY DEF RoutesInv, Fine, NotStranded, NoRouteStranded
<1> QED BY <1>1, RoutesInvariance, PTL

LEMMA OthersStay ==
    ASSUME RoutesInv, NEW q \in Requests, Step(q) \/ Cancel(q), NEW r \in Requests \ {q}
    PROVE  call'[r] = call[r]
<1>1. \A c : [call EXCEPT ![q] = c][r] = call[r]
  BY DEF RoutesInv
<1>2. CASE NoRoute(q) \/ Answered(q) \/ Cancel(q)
  BY <1>1, <1>2 DEF NoRoute, Answered, Cancel, Ends
<1>3. CASE Ask(q)
  BY <1>1, <1>3 DEF Ask
<1>4. CASE StreamBegins(q) \/ NoAnswer(q) \/ Breaks(q) \/ RecordOutcome(q)
  BY <1>4 DEF StreamBegins, NoAnswer, Breaks, RecordOutcome, Fails, GoesOn, RoutesInv
<1>5. CASE RetryWithSmallerContext(q) \/ RotateModel(q)
  BY <1>5 DEF RetryWithSmallerContext, RotateModel, RoutesInv
<1>6. CASE RotateKey(q)
  BY <1>1, <1>6 DEF RotateKey
<1>7. CASE FallBack(q)
  <2>1. \A candidates : AskNext(q, candidates) => call'[r] = call[r]
    BY <1>1 DEF AskNext, Ends
  <2>2. Ends(q, "error") => call'[r] = call[r]
    BY <1>1 DEF Ends
  <2> QED BY <1>7, <2>1, <2>2 DEF FallBack
<1> QED BY <1>2, <1>3, <1>4, <1>5, <1>6, <1>7 DEF Step

LEMMA OnlyAskAsks ==
    ASSUME RoutesInv, NEW r \in Requests, Step(r) \/ Cancel(r), call[r].pc = "resolve", call'[r].pc = "wait"
    PROVE  Ask(r)
<1>1. ~NoRoute(r)
  <2>1. Ends(r, "error") => call'[r].pc = "error"
    BY DEF Ends, NewCall, RoutesInv
  <2> QED BY <2>1 DEF NoRoute
<1> QED BY <1>1 DEF Step, Cancel, StreamBegins, Answered, NoAnswer, Breaks, RetryWithSmallerContext, RotateKey,
                     RecordOutcome, RotateModel, FallBack

(* A rotation of NIM's keys asks a key that has not failed for this call   *)
(* yet, though other requests move the manager's current key meanwhile     *)
(* (_nim_key_index, _nim_tried_keys), for any number of keys.              *)
THEOREM RotationIsAlwaysFresh == RoutesSpec => RotationIsFresh
<1>1. ASSUME RoutesInv, [RoutesNext]_routesVars, NEW r \in Requests,
             call[r].pc = "resolve", call'[r].pc = "wait", call'[r].provider = Nim
      PROVE  call'[r].key \notin call[r].keys
  <2>1. call[r] \in CallRecords /\ OnKeys(call[r]) /\ DOMAIN call = Requests
    BY <1>1 DEF RoutesInv, Fine
  <2>2. PICK q \in Requests : Step(q) \/ Cancel(q)
    BY <1>1 DEF RoutesNext, Tick, routesVars
  <2>3. q = r
    BY <1>1, <2>2, OthersStay
  <2>4. PICK p, m : call' = [call EXCEPT ![r] = Sent(call[r], p, m)]
    BY <1>1, <2>2, <2>3, OnlyAskAsks DEF Ask
  <2>5. call'[r] = Sent(call[r], p, m)
    BY <2>1, <2>4
  <2>6. call'[r].provider = p /\ call'[r].key = IF p # Nim THEN 0 ELSE IF call[r].override THEN call[r].key ELSE nimKey
    BY <2>1, <2>5 DEF Sent, CallRecords
  <2> QED BY <1>1, <2>1, <2>6 DEF OnKeys
<1>2. RoutesInv /\ [RoutesNext]_routesVars =>
        [\A r \in Requests :
           (call[r].pc = "resolve" /\ call'[r].pc = "wait" /\ call'[r].provider = Nim)
              => call'[r].key \notin call[r].keys]_routesVars
  BY <1>1
<1> QED BY <1>2, RoutesInvariance, PTL DEF RoutesSpec, RotationIsFresh
=============================================================================
