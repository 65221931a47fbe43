----------------------------- MODULE SessionStore -----------------------------
(***************************************************************************)
(* The session rows that every tamfis-code process keeps in state.json     *)
(* (state.py).  An operation reads a row, changes its copy, and hands the  *)
(* copy to put_session_state: only the last part holds the lock, and there *)
(* the copy is merged into whatever the row has become.  Queued            *)
(* instructions and saved plans are merged one by one, every other field   *)
(* of the row is the writer's.                                             *)
(*                                                                         *)
(* The row is cut down to the fields that operations of different          *)
(* processes meet in.  Left out: a store that cannot be written, rows      *)
(* dropped for three weeks without use, and the wording of objectives that *)
(* decides whether a launch may reuse a row.                               *)
(***************************************************************************)
EXTENDS Naturals, FiniteSets

CONSTANTS
    Procs,          \* processes that share the store
    Nobody,         \* owner of a row that nobody runs
    MaxSessions,    \* bound: session ids
    MaxItems,       \* bound: instructions and plans created
    Priority,       \* priority of an instruction, smaller is more urgent
    MaxEvent,       \* bound: event ids of the remote stream
    MaxQueue,       \* MAX_QUEUED_INSTRUCTIONS
    MaxPlans        \* MAX_SAVED_PLANS

Sessions == 1 .. MaxSessions
Items    == 1 .. MaxItems       \* instructions and plans, in the order of created_at

ASSUME StoreAssumption ==
    /\ Nobody \notin Procs
    /\ MaxSessions \in Nat \ {0} /\ MaxItems \in Nat /\ MaxEvent \in Nat
    /\ MaxQueue \in Nat \ {0} /\ MaxPlans \in Nat \ {0}
    /\ Priority \in [Items -> Nat]

Status == {"queued", "taken"}       \* taken: running, completed, failed or removed

(* queue: instructions and their status; plans: the saved plans; event:    *)
(* last_event_id; runner: owner_pid of a row that is running.              *)
Rows == [queue : UNION {[d -> Status] : d \in SUBSET Items}, plans : SUBSET Items,
         event : 0 .. MaxEvent, runner : Procs \cup {Nobody}]

Blank == [queue |-> [i \in {} |-> "queued"], plans |-> {}, event |-> 0,
          runner |-> Nobody]

VARIABLES
    known,      \* ids that have a row in state.json
    disk,       \* the rows, blank where there is none
    alive,      \* processes that run
    at,         \* session a process works in (0: none)
    work,       \* the operation a process has read its row for, or Idle
    items,      \* instructions and plans created so far
    minted,     \* history: the fresh id a running process was given, until it is cleared
    asked,      \* history: instructions queued for a session since it was wiped
    planned     \* history: plans saved for a session since it was wiped

history == <<minted, asked, planned>>
store   == <<known, disk>>
vars    == <<store, alive, at, work, items, history>>

FreshId == CHOOSE s \in 1 .. MaxSessions + 1 :
               (\A t \in known : t < s) /\ (s = 1 \/ s - 1 \in known)

Idle == [sid |-> 0]

\* is_session_actively_running: a dead owner may look alive for two minutes
Running(s) == disk[s].runner \in alive

Init ==
    /\ known = {} /\ disk = [s \in Sessions |-> Blank]
    /\ alive = {} /\ at = [p \in Procs |-> 0] /\ work = [p \in Procs |-> Idle]
    /\ items = 0
    /\ minted = [p \in Procs |-> 0]
    /\ asked = [s \in Sessions |-> {}] /\ planned = [s \in Sessions |-> {}]

Over(f, g) == [x \in DOMAIN f \cup DOMAIN g |-> IF x \in DOMAIN f THEN f[x] ELSE g[x]]

\* Sorted by priority and age, by age: the tail of the list is kept.
Behind(i, j) == Priority[i] > Priority[j] \/ (Priority[i] = Priority[j] /\ i > j)
TailOfQueue(ids) == {i \in ids : Cardinality({j \in ids : Behind(j, i)}) < MaxQueue}
TailOfPlans(ids) == {n \in ids : Cardinality({m \in ids : m > n}) < MaxPlans}

\* asks, saves: what is new in the copy
Jobs == [sid : Sessions, row : Rows, asks : SUBSET Items, saves : SUBSET Items, moves : BOOLEAN]

Job(s, row) == [sid |-> s, row |-> row, asks |-> {}, saves |-> {}, moves |-> FALSE]

-----------------------------------------------------------------------------
(* Launching.  Everything here happens under the lock.                     *)

Enter(p, s) ==
    /\ alive' = alive \cup {p}
    /\ at' = [at EXCEPT ![p] = s]
    /\ UNCHANGED <<work, items, asked, planned>>

Reserve_Mutant(p) ==        \* the id is computed, the row written later
    /\ FreshId \in Sessions
    /\ UNCHANGED store
    /\ minted' = [minted EXCEPT ![p] = FreshId]

Reserve(p) ==
    /\ FreshId \in Sessions
    /\ known' = known \cup {FreshId} /\ disk' = [disk EXCEPT ![FreshId] = Blank]
    /\ minted' = [minted EXCEPT ![p] = FreshId]

Launch(p) ==
    /\ p \notin alive
    /\ Reserve(p)
    /\ Enter(p, FreshId)

(* A launch in the workspace reuses a row that is not running; one that    *)
(* names the session, and the queue command, take it as it is.             *)
Reuse(p) ==
    /\ p \notin alive
    /\ \E s \in known : Enter(p, s)
    /\ UNCHANGED <<store, minted>>

Stop(p) ==
    /\ p \in alive
    /\ alive' = alive \ {p}
    /\ at' = [at EXCEPT ![p] = 0] /\ work' = [work EXCEPT ![p] = Idle]
    /\ minted' = [minted EXCEPT ![p] = 0]
    /\ UNCHANGED <<store, items, asked, planned>>

-----------------------------------------------------------------------------
(* The part of an operation before the lock: read the row and change the   *)
(* copy.                                                                   *)

CanBegin(p) == p \in alive /\ work[p] = Idle

Begin(p, job) ==
    /\ work' = [work EXCEPT ![p] = job]
    /\ UNCHANGED <<store, alive, at, history>>

EnqueueInstruction(p) ==
    /\ CanBegin(p) /\ items < MaxItems
    /\ items' = items + 1
    /\ LET row == disk[at[p]] IN
       Begin(p, [Job(at[p], [row EXCEPT !.queue = Over(@, [i \in {items + 1} |-> "queued"])])
                 EXCEPT !.asks = {items + 1}])

\* Taken, or edited: an edit leaves the status as it was read.
UpdateInstruction(p) ==
    /\ CanBegin(p)
    /\ LET row == disk[at[p]] IN
       \E i \in DOMAIN row.queue :
       \E status \in {row.queue[i], "taken"} :
          Begin(p, Job(at[p], [row EXCEPT !.queue[i] = status]))
    /\ UNCHANGED items

SavePlan(p) ==
    /\ CanBegin(p) /\ items < MaxItems
    /\ items' = items + 1
    /\ LET row == disk[at[p]] IN
       Begin(p, [Job(at[p], [row EXCEPT !.plans = TailOfPlans(@ \cup {items + 1})])
                 EXCEPT !.saves = {items + 1}])

\* The event cursor moves forward from where it was read.
SaveEvent(p) ==
    /\ CanBegin(p)
    /\ LET row == disk[at[p]] IN
       \E e \in 0 .. MaxEvent :
          Begin(p, Job(at[p], [row EXCEPT !.event = IF e > @ THEN e ELSE @]))
    /\ UNCHANGED items

\* A turn begins, passes a phase or ends; or the row is saved for another reason.
SaveLifecycle(p) ==
    /\ CanBegin(p)
    /\ LET row == disk[at[p]] IN
       \E r \in {p, Nobody, row.runner} : Begin(p, Job(at[p], [row EXCEPT !.runner = r]))
    /\ UNCHANGED items

\* The row of a dead process is marked before it is replaced.
Supersede(p) ==
    /\ CanBegin(p)
    /\ \E s \in known :
          /\ disk[s].runner # Nobody /\ ~Running(s)
          /\ Begin(p, Job(s, [disk[s] EXCEPT !.runner = Nobody]))
    /\ UNCHANGED items

\* A branch takes the next id without the lock and without reserving it.
Fork(p) ==
    /\ CanBegin(p) /\ at[p] \in known /\ FreshId \in Sessions
    /\ Begin(p, [Job(FreshId, [disk[at[p]] EXCEPT !.queue = Blank.queue, !.event = 0,
                                                  !.runner = Nobody])
                 EXCEPT !.moves = TRUE])
    /\ UNCHANGED items

-----------------------------------------------------------------------------
(* put_session_state: merge, cap and write under the lock.                 *)

Capped(q)        == [i \in TailOfQueue(DOMAIN q) |-> q[i]]

MergedQueue_Mutant(mine, latest) == Capped(mine)       \* the last writer wins
MergedQueue(mine, latest)        == Capped(Over(mine, latest))

MergedPlans(mine, latest)        == TailOfPlans(mine \cup latest)

Merged(mine, latest) ==
    [mine EXCEPT !.queue = MergedQueue(mine.queue, latest.queue),
                 !.plans = MergedPlans(mine.plans, latest.plans)]

Put(p) ==
    /\ p \in alive /\ work[p] # Idle
    /\ LET job == work[p] IN
       /\ known' = known \cup {job.sid}
       /\ disk' = [disk EXCEPT ![job.sid] = Merged(job.row, @)]
       /\ at' = IF job.moves THEN [at EXCEPT ![p] = job.sid] ELSE at
       /\ asked' = [asked EXCEPT ![job.sid] = @ \cup job.asks]
       /\ planned' = [planned EXCEPT ![job.sid] = @ \cup job.saves]
    /\ work' = [work EXCEPT ![p] = Idle]
    /\ UNCHANGED <<alive, items, minted>>

-----------------------------------------------------------------------------
(* Operations that hold the lock from reading to writing.                  *)

Wipe(s) ==
    /\ asked' = [asked EXCEPT ![s] = {}] /\ planned' = [planned EXCEPT ![s] = {}]
    /\ UNCHANGED <<alive, at, work, items>>

ResetTaskState(p) ==
    /\ CanBegin(p) /\ at[p] \in known
    /\ disk' = [disk EXCEPT ![at[p]] = [@ EXCEPT !.queue = Blank.queue, !.plans = {}]]
    /\ Wipe(at[p]) /\ UNCHANGED <<known, minted>>

\* clear-session, forced or for a row that nobody runs.
ClearSession(p) ==
    /\ CanBegin(p)
    /\ \E s \in known :
          /\ known' = known \ {s} /\ disk' = [disk EXCEPT ![s] = Blank]
          /\ minted' = [q \in Procs |-> IF minted[q] = s THEN 0 ELSE minted[q]]
          /\ Wipe(s)

Next == \E p \in Procs :
    \/ Launch(p) \/ Reuse(p) \/ Stop(p)
    \/ EnqueueInstruction(p) \/ UpdateInstruction(p) \/ SavePlan(p)
    \/ SaveEvent(p) \/ SaveLifecycle(p) \/ Supersede(p) \/ Fork(p)
    \/ Put(p)
    \/ ResetTaskState(p) \/ ClearSession(p)

Spec == Init /\ [][Next]_vars

-----------------------------------------------------------------------------
TypeOK ==
    /\ known \subseteq Sessions /\ disk \in [Sessions -> Rows]
    /\ \A s \in Sessions : /\ Cardinality(DOMAIN disk[s].queue) <= MaxQueue
                           /\ Cardinality(disk[s].plans) <= MaxPlans
    /\ alive \subseteq Procs /\ at \in [Procs -> Sessions \cup {0}]
    /\ work \in [Procs -> Jobs \cup {Idle}]
    /\ items \in 0 .. MaxItems
    /\ minted \in [Procs -> Sessions \cup {0}]
    /\ asked \in [Sessions -> SUBSET Items] /\ planned \in [Sessions -> SUBSET Items]

(* "Merge by id so the cursor write cannot erase that newly queued user    *)
(* input": an instruction that was queued stays in its row, whoever saves  *)
(* the row meanwhile, until MaxQueue others are behind it in the order of  *)
(* the queue.                                                              *)
QueuedIsNotLost ==
    \A s \in Sessions : \A i \in asked[s] :
        \/ i \in DOMAIN disk[s].queue
        \/ Cardinality({j \in DOMAIN disk[s].queue : Behind(j, i)}) >= MaxQueue

(* "Preserve plans by id as well": a saved plan gives way only to MaxPlans *)
(* newer ones, in whatever order stale copies of the row are written.      *)
PlansGiveWayToNewer ==
    \A s \in Sessions : \A n \in planned[s] :
        \/ n \in disk[s].plans
        \/ Cardinality({m \in disk[s].plans : m > n}) >= MaxPlans

\* Neither is undone by the save of a stale copy.
SavedIsNotLost == QueuedIsNotLost /\ PlansGiveWayToNewer

(* Two running processes that were given a fresh id were given different   *)
(* ones: the row is reserved before the lock is released.  Only an id that *)
(* was cleared meanwhile is given again.                                   *)
FreshIdsDiffer ==
    \A p, q \in Procs : p # q /\ minted[p] = minted[q] => minted[p] = 0

-----------------------------------------------------------------------------
(* What a comment of the code says and the code does not do.               *)

(* "Sequence ids only ever move forward for a given session": not when the *)
(* copy was read before another process saved a later one.                 *)
CursorMovesForward ==
    [][\A s \in known \cap known' : disk'[s].event >= disk[s].event]_vars
=============================================================================
