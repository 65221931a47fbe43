------------------------- MODULE InstructionProofs --------------------------
(***************************************************************************)
(* Theorems about instructions and the rows that keep them: module         *)
(* SessionStore, for any processes, sessions, items and bounds of the two  *)
(* lists, and module TypedInput, for any number of lines, gates, stops and *)
(* interrupts.                                                             *)
(***************************************************************************)
EXTENDS SessionStore, TypedInput, FiniteSetTheorems, TLAPS

-----------------------------------------------------------------------------
(* SessionStore.                                                           *)

Queues == UNION {[d -> Status] : d \in SUBSET Items}

(* The orders in which the two lists are cut: who is above another pushes   *)
(* it out.                                                                 *)
Above(R, ids, i) == {j \in ids : <<j, i>> \in R}
LastOf(R, ids, limit) == {i \in ids : Cardinality(Above(R, ids, i)) < limit}

ByPriority == {e \in Items \X Items : Behind(e[1], e[2])}
ByAge      == {e \in Items \X Items : e[1] > e[2]}

\* A list has an item, or a full list of what is above it.
Holds(R, ids, i, limit) == i \in ids \/ Cardinality(Above(R, ids, i)) >= limit

QueueHolds(row, i) == Holds(ByPriority, DOMAIN row.queue, i, MaxQueue)
PlansHold(row, n)  == Holds(ByAge, row.plans, n, MaxPlans)

(* What a process has read and will write holds what is new in it.         *)
CopiesHold ==
    \A p \in Procs : work[p] # Idle =>
        /\ \A i \in work[p].asks  : QueueHolds(work[p].row, i)
        /\ \A n \in work[p].saves : PlansHold(work[p].row, n)

RowsHold ==
    \A s \in Sessions : /\ \A i \in asked[s]   : QueueHolds(disk[s], i)
                        /\ \A n \in planned[s] : PlansHold(disk[s], n)

(* An id without a row has no history, who was given an id has a row, and  *)
(* who runs has a session.                                                 *)
Reserved ==
    /\ \A s \in Sessions \ known : asked[s] = {} /\ planned[s] = {}
    /\ \A p \in Procs : minted[p] # 0 => minted[p] \in known
    /\ \A p \in alive : at[p] # 0

IInv == TypeOK /\ CopiesHold /\ RowsHold /\ Reserved /\ FreshIdsDiffer

-----------------------------------------------------------------------------
(* Lists that keep their tail                                              *)

LEMMA ItemsFinite == ASSUME NEW ids \in SUBSET Items PROVE IsFiniteSet(ids) /\ Cardinality(ids) \in Nat
<1>1. IsFiniteSet(Items)
  BY FS_Interval, StoreAssumption DEF Items
<1>2. IsFiniteSet(ids)
  BY <1>1, FS_Subset
<1> QED BY <1>2, FS_CardinalityType

LEMMA SmallerSubset ==
    ASSUME NEW T \in SUBSET Items, NEW S \in SUBSET T
    PROVE  Cardinality(S) <= Cardinality(T)
BY ItemsFinite, FS_Subset

LEMMA SmallerProperSubset ==
    ASSUME NEW T \in SUBSET Items, NEW S \in SUBSET T, NEW x \in T, x \notin S
    PROVE  Cardinality(S) < Cardinality(T)
<1>1. Cardinality(S) <= Cardinality(T) /\ S # T
  BY SmallerSubset
<1>2. Cardinality(S) # Cardinality(T)
  BY <1>1, ItemsFinite, FS_Subset
<1> QED BY <1>1, <1>2, ItemsFinite

LEMMA LeastCount ==
    ASSUME NEW T, T # {}, NEW f, f \in [T -> Nat]
    PROVE  \E m \in T : \A k \in T : f[m] <= f[k]
<1> DEFINE N == {f[k] : k \in T}
           R == OpToRel(<, Nat)
<1>1. IsWellFoundedOn(R, Nat)
  BY NatLessThanWellFounded
<1>2. \A i, j \in Nat : i < j => <<i, j>> \in R
  BY DEF OpToRel
<1>3. N \subseteq Nat /\ N # {}
  OBVIOUS
<1> HIDE DEF N, R
<1>4. PICK m \in N : \A k \in N : ~ (<<k, m>> \in R)
  BY <1>1, <1>3, WFMin
<1>5. \A k \in N : m <= k
  <2> SUFFICES ASSUME NEW k \in N PROVE m <= k
    OBVIOUS
  <2>1. k \in Nat /\ m \in Nat /\ ~ (k < m)
    BY <1>2, <1>3, <1>4
  <2> QED BY <2>1
<1> QED BY <1>5 DEF N

\* An order in which the items stand; who is above another pushes it out.
Order(R) ==
    /\ R \subseteq Items \X Items
    /\ \A i \in Items : <<i, i>> \notin R
    /\ \A i, j, k \in Items : <<i, j>> \in R /\ <<j, k>> \in R => <<i, k>> \in R
    /\ \A i, j \in Items : i = j \/ <<i, j>> \in R \/ <<j, i>> \in R

LEMMA AboveCounts ==
    ASSUME NEW R, NEW ids \in SUBSET Items, NEW i
    PROVE  Above(R, ids, i) \in SUBSET Items /\ Cardinality(Above(R, ids, i)) \in Nat
BY ItemsFinite DEF Above

LEMMA HigherHasFewerAbove ==
    ASSUME NEW R, Order(R), NEW ids \in SUBSET Items, NEW i \in Items, NEW j \in ids, <<j, i>> \in R
    PROVE  Cardinality(Above(R, ids, j)) < Cardinality(Above(R, ids, i))
<1>1. Above(R, ids, j) \subseteq Above(R, ids, i) /\ j \in Above(R, ids, i) /\ j \notin Above(R, ids, j)
  BY DEF Order, Above
<1> QED BY <1>1, AboveCounts, SmallerProperSubset

(* Of what is above an item, the tail has limit items if the list has.     *)
LEMMA TailPushesOut ==
    ASSUME NEW R, Order(R), NEW ids \in SUBSET Items, NEW limit \in Nat, NEW i \in Items,
           Cardinality(Above(R, ids, i)) >= limit
    PROVE  Cardinality(Above(R, LastOf(R, ids, limit), i)) >= limit
<1> DEFINE many == {k \in Items : Cardinality(Above(R, ids, k)) >= limit}
           count == [k \in many |-> Cardinality(Above(R, ids, k))]
<1>1. i \in many /\ count \in [many -> Nat]
  BY AboveCounts
<1>2. PICK m \in many : \A k \in many : count[m] <= count[k]
  <2> HIDE DEF many, count
  <2> QED BY <1>1, LeastCount
<1>3. \A k \in many : Cardinality(Above(R, ids, m)) <= Cardinality(Above(R, ids, k))
  BY <1>2
<1>4. m \in Items /\ Cardinality(Above(R, ids, m)) >= limit
  OBVIOUS
<1>5. \A j \in Above(R, ids, m) : j \in LastOf(R, ids, limit)
  <2> SUFFICES ASSUME NEW j \in Above(R, ids, m) PROVE j \in LastOf(R, ids, limit)
    OBVIOUS
  <2>1. j \in ids /\ j \in Items /\ <<j, m>> \in R
    BY DEF Above
  <2>2. Cardinality(Above(R, ids, j)) < Cardinality(Above(R, ids, m))
    BY <1>4, <2>1, HigherHasFewerAbove
  <2>3. ~ (Cardinality(Above(R, ids, j)) >= limit)
    <3>1. j \in many => Cardinality(Above(R, ids, m)) <= Cardinality(Above(R, ids, j))
      BY <1>3
    <3>2. j \notin many
      <4> HIDE DEF many, count
      <4> QED BY <2>2, <3>1, AboveCounts
    <3> QED BY <2>1, <3>2
  <2> QED BY <2>1, <2>3, AboveCounts DEF LastOf
<1>6. Above(R, LastOf(R, ids, limit), i) \in SUBSET Items
  BY DEF Above, LastOf
<1>7. CASE i = m \/ <<i, m>> \in R
  <2>1. Above(R, ids, i) \subseteq Above(R, ids, m)
    BY <1>4, <1>7 DEF Order, Above
  <2>2. Above(R, ids, i) \subseteq Above(R, LastOf(R, ids, limit), i)
    BY <1>5, <2>1 DEF Above
  <2> QED BY <1>6, <2>2, SmallerSubset, AboveCounts, ItemsFinite
<1>8. CASE <<m, i>> \in R
  <2>1. Above(R, ids, m) \subseteq Above(R, LastOf(R, ids, limit), i)
    <3> SUFFICES ASSUME NEW j \in Above(R, ids, m) PROVE j \in Above(R, LastOf(R, ids, limit), i)
      OBVIOUS
    <3>1. j \in Items /\ <<j, m>> \in R /\ j \in LastOf(R, ids, limit)
      BY <1>5 DEF Above
    <3>2. <<j, i>> \in R
      BY <1>4, <1>8, <3>1 DEF Order
    <3> QED BY <3>1, <3>2 DEF Above
  <2> QED BY <1>4, <1>6, <2>1, SmallerSubset, AboveCounts, ItemsFinite
<1> QED BY <1>4, <1>7, <1>8 DEF Order

\* A tail is no longer than its limit.
LEMMA TailIsShort ==
    ASSUME NEW R, Order(R), NEW ids \in SUBSET Items, NEW limit \in Nat
    PROVE  Cardinality(LastOf(R, ids, limit)) <= limit
<1> DEFINE T == LastOf(R, ids, limit)
           room == [k \in T |-> limit - Cardinality(Above(R, ids, k))]
<1>1. T \in SUBSET Items /\ T \subseteq ids
  BY DEF LastOf
<1>2. CASE T = {}
  BY <1>2, FS_EmptySet
<1>3. CASE T # {}
  <2>1. room \in [T -> Nat]
    <3> SUFFICES ASSUME NEW k \in T PROVE limit - Cardinality(Above(R, ids, k)) \in Nat
      OBVIOUS
    <3>1. Cardinality(Above(R, ids, k)) < limit
      BY DEF LastOf
    <3> QED BY <3>1, AboveCounts
  <2>2. PICK m \in T : \A k \in T : room[m] <= room[k]
    <3> HIDE DEF T, room
    <3> QED BY <1>3, <2>1, LeastCount
  <2>3. Cardinality(Above(R, ids, m)) < limit
    BY DEF LastOf
  <2>4. \A k \in T : k = m \/ k \in Above(R, ids, m)
    <3> SUFFICES ASSUME NEW k \in T, k # m PROVE k \in Above(R, ids, m)
      OBVIOUS
    <3>1. k \in Items /\ m \in Items /\ k \in ids /\ m \in ids
      BY <1>1
    <3>2. CASE <<m, k>> \in R
      <4>1. Cardinality(Above(R, ids, m)) < Cardinality(Above(R, ids, k))
        BY <3>1, <3>2, HigherHasFewerAbove
      <4>2. limit - Cardinality(Above(R, ids, m)) <= limit - Cardinality(Above(R, ids, k))
        BY <2>2
      <4> QED BY <4>1, <4>2, AboveCounts
    <3> QED BY <3>1, <3>2 DEF Order, Above
  <2>5. T \subseteq Above(R, ids, m) \cup {m}
    BY <2>4
  <2>6. /\ Above(R, ids, m) \cup {m} \in SUBSET Items
        /\ Cardinality(Above(R, ids, m) \cup {m}) <= Cardinality(Above(R, ids, m)) + 1
    BY <1>1, AboveCounts, ItemsFinite, FS_AddElement
  <2>7. Cardinality(T) <= Cardinality(Above(R, ids, m) \cup {m})
    BY <2>5, <2>6, SmallerSubset
  <2> QED BY <1>1, <2>3, <2>6, <2>7, AboveCounts, ItemsFinite
<1> QED BY <1>2, <1>3

\* What is held by a list is held by a longer one, and by its tail.
LEMMA LongerHolds ==
    ASSUME NEW R, NEW more \in SUBSET Items, NEW ids \in SUBSET more, NEW i, NEW limit \in Nat,
           Holds(R, ids, i, limit)
    PROVE  Holds(R, more, i, limit)
<1>1. Above(R, ids, i) \in SUBSET Above(R, more, i)
  BY DEF Above
<1> QED BY <1>1, AboveCounts, SmallerSubset DEF Holds

LEMMA TailHolds ==
    ASSUME NEW R, Order(R), NEW ids \in SUBSET Items, NEW i \in Items, NEW limit \in Nat,
           Holds(R, ids, i, limit)
    PROVE  Holds(R, LastOf(R, ids, limit), i, limit)
<1>1. i \in ids => i \in LastOf(R, ids, limit) \/ Cardinality(Above(R, ids, i)) >= limit
  BY AboveCounts DEF LastOf
<1> QED BY <1>1, TailPushesOut DEF Holds

LEMMA QueueIsOrdered == Order(ByPriority)
<1>1. \A i, j \in Items : <<i, j>> \in ByPriority <=> Behind(i, j)
  BY DEF ByPriority
<1>2. \A i \in Items : i \in Int /\ Priority[i] \in Nat
  BY StoreAssumption DEF Items
<1>3. ByPriority \subseteq Items \X Items
  BY DEF ByPriority
<1> HIDE DEF ByPriority
<1> QED BY <1>1, <1>2, <1>3 DEF Behind, Order

LEMMA PlansAreOrdered == Order(ByAge)
<1>1. \A i, j \in Items : <<i, j>> \in ByAge <=> i > j
  BY DEF ByAge
<1>2. \A i \in Items : i \in Int
  BY DEF Items
<1>3. ByAge \subseteq Items \X Items
  BY DEF ByAge
<1> HIDE DEF ByAge
<1> QED BY <1>1, <1>2, <1>3 DEF Order

LEMMA TailsOfLists ==
    ASSUME NEW ids \in SUBSET Items
    PROVE  /\ TailOfQueue(ids) = LastOf(ByPriority, ids, MaxQueue)
           /\ TailOfPlans(ids) = LastOf(ByAge, ids, MaxPlans)
<1>1. ASSUME NEW i \in Items
      PROVE  /\ Above(ByPriority, ids, i) = {j \in ids : Behind(j, i)}
             /\ Above(ByAge, ids, i) = {m \in ids : m > i}
  BY <1>1 DEF Above, ByPriority, ByAge
<1> QED BY <1>1 DEF LastOf, TailOfQueue, TailOfPlans

-----------------------------------------------------------------------------
(* Rows                                                                    *)

LEMMA QueueParts ==
    ASSUME NEW q \in Queues
    PROVE  DOMAIN q \in SUBSET Items /\ q \in [DOMAIN q -> Status]
BY DEF Queues

LEMMA QueueType ==
    ASSUME NEW d \in SUBSET Items, NEW q, q \in [d -> Status]
    PROVE  q \in Queues
BY DEF Queues

LEMMA RowParts ==
    ASSUME NEW row \in Rows
    PROVE  /\ row.queue \in Queues /\ row.plans \in SUBSET Items
           /\ row.event \in 0 .. MaxEvent /\ row.runner \in Procs \cup {Nobody}
BY DEF Rows, Queues

LEMMA RowType ==
    ASSUME NEW q \in Queues, NEW ns \in SUBSET Items, NEW e \in 0 .. MaxEvent,
           NEW r \in Procs \cup {Nobody}
    PROVE  [queue |-> q, plans |-> ns, event |-> e, runner |-> r] \in Rows
BY DEF Rows, Queues

LEMMA RowFields ==
    ASSUME NEW row \in Rows
    PROVE  row = [queue |-> row.queue, plans |-> row.plans, event |-> row.event, runner |-> row.runner]
BY DEF Rows

LEMMA FieldReplaced ==
    ASSUME NEW row \in Rows
    PROVE  /\ \A q \in Queues : [row EXCEPT !.queue = q] \in Rows
           /\ \A ns \in SUBSET Items : [row EXCEPT !.plans = ns] \in Rows
           /\ \A e \in 0 .. MaxEvent : [row EXCEPT !.event = e] \in Rows
           /\ \A r \in Procs \cup {Nobody} : [row EXCEPT !.runner = r] \in Rows
<1>1. Rows = [queue : Queues, plans : SUBSET Items, event : 0 .. MaxEvent, runner : Procs \cup {Nobody}]
  BY DEF Rows, Queues
<1>2. \A q \in Queues : [row EXCEPT !.queue = q] \in Rows
  BY <1>1
<1>3. \A ns \in SUBSET Items : [row EXCEPT !.plans = ns] \in Rows
  BY <1>1
<1>4. \A e \in 0 .. MaxEvent : [row EXCEPT !.event = e] \in Rows
  BY <1>1
<1>5. \A r \in Procs \cup {Nobody} : [row EXCEPT !.runner = r] \in Rows
  BY <1>1
<1> QED BY <1>2, <1>3, <1>4, <1>5

LEMMA FieldOfReplaced ==
    ASSUME NEW row \in Rows, NEW x
    PROVE  /\ [row EXCEPT !.queue = x].queue = x /\ [row EXCEPT !.queue = x].plans = row.plans
           /\ [row EXCEPT !.plans = x].queue = row.queue /\ [row EXCEPT !.plans = x].plans = x
           /\ [row EXCEPT !.event = x].queue = row.queue /\ [row EXCEPT !.event = x].plans = row.plans
           /\ [row EXCEPT !.runner = x].queue = row.queue /\ [row EXCEPT !.runner = x].plans = row.plans
BY RowFields

LEMMA TwoReplaced ==
    ASSUME NEW row, NEW q, NEW ns
    PROVE  [row EXCEPT !.queue = q, !.plans = ns] = [[row EXCEPT !.queue = q] EXCEPT !.plans = ns]
OBVIOUS

LEMMA BlankRow ==
    /\ Blank \in Rows /\ DOMAIN Blank.queue = {} /\ Blank.plans = {}
    /\ Cardinality(DOMAIN Blank.queue) <= MaxQueue /\ Cardinality(Blank.plans) <= MaxPlans
<1>1. Blank.queue \in Queues /\ DOMAIN Blank.queue = {}
  <2>1. Blank.queue \in [{} -> Status]
    BY DEF Blank
  <2> QED BY <2>1, QueueType
<1>2. Blank.plans = {} /\ Blank.event = 0 /\ Blank.runner = Nobody
  BY DEF Blank
<1>3. Blank = [queue |-> Blank.queue, plans |-> Blank.plans, event |-> 0, runner |-> Nobody]
  BY DEF Blank
<1>4. Blank \in Rows
  <2>1. 0 \in 0 .. MaxEvent
    BY StoreAssumption
  <2> QED BY <1>1, <1>2, <1>3, <2>1, RowType
<1> QED BY <1>1, <1>2, <1>4, FS_EmptySet, StoreAssumption

LEMMA OverQueue ==
    ASSUME NEW f \in Queues, NEW g \in Queues
    PROVE  /\ Over(f, g) \in Queues
           /\ DOMAIN Over(f, g) = DOMAIN f \cup DOMAIN g
<1>1. DOMAIN Over(f, g) = DOMAIN f \cup DOMAIN g
  BY DEF Over
<1>2. Over(f, g) \in [DOMAIN f \cup DOMAIN g -> Status]
  BY QueueParts DEF Over
<1> QED BY <1>1, <1>2, QueueParts, QueueType

LEMMA CappedQueue ==
    ASSUME NEW q \in Queues
    PROVE  /\ Capped(q) \in Queues
           /\ DOMAIN Capped(q) = LastOf(ByPriority, DOMAIN q, MaxQueue)
<1>1. TailOfQueue(DOMAIN q) = LastOf(ByPriority, DOMAIN q, MaxQueue)
  BY QueueParts, TailsOfLists
<1>2. LastOf(ByPriority, DOMAIN q, MaxQueue) \subseteq DOMAIN q
  BY DEF LastOf
<1>3. Capped(q) \in [LastOf(ByPriority, DOMAIN q, MaxQueue) -> Status]
  BY <1>1, <1>2, QueueParts DEF Capped
<1> QED BY <1>2, <1>3, QueueParts, QueueType

\* What is written is a row within the limits, and holds what either holds.
LEMMA MergedRow ==
    ASSUME NEW mine \in Rows, NEW latest \in Rows
    PROVE  LET row == Merged(mine, latest) IN
           /\ row \in Rows
           /\ Cardinality(DOMAIN row.queue) <= MaxQueue /\ Cardinality(row.plans) <= MaxPlans
           /\ \A i \in Items : QueueHolds(mine, i) \/ QueueHolds(latest, i) => QueueHolds(row, i)
           /\ \A n \in Items : PlansHold(mine, n) \/ PlansHold(latest, n) => PlansHold(row, n)
<1> DEFINE row == Merged(mine, latest)
           both == Over(mine.queue, latest.queue)
           plans == mine.plans \cup latest.plans
<1>0. MaxQueue \in Nat /\ MaxPlans \in Nat
  BY StoreAssumption
<1>1. /\ both \in Queues /\ DOMAIN both = DOMAIN mine.queue \cup DOMAIN latest.queue
      /\ DOMAIN mine.queue \in SUBSET Items /\ DOMAIN latest.queue \in SUBSET Items
      /\ DOMAIN both \in SUBSET Items
  BY RowParts, OverQueue, QueueParts
<1>2. row.queue = Capped(both) /\ row.plans = TailOfPlans(plans)
  BY RowFields DEF Merged, MergedQueue, MergedPlans
<1>3. row = [[mine EXCEPT !.queue = Capped(both)] EXCEPT !.plans = TailOfPlans(plans)]
  BY TwoReplaced DEF Merged, MergedQueue, MergedPlans
<1>4. plans \in SUBSET Items /\ mine.plans \subseteq plans /\ latest.plans \subseteq plans
  BY RowParts
<1> HIDE DEF row, both, plans
<1>5. Capped(both) \in Queues /\ DOMAIN Capped(both) = LastOf(ByPriority, DOMAIN both, MaxQueue)
  BY <1>1, CappedQueue
<1>6. TailOfPlans(plans) = LastOf(ByAge, plans, MaxPlans) /\ TailOfPlans(plans) \in SUBSET Items
  BY <1>4, TailsOfLists DEF LastOf
<1>7. row \in Rows
  BY <1>3, <1>5, <1>6, FieldReplaced
<1>8. Cardinality(DOMAIN row.queue) <= MaxQueue /\ Cardinality(row.plans) <= MaxPlans
  BY <1>0, <1>1, <1>2, <1>4, <1>5, <1>6, QueueIsOrdered, PlansAreOrdered, TailIsShort
<1>9. ASSUME NEW i \in Items, QueueHolds(mine, i) \/ QueueHolds(latest, i)
      PROVE  QueueHolds(row, i)
  <2>1. Holds(ByPriority, DOMAIN both, i, MaxQueue)
    BY <1>0, <1>1, <1>9, LongerHolds DEF QueueHolds
  <2>2. Holds(ByPriority, LastOf(ByPriority, DOMAIN both, MaxQueue), i, MaxQueue)
    BY <1>0, <1>1, <2>1, TailHolds, QueueIsOrdered
  <2> QED BY <1>2, <1>5, <2>2 DEF QueueHolds
<1>10. ASSUME NEW n \in Items, PlansHold(mine, n) \/ PlansHold(latest, n)
       PROVE  PlansHold(row, n)
  <2>1. Holds(ByAge, plans, n, MaxPlans)
    BY <1>0, <1>4, <1>10, RowParts, LongerHolds DEF PlansHold
  <2>2. Holds(ByAge, LastOf(ByAge, plans, MaxPlans), n, MaxPlans)
    BY <1>0, <1>4, <2>1, TailHolds, PlansAreOrdered
  <2> QED BY <1>2, <1>6, <2>2 DEF PlansHold
<1> QED BY <1>7, <1>8, <1>9, <1>10 DEF row

\* The next id is a new one.
LEMMA FreshIsNew ==
    ASSUME known \subseteq Sessions
    PROVE  FreshId \notin known
<1> DEFINE P(s) == (\A t \in known : t < s) /\ (s = 1 \/ s - 1 \in known)
           free == {s \in 1 .. MaxSessions + 1 : \A t \in known : t < s}
           id == [s \in free |-> s]
<1>0. MaxSessions \in Nat /\ \A t \in known : t \in 1 .. MaxSessions
  BY StoreAssumption DEF Sessions
<1>1. MaxSessions + 1 \in free /\ free \subseteq Nat /\ id \in [free -> Nat]
  BY <1>0
<1>2. PICK m \in free : \A k \in free : id[m] <= id[k]
  <2> HIDE DEF free, id
  <2> QED BY <1>1, LeastCount
<1>3. m \in 1 .. MaxSessions + 1 /\ (\A t \in known : t < m) /\ \A k \in free : m <= k
  BY <1>2
<1>4. ASSUME m = 1 PROVE P(m)
  BY <1>3, <1>4
<1>5. ASSUME m # 1 PROVE P(m)
  <2>1. m - 1 \in 1 .. MaxSessions + 1 /\ ~ (m <= m - 1)
    BY <1>0, <1>3, <1>5
  <2>2. m - 1 \notin free
    BY <1>3, <2>1
  <2>3. PICK t \in known : ~ (t < m - 1)
    BY <2>1, <2>2
  <2>4. t = m - 1
    BY <1>0, <1>3, <2>3
  <2> QED BY <1>3, <2>4
<1>6. P(m)
  BY <1>4, <1>5
<1>7. P(FreshId)
  BY <1>3, <1>6 DEF FreshId
<1> QED BY <1>0, <1>7

-----------------------------------------------------------------------------
(* Operations that have read their row                                     *)

LEMMA JobType ==
    ASSUME NEW s \in Sessions, NEW row \in Rows
    PROVE  /\ Job(s, row) \in Jobs
           /\ Job(s, row).row = row /\ Job(s, row).asks = {} /\ Job(s, row).saves = {}
BY DEF Job, Jobs

LEMMA JobIsWork ==
    ASSUME IInv, NEW p \in Procs, work[p] # Idle
    PROVE  /\ work[p] \in Jobs /\ work[p].sid \in Sessions /\ work[p].row \in Rows
           /\ work[p].asks \in SUBSET Items /\ work[p].saves \in SUBSET Items
<1>1. work[p] \in Jobs
  BY DEF IInv, TypeOK
<1> QED BY <1>1 DEF Jobs

\* A process at work has a session.
LEMMA ReadsARow ==
    ASSUME IInv, NEW p \in Procs, p \in alive
    PROVE  at[p] \in Sessions /\ disk[at[p]] \in Rows
BY DEF IInv, TypeOK, Reserved

\* Whatever an operation reads, it keeps the invariant as long as its copy
\* holds what is new in it.
LEMMA Begins ==
    ASSUME IInv, NEW p \in Procs, NEW task \in Jobs, Begin(p, task), items' \in 0 .. MaxItems,
           \A i \in task.asks : QueueHolds(task.row, i),
           \A n \in task.saves : PlansHold(task.row, n)
    PROVE  IInv'
<1> USE DEF Begin, store, history
<1>1. TypeOK'
  BY DEF IInv, TypeOK
<1>2. CopiesHold'
  <2> SUFFICES ASSUME NEW q \in Procs, work'[q] # Idle
               PROVE  /\ \A i \in work'[q].asks  : QueueHolds(work'[q].row, i)
                      /\ \A n \in work'[q].saves : PlansHold(work'[q].row, n)
    BY DEF CopiesHold, QueueHolds, PlansHold, Holds
  <2>1. work'[q] = IF q = p THEN task ELSE work[q]
    BY DEF IInv, TypeOK
  <2> QED BY <2>1 DEF IInv, CopiesHold
<1>3. RowsHold' /\ Reserved' /\ FreshIdsDiffer'
  BY DEF IInv, RowsHold, Reserved, FreshIdsDiffer, QueueHolds, PlansHold, Holds
<1> QED BY <1>1, <1>2, <1>3 DEF IInv

\* Of what an operation changes, what is new in the copy comes first.
LEMMA AddedIsHeld ==
    ASSUME NEW row \in Rows, NEW i \in Items
    PROVE  LET q == Over(row.queue, [j \in {i} |-> "queued"]) IN
           /\ q \in Queues /\ i \in DOMAIN q
<1> DEFINE f == [j \in {i} |-> "queued"]
<1>1. f \in [{i} -> Status] /\ DOMAIN f = {i}
  BY DEF Status
<1>2. f \in Queues
  BY <1>1, QueueType
<1> HIDE DEF f
<1>3. row.queue \in Queues
  BY RowParts
<1>4. Over(row.queue, f) \in Queues /\ DOMAIN Over(row.queue, f) = DOMAIN row.queue \cup DOMAIN f
  BY <1>2, <1>3, OverQueue
<1>5. i \in DOMAIN Over(row.queue, f)
  BY <1>1, <1>4
<1> QED BY <1>4, <1>5 DEF f

LEMMA EnqueueKeeps ==
    ASSUME IInv, NEW p \in Procs, EnqueueInstruction(p)
    PROVE  IInv'
<1> DEFINE row == disk[at[p]]
           copy == [row EXCEPT !.queue = Over(@, [i \in {items + 1} |-> "queued"])]
           q == Over(row.queue, [i \in {items + 1} |-> "queued"])
           task == [Job(at[p], copy) EXCEPT !.asks = {items + 1}]
<1>1. items + 1 \in Items /\ items' = items + 1 /\ items' \in 0 .. MaxItems
  BY StoreAssumption DEF EnqueueInstruction, IInv, TypeOK, Items
<1>2. row \in Rows /\ at[p] \in Sessions
  BY ReadsARow DEF EnqueueInstruction, CanBegin
<1>3. q \in Queues /\ items + 1 \in DOMAIN q
  BY <1>1, <1>2, AddedIsHeld
<1>4. copy = [row EXCEPT !.queue = q]
  OBVIOUS
<1>6. Begin(p, task)
  BY DEF EnqueueInstruction
<1> HIDE DEF q, row, copy
<1>5. copy \in Rows /\ copy.queue = q
  BY <1>2, <1>3, <1>4, FieldReplaced, FieldOfReplaced
<1>7. task \in Jobs /\ task.row = copy /\ task.asks = {items + 1} /\ task.saves = {}
  <2> DEFINE old == Job(at[p], copy)
  <2>1. old \in Jobs /\ old.row = copy /\ old.asks = {} /\ old.saves = {}
    BY <1>2, <1>5, JobType
  <2>2. task = [old EXCEPT !.asks = {items + 1}] /\ {items + 1} \in SUBSET Items
    BY <1>1
  <2> HIDE DEF old, task
  <2> QED BY <2>1, <2>2 DEF Jobs
<1>8. QueueHolds(copy, items + 1)
  BY <1>3, <1>5 DEF QueueHolds, Holds
<1> HIDE DEF task
<1> QED BY <1>1, <1>6, <1>7, <1>8, Begins

LEMMA SavePlanKeeps ==
    ASSUME IInv, NEW p \in Procs, SavePlan(p)
    PROVE  IInv'
<1> DEFINE row == disk[at[p]]
           plans == row.plans \cup {items + 1}
           copy == [row EXCEPT !.plans = TailOfPlans(@ \cup {items + 1})]
           task == [Job(at[p], copy) EXCEPT !.saves = {items + 1}]
<1>1. items + 1 \in Items /\ items' = items + 1 /\ items' \in 0 .. MaxItems
  BY StoreAssumption DEF SavePlan, IInv, TypeOK, Items
<1>2. row \in Rows /\ at[p] \in Sessions
  BY ReadsARow DEF SavePlan, CanBegin
<1>3. plans \in SUBSET Items /\ items + 1 \in plans
  BY <1>1, <1>2, RowParts
<1>4. copy = [row EXCEPT !.plans = TailOfPlans(plans)]
  OBVIOUS
<1>5. Begin(p, task)
  BY DEF SavePlan
<1> HIDE DEF plans, row, copy
<1>6. TailOfPlans(plans) = LastOf(ByAge, plans, MaxPlans) /\ TailOfPlans(plans) \in SUBSET Items
  BY <1>3, TailsOfLists DEF LastOf
<1>7. copy \in Rows /\ copy.plans = TailOfPlans(plans)
  BY <1>2, <1>4, <1>6, FieldReplaced, FieldOfReplaced
<1>8. task \in Jobs /\ task.row = copy /\ task.asks = {} /\ task.saves = {items + 1}
  <2> DEFINE old == Job(at[p], copy)
  <2>1. old \in Jobs /\ old.row = copy /\ old.asks = {} /\ old.saves = {}
    BY <1>2, <1>7, JobType
  <2>2. task = [old EXCEPT !.saves = {items + 1}] /\ {items + 1} \in SUBSET Items
    BY <1>1
  <2> HIDE DEF old, task
  <2> QED BY <2>1, <2>2 DEF Jobs
<1>9. PlansHold(copy, items + 1)
  <2>1. Holds(ByAge, plans, items + 1, MaxPlans)
    BY <1>3 DEF Holds
  <2>2. Holds(ByAge, LastOf(ByAge, plans, MaxPlans), items + 1, MaxPlans)
    BY <1>1, <1>3, <2>1, TailHolds, PlansAreOrdered, StoreAssumption
  <2> QED BY <1>6, <1>7, <2>2 DEF PlansHold
<1> HIDE DEF task
<1> QED BY <1>1, <1>5, <1>8, <1>9, Begins

\* The operations that add nothing to either list.
LEMMA PlainJob ==
    ASSUME IInv, NEW p \in Procs, NEW s \in Sessions, NEW row \in Rows,
           Begin(p, Job(s, row)), UNCHANGED items
    PROVE  IInv'
<1> DEFINE task == Job(s, row)
<1>1. task \in Jobs /\ task.asks = {} /\ task.saves = {}
  BY JobType
<1>2. items' \in 0 .. MaxItems
  BY DEF IInv, TypeOK
<1>3. Begin(p, task)
  OBVIOUS
<1> HIDE DEF task
<1> QED BY <1>1, <1>2, <1>3, Begins

LEMMA UpdateKeeps ==
    ASSUME IInv, NEW p \in Procs, UpdateInstruction(p)
    PROVE  IInv'
<1> DEFINE row == disk[at[p]]
<1>0. PICK i \in DOMAIN row.queue : \E status \in {row.queue[i], "taken"} :
         Begin(p, Job(at[p], [row EXCEPT !.queue[i] = status])) /\ UNCHANGED items
  BY DEF UpdateInstruction
<1>1. PICK status \in {row.queue[i], "taken"} :
         Begin(p, Job(at[p], [row EXCEPT !.queue[i] = status])) /\ UNCHANGED items
  BY <1>0
<1>2. row \in Rows /\ at[p] \in Sessions
  BY ReadsARow DEF UpdateInstruction, CanBegin
<1> DEFINE q == [row.queue EXCEPT ![i] = status]
           copy == [row EXCEPT !.queue[i] = status]
<1>3. copy = [row EXCEPT !.queue = q]
  OBVIOUS
<1> HIDE DEF row, copy
<1>4. q \in Queues
  <2>1. row.queue \in [DOMAIN row.queue -> Status] /\ DOMAIN row.queue \in SUBSET Items
    BY <1>2, RowParts, QueueParts
  <2>2. status \in Status
    BY <2>1, <1>1 DEF Status
  <2>3. q \in [DOMAIN row.queue -> Status]
    BY <2>1, <2>2
  <2> HIDE DEF q
  <2> QED BY <2>1, <2>3, QueueType
<1> HIDE DEF q
<1>5. copy \in Rows
  BY <1>2, <1>3, <1>4, FieldReplaced
<1> QED BY <1>1, <1>2, <1>5, PlainJob DEF copy

LEMMA SaveEventKeeps ==
    ASSUME IInv, NEW p \in Procs, SaveEvent(p)
    PROVE  IInv'
<1> DEFINE row == disk[at[p]]
<1>1. PICK e \in 0 .. MaxEvent :
         Begin(p, Job(at[p], [row EXCEPT !.event = IF e > @ THEN e ELSE @])) /\ UNCHANGED items
  BY DEF SaveEvent
<1>2. row \in Rows /\ at[p] \in Sessions
  BY ReadsARow DEF SaveEvent, CanBegin
<1> DEFINE cursor == IF e > row.event THEN e ELSE row.event
           copy == [row EXCEPT !.event = IF e > @ THEN e ELSE @]
<1>3. copy = [row EXCEPT !.event = cursor]
  OBVIOUS
<1> HIDE DEF row, copy
<1>4. cursor \in 0 .. MaxEvent
  BY <1>2, RowParts
<1> HIDE DEF cursor
<1>5. copy \in Rows
  BY <1>2, <1>3, <1>4, FieldReplaced
<1> QED BY <1>1, <1>2, <1>5, PlainJob DEF copy

LEMMA SaveLifecycleKeeps ==
    ASSUME IInv, NEW p \in Procs, SaveLifecycle(p)
    PROVE  IInv'
<1> DEFINE row == disk[at[p]]
<1>1. PICK r \in {p, Nobody, row.runner} :
         Begin(p, Job(at[p], [row EXCEPT !.runner = r])) /\ UNCHANGED items
  BY DEF SaveLifecycle
<1>2. row \in Rows /\ at[p] \in Sessions
  BY ReadsARow DEF SaveLifecycle, CanBegin
<1> HIDE DEF row
<1>3. r \in Procs \cup {Nobody}
  BY <1>1, <1>2, RowParts
<1>4. [row EXCEPT !.runner = r] \in Rows
  BY <1>2, <1>3, FieldReplaced
<1> QED BY <1>1, <1>2, <1>4, PlainJob

LEMMA SupersedeKeeps ==
    ASSUME IInv, NEW p \in Procs, Supersede(p)
    PROVE  IInv'
<1>1. PICK s \in known : Begin(p, Job(s, [disk[s] EXCEPT !.runner = Nobody])) /\ UNCHANGED items
  BY DEF Supersede
<1>2. s \in Sessions /\ disk[s] \in Rows
  BY DEF IInv, TypeOK
<1>3. [disk[s] EXCEPT !.runner = Nobody] \in Rows
  BY <1>2, FieldReplaced
<1> QED BY <1>1, <1>2, <1>3, PlainJob

LEMMA ForkKeeps ==
    ASSUME IInv, NEW p \in Procs, Fork(p)
    PROVE  IInv'
<1> DEFINE row == disk[at[p]]
           copy == [row EXCEPT !.queue = Blank.queue, !.event = 0, !.runner = Nobody]
           task == [Job(FreshId, copy) EXCEPT !.moves = TRUE]
<1>1. FreshId \in Sessions /\ Begin(p, task) /\ UNCHANGED items
  BY DEF Fork
<1>2. row \in Rows
  BY ReadsARow DEF Fork, CanBegin
<1>3. copy = [[[row EXCEPT !.queue = Blank.queue] EXCEPT !.event = 0] EXCEPT !.runner = Nobody]
  OBVIOUS
<1>4. Blank.queue \in Queues /\ 0 \in 0 .. MaxEvent
  BY BlankRow, RowParts, StoreAssumption
<1> HIDE DEF row
<1>5. [row EXCEPT !.queue = Blank.queue] \in Rows
  BY <1>2, <1>4, FieldReplaced
<1>6. [[row EXCEPT !.queue = Blank.queue] EXCEPT !.event = 0] \in Rows
  BY <1>4, <1>5, FieldReplaced
<1> HIDE DEF copy
<1>7. copy \in Rows
  BY <1>3, <1>6, FieldReplaced
<1> DEFINE old == Job(FreshId, copy)
<1>8. old \in Jobs /\ old.asks = {} /\ old.saves = {}
  BY <1>1, <1>7, JobType
<1>9. task = [old EXCEPT !.moves = TRUE]
  OBVIOUS
<1> HIDE DEF old, task
<1>10. task \in Jobs /\ task.asks = {} /\ task.saves = {}
  BY <1>8, <1>9 DEF Jobs
<1>11. items' \in 0 .. MaxItems
  BY <1>1 DEF IInv, TypeOK
<1> QED BY <1>1, <1>10, <1>11, Begins

-----------------------------------------------------------------------------
(* Operations under the lock                                               *)

LEMMA PutKeeps ==
    ASSUME IInv, NEW p \in Procs, Put(p)
    PROVE  IInv'
<1> DEFINE task == work[p]
           s == task.sid
           new == Merged(task.row, disk[s])
<1>1. /\ task \in Jobs /\ s \in Sessions /\ task.row \in Rows
      /\ task.asks \in SUBSET Items /\ task.saves \in SUBSET Items
  BY JobIsWork DEF Put
<1>2. disk[s] \in Rows
  BY <1>1 DEF IInv, TypeOK
<1>3. /\ new \in Rows
      /\ Cardinality(DOMAIN new.queue) <= MaxQueue /\ Cardinality(new.plans) <= MaxPlans
      /\ \A i \in Items : QueueHolds(task.row, i) \/ QueueHolds(disk[s], i) => QueueHolds(new, i)
      /\ \A n \in Items : PlansHold(task.row, n) \/ PlansHold(disk[s], n) => PlansHold(new, n)
  BY <1>1, <1>2, MergedRow
<1>4. /\ known' = known \cup {s} /\ disk' = [disk EXCEPT ![s] = new]
      /\ at' \in {at, [at EXCEPT ![p] = s]}
      /\ asked' = [asked EXCEPT ![s] = @ \cup task.asks]
      /\ planned' = [planned EXCEPT ![s] = @ \cup task.saves]
      /\ work' = [work EXCEPT ![p] = Idle]
      /\ UNCHANGED <<alive, items, minted>>
  BY DEF Put
<1>5. /\ \A i \in task.asks  : QueueHolds(task.row, i)
      /\ \A n \in task.saves : PlansHold(task.row, n)
  BY DEF Put, IInv, CopiesHold
<1> HIDE DEF new, s, task
<1>6. TypeOK'
  <2> USE <1>1, <1>3, <1>4 DEF IInv, TypeOK
  <2>1. known' \subseteq Sessions
    OBVIOUS
  <2>2. disk' \in [Sessions -> Rows]
    OBVIOUS
  <2>3. \A t \in Sessions : /\ Cardinality(DOMAIN disk'[t].queue) <= MaxQueue
                            /\ Cardinality(disk'[t].plans) <= MaxPlans
    OBVIOUS
  <2>4. at' \in [Procs -> Sessions \cup {0}]
    OBVIOUS
  <2>5. work' \in [Procs -> Jobs \cup {Idle}]
    OBVIOUS
  <2>6. asked' \in [Sessions -> SUBSET Items] /\ planned' \in [Sessions -> SUBSET Items]
    OBVIOUS
  <2> QED BY <2>1, <2>2, <2>3, <2>4, <2>5, <2>6
<1>7. CopiesHold'
  <2> SUFFICES ASSUME NEW q \in Procs, work'[q] # Idle
               PROVE  /\ \A i \in work'[q].asks  : QueueHolds(work'[q].row, i)
                      /\ \A n \in work'[q].saves : PlansHold(work'[q].row, n)
    BY DEF CopiesHold, QueueHolds, PlansHold, Holds
  <2>1. work'[q] = work[q]
    BY <1>4 DEF IInv, TypeOK
  <2> QED BY <2>1 DEF IInv, CopiesHold
<1>8. RowsHold'
  <2> SUFFICES ASSUME NEW t \in Sessions
               PROVE  /\ \A i \in asked'[t]   : QueueHolds(disk'[t], i)
                      /\ \A n \in planned'[t] : PlansHold(disk'[t], n)
    BY DEF RowsHold, QueueHolds, PlansHold, Holds
  <2>0. asked[t] \in SUBSET Items /\ planned[t] \in SUBSET Items
    BY DEF IInv, TypeOK
  <2>1. CASE t = s
    <3>1. /\ disk'[t] = new /\ asked'[t] = asked[s] \cup task.asks
          /\ planned'[t] = planned[s] \cup task.saves
      BY <1>1, <1>4, <2>1 DEF IInv, TypeOK
    <3>2. /\ \A i \in asked[s] : QueueHolds(disk[s], i)
          /\ \A n \in planned[s] : PlansHold(disk[s], n)
      BY <1>1 DEF IInv, RowsHold
    <3> QED BY <1>1, <1>3, <1>5, <2>0, <2>1, <3>1, <3>2
  <2>2. CASE t # s
    <3>1. disk'[t] = disk[t] /\ asked'[t] = asked[t] /\ planned'[t] = planned[t]
      BY <1>4, <2>2 DEF IInv, TypeOK
    <3> QED BY <3>1 DEF IInv, RowsHold
  <2> QED BY <2>1, <2>2
<1>9. Reserved' /\ FreshIdsDiffer'
  <2>1. \A t \in Sessions \ known' : asked'[t] = {} /\ planned'[t] = {}
    BY <1>4 DEF IInv, TypeOK, Reserved
  <2>2. \A q \in alive' : at'[q] # 0
    <3>1. s # 0 /\ alive \subseteq Procs /\ at \in [Procs -> Sessions \cup {0}]
      BY <1>1 DEF Sessions, IInv, TypeOK
    <3> QED BY <1>4, <3>1 DEF IInv, Reserved
  <2> QED BY <1>4, <2>1, <2>2 DEF IInv, Reserved, FreshIdsDiffer
<1> QED BY <1>6, <1>7, <1>8, <1>9 DEF IInv

LEMMA LaunchKeeps ==
    ASSUME IInv, NEW p \in Procs, Launch(p)
    PROVE  IInv'
<1> DEFINE s == FreshId
<1>1. /\ s \in Sessions
      /\ known' = known \cup {s} /\ disk' = [disk EXCEPT ![s] = Blank]
      /\ minted' = [minted EXCEPT ![p] = s] /\ alive' = alive \cup {p}
      /\ at' = [at EXCEPT ![p] = s] /\ UNCHANGED <<work, items, asked, planned>>
  BY DEF Launch, Reserve, Enter
<1>2. s \notin known
  BY FreshIsNew DEF IInv, TypeOK
<1> HIDE DEF s
<1>3. s # 0 /\ asked[s] = {} /\ planned[s] = {}
  BY <1>1, <1>2 DEF Sessions, IInv, Reserved
<1>4. TypeOK'
  BY <1>1, BlankRow DEF IInv, TypeOK
<1>5. CopiesHold'
  BY <1>1 DEF IInv, CopiesHold, QueueHolds, PlansHold, Holds
<1>6. RowsHold'
  <2> SUFFICES ASSUME NEW t \in Sessions
               PROVE  /\ \A i \in asked[t]   : QueueHolds(disk'[t], i)
                      /\ \A n \in planned[t] : PlansHold(disk'[t], n)
    BY <1>1 DEF RowsHold, QueueHolds, PlansHold, Holds
  <2>1. t = s \/ disk'[t] = disk[t]
    BY <1>1 DEF IInv, TypeOK
  <2> QED BY <1>3, <2>1 DEF IInv, RowsHold
<1>7. Reserved' /\ FreshIdsDiffer'
  BY <1>1, <1>2, <1>3 DEF IInv, TypeOK, Reserved, FreshIdsDiffer
<1> QED BY <1>4, <1>5, <1>6, <1>7 DEF IInv

LEMMA ReuseKeeps ==
    ASSUME IInv, NEW p \in Procs, Reuse(p)
    PROVE  IInv'
<1>1. PICK s \in known : Enter(p, s)
  BY DEF Reuse
<1>2. s \in Sessions /\ s # 0 /\ UNCHANGED <<known, disk, minted>>
  BY DEF Reuse, store, IInv, TypeOK, Sessions
<1> USE <1>1, <1>2 DEF Enter, IInv
<1>3. TypeOK'
  BY DEF TypeOK
<1>4. CopiesHold' /\ RowsHold'
  BY DEF CopiesHold, RowsHold, QueueHolds, PlansHold, Holds
<1>5. Reserved' /\ FreshIdsDiffer'
  BY DEF TypeOK, Reserved, FreshIdsDiffer
<1> QED BY <1>3, <1>4, <1>5

LEMMA StopKeeps ==
    ASSUME IInv, NEW p \in Procs, Stop(p)
    PROVE  IInv'
<1> USE DEF Stop, store, IInv
<1>1. TypeOK'
  BY DEF TypeOK
<1>2. \A q \in Procs : work'[q] # Idle => work'[q] = work[q]
  BY DEF TypeOK
<1>3. CopiesHold'
  <2> SUFFICES ASSUME NEW q \in Procs, work'[q] # Idle
               PROVE  /\ \A i \in work'[q].asks  : QueueHolds(work'[q].row, i)
                      /\ \A n \in work'[q].saves : PlansHold(work'[q].row, n)
    BY DEF CopiesHold, QueueHolds, PlansHold, Holds
  <2>1. work'[q] = work[q]
    BY <1>2
  <2> QED BY <2>1 DEF CopiesHold
<1>4. RowsHold'
  BY DEF RowsHold, QueueHolds, PlansHold, Holds
<1>5. Reserved' /\ FreshIdsDiffer'
  BY DEF TypeOK, Reserved, FreshIdsDiffer
<1> QED BY <1>1, <1>3, <1>4, <1>5

\* What is wiped has no history left, and the other rows are left alone.
LEMMA WipedRowsHold ==
    ASSUME IInv, NEW s \in Sessions, Wipe(s), \A t \in Sessions \ {s} : disk'[t] = disk[t]
    PROVE  CopiesHold' /\ RowsHold'
<1>1. CopiesHold'
  BY DEF Wipe, IInv, CopiesHold, QueueHolds, PlansHold, Holds
<1>2. RowsHold'
  <2> SUFFICES ASSUME NEW t \in Sessions
               PROVE  /\ \A i \in asked'[t]   : QueueHolds(disk'[t], i)
                      /\ \A n \in planned'[t] : PlansHold(disk'[t], n)
    BY DEF RowsHold, QueueHolds, PlansHold, Holds
  <2>1. CASE t = s
    BY <2>1 DEF Wipe, IInv, TypeOK
  <2>2. CASE t # s
    <3>1. asked'[t] = asked[t] /\ planned'[t] = planned[t] /\ disk'[t] = disk[t]
      BY <2>2 DEF Wipe, IInv, TypeOK
    <3> QED BY <3>1 DEF IInv, RowsHold
  <2> QED BY <2>1, <2>2
<1> QED BY <1>1, <1>2

LEMMA ResetKeeps ==
    ASSUME IInv, NEW p \in Procs, ResetTaskState(p)
    PROVE  IInv'
<1> DEFINE s == at[p]
           new == [disk[s] EXCEPT !.queue = Blank.queue, !.plans = {}]
<1>1. /\ s \in known /\ disk' = [disk EXCEPT ![s] = new]
      /\ Wipe(s) /\ UNCHANGED <<known, minted>>
  BY DEF ResetTaskState
<1>2. s \in Sessions /\ disk[s] \in Rows
  BY <1>1 DEF IInv, TypeOK
<1> DEFINE half == [disk[s] EXCEPT !.queue = Blank.queue]
<1>3. Blank.queue \in Queues
  BY BlankRow, RowParts
<1>4. half \in Rows /\ half.queue = Blank.queue
  BY <1>2, <1>3, FieldReplaced, FieldOfReplaced
<1>5. new = [half EXCEPT !.plans = {}]
  BY TwoReplaced
<1> HIDE DEF s, new, half
<1>6. new \in Rows /\ new.queue = Blank.queue /\ new.plans = {}
  <2>1. {} \in SUBSET Items
    OBVIOUS
  <2>2. [half EXCEPT !.plans = {}] \in Rows
    BY <1>4, <2>1, FieldReplaced
  <2> QED BY <1>4, <1>5, <2>2, FieldOfReplaced
<1>7. Cardinality(DOMAIN new.queue) <= MaxQueue /\ Cardinality(new.plans) <= MaxPlans
  BY <1>6, BlankRow
<1>8. TypeOK'
  BY <1>1, <1>2, <1>6, <1>7 DEF Wipe, IInv, TypeOK
<1>9. \A t \in Sessions \ {s} : disk'[t] = disk[t]
  BY <1>1 DEF IInv, TypeOK
<1>10. Reserved' /\ FreshIdsDiffer'
  BY <1>1 DEF Wipe, IInv, TypeOK, Reserved, FreshIdsDiffer
<1> QED BY <1>1, <1>2, <1>8, <1>9, <1>10, WipedRowsHold DEF IInv

LEMMA ClearKeeps ==
    ASSUME IInv, NEW p \in Procs, ClearSession(p)
    PROVE  IInv'
<1>1. PICK s \in known :
         /\ known' = known \ {s} /\ disk' = [disk EXCEPT ![s] = Blank]
         /\ minted' = [q \in Procs |-> IF minted[q] = s THEN 0 ELSE minted[q]]
         /\ Wipe(s)
  BY DEF ClearSession
<1>2. s \in Sessions
  BY DEF IInv, TypeOK
<1>3. TypeOK'
  BY <1>1, <1>2, BlankRow DEF Wipe, IInv, TypeOK
<1>4. \A t \in Sessions \ {s} : disk'[t] = disk[t]
  BY <1>1 DEF IInv, TypeOK
<1>5. Reserved' /\ FreshIdsDiffer'
  BY <1>1, <1>2 DEF Wipe, IInv, TypeOK, Reserved, FreshIdsDiffer
<1> QED BY <1>1, <1>2, <1>3, <1>4, <1>5, WipedRowsHold DEF IInv

-----------------------------------------------------------------------------
(* The invariant                                                           *)

LEMMA InitIInv == Init => IInv
<1> SUFFICES ASSUME Init PROVE IInv
  OBVIOUS
<1> USE DEF Init
<1>1. TypeOK
  <2>1. disk \in [Sessions -> Rows] /\ \A s \in Sessions : disk[s] = Blank
    BY BlankRow
  <2>2. \A s \in Sessions : /\ Cardinality(DOMAIN disk[s].queue) <= MaxQueue
                            /\ Cardinality(disk[s].plans) <= MaxPlans
    BY <2>1, BlankRow
  <2>3. /\ at \in [Procs -> Sessions \cup {0}] /\ minted \in [Procs -> Sessions \cup {0}]
        /\ work \in [Procs -> Jobs \cup {Idle}] /\ known \subseteq Sessions /\ alive \subseteq Procs
    OBVIOUS
  <2>4. asked \in [Sessions -> SUBSET Items] /\ planned \in [Sessions -> SUBSET Items]
    OBVIOUS
  <2>5. items \in 0 .. MaxItems
    BY StoreAssumption
  <2> QED BY <2>1, <2>2, <2>3, <2>4, <2>5 DEF TypeOK
<1>2. CopiesHold /\ RowsHold
  BY DEF CopiesHold, RowsHold
<1>3. Reserved /\ FreshIdsDiffer
  BY DEF Reserved, FreshIdsDiffer
<1> QED BY <1>1, <1>2, <1>3 DEF IInv

LEMMA StepIInv == IInv /\ [Next]_vars => IInv'
<1> SUFFICES ASSUME IInv, [Next]_vars PROVE IInv'
  OBVIOUS
<1>1. ASSUME NEW p \in Procs, Launch(p) \/ Reuse(p) \/ Stop(p) PROVE IInv'
  BY <1>1, LaunchKeeps, ReuseKeeps, StopKeeps
<1>2. ASSUME NEW p \in Procs,
             \/ EnqueueInstruction(p) \/ UpdateInstruction(p) \/ SavePlan(p) \/ SaveEvent(p)
             \/ SaveLifecycle(p) \/ Supersede(p) \/ Fork(p)
      PROVE  IInv'
  BY <1>2, EnqueueKeeps, UpdateKeeps, SavePlanKeeps, SaveEventKeeps, SaveLifecycleKeeps,
     SupersedeKeeps, ForkKeeps
<1>3. ASSUME NEW p \in Procs, Put(p) \/ ResetTaskState(p) \/ ClearSession(p) PROVE IInv'
  BY <1>3, PutKeeps, ResetKeeps, ClearKeeps
<1>4. CASE UNCHANGED vars
  <2> USE <1>4 DEF vars, store, history, IInv
  <2>1. TypeOK'
    BY DEF TypeOK
  <2>2. CopiesHold' /\ RowsHold'
    BY DEF CopiesHold, RowsHold, QueueHolds, PlansHold, Holds
  <2>3. Reserved' /\ FreshIdsDiffer'
    BY DEF Reserved, FreshIdsDiffer
  <2> QED BY <2>1, <2>2, <2>3
<1> QED BY <1>1, <1>2, <1>3, <1>4 DEF Next

LEMMA IInvAlways == Spec => []IInv
BY InitIInv, StepIInv, PTL DEF Spec

LEMMA HoldsIsNotLost == TypeOK /\ RowsHold => SavedIsNotLost
<1> SUFFICES ASSUME TypeOK, RowsHold PROVE SavedIsNotLost
  OBVIOUS
<1>1. ASSUME NEW s \in Sessions
      PROVE  /\ disk[s] \in Rows /\ asked[s] \in SUBSET Items /\ planned[s] \in SUBSET Items
             /\ DOMAIN disk[s].queue \in SUBSET Items /\ disk[s].plans \in SUBSET Items
  <2>1. disk[s] \in Rows /\ asked[s] \in SUBSET Items /\ planned[s] \in SUBSET Items
    BY DEF TypeOK
  <2> QED BY <2>1, RowParts, QueueParts
<1>2. ASSUME NEW ids \in SUBSET Items, NEW i \in Items
      PROVE  /\ Above(ByPriority, ids, i) = {j \in ids : Behind(j, i)}
             /\ Above(ByAge, ids, i) = {m \in ids : m > i}
  BY <1>2 DEF Above, ByPriority, ByAge
<1>3. QueuedIsNotLost
  <2> SUFFICES ASSUME NEW s \in Sessions, NEW i \in asked[s]
               PROVE  \/ i \in DOMAIN disk[s].queue
                      \/ Cardinality({j \in DOMAIN disk[s].queue : Behind(j, i)}) >= MaxQueue
    BY DEF QueuedIsNotLost
  <2>1. Holds(ByPriority, DOMAIN disk[s].queue, i, MaxQueue)
    BY DEF RowsHold, QueueHolds
  <2> QED BY <1>1, <1>2, <2>1 DEF Holds
<1>4. PlansGiveWayToNewer
  <2> SUFFICES ASSUME NEW s \in Sessions, NEW n \in planned[s]
               PROVE  \/ n \in disk[s].plans
                      \/ Cardinality({m \in disk[s].plans : m > n}) >= MaxPlans
    BY DEF PlansGiveWayToNewer
  <2>1. Holds(ByAge, disk[s].plans, n, MaxPlans)
    BY DEF RowsHold, PlansHold
  <2> QED BY <1>1, <1>2, <2>1 DEF Holds
<1> QED BY <1>3, <1>4 DEF SavedIsNotLost

(* The rows on disk keep their shape, and their two lists their limits,    *)
(* however the processes' writes overlap.                                  *)
THEOREM RowsAreInBounds == Spec => []TypeOK
<1>1. IInv => TypeOK
  BY DEF IInv
<1> QED BY IInvAlways, <1>1, PTL

(* The merge of put_session_state: an instruction that was queued and a    *)
(* plan that was saved stay in their row, whatever stale copies are        *)
(* written over it by however many processes, until the list is full of    *)
(* more urgent or newer ones.                                              *)
THEOREM NothingSavedIsLost == Spec => []SavedIsNotLost
<1>1. IInv => SavedIsNotLost
  BY HoldsIsNotLost DEF IInv
<1> QED BY IInvAlways, <1>1, PTL

(* Two running processes that were given a fresh session id were given     *)
(* different ones.                                                         *)
THEOREM FreshIdsAlwaysDiffer == Spec => []FreshIdsDiffer
<1>1. IInv => FreshIdsDiffer
  BY DEF IInv
<1> QED BY IInvAlways, <1>1, PTL

-----------------------------------------------------------------------------
(* TypedInput.  Positions of the queue.                                    *)

\* A list that is drawn from another one: no place of it twice.
Drawn(s, q, place) ==
    /\ place \in [DOMAIN s -> DOMAIN q]
    /\ \A j, k \in DOMAIN s : place[j] = place[k] => j = k
    /\ \A k \in DOMAIN s : s[k] = q[place[k]]

\* A list with one item more.
Inserted(s, q, p, item) ==
    /\ Len(s) = Len(q) + 1
    /\ \A k \in 1 .. Len(q) + 1 : s[k] = IF k < p THEN q[k] ELSE IF k = p THEN item ELSE q[k - 1]

LEMMA Concatenated ==
    ASSUME NEW S, NEW s \in Seq(S), NEW t \in Seq(S)
    PROVE  /\ s \o t \in Seq(S) /\ Len(s \o t) = Len(s) + Len(t)
           /\ \A k \in 1 .. Len(s) + Len(t) : (s \o t)[k] = IF k <= Len(s) THEN s[k] ELSE t[k - Len(s)]
OBVIOUS

LEMMA InsertedItem ==
    ASSUME NEW S, NEW q \in Seq(S), NEW item \in S, NEW p \in 1 .. Len(q) + 1
    PROVE  InsertAt(q, p, item) \in Seq(S) /\ Inserted(InsertAt(q, p, item), q, p, item)
<1> DEFINE a == SubSeq(q, 1, p - 1)
           b == SubSeq(q, p, Len(q))
           c == a \o <<item>>
           d == c \o b
<1>1. Len(q) \in Nat /\ p \in Nat /\ 1 <= p /\ p <= Len(q) + 1
  OBVIOUS
<1>2. a \in Seq(S) /\ Len(a) = p - 1 /\ \A k \in 1 .. p - 1 : a[k] = q[k]
  BY <1>1
<1>3. b \in Seq(S) /\ Len(b) = Len(q) + 1 - p /\ \A k \in 1 .. Len(q) + 1 - p : b[k] = q[p + k - 1]
  BY <1>1
<1> HIDE DEF a, b
<1>4. c \in Seq(S) /\ Len(c) = p /\ c[p] = item /\ \A k \in 1 .. p - 1 : c[k] = q[k]
  BY <1>1, <1>2
<1> HIDE DEF c
<1>5. d \in Seq(S) /\ Len(d) = Len(q) + 1 /\ (\A k \in 1 .. p : d[k] = c[k])
  <2>1. c \in Seq(S) /\ b \in Seq(S)
    BY <1>3, <1>4
  <2>2. /\ d \in Seq(S) /\ Len(d) = Len(c) + Len(b)
        /\ \A k \in 1 .. Len(c) + Len(b) : d[k] = IF k <= Len(c) THEN c[k] ELSE b[k - Len(c)]
    BY <2>1, Concatenated
  <2>3. Len(c) = p /\ Len(b) = Len(q) + 1 - p /\ Len(c) + Len(b) = Len(q) + 1
    BY <1>1, <1>3, <1>4
  <2> QED BY <1>1, <2>2, <2>3
<1>6. ASSUME NEW k \in 1 .. Len(q) + 1, p < k PROVE d[k] = q[k - 1]
  <2>1. k - p \in 1 .. Len(q) + 1 - p /\ p + (k - p) - 1 = k - 1
    BY <1>1, <1>6
  <2>2. d[k] = b[k - p]
    BY <1>1, <1>3, <1>4, <1>6
  <2> QED BY <1>3, <2>1, <2>2
<1>7. d = InsertAt(q, p, item)
  BY DEF InsertAt, a, b, c
<1> HIDE DEF d
<1>8. ASSUME NEW k \in 1 .. Len(q) + 1 PROVE d[k] = IF k < p THEN q[k] ELSE IF k = p THEN item ELSE q[k - 1]
  <2>1. CASE k < p
    <3>1. k \in 1 .. p - 1 /\ k \in 1 .. p
      BY <1>1, <1>8, <2>1
    <3> QED BY <1>4, <1>5, <2>1, <3>1
  <2>2. CASE k = p
    BY <1>1, <1>4, <1>5, <2>2
  <2>3. CASE p < k
    BY <1>1, <1>6, <1>8, <2>3
  <2>4. k \in Nat
    BY <1>1, <1>8
  <2> QED BY <1>1, <2>1, <2>2, <2>3, <2>4
<1>9. Inserted(d, q, p, item)
  BY <1>5, <1>8 DEF Inserted
<1> QED BY <1>5, <1>7, <1>9

LEMMA RemovedItem ==
    ASSUME NEW S, NEW q \in Seq(S), NEW p \in DOMAIN q
    PROVE  /\ RemoveAt(q, p) \in Seq(S)
           /\ \E place : /\ Drawn(RemoveAt(q, p), q, place)
                         /\ \A k \in DOMAIN RemoveAt(q, p) : place[k] # p
                         /\ \A k \in DOMAIN q \ {p} : \E j \in DOMAIN RemoveAt(q, p) : place[j] = k
<1> DEFINE a == SubSeq(q, 1, p - 1)
           b == SubSeq(q, p + 1, Len(q))
           d == a \o b
           n == Len(q) - 1
           place == [k \in 1 .. n |-> IF k < p THEN k ELSE k + 1]
<1>1. Len(q) \in Nat /\ p \in Nat /\ 1 <= p /\ p <= Len(q) /\ DOMAIN q = 1 .. Len(q)
  OBVIOUS
<1>2. a \in Seq(S) /\ Len(a) = p - 1 /\ \A k \in 1 .. p - 1 : a[k] = q[k]
  BY <1>1
<1>3. b \in Seq(S) /\ Len(b) = Len(q) - p /\ \A k \in 1 .. Len(q) - p : b[k] = q[p + k]
  BY <1>1
<1> HIDE DEF a, b
<1>4. d \in Seq(S) /\ Len(d) = n
  <2>1. d \in Seq(S) /\ Len(d) = Len(a) + Len(b)
    BY <1>2, <1>3, Concatenated
  <2> QED BY <1>1, <1>2, <1>3, <2>1
<1>5. \A k \in 1 .. n : d[k] = IF k <= p - 1 THEN a[k] ELSE b[k - (p - 1)]
  <2>1. Len(a) + Len(b) = n /\ Len(a) = p - 1
    BY <1>1, <1>2, <1>3
  <2>2. \A k \in 1 .. Len(a) + Len(b) : d[k] = IF k <= Len(a) THEN a[k] ELSE b[k - Len(a)]
    BY <1>2, <1>3, Concatenated
  <2> QED BY <2>1, <2>2
<1>6. d = RemoveAt(q, p)
  BY DEF RemoveAt, a, b
<1> HIDE DEF d
<1>7. ASSUME NEW k \in 1 .. n PROVE place[k] \in 1 .. Len(q) /\ d[k] = q[place[k]]
  <2>1. k \in Nat /\ 1 <= k /\ k <= n
    BY <1>1, <1>7
  <2>2. CASE k < p
    BY <1>1, <1>2, <1>5, <2>1, <2>2
  <2>3. CASE ~(k < p)
    <3>1. k - (p - 1) \in 1 .. Len(q) - p /\ p + (k - (p - 1)) = k + 1 /\ ~(k <= p - 1)
      BY <1>1, <2>1, <2>3
    <3>2. d[k] = q[k + 1]
      BY <1>3, <1>5, <1>7, <3>1
    <3> QED BY <1>1, <1>7, <2>1, <2>3, <3>2
  <2> QED BY <2>2, <2>3
<1>8. DOMAIN d = 1 .. n
  BY <1>4
<1>9. \A j, k \in 1 .. n : place[j] = place[k] => j = k
  BY <1>1
<1>10. ASSUME NEW k \in DOMAIN q \ {p} PROVE \E j \in 1 .. n : place[j] = k
  <2>1. CASE k < p
    <3>1. k \in 1 .. n /\ place[k] = k
      BY <1>1, <2>1
    <3> QED BY <3>1
  <2>2. CASE ~(k < p)
    <3>1. k - 1 \in 1 .. n /\ ~(k - 1 < p) /\ (k - 1) + 1 = k
      BY <1>1, <2>2
    <3>2. place[k - 1] = k
      BY <3>1
    <3> QED BY <3>1, <3>2
  <2> QED BY <2>1, <2>2
<1>11. Drawn(d, q, place)
  BY <1>1, <1>7, <1>8, <1>9 DEF Drawn
<1>12. \A k \in DOMAIN d : place[k] # p
  BY <1>1, <1>8
<1> HIDE DEF place
<1> QED BY <1>4, <1>6, <1>8, <1>10, <1>11, <1>12

LEMMA RestOfQueue ==
    ASSUME NEW S, NEW q \in Seq(S), q # <<>>
    PROVE  /\ Head(q) = q[1] /\ 1 \in DOMAIN q /\ Tail(q) \in Seq(S)
           /\ \E place : Drawn(Tail(q), q, place) /\ \A k \in DOMAIN Tail(q) : place[k] # 1
<1> DEFINE n == Len(q) - 1
           place == [k \in 1 .. n |-> k + 1]
<1>1. Len(q) \in Nat \ {0} /\ DOMAIN q = 1 .. Len(q)
  OBVIOUS
<1>2. Head(q) = q[1] /\ 1 \in DOMAIN q /\ Tail(q) \in Seq(S) /\ DOMAIN Tail(q) = 1 .. n /\ \A k \in 1 .. n : Tail(q)[k] = q[k + 1]
  BY <1>1
<1>3. Drawn(Tail(q), q, place)
  BY <1>1, <1>2 DEF Drawn
<1>4. \A k \in DOMAIN Tail(q) : place[k] # 1
  BY <1>1, <1>2
<1> HIDE DEF place
<1> QED BY <1>2, <1>3, <1>4

LEMMA ItemsAt ==
    ASSUME NEW S, NEW q \in Seq(S), NEW ids, ids \subseteq DOMAIN q
    PROVE  /\ At(q, ids) \in Seq(S)
           /\ \E place : Drawn(At(q, ids), q, place) /\ \A k \in DOMAIN At(q, ids) : place[k] \in ids
<1> DEFINE Below(i) == {j \in ids : j < i}
           n == Cardinality(ids)
           rank == [i \in ids |-> Cardinality(Below(i)) + 1]
<1>0. IsFiniteSet(ids) /\ ids \subseteq Nat
  <2>1. DOMAIN q = 1 .. Len(q) /\ Len(q) \in Nat
    OBVIOUS
  <2>2. IsFiniteSet(DOMAIN q)
    BY <2>1, FS_Interval
  <2> QED BY <2>1, <2>2, FS_Subset
<1>1. n \in Nat
  BY <1>0, FS_CardinalityType
<1>2. ASSUME NEW i \in ids PROVE IsFiniteSet(Below(i)) /\ Cardinality(Below(i)) \in Nat /\ Cardinality(Below(i)) < n
  <2>1. Below(i) \in SUBSET ids /\ i \notin Below(i)
    BY <1>0
  <2>2. IsFiniteSet(Below(i)) /\ Cardinality(Below(i)) <= n /\ (n = Cardinality(Below(i)) => ids = Below(i))
    BY <1>0, <2>1, FS_Subset
  <2>3. Cardinality(Below(i)) \in Nat
    BY <2>2, FS_CardinalityType
  <2> QED BY <1>1, <2>1, <2>2, <2>3
<1>3. ASSUME NEW i \in ids, NEW j \in ids, i < j PROVE Cardinality(Below(i)) < Cardinality(Below(j))
  <2>0. \A x \in ids : x < i => x < j
    <3> SUFFICES ASSUME NEW x \in ids, x < i PROVE x < j
      OBVIOUS
    <3>1. x \in Nat /\ i \in Nat /\ j \in Nat
      BY <1>0
    <3> QED BY <1>3, <3>1
  <2>3. Below(i) \subseteq Below(j)
    BY <2>0
  <2>4. i \in Below(j) /\ i \notin Below(i)
    BY <1>0, <1>3
  <2>1. Below(i) \in SUBSET Below(j) /\ Below(i) # Below(j)
    BY <2>3, <2>4
  <2>2. Cardinality(Below(i)) <= Cardinality(Below(j)) /\ (Cardinality(Below(j)) = Cardinality(Below(i)) => Below(j) = Below(i))
    BY <1>2, <2>1, FS_Subset
  <2>5. Cardinality(Below(i)) \in Nat /\ Cardinality(Below(j)) \in Nat
    BY <1>2
  <2> HIDE DEF Below
  <2> QED BY <2>1, <2>2, <2>5
<1> HIDE DEF Below, n
<1>4. ASSUME NEW i \in ids, NEW j \in ids, Cardinality(Below(i)) = Cardinality(Below(j)) PROVE i = j
  <2>1. ~(i < j) /\ ~(j < i)
    BY <1>2, <1>3, <1>4
  <2>2. i \in Nat /\ j \in Nat
    BY <1>0
  <2> QED BY <2>1, <2>2
<1>5. rank \in [ids -> 1 .. n]
  BY <1>1, <1>2
<1>6. rank \in Injection(ids, 1 .. n)
  <2>1. \A i, j \in ids : rank[i] = rank[j] => i = j
    BY <1>2, <1>4
  <2> QED BY <1>5, <2>1 DEF Injection, IsInjective
<1>7. IsFiniteSet(1 .. n) /\ Cardinality(1 .. n) = n
  BY <1>1, FS_Interval
<1>8. rank \in Surjection(ids, 1 .. n)
  BY <1>0, <1>6, <1>7, FS_Injection DEF n
<1>9. \A k \in 1 .. n : \E i \in ids : Cardinality(Below(i)) = k - 1
  <2> SUFFICES ASSUME NEW k \in 1 .. n PROVE \E i \in ids : Cardinality(Below(i)) = k - 1
    OBVIOUS
  <2>1. PICK i \in ids : rank[i] = k
    BY <1>8 DEF Surjection
  <2> QED BY <1>2, <2>1
<1> DEFINE place == [k \in 1 .. n |-> CHOOSE i \in ids : Cardinality(Below(i)) = k - 1]
<1>10. \A k \in 1 .. n : place[k] \in ids /\ Cardinality(Below(place[k])) = k - 1
  BY <1>9
<1>11. At(q, ids) = [k \in 1 .. n |-> q[place[k]]]
  BY DEF At, Below, n
<1>12. place \in [1 .. n -> ids]
  BY <1>10 DEF place
<1> HIDE DEF place
<1>13. \A k, l \in 1 .. n : place[k] = place[l] => k = l
  BY <1>10
<1>14. At(q, ids) \in Seq(S) /\ DOMAIN At(q, ids) = 1 .. n
  <2>1. \A k \in 1 .. n : q[place[k]] \in S
    BY <1>10
  <2> QED BY <1>1, <1>11, <2>1
<1>15. \A k \in 1 .. n : At(q, ids)[k] = q[place[k]]
  BY <1>11
<1>16. place \in [DOMAIN At(q, ids) -> DOMAIN q]
  BY <1>12, <1>14
<1>17. Drawn(At(q, ids), q, place)
  BY <1>13, <1>14, <1>15, <1>16 DEF Drawn
<1> QED BY <1>10, <1>14, <1>17

-----------------------------------------------------------------------------
(* The instructions in the queue are lines that were accepted, each once.  *)

Fates == {"none", "typed", "entered", "accepted", "given", "done", "reworded", "stranded", "dropped", "twice"}
QueueItems == [line : Lines \cup {None}, class : {"live", "deferred", "command", "cancel", "exit", "cancelled"},
               priority : Nat, made : {"before", "plans", "rounds"}]

QueueOk(q, f) ==
    /\ q \in Seq(QueueItems)
    /\ \A k \in DOMAIN q : q[k].line \in Lines => f[q[k].line] = "accepted"
    /\ \A j, k \in DOMAIN q : q[j].line = q[k].line /\ q[j].line \in Lines => j = k

LEMMA SameFates ==
    ASSUME NEW f, NEW g, NEW q, QueueOk(q, f), \A l \in Lines : f[l] = "accepted" => g[l] = "accepted"
    PROVE  QueueOk(q, g)
BY DEF QueueOk

\* What was accepted stays so, unless it left the queue.
LEMMA DrawnFates ==
    ASSUME NEW f, NEW g, NEW q, NEW s, QueueOk(q, f), s \in Seq(QueueItems), NEW place, Drawn(s, q, place),
           \A k \in DOMAIN s : q[place[k]].line \in Lines => g[q[place[k]].line] = "accepted"
    PROVE  QueueOk(s, g)
<1>1. \A k \in DOMAIN s : place[k] \in DOMAIN q /\ s[k] = q[place[k]]
  BY DEF Drawn
<1>2. ASSUME NEW j \in DOMAIN s, NEW k \in DOMAIN s, s[j].line = s[k].line, s[j].line \in Lines PROVE j = k
  <2>1. place[j] = place[k]
    BY <1>1, <1>2 DEF QueueOk
  <2> QED BY <2>1 DEF Drawn
<1> QED BY <1>1, <1>2 DEF QueueOk

LEMMA Enqueued ==
    ASSUME NEW f, NEW q, NEW item \in QueueItems, QueueOk(q, f),
           item.line \in Lines => f[item.line] = "accepted" /\ \A k \in DOMAIN q : q[k].line # item.line,
           NEW e, e = enqueue_instruction(q, item)
    PROVE  /\ QueueOk(e, f)
           /\ \A k \in DOMAIN q : \E j \in DOMAIN e : e[j] = q[k]
           /\ \E j \in DOMAIN e : e[j] = item
<1> DEFINE T == {k \in DOMAIN q : q[k].priority <= item.priority}
           p == Cardinality(T) + 1
           n == Len(q) + 1
<1>1. q \in Seq(QueueItems) /\ Len(q) \in Nat /\ DOMAIN q = 1 .. Len(q)
  BY DEF QueueOk
<1>2. p \in 1 .. Len(q) + 1
  <2>1. IsFiniteSet(DOMAIN q) /\ Cardinality(DOMAIN q) = Len(q)
    BY <1>1, FS_Interval
  <2>2. T \in SUBSET DOMAIN q
    OBVIOUS
  <2>3. IsFiniteSet(T) /\ Cardinality(T) <= Len(q)
    BY <2>1, <2>2, FS_Subset
  <2>4. Cardinality(T) \in Nat
    BY <2>3, FS_CardinalityType
  <2> HIDE DEF T
  <2> QED BY <1>1, <2>3, <2>4
<1>3. e = InsertAt(q, p, item)
  BY DEF enqueue_instruction
<1> HIDE DEF p
<1>4. e \in Seq(QueueItems) /\ Len(e) = n /\ \A k \in 1 .. n : e[k] = IF k < p THEN q[k] ELSE IF k = p THEN item ELSE q[k - 1]
  <2>1. q \in Seq(QueueItems) /\ p \in 1 .. Len(q) + 1 /\ item \in QueueItems
    BY <1>1, <1>2
  <2>2. e \in Seq(QueueItems) /\ Inserted(e, q, p, item)
    BY <1>3, <2>1, InsertedItem
  <2> QED BY <2>2 DEF Inserted
<1>5. DOMAIN e = 1 .. n /\ p \in 1 .. n /\ e[p] = item
  BY <1>1, <1>2, <1>4
\* Where the items of the queue are now, and where those of the new one were.
<1>6. ASSUME NEW k \in DOMAIN q PROVE \E j \in DOMAIN e : e[j] = q[k]
  <2>1. CASE k < p
    <3>1. k \in 1 .. n
      BY <1>1
    <3> QED BY <1>4, <1>5, <2>1, <3>1
  <2>2. CASE ~(k < p)
    <3>1. k + 1 \in 1 .. n /\ ~(k + 1 < p) /\ k + 1 # p /\ (k + 1) - 1 = k
      BY <1>1, <1>2, <2>2
    <3>2. e[k + 1] = q[k]
      BY <1>4, <3>1
    <3> QED BY <1>5, <3>1, <3>2
  <2> QED BY <2>1, <2>2
<1> DEFINE was == [k \in 1 .. n |-> IF k < p THEN k ELSE k - 1]
<1>7. ASSUME NEW k \in DOMAIN e, k # p PROVE was[k] \in DOMAIN q /\ e[k] = q[was[k]]
  <2>1. k \in 1 .. n
    BY <1>5
  <2>2. CASE k < p
    BY <1>1, <1>2, <1>4, <2>1, <2>2
  <2>3. CASE ~(k < p)
    BY <1>1, <1>2, <1>4, <1>7, <2>1, <2>3
  <2> QED BY <2>2, <2>3
<1>8. \A j, k \in DOMAIN e \ {p} : was[j] = was[k] => j = k
  BY <1>1, <1>2, <1>5
<1> HIDE DEF was
<1>9. \A k \in DOMAIN e : e[k].line \in Lines => f[e[k].line] = "accepted"
  BY <1>5, <1>7 DEF QueueOk
<1>10. ASSUME NEW j \in DOMAIN e, NEW k \in DOMAIN e, e[j].line = e[k].line, e[j].line \in Lines PROVE j = k
  <2>1. CASE j # p /\ k # p
    BY <1>7, <1>8, <1>10, <2>1 DEF QueueOk
  <2>2. CASE j = p /\ k # p
    BY <1>5, <1>7, <1>10, <2>2
  <2>3. CASE j # p /\ k = p
    BY <1>5, <1>7, <1>10, <2>3
  <2> QED BY <2>1, <2>2, <2>3
<1> QED BY <1>4, <1>5, <1>6, <1>9, <1>10 DEF QueueOk

-----------------------------------------------------------------------------
(* Where the lines are.                                                    *)

Numbers == 1 .. MaxLines
Listeners == [active : BOOLEAN, paused : BOOLEAN, interrupt : {"none", "cancel", "exit", "stall"}]
JobStates == [child : {"none", "runs", "announced", "gone"}, record : {"none", "running", "completed", "stopped"},
         read : {"none", "running", "completed", "stopped"}]

TypedShape ==
    /\ repl \in {"look", "prompt", "listing", "turn", "over"}
    /\ turn \in {"none", "plans", "works", "pausing", "gate", "ending"} /\ back \in {"plans", "works"}
    /\ outcome \in {"none", "done", "stopped", "exited"} /\ stopped \in {"no", "none", "plans", "works", "ending"}
    /\ turn # "none" <=> repl = "turn"
    /\ input \in {"none", "starting", "prompt", "entered", "closing", "leaving"}
    /\ buffer \in Numbers \cup {None} /\ draft \in Numbers \cup {None} /\ editing \in Lines \cup {None}
    /\ listener \in Listeners /\ job \in JobStates /\ used \in 0 .. MaxLines
    /\ fate \in [Lines -> Fates]

\* A line that is typed is before the user or kept for the next prompt; one
\* that was entered is on its way.
Hands ==
    /\ turn = "none" => input = "none" /\ draft = None
    /\ draft # None => input \notin {"prompt", "entered"} /\ fate[draft] = "typed"
    /\ input = "prompt" /\ buffer # None => fate[buffer] = "typed"
    /\ input = "entered" => buffer # None /\ fate[buffer] = "entered"
    /\ repl = "prompt" /\ buffer # None => fate[buffer] = "typed"
    /\ repl \in {"look", "listing"} => buffer = None
    /\ \A l \in Lines : fate[l] = "typed" => l = draft \/ (l = buffer /\ (input = "prompt" \/ repl = "prompt"))
    /\ \A l \in Lines : fate[l] # "twice" /\ (l > used => fate[l] = "none")
    /\ job.child \in {"none", "runs"} => fate[Result] = "none"

\* A turn that was stopped in its rounds, and goes on, has the stop in its queue.
StopOk(where, t, q) ==
    where = "works" /\ t \in {"plans", "works", "pausing", "gate"}
        => \E k \in DOMAIN q : IsStop(q[k]) /\ q[k].made = "rounds"

TypedInv == TypedShape /\ Hands /\ QueueOk(queue, fate) /\ StopOk(stopped, turn, queue)

LEMMA LineFacts == None \notin Lines /\ Numbers \subseteq Lines /\ Result \in Lines /\ Result \notin Numbers /\ MaxLines \in Nat
BY TypedAssumption DEF Lines, Numbers, Result

LEMMA TypedItem ==
    ASSUME NEW line \in Lines \cup {None}, NEW class \in {"live", "deferred", "command", "cancel", "exit", "cancelled"},
           NEW priority \in Nat
    PROVE  Item(line, class, priority) \in QueueItems /\ Item(line, class, priority).line = line
BY DEF Item, QueueItems, Made

\* The message of no line goes into the queue.
LEMMA StopQueued ==
    ASSUME NEW f, NEW q, QueueOk(q, f), NEW class \in {"cancel", "exit"}, NEW e, e = enqueue_instruction(q, Item(None, class, 100))
    PROVE  /\ QueueOk(e, f)
           /\ \A k \in DOMAIN q : \E j \in DOMAIN e : e[j] = q[k]
           /\ \E j \in DOMAIN e : e[j] = Item(None, class, 100)
<1>1. Item(None, class, 100) \in QueueItems /\ Item(None, class, 100).line = None
  BY TypedItem
<1>2. Item(None, class, 100).line \notin Lines
  BY <1>1, LineFacts
<1> QED BY <1>1, <1>2, Enqueued

LEMMA Interrupted ==
    ASSUME TypedInv, NEW class \in {"cancel", "exit", "stall"}, NEW q, NEW f, Interrupt(class, q), QueueOk(q, f),
           \A k \in DOMAIN queue : \E j \in DOMAIN q : q[j] = queue[k],
           class = "stall" => turn = "works"
    PROVE  /\ QueueOk(queue', f) /\ StopOk(stopped', turn', queue')
           /\ listener' \in Listeners /\ (turn' = turn \/ (turn' = "ending" /\ turn # "none"))
           /\ outcome' \in {"none", "done", "stopped", "exited"} /\ stopped' \in {"no", "none", "plans", "works", "ending"}
<1>0. TypedShape /\ StopOk(stopped, turn, queue)
  BY DEF TypedInv
<1>1. CASE listener.interrupt # "none"
  <2>1. queue' = q /\ UNCHANGED <<listener, turn, outcome, stopped>>
    BY <1>1 DEF Interrupt
  <2> QED BY <1>0, <2>1 DEF TypedShape, StopOk
<1>2. CASE listener.interrupt = "none"
  <2>1. /\ listener' = [listener EXCEPT !.paused = TRUE, !.interrupt = class] /\ stopped' = Phase
        /\ queue' = IF class = "stall" THEN q ELSE enqueue_instruction(q, Item(None, class, 100))
        /\ IF turn \in {"plans", "works"} THEN turn' = "ending" /\ outcome' = OutcomeOf(class) ELSE UNCHANGED <<turn, outcome>>
    BY <1>2 DEF Interrupt
  <2>2. listener' \in Listeners
    BY <1>0, <2>1 DEF TypedShape, Listeners
  <2>3. Phase \in {"none", "plans", "works", "ending"}
    BY <1>0 DEF TypedShape, Phase
  <2>4. QueueOk(queue', f)
    BY <2>1, StopQueued
  <2>5. StopOk(stopped', turn', queue')
    <3>1. CASE turn \in {"plans", "works"}
      BY <2>1, <3>1 DEF StopOk
    <3>2. CASE turn \notin {"plans", "works"} /\ stopped' = "works"
      <4>1. class # "stall"
        BY <3>2
      <4>2. PICK j \in DOMAIN queue' : queue'[j] = Item(None, class, 100)
        BY <2>1, <4>1, StopQueued
      <4>3. IsStop(queue'[j]) /\ queue'[j].made = "rounds"
        BY <2>1, <3>2, <4>1, <4>2 DEF IsStop, Item, Stops, Made
      <4> QED BY <4>3 DEF StopOk
    <3>3. CASE stopped' # "works"
      BY <3>3 DEF StopOk
    <3> QED BY <3>1, <3>2, <3>3
  <2>6. outcome' \in {"none", "done", "stopped", "exited"}
    BY <1>0, <2>1 DEF TypedShape, OutcomeOf
  <2> QED BY <1>0, <2>1, <2>2, <2>3, <2>4, <2>5, <2>6
<1> QED BY <1>1, <1>2

-----------------------------------------------------------------------------
(* The composer.                                                           *)

LEMMA KeyInterruptTyped == ASSUME TypedInv, KeyInterrupt PROVE TypedInv'
<1> USE LineFacts
<1>1. PICK class \in {"cancel", "exit"} : Interrupt(class, queue)
  BY DEF KeyInterrupt
<1>2. /\ input = "prompt" /\ input' = "none" /\ buffer' = None /\ fate' = Drop(fate, {buffer} \cap Lines)
      /\ UNCHANGED <<repl, back, marker, draft, editing, job, used>>
  BY DEF KeyInterrupt
<1>3. TypedShape /\ Hands /\ QueueOk(queue, fate)
  BY DEF TypedInv
<1>4. fate' = [l \in Lines |-> IF l = buffer THEN "dropped" ELSE fate[l]]
  BY <1>2 DEF Drop
<1>5. QueueOk(queue, fate')
  <2>1. \A l \in Lines : fate[l] = "accepted" => fate'[l] = "accepted"
    BY <1>2, <1>3, <1>4 DEF Hands
  <2> QED BY <1>3, <2>1, SameFates
<1>6. /\ QueueOk(queue', fate') /\ StopOk(stopped', turn', queue')
      /\ listener' \in Listeners /\ (turn' = turn \/ (turn' = "ending" /\ turn # "none"))
      /\ outcome' \in {"none", "done", "stopped", "exited"} /\ stopped' \in {"no", "none", "plans", "works", "ending"}
  BY <1>1, <1>5, Interrupted
<1>7. TypedShape'
  BY <1>2, <1>3, <1>4, <1>6 DEF TypedShape, Fates
<1>8. Hands'
  BY <1>2, <1>3, <1>4, <1>6 DEF TypedShape, Hands
<1> QED BY <1>6, <1>7, <1>8 DEF TypedInv

LEMMA OtherInterruptTyped == ASSUME TypedInv, KeyWhileClosing \/ Stall PROVE TypedInv'
<1>1. PICK class \in {"cancel", "exit", "stall"} : Interrupt(class, queue) /\ (class = "stall" => turn = "works")
  BY DEF KeyWhileClosing, Stall
<1>2. UNCHANGED <<repl, back, input, marker, buffer, draft, editing, job, used, fate>>
  BY DEF KeyWhileClosing, Stall, prompt
<1>3. TypedShape /\ Hands /\ QueueOk(queue, fate)
  BY DEF TypedInv
<1>6. /\ QueueOk(queue', fate) /\ StopOk(stopped', turn', queue')
      /\ listener' \in Listeners /\ (turn' = turn \/ (turn' = "ending" /\ turn # "none"))
      /\ outcome' \in {"none", "done", "stopped", "exited"} /\ stopped' \in {"no", "none", "plans", "works", "ending"}
  BY <1>1, <1>3, Interrupted
<1>7. TypedShape'
  BY <1>2, <1>3, <1>6 DEF TypedShape
<1>8. Hands'
  BY <1>2, <1>3, <1>6 DEF TypedShape, Hands
<1> QED BY <1>2, <1>6, <1>7, <1>8 DEF TypedInv

\* Steps that leave the queue alone, and every fate but a line's in hand.
LEMMA QueueAside ==
    ASSUME TypedInv, UNCHANGED <<queue, turn, stopped>>, TypedShape', Hands',
           \A l \in Lines : fate[l] = "accepted" => fate'[l] = "accepted"
    PROVE  TypedInv'
<1>1. QueueOk(queue, fate')
  BY SameFates DEF TypedInv
<1> QED BY <1>1 DEF TypedInv

LEMMA OpenPromptTyped == ASSUME TypedInv, OpenPrompt PROVE TypedInv'
<1>1. TypedShape /\ Hands
  BY DEF TypedInv
<1>2. /\ input = "starting" /\ UNCHANGED <<queue, repl, turn, back, outcome, stopped, listener, editing, job, used, fate>>
      /\ \/ input' = "prompt" /\ buffer' = draft /\ draft' = None
         \/ input' = "none" /\ UNCHANGED <<buffer, draft>>
  BY DEF OpenPrompt, running
<1>3. TypedShape'
  BY <1>1, <1>2 DEF TypedShape
<1>4. Hands'
  BY <1>1, <1>2, LineFacts DEF TypedShape, Hands
<1> QED BY <1>2, <1>3, <1>4, QueueAside

\* A new line.
LEMMA TypeTyped == ASSUME TypedInv, Type \/ _recall_latest_queued \/ TypeIdle PROVE TypedInv'
<1> USE LineFacts
<1>1. TypedShape /\ Hands /\ QueueOk(queue, fate)
  BY DEF TypedInv
<1>2. /\ buffer = None /\ used < MaxLines /\ used' = used + 1 /\ buffer' = used + 1 /\ fate' = [fate EXCEPT ![used + 1] = "typed"]
      /\ UNCHANGED <<queue, repl, turn, back, outcome, stopped, listener, input, draft, job>>
      /\ input = "prompt" \/ repl = "prompt"
  BY DEF Type, _recall_latest_queued, TypeIdle, running
<1>3. editing' \in Lines \cup {None}
  <2>1. CASE Type \/ TypeIdle
    BY <1>1, <2>1 DEF Type, TypeIdle, TypedShape
  <2>2. CASE _recall_latest_queued
    <3>1. PICK k \in DOMAIN queue : editing' = queue[k].line
      BY <2>2 DEF _recall_latest_queued
    <3>2. queue \in Seq(QueueItems)
      BY <1>1 DEF QueueOk
    <3>3. queue[k] \in QueueItems
      BY <3>1, <3>2
    <3> QED BY <3>1, <3>3 DEF QueueItems
  <2> QED BY <2>1, <2>2
<1>4. used + 1 \in Numbers /\ used + 1 \in Lines /\ fate[used + 1] = "none" /\ used + 1 > used /\ used \in Nat
  <2>1. used \in Nat /\ used + 1 \in Numbers /\ used + 1 > used
    BY <1>1, <1>2 DEF TypedShape, Numbers
  <2> QED BY <1>1, <2>1 DEF Hands
<1>5. fate \in [Lines -> Fates] /\ \A l \in Lines : fate'[l] = IF l = used + 1 THEN "typed" ELSE fate[l]
  BY <1>1, <1>2 DEF TypedShape
<1>6. TypedShape'
  <2>1. used' \in 0 .. MaxLines
    BY <1>1, <1>2 DEF TypedShape
  <2>2. fate' \in [Lines -> Fates]
    BY <1>2, <1>5 DEF Fates
  <2> QED BY <1>1, <1>2, <1>3, <1>4, <2>1, <2>2 DEF TypedShape
<1>7. \A l \in Lines : l > used + 1 => l > used
  BY <1>4 DEF Lines
<1>8. Hands'
  <2>1. repl \notin {"look", "listing"}
    BY <1>1, <1>2 DEF TypedShape, Hands
  <2>2. draft = None
    BY <1>1, <1>2 DEF TypedShape, Hands
  <2>3. input # "entered"
    BY <1>1, <1>2 DEF TypedShape, Hands
  <2>4. \A l \in Lines : fate'[l] # "twice" /\ (l > used' => fate'[l] = "none")
    <3>1. \A l \in Lines : l > used + 1 => l # used + 1
      BY <1>4 DEF Lines
    <3> QED BY <1>1, <1>2, <1>5, <1>7, <3>1 DEF Hands
  <2>5. \A l \in Lines : fate'[l] = "typed" => l = buffer'
    BY <1>1, <1>2, <1>5, <2>2 DEF Hands
  <2>6. fate'[buffer'] = "typed" /\ fate'[Result] = fate[Result]
    BY <1>2, <1>4, <1>5
  <2> QED BY <1>1, <1>2, <2>1, <2>2, <2>3, <2>4, <2>5, <2>6 DEF Hands
<1>9. \A l \in Lines : fate[l] = "accepted" => fate'[l] = "accepted"
  BY <1>4, <1>5
<1> QED BY <1>2, <1>6, <1>8, <1>9, QueueAside

LEMMA PressEnterTyped == ASSUME TypedInv, PressEnter PROVE TypedInv'
<1> USE LineFacts
<1>1. TypedShape /\ Hands
  BY DEF TypedInv
<1>2. /\ input = "prompt" /\ buffer # None /\ input' = "entered" /\ fate' = [fate EXCEPT ![buffer] = "entered"]
      /\ UNCHANGED <<queue, repl, turn, back, outcome, stopped, listener, buffer, draft, editing, job, used>>
  BY DEF PressEnter, running
<1>3. buffer \in Lines /\ fate[buffer] = "typed" /\ buffer # Result /\ draft = None
  BY <1>1, <1>2 DEF TypedShape, Hands
<1>4. fate' \in [Lines -> Fates] /\ \A l \in Lines : fate'[l] = IF l = buffer THEN "entered" ELSE fate[l]
  BY <1>1, <1>2, <1>3 DEF TypedShape, Fates
<1>5. TypedShape'
  BY <1>1, <1>2, <1>4 DEF TypedShape
<1>6. Hands'
  BY <1>1, <1>2, <1>3, <1>4 DEF TypedShape, Hands
<1>7. \A l \in Lines : fate[l] = "accepted" => fate'[l] = "accepted"
  BY <1>3, <1>4
<1> QED BY <1>2, <1>5, <1>6, <1>7, QueueAside

\* A line of no queue goes into one.
LEMMA LineQueued ==
    ASSUME TypedInv, NEW line \in Lines, fate[line] # "accepted", NEW priority \in Nat,
           NEW class \in {"live", "deferred", "command", "cancelled"}, NEW f, f[line] = "accepted",
           \A l \in Lines : fate[l] = "accepted" => f[l] = "accepted",
           NEW e, e = enqueue_instruction(queue, Item(line, class, priority))
    PROVE  QueueOk(e, f) /\ \A k \in DOMAIN queue : \E j \in DOMAIN e : e[j] = queue[k]
<1>1. Item(line, class, priority) \in QueueItems /\ Item(line, class, priority).line = line
  BY TypedItem
<1>2. QueueOk(queue, fate)
  BY DEF TypedInv
<1>3. QueueOk(queue, f)
  BY <1>2, SameFates
<1>4. \A k \in DOMAIN queue : queue[k].line # line
  BY <1>2 DEF QueueOk
<1> QED BY <1>1, <1>3, <1>4, Enqueued

LEMMA StopKept ==
    ASSUME NEW where, NEW t, NEW q, NEW e, StopOk(where, t, q), \A k \in DOMAIN q : \E j \in DOMAIN e : e[j] = q[k]
    PROVE  StopOk(where, t, e)
<1> SUFFICES ASSUME where = "works", t \in {"plans", "works", "pausing", "gate"}
             PROVE \E k \in DOMAIN e : IsStop(e[k]) /\ e[k].made = "rounds"
  BY DEF StopOk
<1>1. PICK k \in DOMAIN q : IsStop(q[k]) /\ q[k].made = "rounds"
  BY DEF StopOk
<1>2. PICK j \in DOMAIN e : e[j] = q[k]
  BY <1>1
<1> QED BY <1>1, <1>2

\* The line in the prompt has become something, and the prompt is empty.
LEMMA LineDone ==
    ASSUME TypedInv, input = "entered", input' \in {"none", "prompt"}, buffer' = None, UNCHANGED <<repl, back, draft, job, used>>,
           NEW what \in {"done", "accepted", "dropped"}, fate'[buffer] = what, fate' \in [Lines -> Fates],
           \A l \in Lines \ {buffer} : fate'[l] = fate[l] \/ (fate[l] = "accepted" /\ fate'[l] = "reworded"),
           editing' \in Lines \cup {None}, listener' \in Listeners, turn' = turn \/ (turn' = "ending" /\ turn # "none"),
           outcome' \in {"none", "done", "stopped", "exited"}, stopped' \in {"no", "none", "plans", "works", "ending"},
           QueueOk(queue', fate'), StopOk(stopped', turn', queue')
    PROVE  TypedInv'
<1> USE LineFacts
<1>1. TypedShape /\ Hands
  BY DEF TypedInv
<1>2. buffer \in Numbers /\ draft = None /\ turn # "none" /\ repl = "turn" /\ fate[buffer] = "entered"
  BY <1>1 DEF TypedShape, Hands
<1>3. TypedShape'
  BY <1>1, <1>2 DEF TypedShape
<1>4. fate'[Result] = fate[Result] \/ fate[Result] = "accepted"
  BY <1>2
<1>5. \A l \in Lines : fate'[l] # "typed"
  BY <1>1, <1>2 DEF Hands
<1>6. \A l \in Lines : fate'[l] # "twice" /\ (l > used' => fate'[l] = "none")
  <2>1. \A l \in Lines : fate'[l] = fate[l] \/ fate[l] \in {"entered", "accepted"}
    BY <1>2
  <2>2. \A l \in Lines : fate'[l] = fate[l] \/ fate'[l] \in {"done", "accepted", "dropped", "reworded"}
    BY <1>2
  <2> QED BY <1>1, <2>1, <2>2 DEF Hands
<1>7. Hands'
  BY <1>1, <1>2, <1>4, <1>5, <1>6 DEF Hands
<1> QED BY <1>3, <1>7 DEF TypedInv

\* What the actions of _enqueue have in common.
LEMMA SubmittingFacts ==
    ASSUME TypedInv, Submitting
    PROVE  /\ TypedShape /\ Hands /\ QueueOk(queue, fate) /\ StopOk(stopped, turn, queue)
           /\ buffer \in Numbers /\ buffer \in Lines /\ fate[buffer] = "entered"
           /\ input = "entered" /\ buffer' = None /\ UNCHANGED <<repl, back, draft, job, used>>
           /\ Reopen => input' \in {"none", "prompt"}
           /\ \A what \in {"done", "accepted", "dropped"} : Became(what) =>
                /\ fate' \in [Lines -> Fates] /\ fate'[buffer] = what /\ \A l \in Lines \ {buffer} : fate'[l] = fate[l]
                /\ \A l \in Lines : fate[l] = "accepted" => fate'[l] = "accepted"
<1>1. TypedShape /\ Hands /\ QueueOk(queue, fate) /\ StopOk(stopped, turn, queue)
  BY DEF TypedInv
<1>2. input = "entered" /\ buffer' = None /\ UNCHANGED <<repl, back, draft, job, used>>
  BY DEF Submitting
<1>3. buffer \in Numbers /\ buffer \in Lines /\ fate[buffer] = "entered" /\ fate \in [Lines -> Fates]
  BY <1>1, <1>2, LineFacts DEF TypedShape, Hands
<1>4. ASSUME NEW what \in {"done", "accepted", "dropped"}, Became(what)
      PROVE  /\ fate' \in [Lines -> Fates] /\ fate'[buffer] = what /\ \A l \in Lines \ {buffer} : fate'[l] = fate[l]
             /\ \A l \in Lines : fate[l] = "accepted" => fate'[l] = "accepted"
  BY <1>3, <1>4 DEF Became, Fates
<1>5. Reopen => input' \in {"none", "prompt"}
  BY DEF Reopen
<1> QED BY <1>1, <1>2, <1>3, <1>4, <1>5

LEMMA AsideTyped == ASSUME TypedInv, Aside PROVE TypedInv'
<1>1. Submitting /\ Became("done") /\ Reopen /\ UNCHANGED <<queue, turn, outcome, stopped, listener, editing>>
  BY DEF Aside
<1>2. QueueOk(queue, fate')
  BY <1>1, SubmittingFacts, SameFates
<1>3. /\ editing' \in Lines \cup {None} /\ listener' \in Listeners
      /\ outcome' \in {"none", "done", "stopped", "exited"} /\ stopped' \in {"no", "none", "plans", "works", "ending"}
  BY <1>1, SubmittingFacts DEF TypedShape
<1>4. StopOk(stopped', turn', queue') /\ QueueOk(queue', fate')
  BY <1>1, <1>2, SubmittingFacts
<1> QED BY <1>1, <1>3, <1>4, SubmittingFacts, LineDone

LEMMA StopTypedTyped == ASSUME TypedInv, StopTyped PROVE TypedInv'
<1>1. PICK class \in {"cancel", "exit"} : Interrupt(class, queue)
  BY DEF StopTyped
<1>2. Submitting /\ Became("done") /\ Reopen /\ UNCHANGED editing
  BY DEF StopTyped
<1>3. QueueOk(queue, fate')
  BY <1>2, SubmittingFacts, SameFates
<1>4. /\ QueueOk(queue', fate') /\ StopOk(stopped', turn', queue')
      /\ listener' \in Listeners /\ (turn' = turn \/ (turn' = "ending" /\ turn # "none"))
      /\ outcome' \in {"none", "done", "stopped", "exited"} /\ stopped' \in {"no", "none", "plans", "works", "ending"}
  BY <1>1, <1>3, Interrupted
<1>5. editing' \in Lines \cup {None}
  BY <1>2, SubmittingFacts DEF TypedShape
<1> QED BY <1>2, <1>4, <1>5, SubmittingFacts, LineDone

LEMMA CommandTypedTyped == ASSUME TypedInv, CommandTyped PROVE TypedInv'
<1>1. Submitting /\ Became("accepted") /\ Accept("command", 50) /\ Reopen /\ UNCHANGED <<turn, outcome, stopped, listener, editing>>
  BY DEF CommandTyped
<1>2. queue' = enqueue_instruction(queue, Item(buffer, "command", 50)) /\ fate[buffer] # "accepted" /\ buffer \in Lines
  BY <1>1, SubmittingFacts DEF Accept
<1>3. fate'[buffer] = "accepted" /\ \A l \in Lines : fate[l] = "accepted" => fate'[l] = "accepted"
  BY <1>1, SubmittingFacts
<1>4. QueueOk(queue', fate') /\ \A k \in DOMAIN queue : \E j \in DOMAIN queue' : queue'[j] = queue[k]
  BY <1>2, <1>3, LineQueued
<1>5. StopOk(stopped', turn', queue')
  BY <1>1, <1>4, SubmittingFacts, StopKept
<1>6. /\ editing' \in Lines \cup {None} /\ listener' \in Listeners
      /\ outcome' \in {"none", "done", "stopped", "exited"} /\ stopped' \in {"no", "none", "plans", "works", "ending"}
  BY <1>1, SubmittingFacts DEF TypedShape
<1> QED BY <1>1, <1>4, <1>5, <1>6, SubmittingFacts, LineDone

\* A line that is queued with a stop of the turn.
LEMMA StoppedWith ==
    ASSUME TypedInv, Submitting, Became("accepted"), Reopen, editing' \in Lines \cup {None},
           NEW class \in {"live", "cancelled"}, NEW priority \in Nat,
           Interrupt("cancel", enqueue_instruction(queue, Item(buffer, class, priority)))
    PROVE  TypedInv'
<1>1. PICK q : q = enqueue_instruction(queue, Item(buffer, class, priority))
  OBVIOUS
<1>2. fate[buffer] # "accepted" /\ buffer \in Lines
  BY SubmittingFacts
<1>3. fate'[buffer] = "accepted" /\ \A l \in Lines : fate[l] = "accepted" => fate'[l] = "accepted"
  BY SubmittingFacts
<1>4. QueueOk(q, fate') /\ \A k \in DOMAIN queue : \E j \in DOMAIN q : q[j] = queue[k]
  BY <1>1, <1>2, <1>3, LineQueued
<1>5. /\ QueueOk(queue', fate') /\ StopOk(stopped', turn', queue')
      /\ listener' \in Listeners /\ (turn' = turn \/ (turn' = "ending" /\ turn # "none"))
      /\ outcome' \in {"none", "done", "stopped", "exited"} /\ stopped' \in {"no", "none", "plans", "works", "ending"}
  <2>1. Interrupt("cancel", q)
    BY <1>1
  <2> QED BY <1>4, <2>1, Interrupted
<1> QED BY <1>5, SubmittingFacts, LineDone

LEMMA ScopeCorrected == ASSUME TypedInv, _handle_live_scope_correction \/ Farewell PROVE TypedInv'
<1>1. CASE _handle_live_scope_correction
  <2>1. editing' \in Lines \cup {None}
    BY <1>1 DEF _handle_live_scope_correction, TypedInv, TypedShape
  <2> QED BY <1>1, <2>1, StoppedWith DEF _handle_live_scope_correction
<1>2. CASE Farewell
  <2>1. editing' \in Lines \cup {None}
    BY <1>2 DEF Farewell
  <2> QED BY <1>2, <2>1, StoppedWith DEF Farewell
<1> QED BY <1>1, <1>2

LEMMA FollowUpTyped == ASSUME TypedInv, FollowUp PROVE TypedInv'
<1>1. PICK class \in {"live", "deferred"} : Accept(class, 100)
  BY DEF FollowUp
<1>2. Submitting /\ Became("accepted") /\ Reopen /\ editing' = None /\ UNCHANGED <<turn, outcome, stopped, listener>>
  BY DEF FollowUp
<1>3. queue' = enqueue_instruction(queue, Item(buffer, class, 100)) /\ fate[buffer] # "accepted" /\ buffer \in Lines
  BY <1>1, <1>2, SubmittingFacts DEF Accept
<1>4. fate'[buffer] = "accepted" /\ \A l \in Lines : fate[l] = "accepted" => fate'[l] = "accepted"
  BY <1>2, SubmittingFacts
<1>5. QueueOk(queue', fate') /\ \A k \in DOMAIN queue : \E j \in DOMAIN queue' : queue'[j] = queue[k]
  BY <1>3, <1>4, LineQueued
<1>6. StopOk(stopped', turn', queue')
  BY <1>2, <1>5, SubmittingFacts, StopKept
<1>7. /\ editing' \in Lines \cup {None} /\ listener' \in Listeners
      /\ outcome' \in {"none", "done", "stopped", "exited"} /\ stopped' \in {"no", "none", "plans", "works", "ending"}
  BY <1>2, SubmittingFacts DEF TypedShape
<1> QED BY <1>2, <1>5, <1>6, <1>7, SubmittingFacts, LineDone

LEMMA EditTyped == ASSUME TypedInv, edit_queued_instruction PROVE TypedInv'
<1> USE LineFacts
<1>1. /\ Submitting /\ editing # None /\ Queued(editing) /\ editing' = None /\ UNCHANGED <<turn, outcome, stopped, listener>> /\ Reopen
      /\ queue' = [k \in DOMAIN queue |-> IF queue[k].line = editing THEN [queue[k] EXCEPT !.line = buffer] ELSE queue[k]]
      /\ fate' = [fate EXCEPT ![buffer] = "accepted", ![editing] = "reworded"]
  BY DEF edit_queued_instruction
<1>2. TypedShape /\ QueueOk(queue, fate) /\ StopOk(stopped, turn, queue) /\ buffer \in Lines /\ fate[buffer] = "entered"
  BY <1>1, SubmittingFacts
<1>3. editing \in Lines /\ fate[editing] = "accepted" /\ editing # buffer
  <2>1. editing \in Lines
    BY <1>1, <1>2 DEF TypedShape
  <2> QED BY <1>1, <1>2, <2>1 DEF Queued, QueueOk
<1>4. /\ fate' \in [Lines -> Fates] /\ fate'[buffer] = "accepted" /\ fate'[editing] = "reworded"
      /\ \A l \in Lines \ {buffer, editing} : fate'[l] = fate[l]
  BY <1>1, <1>2, <1>3 DEF TypedShape, Fates
<1>5. queue \in Seq(QueueItems) /\ DOMAIN queue' = DOMAIN queue /\ DOMAIN queue = 1 .. Len(queue) /\ Len(queue) \in Nat
  BY <1>1, <1>2 DEF QueueOk
<1>6. ASSUME NEW k \in DOMAIN queue
      PROVE  /\ queue'[k] \in QueueItems /\ queue'[k].line = (IF queue[k].line = editing THEN buffer ELSE queue[k].line)
             /\ queue'[k].class = queue[k].class /\ queue'[k].made = queue[k].made
  <2>1. queue[k] \in QueueItems
    BY <1>5
  <2> QED BY <1>1, <1>2, <2>1 DEF QueueItems
<1>7. queue' \in Seq(QueueItems)
  <2>1. queue' = [k \in 1 .. Len(queue) |-> queue'[k]] /\ \A k \in 1 .. Len(queue) : queue'[k] \in QueueItems
    BY <1>1, <1>5, <1>6
  <2>2. queue' \in [1 .. Len(queue) -> QueueItems]
    BY <2>1
  <2> QED BY <1>5, <2>2
<1>8. \A k \in DOMAIN queue : queue[k].line # buffer
  BY <1>2 DEF QueueOk
<1>9. QueueOk(queue', fate')
  <2>1. \A k \in DOMAIN queue' : queue'[k].line \in Lines => fate'[queue'[k].line] = "accepted"
    BY <1>2, <1>3, <1>4, <1>5, <1>6, <1>8 DEF QueueOk
  <2>2. \A j, k \in DOMAIN queue' : queue'[j].line = queue'[k].line /\ queue'[j].line \in Lines => j = k
    BY <1>2, <1>3, <1>5, <1>6, <1>8 DEF QueueOk
  <2> QED BY <1>7, <2>1, <2>2 DEF QueueOk
<1>10. StopOk(stopped', turn', queue')
  BY <1>1, <1>2, <1>5, <1>6 DEF StopOk, IsStop
<1>11. listener' \in Listeners /\ outcome' \in {"none", "done", "stopped", "exited"} /\ stopped' \in {"no", "none", "plans", "works", "ending"}
  BY <1>1, <1>2 DEF TypedShape
<1>12. \A l \in Lines \ {buffer} : fate'[l] = fate[l] \/ (fate[l] = "accepted" /\ fate'[l] = "reworded")
  BY <1>3, <1>4
<1>13. input = "entered" /\ input' \in {"none", "prompt"} /\ buffer' = None /\ UNCHANGED <<repl, back, draft, job, used>>
  BY <1>1, SubmittingFacts
<1> QED BY <1>1, <1>4, <1>9, <1>10, <1>11, <1>12, <1>13, LineDone

LEMMA EnqueueTyped == ASSUME TypedInv, _enqueue PROVE TypedInv'
<1>1. CASE EnteredTooLate
  <2>1. /\ input = "entered" /\ input' = "none" /\ buffer' = None /\ Became("dropped")
        /\ UNCHANGED <<queue, repl, turn, back, outcome, stopped, listener, draft, editing, job, used>>
    BY <1>1 DEF EnteredTooLate, running
  <2>2. TypedShape /\ Hands /\ QueueOk(queue, fate) /\ StopOk(stopped, turn, queue)
    BY DEF TypedInv
  <2>3. buffer \in Lines /\ fate[buffer] = "entered"
    BY <2>1, <2>2, LineFacts DEF TypedShape, Hands
  <2>4. fate' \in [Lines -> Fates] /\ fate'[buffer] = "dropped" /\ \A l \in Lines \ {buffer} : fate'[l] = fate[l]
    BY <2>1, <2>2, <2>3 DEF Became, TypedShape, Fates
  <2>5. \A l \in Lines : fate[l] = "accepted" => fate'[l] = "accepted"
    BY <2>3, <2>4
  <2>6. QueueOk(queue', fate') /\ StopOk(stopped', turn', queue')
    BY <2>1, <2>2, <2>5, SameFates
  <2>7. /\ editing' \in Lines \cup {None} /\ listener' \in Listeners
        /\ outcome' \in {"none", "done", "stopped", "exited"} /\ stopped' \in {"no", "none", "plans", "works", "ending"}
    BY <2>1, <2>2 DEF TypedShape
  <2> QED BY <2>1, <2>4, <2>6, <2>7, LineDone
<1> QED BY <1>1, AsideTyped, StopTypedTyped, CommandTypedTyped, ScopeCorrected, FollowUpTyped, EditTyped DEF _enqueue

-----------------------------------------------------------------------------
(* The turn.                                                               *)

LEMMA ClosedTyped == ASSUME TypedInv, Closed PROVE TypedInv'
<1>1. TypedShape /\ Hands
  BY DEF TypedInv
<1>2. /\ input \in {"closing", "leaving"} /\ input' = "none"
      /\ UNCHANGED <<queue, repl, turn, back, outcome, stopped, listener, buffer, draft, editing, job, used, fate>>
  BY DEF Closed, running
<1>3. TypedShape'
  BY <1>1, <1>2 DEF TypedShape
<1>4. Hands'
  BY <1>1, <1>2 DEF TypedShape, Hands
<1> QED BY <1>2, <1>3, <1>4, QueueAside

\* What is in the prompt is kept when it is asked to exit.
LEMMA PromptExit ==
    ASSUME TypedShape, Hands, NEW next \in {"closing", "leaving"}, _request_prompt_exit(next)
    PROVE  /\ buffer' \in Numbers \cup {None} /\ draft' \in Numbers \cup {None}
           /\ input = "prompt" => /\ input' = next /\ buffer' = None
                                  /\ draft' = IF buffer = None THEN draft ELSE buffer
           /\ input # "prompt" => UNCHANGED <<buffer, draft>>
BY DEF _request_prompt_exit, TypedShape

LEMMA PauseTyped == ASSUME TypedInv, pause_async PROVE TypedInv'
<1> USE LineFacts
<1>1. TypedShape /\ Hands /\ QueueOk(queue, fate) /\ StopOk(stopped, turn, queue)
  BY DEF TypedInv
<1>2. /\ turn \in {"plans", "works"} /\ back' = turn /\ listener' = [listener EXCEPT !.paused = TRUE]
      /\ _request_prompt_exit("closing")
      /\ UNCHANGED <<queue, repl, outcome, stopped, editing, job, used>>
      /\ \/ input = "none" /\ turn' = "gate" /\ UNCHANGED <<input, fate>>
         \/ /\ input # "none" /\ turn' = "pausing" /\ input' = "closing"
            /\ fate' = IF input = "entered" THEN Drop(fate, {buffer}) ELSE fate
  BY DEF pause_async
<1>3. /\ buffer' \in Numbers \cup {None} /\ draft' \in Numbers \cup {None}
      /\ input = "prompt" => buffer' = None /\ draft' = IF buffer = None THEN draft ELSE buffer
      /\ input # "prompt" => UNCHANGED <<buffer, draft>>
  BY <1>1, <1>2, PromptExit
<1>4. listener' \in Listeners /\ repl = "turn" /\ input' \in {"none", "closing"} /\ turn' \in {"gate", "pausing"}
  BY <1>1, <1>2 DEF TypedShape, Listeners
<1>5. /\ fate' \in [Lines -> Fates]
      /\ \A l \in Lines : fate'[l] = IF input = "entered" /\ l = buffer THEN "dropped" ELSE fate[l]
  BY <1>1, <1>2 DEF Drop, TypedShape, Fates
<1>6. input = "entered" => buffer \in Numbers /\ fate[buffer] = "entered"
  BY <1>1 DEF TypedShape, Hands
<1>7. TypedShape'
  BY <1>1, <1>2, <1>3, <1>4, <1>5 DEF TypedShape
<1>8. Hands'
  <2>1. draft' # None => fate'[draft'] = "typed"
    BY <1>1, <1>2, <1>3, <1>5, <1>6 DEF Hands, TypedShape
  <2>2. \A l \in Lines : fate'[l] = "typed" => l = draft'
    <3>1. \A l \in Lines : fate'[l] = "typed" => fate[l] = "typed"
      BY <1>5
    <3>2. \A l \in Lines : fate[l] = "typed" => l = draft \/ (l = buffer /\ input = "prompt")
      BY <1>1, <1>4 DEF Hands
    <3>3. input = "prompt" => draft = None
      BY <1>1 DEF Hands
    <3> QED BY <1>3, <3>1, <3>2, <3>3
  <2>3. \A l \in Lines : fate'[l] # "twice" /\ (l > used' => fate'[l] = "none")
    BY <1>1, <1>2, <1>5, <1>6 DEF Hands
  <2>4. fate'[Result] = fate[Result]
    BY <1>5, <1>6
  <2> QED BY <1>1, <1>2, <1>4, <2>1, <2>2, <2>3, <2>4 DEF Hands
<1>9. QueueOk(queue', fate')
  <2>1. \A l \in Lines : fate[l] = "accepted" => fate'[l] = "accepted"
    BY <1>5, <1>6
  <2> QED BY <1>1, <1>2, <2>1, SameFates
<1>10. StopOk(stopped', turn', queue')
  BY <1>1, <1>2 DEF StopOk
<1> QED BY <1>7, <1>8, <1>9, <1>10 DEF TypedInv

LEMMA GateTyped == ASSUME TypedInv, GateOpens \/ resume PROVE TypedInv'
<1>1. TypedShape /\ Hands /\ QueueOk(queue, fate) /\ StopOk(stopped, turn, queue)
  BY DEF TypedInv
<1>2. /\ turn \in {"pausing", "gate"} /\ turn' \in {"gate", back}
      /\ UNCHANGED <<queue, repl, back, outcome, stopped, buffer, draft, editing, job, used, fate>>
  BY DEF GateOpens, resume, prompt
<1>3. listener' \in Listeners /\ (input' = input \/ (input = "none" /\ input' = "starting"))
  BY <1>1 DEF GateOpens, resume, prompt, TypedShape, Listeners
<1>4. repl = "turn" /\ turn' \in {"plans", "works", "gate"}
  BY <1>1, <1>2 DEF TypedShape
<1>5. TypedShape'
  BY <1>1, <1>2, <1>3, <1>4 DEF TypedShape
<1>6. Hands'
  BY <1>1, <1>2, <1>3, <1>4 DEF Hands
<1>7. QueueOk(queue', fate') /\ StopOk(stopped', turn', queue')
  BY <1>1, <1>2, <1>4 DEF StopOk
<1> QED BY <1>5, <1>6, <1>7 DEF TypedInv

LEMMA TurnEndsTyped == ASSUME TypedInv, TurnEnds PROVE TypedInv'
<1>1. TypedShape /\ Hands /\ QueueOk(queue, fate) /\ StopOk(stopped, turn, queue)
  BY DEF TypedInv
<1>2. /\ turn \in {"plans", "works"} /\ turn' = "ending" /\ outcome' = "done"
      /\ UNCHANGED <<queue, repl, back, stopped, listener, input, buffer, draft, editing, job, used, fate>>
  BY DEF TurnEnds, prompt
<1>3. TypedShape'
  BY <1>1, <1>2 DEF TypedShape
<1>4. Hands'
  BY <1>1, <1>2 DEF Hands
<1>5. QueueOk(queue', fate') /\ StopOk(stopped', turn', queue')
  BY <1>1, <1>2 DEF StopOk
<1> QED BY <1>3, <1>4, <1>5 DEF TypedInv

LEMMA StopAsyncTyped == ASSUME TypedInv, _stop_async PROVE TypedInv'
<1> USE LineFacts
<1>1. TypedShape /\ Hands
  BY DEF TypedInv
<1>2. /\ turn = "ending" /\ listener' = [listener EXCEPT !.active = FALSE] /\ _request_prompt_exit("leaving")
      /\ input # "prompt" => UNCHANGED input
      /\ UNCHANGED <<queue, repl, turn, back, outcome, stopped, editing, job, used, fate>>
  BY DEF _stop_async, running
<1>3. /\ buffer' \in Numbers \cup {None} /\ draft' \in Numbers \cup {None}
      /\ input = "prompt" => input' = "leaving" /\ buffer' = None /\ draft' = IF buffer = None THEN draft ELSE buffer
      /\ input # "prompt" => UNCHANGED <<buffer, draft>>
  BY <1>1, <1>2, PromptExit
<1>4. listener' \in Listeners /\ repl = "turn"
  BY <1>1, <1>2 DEF TypedShape, Listeners
<1>5. TypedShape'
  BY <1>1, <1>2, <1>3, <1>4 DEF TypedShape
<1>6. Hands'
  <2>1. CASE input = "prompt"
    BY <1>1, <1>2, <1>3, <1>4, <2>1 DEF Hands
  <2>2. CASE input # "prompt"
    BY <1>1, <1>2, <1>3, <1>4, <2>2 DEF Hands
  <2> QED BY <2>1, <2>2
<1> QED BY <1>2, <1>5, <1>6, QueueAside

LEMMA TurnOverTyped == ASSUME TypedInv, TurnOver PROVE TypedInv'
<1> USE LineFacts
<1>1. TypedShape /\ Hands /\ QueueOk(queue, fate)
  BY DEF TypedInv
<1>2. /\ turn = "ending" /\ input = "none" /\ repl' \in {"over", "look"}
      /\ turn' = "none" /\ back' = "plans" /\ outcome' = "none" /\ stopped' = "no" /\ listener' = Off
      /\ buffer' = None /\ draft' = None /\ editing' = None /\ fate' = Drop(fate, {draft} \cap Lines)
      /\ UNCHANGED <<queue, input, job, used>>
  BY DEF TurnOver
<1>3. listener' \in Listeners
  BY <1>2 DEF Off, Listeners
<1>4. fate' \in [Lines -> Fates] /\ \A l \in Lines : fate'[l] = IF l = draft THEN "dropped" ELSE fate[l]
  BY <1>1, <1>2 DEF Drop, TypedShape, Fates
<1>5. draft # None => draft \in Numbers /\ fate[draft] = "typed"
  BY <1>1 DEF TypedShape, Hands
<1>6. TypedShape'
  BY <1>1, <1>2, <1>3, <1>4 DEF TypedShape
<1>7. Hands'
  <2>1. repl = "turn"
    BY <1>1, <1>2 DEF TypedShape
  <2>2. \A l \in Lines : fate'[l] # "typed"
    BY <1>1, <1>2, <1>4, <2>1 DEF Hands
  <2>3. \A l \in Lines : fate'[l] # "twice" /\ (l > used' => fate'[l] = "none")
    BY <1>1, <1>2, <1>4, <1>5 DEF Hands
  <2>4. fate'[Result] = fate[Result]
    BY <1>4, <1>5
  <2> QED BY <1>1, <1>2, <2>2, <2>3, <2>4 DEF Hands
<1>8. QueueOk(queue', fate')
  <2>1. \A l \in Lines : fate[l] = "accepted" => fate'[l] = "accepted"
    BY <1>4, <1>5
  <2> QED BY <1>1, <1>2, <2>1, SameFates
<1>9. StopOk(stopped', turn', queue')
  BY <1>2 DEF StopOk
<1> QED BY <1>6, <1>7, <1>8, <1>9 DEF TypedInv

\* The next round: what is claimed leaves the queue, and is given or stranded.
LEMMA RoundTyped == ASSUME TypedInv, Round PROVE TypedInv' /\ stopped' # "ignored"
<1> USE LineFacts
<1>1. TypedShape /\ Hands /\ QueueOk(queue, fate) /\ StopOk(stopped, turn, queue)
  BY DEF TypedInv
<1> DEFINE claimed == _claim_live_queued_instructions
           stops == {k \in claimed : IsStop(queue[k])}
           given == LinesOf({k \in claimed : \A j \in stops : k < j})
           left == {k \in DOMAIN queue : queue[k].class \notin Live}
<1>2. /\ turn \in {"plans", "works"} /\ queue' = At(queue, left)
      /\ fate' = [l \in Lines |-> IF l \in LinesOf(claimed) \ given THEN "stranded" ELSE Give(fate, given)[l]]
      /\ UNCHANGED <<repl, back, listener, input, buffer, draft, editing, job, used>>
  BY DEF Round, prompt
<1>3. \/ /\ stops = {} /\ turn' = "works" /\ UNCHANGED outcome
         /\ stopped' = IF stopped = "works" THEN "ignored" ELSE stopped
      \/ /\ turn' = "ending" /\ UNCHANGED stopped
         /\ \E first \in stops : outcome' = OutcomeOf(queue[first].class)
  BY DEF Round
<1>4. claimed \subseteq DOMAIN queue /\ \A k \in claimed : queue[k].class \in Live
  BY DEF _claim_live_queued_instructions
<1>5. stops = {} => stopped # "works"
  <2> SUFFICES ASSUME stopped = "works" PROVE stops # {}
    OBVIOUS
  <2>1. PICK k \in DOMAIN queue : IsStop(queue[k]) /\ queue[k].made = "rounds"
    BY <1>1, <1>2 DEF StopOk
  <2>2. queue[k].class \in Live /\ ~Stale(queue[k])
    BY <2>1 DEF IsStop, Live, Stale
  <2>3. k \in stops
    BY <2>1, <2>2 DEF _claim_live_queued_instructions
  <2> QED BY <2>3
<1>6. \A l \in LinesOf(claimed) : l \in Lines /\ fate[l] = "accepted" /\ \E k \in claimed : queue[k].line = l
  BY <1>1, <1>4 DEF LinesOf, QueueOk
<1>7. given \subseteq LinesOf(claimed)
  BY DEF LinesOf
<1> HIDE DEF claimed, stops, given
<1>8. \A l \in Lines : fate'[l] = IF l \in LinesOf(claimed) THEN (IF l \in given THEN "given" ELSE "stranded") ELSE fate[l]
  BY <1>2, <1>6, <1>7 DEF Give
<1>9. fate' \in [Lines -> Fates]
  <2>1. \A l \in Lines : fate'[l] \in Fates
    BY <1>1, <1>8 DEF TypedShape, Fates
  <2> QED BY <1>2, <2>1
<1>10. outcome' \in {"none", "done", "stopped", "exited"} /\ stopped' = stopped /\ turn' \in {"works", "ending"}
  BY <1>1, <1>3, <1>5 DEF TypedShape, OutcomeOf
<1>11. repl = "turn" /\ turn # "none"
  BY <1>1, <1>2 DEF TypedShape
<1>12. TypedShape'
  BY <1>1, <1>2, <1>9, <1>10, <1>11 DEF TypedShape
<1>13. Hands'
  <2>1. \A l \in Lines : fate'[l] # "twice" /\ (l > used' => fate'[l] = "none")
    BY <1>1, <1>2, <1>6, <1>8 DEF Hands
  <2>2. fate[Result] = "none" => fate'[Result] = "none"
    BY <1>6, <1>8
  <2>3. draft' # None => fate'[draft'] = "typed"
    BY <1>1, <1>2, <1>6, <1>8 DEF Hands, TypedShape
  <2>4. buffer # None /\ fate[buffer] \in {"typed", "entered"} => fate'[buffer] = fate[buffer]
    BY <1>1, <1>6, <1>8 DEF TypedShape
  <2>5. \A l \in Lines : fate'[l] = "typed" => fate[l] = "typed"
    BY <1>8
  <2> QED BY <1>1, <1>2, <1>10, <1>11, <2>1, <2>2, <2>3, <2>4, <2>5 DEF Hands
<1>14. QueueOk(queue', fate')
  <2>1. queue \in Seq(QueueItems) /\ left \subseteq DOMAIN queue
    BY <1>1 DEF QueueOk
  <2>2. PICK s : s = At(queue, left)
    OBVIOUS
  <2>3. PICK place : Drawn(s, queue, place) /\ (\A k \in DOMAIN s : place[k] \in left) /\ s \in Seq(QueueItems)
    <3> HIDE DEF left
    <3>1. /\ At(queue, left) \in Seq(QueueItems)
          /\ \E place : Drawn(At(queue, left), queue, place) /\ \A k \in DOMAIN At(queue, left) : place[k] \in left
      BY <2>1, ItemsAt
    <3> QED BY <2>2, <3>1
  <2>4. \A k \in left : queue[k].line \in Lines => queue[k].line \notin LinesOf(claimed)
    BY <1>1, <1>4, <1>6 DEF QueueOk
  <2>5. \A k \in left : queue[k].line \in Lines => fate'[queue[k].line] = "accepted"
    BY <1>1, <1>8, <2>4 DEF QueueOk
  <2> HIDE DEF left
  <2>6. \A k \in DOMAIN s : queue[place[k]].line \in Lines => fate'[queue[place[k]].line] = "accepted"
    BY <2>3, <2>5
  <2>7. QueueOk(s, fate')
    BY <1>1, <2>3, <2>6, DrawnFates
  <2> QED BY <1>2, <2>2, <2>7
<1>15. StopOk(stopped', turn', queue')
  <2>1. CASE turn' = "ending"
    BY <2>1 DEF StopOk
  <2>2. CASE turn' # "ending"
    <3>1. stopped' # "works"
      BY <1>3, <1>5, <1>10, <2>2
    <3> QED BY <3>1 DEF StopOk
  <2> QED BY <2>1, <2>2
<1> QED BY <1>10, <1>12, <1>13, <1>14, <1>15 DEF TypedInv, TypedShape

-----------------------------------------------------------------------------
(* The loop.                                                               *)

\* A turn starts with lines of the queue, or the one that was typed.
LEMMA Started ==
    ASSUME TypedInv, turn = "none", repl # "turn", NEW q, NEW given \in SUBSET (Lines \cup {None}), StartTurn(q, given),
           \A l \in given \cap Lines : fate[l] \in {"typed", "accepted"}, q \in Seq(QueueItems),
           \A k \in DOMAIN q : q[k].line \in Lines => fate[q[k].line] = "accepted" /\ q[k].line \notin given,
           \A j, k \in DOMAIN q : q[j].line = q[k].line /\ q[j].line \in Lines => j = k,
           buffer # None => buffer \in given, buffer' = None, UNCHANGED <<draft, editing, job, used>>
    PROVE  TypedInv'
<1> USE LineFacts
<1>1. TypedShape /\ Hands
  BY DEF TypedInv
<1>2. /\ repl' = "turn" /\ turn' = "plans" /\ back' = "plans" /\ outcome' = "none" /\ stopped' = "no"
      /\ listener' = [Off EXCEPT !.active = TRUE] /\ input' = "starting"
      /\ queue' = [k \in DOMAIN q |-> [q[k] EXCEPT !.made = "before"]]
      /\ fate' = Give(fate, given)
  BY DEF StartTurn
<1>3. listener' \in Listeners
  BY <1>2 DEF Off, Listeners
<1>4. \A l \in Lines : fate'[l] = IF l \in given THEN "given" ELSE fate[l]
  BY <1>2 DEF Give
<1>5. fate' \in [Lines -> Fates]
  <2>1. \A l \in Lines : fate'[l] \in Fates
    BY <1>1, <1>4 DEF TypedShape, Fates
  <2>2. fate' = [l \in Lines |-> fate'[l]]
    BY <1>2 DEF Give
  <2> QED BY <2>1, <2>2
<1>6. TypedShape'
  BY <1>1, <1>2, <1>3, <1>5 DEF TypedShape
<1>7. Hands'
  <2>1. draft = None /\ input = "none"
    BY <1>1 DEF Hands
  <2>2. \A l \in Lines : fate'[l] # "typed"
    BY <1>1, <1>4, <2>1 DEF Hands
  <2>3. \A l \in Lines : fate'[l] # "twice" /\ (l > used' => fate'[l] = "none")
    BY <1>1, <1>4 DEF Hands
  <2>4. fate[Result] = "none" => fate'[Result] = "none"
    BY <1>4
  <2> QED BY <1>1, <1>2, <2>1, <2>2, <2>3, <2>4 DEF Hands
<1>8. DOMAIN queue' = DOMAIN q /\ DOMAIN q = 1 .. Len(q) /\ Len(q) \in Nat
  BY <1>2
<1>9. ASSUME NEW k \in DOMAIN q PROVE queue'[k] \in QueueItems /\ queue'[k].line = q[k].line
  <2>1. q[k] \in QueueItems
    OBVIOUS
  <2> QED BY <1>2, <2>1 DEF QueueItems
<1>10. queue' \in Seq(QueueItems)
  <2>1. queue' = [k \in 1 .. Len(q) |-> queue'[k]] /\ \A k \in 1 .. Len(q) : queue'[k] \in QueueItems
    BY <1>2, <1>8, <1>9
  <2>2. queue' \in [1 .. Len(q) -> QueueItems]
    BY <2>1
  <2> QED BY <1>8, <2>2
<1>11. QueueOk(queue', fate')
  <2>1. \A k \in DOMAIN queue' : queue'[k].line \in Lines => fate'[queue'[k].line] = "accepted"
    BY <1>4, <1>8, <1>9
  <2>2. \A j, k \in DOMAIN queue' : queue'[j].line = queue'[k].line /\ queue'[j].line \in Lines => j = k
    BY <1>8, <1>9
  <2> QED BY <1>10, <2>1, <2>2 DEF QueueOk
<1>12. StopOk(stopped', turn', queue')
  BY <1>2 DEF StopOk
<1> QED BY <1>6, <1>7, <1>11, <1>12 DEF TypedInv

\* The queue without its first instruction.
LEMMA RestFacts ==
    ASSUME TypedInv, queue # <<>>
    PROVE  /\ Tail(queue) \in Seq(QueueItems) /\ Head(queue) \in QueueItems
           /\ Head(queue).line \in Lines => fate[Head(queue).line] = "accepted"
           /\ \A k \in DOMAIN Tail(queue) : Tail(queue)[k].line \in Lines =>
                /\ fate[Tail(queue)[k].line] = "accepted" /\ Tail(queue)[k].line # Head(queue).line
           /\ \A j, k \in DOMAIN Tail(queue) : Tail(queue)[j].line = Tail(queue)[k].line /\ Tail(queue)[j].line \in Lines => j = k
<1>1. QueueOk(queue, fate)
  BY DEF TypedInv
<1>2. queue \in Seq(QueueItems)
  BY <1>1 DEF QueueOk
<1>3. Head(queue) = queue[1] /\ 1 \in DOMAIN queue /\ Tail(queue) \in Seq(QueueItems)
  BY <1>2, RestOfQueue
<1>4. PICK place : Drawn(Tail(queue), queue, place) /\ \A k \in DOMAIN Tail(queue) : place[k] # 1
  BY <1>2, RestOfQueue
<1>5. Head(queue) \in QueueItems
  BY <1>2, <1>3
<1>6. PICK s : s = Tail(queue)
  OBVIOUS
<1>7. \A k \in DOMAIN s : place[k] \in DOMAIN queue /\ s[k] = queue[place[k]] /\ place[k] # 1
  BY <1>4, <1>6 DEF Drawn
<1>8. ASSUME NEW k \in DOMAIN s, s[k].line \in Lines PROVE fate[s[k].line] = "accepted" /\ s[k].line # queue[1].line
  BY <1>1, <1>3, <1>7, <1>8 DEF QueueOk
<1>9. ASSUME NEW j \in DOMAIN s, NEW k \in DOMAIN s, s[j].line = s[k].line, s[j].line \in Lines PROVE j = k
  <2>1. place[j] = place[k]
    BY <1>1, <1>7, <1>9 DEF QueueOk
  <2> QED BY <1>4, <1>6, <2>1 DEF Drawn
<1>10. Head(queue).line \in Lines => fate[Head(queue).line] = "accepted"
  BY <1>1, <1>3 DEF QueueOk
<1> QED BY <1>3, <1>5, <1>6, <1>8, <1>9, <1>10

LEMMA RunTyped == ASSUME TypedInv, RunQueued \/ RunTask PROVE TypedInv'
<1> USE LineFacts
<1>1. TypedShape /\ Hands /\ QueueOk(queue, fate)
  BY DEF TypedInv
<1>2. CASE RunQueued
  <2>1. /\ repl = "look" /\ queue # <<>> /\ StartTurn(Tail(queue), {Head(queue).line})
        /\ UNCHANGED <<buffer, draft, editing, job, used>>
    BY <1>2 DEF RunQueued
  <2>2. turn = "none" /\ repl # "turn" /\ buffer = None
    BY <1>1, <2>1 DEF TypedShape, Hands
  <2>3. PICK q, given : q = Tail(queue) /\ given = {Head(queue).line}
    OBVIOUS
  <2>4. given \in SUBSET (Lines \cup {None}) /\ (\A l \in given \cap Lines : fate[l] \in {"typed", "accepted"}) /\ q \in Seq(QueueItems)
    <3>1. Head(queue) \in QueueItems /\ Tail(queue) \in Seq(QueueItems) /\ (Head(queue).line \in Lines => fate[Head(queue).line] = "accepted")
      BY <2>1, RestFacts
    <3>2. Head(queue).line \in Lines \cup {None}
      BY <3>1 DEF QueueItems
    <3> QED BY <2>3, <3>1, <3>2
  <2>5. /\ \A k \in DOMAIN q : q[k].line \in Lines => fate[q[k].line] = "accepted" /\ q[k].line \notin given
        /\ \A j, k \in DOMAIN q : q[j].line = q[k].line /\ q[j].line \in Lines => j = k
    BY <2>1, <2>3, RestFacts
  <2>6. StartTurn(q, given)
    BY <2>1, <2>3
  <2> QED BY <2>1, <2>2, <2>4, <2>5, <2>6, Started
<1>3. CASE RunTask
  <2>1. /\ repl = "prompt" /\ buffer # None /\ StartTurn(queue, {buffer}) /\ buffer' = None
        /\ UNCHANGED <<draft, editing, job, used>>
    BY <1>3 DEF RunTask, Submitted
  <2>2. turn = "none" /\ repl # "turn" /\ buffer \in Lines /\ fate[buffer] = "typed"
    BY <1>1, <2>1 DEF TypedShape, Hands
  <2>3. PICK q, given : q = queue /\ given = {buffer}
    OBVIOUS
  <2>4. given \in SUBSET (Lines \cup {None}) /\ (\A l \in given \cap Lines : fate[l] \in {"typed", "accepted"}) /\ q \in Seq(QueueItems)
    BY <1>1, <2>2, <2>3 DEF QueueOk
  <2>5. /\ \A k \in DOMAIN q : q[k].line \in Lines => fate[q[k].line] = "accepted" /\ q[k].line \notin given
        /\ \A j, k \in DOMAIN q : q[j].line = q[k].line /\ q[j].line \in Lines => j = k
    BY <1>1, <2>2, <2>3 DEF QueueOk
  <2>6. StartTurn(q, given) /\ buffer \in given
    BY <2>1, <2>3
  <2> QED BY <2>1, <2>2, <2>4, <2>5, <2>6, Started
<1> QED BY <1>2, <1>3

\* Steps of the loop, and of another terminal, while no turn starts.
LEMMA LookTyped == ASSUME TypedInv, Look \/ FinishListing \/ WriteRecord PROVE TypedInv'
<1>1. TypedShape /\ Hands
  BY DEF TypedInv
<1>2. /\ UNCHANGED <<queue, turn, back, outcome, stopped, listener, input, buffer, draft, editing, used, fate>>
      /\ repl' = repl \/ (repl = "look" /\ repl' = "prompt") \/ (repl = "listing" /\ repl' = "look")
      /\ job' = job \/ (job.child = "announced" /\ job' = [job EXCEPT !.child = "gone", !.record = "completed"])
                    \/ job' = [child |-> "gone", record |-> "stopped", read |-> "none"] \/ job' = [job EXCEPT !.read = "none"]
  BY DEF Look, FinishListing, WriteRecord, running, prompt
<1>3. job' \in JobStates /\ (job'.child \in {"none", "runs"} => job'.child = job.child)
  <2>1. job \in JobStates
    BY <1>1 DEF TypedShape
  <2>2. CASE job' = job
    BY <2>1, <2>2
  <2>3. CASE job' = [job EXCEPT !.child = "gone", !.record = "completed"]
    BY <2>1, <2>3 DEF JobStates
  <2>4. CASE job' = [child |-> "gone", record |-> "stopped", read |-> "none"]
    BY <2>4 DEF JobStates
  <2>5. CASE job' = [job EXCEPT !.read = "none"]
    BY <2>1, <2>5 DEF JobStates
  <2> QED BY <1>2, <2>2, <2>3, <2>4, <2>5
<1>4. TypedShape'
  BY <1>1, <1>2, <1>3 DEF TypedShape
<1>5. Hands'
  BY <1>1, <1>2, <1>3 DEF Hands
<1> QED BY <1>2, <1>4, <1>5, QueueAside

\* The first instruction is taken without a turn.
LEMMA FirstTaken == ASSUME TypedInv, DropStop \/ RunCommand PROVE TypedInv'
<1> USE LineFacts
<1>1. TypedShape /\ Hands
  BY DEF TypedInv
<1>2. /\ repl = "look" /\ queue # <<>> /\ queue' = Tail(queue)
      /\ UNCHANGED <<repl, turn, back, outcome, stopped, listener, input, buffer, draft, editing, job, used>>
      /\ fate' = fate \/ fate' = Give(fate, {Head(queue).line})
  BY DEF DropStop, RunCommand, running, prompt
<1>3. \A l \in Lines : fate'[l] = fate[l] \/ (l = Head(queue).line /\ fate[l] = "accepted" /\ fate'[l] = "given")
  <2>1. Head(queue).line \in Lines => fate[Head(queue).line] = "accepted"
    BY <1>2, RestFacts
  <2> QED BY <1>2, <2>1 DEF Give
<1>4. fate' \in [Lines -> Fates]
  <2>1. \A l \in Lines : fate'[l] \in Fates
    BY <1>1, <1>3 DEF TypedShape, Fates
  <2>2. fate' = [l \in Lines |-> fate'[l]]
    BY <1>1, <1>2 DEF Give, TypedShape
  <2> QED BY <2>1, <2>2
<1>5. TypedShape'
  BY <1>1, <1>2, <1>4 DEF TypedShape
<1>6. turn = "none" /\ input = "none" /\ draft = None
  BY <1>1, <1>2 DEF TypedShape, Hands
<1>7. Hands'
  <2>1. \A l \in Lines : fate'[l] # "twice" /\ (l > used' => fate'[l] = "none") /\ (fate'[l] = "typed" => fate[l] = "typed")
    BY <1>1, <1>2, <1>3 DEF Hands
  <2>2. fate[Result] = "none" => fate'[Result] = "none"
    BY <1>3
  <2> QED BY <1>1, <1>2, <1>6, <2>1, <2>2 DEF Hands
<1>8. QueueOk(queue', fate')
  <2>1. \A k \in DOMAIN queue' : queue'[k].line \in Lines => fate'[queue'[k].line] = "accepted"
    <3>1. \A k \in DOMAIN queue' : queue'[k].line \in Lines => fate[queue'[k].line] = "accepted" /\ queue'[k].line # Head(queue).line
      BY <1>2, RestFacts
    <3> QED BY <1>3, <3>1
  <2>2. queue' \in Seq(QueueItems) /\ \A j, k \in DOMAIN queue' : queue'[j].line = queue'[k].line /\ queue'[j].line \in Lines => j = k
    BY <1>2, RestFacts
  <2> QED BY <2>1, <2>2 DEF QueueOk
<1>9. StopOk(stopped', turn', queue')
  BY <1>2, <1>6 DEF StopOk
<1> QED BY <1>5, <1>7, <1>8, <1>9 DEF TypedInv

\* The idle prompt is answered or left, and its line has become something.
LEMMA PromptAnswered ==
    ASSUME TypedInv, repl = "prompt", repl' \in {"look", "listing", "over"}, buffer' = None,
           UNCHANGED <<turn, back, outcome, stopped, listener, input, draft, editing, used>>,
           job' \in JobStates, job'.child \in {"none", "runs"} => job.child \in {"none", "runs"},
           fate' \in [Lines -> Fates], \A l \in Lines : fate'[l] = IF l = buffer THEN fate'[l] ELSE fate[l],
           buffer # None => fate'[buffer] \in {"accepted", "done", "dropped"}, QueueOk(queue', fate')
    PROVE  TypedInv'
<1> USE LineFacts
<1>1. TypedShape /\ Hands
  BY DEF TypedInv
<1>2. turn = "none" /\ input = "none" /\ draft = None /\ (buffer # None => buffer \in Numbers /\ fate[buffer] = "typed")
  BY <1>1 DEF TypedShape, Hands
<1>3. TypedShape'
  BY <1>1, <1>2 DEF TypedShape
<1>4. Hands'
  <2>1. \A l \in Lines : fate'[l] # "twice" /\ (l > used' => fate'[l] = "none")
    BY <1>1, <1>2 DEF Hands
  <2>2. \A l \in Lines : fate'[l] # "typed"
    BY <1>1, <1>2 DEF Hands
  <2>3. fate'[Result] = fate[Result]
    BY <1>2
  <2> QED BY <1>1, <1>2, <2>1, <2>2, <2>3 DEF Hands
<1>5. StopOk(stopped', turn', queue')
  BY <1>2 DEF StopOk
<1> QED BY <1>3, <1>4, <1>5 DEF TypedInv

LEMMA SubmittedFacts ==
    ASSUME TypedInv, Submitted
    PROVE  /\ TypedShape /\ Hands /\ QueueOk(queue, fate) /\ buffer \in Numbers /\ buffer \in Lines /\ fate[buffer] = "typed" /\ repl = "prompt"
           /\ \A what \in {"done", "accepted"} : Became(what) =>
                /\ fate' \in [Lines -> Fates] /\ fate'[buffer] = what /\ \A l \in Lines \ {buffer} : fate'[l] = fate[l]
                /\ \A l \in Lines : fate[l] = "accepted" => fate'[l] = "accepted"
<1>1. TypedShape /\ Hands /\ QueueOk(queue, fate) /\ repl = "prompt" /\ buffer # None
  BY DEF TypedInv, Submitted
<1>2. buffer \in Numbers /\ buffer \in Lines /\ fate[buffer] = "typed" /\ fate \in [Lines -> Fates]
  BY <1>1, LineFacts DEF TypedShape, Hands
<1>3. ASSUME NEW what \in {"done", "accepted"}, Became(what)
      PROVE  /\ fate' \in [Lines -> Fates] /\ fate'[buffer] = what /\ \A l \in Lines \ {buffer} : fate'[l] = fate[l]
             /\ \A l \in Lines : fate[l] = "accepted" => fate'[l] = "accepted"
  BY <1>2, <1>3 DEF Became, Fates
<1> QED BY <1>1, <1>2, <1>3

LEMMA IdleTyped == ASSUME TypedInv, IdleCommand \/ spawn_background_task \/ read_job PROVE TypedInv'
<1>1. /\ Submitted /\ repl' \in {"look", "listing"} /\ buffer' = None
      /\ UNCHANGED <<turn, back, outcome, stopped, listener, input, draft, editing, used>>
  BY DEF IdleCommand, spawn_background_task, read_job, running
<1>2. TypedShape /\ QueueOk(queue, fate) /\ buffer \in Lines /\ fate[buffer] = "typed" /\ repl = "prompt"
  BY <1>1, SubmittedFacts
<1>3. job' \in JobStates /\ (job'.child \in {"none", "runs"} => job.child \in {"none", "runs"})
  BY <1>2 DEF TypedShape, JobStates, IdleCommand, spawn_background_task, read_job
<1>4. /\ fate' \in [Lines -> Fates] /\ (\A l \in Lines : fate'[l] = IF l = buffer THEN fate'[l] ELSE fate[l])
      /\ fate'[buffer] \in {"accepted", "done", "dropped"} /\ QueueOk(queue', fate')
  <2>1. CASE Became("done") /\ UNCHANGED queue
    <3>1. /\ fate' \in [Lines -> Fates] /\ fate'[buffer] = "done" /\ \A l \in Lines \ {buffer} : fate'[l] = fate[l]
          /\ \A l \in Lines : fate[l] = "accepted" => fate'[l] = "accepted"
      BY <1>1, <2>1, SubmittedFacts
    <3>2. QueueOk(queue, fate')
      BY <1>2, <3>1, SameFates
    <3> QED BY <2>1, <3>1, <3>2
  <2>2. CASE queue' = enqueue_instruction(queue, Item(buffer, "live", 100)) /\ Became("accepted")
    <3>1. /\ fate' \in [Lines -> Fates] /\ fate'[buffer] = "accepted" /\ \A l \in Lines \ {buffer} : fate'[l] = fate[l]
          /\ \A l \in Lines : fate[l] = "accepted" => fate'[l] = "accepted"
      BY <1>1, <2>2, SubmittedFacts
    <3>2. QueueOk(queue', fate')
      BY <1>2, <2>2, <3>1, LineQueued
    <3> QED BY <3>1, <3>2
  <2>3. (Became("done") /\ UNCHANGED queue) \/ (queue' = enqueue_instruction(queue, Item(buffer, "live", 100)) /\ Became("accepted"))
    BY DEF IdleCommand, spawn_background_task, read_job
  <2> QED BY <2>1, <2>2, <2>3
<1> QED BY <1>1, <1>2, <1>3, <1>4, PromptAnswered

LEMMA LeaveTyped == ASSUME TypedInv, Leave \/ _wait_for_background_reinjection PROVE TypedInv'
<1>1. TypedShape /\ Hands /\ QueueOk(queue, fate)
  BY DEF TypedInv
<1>2. /\ repl = "prompt" /\ repl' \in {"look", "over"} /\ buffer' = None /\ fate' = Drop(fate, {buffer} \cap Lines)
      /\ UNCHANGED <<queue, turn, back, outcome, stopped, listener, input, draft, editing, job, used>>
  BY DEF Leave, _wait_for_background_reinjection, running
<1>3. fate' \in [Lines -> Fates] /\ \A l \in Lines : fate'[l] = IF l = buffer THEN "dropped" ELSE fate[l]
  BY <1>1, <1>2 DEF Drop, TypedShape, Fates
<1>4. buffer # None => buffer \in Lines /\ fate[buffer] = "typed" /\ fate'[buffer] = "dropped"
  BY <1>1, <1>2, <1>3, LineFacts DEF TypedShape, Hands
<1>5. QueueOk(queue', fate')
  <2>1. \A l \in Lines : fate[l] = "accepted" => fate'[l] = "accepted"
    BY <1>3, <1>4, LineFacts
  <2> QED BY <1>1, <1>2, <2>1, SameFates
<1>6. job' \in JobStates /\ job'.child = job.child
  BY <1>1, <1>2 DEF TypedShape
<1> QED BY <1>2, <1>3, <1>4, <1>5, <1>6, PromptAnswered

-----------------------------------------------------------------------------
(* Another terminal, and the background job.                               *)

LEMMA QueueCommandTyped == ASSUME TypedInv, queue_command \/ QueueCancel PROVE TypedInv'
<1> USE LineFacts
<1>1. TypedShape /\ Hands /\ QueueOk(queue, fate) /\ StopOk(stopped, turn, queue)
  BY DEF TypedInv
<1>2. /\ used < MaxLines /\ used' = used + 1
      /\ UNCHANGED <<repl, turn, back, outcome, stopped, listener, input, buffer, draft, editing, job>>
      /\ \/ /\ fate' = [fate EXCEPT ![used + 1] = "accepted"]
            /\ \E class \in {"live", "deferred"} : queue' = enqueue_instruction(queue, Item(used + 1, class, 100))
         \/ /\ fate' = [fate EXCEPT ![used + 1] = "done"]
            /\ queue' = enqueue_instruction(queue, Item(None, "cancel", 100))
  BY DEF queue_command, QueueCancel, running, prompt
<1>3. used + 1 \in Numbers /\ used + 1 \in Lines /\ fate[used + 1] = "none" /\ used \in Nat
  <2>1. used \in Nat /\ used + 1 \in Numbers /\ used + 1 > used
    BY <1>1, <1>2 DEF TypedShape, Numbers
  <2> QED BY <1>1, <2>1 DEF Hands
<1>4. /\ fate' \in [Lines -> Fates] /\ fate'[used + 1] \in {"accepted", "done"}
      /\ \A l \in Lines \ {used + 1} : fate'[l] = fate[l]
  BY <1>1, <1>2, <1>3 DEF TypedShape, Fates
<1>5. \A l \in Lines : fate[l] = "accepted" => fate'[l] = "accepted"
  BY <1>3, <1>4
<1>6. QueueOk(queue', fate') /\ \A k \in DOMAIN queue : \E j \in DOMAIN queue' : queue'[j] = queue[k]
  <2>1. CASE \E class \in {"live", "deferred"} : queue' = enqueue_instruction(queue, Item(used + 1, class, 100)) /\ fate'[used + 1] = "accepted"
    BY <1>3, <1>5, <2>1, LineQueued
  <2>2. CASE queue' = enqueue_instruction(queue, Item(None, "cancel", 100))
    <3>1. QueueOk(queue, fate')
      BY <1>1, <1>5, SameFates
    <3> QED BY <2>2, <3>1, StopQueued
  <2>3. fate' = [fate EXCEPT ![used + 1] = "accepted"] => fate'[used + 1] = "accepted"
    BY <1>1, <1>3 DEF TypedShape
  <2> QED BY <1>2, <2>1, <2>2, <2>3
<1>7. StopOk(stopped', turn', queue')
  BY <1>1, <1>2, <1>6, StopKept
<1>8. TypedShape'
  <2>1. used' \in 0 .. MaxLines
    BY <1>1, <1>2 DEF TypedShape
  <2> QED BY <1>1, <1>2, <1>4, <2>1 DEF TypedShape
<1>9. Hands'
  <2>1. \A l \in Lines : fate'[l] # "twice" /\ (l > used' => fate'[l] = "none")
    <3>1. \A l \in Lines : l > used + 1 => l # used + 1 /\ l > used
      BY <1>3 DEF Lines
    <3> QED BY <1>1, <1>2, <1>3, <1>4, <3>1 DEF Hands
  <2>2. \A l \in Lines : fate[l] # "none" => fate'[l] = fate[l]
    BY <1>3, <1>4
  <2>3. \A l \in Lines : fate'[l] = "typed" => fate[l] = "typed"
    BY <1>3, <1>4
  <2>4. fate'[Result] = fate[Result]
    BY <1>3, <1>4
  <2>5. draft \in Lines \cup {None} /\ buffer \in Lines \cup {None}
    BY <1>1 DEF TypedShape
  <2> QED BY <1>1, <1>2, <2>1, <2>2, <2>3, <2>4, <2>5 DEF Hands
<1> QED BY <1>6, <1>7, <1>8, <1>9 DEF TypedInv

LEMMA AnnounceTyped == ASSUME TypedInv, Announce PROVE TypedInv'
<1> USE LineFacts
<1>1. TypedShape /\ Hands /\ QueueOk(queue, fate) /\ StopOk(stopped, turn, queue)
  BY DEF TypedInv
<1>2. /\ job.child = "runs" /\ job' = [job EXCEPT !.child = "announced"]
      /\ queue' = enqueue_instruction(queue, Item(Result, "live", 20)) /\ fate' = [fate EXCEPT ![Result] = "accepted"]
      /\ UNCHANGED <<repl, turn, back, outcome, stopped, listener, input, buffer, draft, editing, used>>
  BY DEF Announce, running, prompt
<1>3. fate[Result] = "none" /\ job' \in JobStates /\ job'.child = "announced"
  BY <1>1, <1>2 DEF TypedShape, JobStates, Hands
<1>4. fate' \in [Lines -> Fates] /\ fate'[Result] = "accepted" /\ \A l \in Lines \ {Result} : fate'[l] = fate[l]
  BY <1>1, <1>2 DEF TypedShape, Fates
<1>5. \A l \in Lines : fate[l] = "accepted" => fate'[l] = "accepted"
  BY <1>4
<1>6. QueueOk(queue', fate') /\ \A k \in DOMAIN queue : \E j \in DOMAIN queue' : queue'[j] = queue[k]
  <2>1. PICK line : line = Result /\ line \in Lines /\ fate[line] # "accepted" /\ fate'[line] = "accepted"
    BY <1>3, <1>4
  <2>2. queue' = enqueue_instruction(queue, Item(line, "live", 20))
    BY <1>2, <2>1
  <2> QED BY <1>5, <2>1, <2>2, LineQueued
<1>7. StopOk(stopped', turn', queue')
  BY <1>1, <1>2, <1>6, StopKept
<1>8. TypedShape'
  BY <1>1, <1>2, <1>3, <1>4 DEF TypedShape
<1>9. Hands'
  <2>1. ~(Result > used)
    BY <1>1 DEF TypedShape, Result
  <2>2. \A l \in Numbers : fate'[l] = fate[l]
    BY <1>4
  <2>3. \A l \in Lines : fate'[l] # "twice" /\ (l > used' => fate'[l] = "none") /\ (fate'[l] = "typed" => fate[l] = "typed")
    BY <1>1, <1>2, <1>4, <2>1 DEF Hands
  <2>4. draft \in Numbers \cup {None} /\ buffer \in Numbers \cup {None}
    BY <1>1 DEF TypedShape
  <2> QED BY <1>1, <1>2, <1>3, <2>2, <2>3, <2>4 DEF Hands
<1> QED BY <1>6, <1>7, <1>8, <1>9 DEF TypedInv

LEMMA QueueRemoveTyped == ASSUME TypedInv, QueueRemove PROVE TypedInv'
<1> USE LineFacts
<1>1. TypedShape /\ Hands /\ QueueOk(queue, fate) /\ StopOk(stopped, turn, queue)
  BY DEF TypedInv
<1>2. PICK p \in DOMAIN queue :
        /\ queue' = RemoveAt(queue, p)
        /\ fate' = [l \in Lines |-> IF l = queue[p].line THEN "done" ELSE fate[l]]
        /\ stopped' = IF IsStop(queue[p]) THEN "no" ELSE stopped
  BY DEF QueueRemove
<1>3. UNCHANGED <<repl, turn, back, outcome, listener, input, buffer, draft, editing, job, used>>
  BY DEF QueueRemove, prompt
<1>4. queue \in Seq(QueueItems)
  BY <1>1 DEF QueueOk
<1>5. PICK s, place : /\ s = RemoveAt(queue, p) /\ s \in Seq(QueueItems) /\ Drawn(s, queue, place)
                      /\ \A k \in DOMAIN s : place[k] # p
                      /\ \A k \in DOMAIN queue \ {p} : \E j \in DOMAIN s : place[j] = k
  BY <1>4, RemovedItem
<1>6. queue' = s
  BY <1>2, <1>5
<1>7. \A l \in Lines : l = queue[p].line => fate[l] = "accepted"
  BY <1>1 DEF QueueOk
<1>8. fate' \in [Lines -> Fates]
  <2>1. \A l \in Lines : fate'[l] \in Fates
    BY <1>1, <1>2 DEF TypedShape, Fates
  <2> QED BY <1>2, <2>1
<1>9. \A l \in Lines : fate'[l] = fate[l] \/ (fate[l] = "accepted" /\ fate'[l] = "done")
  BY <1>2, <1>7
<1>10. TypedShape'
  BY <1>1, <1>2, <1>3, <1>8 DEF TypedShape
<1>11. Hands'
  <2>1. draft \in Lines \cup {None} /\ buffer \in Lines \cup {None}
    BY <1>1 DEF TypedShape
  <2>2. \A l \in Lines : fate'[l] # "twice" /\ (l > used' => fate'[l] = "none") /\ (fate'[l] = "typed" => fate[l] = "typed")
    BY <1>1, <1>3, <1>9 DEF Hands
  <2>3. \A l \in Lines : fate[l] # "accepted" => fate'[l] = fate[l]
    BY <1>9
  <2> QED BY <1>1, <1>3, <2>1, <2>2, <2>3 DEF Hands
<1>12. QueueOk(queue', fate')
  <2>1. \A k \in DOMAIN s : place[k] \in DOMAIN queue
    BY <1>5 DEF Drawn
  <2>3. ASSUME NEW k \in DOMAIN s, queue[place[k]].line \in Lines PROVE fate'[queue[place[k]].line] = "accepted"
    <3>1. place[k] # p
      BY <1>5
    <3>2. queue[place[k]].line # queue[p].line /\ fate[queue[place[k]].line] = "accepted"
      BY <1>1, <2>1, <2>3, <3>1 DEF QueueOk
    <3> QED BY <1>2, <2>3, <3>2
  <2>4. QueueOk(s, fate')
    BY <1>1, <1>5, <2>3, DrawnFates
  <2> QED BY <1>6, <2>4
<1>13. StopOk(stopped', turn', queue')
  <2> SUFFICES ASSUME stopped' = "works", turn' \in {"plans", "works", "pausing", "gate"}
               PROVE \E k \in DOMAIN queue' : IsStop(queue'[k]) /\ queue'[k].made = "rounds"
    BY DEF StopOk
  <2>1. ~IsStop(queue[p]) /\ stopped = "works"
    BY <1>2
  <2>2. PICK k \in DOMAIN queue : IsStop(queue[k]) /\ queue[k].made = "rounds"
    BY <1>1, <1>3, <2>1 DEF StopOk
  <2>3. PICK j \in DOMAIN s : place[j] = k
    BY <1>5, <2>1, <2>2
  <2>4. s[j] = queue[k]
    BY <1>5, <2>3 DEF Drawn
  <2> QED BY <1>6, <2>2, <2>3, <2>4
<1> QED BY <1>10, <1>11, <1>12, <1>13 DEF TypedInv

-----------------------------------------------------------------------------
LEMMA TypedStarts == ASSUME TypedInit PROVE TypedInv
<1>1. TypedShape
  BY LineFacts DEF TypedInit, TypedShape, Listeners, Off, JobStates, Fates
<1>2. Hands
  BY LineFacts DEF TypedInit, Hands
<1>3. QueueOk(queue, fate) /\ StopOk(stopped, turn, queue)
  BY DEF TypedInit, QueueOk, StopOk
<1> QED BY <1>1, <1>2, <1>3 DEF TypedInv

LEMMA TypedStep == ASSUME TypedInv, [TypedNext]_typedVars PROVE TypedInv'
<1>1. CASE UNCHANGED typedVars
  BY <1>1 DEF typedVars, running, prompt, TypedInv, TypedShape, Hands, QueueOk, StopOk
<1>2. CASE KeyInterrupt \/ KeyWhileClosing \/ Stall \/ OpenPrompt \/ Type \/ _recall_latest_queued \/ PressEnter \/ _enqueue \/ Closed
  BY <1>2, KeyInterruptTyped, OtherInterruptTyped, OpenPromptTyped, TypeTyped, PressEnterTyped, EnqueueTyped, ClosedTyped
<1>3. CASE pause_async \/ GateOpens \/ resume \/ Round \/ TurnEnds \/ _stop_async \/ TurnOver
  BY <1>3, PauseTyped, GateTyped, RoundTyped, TurnEndsTyped, StopAsyncTyped, TurnOverTyped
<1>4. CASE Look \/ DropStop \/ RunCommand \/ RunQueued \/ TypeIdle \/ RunTask \/ IdleCommand \/ Leave \/ _wait_for_background_reinjection
  BY <1>4, LookTyped, FirstTaken, RunTyped, TypeTyped, IdleTyped, LeaveTyped
<1>5. CASE queue_command \/ QueueCancel \/ QueueRemove \/ spawn_background_task \/ Announce \/ WriteRecord \/ read_job \/ FinishListing
  BY <1>5, QueueCommandTyped, QueueRemoveTyped, IdleTyped, AnnounceTyped, LookTyped
<1> QED BY <1>1, <1>2, <1>3, <1>4, <1>5 DEF TypedNext

LEMMA TypedAlways == TypedSpec => []TypedInv
<1> QED BY TypedStarts, TypedStep, PTL DEF TypedSpec

(* What is typed is in a prompt or kept for the next one, whatever the     *)
(* gates of the turn do to the composer, and no line reaches a model twice *)
(* (live_input.py, interactive.py, state.py).                              *)
THEOREM TypedTextIsAlwaysKept == TypedSpec => []TypedTextIsKept
<1>1. TypedInv => TypedTextIsKept
  BY DEF TypedInv, Hands, TypedTextIsKept
<1> QED BY <1>1, TypedAlways, PTL

\* A turn is ended by an interrupt, by a round, or by itself.
LEMMA StopEnds ==
    ASSUME TypedInv, TypedNext, turn \in {"plans", "works"}, outcome' \in {"stopped", "exited"}, outcome' # outcome
    PROVE  \/ listener'.interrupt # "none"
           \/ \E k \in DOMAIN queue : IsStop(queue[k]) /\ queue[k].made # "before"
<1>0. TypedShape /\ repl = "turn" /\ repl # "look" /\ repl # "prompt"
  BY DEF TypedInv, TypedShape
<1>1. ASSUME NEW class \in {"cancel", "exit", "stall"}, NEW q, Interrupt(class, q) PROVE listener'.interrupt # "none"
  <2>1. CASE listener.interrupt # "none"
    BY <1>1, <2>1 DEF Interrupt
  <2>2. CASE listener.interrupt = "none"
    <3>1. listener' = [listener EXCEPT !.paused = TRUE, !.interrupt = class] /\ listener \in Listeners
      BY <1>0, <1>1, <2>2 DEF Interrupt, TypedShape
    <3> QED BY <3>1 DEF Listeners
  <2> QED BY <2>1, <2>2
<1>2. CASE KeyInterrupt \/ KeyWhileClosing \/ Stall \/ StopTyped \/ _handle_live_scope_correction \/ Farewell
  BY <1>1, <1>2 DEF KeyInterrupt, KeyWhileClosing, Stall, StopTyped, _handle_live_scope_correction, Farewell
<1>3. CASE Round
  <2>1. \E k \in _claim_live_queued_instructions : IsStop(queue[k])
    BY <1>3 DEF Round
  <2>2. PICK k \in DOMAIN queue : IsStop(queue[k]) /\ ~Stale(queue[k])
    BY <2>1 DEF _claim_live_queued_instructions
  <2> QED BY <2>2 DEF Stale
<1>4. CASE TurnEnds
  BY <1>4 DEF TurnEnds
<1>5. CASE UNCHANGED outcome
  BY <1>5
<1>6. /\ OpenPrompt \/ Type \/ _recall_latest_queued \/ PressEnter \/ Closed => UNCHANGED outcome
      /\ EnteredTooLate \/ Aside \/ CommandTyped \/ edit_queued_instruction \/ FollowUp => UNCHANGED outcome
      /\ pause_async \/ GateOpens \/ resume \/ _stop_async => UNCHANGED outcome
  BY DEF OpenPrompt, Type, _recall_latest_queued, PressEnter, Closed, EnteredTooLate, Aside, CommandTyped,
         edit_queued_instruction, FollowUp, pause_async, GateOpens, resume, _stop_async, running
<1>7. /\ ~(Look \/ DropStop \/ RunCommand \/ RunQueued \/ TypeIdle \/ RunTask \/ IdleCommand \/ Leave)
      /\ ~(_wait_for_background_reinjection \/ spawn_background_task \/ read_job \/ TurnOver)
  BY <1>0 DEF Look, DropStop, RunCommand, RunQueued, TypeIdle, RunTask, IdleCommand, Leave, Submitted,
              _wait_for_background_reinjection, spawn_background_task, read_job, TurnOver
<1>8. queue_command \/ QueueCancel \/ QueueRemove \/ Announce \/ WriteRecord \/ FinishListing => UNCHANGED outcome
  BY DEF queue_command, QueueCancel, QueueRemove, Announce, WriteRecord, FinishListing, running
<1> QED BY <1>2, <1>3, <1>4, <1>5, <1>6, <1>7, <1>8 DEF TypedNext, _enqueue

(* A stop that is made in the rounds of a turn ends it before another      *)
(* round, even when the prompt's closing swallowed the cancellation, and a *)
(* stop of an older turn ends none (live_input.py, runner_local.py).       *)
THEOREM StopIsAlwaysObeyed == TypedSpec => StopIsObeyed
<1>1. TypedInv' => stopped' # "ignored"
  BY DEF TypedInv, TypedShape
<1>2. ASSUME TypedInv, UNCHANGED typedVars PROVE outcome' = outcome
  BY <1>2 DEF typedVars, running
<1>3. ASSUME TypedInv, TypedInv', [TypedNext]_typedVars
      PROVE  [/\ stopped' # "ignored"
              /\ turn \in {"plans", "works"} /\ outcome' \in {"stopped", "exited"} /\ outcome' # outcome =>
                   \/ listener'.interrupt # "none"
                   \/ \E k \in DOMAIN queue : IsStop(queue[k]) /\ queue[k].made # "before"]_typedVars
  BY <1>1, <1>3, StopEnds
<1> QED BY <1>3, TypedAlways, PTL DEF TypedSpec, StopIsObeyed
=============================================================================
