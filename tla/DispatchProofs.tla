---------------------------- MODULE DispatchProofs ----------------------------
(***************************************************************************)
(* Theorems about a round of tool calls (ToolRound), for any batches and   *)
(* any order in which concurrent calls settle, and about what happens to   *)
(* a call that goes through the gateway (CapabilityCalls), for any         *)
(* callers, keys and commands; and that rounds take finitely many steps.   *)
(***************************************************************************)
EXTENDS ToolRound, CapabilityCalls, Integers, FiniteSetTheorems, WellFoundedInduction, TLAPS

LEMMA LeastOf ==
    ASSUME NEW T, T \subseteq Nat, T # {}
    PROVE  \E m \in T : \A k \in T : m <= k
<1> DEFINE R == OpToRel(<, Nat)
<1>1. IsWellFoundedOn(R, Nat)
  BY NatLessThanWellFounded
<1>2. \A i, j \in Nat : i < j => <<i, j>> \in R
  BY DEF OpToRel
<1> HIDE DEF R
<1>3. PICK m \in T : \A k \in T : ~ (<<k, m>> \in R)
  BY <1>1, WFMin
<1>4. ASSUME NEW k \in T PROVE m <= k
  <2>1. k \in Nat /\ m \in Nat /\ ~(k < m)
    BY <1>2, <1>3
  <2> QED BY <2>1
<1> QED BY <1>4

LEMMA CurrentIsLeast ==
    ASSUME todo \subseteq Nat, todo # {}
    PROVE  Current \in todo /\ \A j \in todo \ {Current} : Current < j
<1>1. Current \in todo /\ \A j \in todo : Current <= j
  BY LeastOf DEF Current
<1> QED BY <1>1

LEMMA FirstIsLeast ==
    ASSUME DOMAIN settled \subseteq Nat, DOMAIN settled # {}
    PROVE  First \in DOMAIN settled
BY LeastOf DEF First

-----------------------------------------------------------------------------
(* The groups of a queue.                                                  *)

Increasing(q) == \A k, l \in DOMAIN q : k < l => q[k] < q[l]
InOrder(gs) == \A a, b \in DOMAIN gs : a < b => \A i \in Members(gs[a]), j \in Members(gs[b]) : i < j
AllApart(gs) == \A a \in DOMAIN gs : \A i, j \in Members(gs[a]) : i # j => ~Conflicts(i, j)

\* What the groups of the first n calls of q are.
Cut(gs, q, n) ==
    /\ gs \in Seq(Seq(Ids)) /\ (n > 0 => gs # <<>>)
    /\ \A a \in DOMAIN gs : \A i \in Members(gs[a]) : \E k \in 1 .. n : q[k] = i
    /\ \A k \in 1 .. n : \E a \in DOMAIN gs : q[k] \in Members(gs[a])
    /\ InOrder(gs) /\ AllApart(gs)

LEMMA ConflictsAreMutual == ASSUME NEW i, NEW j PROVE Conflicts(i, j) <=> Conflicts(j, i)
<1>1. {i, j} = {j, i} /\ batch[i].paths \cap batch[j].paths = batch[j].paths \cap batch[i].paths
  OBVIOUS
<1>2. (Op(i) \in Commands) # (Op(j) \in Commands) <=> (Op(j) \in Commands) # (Op(i) \in Commands)
  OBVIOUS
<1>3. ~(ReadOnly(i) /\ ReadOnly(j)) <=> ~(ReadOnly(j) /\ ReadOnly(i))
  OBVIOUS
<1> QED BY <1>1, <1>2, <1>3 DEF Conflicts

LEMMA MembersOfAppended ==
    ASSUME NEW S, NEW group \in Seq(S), NEW i \in S
    PROVE  Append(group, i) \in Seq(S) /\ Members(Append(group, i)) = Members(group) \cup {i}
<1>1. Append(group, i) \in Seq(S) /\ DOMAIN Append(group, i) = DOMAIN group \cup {Len(group) + 1}
  OBVIOUS
<1>2. /\ Append(group, i)[Len(group) + 1] = i
      /\ \A k \in DOMAIN group : Append(group, i)[k] = group[k]
  OBVIOUS
<1> QED BY <1>1, <1>2 DEF Members

(* A call joins the last group or starts one; the calls before it are less. *)
LEMMA JoinedCut ==
    ASSUME NEW q \in Seq(Ids), Ids \subseteq Nat, Increasing(q), NEW n \in 1 .. Len(q), NEW gs, Cut(gs, q, n - 1)
    PROVE  Cut(Joined(gs, q[n]), q, n)
<1> DEFINE new == Joined(gs, q[n])
<1>1. gs \in Seq(Seq(Ids)) /\ q[n] \in Ids /\ Len(gs) \in Nat /\ DOMAIN gs = 1 .. Len(gs)
  BY DEF Cut
<1>2. ASSUME NEW a \in DOMAIN gs, NEW i \in Members(gs[a]) PROVE i < q[n] /\ \E k \in 1 .. n : q[k] = i
  <2>1. PICK k \in 1 .. n - 1 : q[k] = i
    BY DEF Cut
  <2>2. k \in DOMAIN q /\ n \in DOMAIN q /\ k < n /\ k \in 1 .. n
    OBVIOUS
  <2> QED BY <2>1, <2>2 DEF Increasing
<1>3. ASSUME NEW a \in DOMAIN gs PROVE gs[a] \in Seq(Ids) /\ \A i \in Members(gs[a]) : i \in Nat
  <2>1. gs[a] \in Seq(Ids)
    BY <1>1
  <2>2. \A k \in DOMAIN gs[a] : gs[a][k] \in Ids
    BY <2>1
  <2> QED BY <2>1, <2>2 DEF Members
<1>4. CASE gs # <<>> /\ Apart(q[n], gs[Len(gs)])
  <2> DEFINE L == Len(gs)
  <2>1. L \in DOMAIN gs
    BY <1>1, <1>4
  <2>2. new = [gs EXCEPT ![L] = Append(gs[L], q[n])]
    BY <1>4 DEF Joined
  <2>3. Append(gs[L], q[n]) \in Seq(Ids) /\ Members(Append(gs[L], q[n])) = Members(gs[L]) \cup {q[n]}
    BY <1>1, <1>3, <2>1, MembersOfAppended
  <2>4. new \in Seq(Seq(Ids)) /\ DOMAIN new = DOMAIN gs /\ Len(new) = Len(gs)
    BY <1>1, <2>1, <2>2, <2>3
  <2>5. /\ \A a \in DOMAIN gs : a # L => new[a] = gs[a]
        /\ Members(new[L]) = Members(gs[L]) \cup {q[n]}
    BY <2>1, <2>2, <2>3
  <2> HIDE DEF new, L
  <2>6. \A i \in Members(gs[L]) : ~Conflicts(i, q[n]) /\ ~Conflicts(q[n], i)
    BY <1>4, ConflictsAreMutual DEF Apart, L, Members
  <2>7. \A a \in DOMAIN new : \A i \in Members(new[a]) : \E k \in 1 .. n : q[k] = i
    <3> SUFFICES ASSUME NEW a \in DOMAIN gs, NEW i \in Members(new[a]) PROVE \E k \in 1 .. n : q[k] = i
      BY <2>4
    <3>1. CASE i \in Members(gs[a])
      BY <3>1, <1>2
    <3>2. CASE i = q[n]
      <4>1. n \in 1 .. n
        OBVIOUS
      <4> QED BY <3>2, <4>1
    <3> QED BY <3>1, <3>2, <2>5
  <2>8. InOrder(new)
    <3> SUFFICES ASSUME NEW a \in DOMAIN gs, NEW b \in DOMAIN gs, a < b,
                        NEW i \in Members(new[a]), NEW j \in Members(new[b])
                 PROVE  i < j
      BY <2>4 DEF InOrder
    <3>1. a # L /\ i \in Members(gs[a])
      BY <1>1, <2>5 DEF L
    <3>2. CASE j \in Members(gs[b])
      BY <3>1, <3>2 DEF Cut, InOrder
    <3>3. CASE j = q[n]
      BY <3>1, <3>3, <1>2
    <3> QED BY <3>2, <3>3, <2>5
  <2>9. AllApart(new)
    <3> SUFFICES ASSUME NEW a \in DOMAIN gs, NEW i \in Members(new[a]), NEW j \in Members(new[a]), i # j
                 PROVE  ~Conflicts(i, j)
      BY <2>4 DEF AllApart
    <3>1. CASE i \in Members(gs[a]) /\ j \in Members(gs[a])
      BY <3>1 DEF Cut, AllApart
    <3>2. CASE a = L /\ q[n] \in {i, j}
      BY <3>2, <2>5, <2>6
    <3> QED BY <3>1, <3>2, <2>5
  <2>10. new # <<>>
    BY <1>1, <2>1, <2>4
  <2>11. \A k \in 1 .. n : \E a \in DOMAIN new : q[k] \in Members(new[a])
    <3> SUFFICES ASSUME NEW k \in 1 .. n PROVE \E a \in DOMAIN new : q[k] \in Members(new[a])
      OBVIOUS
    <3>1. CASE k = n
      BY <2>1, <2>4, <2>5, <3>1
    <3>2. CASE k # n
      <4>1. PICK a \in DOMAIN gs : q[k] \in Members(gs[a])
        BY <3>2 DEF Cut
      <4> QED BY <4>1, <2>4, <2>5
    <3> QED BY <3>1, <3>2
  <2> QED BY <2>4, <2>7, <2>8, <2>9, <2>10, <2>11 DEF Cut, new
<1>5. CASE ~(gs # <<>> /\ Apart(q[n], gs[Len(gs)]))
  <2>1. new = Append(gs, <<q[n]>>)
    BY <1>5 DEF Joined
  <2>2. <<q[n]>> \in Seq(Ids) /\ Members(<<q[n]>>) = {q[n]}
    BY <1>1 DEF Members
  <2>3. new \in Seq(Seq(Ids)) /\ DOMAIN new = DOMAIN gs \cup {Len(gs) + 1} /\ new # <<>>
    BY <1>1, <2>1, <2>2
  <2>4. (\A a \in DOMAIN gs : new[a] = gs[a]) /\ new[Len(gs) + 1] = <<q[n]>>
    BY <1>1, <2>1
  <2>5. \A a \in DOMAIN gs : a < Len(gs) + 1 /\ a \in Nat
    BY <1>1
  <2> HIDE DEF new
  <2>6. \A a \in DOMAIN new : \A i \in Members(new[a]) : \E k \in 1 .. n : q[k] = i
    <3> SUFFICES ASSUME NEW a \in DOMAIN new, NEW i \in Members(new[a]) PROVE \E k \in 1 .. n : q[k] = i
      OBVIOUS
    <3>1. CASE a \in DOMAIN gs
      BY <3>1, <2>4, <1>2
    <3>2. CASE a = Len(gs) + 1
      <4>1. n \in 1 .. n /\ q[n] = i
        BY <3>2, <2>2, <2>4
      <4> QED BY <4>1
    <3> QED BY <3>1, <3>2, <2>3
  <2>7. InOrder(new)
    <3> SUFFICES ASSUME NEW a \in DOMAIN new, NEW b \in DOMAIN new, a < b,
                        NEW i \in Members(new[a]), NEW j \in Members(new[b])
                 PROVE  i < j
      BY DEF InOrder
    <3>1. a \in DOMAIN gs
      BY <1>1, <2>3, <2>5
    <3>2. CASE b \in DOMAIN gs
      BY <3>1, <3>2, <2>4 DEF Cut, InOrder
    <3>3. CASE b = Len(gs) + 1
      BY <3>1, <3>3, <2>2, <2>4, <1>2
    <3> QED BY <3>2, <3>3, <2>3
  <2>8. AllApart(new)
    <3> SUFFICES ASSUME NEW a \in DOMAIN new, NEW i \in Members(new[a]), NEW j \in Members(new[a]), i # j
                 PROVE  ~Conflicts(i, j)
      BY DEF AllApart
    <3>1. CASE a \in DOMAIN gs
      BY <3>1, <2>4 DEF AllApart, Cut
    <3>2. a # Len(gs) + 1
      BY <2>2, <2>4
    <3> QED BY <3>1, <3>2, <2>3
  <2>9. \A k \in 1 .. n : \E a \in DOMAIN new : q[k] \in Members(new[a])
    <3> SUFFICES ASSUME NEW k \in 1 .. n PROVE \E a \in DOMAIN new : q[k] \in Members(new[a])
      OBVIOUS
    <3>1. CASE k = n
      BY <2>2, <2>3, <2>4, <3>1
    <3>2. CASE k # n
      <4>1. PICK a \in DOMAIN gs : q[k] \in Members(gs[a])
        BY <3>2 DEF Cut
      <4> QED BY <4>1, <2>3, <2>4
    <3> QED BY <3>1, <3>2
  <2> QED BY <2>3, <2>6, <2>7, <2>8, <2>9 DEF Cut, new
<1> QED BY <1>4, <1>5

(* A split exists, for a queue that has none of some length would have a   *)
(* least such length.                                                      *)
IsSplit(f, q, n) == f = [m \in 0 .. n |-> IF m = 0 THEN <<>> ELSE Joined(f[m - 1], q[m])]

LEMMA SplitExists ==
    ASSUME NEW S, NEW q \in Seq(S)
    PROVE  IsSplit(Split(q), q, Len(q))
<1> DEFINE Bad == {n \in Nat : ~\E f : IsSplit(f, q, n)}
<1>1. ASSUME Bad # {} PROVE FALSE
  <2>1. PICK n \in Bad : \A k \in Bad : n <= k
    BY <1>1, LeastOf
  <2>2. CASE n = 0
    <3> DEFINE f == [m \in 0 .. 0 |-> <<>>]
    <3>1. IsSplit(f, q, 0)
      BY DEF IsSplit
    <3> QED BY <2>1, <2>2, <3>1
  <2>3. CASE n # 0
    <3>1. n - 1 \in Nat /\ n - 1 \notin Bad
      BY <2>1, <2>3
    <3>2. PICK f : IsSplit(f, q, n - 1)
      BY <3>1
    <3> DEFINE g == [m \in 0 .. n |-> IF m = n THEN Joined(f[n - 1], q[n]) ELSE f[m]]
    <3>3. ASSUME NEW m \in 0 .. n PROVE g[m] = IF m = 0 THEN <<>> ELSE Joined(g[m - 1], q[m])
      <4>1. CASE m = n
        <5>1. g[n - 1] = f[n - 1] /\ g[n] = Joined(f[n - 1], q[n])
          BY <2>3, <2>1
        <5> QED BY <4>1, <5>1, <2>3
      <4>2. CASE m # n
        <5>1. m \in 0 .. n - 1 /\ g[m] = f[m]
          BY <4>2, <2>1
        <5>2. f[m] = IF m = 0 THEN <<>> ELSE Joined(f[m - 1], q[m])
          BY <3>2, <5>1 DEF IsSplit
        <5>3. m # 0 => g[m - 1] = f[m - 1]
          BY <5>1, <2>1
        <5> QED BY <5>1, <5>2, <5>3
      <4> QED BY <4>1, <4>2
    <3>4. g = [m \in 0 .. n |-> g[m]]
      OBVIOUS
    <3> HIDE DEF g
    <3>5. IsSplit(g, q, n)
      BY <3>3, <3>4 DEF IsSplit
    <3> QED BY <2>1, <3>5
  <2> QED BY <2>2, <2>3
<1>2. PICK f : IsSplit(f, q, Len(q))
  <2>1. Bad = {} /\ Len(q) \in Nat
    BY <1>1
  <2>2. Len(q) \notin {n \in Nat : ~\E f : IsSplit(f, q, n)}
    BY <2>1
  <2> QED BY <2>1, <2>2
<1> DEFINE s == CHOOSE s : s = [n \in 0 .. Len(q) |-> IF n = 0 THEN <<>> ELSE Joined(s[n - 1], q[n])]
<1>3. s = [n \in 0 .. Len(q) |-> IF n = 0 THEN <<>> ELSE Joined(s[n - 1], q[n])]
  BY <1>2 DEF IsSplit
<1>4. Split(q) = s
  BY DEF Split
<1> QED BY <1>3, <1>4 DEF IsSplit

(* Groups keep the order of the queue, and calls of a group are apart.     *)
LEMMA GroupingCuts ==
    ASSUME NEW q \in Seq(Ids), Ids \subseteq Nat, Increasing(q)
    PROVE  Cut(Grouping(q), q, Len(q))
<1> DEFINE Bad == {n \in 0 .. Len(q) : ~Cut(Split(q)[n], q, n)}
<1>1. IsSplit(Split(q), q, Len(q))
  BY SplitExists
<1>2. \A n \in 0 .. Len(q) : Split(q)[n] = IF n = 0 THEN <<>> ELSE Joined(Split(q)[n - 1], q[n])
  BY <1>1 DEF IsSplit
<1>3. ASSUME Bad # {} PROVE FALSE
  <2>0. Bad \subseteq Nat
    OBVIOUS
  <2>1. PICK n \in Bad : \A k \in Bad : n <= k
    BY <1>3, <2>0, LeastOf
  <2>2. CASE n = 0
    <3>1. Cut(<<>>, q, 0)
      BY DEF Cut, InOrder, AllApart
    <3> QED BY <2>1, <2>2, <1>2, <3>1
  <2>3. CASE n # 0
    <3>1. n - 1 \in 0 .. Len(q) /\ n \in 1 .. Len(q) /\ n - 1 \notin Bad
      BY <2>1, <2>3
    <3>2. Cut(Split(q)[n - 1], q, n - 1)
      BY <3>1
    <3>3. Cut(Joined(Split(q)[n - 1], q[n]), q, n)
      BY <3>1, <3>2, JoinedCut
    <3> QED BY <3>1, <3>3, <2>1, <2>3, <1>2
  <2> QED BY <2>2, <2>3
<1>4. Len(q) \in 0 .. Len(q)
  OBVIOUS
<1> QED BY <1>3, <1>4 DEF Grouping
-----------------------------------------------------------------------------
(* The round.                                                              *)

InGroups == UNION {Members(groups[k]) : k \in DOMAIN groups}

Types ==
    /\ batch \in Seq(Calls) /\ todo \subseteq Ids /\ stage \in Stages /\ after \in {"calls", "idle", "end"}
    /\ queue \in Seq(Ids) /\ groups \in Seq(Seq(Ids))
    /\ DOMAIN settled \subseteq Ids /\ \A i \in DOMAIN settled : settled[i] \in BOOLEAN
    /\ finished \subseteq Ids
    /\ validated \in BOOLEAN /\ mutated \in BOOLEAN /\ writes \in Nat
    /\ sound \in BOOLEAN /\ slipped \in BOOLEAN

\* Calls wait in the queue, or in the groups of a flush, never in both.
Placed ==
    /\ queue # <<>> => groups = <<>> /\ stage \in {"calls", "end"}
    /\ groups # <<>> => stage \in {"run", "finish", "end"}
    /\ stage \in {"run", "finish"} => groups # <<>>
    /\ groups = <<>> => DOMAIN settled = {}
    /\ groups # <<>> => DOMAIN settled \subseteq Members(Group)
    /\ stage = "finish" => DOMAIN settled # {}

\* What is done, then what is grouped, then the queue, then the rest; and
\* calls of one group are apart.
Ordered ==
    /\ \A i \in finished \cup Members(queue) \cup InGroups, j \in todo : i < j
    /\ Increasing(queue) /\ \A i \in finished, j \in Members(queue) : i < j
    /\ InOrder(groups) /\ AllApart(groups)
    /\ \A i \in finished, b \in DOMAIN groups : i \in Members(Group) \/ \A j \in Members(groups[b]) : i < j

\* What has run, a settled call or a finished one.
Ran == finished \cup DOMAIN settled

Effects ==
    /\ applied \subseteq Ran /\ \A w \in applied : Op(w) = "write"
    /\ DOMAIN seen \ reused \subseteq Ran /\ \A i \in DOMAIN seen \ reused : Op(i) = "read"
    /\ ReadsAreOrdered

\* Writes with a success that the turn is yet to hear of.
Unheard == {i \in DOMAIN settled : settled[i] /\ Op(i) = "write"}
Fresh ==
    /\ writes > 0 => mutated \/ Unheard # {}
    /\ validated /\ Unheard = {} => checkedAt = writes /\ (sound \/ slipped)
    /\ \A i \in DOMAIN settled : settled[i] /\ Op(i) = "check" => checkedAt = writes /\ (sound \/ slipped)

RoundInv == Types /\ Placed /\ Ordered /\ Effects /\ Fresh

LEMMA InitRoundInv == RoundInit => RoundInv
<1> SUFFICES ASSUME RoundInit PROVE RoundInv
  OBVIOUS
<1>1. queue = <<>> /\ groups = <<>> /\ batch = <<>> /\ todo = {} /\ finished = {} /\ applied = {} /\ DOMAIN settled = {} /\ DOMAIN seen = {}
  BY DEF RoundInit
<1>2. /\ stage = "idle" /\ after = "idle" /\ writes = 0 /\ mutated = FALSE /\ validated = FALSE
      /\ sound = FALSE /\ slipped = FALSE
  BY DEF RoundInit
<1>3. Types
  <2>1. queue \in Seq(Ids) /\ groups \in Seq(Seq(Ids)) /\ batch \in Seq(Calls)
    BY <1>1
  <2> QED BY <1>1, <1>2, <2>1 DEF Types, Stages
<1>4. Placed
  BY <1>1, <1>2 DEF Placed
<1>5. Ordered
  BY <1>1 DEF Ordered, Increasing, InOrder, AllApart, InGroups, Members
<1>6. Effects
  BY <1>1 DEF Effects, ReadsAreOrdered
<1>7. Fresh
  BY <1>1, <1>2 DEF Fresh, Unheard
<1> QED BY <1>3, <1>4, <1>5, <1>6, <1>7 DEF RoundInv

LEMMA IdsAreNumbers == Types => Ids \subseteq Nat
BY DEF Types, Ids

(* The invariant implies both properties.                                  *)
LEMMA InvStartsInOrder == RoundInv => StartsInOrder
<1> SUFFICES ASSUME RoundInv, NEW i \in Outstanding, NEW j \in Ids, i < j, Conflicts(i, j),
                    j \in Running \cup DOMAIN settled \cup finished
             PROVE  FALSE
  BY DEF StartsInOrder
<1> USE DEF RoundInv
<1>1. Ids \subseteq Nat
  BY IdsAreNumbers
<1>2. i \notin finished /\ (i \in Members(queue) \/ \E a \in DOMAIN groups : i \in Members(groups[a]))
  BY DEF Outstanding
<1>3. (j \in Members(Group) /\ groups # <<>>) \/ j \in finished
  BY DEF Running, Placed
<1>4. DOMAIN groups = 1 .. Len(groups) /\ Len(groups) \in Nat /\ (groups # <<>> => 1 \in DOMAIN groups)
  BY DEF Types
<1>5. \A k \in Members(queue) : k \in Nat
  <2>1. queue \in Seq(Ids)
    BY DEF Types
  <2>2. \A k \in DOMAIN queue : queue[k] \in Ids
    BY <2>1
  <2> QED BY <1>1, <2>2 DEF Members
<1>6. i \in Nat /\ j \in Nat
  <2>1. \A a \in DOMAIN groups : groups[a] \in Seq(Ids)
    BY DEF Types
  <2>2. \A a \in DOMAIN groups : \A k \in Members(groups[a]) : k \in Ids
    BY <2>1 DEF Members
  <2> QED BY <1>1, <1>2, <1>5, <2>2
<1>7. CASE i \in Members(queue)
  <2>1. queue # <<>>
    BY <1>7 DEF Members
  <2>2. j \in finished
    BY <1>3, <2>1 DEF Placed
  <2>3. j < i
    BY <1>7, <2>2 DEF Ordered
  <2> QED BY <2>3, <1>6
<1>8. CASE i \notin Members(queue)
  <2>1. PICK a \in DOMAIN groups : i \in Members(groups[a])
    BY <1>2, <1>8
  <2>2. groups # <<>> /\ 1 \in DOMAIN groups
    BY <2>1, <1>4
  <2>3. CASE j \in Members(Group)
    <3>1. CASE a = 1
      BY <2>1, <2>2, <2>3, <3>1, <1>6 DEF Ordered, AllApart, Group
    <3>2. CASE a # 1
      <4>1. j < i
        BY <2>1, <2>2, <2>3, <3>2, <1>4 DEF Ordered, InOrder, Group
      <4> QED BY <4>1, <1>6
    <3> QED BY <3>1, <3>2
  <2>4. CASE j \notin Members(Group)
    <3>1. j < i
      BY <1>3, <2>1, <2>4 DEF Ordered
    <3> QED BY <3>1, <1>6
  <2> QED BY <2>3, <2>4
<1> QED BY <1>7, <1>8

LEMMA InvValidationIsFresh == RoundInv => ValidationIsFresh
<1> SUFFICES ASSUME RoundInv, stage \in {"idle", "calls"}
             PROVE  (validated => checkedAt = writes /\ (sound \/ slipped)) /\ (writes > 0 => mutated)
  BY DEF ValidationIsFresh
<1>1. Unheard = {}
  BY DEF RoundInv, Placed, Unheard
<1> QED BY <1>1 DEF RoundInv, Fresh, Types

-----------------------------------------------------------------------------
(* The steps.                                                              *)

\* What the operators on calls say depends on the batch alone.
LEMMA SameBatch ==
    ASSUME UNCHANGED batch
    PROVE  /\ Ids' = Ids /\ \A i : Op(i)' = Op(i)
           /\ \A i, j : Conflicts(i, j)' <=> Conflicts(i, j)
BY DEF Ids, Op, Conflicts, ReadOnly

\* Nothing waits, runs or is taken up; calls may be answered.
Still ==
    /\ UNCHANGED <<batch, queue, groups, settled, finished, applied, validated, mutated, truth>>
    /\ todo' \subseteq todo /\ after' = after
    /\ stage' \in Stages
    /\ queue # <<>> => stage' \in {"calls", "end"}
    /\ groups # <<>> => stage' \in {"run", "finish", "end"}
    /\ stage' \in {"run", "finish"} => stage' = stage

LEMMA StillKeeps == RoundInv /\ Still => Types' /\ Placed' /\ Ordered' /\ Fresh'
<1> SUFFICES ASSUME RoundInv, Still PROVE Types' /\ Placed' /\ Ordered' /\ Fresh'
  OBVIOUS
<1> USE DEF RoundInv, truth
<1>1. UNCHANGED <<batch, queue, groups, settled, finished, applied, validated, mutated, truth>> /\ todo' \subseteq todo
  BY DEF Still
<1>2. Types'
  BY <1>1, SameBatch DEF Types, Still
<1>3. Placed'
  BY <1>1 DEF Placed, Still, Group
<1>4. Ordered'
  <2>1. InGroups' = InGroups /\ Group' = Group
    BY <1>1 DEF InGroups, Group
  <2>2. Increasing(queue)' /\ InOrder(groups)' /\ AllApart(groups)'
    BY <1>1, SameBatch DEF Ordered, Increasing, InOrder, AllApart
  <2> QED BY <1>1, <2>1, <2>2 DEF Ordered
<1>5. Fresh'
  <2>1. Unheard' = Unheard
    BY <1>1, SameBatch DEF Unheard
  <2> QED BY <1>1, <2>1, SameBatch DEF Fresh
<1> QED BY <1>2, <1>3, <1>4, <1>5

LEMMA StillEffects == RoundInv /\ Still /\ UNCHANGED <<seen, reused>> => Effects'
<1> SUFFICES ASSUME RoundInv, Still, UNCHANGED <<seen, reused>> PROVE Effects'
  OBVIOUS
<1>1. UNCHANGED <<batch, settled, finished, applied>>
  BY DEF Still
<1>2. Ran' = Ran
  BY <1>1 DEF Ran
<1>3. ReadsAreOrdered'
  BY <1>1 DEF RoundInv, Effects, ReadsAreOrdered
<1> QED BY <1>1, <1>2, <1>3, SameBatch DEF RoundInv, Effects

LEMMA StillSteps ==
    ASSUME RoundInv,
           \/ TurnEnds \/ RejectInvalid \/ AnswerMalformed \/ AnswerUnoffered \/ LeaveRoute \/ BlockLoop
           \/ StartCalls \/ AnswerAtOnce \/ BlockRepeat \/ RoundDone \/ FinishAndStop
    PROVE  RoundInv'
<1> USE DEF RoundInv, Stages, dispatch, recovery, effects, history, truth, Taken, AtCall, NothingOffered
<1>0. stage \in {"idle", "screen", "calls", "run", "finish", "end"}
  BY DEF Types
<1>1. Still /\ UNCHANGED <<seen, reused>>
  <2> USE DEF Still
  <2>1. CASE TurnEnds
    BY <2>1 DEF TurnEnds, Placed
  <2>2. CASE RejectInvalid
    BY <2>2 DEF RejectInvalid, Placed
  <2>3. CASE AnswerMalformed
    BY <2>3 DEF AnswerMalformed, Placed
  <2>4. CASE AnswerUnoffered \/ LeaveRoute
    BY <2>4 DEF AnswerUnoffered, LeaveRoute, Placed
  <2>5. CASE BlockLoop
    BY <2>5 DEF BlockLoop, Placed
  <2>6. CASE StartCalls \/ RoundDone
    BY <2>6 DEF StartCalls, RoundDone, Placed
  <2>7. CASE AnswerAtOnce \/ BlockRepeat
    BY <2>7, <1>0 DEF AnswerAtOnce, BlockRepeat, Placed
  <2>8. CASE FinishAndStop
    BY <2>8 DEF FinishAndStop
  <2> QED BY <2>1, <2>2, <2>3, <2>4, <2>5, <2>6, <2>7, <2>8
<1> QED BY <1>1, StillKeeps, StillEffects

LEMMA ModelCallsKeeps == ASSUME RoundInv, ModelCallsTools PROVE RoundInv'
<1> USE DEF RoundInv, dispatch, recovery, effects, truth
<1>1. stage = "idle" /\ queue = <<>> /\ groups = <<>> /\ DOMAIN settled = {}
  BY DEF ModelCallsTools, Placed
<1>2. stage' = "screen" /\ finished' = {} /\ applied' = {} /\ DOMAIN seen' = {} /\ reused' = {}
  BY DEF ModelCallsTools
<1>3. UNCHANGED <<queue, groups, settled, after, validated, mutated, truth>>
  BY DEF ModelCallsTools
<1>4. PICK n \in 1 .. MaxBatch : batch' \in [1 .. n -> CallKinds] /\ todo' = DOMAIN batch'
  BY DEF ModelCallsTools
<1>5. batch' \in Seq(Calls) /\ todo' = Ids'
  BY <1>4, RoundAssumption DEF Ids
<1>6. Types'
  <2>1. queue' \in Seq(Ids') /\ groups' \in Seq(Seq(Ids'))
    BY <1>1, <1>3
  <2> QED BY <1>1, <1>2, <1>3, <1>5, <2>1 DEF Types, Stages
<1>7. Placed'
  BY <1>1, <1>2, <1>3 DEF Placed
<1>8. Ordered'
  BY <1>1, <1>2, <1>3 DEF Ordered, Increasing, InOrder, AllApart, InGroups, Members
<1>9. Effects'
  BY <1>2 DEF Effects, ReadsAreOrdered
<1>10. Fresh'
  <2>1. Unheard = {} /\ Unheard' = {} /\ DOMAIN settled' = {}
    BY <1>1, <1>3 DEF Unheard
  <2> QED BY <1>3, <2>1 DEF Fresh
<1> QED BY <1>6, <1>7, <1>8, <1>9, <1>10

LEMMA CacheKeeps == ASSUME RoundInv, AnswerFromCache PROVE RoundInv'
<1> USE DEF RoundInv, dispatch, recovery, effects, AtCall, Taken
<1>1. Still
  BY DEF AnswerFromCache, Still, Placed, Stages
<1>2. UNCHANGED <<batch, settled, finished, applied>>
  BY DEF AnswerFromCache
<1>3. /\ reused' = reused \cup {Current} /\ DOMAIN seen' = DOMAIN seen \cup {Current}
      /\ \A i \in DOMAIN seen : i # Current => seen'[i] = seen[i]
  BY DEF AnswerFromCache
<1>4. DOMAIN seen' \ reused' \subseteq DOMAIN seen \ reused /\ \A i \in DOMAIN seen' \ reused' : seen'[i] = seen[i]
  BY <1>3
<1>5. Ran' = Ran
  BY <1>2 DEF Ran
<1>6. ReadsAreOrdered'
  BY <1>2, <1>4 DEF Effects, ReadsAreOrdered
<1>7. Effects'
  BY <1>2, <1>4, <1>5, <1>6, SameBatch DEF Effects
<1> QED BY <1>1, <1>7, StillKeeps

LEMMA EnqueueKeeps == ASSUME RoundInv, Enqueue PROVE RoundInv'
<1> USE DEF RoundInv, recovery, effects, history, truth, AtCall, Taken
<1>1. /\ stage = "calls" /\ todo # {} /\ todo' = todo \ {Current} /\ queue' = Append(queue, Current)
      /\ UNCHANGED <<batch, stage, groups, settled, after, finished, applied, seen, reused, validated, mutated, truth>>
  BY DEF Enqueue
<1>2. Ids \subseteq Nat /\ todo \subseteq Ids /\ Ids' = Ids
  BY <1>1, IdsAreNumbers, SameBatch DEF Types
<1>3. Current \in todo /\ \A j \in todo \ {Current} : Current < j
  BY <1>1, <1>2, CurrentIsLeast
<1>4. groups = <<>> /\ DOMAIN settled = {}
  BY <1>1 DEF Placed
<1>5. queue' \in Seq(Ids) /\ Members(queue') = Members(queue) \cup {Current}
  BY <1>1, <1>2, <1>3, MembersOfAppended DEF Types
<1>6. Types'
  BY <1>1, <1>2, <1>5, <1>4 DEF Types
<1>7. Placed'
  BY <1>1, <1>4 DEF Placed
<1>8. Increasing(queue')
  <2>1. queue \in Seq(Ids) /\ Len(queue) \in Nat /\ DOMAIN queue = 1 .. Len(queue)
    BY DEF Types
  <2>2. DOMAIN queue' = 1 .. Len(queue) + 1 /\ queue'[Len(queue) + 1] = Current
    BY <1>1, <2>1
  <2>3. \A k \in DOMAIN queue : queue'[k] = queue[k] /\ queue[k] < Current
    <3> SUFFICES ASSUME NEW k \in DOMAIN queue PROVE queue'[k] = queue[k] /\ queue[k] < Current
      OBVIOUS
    <3>1. queue[k] \in Members(queue)
      BY DEF Members
    <3>2. queue'[k] = queue[k]
      BY <1>1, <2>1
    <3> QED BY <1>3, <3>1, <3>2 DEF Ordered
  <2>4. ASSUME NEW k \in DOMAIN queue', NEW l \in DOMAIN queue', k < l PROVE queue'[k] < queue'[l]
    <3>1. k \in DOMAIN queue
      BY <2>1, <2>2, <2>4
    <3>2. CASE l \in DOMAIN queue
      BY <2>3, <2>4, <3>1, <3>2 DEF Ordered, Increasing
    <3>3. CASE l = Len(queue) + 1
      BY <2>2, <2>3, <3>1, <3>3
    <3> QED BY <2>1, <2>2, <3>2, <3>3
  <2> QED BY <2>4 DEF Increasing
<1>9. Ordered'
  <2>1. InGroups' = {} /\ InOrder(groups)' /\ AllApart(groups)' /\ DOMAIN groups' = {}
    BY <1>1, <1>4 DEF InGroups, InOrder, AllApart
  <2>2. \A i \in finished : i < Current
    BY <1>3 DEF Ordered
  <2>3. \A i \in finished' \cup Members(queue') \cup InGroups', j \in todo' : i < j
    <3> SUFFICES ASSUME NEW i \in finished \cup Members(queue) \cup {Current}, NEW j \in todo \ {Current} PROVE i < j
      BY <1>1, <1>5, <2>1
    <3> QED BY <1>3 DEF Ordered
  <2>4. \A i \in finished', j \in Members(queue') : i < j
    BY <1>1, <1>5, <2>2 DEF Ordered
  <2> QED BY <1>1, <1>8, <2>1, <2>3, <2>4 DEF Ordered
<1>10. Effects'
  BY <1>1, SameBatch DEF Effects, Ran, ReadsAreOrdered
<1>11. Fresh'
  BY <1>1, SameBatch DEF Fresh, Unheard
<1> QED BY <1>6, <1>7, <1>9, <1>10, <1>11

\* A flush, from the loop over the calls.
Flushes ==
    /\ stage = "calls" /\ queue # <<>> /\ todo' \subseteq todo
    /\ groups' = Grouping(queue) /\ queue' = <<>> /\ DOMAIN settled' = {} /\ stage' = "run"
    /\ after' \in {"calls", "idle", "end"} /\ (after' = "idle" => todo' = {})
    /\ UNCHANGED <<batch, finished, applied, seen, reused, validated, mutated, truth>>

LEMMA FlushSteps ==
    RoundInv /\ (FlushBeforeRestart \/ FlushAtEnd \/ (StopRound /\ queue # <<>>)) => Flushes
BY DEF FlushBeforeRestart, FlushAtEnd, StopRound, Flush, Flushes, AtCall, Taken, recovery, effects, history, truth

LEMMA StopRoundStill == RoundInv /\ StopRound /\ queue = <<>> => Still /\ UNCHANGED <<seen, reused>>
BY DEF RoundInv, StopRound, Still, AtCall, Taken, recovery, effects, history, truth, dispatch, Placed, Stages

LEMMA FlushKeeps == ASSUME RoundInv, Flushes PROVE RoundInv'
<1> USE DEF RoundInv, truth
<1>1. Ids \subseteq Nat /\ Ids' = Ids /\ queue \in Seq(Ids) /\ Increasing(queue) /\ Len(queue) > 0
  BY IdsAreNumbers, SameBatch DEF Flushes, Types, Ordered
<1>2. Cut(groups', queue, Len(queue))
  BY <1>1, GroupingCuts DEF Flushes
<1>3. groups' \in Seq(Seq(Ids)) /\ groups' # <<>> /\ InOrder(groups')
  BY <1>1, <1>2 DEF Cut
<1>4. \A a \in DOMAIN groups' : Members(groups'[a]) \subseteq Members(queue)
  <2> SUFFICES ASSUME NEW a \in DOMAIN groups', NEW i \in Members(groups'[a]) PROVE i \in Members(queue)
    OBVIOUS
  <2>1. PICK k \in 1 .. Len(queue) : queue[k] = i
    BY <1>2 DEF Cut
  <2>2. k \in DOMAIN queue
    BY <1>1
  <2> QED BY <2>1, <2>2 DEF Members
<1>5. groups = <<>>
  BY DEF Flushes, Placed
<1>6. Types'
  BY <1>1, <1>3 DEF Types, Flushes, Stages
<1>7. Placed'
  BY <1>3 DEF Placed, Flushes
<1>8. Ordered'
  <2>1. queue' = <<>> /\ finished' = finished /\ Members(queue') = {} /\ Increasing(queue')
    BY DEF Flushes, Members, Increasing
  <2>2. AllApart(groups)'
    BY <1>2, SameBatch DEF Cut, AllApart, Flushes
  <2>3. InOrder(groups)'
    BY <1>3 DEF InOrder
  <2>4. \A i \in finished, b \in DOMAIN groups' : \A j \in Members(groups'[b]) : i < j
    BY <1>4 DEF Ordered
  <2>5. InGroups' \subseteq Members(queue)
    BY <1>4 DEF InGroups
  <2>6. \A i \in finished' \cup Members(queue') \cup InGroups', j \in todo' : i < j
    BY <2>1, <2>5 DEF Ordered, Flushes
  <2> QED BY <2>1, <2>2, <2>3, <2>4, <2>6 DEF Ordered
<1>9. DOMAIN settled = {} /\ DOMAIN settled' = {}
  BY <1>5 DEF Placed, Flushes
<1>10. Effects'
  BY <1>9, SameBatch DEF Effects, Ran, ReadsAreOrdered, Flushes
<1>11. Fresh'
  BY <1>9 DEF Fresh, Unheard, Flushes
<1> QED BY <1>6, <1>7, <1>8, <1>10, <1>11

\* What a call that settles finds: those that ran before it are apart from it
\* or before it, and those to come are none of its business.
LEMMA SettleFinds ==
    ASSUME RoundInv, NEW i \in Ids, NEW success \in BOOLEAN, SettleCall(i, success)
    PROVE  /\ Types /\ stage = "run" /\ groups # <<>> /\ i \in Members(Group) /\ i \notin DOMAIN settled
           /\ UNCHANGED <<batch, todo, queue, groups, after, finished, reused, validated, mutated>>
           /\ DOMAIN settled' = DOMAIN settled \cup {i} /\ settled'[i] = success
           /\ \A j \in DOMAIN settled : settled'[j] = settled[j]
           /\ stage' \in {"run", "finish"} /\ Placed' /\ Ordered' /\ Ran' = Ran \cup {i}
           /\ \A j \in Ran \ {i} : ~Conflicts(i, j) \/ (j \in finished /\ j < i)
           /\ \A j \in DOMAIN settled : ~Conflicts(i, j)
<1> USE DEF RoundInv, effects, recovery
<1>1. Types /\ stage = "run" /\ i \in Members(Group) /\ i \notin DOMAIN settled
  BY DEF SettleCall, Running
<1>2. groups # <<>> /\ DOMAIN settled \subseteq Members(Group)
  BY <1>1 DEF Placed
<1>3. UNCHANGED <<batch, todo, queue, groups, after, finished, reused, validated, mutated>>
  BY DEF SettleCall
<1>4. /\ DOMAIN settled' = DOMAIN settled \cup {i} /\ settled'[i] = success
      /\ \A j \in DOMAIN settled : settled'[j] = settled[j]
  BY <1>1 DEF SettleCall
<1>5. stage' \in {"run", "finish"}
  BY DEF SettleCall
<1>6. Placed'
  BY <1>1, <1>2, <1>3, <1>4, <1>5 DEF Placed, Group
<1>7. Ordered'
  <2>1. InGroups' = InGroups /\ Group' = Group
    BY <1>3 DEF InGroups, Group
  <2>2. Increasing(queue)' /\ InOrder(groups)' /\ AllApart(groups)'
    BY <1>3, SameBatch DEF Ordered, Increasing, InOrder, AllApart
  <2> QED BY <1>3, <2>1, <2>2 DEF Ordered
<1>8. Ran' = Ran \cup {i}
  BY <1>3, <1>4 DEF Ran
<1>9. 1 \in DOMAIN groups /\ Group = groups[1]
  BY <1>1, <1>2 DEF Group, Types
<1>10. \A j \in Members(Group) \ {i} : ~Conflicts(i, j)
  BY <1>1, <1>9 DEF Ordered, AllApart
<1>11. \A j \in finished : j \in Members(Group) \/ j < i
  BY <1>1, <1>9 DEF Ordered
<1>12. \A j \in Ran \ {i} : ~Conflicts(i, j) \/ (j \in finished /\ j < i)
  BY <1>2, <1>10, <1>11 DEF Ran
<1>13. \A j \in DOMAIN settled : ~Conflicts(i, j)
  BY <1>1, <1>2, <1>10
<1> QED BY <1>1, <1>2, <1>3, <1>4, <1>5, <1>6, <1>7, <1>8, <1>12, <1>13

\* A write is in conflict with a read of its file, and with a check.
LEMMA WritesConflict ==
    ASSUME NEW w, NEW j, Op(w) = "write"
    PROVE  /\ Op(j) = "read" /\ ~Conflicts(w, j) => batch[w].paths \cap batch[j].paths = {}
           /\ Op(j) = "check" => Conflicts(w, j) /\ Conflicts(j, w)
<1>1. Op(w) \notin Commands /\ ~ReadOnly(w)
  BY DEF Commands, ReadOnly
<1>2. Op(j) = "check" => Op(j) \in Commands
  BY DEF Commands
<1>3. Op(j) = "check" => Conflicts(w, j)
  BY <1>1, <1>2 DEF Conflicts
<1> QED BY <1>1, <1>3, ConflictsAreMutual DEF Conflicts

(* Whatever the call has done and whatever its result says of it.          *)
LEMMA SettledKeeps ==
    ASSUME RoundInv, NEW i \in Ids, NEW s \in BOOLEAN,
           (CallSucceeds(i) /\ s) \/ (CallFails(i) /\ ~s)
    PROVE  RoundInv'
<1>0. SettleCall(i, s)
  BY DEF CallSucceeds, CallFails
<1> USE <1>0, SettleFinds, SameBatch
<1>1. Ids \subseteq Nat /\ Ids' = Ids
  BY IdsAreNumbers
<1>2. PICK effect \in EffectOf(i) : Does(i, s, effect)
  BY DEF CallSucceeds, CallFails
<1>3. /\ effect \in BOOLEAN /\ (Op(i) = "read" => ~effect)
      /\ applied' = IF Op(i) = "write" /\ effect THEN applied \cup {i} ELSE applied
      /\ writes' = IF Op(i) = "write" /\ effect /\ s THEN writes + 1 ELSE writes
      /\ checkedAt' = IF Op(i) = "check" /\ s THEN writes ELSE checkedAt
  BY <1>2 DEF EffectOf, Does, CallSucceeds, CallFails
<1>4. /\ sound' = ((sound \/ (Op(i) = "check" /\ s)) /\ ~effect)
      /\ slipped' = ((slipped \/ effect) /\ ~(Op(i) = "write" /\ s))
  BY <1>2 DEF Does
<1>5. seen' = IF Op(i) = "read" /\ s
                THEN [j \in DOMAIN seen \cup {i} |->
                         IF j = i THEN {w \in applied : batch[w].paths \cap batch[i].paths # {}} ELSE seen[j]]
                ELSE seen
  BY DEF CallSucceeds, CallFails
<1>6. Types'
  <2>1. UNCHANGED <<batch, todo, queue, groups, after, finished, validated, mutated>> /\ Types
    OBVIOUS
  <2>2. DOMAIN settled' \subseteq Ids /\ \A j \in DOMAIN settled' : settled'[j] \in BOOLEAN
    <3>1. settled'[i] = s /\ s \in BOOLEAN
      OBVIOUS
    <3>2. DOMAIN settled' = DOMAIN settled \cup {i} /\ \A j \in DOMAIN settled : settled'[j] \in BOOLEAN
      BY <2>1 DEF Types
    <3> QED BY <2>1, <3>1, <3>2 DEF Types
  <2>3. stage' \in Stages
    BY DEF Stages
  <2>4. writes' \in Nat
    BY <1>3, <2>1 DEF Types
  <2>5. sound' \in BOOLEAN /\ slipped' \in BOOLEAN
    BY <1>4
  <2> QED BY <1>1, <2>1, <2>2, <2>3, <2>4, <2>5 DEF Types
\* What ran before a read and wrote its file was asked for before it.
<1>7. ReadsAreOrdered'
  <2> SUFFICES ASSUME NEW r \in DOMAIN seen' \ reused
               PROVE  seen'[r] = {w \in applied' : w < r /\ batch[w].paths \cap batch[r].paths # {}}
    <3>1. UNCHANGED <<batch, reused>>
      OBVIOUS
    <3> QED BY <3>1 DEF ReadsAreOrdered
  <2>1. CASE Op(i) = "read" /\ s /\ r = i
    <3>1. seen'[r] = {w \in applied : batch[w].paths \cap batch[i].paths # {}} /\ applied' = applied
      BY <1>3, <1>5, <2>1
    <3>2. ASSUME NEW w \in applied, batch[w].paths \cap batch[i].paths # {} PROVE w < i
      <4>1. w \in Ran /\ Op(w) = "write" /\ w # i
        BY <2>1 DEF RoundInv, Effects
      <4>2. Conflicts(i, w)
        BY <2>1, <3>2, <4>1, WritesConflict, ConflictsAreMutual
      <4> QED BY <4>1, <4>2
    <3> QED BY <2>1, <3>1, <3>2
  <2>2. CASE ~(Op(i) = "read" /\ s /\ r = i)
    <3>1. r \in DOMAIN seen \ reused /\ seen'[r] = seen[r]
      BY <1>5, <2>2
    <3>2. r \in Ran /\ Op(r) = "read" /\ seen[r] = {w \in applied : w < r /\ batch[w].paths \cap batch[r].paths # {}}
      BY <3>1 DEF RoundInv, Effects, ReadsAreOrdered
    <3>3. ASSUME Op(i) = "write" PROVE ~(i < r /\ batch[i].paths \cap batch[r].paths # {})
      <4>1. r # i
        BY <3>2, <3>3
      <4>2. ~Conflicts(i, r) \/ (r \in finished /\ r < i)
        BY <3>2, <4>1
      <4>3. CASE ~Conflicts(i, r)
        BY <3>2, <3>3, <4>3, WritesConflict
      <4>4. CASE r \in finished /\ r < i
        <5>1. r \in Nat /\ i \in Nat
          BY <1>1, <4>4 DEF Types
        <5> QED BY <4>4, <5>1
      <4> QED BY <4>2, <4>3, <4>4
    <3>4. CASE applied' = applied
      BY <3>1, <3>2, <3>4
    <3>5. CASE applied' = applied \cup {i} /\ Op(i) = "write"
      BY <3>1, <3>2, <3>3, <3>5
    <3> QED BY <1>3, <3>4, <3>5
  <2> QED BY <2>1, <2>2
<1>8. Effects'
  <2>1. applied' \subseteq Ran' /\ \A w \in applied' : Op(w)' = "write"
    BY <1>3 DEF RoundInv, Effects
  <2>2. DOMAIN seen' \ reused' \subseteq Ran' /\ \A r \in DOMAIN seen' \ reused' : Op(r)' = "read"
    <3>1. \A r \in DOMAIN seen' : r \in DOMAIN seen \/ (r = i /\ Op(i) = "read")
      BY <1>5
    <3>2. reused' = reused /\ Ran' = Ran \cup {i} /\ \A r : Op(r)' = Op(r)
      OBVIOUS
    <3> QED BY <3>1, <3>2 DEF RoundInv, Effects
  <2> QED BY <1>7, <2>1, <2>2 DEF Effects
<1>9. Fresh'
  <2>1. Unheard' = IF Op(i) = "write" /\ s THEN Unheard \cup {i} ELSE Unheard
    BY DEF Unheard
  <2>2. writes \in Nat
    BY DEF Types
  \* Nothing but a write the turn will hear of leaves the files unsound
  \* unnoticed.
  <2>3. ASSUME sound \/ slipped, ~(Op(i) = "write" /\ s) PROVE sound' \/ slipped'
    BY <1>4, <2>3
  \* A check that has settled is in no group with a write.
  <2>4. ASSUME NEW j \in DOMAIN settled', settled'[j], Op(j) = "check"
        PROVE  checkedAt' = writes' /\ (sound' \/ slipped')
    <3>1. CASE Op(i) = "check" /\ s
      BY <1>3, <1>4, <3>1
    <3>2. CASE ~(Op(i) = "check" /\ s)
      <4>1. j \in DOMAIN settled /\ settled[j] /\ checkedAt = writes /\ (sound \/ slipped)
        BY <2>4, <3>2 DEF RoundInv, Fresh
      <4>2. Op(i) # "write"
        BY <2>4, <4>1, WritesConflict
      <4> QED BY <1>3, <2>3, <3>2, <4>1, <4>2
    <3> QED BY <3>1, <3>2
  <2>5. CASE Op(i) = "write" /\ s
    <3>1. Unheard' # {}
      BY <2>1, <2>5
    <3> QED BY <2>4, <3>1 DEF Fresh
  <2>6. CASE ~(Op(i) = "write" /\ s)
    <3>1. writes' = writes /\ Unheard' = Unheard /\ UNCHANGED <<validated, mutated>>
      BY <1>3, <2>1, <2>6
    <3>2. writes' > 0 => mutated' \/ Unheard' # {}
      BY <3>1 DEF RoundInv, Fresh
    <3>3. validated /\ Unheard = {} => checkedAt' = writes
      BY <1>3 DEF RoundInv, Fresh
    <3>4. validated /\ Unheard = {} => sound' \/ slipped'
      BY <2>3, <2>6 DEF RoundInv, Fresh
    <3> QED BY <2>4, <3>1, <3>2, <3>3, <3>4 DEF Fresh
  <2> QED BY <2>5, <2>6
<1> QED BY <1>6, <1>8, <1>9 DEF RoundInv

(* A result is taken up: the first of its group; with the last, the group  *)
(* is done, and all of it comes before the next.                           *)
LEMMA FinishKeeps == ASSUME RoundInv, FinishCall \/ FinishFailedEdit PROVE RoundInv'
<1> USE DEF RoundInv, truth
<1>1. stage = "finish" /\ Proceed(First) /\ TakeEffect(First) /\ finished' = finished \cup {First}
  BY DEF FinishCall, FinishFailedEdit
<1>2. UNCHANGED <<batch, todo, queue, after, applied, seen, reused, truth>>
  BY <1>1 DEF FinishCall, FinishFailedEdit, Proceed
<1> DEFINE i == First
<1>3. Ids \subseteq Nat /\ groups # <<>> /\ i \in DOMAIN settled /\ i \in Members(Group) /\ i \in Ids
  BY <1>1, IdsAreNumbers, FirstIsLeast DEF Types, Placed
<1>4. DOMAIN settled' = DOMAIN settled \ {i} /\ \A j \in DOMAIN settled' : settled'[j] = settled[j]
  BY <1>1 DEF Proceed
<1>5. \/ DOMAIN settled' # {} /\ UNCHANGED <<groups, stage>>
      \/ /\ DOMAIN settled' = {} /\ groups' = Tail(groups)
         /\ stage' = IF groups' = <<>> THEN after ELSE "run"
  BY <1>1 DEF Proceed
<1>6. UNCHANGED batch /\ Ids' = Ids /\ finished' = finished \cup {i} /\ Ran' = Ran
  BY <1>1, <1>2, <1>3, <1>4, SameBatch DEF Ran
<1>7. queue = <<>> /\ groups \in Seq(Seq(Ids)) /\ 1 \in DOMAIN groups /\ Group = groups[1]
  BY <1>3 DEF Types, Placed, Group
<1> HIDE DEF i
<1>8. /\ Tail(groups) \in Seq(Seq(Ids)) /\ \A a \in DOMAIN Tail(groups) : a \in Nat /\ a > 0
      /\ \A a \in DOMAIN Tail(groups) : a + 1 \in DOMAIN groups /\ 1 < a + 1 /\ Tail(groups)[a] = groups[a + 1]
  BY <1>7
<1>9. Types'
  <2>1. groups' \in Seq(Seq(Ids)) /\ stage' \in Stages
    BY <1>5, <1>7, <1>8 DEF Types, Stages
  <2>2. validated' \in BOOLEAN /\ mutated' \in BOOLEAN
    BY <1>1 DEF Types, TakeEffect, Remembered, effects
  <2> QED BY <1>2, <1>3, <1>4, <1>6, <2>1, <2>2 DEF Types
<1>10. Placed'
  BY <1>1, <1>2, <1>4, <1>5, <1>7 DEF Placed, Group, Types
<1>11. Ordered'
  <2>1. i \notin todo /\ \A j \in todo : i < j
    <3>1. i \in InGroups
      BY <1>3, <1>7 DEF InGroups
    <3> QED BY <1>3, <3>1 DEF Ordered
  <2>2. Members(queue') = {} /\ Increasing(queue)'
    BY <1>2, <1>7 DEF Members, Increasing
  <2>3. CASE UNCHANGED groups
    <3>1. InGroups' = InGroups /\ Group' = Group
      BY <2>3 DEF InGroups, Group
    <3>2. InOrder(groups)' /\ AllApart(groups)'
      BY <2>3, <1>6, SameBatch DEF Ordered, InOrder, AllApart
    <3> QED BY <1>2, <1>3, <1>6, <2>1, <2>2, <2>3, <3>1, <3>2 DEF Ordered
  <2>4. CASE groups' = Tail(groups)
    <3>1. InOrder(groups)'
      <4> SUFFICES ASSUME NEW a \in DOMAIN Tail(groups), NEW b \in DOMAIN Tail(groups), a < b
                   PROVE  \A k \in Members(groups[a + 1]), j \in Members(groups[b + 1]) : k < j
        BY <1>8, <2>4 DEF InOrder
      <4>1. a + 1 < b + 1
        BY <1>8
      <4> QED BY <1>8, <4>1 DEF Ordered, InOrder
    <3>2. AllApart(groups)'
      BY <1>6, <1>8, <2>4, SameBatch DEF Ordered, AllApart
    <3>3. InGroups' \subseteq InGroups
      BY <1>8, <2>4 DEF InGroups
    <3>4. ASSUME NEW k \in finished \cup {i}, NEW b \in DOMAIN Tail(groups), NEW j \in Members(groups[b + 1])
          PROVE  k < j
      <4>1. CASE k \in Members(Group)
        BY <1>7, <1>8, <4>1 DEF Ordered, InOrder
      <4>2. CASE k \notin Members(Group)
        BY <1>3, <1>8, <4>2 DEF Ordered
      <4> QED BY <4>1, <4>2
    <3>5. \A k \in finished', b \in DOMAIN groups' : \A j \in Members(groups'[b]) : k < j
      BY <1>6, <1>8, <2>4, <3>4
    <3>6. \A k \in finished' \cup Members(queue') \cup InGroups', j \in todo' : k < j
      BY <1>2, <1>6, <2>1, <2>2, <3>3 DEF Ordered
    <3> QED BY <2>2, <3>1, <3>2, <3>5, <3>6 DEF Ordered
  <2> QED BY <1>5, <2>3, <2>4
<1>12. Effects'
  <2>1. ReadsAreOrdered'
    BY <1>2 DEF Effects, ReadsAreOrdered
  <2> QED BY <1>2, <1>6, <2>1, SameBatch DEF Effects
<1>13. Fresh'
  <2>1. \A j \in DOMAIN settled' : settled'[j] /\ Op(j)' = "check" => checkedAt' = writes' /\ (sound' \/ slipped')
    BY <1>2, <1>4, SameBatch DEF Fresh
  <2>2. CASE ~settled[i]
    <3>1. UNCHANGED <<validated, mutated>>
      BY <1>1, <2>2 DEF TakeEffect, effects, i
    <3>2. Unheard' = Unheard
      BY <1>2, <1>4, <2>2, SameBatch DEF Unheard
    <3> QED BY <1>2, <2>1, <3>1, <3>2 DEF Fresh
  <2>3. CASE settled[i] /\ Op(i) = "write"
    <3>1. validated' = FALSE /\ mutated' = TRUE
      BY <1>1, <2>3 DEF TakeEffect, Remembered, i
    <3>2. i \in Unheard
      BY <1>3, <2>3 DEF Unheard
    <3> QED BY <1>2, <2>1, <3>1, <3>2 DEF Fresh
  <2>4. CASE settled[i] /\ Op(i) # "write"
    <3>1. mutated' = mutated /\ validated' = (validated \/ Op(i) = "check")
      BY <1>1, <2>4 DEF TakeEffect, Remembered, i, Types
    <3>2. Unheard' = Unheard
      BY <1>2, <1>4, <2>4, SameBatch DEF Unheard
    <3>3. Op(i) = "check" => checkedAt = writes /\ (sound \/ slipped)
      BY <1>3, <2>4 DEF Fresh
    <3> QED BY <1>2, <2>1, <3>1, <3>2, <3>3 DEF Fresh
  <2> QED BY <2>2, <2>3, <2>4
<1> QED BY <1>9, <1>10, <1>11, <1>12, <1>13

LEMMA StepRoundInv == RoundInv /\ [RoundNext]_roundVars => RoundInv'
<1> SUFFICES ASSUME RoundInv, [RoundNext]_roundVars PROVE RoundInv'
  OBVIOUS
<1>1. CASE ModelCallsTools
  BY <1>1, ModelCallsKeeps
<1>2. CASE Process
  <2>1. CASE StopRound
    BY <2>1, FlushSteps, FlushKeeps, StopRoundStill, StillKeeps, StillEffects DEF RoundInv
  <2> QED BY <1>2, <2>1, StillSteps, CacheKeeps, EnqueueKeeps, FlushSteps, FlushKeeps, FinishKeeps DEF Process
<1>3. ASSUME NEW i \in Ids, CallSucceeds(i) \/ CallFails(i) \/ CallTimesOut(i) PROVE RoundInv'
  BY <1>3, SettledKeeps DEF CallTimesOut
<1>4. CASE UNCHANGED roundVars
  <2>1. Still /\ UNCHANGED <<seen, reused>>
    BY <1>4 DEF Still, roundVars, dispatch, recovery, effects, history, truth, RoundInv, Types, Placed
  <2> QED BY <2>1, StillKeeps, StillEffects DEF RoundInv
<1> QED BY <1>1, <1>2, <1>3, <1>4, StillSteps DEF RoundNext

LEMMA RoundInvariance == RoundSpec => []RoundInv
BY InitRoundInv, StepRoundInv, PTL DEF RoundSpec

(* For any calls and files, calls that conflict start in the model's order *)
(* however the groups of _flush_dispatch_queue interleave, and a read that *)
(* is executed sees the writes asked for before it and no others.          *)
THEOREM ConflictsAlwaysRunInOrder == RoundSpec => []ConflictsRunInOrder
<1>1. RoundInv => ConflictsRunInOrder
  BY InvStartsInOrder DEF ConflictsRunInOrder, RoundInv, Effects
<1> QED BY <1>1, RoundInvariance, PTL

(* No write that changed a file and said so comes after the check that a   *)
(* confirmed validation (validation_confirmed) rests on; if the results    *)
(* since the last write all said what their calls had done, that check     *)
(* passed and the files are as it saw them; and any_mutation is set by     *)
(* every such write.                                                       *)
THEOREM ValidationIsAlwaysFresh == RoundSpec => []ValidationIsFresh
BY InvValidationIsFresh, RoundInvariance, PTL

-----------------------------------------------------------------------------
(* The conversation.                                                       *)

\* as answers each of ids once.
AnswersEach(as, ids) ==
    \E n \in Nat : \E p \in [1 .. n -> ids] :
        /\ as = [k \in 1 .. n |-> Answer(p[k])]
        /\ \A k, l \in 1 .. n : p[k] = p[l] => k = l
        /\ \A i \in ids : \E k \in 1 .. n : p[k] = i

LEMMA AnswersToEach ==
    ASSUME NEW ids, ids \subseteq Nat, IsFiniteSet(ids)
    PROVE  AnswersEach(AnswersTo(ids), ids)
<1> DEFINE Below(i) == {j \in ids : j < i}
           n == Cardinality(ids)
           place == [i \in ids |-> Cardinality(Below(i)) + 1]
<1>1. n \in Nat
  BY FS_CardinalityType
<1>2. ASSUME NEW i \in ids PROVE IsFiniteSet(Below(i)) /\ Cardinality(Below(i)) \in Nat /\ Cardinality(Below(i)) < n
  <2>1. Below(i) \in SUBSET ids /\ i \notin Below(i)
    OBVIOUS
  <2>2. IsFiniteSet(Below(i)) /\ Cardinality(Below(i)) <= n /\ (n = Cardinality(Below(i)) => ids = Below(i))
    BY <2>1, FS_Subset
  <2>3. Cardinality(Below(i)) \in Nat
    BY <2>2, FS_CardinalityType
  <2> QED BY <1>1, <2>1, <2>2, <2>3
<1>3. ASSUME NEW i \in ids, NEW j \in ids, i < j PROVE Cardinality(Below(i)) < Cardinality(Below(j))
  <2>0. \A x \in ids : x < i => x < j
    <3> SUFFICES ASSUME NEW x \in ids, x < i PROVE x < j
      OBVIOUS
    <3>1. x \in Nat /\ i \in Nat /\ j \in Nat
      OBVIOUS
    <3> QED BY <1>3, <3>1
  <2>3. Below(i) \subseteq Below(j)
    BY <2>0
  <2>4. i \in Below(j) /\ i \notin Below(i)
    BY <1>3
  <2>1. Below(i) \in SUBSET Below(j) /\ i \in Below(j) /\ i \notin Below(i)
    BY <2>3, <2>4
  <2>2. Cardinality(Below(i)) <= Cardinality(Below(j)) /\ (Cardinality(Below(j)) = Cardinality(Below(i)) => Below(j) = Below(i))
    BY <1>2, <2>1, FS_Subset
  <2> QED BY <1>2, <2>1, <2>2
<1> HIDE DEF Below, n
<1>4. ASSUME NEW i \in ids, NEW j \in ids, Cardinality(Below(i)) = Cardinality(Below(j)) PROVE i = j
  <2>1. ~(i < j) /\ ~(j < i)
    BY <1>2, <1>3, <1>4
  <2>2. i \in Nat /\ j \in Nat
    OBVIOUS
  <2> QED BY <2>1, <2>2
<1>5. place \in [ids -> 1 .. n]
  BY <1>1, <1>2
<1>6. place \in Injection(ids, 1 .. n)
  <2>1. \A i, j \in ids : place[i] = place[j] => i = j
    BY <1>2, <1>4
  <2> QED BY <1>5, <2>1 DEF Injection, IsInjective
<1>7. IsFiniteSet(1 .. n) /\ Cardinality(1 .. n) = n
  BY <1>1, FS_Interval
<1>8. place \in Surjection(ids, 1 .. n)
  BY <1>6, <1>7, FS_Injection DEF n
<1>9. \A k \in 1 .. n : \E i \in ids : Cardinality(Below(i)) = k - 1
  <2> SUFFICES ASSUME NEW k \in 1 .. n PROVE \E i \in ids : Cardinality(Below(i)) = k - 1
    OBVIOUS
  <2>1. PICK i \in ids : place[i] = k
    BY <1>8 DEF Surjection
  <2> QED BY <1>2, <2>1
<1> DEFINE p == [k \in 1 .. n |-> CHOOSE i \in ids : Cardinality(Below(i)) = k - 1]
<1>10. \A k \in 1 .. n : p[k] \in ids /\ Cardinality(Below(p[k])) = k - 1
  BY <1>9
<1>11. AnswersTo(ids) = [k \in 1 .. n |-> Answer(p[k])]
  BY DEF AnswersTo, Below, n
<1> HIDE DEF p
<1>12. \A k, l \in 1 .. n : p[k] = p[l] => k = l
  BY <1>10
<1>13. \A i \in ids : \E k \in 1 .. n : p[k] = i
  <2> SUFFICES ASSUME NEW i \in ids PROVE \E k \in 1 .. n : p[k] = i
    OBVIOUS
  <2> DEFINE k == Cardinality(Below(i)) + 1
  <2>1. k \in 1 .. n /\ k - 1 = Cardinality(Below(i))
    BY <1>1, <1>2
  <2>2. p[k] = i
    BY <1>4, <1>10, <2>1
  <2> QED BY <2>1, <2>2
<1>14. p \in [1 .. n -> ids]
  BY <1>10 DEF p
<1> QED BY <1>1, <1>11, <1>12, <1>13, <1>14 DEF AnswersEach

LEMMA OneAnswer == ASSUME NEW i PROVE AnswersEach(<<Answer(i)>>, {i})
<1> DEFINE p == [k \in 1 .. 1 |-> i]
<1>1. p \in [1 .. 1 -> {i}] /\ <<Answer(i)>> = [k \in 1 .. 1 |-> Answer(p[k])]
  OBVIOUS
<1>2. (\A k, l \in 1 .. 1 : p[k] = p[l] => k = l) /\ \A j \in {i} : \E k \in 1 .. 1 : p[k] = j
  OBVIOUS
<1>3. 1 \in Nat
  OBVIOUS
<1> QED BY <1>1, <1>2, <1>3 DEF AnswersEach

Plain == stage # "end" /\ ~switched /\ Ids # {} /\ \A k \in DOMAIN talk : talk[k].calls # {Refresh}

\* Calls of the round without a result in the conversation.
Unanswered == todo \cup Outstanding

Messages == [role : {"assistant", "tool"}, calls : SUBSET Nat]

\* The model's calls, then one answer for each call that is no longer waiting.
AnsweredOnce ==
    /\ talk # <<>> /\ talk[1] = Asks(Ids)
    /\ \A k \in DOMAIN talk : k = 1 \/ \E i \in Ids \ Unanswered : talk[k] = Answer(i)
    /\ \A k, l \in DOMAIN talk : talk[k] = talk[l] => k = l
    /\ \A i \in Ids \ Unanswered : \E k \in DOMAIN talk : talk[k] = Answer(i)

\* Where the calls of the group at work stand, and when none are left to do.
AtWork ==
    /\ stage = "idle" \/ (stage \in {"run", "finish"} /\ after = "idle") => todo = {}
    /\ stage = "run" => finished \cap Members(Group) = {}
    /\ stage = "finish" => Members(Group) \ finished = DOMAIN settled

TalkInv == AtWork /\ talk \in Seq(Messages) /\ (Plain => AnsweredOnce)

LEMMA InvResultsArrive == RoundInv /\ TalkInv => ResultsArrive
<1> SUFFICES ASSUME RoundInv, TalkInv, stage = "idle", ~switched, \A k \in DOMAIN talk : talk[k].calls # {Refresh},
                    NEW i \in Ids
             PROVE  /\ Delivered(i)
                    /\ \A j, k \in DOMAIN talk : talk[j] = Answer(i) /\ talk[k] = Answer(i) => j = k
  BY DEF ResultsArrive
<1>1. AnsweredOnce
  BY DEF TalkInv, Plain
<1>2. queue = <<>> /\ groups = <<>> /\ todo = {}
  BY DEF RoundInv, Placed, TalkInv, AtWork
<1>3. Unanswered = {}
  BY <1>2 DEF Unanswered, Outstanding, Members
<1>4. PICK k \in DOMAIN talk : talk[k] = Answer(i)
  BY <1>1, <1>3 DEF AnsweredOnce
<1>5. talk \in Seq(Messages) /\ DOMAIN talk = 1 .. Len(talk) /\ Len(talk) \in Nat
  BY DEF TalkInv
<1>6. talk[k].role = "tool" /\ talk[k].calls = {i} /\ talk[1].role = "assistant" /\ talk[1].calls = Ids
  BY <1>1, <1>4 DEF AnsweredOnce, Asks, Answer
<1>7. 1 \in 1 .. (k - 1)
  BY <1>4, <1>5, <1>6
<1>8. ASSUME NEW j \in (1 + 1) .. (k - 1) PROVE talk[j].role = "tool" /\ talk[j].calls # talk[k].calls
  <2>1. j \in DOMAIN talk /\ j # 1 /\ j # k
    BY <1>5
  <2>2. PICK m \in Ids : talk[j] = Answer(m)
    BY <1>1, <2>1 DEF AnsweredOnce
  <2>3. m # i
    BY <1>1, <1>4, <2>1, <2>2 DEF AnsweredOnce
  <2> QED BY <1>6, <2>2, <2>3 DEF Answer
<1>9. Survives(k)
  <2>1. talk[1].role = "assistant" /\ talk[k].calls \subseteq talk[1].calls
    BY <1>6
  <2>2. \A j \in (1 + 1) .. (k - 1) : talk[j].role = "tool" /\ talk[j].calls # talk[k].calls
    BY <1>8
  <2> QED BY <1>6, <1>7, <2>1, <2>2, Zenon DEF Survives
<1> QED BY <1>1, <1>4, <1>6, <1>9 DEF Delivered, AnsweredOnce

LEMMA Messaging ==
    /\ \A i : Answer(i).role = "tool" /\ Answer(i).calls = {i}
    /\ \A ids : Asks(ids).role = "assistant" /\ Asks(ids).calls = ids
    /\ \A i, j : Answer(i) = Answer(j) => i = j
    /\ \A i, ids : Answer(i) # Asks(ids)
<1>1. \A i : Answer(i).role = "tool" /\ Answer(i).calls = {i}
  BY DEF Answer
<1>2. \A ids : Asks(ids).role = "assistant" /\ Asks(ids).calls = ids
  BY DEF Asks
<1>3. \A i, j : {i} = {j} => i = j
  OBVIOUS
<1>4. ASSUME NEW i, NEW j, Answer(i) = Answer(j) PROVE i = j
  <2>1. {i} = {j}
    BY <1>1, <1>4
  <2> QED BY <1>3, <2>1
<1>5. ASSUME NEW i, NEW ids, Answer(i) = Asks(ids) PROVE FALSE
  <2>1. "tool" = "assistant"
    BY <1>1, <1>2, <1>5
  <2> QED BY <2>1
<1> QED BY <1>1, <1>2, <1>4, <1>5

LEMMA Concatenated ==
    ASSUME NEW S, NEW s \in Seq(S), NEW t \in Seq(S)
    PROVE  /\ s \o t \in Seq(S) /\ DOMAIN (s \o t) = 1 .. Len(s) + Len(t)
           /\ \A k \in 1 .. Len(s) : (s \o t)[k] = s[k]
           /\ \A k \in Len(s) + 1 .. Len(s) + Len(t) : (s \o t)[k] = t[k - Len(s)]
<1> DEFINE u == s \o t
<1>1. u \in Seq(S) /\ Len(u) = Len(s) + Len(t)
  OBVIOUS
<1>2. ASSUME NEW k \in 1 .. Len(s) PROVE u[k] = s[k]
  OBVIOUS
<1>3. ASSUME NEW k \in Len(s) + 1 .. Len(s) + Len(t) PROVE u[k] = t[k - Len(s)]
  OBVIOUS
<1>4. DOMAIN u = 1 .. Len(u)
  BY <1>1
<1> QED BY <1>1, <1>2, <1>3, <1>4

(* Results join the conversation, of calls that had none.                  *)
LEMMA TalkGrows ==
    ASSUME Types, talk \in Seq(Messages), Plain => AnsweredOnce, UNCHANGED batch,
           NEW as, NEW ids \in SUBSET (Ids \cap Unanswered), AnswersEach(as, ids), talk' = talk \o as,
           Unanswered' = Unanswered \ ids,
           stage' # "end" => stage # "end", switched => switched'
    PROVE  talk' \in Seq(Messages) /\ (Plain => AnsweredOnce)'
<1>1. PICK n \in Nat : \E p \in [1 .. n -> ids] :
        /\ as = [k \in 1 .. n |-> Answer(p[k])]
        /\ \A k, l \in 1 .. n : p[k] = p[l] => k = l
        /\ \A i \in ids : \E k \in 1 .. n : p[k] = i
  BY DEF AnswersEach
<1>2. PICK p \in [1 .. n -> ids] :
        /\ as = [k \in 1 .. n |-> Answer(p[k])]
        /\ \A k, l \in 1 .. n : p[k] = p[l] => k = l
        /\ \A i \in ids : \E k \in 1 .. n : p[k] = i
  BY <1>1
<1>3. Ids \subseteq Nat /\ Ids' = Ids
  BY IdsAreNumbers, SameBatch
<1>4. \A i \in Ids : Answer(i) \in Messages
  BY <1>3 DEF Answer, Messages
<1>5. as \in Seq(Messages) /\ Len(as) = n
  <2>1. \A k \in 1 .. n : Answer(p[k]) \in Messages
    BY <1>4
  <2> QED BY <1>2, <2>1
<1> DEFINE L == Len(talk)
<1>6. L \in Nat /\ DOMAIN talk = 1 .. L
  OBVIOUS
<1>7. talk' \in Seq(Messages) /\ DOMAIN talk' = 1 .. L + n
  BY <1>5, Concatenated
<1>8. /\ \A k \in 1 .. L : talk'[k] = talk[k]
      /\ \A k \in 1 .. n : talk'[L + k] = Answer(p[k])
  <2>1. \A k \in 1 .. n : as[k] = Answer(p[k])
    BY <1>2
  <2>2. ASSUME NEW k \in 1 .. Len(talk) PROVE (talk \o as)[k] = talk[k]
    BY <1>5
  <2>3. ASSUME NEW k \in 1 .. Len(as) PROVE (talk \o as)[Len(talk) + k] = as[k]
    <3> DEFINE m == Len(talk) + k
    <3>1. m \in Len(talk) + 1 .. Len(talk) + Len(as) /\ m - Len(talk) = k
      BY <1>5, <1>6
    <3> HIDE DEF m
    <3>2. (talk \o as)[m] = as[m - Len(talk)]
      BY <1>5, <3>1, Concatenated, Zenon
    <3> QED BY <3>1, <3>2 DEF m
  <2> QED BY <1>5, <2>1, <2>2, <2>3
<1>9. \A k \in 1 .. L + n : k \in 1 .. L \/ \E m \in 1 .. n : k = L + m
  <2> SUFFICES ASSUME NEW k \in 1 .. L + n, k \notin 1 .. L PROVE \E m \in 1 .. n : k = L + m
    OBVIOUS
  <2>1. k - L \in 1 .. n /\ k = L + (k - L)
    BY <1>6
  <2> QED BY <2>1
<1> HIDE DEF L
<1>10. ASSUME Plain' PROVE AnsweredOnce'
  <2>1. \A k \in DOMAIN talk : talk[k].calls # {Refresh}
    <3> SUFFICES ASSUME NEW k \in 1 .. L PROVE talk[k].calls # {Refresh}
      BY <1>6
    <3>1. k \in 1 .. L + n
      BY <1>1, <1>6
    <3>2. talk'[k] = talk[k]
      BY <1>8
    <3> QED BY <1>7, <1>10, <3>1, <3>2 DEF Plain
  <2>2. AnsweredOnce
    BY <1>3, <1>10, <2>1 DEF Plain
  <2>3. talk' # <<>> /\ talk'[1] = Asks(Ids')
    <3>1. 1 \in 1 .. L
      BY <1>6, <2>2 DEF AnsweredOnce, L
    <3>2. talk'[1] = Asks(Ids)
      BY <1>8, <2>2, <3>1 DEF AnsweredOnce
    <3>3. 1 \in 1 .. L + n
      BY <1>1, <1>6, <3>1
    <3>4. talk' # <<>>
      <4>1. 1 \in DOMAIN talk'
        BY <1>7, <3>3
      <4>2. DOMAIN <<>> = {}
        OBVIOUS
      <4>3. talk' = <<>> => 1 \in DOMAIN <<>>
        BY <4>1, Zenon
      <4> QED BY <4>2, <4>3
    <3> QED BY <1>3, <3>2, <3>4
  <2>4. ASSUME NEW k \in 1 .. L + n PROVE k = 1 \/ \E i \in Ids \ Unanswered' : talk'[k] = Answer(i)
    <3>1. CASE k \in 1 .. L
      <4>1. talk'[k] = talk[k] /\ k \in DOMAIN talk
        BY <1>6, <1>8, <3>1
      <4>2. k = 1 \/ \E i \in Ids \ Unanswered : talk[k] = Answer(i)
        BY <2>2, <4>1 DEF AnsweredOnce
      <4>3. \A i \in Ids \ Unanswered : i \in Ids \ Unanswered'
        OBVIOUS
      <4> QED BY <4>1, <4>2, <4>3
    <3>2. ASSUME NEW m \in 1 .. n, k = L + m PROVE \E i \in Ids \ Unanswered' : talk'[k] = Answer(i)
      <4>1. p[m] \in Ids \ Unanswered' /\ talk'[k] = Answer(p[m])
        BY <1>8, <3>2
      <4> QED BY <4>1
    <3> QED BY <1>9, <3>1, <3>2
  \* An answered call is not in ids, and those in ids are answered once.
  <2>5. \A k \in 1 .. L, m \in 1 .. n : talk[k] # Answer(p[m])
    <3> SUFFICES ASSUME NEW k \in 1 .. L, NEW m \in 1 .. n, talk[k] = Answer(p[m]) PROVE FALSE
      OBVIOUS
    <3>1. k # 1
      <4> SUFFICES ASSUME k = 1 PROVE FALSE
        OBVIOUS
      <4>1. talk[1] = Asks(Ids)
        BY <2>2 DEF AnsweredOnce
      <4>2. Answer(p[m]) = Asks(Ids)
        BY <4>1
      <4> QED BY <4>2, Messaging
    <3>2. PICK i \in Ids \ Unanswered : talk[k] = Answer(i)
      BY <1>6, <2>2, <3>1 DEF AnsweredOnce
    <3>3. i = p[m]
      BY <3>2, Messaging
    <3> QED BY <3>2, <3>3
  <2>6. ASSUME NEW k \in 1 .. L + n, NEW l \in 1 .. L + n, talk'[k] = talk'[l] PROVE k = l
    <3>1. CASE k \in 1 .. L /\ l \in 1 .. L
      BY <1>6, <1>8, <2>2, <2>6, <3>1 DEF AnsweredOnce
    <3>2. ASSUME NEW m \in 1 .. n, NEW o \in 1 .. n, k = L + m, l = L + o PROVE k = l
      <4>1. Answer(p[m]) = Answer(p[o])
        BY <1>8, <2>6, <3>2
      <4>2. p[m] = p[o]
        BY <4>1, Messaging
      <4> QED BY <1>2, <3>2, <4>2
    <3>3. ASSUME NEW m \in 1 .. n, (k \in 1 .. L /\ l = L + m) \/ (l \in 1 .. L /\ k = L + m) PROVE FALSE
      <4>1. CASE k \in 1 .. L /\ l = L + m
        <5>1. talk'[k] = talk[k] /\ talk'[l] = Answer(p[m])
          BY <1>8, <4>1
        <5> QED BY <2>5, <2>6, <4>1, <5>1
      <4>2. CASE l \in 1 .. L /\ k = L + m
        <5>1. talk'[l] = talk[l] /\ talk'[k] = Answer(p[m])
          BY <1>8, <4>2
        <5> QED BY <2>5, <2>6, <4>2, <5>1
      <4> QED BY <3>3, <4>1, <4>2
    <3> QED BY <1>9, <3>1, <3>2, <3>3
  <2>7. ASSUME NEW i \in Ids \ Unanswered' PROVE \E k \in 1 .. L + n : talk'[k] = Answer(i)
    <3>1. CASE i \in ids
      <4>1. PICK m \in 1 .. n : p[m] = i
        BY <1>2, <3>1
      <4>2. L + m \in 1 .. L + n
        BY <1>6, <4>1
      <4>3. talk'[L + m] = Answer(i)
        BY <1>8, <4>1
      <4> QED BY <4>2, <4>3
    <3>2. CASE i \notin ids
      <4>1. PICK k \in 1 .. L : talk[k] = Answer(i)
        BY <1>6, <2>2, <3>2 DEF AnsweredOnce
      <4>2. k \in 1 .. L + n
        BY <1>6, <4>1
      <4>3. talk'[k] = Answer(i)
        BY <1>8, <4>1
      <4> QED BY <4>2, <4>3
    <3> QED BY <3>1, <3>2
  <2> QED BY <1>3, <1>7, <2>3, <2>4, <2>6, <2>7 DEF AnsweredOnce
<1> QED BY <1>7, <1>10

LEMMA TalkStays ==
    ASSUME talk \in Seq(Messages), Plain => AnsweredOnce, UNCHANGED <<batch, talk>>,
           Unanswered' = Unanswered, stage' # "end" => stage # "end", switched => switched'
    PROVE  talk' \in Seq(Messages) /\ (Plain => AnsweredOnce)'
<1>1. Ids' = Ids
  BY SameBatch
<1>2. Plain' => Plain
  BY <1>1 DEF Plain
<1> QED BY <1>1, <1>2 DEF AnsweredOnce

\* When the round is over for good, what was said before is let be.
LEMMA TalkOver ==
    ASSUME Types, talk \in Seq(Messages), NEW as \in Seq(Messages), talk' = talk \o as, ~Plain'
    PROVE  talk' \in Seq(Messages) /\ (Plain => AnsweredOnce)'
BY Concatenated

LEMMA AnswersAreMessages == ASSUME NEW i \in Nat PROVE Answer(i) \in Messages /\ Asks({i}) \in Messages
BY DEF Answer, Asks, Messages

LEMMA InitTalkInv == RoundInit => TalkInv
BY DEF RoundInit, TalkInv, AtWork, Plain, Ids

LEMMA ModelCallsTalk == ASSUME RoundInv, TalkInv, ModelCallsTools, RoundInv' PROVE TalkInv'
<1>1. stage' = "screen" /\ todo' = Ids' /\ talk' = <<Asks(Ids')>>
  <2>1. PICK n \in 1 .. MaxBatch : batch' \in [1 .. n -> CallKinds]
    BY DEF ModelCallsTools
  <2>2. n \in Nat /\ batch' \in Seq(CallKinds)
    BY <2>1, RoundAssumption
  <2>3. DOMAIN batch' = Ids'
    BY <2>1, <2>2 DEF Ids
  <2> QED BY <2>3 DEF ModelCallsTools
<1>2. Ids' \subseteq Nat
  BY DEF RoundInv, Types, Ids
<1>3. Asks(Ids') \in Messages
  BY <1>2 DEF Asks, Messages
<1>4. talk' \in Seq(Messages) /\ DOMAIN talk' = {1} /\ talk'[1] = Asks(Ids') /\ talk' # <<>>
  BY <1>1, <1>3
<1>5. Ids' \ Unanswered' = {}
  BY <1>1 DEF Unanswered
<1>6. AnsweredOnce'
  BY <1>4, <1>5 DEF AnsweredOnce
<1>7. AtWork'
  BY <1>1 DEF AtWork
<1> QED BY <1>4, <1>6, <1>7 DEF TalkInv

\* A part of the batch is answered before any call is looked at.
LEMMA ScreenTalk ==
    ASSUME RoundInv, TalkInv, stage = "screen", stage' \in Stages \ {"run", "finish"},
           UNCHANGED <<batch, queue, groups, settled, finished, after, switched>>,
           NEW ids \in SUBSET todo, talk' = talk \o AnswersTo(ids), todo' = todo \ ids,
           stage' = "idle" => todo' = {}
    PROVE  TalkInv'
<1>1. Ids \subseteq Nat /\ todo \subseteq Ids /\ Types
  BY IdsAreNumbers DEF RoundInv, Types
<1>2. IsFiniteSet(ids)
  <2>1. IsFiniteSet(Ids)
    <3>1. Len(batch) \in Nat
      BY <1>1 DEF Types
    <3> QED BY <3>1, FS_Interval DEF Ids
  <2> QED BY <1>1, <2>1, FS_Subset
<1>3. AnswersEach(AnswersTo(ids), ids)
  BY <1>1, <1>2, AnswersToEach
<1>4. queue = <<>> /\ groups = <<>>
  BY DEF RoundInv, Placed
<1>5. Unanswered = todo /\ Unanswered' = todo'
  BY <1>4 DEF Unanswered, Outstanding, Members
<1>6. talk' \in Seq(Messages) /\ (Plain => AnsweredOnce)'
  BY <1>1, <1>3, <1>5, TalkGrows DEF TalkInv
<1>7. AtWork'
  BY DEF AtWork
<1> QED BY <1>6, <1>7 DEF TalkInv

\* The current call is not in the queue or in a group, for it is after them.
LEMMA CurrentIsNew ==
    ASSUME RoundInv, todo # {}
    PROVE  /\ Current \in todo /\ Current \in Ids /\ Current \notin Members(queue) \cup InGroups \cup finished
           /\ \A j \in todo \ {Current} : Current < j
<1>1. Ids \subseteq Nat /\ todo \subseteq Ids
  BY IdsAreNumbers DEF RoundInv, Types
<1>2. Current \in todo /\ \A j \in todo \ {Current} : Current < j
  BY <1>1, CurrentIsLeast
<1>3. ~(Current < Current)
  BY <1>1, <1>2
<1> QED BY <1>1, <1>2, <1>3 DEF RoundInv, Ordered

LEMMA OutstandingIs == Outstanding = (Members(queue) \cup InGroups) \ finished
BY DEF Outstanding, InGroups

LEMMA FlushLeavesOutstanding == ASSUME RoundInv, Flushes PROVE Outstanding' = Outstanding /\ finished \cap Members(groups'[1]) = {}
<1> USE DEF RoundInv
<1>1. Ids \subseteq Nat /\ queue \in Seq(Ids) /\ Increasing(queue)
  BY IdsAreNumbers DEF Types, Ordered
<1>2. Cut(groups', queue, Len(queue))
  BY <1>1, GroupingCuts DEF Flushes
<1>3. groups = <<>> /\ queue' = <<>> /\ finished' = finished
  BY DEF Flushes, Placed
<1>4. Len(queue) \in Nat /\ DOMAIN queue = 1 .. Len(queue) /\ Len(queue) > 0
  BY <1>1 DEF Flushes
<1>5. \A a \in DOMAIN groups' : \A i \in Members(groups'[a]) : i \in Members(queue)
  <2> SUFFICES ASSUME NEW a \in DOMAIN groups', NEW i \in Members(groups'[a]) PROVE i \in Members(queue)
    OBVIOUS
  <2>1. PICK k \in 1 .. Len(queue) : queue[k] = i
    BY <1>2 DEF Cut
  <2> QED BY <1>4, <2>1 DEF Members
<1>6. \A i \in Members(queue) : \E a \in DOMAIN groups' : i \in Members(groups'[a])
  <2> SUFFICES ASSUME NEW i \in Members(queue) PROVE \E a \in DOMAIN groups' : i \in Members(groups'[a])
    OBVIOUS
  <2>1. PICK k \in 1 .. Len(queue) : queue[k] = i
    BY <1>4 DEF Members
  <2> QED BY <1>2, <2>1 DEF Cut
<1>7. InGroups = {} /\ Members(queue') = {} /\ InGroups' = Members(queue)
  <2>1. InGroups = {} /\ Members(queue') = {}
    BY <1>3 DEF InGroups, Members
  <2>2. InGroups' = Members(queue)
    BY <1>5, <1>6 DEF InGroups
  <2> QED BY <2>1, <2>2
<1>8. Outstanding' = Outstanding
  BY <1>3, <1>7 DEF Outstanding, InGroups
<1>9. 1 \in DOMAIN groups'
  BY <1>2, <1>4 DEF Cut
<1>10. finished \cap Members(groups'[1]) = {}
  <2> SUFFICES ASSUME NEW i \in finished, i \in Members(groups'[1]) PROVE FALSE
    OBVIOUS
  <2>1. i < i /\ i \in Nat
    BY <1>1, <1>5, <1>9 DEF Ordered, Types
  <2> QED BY <2>1
<1> QED BY <1>8, <1>10

\* The current call is answered, and whatever is queued before it may be
\* flushed at once.
LEMMA CurrentTalk ==
    ASSUME RoundInv, TalkInv, AtCall, Taken, Reply(<<Answer(Current)>>),
           (stage' \in {"calls", "end"} /\ UNCHANGED <<queue, groups, settled, finished, after>>) \/ Flushes,
           UNCHANGED switched
    PROVE  TalkInv'
<1>1. todo' = todo \ {Current} /\ UNCHANGED batch /\ talk' = talk \o <<Answer(Current)>> /\ todo # {} /\ stage = "calls"
  BY DEF AtCall, Taken, Reply
<1>2. Current \in todo /\ Current \in Ids /\ Current \notin Members(queue) \cup InGroups
  BY <1>1, CurrentIsNew
<1>3. Outstanding' = Outstanding
  BY FlushLeavesOutstanding DEF Outstanding
<1>4. Current \notin Outstanding
  BY <1>2, OutstandingIs
<1>5. Unanswered' = Unanswered \ {Current}
  BY <1>1, <1>3, <1>4 DEF Unanswered
<1>6. {Current} \in SUBSET (Ids \cap Unanswered)
  BY <1>2 DEF Unanswered
<1>7. AnswersEach(<<Answer(Current)>>, {Current})
  BY OneAnswer
<1>8. talk' \in Seq(Messages) /\ (Plain => AnsweredOnce)'
  BY <1>1, <1>5, <1>6, <1>7, TalkGrows DEF TalkInv, RoundInv
<1>9. AtWork'
  <2>1. CASE Flushes
    <3>1. stage' = "run" /\ finished' = finished /\ (after' = "idle" => todo' = {}) /\ finished \cap Members(groups'[1]) = {}
      BY <2>1, FlushLeavesOutstanding DEF Flushes
    <3>2. finished' \cap Members(Group)' = {}
      BY <3>1 DEF Group, Members
    <3> QED BY <3>1, <3>2 DEF AtWork
  <2>2. CASE ~Flushes
    BY <2>2 DEF AtWork
  <2> QED BY <2>1, <2>2
<1> QED BY <1>8, <1>9 DEF TalkInv

\* Nothing is said.
LEMMA SilentTalk ==
    ASSUME RoundInv, TalkInv, UNCHANGED <<talk, switched>>, StartCalls \/ Enqueue \/ FlushBeforeRestart \/ FlushAtEnd \/ RoundDone
    PROVE  TalkInv'
<1> USE DEF dispatch, recovery, effects, history, truth
<1>1. UNCHANGED batch /\ stage # "end"
  BY DEF StartCalls, Enqueue, FlushBeforeRestart, FlushAtEnd, RoundDone, Flush, AtCall, Taken
<1>2. Unanswered' = Unanswered
  <2>1. CASE Enqueue
    <3>1. /\ todo # {} /\ todo' = todo \ {Current} /\ queue' = Append(queue, Current)
          /\ UNCHANGED <<groups, finished>>
      BY <2>1 DEF Enqueue, AtCall, Taken
    <3>2. Current \in todo /\ Current \in Ids /\ Current \notin finished
      BY <3>1, CurrentIsNew
    <3>3. Members(queue') = Members(queue) \cup {Current}
      BY <3>1, <3>2, MembersOfAppended DEF RoundInv, Types
    <3> QED BY <3>1, <3>2, <3>3 DEF Unanswered, Outstanding
  <2>2. CASE FlushBeforeRestart \/ FlushAtEnd
    <3>1. todo' = todo
      BY <2>2 DEF FlushBeforeRestart, FlushAtEnd, Flush
    <3> QED BY <2>2, <3>1, FlushSteps, FlushLeavesOutstanding DEF Unanswered
  <2>3. CASE StartCalls \/ RoundDone
    BY <2>3 DEF StartCalls, RoundDone, Unanswered, Outstanding
  <2> QED BY <2>1, <2>2, <2>3
<1>3. talk' \in Seq(Messages) /\ (Plain => AnsweredOnce)'
  BY <1>1, <1>2, TalkStays DEF TalkInv
<1>4. AtWork'
  <2>1. CASE FlushBeforeRestart \/ FlushAtEnd
    <3>1. Flushes
      BY <2>1, FlushSteps
    <3>2. stage' = "run" /\ finished' = finished /\ (after' = "idle" => todo' = {}) /\ finished \cap Members(groups'[1]) = {}
      BY <3>1, FlushLeavesOutstanding DEF Flushes
    <3>3. finished' \cap Members(Group)' = {}
      BY <3>2 DEF Group, Members
    <3> QED BY <3>2, <3>3 DEF AtWork
  <2>2. CASE StartCalls \/ Enqueue \/ RoundDone
    BY <2>2 DEF StartCalls, Enqueue, RoundDone, AtWork, AtCall, Taken
  <2> QED BY <2>1, <2>2
<1> QED BY <1>3, <1>4 DEF TalkInv

LEMMA SettleTalk ==
    ASSUME RoundInv, TalkInv, NEW i \in Ids, CallSucceeds(i) \/ CallFails(i)
    PROVE  TalkInv'
<1>1. PICK success \in BOOLEAN : SettleCall(i, success)
  BY DEF CallSucceeds, CallFails
<1>2. /\ stage = "run" /\ i \in Members(Group)
      /\ UNCHANGED <<batch, todo, queue, groups, after, finished>>
      /\ DOMAIN settled' = DOMAIN settled \cup {i}
  BY <1>1, SettleFinds
<1>3. UNCHANGED <<talk, switched>> /\ stage' = IF DOMAIN settled' = Members(Group) THEN "finish" ELSE "run"
  BY <1>1 DEF SettleCall
<1>4. Unanswered' = Unanswered
  BY <1>2 DEF Unanswered, Outstanding
<1>5. talk' \in Seq(Messages) /\ (Plain => AnsweredOnce)'
  BY <1>2, <1>3, <1>4, TalkStays DEF TalkInv
<1>6. AtWork'
  <2>1. Group' = Group /\ finished \cap Members(Group) = {}
    BY <1>2 DEF Group, TalkInv, AtWork
  <2>2. finished' \cap Members(Group)' = {} /\ Members(Group)' \ finished' = Members(Group)
    BY <1>2, <2>1 DEF Members
  <2> QED BY <1>2, <1>3, <2>2 DEF AtWork, TalkInv
<1> QED BY <1>5, <1>6 DEF TalkInv

\* What is taken up leaves the group; with the last, the next group is fresh.
LEMMA FinishWork ==
    ASSUME RoundInv, TalkInv, FinishCall \/ FinishFailedEdit
    PROVE  /\ First \in Ids /\ First \in Unanswered /\ UNCHANGED <<batch, switched>>
           /\ stage = "finish" /\ Unanswered' = Unanswered \ {First} /\ AtWork'
<1> USE DEF RoundInv
<1>1. stage = "finish" /\ Proceed(First) /\ finished' = finished \cup {First} /\ UNCHANGED <<batch, todo, queue, after, switched>>
  BY DEF FinishCall, FinishFailedEdit, Proceed
<1> DEFINE i == First
<1>2. Ids \subseteq Nat /\ groups # <<>> /\ i \in DOMAIN settled /\ i \in Members(Group) /\ i \in Ids
  BY <1>1, IdsAreNumbers, FirstIsLeast DEF Types, Placed
<1>3. queue = <<>> /\ groups \in Seq(Seq(Ids)) /\ 1 \in DOMAIN groups /\ Group = groups[1]
  BY <1>1, <1>2 DEF Types, Placed, Group
<1>4. DOMAIN settled' = DOMAIN settled \ {i}
  BY <1>1 DEF Proceed
<1>5. \/ DOMAIN settled' # {} /\ UNCHANGED <<groups, stage>>
      \/ /\ DOMAIN settled' = {} /\ groups' = Tail(groups)
         /\ stage' = IF groups' = <<>> THEN after ELSE "run"
  BY <1>1 DEF Proceed
<1> HIDE DEF i
<1>6. Members(Group) \ finished = DOMAIN settled
  BY <1>1 DEF TalkInv, AtWork
<1>7. i \in Outstanding /\ i \notin todo
  <2>1. i \in InGroups
    BY <1>2, <1>3 DEF InGroups
  <2>2. i \in Nat
    BY <1>2
  <2>3. ~(i < i)
    BY <2>2
  <2> QED BY <1>2, <1>6, <2>1, <2>3, OutstandingIs DEF Ordered
<1>8. Members(queue) = {} /\ Members(queue') = {}
  BY <1>1, <1>3 DEF Members
<1>9. CASE DOMAIN settled' # {} /\ UNCHANGED <<groups, stage>>
  <2>1. Outstanding' = Outstanding \ {i}
    BY <1>1, <1>8, <1>9 DEF Outstanding, i
  <2>2. Unanswered' = Unanswered \ {i}
    BY <1>1, <1>7, <2>1 DEF Unanswered
  <2>3. Members(Group)' = Members(Group)
    BY <1>9 DEF Group, Members
  <2>4. Members(Group)' \ finished' = DOMAIN settled'
    BY <1>1, <1>4, <1>6, <2>3 DEF i
  <2>5. AtWork'
    BY <1>1, <1>9, <2>4 DEF AtWork, TalkInv
  <2> QED BY <1>1, <1>2, <1>7, <2>2, <2>5 DEF i, Unanswered
<1>10. CASE DOMAIN settled' = {} /\ groups' = Tail(groups) /\ stage' = IF groups' = <<>> THEN after ELSE "run"
  <2>1. /\ Tail(groups) \in Seq(Seq(Ids)) /\ \A a \in DOMAIN Tail(groups) : a \in Nat /\ a > 0
        /\ \A a \in DOMAIN Tail(groups) : a + 1 \in DOMAIN groups /\ 1 < a + 1 /\ Tail(groups)[a] = groups[a + 1]
        /\ \A b \in DOMAIN groups \ {1} : b - 1 \in DOMAIN Tail(groups) /\ Tail(groups)[b - 1] = groups[b]
    BY <1>3
  <2>2. InGroups' = UNION {Members(groups[b]) : b \in DOMAIN groups \ {1}}
    <3>1. ASSUME NEW k \in InGroups' PROVE \E b \in DOMAIN groups \ {1} : k \in Members(groups[b])
      <4>1. PICK a \in DOMAIN groups' : k \in Members(groups'[a])
        BY DEF InGroups
      <4>2. a + 1 \in DOMAIN groups \ {1} /\ k \in Members(groups[a + 1])
        BY <1>10, <2>1, <4>1
      <4> QED BY <4>2
    <3>2. ASSUME NEW b \in DOMAIN groups \ {1}, NEW k \in Members(groups[b]) PROVE k \in InGroups'
      <4>1. b - 1 \in DOMAIN groups' /\ k \in Members(groups'[b - 1])
        BY <1>10, <2>1
      <4> QED BY <4>1 DEF InGroups
    <3> QED BY <3>1, <3>2
  <2>3. InGroups = Members(Group) \cup InGroups'
    BY <1>3, <2>2 DEF InGroups
  <2>4. DOMAIN settled = {i}
    BY <1>2, <1>4, <1>10
  <2>5. Outstanding = (Members(Group) \cup InGroups') \ finished /\ Outstanding' = InGroups' \ (finished \cup {i})
    <3>1. Outstanding' = (Members(queue') \cup InGroups') \ finished'
      BY DEF Outstanding, InGroups
    <3> QED BY <1>1, <1>8, <2>3, <3>1, OutstandingIs DEF i
  <2>6. Outstanding' = Outstanding \ {i}
    BY <1>6, <2>4, <2>5
  <2>7. Unanswered' = Unanswered \ {i}
    BY <1>1, <1>7, <2>6 DEF Unanswered
  <2>8. groups' # <<>> => finished' \cap Members(Group)' = {}
    <3> SUFFICES ASSUME groups' # <<>>, NEW k \in finished', k \in Members(groups'[1]) PROVE FALSE
      BY DEF Group, Members
    <3>1. 1 \in DOMAIN Tail(groups)
      BY <1>10, <2>1
    <3>2. 2 \in DOMAIN groups /\ groups'[1] = groups[2] /\ groups[2] \in Seq(Ids)
      BY <1>3, <1>10, <2>1, <3>1
    <3>3. k < k
      <4>1. CASE k \in Members(Group)
        <5>1. 1 \in DOMAIN groups /\ 2 \in DOMAIN groups /\ 1 < 2
          BY <1>3, <3>2
        <5>2. \A x \in Members(groups[1]), y \in Members(groups[2]) : x < y
          BY <5>1 DEF Ordered, InOrder
        <5> QED BY <1>3, <3>2, <4>1, <5>2
      <4>2. CASE k \notin Members(Group)
        <5>1. k \in finished
          BY <1>1, <1>2, <4>2 DEF i
        <5> QED BY <3>2, <4>2, <5>1 DEF Ordered
      <4> QED BY <4>1, <4>2
    <3>4. k \in Nat
      <4>1. \A m \in DOMAIN groups[2] : groups[2][m] \in Ids
        BY <3>2
      <4> QED BY <1>2, <3>2, <4>1 DEF Members
    <3> QED BY <3>3, <3>4
  <2>9. AtWork'
    <3>1. after = "idle" => todo' = {}
      BY <1>1 DEF TalkInv, AtWork
    <3>2. after \notin {"run", "finish"}
      BY DEF Types
    <3> QED BY <1>1, <1>10, <2>8, <3>1, <3>2 DEF AtWork
  <2> QED BY <1>1, <1>2, <1>7, <2>7, <2>9 DEF i, Unanswered
<1> QED BY <1>5, <1>9, <1>10

LEMMA FinishTalk == ASSUME RoundInv, TalkInv, FinishCall PROVE TalkInv'
<1>1. talk' = talk \o <<Answer(First)>>
  BY DEF FinishCall, Reply
<1>2. AnswersEach(<<Answer(First)>>, {First})
  BY OneAnswer
<1>3. {First} \in SUBSET (Ids \cap Unanswered) /\ stage = "finish" /\ Unanswered' = Unanswered \ {First} /\ AtWork' /\ UNCHANGED <<batch, switched>>
  BY FinishWork
<1> QED BY <1>1, <1>2, <1>3, TalkGrows DEF TalkInv, RoundInv

\* Steps after which the round's conversation is not delivered as it stands.
LEMMA BrokenTalk ==
    ASSUME RoundInv, TalkInv, TurnEnds \/ LeaveRoute \/ FinishFailedEdit \/ FinishAndStop
    PROVE  TalkInv'
<1> USE DEF dispatch, recovery, effects, history, truth
<1>1. CASE TurnEnds \/ LeaveRoute
  <2>1. UNCHANGED talk /\ ~Plain'
    BY <1>1 DEF TurnEnds, LeaveRoute, Plain
  <2>2. AtWork'
    BY <1>1 DEF TurnEnds, LeaveRoute, AtWork
  <2> QED BY <2>1, <2>2 DEF TalkInv
<1>2. stage = "finish" => First \in Nat
  BY IdsAreNumbers, FirstIsLeast DEF RoundInv, Types, Placed
<1>3. CASE FinishFailedEdit
  <2> DEFINE as == <<Answer(First), Asks({Refresh}), Answer(Refresh)>>
  <2>1. First \in Nat /\ Refresh \in Nat /\ talk' = talk \o as
    BY <1>2, <1>3 DEF FinishFailedEdit, Reply, Refresh
  <2>2. as \in Seq(Messages) /\ Len(as) = 3 /\ as[2].calls = {Refresh}
    <3>1. Answer(First) \in Messages /\ Answer(Refresh) \in Messages
      BY <2>1, AnswersAreMessages
    <3>2. Asks({Refresh}) \in Messages /\ Asks({Refresh}).calls = {Refresh}
      BY <2>1, AnswersAreMessages, Messaging
    <3> DEFINE a == Answer(First)
    <3> DEFINE b == Asks({Refresh})
    <3> DEFINE c == Answer(Refresh)
    <3> HIDE DEF a, b, c
    <3>3. a \in Messages /\ b \in Messages /\ c \in Messages /\ b.calls = {Refresh}
      BY <3>1, <3>2 DEF a, b, c
    <3>4. <<a, b, c>> \in Seq(Messages) /\ Len(<<a, b, c>>) = 3 /\ <<a, b, c>>[2] = b
      BY <3>3
    <3>5. as = <<a, b, c>>
      BY DEF a, b, c
    <3> HIDE DEF as
    <3> QED BY <3>3, <3>4, <3>5
  <2> HIDE DEF as
  <2>3. talk \in Seq(Messages)
    BY DEF TalkInv
  <2>4. Len(talk) \in Nat /\ Len(talk) + 2 \in Len(talk) + 1 .. Len(talk) + Len(as) /\ Len(talk) + 2 - Len(talk) = 2 /\ Len(talk) + 2 \in 1 .. Len(talk) + Len(as)
    BY <2>2, <2>3
  <2>5. DOMAIN talk' = 1 .. Len(talk) + Len(as) /\ talk'[Len(talk) + 2] = as[Len(talk) + 2 - Len(talk)]
    <3> DEFINE k == Len(talk) + 2
    <3>1. k \in Len(talk) + 1 .. Len(talk) + Len(as)
      BY <2>4
    <3> HIDE DEF k
    <3>2. as \in Seq(Messages)
      BY <2>2
    <3>3. DOMAIN (talk \o as) = 1 .. Len(talk) + Len(as)
      BY <2>3, <3>2, Concatenated, Zenon
    <3>4. (talk \o as)[k] = as[k - Len(talk)]
      BY <2>3, <3>1, <3>2, Concatenated, Zenon
    <3> QED BY <2>1, <3>3, <3>4 DEF k
  <2>6. ~Plain'
    BY <2>2, <2>4, <2>5 DEF Plain
  <2>7. AtWork'
    BY <1>3, FinishWork
  <2> QED BY <2>1, <2>2, <2>6, <2>7, TalkOver DEF TalkInv, RoundInv
<1>4. CASE FinishAndStop
  <2>1. First \in Nat /\ talk' = talk \o <<Answer(First)>> /\ stage' = "end"
    BY <1>2, <1>4 DEF FinishAndStop, Reply
  <2>2. <<Answer(First)>> \in Seq(Messages)
    <3> DEFINE a == Answer(First)
    <3>1. a \in Messages
      BY <2>1, AnswersAreMessages
    <3> HIDE DEF a
    <3>2. <<a>> \in Seq(Messages)
      BY <3>1
    <3> QED BY <3>2 DEF a
  <2>3. ~Plain' /\ AtWork'
    BY <2>1 DEF Plain, AtWork
  <2> QED BY <2>1, <2>2, <2>3, TalkOver DEF TalkInv, RoundInv
<1> QED BY <1>1, <1>3, <1>4

LEMMA StepTalkInv == RoundInv /\ TalkInv /\ [RoundNext]_roundVars /\ RoundInv' => TalkInv'
<1> SUFFICES ASSUME RoundInv, TalkInv, [RoundNext]_roundVars, RoundInv' PROVE TalkInv'
  OBVIOUS
<1> USE DEF dispatch, recovery, effects, history, truth
<1>1. CASE ModelCallsTools
  BY <1>1, ModelCallsTalk
<1>2. CASE RejectInvalid
  BY <1>2, ScreenTalk DEF RejectInvalid, Invalid, Reply, Stages
<1>3. CASE AnswerMalformed
  BY <1>3, ScreenTalk DEF AnswerMalformed, Malformed, Reply, Stages
<1>4. CASE AnswerUnoffered
  BY <1>4, ScreenTalk DEF AnswerUnoffered, NothingOffered, Reply, Stages
<1>5. CASE BlockLoop
  BY <1>5, ScreenTalk DEF BlockLoop, Reply, Stages
<1>6. CASE AnswerAtOnce \/ BlockRepeat \/ AnswerFromCache
  BY <1>6, CurrentTalk DEF AnswerAtOnce, BlockRepeat, AnswerFromCache, AtCall
<1>7. CASE StopRound
  <2>1. AtCall /\ Taken /\ Reply(<<Answer(Current)>>) /\ UNCHANGED switched
    BY <1>7 DEF StopRound
  <2>2. CASE queue = <<>>
    <3>1. stage' = "end" /\ UNCHANGED <<queue, groups, settled, finished, after>>
      BY <1>7, <2>2 DEF StopRound
    <3> QED BY <2>1, <3>1, CurrentTalk
  <2>3. CASE queue # <<>>
    BY <1>7, <2>1, <2>3, FlushSteps, CurrentTalk
  <2> QED BY <2>2, <2>3
<1>8. CASE StartCalls \/ Enqueue \/ FlushBeforeRestart \/ FlushAtEnd \/ RoundDone
  <2>1. UNCHANGED <<talk, switched>>
    BY <1>8 DEF StartCalls, Enqueue, FlushBeforeRestart, FlushAtEnd, Flush, RoundDone
  <2> QED BY <1>8, <2>1, SilentTalk
<1>9. ASSUME NEW i \in Ids, CallSucceeds(i) \/ CallFails(i) \/ CallTimesOut(i) PROVE TalkInv'
  BY <1>9, SettleTalk DEF CallTimesOut
<1>10. CASE TurnEnds \/ LeaveRoute \/ FinishFailedEdit \/ FinishAndStop
  BY <1>10, BrokenTalk
<1>11. CASE UNCHANGED roundVars
  <2>1. UNCHANGED <<batch, talk, stage, switched, todo, queue, groups, settled, finished, after>>
    BY <1>11 DEF roundVars
  <2>2. Unanswered' = Unanswered /\ Members(Group)' = Members(Group)
    BY <2>1 DEF Unanswered, Outstanding, Group, Members
  <2>3. AtWork'
    BY <2>1, <2>2 DEF AtWork, TalkInv
  <2> QED BY <2>1, <2>2, <2>3, TalkStays DEF TalkInv
<1>12. CASE FinishCall
  BY <1>12, FinishTalk
<1> QED BY <1>1, <1>2, <1>3, <1>4, <1>5, <1>6, <1>7, <1>8, <1>9, <1>10, <1>11, <1>12 DEF RoundNext, Process

(* In a completed round each of the model's calls has exactly one result   *)
(* that the next request carries, by whichever of the ways a call is       *)
(* answered, in batches of any size.                                       *)
THEOREM ResultsAlwaysArrive == RoundSpec => []ResultsArrive
<1>1. RoundInv /\ TalkInv /\ [RoundNext]_roundVars => (RoundInv /\ TalkInv)'
  BY StepRoundInv, StepTalkInv
<1> QED BY <1>1, InitRoundInv, InitTalkInv, InvResultsArrive, PTL DEF RoundSpec

-----------------------------------------------------------------------------
(* The end of the round.                                                   *)

(* What a turn and its round have left, the coarser first: calls that the  *)
(* model may still make, phases of the round, calls without an answer,     *)
(* calls the loop has not reached, the queue, and what runs.               *)
Phase ==
    CASE stage = "screen" -> 3
      [] stage \in {"calls", "run", "finish"} -> 2
      [] stage = "idle" -> 1
      [] OTHER -> 0
Rank    == <<MaxCalls - made, Phase, Cardinality(Unanswered), Cardinality(todo), Len(queue), Cardinality(Running)>>
Ranks   == [1 .. 6 -> Nat]
Descent == LexProductOrdering(OpToRel(<, Nat), Nat, 6)

\* A step leaves less than there was.
Descends == <<Rank', Rank>> \in Descent

LEMMA DescentEnds == IsWellFoundedOn(Descent, Ranks)
<1> DEFINE R == OpToRel(<, Nat)
<1>1. IsWellFoundedOn(R, Nat)
  BY NatLessThanWellFounded
<1> HIDE DEF R
<1>2. IsWellFoundedOn(LexProductOrdering(R, Nat, 6), [1 .. 6 -> Nat])
  BY <1>1, WFLexProductOrdering
<1> QED BY <1>2 DEF R, Descent, Ranks

LEMMA Falls ==
    ASSUME NEW a \in Ranks, NEW b \in Ranks, NEW k \in 1 .. 6, a[k] < b[k], \A j \in 1 .. k - 1 : a[j] = b[j]
    PROVE  <<a, b>> \in Descent
<1> DEFINE R == OpToRel(<, Nat)
<1>1. a[k] \in Nat /\ b[k] \in Nat
  BY DEF Ranks
<1>2. <<a[k], b[k]>> \in R
  BY <1>1 DEF OpToRel
<1> HIDE DEF R
<1>3. <<a, b>> \in LexProductOrdering(R, Nat, 6)
  BY <1>2 DEF LexProductOrdering, Ranks
<1> QED BY <1>3 DEF Descent, R

LEMMA SixNumbers ==
    ASSUME NEW a \in Nat, NEW b \in Nat, NEW c \in Nat, NEW d \in Nat, NEW e \in Nat, NEW f \in Nat
    PROVE  <<a, b, c, d, e, f>> \in Ranks
BY DEF Ranks

Counted == RoundInv /\ TalkInv /\ made \in 0 .. MaxCalls

\* The calls of a round are finitely many, in the loop, waiting or at work.
LEMMA FinitelyManyCalls ==
    RoundInv => IsFiniteSet(Unanswered) /\ IsFiniteSet(todo) /\ IsFiniteSet(Running)
<1> SUFFICES ASSUME RoundInv PROVE IsFiniteSet(Unanswered) /\ IsFiniteSet(todo) /\ IsFiniteSet(Running)
  OBVIOUS
<1> USE DEF RoundInv
<1>1. IsFiniteSet(Ids)
  <2>1. Len(batch) \in Nat
    BY DEF Types
  <2> QED BY <2>1, FS_Interval DEF Ids
<1>2. todo \subseteq Ids /\ Members(queue) \subseteq Ids
  BY DEF Types, Members
<1>3. \A k \in DOMAIN groups : Members(groups[k]) \subseteq Ids
  <2> SUFFICES ASSUME NEW k \in DOMAIN groups, NEW m \in DOMAIN groups[k] PROVE groups[k][m] \in Ids
    BY DEF Members
  <2>1. groups[k] \in Seq(Ids)
    BY DEF Types
  <2> QED BY <2>1
<1>4. Outstanding \subseteq Ids
  BY <1>2, <1>3 DEF Outstanding
<1>5. Running \subseteq Ids
  <2>1. CASE stage = "run"
    <3>1. 1 \in DOMAIN groups
      BY <2>1 DEF Placed, Types
    <3> QED BY <1>3, <3>1 DEF Running, Group
  <2>2. CASE stage # "run"
    BY <2>2 DEF Running
  <2> QED BY <2>1, <2>2
<1>6. Unanswered \subseteq Ids
  BY <1>2, <1>4 DEF Unanswered
<1> QED BY <1>1, <1>2, <1>5, <1>6, FS_Subset

LEMMA Quantities == Counted => Rank \in Ranks
<1> SUFFICES ASSUME Counted PROVE Rank \in Ranks
  OBVIOUS
<1>1. MaxCalls - made \in Nat
  BY RoundAssumption DEF Counted
<1>2. Phase \in Nat /\ Len(queue) \in Nat
  BY DEF Phase, Counted, RoundInv, Types
<1>3. Cardinality(Unanswered) \in Nat /\ Cardinality(todo) \in Nat /\ Cardinality(Running) \in Nat
  BY FinitelyManyCalls, FS_CardinalityType DEF Counted
<1> QED BY <1>1, <1>2, <1>3, SixNumbers DEF Rank

\* Fewer of a set of calls.
LEMMA Fewer ==
    ASSUME NEW S, NEW T, IsFiniteSet(S), T \subseteq S, T # S
    PROVE  Cardinality(T) < Cardinality(S)
<1>1. IsFiniteSet(T) /\ Cardinality(T) \in Nat /\ Cardinality(S) \in Nat
  BY FS_Subset, FS_CardinalityType
<1>2. Cardinality(T) <= Cardinality(S) /\ Cardinality(T) # Cardinality(S)
  BY FS_Subset
<1> QED BY <1>1, <1>2

\* One of the quantities falls, and those before it stay.
Less(T, S) == T \subseteq S /\ T # S
Sooner ==
    \/ made' > made
    \/ UNCHANGED made /\ Phase' < Phase
    \/ UNCHANGED <<made, Phase>> /\ Less(Unanswered', Unanswered)
    \/ UNCHANGED <<made, Phase, Unanswered>> /\ Less(todo', todo)
    \/ UNCHANGED <<made, Phase, Unanswered, todo>> /\ Len(queue') < Len(queue)
    \/ UNCHANGED <<made, Phase, Unanswered, todo, queue>> /\ Less(Running', Running)

LEMMA SoonerFalls == Counted /\ Counted' /\ Sooner => Descends
<1> SUFFICES ASSUME Counted, Counted', Sooner PROVE <<Rank', Rank>> \in Descent
  BY DEF Descends
<1> DEFINE a == Rank'
           b == Rank
<1>1. /\ a[1] = MaxCalls - made' /\ b[1] = MaxCalls - made /\ a[2] = Phase' /\ b[2] = Phase
      /\ a[3] = Cardinality(Unanswered') /\ b[3] = Cardinality(Unanswered)
      /\ a[4] = Cardinality(todo') /\ b[4] = Cardinality(todo)
      /\ a[5] = Len(queue') /\ b[5] = Len(queue)
      /\ a[6] = Cardinality(Running') /\ b[6] = Cardinality(Running)
  BY DEF Rank
<1>2. a \in Ranks /\ b \in Ranks
  <2>1. Rank \in Ranks /\ (Rank \in Ranks)'
    BY Quantities, PTL
  <2> QED BY <2>1
<1>3. IsFiniteSet(Unanswered) /\ IsFiniteSet(todo) /\ IsFiniteSet(Running)
  BY FinitelyManyCalls DEF Counted
<1> HIDE DEF a, b
<1>4. CASE made' > made
  <2>1. PICK m \in Int, x \in Int, x1 \in Int : m = MaxCalls /\ x = made /\ x1 = made'
    BY RoundAssumption DEF Counted
  <2>2. x1 > x
    BY <1>4, <2>1
  <2>3. m - x1 < m - x
    BY ONLY <2>2, m \in Int, x \in Int, x1 \in Int
  <2>4. a[1] < b[1]
    BY <1>1, <2>1, <2>3
  <2>5. \A j \in 1 .. 1 - 1 : a[j] = b[j]
    OBVIOUS
  <2> QED BY <1>2, <2>4, <2>5, Falls DEF a, b
<1>5. CASE UNCHANGED made /\ Phase' < Phase
  <2>1. a[1] = b[1] /\ a[2] < b[2]
    BY <1>1, <1>5
  <2>2. \A j \in 1 .. 2 - 1 : a[j] = b[j]
    BY <2>1
  <2> QED BY <1>2, <2>1, <2>2, Falls DEF a, b
<1>6. CASE UNCHANGED <<made, Phase>> /\ Less(Unanswered', Unanswered)
  <2>1. a[1] = b[1] /\ a[2] = b[2] /\ a[3] < b[3]
    BY <1>1, <1>3, <1>6, Fewer DEF Less
  <2>2. \A j \in 1 .. 3 - 1 : a[j] = b[j]
    BY <2>1
  <2> QED BY <1>2, <2>1, <2>2, Falls DEF a, b
<1>7. CASE UNCHANGED <<made, Phase, Unanswered>> /\ Less(todo', todo)
  <2>1. a[1] = b[1] /\ a[2] = b[2] /\ a[3] = b[3] /\ a[4] < b[4]
    BY <1>1, <1>3, <1>7, Fewer DEF Less
  <2>2. \A j \in 1 .. 4 - 1 : a[j] = b[j]
    BY <2>1
  <2> QED BY <1>2, <2>1, <2>2, Falls DEF a, b
<1>8. CASE UNCHANGED <<made, Phase, Unanswered, todo>> /\ Len(queue') < Len(queue)
  <2>1. a[1] = b[1] /\ a[2] = b[2] /\ a[3] = b[3] /\ a[4] = b[4] /\ a[5] < b[5]
    BY <1>1, <1>8
  <2>2. \A j \in 1 .. 5 - 1 : a[j] = b[j]
    BY <2>1
  <2> QED BY <1>2, <2>1, <2>2, Falls DEF a, b
<1>9. CASE UNCHANGED <<made, Phase, Unanswered, todo, queue>> /\ Less(Running', Running)
  <2>1. a[1] = b[1] /\ a[2] = b[2] /\ a[3] = b[3] /\ a[4] = b[4] /\ a[5] = b[5] /\ a[6] < b[6]
    BY <1>1, <1>3, <1>9, Fewer DEF Less
  <2>2. \A j \in 1 .. 6 - 1 : a[j] = b[j]
    BY <2>1
  <2> QED BY <1>2, <2>1, <2>2, Falls DEF a, b
<1> QED BY <1>4, <1>5, <1>6, <1>7, <1>8, <1>9 DEF Sooner

\* While the round is screened, no call of it waits in the queue or a group.
LEMMA UnansweredInScreen ==
    ASSUME RoundInv, stage = "screen", UNCHANGED <<queue, groups, finished>>
    PROVE  Unanswered = todo /\ Unanswered' = todo'
<1>1. queue = <<>> /\ groups = <<>>
  BY DEF RoundInv, Placed
<1> QED BY <1>1 DEF Unanswered, Outstanding, Members

LEMMA ScreenIsSooner ==
    ASSUME Counted,
           RejectInvalid \/ AnswerMalformed \/ AnswerUnoffered \/ LeaveRoute \/ BlockLoop \/ StartCalls \/ TurnEnds
    PROVE  Sooner
<1> USE DEF dispatch, recovery, effects, history, truth
<1>1. CASE RejectInvalid
  <2>1. /\ stage = "screen" /\ UNCHANGED <<made, stage, queue, groups, finished>>
        /\ todo' \subseteq todo /\ todo' # todo
    BY <1>1 DEF RejectInvalid, Invalid
  <2> QED BY <2>1, UnansweredInScreen DEF Counted, Sooner, Less, Phase
<1>2. CASE AnswerMalformed
  <2>1. /\ stage = "screen" /\ stage' \in {"screen", "idle"} /\ UNCHANGED <<made, queue, groups, finished>>
        /\ todo' \subseteq todo /\ todo' # todo
    BY <1>2 DEF AnswerMalformed, Malformed
  <2>2. CASE stage' = "idle"
    BY <2>1, <2>2 DEF Sooner, Phase
  <2>3. CASE stage' = "screen"
    BY <2>1, <2>3, UnansweredInScreen DEF Counted, Sooner, Less, Phase
  <2> QED BY <2>1, <2>2, <2>3
<1>3. CASE AnswerUnoffered \/ LeaveRoute \/ BlockLoop \/ StartCalls
  <2>1. stage = "screen" /\ stage' \in {"idle", "end", "calls"} /\ UNCHANGED made
    BY <1>3 DEF AnswerUnoffered, LeaveRoute, BlockLoop, StartCalls, NothingOffered
  <2> QED BY <2>1 DEF Sooner, Phase
<1>4. CASE TurnEnds
  BY <1>4 DEF TurnEnds, Sooner, Phase
<1> QED BY <1>1, <1>2, <1>3, <1>4

\* The loop over the calls reaches the current one.
LEMMA CallIsSooner ==
    ASSUME Counted, AnswerAtOnce \/ BlockRepeat \/ AnswerFromCache \/ Enqueue \/ StopRound
    PROVE  Sooner
<1> USE DEF dispatch, recovery, effects, history, truth, AtCall, Taken
<1>1. stage = "calls" /\ todo # {} /\ todo' = todo \ {Current} /\ UNCHANGED <<made, batch>> /\ UNCHANGED finished
  BY DEF AnswerAtOnce, BlockRepeat, AnswerFromCache, Enqueue, StopRound
<1>2. Current \in todo /\ Current \in Ids /\ Current \notin Members(queue) \cup InGroups \cup finished
  BY <1>1, CurrentIsNew DEF Counted
<1>3. CASE Enqueue
  <2>1. queue' = Append(queue, Current) /\ UNCHANGED <<stage, groups>>
    BY <1>3 DEF Enqueue
  <2>2. Members(queue') = Members(queue) \cup {Current}
    BY <1>2, <2>1, MembersOfAppended DEF Counted, RoundInv, Types
  <2>3. Unanswered' = Unanswered
    BY <1>1, <1>2, <2>1, <2>2 DEF Unanswered, Outstanding
  <2>4. Phase' = Phase
    BY <2>1 DEF Phase
  <2> QED BY <1>1, <1>2, <2>3, <2>4 DEF Sooner, Less
<1>4. CASE ~Enqueue
  <2>1. stage' \in {"calls", "run", "end"} /\ Outstanding' = Outstanding
    <3>1. CASE AnswerAtOnce \/ BlockRepeat \/ AnswerFromCache \/ (StopRound /\ queue = <<>>)
      <4>1. UNCHANGED <<queue, groups>> /\ stage' \in {"calls", "end"}
        BY <1>1, <3>1 DEF AnswerAtOnce, BlockRepeat, AnswerFromCache, StopRound
      <4> QED BY <1>1, <4>1 DEF Outstanding
    <3>2. CASE StopRound /\ queue # <<>>
      <4>1. Flushes
        BY <3>2, FlushSteps DEF Counted
      <4> QED BY <4>1, FlushLeavesOutstanding DEF Counted, Flushes
    <3> QED BY <1>4, <3>1, <3>2
  <2>2. Current \notin Outstanding
    BY <1>2, OutstandingIs
  <2>3. Unanswered' = Unanswered \ {Current} /\ Current \in Unanswered
    BY <1>1, <1>2, <2>1, <2>2 DEF Unanswered
  <2>4. Phase' = Phase \/ Phase' < Phase
    BY <1>1, <2>1 DEF Phase
  <2> QED BY <1>1, <2>3, <2>4 DEF Sooner, Less
<1> QED BY <1>3, <1>4

LEMMA FlushIsSooner == ASSUME Counted, FlushBeforeRestart \/ FlushAtEnd \/ RoundDone PROVE Sooner
<1>1. CASE RoundDone
  BY <1>1 DEF RoundDone, Sooner, Phase
<1>2. CASE FlushBeforeRestart \/ FlushAtEnd
  <2>1. Flushes /\ UNCHANGED <<made, todo>>
    BY <1>2, FlushSteps DEF Counted, FlushBeforeRestart, FlushAtEnd, Flush
  <2>2. Unanswered' = Unanswered
    BY <2>1, FlushLeavesOutstanding DEF Counted, Unanswered
  <2>3. Phase' = Phase
    BY <2>1 DEF Flushes, Phase
  <2>4. Len(queue') < Len(queue)
    BY <2>1 DEF Flushes, Counted, RoundInv, Types
  <2> QED BY <2>1, <2>2, <2>3, <2>4 DEF Sooner
<1> QED BY <1>1, <1>2

LEMMA SettleIsSooner ==
    ASSUME Counted, NEW i \in Ids, CallSucceeds(i) \/ CallFails(i) \/ CallTimesOut(i)
    PROVE  Sooner
<1>1. PICK success \in BOOLEAN : SettleCall(i, success)
  BY DEF CallSucceeds, CallFails, CallTimesOut
<1>2. /\ stage = "run" /\ stage' \in {"run", "finish"} /\ i \in Members(Group) /\ i \notin DOMAIN settled
      /\ UNCHANGED <<todo, queue, groups, finished>> /\ DOMAIN settled' = DOMAIN settled \cup {i}
  BY <1>1, SettleFinds DEF Counted
<1>3. UNCHANGED made
  BY <1>1 DEF SettleCall
<1>4. Unanswered' = Unanswered /\ Phase' = Phase
  BY <1>2 DEF Unanswered, Outstanding, Phase
<1>5. Less(Running', Running)
  <2>1. Running = Members(Group) \ DOMAIN settled
    BY <1>2 DEF Running
  <2>2. Running' \subseteq Members(Group) \ DOMAIN settled'
    BY <1>2 DEF Running, Group, Members
  <2> QED BY <1>2, <2>1, <2>2 DEF Less
<1> QED BY <1>2, <1>3, <1>4, <1>5 DEF Sooner

LEMMA FinishIsSooner == ASSUME Counted, FinishCall \/ FinishFailedEdit \/ FinishAndStop PROVE Sooner
<1>1. CASE FinishAndStop
  BY <1>1 DEF FinishAndStop, Sooner, Phase
<1>2. CASE FinishCall \/ FinishFailedEdit
  <2>1. First \in Unanswered /\ Unanswered' = Unanswered \ {First} /\ stage = "finish"
    BY <1>2, FinishWork DEF Counted
  <2>2. UNCHANGED made /\ stage' \in {"finish", "run", "calls", "idle", "end"}
    BY <1>2, <2>1 DEF FinishCall, FinishFailedEdit, Proceed, Counted, RoundInv, Types
  <2>3. Phase' = Phase \/ Phase' < Phase
    BY <2>1, <2>2 DEF Phase
  <2> QED BY <2>1, <2>2, <2>3 DEF Sooner, Less
<1> QED BY <1>1, <1>2

LEMMA EveryStepIsSooner == Counted /\ RoundNext => Sooner
<1> SUFFICES ASSUME Counted, RoundNext PROVE Sooner
  OBVIOUS
<1>1. CASE ModelCallsTools
  <2>1. PICK n \in 1 .. MaxBatch : made' = made + n
    BY <1>1 DEF ModelCallsTools
  <2>2. made' > made
    BY <2>1, RoundAssumption DEF Counted
  <2> QED BY <2>2 DEF Sooner
<1> QED
  BY <1>1, ScreenIsSooner, CallIsSooner, FlushIsSooner, SettleIsSooner, FinishIsSooner DEF RoundNext, Process

LEMMA CountedInductive == RoundSpec => []Counted
<1>1. RoundInit => Counted
  <2>1. RoundInit => made \in 0 .. MaxCalls
    BY RoundAssumption DEF RoundInit
  <2> QED BY <2>1, InitRoundInv, InitTalkInv DEF Counted
<1>2. Counted /\ [RoundNext]_roundVars => Counted'
  <2> SUFFICES ASSUME Counted, [RoundNext]_roundVars PROVE Counted'
    OBVIOUS
  <2>1. RoundInv' /\ TalkInv'
    BY StepRoundInv, StepTalkInv DEF Counted
  <2>2. made' \in 0 .. MaxCalls
    <3>1. CASE ModelCallsTools
      <4>1. PICK n \in 1 .. MaxBatch : made' = made + n /\ made' <= MaxCalls
        BY <3>1 DEF ModelCallsTools
      <4> QED BY <4>1, RoundAssumption DEF Counted
    <3>2. CASE Process
      <4>1. UNCHANGED made
        BY <3>2 DEF Process, RejectInvalid, AnswerMalformed, AnswerUnoffered, LeaveRoute, BlockLoop, StartCalls,
                    AnswerAtOnce, BlockRepeat, AnswerFromCache, Enqueue, Taken, FlushBeforeRestart, StopRound, FlushAtEnd,
                    Flush, RoundDone, FinishCall, FinishFailedEdit, FinishAndStop, Proceed
      <4> QED BY <4>1 DEF Counted
    <3>3. CASE TurnEnds \/ UNCHANGED roundVars
      BY <3>3 DEF TurnEnds, roundVars, Counted
    <3>4. ASSUME NEW i \in Ids, CallSucceeds(i) \/ CallFails(i) \/ CallTimesOut(i) PROVE made' = made
      BY <3>4 DEF CallSucceeds, CallFails, CallTimesOut, SettleCall
    <3> QED BY <3>1, <3>2, <3>3, <3>4 DEF RoundNext, Counted
  <2> QED BY <2>1, <2>2 DEF Counted
<1> QED BY <1>1, <1>2, PTL DEF RoundSpec

(* A turn's rounds of tool calls take finitely many steps, for batches of  *)
(* any size and however the calls are admitted, grouped, flushed and       *)
(* settled: each step of the dispatch loop or of a running call leaves     *)
(* less to do.  A call that is queued, flushed before a restart and run    *)
(* comes back to the loop, but to fewer calls without an answer.           *)
THEOREM RoundRunsDown ==
    /\ IsWellFoundedOn(Descent, Ranks)
    /\ RoundSpec => [](Rank \in Ranks) /\ [][Descends]_roundVars
<1>1. Counted /\ Counted' /\ [RoundNext]_roundVars => [Descends]_roundVars
  BY EveryStepIsSooner, SoonerFalls
<1>2. RoundSpec => [](Rank \in Ranks) /\ [][Descends]_roundVars
  BY <1>1, CountedInductive, Quantities, PTL DEF RoundSpec
<1> QED BY <1>2, DescentEnds

-----------------------------------------------------------------------------
(* The calls below the round.                                               *)

Places  == {"idle", "remote", "local", "wait", "run", "done", "cancelled"}
Answers == [kind: Kinds, at: {"nowhere", "remote", "local"}, of: Callers \cup {NoOne}]

\* The caller whose request a key stands for.
Owner(k) == IF completed[k] # NoOne THEN completed[k] ELSE inflight[k]

(* The ledger: a key is in flight or completed by a caller of that key,    *)
(* never both; who runs under a key holds it, and whoever has started a    *)
(* process held it then.                                                   *)
Ledger ==
    /\ \A k \in Keys : /\ inflight[k] # NoOne => Key[inflight[k]] = k /\ completed[k] = NoOne
                       /\ completed[k] # NoOne => Key[completed[k]] = k
    /\ \A c \in Callers : Key[c] # NoKey =>
          /\ pc[c] = "run" => inflight[Key[c]] = c
          /\ proc[c] # "none" => inflight[Key[c]] = c \/ completed[Key[c]] = c

\* Who waits for a key waits for a request like its own.
Waiting ==
    \A c \in Callers : pc[c] = "wait" =>
        Key[c] # NoKey /\ Owner(Key[c]) # NoOne /\ Args[Owner(Key[c])] = Args[c]

\* Processes are started by callers that run, and stay with someone.
Processes ==
    /\ \A c \in Callers : pc[c] \in {"idle", "remote", "local", "wait"} => proc[c] = "none"
    /\ NoStrayProcess

IInv == TypeOK /\ Ledger /\ Waiting /\ AnswerIsOwn /\ Processes

\* What the invariant is about; a step that changes none of it keeps it.
told == <<answer, ledger, proc, jobs>>

\* An answer that a caller may be given.
Own(c, o) ==
    /\ o \in Answers
    /\ o.of # NoOne =>
         IF o.at = "remote" THEN o.of = c
         ELSE o.of = c \/ (Key[o.of] = Key[c] /\ Args[o.of] = Args[c])

-----------------------------------------------------------------------------
LEMMA InitIInv == Init => IInv
BY CapabilityAssumption
   DEF Init, IInv, TypeOK, Answers, Ledger, Waiting, AnswerIsOwn, Processes, NoStrayProcess, Nothing, Kinds

LEMMA StepTypeOK == TypeOK /\ Waiting /\ [Next]_vars => TypeOK'
<1> SUFFICES ASSUME TypeOK, Waiting, [Next]_vars PROVE TypeOK'
  OBVIOUS
<1> USE CapabilityAssumption DEF TypeOK, Places, Answers, pipe, ledger, local
<1>o. ASSUME NEW k \in Kinds, NEW w \in {"nowhere", "remote", "local"}, NEW d \in Callers \cup {NoOne}
      PROVE  Outcome(k, w, d) \in Answers
  BY <1>o DEF Outcome
<1>f. ASSUME NEW c \in Callers, NEW k \in Kinds, NEW w \in {"nowhere", "remote", "local"},
             NEW d \in Callers \cup {NoOne}, Finish(c, Outcome(k, w, d))
      PROVE  /\ pc' \in [Callers -> Places]
             /\ answer' \in [Callers -> Answers]
  <2> DEFINE o == Outcome(k, w, d)
  <2>1. o \in Answers
    BY <1>o
  <2>2. Finish(c, o)
    BY <1>f
  <2> HIDE DEF o
  <2> QED BY <2>1, <2>2 DEF Finish
<1>s. ASSUME NEW c \in Callers, NEW k \in Kinds, Settle(c, k)
      PROVE  /\ pc' \in [Callers -> Places]
             /\ answer' \in [Callers -> Answers]
             /\ inflight' \in [Keys -> Callers \cup {NoOne}]
             /\ completed' \in [Keys -> Callers \cup {NoOne}]
  <2>1. Finish(c, Outcome(k, "local", c))
    BY <1>s DEF Settle
  <2>2. inflight' \in [Keys -> Callers \cup {NoOne}] /\ completed' \in [Keys -> Callers \cup {NoOne}]
    BY <1>s DEF Settle
  <2> QED BY <1>f, <2>1, <2>2
<1>k. /\ "rejected" \in Kinds /\ "output" \in Kinds /\ "timed out" \in Kinds /\ "detached" \in Kinds
      /\ "conflict" \in Kinds /\ "unavailable" \in Kinds /\ "raised" \in Kinds /\ "refused" \in Kinds
  BY DEF Kinds
<1>a. \A c \in Callers : answer[c].kind \in Kinds
  OBVIOUS
<1>b. ASSUME NEW c \in Callers, Fallback(c)
      PROVE  /\ pc' \in [Callers -> Places]
             /\ answer' \in [Callers -> Answers]
  <2>1. CASE Finish(c, Outcome("unavailable", "remote", NoOne))
    BY <1>f, <1>k, <2>1
  <2>2. CASE pc' = [pc EXCEPT ![c] = "local"] /\ UNCHANGED answer
    BY <2>2
  <2> QED BY <1>b, <2>1, <2>2 DEF Fallback
<1>1. ASSUME NEW c \in Callers, RejectRemote(c) \/ UnknownCapability(c) \/ InvalidArguments(c) PROVE TypeOK'
  BY <1>1, <1>f, <1>k DEF RejectRemote, UnknownCapability, InvalidArguments
<1>2. ASSUME NEW c \in Callers, BeginRemote(c) PROVE TypeOK'
  <2>1. requests' \in Seq(Callers)
    <3>1. CASE requests' = Append(requests, c)
      BY <3>1
    <3>2. CASE UNCHANGED requests
      BY <3>2
    <3> QED BY <1>2, <3>1, <3>2 DEF BeginRemote
  <2>2. reader' \in Callers \cup {NoOne}
    BY <1>2 DEF BeginRemote
  <2>3. /\ pc' \in [Callers -> Places]
        /\ answer' \in [Callers -> Answers]
    <3>1. CASE Fallback(c)
      BY <1>b, <3>1
    <3>2. CASE pc' = [pc EXCEPT ![c] = "remote"] /\ UNCHANGED answer
      BY <3>2
    <3>3. CASE Finish(c, Outcome("raised", "remote", NoOne))
      BY <1>f, <1>k, <3>3
    <3> QED BY <1>2, <3>1, <3>2, <3>3 DEF BeginRemote
  <2>4. UNCHANGED <<replies, peerAlive, remoteRuns, ledger, local>>
    BY <1>2 DEF BeginRemote
  <2> QED BY <2>1, <2>2, <2>3, <2>4
<1>3. CASE PeerServe \/ PeerExit
  <2>1. CASE PeerServe
    <3>1. Head(requests) \in Callers /\ Tail(requests) \in Seq(Callers)
      BY <2>1 DEF PeerServe
    <3>2. Append(replies, Head(requests)) \in Seq(Callers)
      BY <3>1
    <3> QED BY <2>1, <3>1, <3>2 DEF PeerServe
  <2>2. CASE PeerExit
    <3>1. requests' \in Seq(Callers)
      BY <2>2 DEF PeerExit
    <3> QED BY <2>2, <3>1 DEF PeerExit
  <2> QED BY <1>3, <2>1, <2>2
<1>4. ASSUME NEW c \in Callers, ReadReply(c) PROVE TypeOK'
  <2>1. replies' \in Seq(Callers) /\ reader' \in Callers \cup {NoOne}
    BY <1>4 DEF ReadReply
  <2>2. /\ pc' \in [Callers -> Places]
        /\ answer' \in [Callers -> Answers]
    <3>1. CASE Finish(c, Outcome("output", "remote", c))
      BY <1>f, <1>k, <3>1
    <3> QED BY <1>4, <3>1 DEF ReadReply
  <2> QED BY <1>4, <2>1, <2>2 DEF ReadReply
<1>5. ASSUME NEW c \in Callers, ReadFails(c) PROVE TypeOK'
  BY <1>5, <1>b DEF ReadFails
<1>6. ASSUME NEW c \in Callers, BeginLocal(c) \/ EnterWithoutKey(c) PROVE TypeOK'
  BY <1>6 DEF BeginLocal, EnterWithoutKey, Run
<1>7. ASSUME NEW c \in Callers, EnterCompleted(c) PROVE TypeOK'
  <2>1. Key[c] \in Keys /\ completed[Key[c]] \in Callers
    BY <1>7 DEF EnterCompleted
  <2>2. \/ Finish(c, Outcome("conflict", "local", NoOne))
        \/ Finish(c, Outcome(answer[completed[Key[c]]].kind, "local", completed[Key[c]]))
    BY <1>7 DEF EnterCompleted
  <2>3. CASE Finish(c, Outcome("conflict", "local", NoOne))
    BY <1>7, <1>f, <1>k, <2>3 DEF EnterCompleted
  <2>4. CASE Finish(c, Outcome(answer[completed[Key[c]]].kind, "local", completed[Key[c]]))
    BY <1>7, <1>a, <1>f, <2>1, <2>4 DEF EnterCompleted
  <2> QED BY <2>2, <2>3, <2>4
<1>8. ASSUME NEW c \in Callers, EnterInFlight(c) PROVE TypeOK'
  <2>1. CASE Finish(c, Outcome("conflict", "local", NoOne))
    BY <1>8, <1>f, <1>k, <2>1 DEF EnterInFlight
  <2>2. CASE pc' = [pc EXCEPT ![c] = "wait"] /\ UNCHANGED answer
    BY <1>8, <2>2 DEF EnterInFlight
  <2> QED BY <1>8, <2>1, <2>2 DEF EnterInFlight
<1>9. ASSUME NEW c \in Callers, EnterFirst(c) PROVE TypeOK'
  BY <1>9 DEF EnterFirst, Run
<1>10. ASSUME NEW c \in Callers, WaiterWakes(c) PROVE TypeOK'
  <2>1. Key[c] \in Keys /\ completed[Key[c]] \in Callers
    BY <1>10 DEF WaiterWakes, Waiting
  <2> QED BY <1>10, <1>a, <1>f, <2>1 DEF WaiterWakes
<1>11. ASSUME NEW c \in Callers, RefuseCommand(c) \/ ReadDirectly(c) \/ CommandCompletes(c) PROVE TypeOK'
  BY <1>11, <1>k, <1>s DEF RefuseCommand, ReadDirectly, CommandCompletes
<1>12. ASSUME NEW c \in Callers, CommandDetaches(c) PROVE TypeOK'
  <2>1. Settle(c, "detached") /\ UNCHANGED <<pipe, proc, retried, signalled>>
    BY <1>12 DEF CommandDetaches
  <2>2. jobs' \in [Callers -> {"none", "running", "finished"}]
    BY <1>12 DEF CommandDetaches
  <2> QED BY <1>k, <1>s, <2>1, <2>2
<1>13. ASSUME NEW c \in Callers, CommandTimesOut(c) PROVE TypeOK'
  <2>1. Settle(c, "timed out") /\ UNCHANGED <<pipe, jobs, retried, signalled>>
    BY <1>13 DEF CommandTimesOut
  <2>2. proc' \in [Callers -> {"none", "running", "exited"}]
    BY <1>13 DEF CommandTimesOut
  <2> QED BY <1>k, <1>s, <2>1, <2>2
<1>14. ASSUME NEW c \in Callers,
              LaunchCommand(c) \/ ProcessExits(c) \/ RetryAsRoot(c) \/ WatchBackgroundJob(c) \/ KillBackgroundJob(c)
       PROVE  TypeOK'
  <2>1. CASE WatchBackgroundJob(c)
    BY <2>1 DEF WatchBackgroundJob
  <2>2. CASE RetryAsRoot(c)
    BY <2>2 DEF RetryAsRoot
  <2>3. CASE LaunchCommand(c) \/ ProcessExits(c) \/ KillBackgroundJob(c)
    BY <2>3 DEF LaunchCommand, ProcessExits, KillBackgroundJob
  <2> QED BY <1>14, <2>1, <2>2, <2>3
<1>15. CASE CtrlB
  BY <1>15 DEF CtrlB
<1>16. ASSUME NEW c \in Callers, Cancel(c) PROVE TypeOK'
  BY <1>16 DEF Cancel
<1>17. CASE UNCHANGED vars
  BY <1>17 DEF vars
<1> QED
  BY <1>1, <1>2, <1>3, <1>4, <1>5, <1>6, <1>7, <1>8, <1>9, <1>10, <1>11, <1>12, <1>13, <1>14, <1>15,
     <1>16, <1>17 DEF Next, CallerStep

-----------------------------------------------------------------------------
Rest == Ledger /\ Waiting /\ AnswerIsOwn /\ Processes

\* A caller on its way is given an answer.
LEMMA Told ==
    ASSUME IInv, NEW c \in Callers, NEW o, Own(c, o), Finish(c, o), pc[c] \notin {"run", "done", "cancelled"},
           UNCHANGED <<ledger, proc, jobs>>
    PROVE  Rest'
<1> USE CapabilityAssumption DEF IInv, TypeOK, ledger, Finish, Own
<1>1. Ledger'
  BY DEF Ledger
<1>2. Waiting'
  BY DEF Waiting, Owner
<1>3. AnswerIsOwn'
  BY DEF AnswerIsOwn
<1>4. Processes'
  BY DEF Processes, NoStrayProcess
<1> QED BY <1>1, <1>2, <1>3, <1>4 DEF Rest

\* A caller goes on without changing the ledger.
LEMMA Moves ==
    ASSUME IInv, NEW c \in Callers, NEW p \in {"remote", "local", "wait", "run", "cancelled"},
           pc' = [pc EXCEPT ![c] = p], pc[c] \notin {"done", "cancelled"},
           pc[c] = "run" => p = "cancelled", p = "run" => Key[c] = NoKey,
           p = "wait" => Key[c] # NoKey /\ Owner(Key[c]) # NoOne /\ Args[Owner(Key[c])] = Args[c],
           UNCHANGED <<answer, ledger, proc, jobs>>
    PROVE  Rest'
<1> USE CapabilityAssumption DEF IInv, TypeOK, ledger
<1>1. Ledger'
  BY DEF Ledger
<1>2. Waiting'
  BY DEF Waiting, Owner
<1>3. AnswerIsOwn'
  BY DEF AnswerIsOwn
<1>4. Processes'
  BY DEF Processes, NoStrayProcess
<1> QED BY <1>1, <1>2, <1>3, <1>4 DEF Rest

\* The owner of a key files its outcome; its process is over, or watched.
LEMMA Settles ==
    ASSUME IInv, NEW c \in Callers, NEW k \in Kinds, pc[c] = "run", Settle(c, k),
           \/ UNCHANGED <<proc, jobs>> /\ proc[c] # "running"
           \/ proc' = [proc EXCEPT ![c] = "exited"] /\ proc[c] = "running" /\ UNCHANGED jobs
           \/ jobs' = [jobs EXCEPT ![c] = "running"] /\ UNCHANGED proc
    PROVE  Rest'
<1> USE CapabilityAssumption DEF IInv, TypeOK
<1> DEFINE o == Outcome(k, "local", c)
<1>0. pc' = [pc EXCEPT ![c] = "done"] /\ answer' = [answer EXCEPT ![c] = o]
  BY DEF Settle, Finish
<1>o. o.of = c
  BY DEF Outcome
<1> HIDE DEF o
<1>p. \A d \in Callers : proc'[d] # "none" <=> proc[d] # "none"
  OBVIOUS
<1>k. ASSUME Key[c] = NoKey PROVE Ledger' /\ Waiting'
  <2>1. UNCHANGED ledger
    BY <1>k DEF Settle
  <2>2. Ledger'
    BY <1>0, <1>p, <1>k, <2>1 DEF Ledger, ledger
  <2>3. Waiting'
    BY <1>0, <2>1 DEF Waiting, Owner, ledger
  <2> QED BY <2>2, <2>3
<1>l. ASSUME Key[c] # NoKey PROVE Ledger' /\ Waiting'
  <2> DEFINE key == Key[c]
  <2>1. /\ key \in Keys /\ inflight[key] = c /\ completed[key] = NoOne
    BY <1>l DEF Ledger
  <2>2. /\ inflight' = [inflight EXCEPT ![key] = NoOne]
        /\ completed' = [completed EXCEPT ![key] = c]
    BY <1>l DEF Settle
  <2>3. Ledger'
    BY <1>0, <1>p, <2>1, <2>2 DEF Ledger
  <2>4. \A q \in Keys : Owner(q)' = Owner(q)
    BY <2>1, <2>2 DEF Owner
  <2>5. Waiting'
    BY <1>0, <2>4 DEF Waiting
  <2> QED BY <2>3, <2>5
<1>3. AnswerIsOwn'
  BY <1>0, <1>o DEF AnswerIsOwn
<1>4. Processes'
  BY <1>0 DEF Processes, NoStrayProcess
<1> QED BY <1>k, <1>l, <1>3, <1>4 DEF Rest

\* The life of a process.
LEMMA ProcessSteps ==
    ASSUME IInv, NEW c \in Callers,
           LaunchCommand(c) \/ ProcessExits(c) \/ RetryAsRoot(c) \/ WatchBackgroundJob(c) \/ KillBackgroundJob(c)
    PROVE  Rest'
<1> USE CapabilityAssumption DEF IInv, TypeOK, ledger
<1>0. UNCHANGED <<pc, answer, ledger>>
  BY DEF LaunchCommand, ProcessExits, RetryAsRoot, WatchBackgroundJob, KillBackgroundJob
<1>p. \A d \in Callers : \/ proc'[d] = "none" <=> proc[d] = "none"
                         \/ d = c /\ pc[d] = "run"
  BY DEF LaunchCommand, ProcessExits, RetryAsRoot, WatchBackgroundJob, KillBackgroundJob
<1>q. \A d \in Callers : \/ proc'[d] = "running" => proc[d] = "running"
                         \/ pc[d] = "run"
  BY DEF LaunchCommand, ProcessExits, RetryAsRoot, WatchBackgroundJob, KillBackgroundJob
<1>r. \A d \in Callers : jobs[d] = "running" /\ proc'[d] = "running" => jobs'[d] = "running"
  BY DEF LaunchCommand, ProcessExits, RetryAsRoot, WatchBackgroundJob, KillBackgroundJob
<1>1. Ledger'
  BY <1>0, <1>p DEF Ledger
<1>2. Waiting' /\ AnswerIsOwn'
  BY <1>0 DEF Waiting, Owner, AnswerIsOwn
<1>3. Processes'
  BY <1>0, <1>p, <1>q, <1>r DEF Processes, NoStrayProcess
<1> QED BY <1>1, <1>2, <1>3 DEF Rest

LEMMA Unmoved == IInv /\ UNCHANGED <<pc, told>> => Rest'
BY DEF IInv, told, ledger, Rest, Ledger, Waiting, Owner, AnswerIsOwn, Processes, NoStrayProcess

\* An outcome of the caller's own run, of nobody's, or, locally, of a run of the
\* same request under the same key.
LEMMA OutcomeIsOwn ==
    ASSUME NEW c \in Callers, NEW k \in Kinds, NEW w \in {"remote", "local"},
           NEW d \in Callers \cup {NoOne},
           \/ d \in {NoOne, c}
           \/ w = "local" /\ Key[d] = Key[c] /\ Args[d] = Args[c]
    PROVE  Own(c, Outcome(k, w, d))
<1> DEFINE o == Outcome(k, w, d)
<1>1. o \in Answers
  BY DEF Outcome, Answers
<1>2. o.at = w /\ o.of = d
  BY DEF Outcome
<1> HIDE DEF o
<1>3. Own(c, o)
  BY <1>1, <1>2 DEF Own
<1> QED BY <1>3 DEF o

LEMMA StepRest == IInv /\ [Next]_vars => Rest'
<1> SUFFICES ASSUME IInv, [Next]_vars PROVE Rest'
  OBVIOUS
<1> USE DEF pipe, ledger, local
<1>n. ASSUME NEW c \in Callers, NEW k \in Kinds, NEW w \in {"remote", "local"}
      PROVE  Own(c, Outcome(k, w, NoOne)) /\ Own(c, Outcome(k, w, c))
  BY <1>n, OutcomeIsOwn
<1>k. /\ "rejected" \in Kinds /\ "output" \in Kinds /\ "timed out" \in Kinds /\ "detached" \in Kinds
      /\ "conflict" \in Kinds /\ "unavailable" \in Kinds /\ "raised" \in Kinds /\ "refused" \in Kinds
  BY DEF Kinds
<1>t. ASSUME NEW c \in Callers, NEW k \in Kinds, NEW w \in {"remote", "local"}, NEW d \in {NoOne, c},
             Finish(c, Outcome(k, w, d)), pc[c] \notin {"run", "done", "cancelled"},
             UNCHANGED <<ledger, proc, jobs>>
      PROVE  Rest'
  BY <1>n, <1>t, Told
<1>b. ASSUME NEW c \in Callers, Fallback(c), pc[c] \notin {"run", "done", "cancelled"},
             UNCHANGED <<ledger, proc, jobs>>
      PROVE  Rest'
  <2>1. CASE Finish(c, Outcome("unavailable", "remote", NoOne))
    BY <1>b, <1>k, <1>t, <2>1
  <2>2. CASE pc' = [pc EXCEPT ![c] = "local"] /\ UNCHANGED answer
    BY <1>b, <2>2, Moves
  <2> QED BY <1>b, <2>1, <2>2 DEF Fallback
<1>d. ASSUME NEW c \in Callers, Key[c] \in Keys, completed[Key[c]] # NoOne,
             Args[completed[Key[c]]] = Args[c],
             Finish(c, Outcome(answer[completed[Key[c]]].kind, "local", completed[Key[c]])),
             pc[c] \notin {"run", "done", "cancelled"}, UNCHANGED <<ledger, proc, jobs>>
      PROVE  Rest'
  <2> DEFINE o == Outcome(answer[completed[Key[c]]].kind, "local", completed[Key[c]])
  <2>1. completed[Key[c]] \in Callers /\ Key[completed[Key[c]]] = Key[c]
    BY <1>d DEF IInv, TypeOK, Ledger
  <2>2. answer[completed[Key[c]]].kind \in Kinds
    BY <2>1 DEF IInv, TypeOK
  <2>3. Own(c, o)
    BY <1>d, <2>1, <2>2, OutcomeIsOwn
  <2> QED BY <1>d, <2>3, Told
<1>1. ASSUME NEW c \in Callers, RejectRemote(c) \/ UnknownCapability(c) \/ InvalidArguments(c) PROVE Rest'
  BY <1>1, <1>t, <1>k DEF RejectRemote, UnknownCapability, InvalidArguments
<1>2. ASSUME NEW c \in Callers, BeginRemote(c) PROVE Rest'
  <2>1. pc[c] = "idle" /\ UNCHANGED <<ledger, proc, jobs>>
    BY <1>2 DEF BeginRemote
  <2>2. CASE Fallback(c)
    BY <1>b, <2>1, <2>2
  <2>3. CASE pc' = [pc EXCEPT ![c] = "remote"] /\ UNCHANGED answer
    BY <2>1, <2>3, Moves
  <2>4. CASE Finish(c, Outcome("raised", "remote", NoOne))
    BY <1>k, <1>t, <2>1, <2>4
  <2> QED BY <1>2, <2>2, <2>3, <2>4 DEF BeginRemote
<1>3. CASE PeerServe \/ PeerExit \/ CtrlB \/ UNCHANGED vars
  BY <1>3, Unmoved DEF PeerServe, PeerExit, CtrlB, vars, told
<1>4. ASSUME NEW c \in Callers, ReadReply(c) PROVE Rest'
  <2>1. pc[c] = "remote" /\ UNCHANGED <<ledger, proc, jobs>>
    BY <1>4 DEF ReadReply
  <2>2. CASE Finish(c, Outcome("output", "remote", c))
    BY <1>k, <1>t, <2>1, <2>2
  <2>3. CASE UNCHANGED <<pc, answer>>
    BY <2>1, <2>3, Unmoved DEF told
  <2> QED BY <1>4, <2>2, <2>3 DEF ReadReply
<1>5. ASSUME NEW c \in Callers, ReadFails(c) PROVE Rest'
  BY <1>5, <1>b DEF ReadFails
<1>6. ASSUME NEW c \in Callers, BeginLocal(c) \/ EnterWithoutKey(c) PROVE Rest'
  BY <1>6, Moves DEF BeginLocal, EnterWithoutKey, Run
<1>7. ASSUME NEW c \in Callers, EnterCompleted(c) PROVE Rest'
  <2>1. /\ pc[c] = "local" /\ Key[c] \in Keys /\ completed[Key[c]] # NoOne
        /\ UNCHANGED <<ledger, proc, jobs>>
    BY <1>7, CapabilityAssumption DEF EnterCompleted
  <2>2. CASE Finish(c, Outcome("conflict", "local", NoOne))
    BY <1>k, <1>t, <2>1, <2>2
  <2>3. CASE ~Conflict(c, completed[Key[c]])
    <3>1. Finish(c, Outcome(answer[completed[Key[c]]].kind, "local", completed[Key[c]]))
      BY <1>7, <2>3 DEF EnterCompleted
    <3> QED BY <1>d, <2>1, <2>3, <3>1 DEF Conflict
  <2> QED BY <1>7, <2>2, <2>3 DEF EnterCompleted
<1>8. ASSUME NEW c \in Callers, EnterInFlight(c) PROVE Rest'
  <2>1. /\ pc[c] = "local" /\ Key[c] # NoKey /\ completed[Key[c]] = NoOne /\ inflight[Key[c]] # NoOne
        /\ UNCHANGED <<ledger, proc, jobs>>
    BY <1>8 DEF EnterInFlight
  <2>2. CASE Finish(c, Outcome("conflict", "local", NoOne))
    BY <1>k, <1>t, <2>1, <2>2
  <2>3. CASE ~Conflict(c, inflight[Key[c]])
    <3>1. pc' = [pc EXCEPT ![c] = "wait"] /\ UNCHANGED answer
      BY <1>8, <2>3 DEF EnterInFlight
    <3>2. Owner(Key[c]) # NoOne /\ Args[Owner(Key[c])] = Args[c]
      BY <2>1, <2>3 DEF Owner, Conflict
    <3> QED BY <2>1, <3>1, <3>2, Moves
  <2> QED BY <1>8, <2>2, <2>3 DEF EnterInFlight
<1>9. ASSUME NEW c \in Callers, EnterFirst(c) PROVE Rest'
  <2> USE CapabilityAssumption DEF IInv, TypeOK
  <2>1. /\ pc[c] = "local" /\ Key[c] \in Keys /\ completed[Key[c]] = NoOne /\ inflight[Key[c]] = NoOne
        /\ inflight' = [inflight EXCEPT ![Key[c]] = c] /\ pc' = [pc EXCEPT ![c] = "run"]
        /\ UNCHANGED <<answer, completed, proc, jobs>>
    BY <1>9 DEF EnterFirst, Claimable, Run
  <2>2. Ledger'
    BY <2>1 DEF Ledger
  <2>3. Waiting'
    BY <2>1 DEF Waiting, Owner
  <2>4. AnswerIsOwn'
    BY <2>1 DEF AnswerIsOwn
  <2>5. Processes'
    BY <2>1 DEF Processes, NoStrayProcess
  <2> QED BY <2>2, <2>3, <2>4, <2>5 DEF Rest
<1>10. ASSUME NEW c \in Callers, WaiterWakes(c) PROVE Rest'
  <2>1. Key[c] \in Keys /\ Args[completed[Key[c]]] = Args[c]
    BY <1>10, CapabilityAssumption DEF WaiterWakes, IInv, Waiting, Owner
  <2> QED BY <1>10, <1>d, <2>1 DEF WaiterWakes
<1>11. ASSUME NEW c \in Callers, RefuseCommand(c) \/ ReadDirectly(c) \/ CommandCompletes(c) PROVE Rest'
  BY <1>11, <1>k, Settles DEF RefuseCommand, ReadDirectly, CommandCompletes
<1>12. ASSUME NEW c \in Callers, CommandDetaches(c) PROVE Rest'
  BY <1>12, <1>k, Settles DEF CommandDetaches
<1>13. ASSUME NEW c \in Callers, CommandTimesOut(c) PROVE Rest'
  BY <1>13, <1>k, Settles DEF CommandTimesOut
<1>14. ASSUME NEW c \in Callers,
              LaunchCommand(c) \/ ProcessExits(c) \/ RetryAsRoot(c) \/ WatchBackgroundJob(c) \/ KillBackgroundJob(c)
       PROVE  Rest'
  BY <1>14, ProcessSteps
<1>15. ASSUME NEW c \in Callers, Cancel(c) PROVE Rest'
  BY <1>15, Moves DEF Cancel
<1> QED
  BY <1>1, <1>2, <1>3, <1>4, <1>5, <1>6, <1>7, <1>8, <1>9, <1>10, <1>11, <1>12, <1>13, <1>14, <1>15
     DEF Next, CallerStep

LEMMA Invariance == Spec => []IInv
<1>1. IInv /\ [Next]_vars => IInv'
  BY StepTypeOK, StepRest DEF IInv, Rest
<1> QED BY <1>1, InitIInv, PTL DEF Spec

-----------------------------------------------------------------------------
\* Every variable keeps its type, the queues of the pipe included.
THEOREM CapabilityTypes == Spec => []TypeOK
<1>1. IInv => TypeOK
  BY DEF IInv
<1> QED BY <1>1, Invariance, PTL

(* The command of an idempotency key starts at most once, whoever asks, in *)
(* whatever order, and whichever callers are cancelled or time out.        *)
THEOREM OneLocalRunAlways == Spec => []OneLocalRunPerKey
<1>1. IInv => OneLocalRunPerKey
  <2> SUFFICES ASSUME IInv, NEW k \in Keys
               PROVE  Cardinality({c \in Callers : Key[c] = k /\ proc[c] # "none"}) <= 1
    BY DEF OneLocalRunPerKey
  <2> DEFINE S == {c \in Callers : Key[c] = k /\ proc[c] # "none"}
  <2>1. \A c, d \in S : c = d
    BY CapabilityAssumption DEF IInv, Ledger
  <2>2. CASE S = {}
    <3>1. Cardinality(S) = 0
      BY <2>2, FS_EmptySet
    <3> QED BY <3>1
  <2>3. CASE S # {}
    <3>1. PICK c : S = {c}
      BY <2>1, <2>3
    <3>2. Cardinality(S) = 1
      BY <3>1, FS_Singleton
    <3> QED BY <3>2
  <2> QED BY <2>2, <2>3
<1> QED BY <1>1, Invariance, PTL

(* No caller is told the outcome of another request than its own, neither  *)
(* by the ledger of keys nor by a pipe with late replies in it.            *)
THEOREM AnswerIsAlwaysOwn == Spec => []AnswerIsOwn
<1>1. IInv => AnswerIsOwn
  BY DEF IInv
<1> QED BY <1>1, Invariance, PTL

(* A running process has a caller that waits for it or a job that watches  *)
(* it, unless its caller was cancelled.                                    *)
THEOREM NoProcessStrays == Spec => []NoStrayProcess
<1>1. IInv => NoStrayProcess
  BY DEF IInv, Processes
<1> QED BY <1>1, Invariance, PTL
=============================================================================
