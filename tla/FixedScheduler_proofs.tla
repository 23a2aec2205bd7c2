----------------------- MODULE FixedScheduler_proofs ------------------------
(***************************************************************************)
(* Proofs about FixedScheduler: the two walks over the phases agree, and   *)
(* both are the stable order of the groups, however many phases there are. *)
(***************************************************************************)
EXTENDS FixedScheduler, NaturalSets_proofs

Entry == [group : PhaseGroup, insertion_order : Nat, name : Names]

-----------------------------------------------------------------------------
(***************************************************************************)
(* The inductive invariant: the counter numbers the registrations, so that *)
(* the vector is sorted by it.                                             *)
(***************************************************************************)
InOrderOfInsertion ==
  /\ phases \in Seq(Entry)
  /\ next_insertion_order = Len(phases)
  /\ \A i \in 1..Len(phases) : phases[i].insertion_order = i - 1

LEMMA InOrder == Spec => []InOrderOfInsertion
<1>1. Init => InOrderOfInsertion
  BY DEF Init, InOrderOfInsertion
<1>2. InOrderOfInsertion /\ [Next]_vars => InOrderOfInsertion'
  <2> SUFFICES ASSUME InOrderOfInsertion, [Next]_vars
               PROVE  InOrderOfInsertion'
    OBVIOUS
  <2>1. CASE UNCHANGED vars
    BY <2>1 DEF InOrderOfInsertion, vars
  <2>2. ASSUME NEW g \in PhaseGroup, NEW n \in Names, AddPhase(g, n)
        PROVE  InOrderOfInsertion'
    <3> DEFINE e == [group |-> g, insertion_order |-> next_insertion_order, name |-> n]
    <3>1. phases \in Seq(Entry) /\ Len(phases) \in Nat /\ next_insertion_order = Len(phases)
      BY DEF InOrderOfInsertion
    <3>2. phases' = Append(phases, e) /\ next_insertion_order' = next_insertion_order + 1
      BY <2>2 DEF AddPhase
    <3>3. e \in Entry /\ e.insertion_order = Len(phases)
      BY <3>1 DEF Entry
    <3> HIDE DEF e
    <3>4. /\ phases' \in Seq(Entry) /\ Len(phases') = Len(phases) + 1
          /\ \A i \in 1..Len(phases) : phases'[i] = phases[i]
          /\ phases'[Len(phases) + 1] = e
      BY <3>1, <3>2, <3>3
    <3>5. ASSUME NEW i \in 1..Len(phases) + 1
          PROVE  phases'[i].insertion_order = i - 1
      <4>1. CASE i \in 1..Len(phases)
        BY <3>4, <4>1 DEF InOrderOfInsertion
      <4>2. CASE i = Len(phases) + 1
        BY <3>1, <3>3, <3>4, <4>2
      <4> QED
        BY <3>1, <4>1, <4>2
    <3> QED
      BY <3>1, <3>2, <3>4, <3>5 DEF InOrderOfInsertion
  <2> QED
    BY <2>1, <2>2 DEF Next
<1> QED
  BY <1>1, <1>2, PTL DEF Spec

-----------------------------------------------------------------------------
(***************************************************************************)
(* The walks.                                                              *)
(***************************************************************************)
\* The groups and their ranks.
LEMMA Groups ==
  /\ \A i \in 1..5 : AllGroups[i] \in PhaseGroup
  /\ \A g \in PhaseGroup : GroupRank(g) \in 1..5 /\ AllGroups[GroupRank(g)] = g
  /\ \A i \in 1..5 : GroupRank(AllGroups[i]) = i
<1>1. \A i \in 1..5 : AllGroups[i] \in PhaseGroup
  BY DEF PhaseGroup
<1>2. \A i, j \in 1..5 : AllGroups[i] = AllGroups[j] => i = j
  <2>1. /\ AllGroups[1] = "PreInput" /\ AllGroups[2] = "Input" /\ AllGroups[3] = "Simulation"
        /\ AllGroups[4] = "PostSimulation" /\ AllGroups[5] = "Finalize"
    BY DEF AllGroups
  <2>2. \A i \in 1..5 : i = 1 \/ i = 2 \/ i = 3 \/ i = 4 \/ i = 5
    OBVIOUS
  <2> QED
    BY <2>1, <2>2
<1>3. ASSUME NEW g \in PhaseGroup
      PROVE  GroupRank(g) \in 1..5 /\ AllGroups[GroupRank(g)] = g
  <2>1. \E i \in 1..5 : AllGroups[i] = g
    BY DEF PhaseGroup
  <2> QED
    BY <2>1 DEF GroupRank
<1> QED
  BY <1>1, <1>2, <1>3

\* Sorting a vector that is sorted.
LEMMA SortedIsSame ==
  ASSUME NEW es \in Seq(Entry),
         \A i, j \in 1..Len(es) : i < j => es[i].insertion_order < es[j].insertion_order
  PROVE  Sorted(es) = es
<1> DEFINE Ahead(i) == {j \in 1..Len(es) :
                          \/ es[j].insertion_order < es[i].insertion_order
                          \/ es[j].insertion_order = es[i].insertion_order /\ j < i}
           n == Len(es)
<1>1. n \in Nat /\ es = [i \in 1..n |-> es[i]]
  OBVIOUS
<1>2. \A i \in 1..n : es[i].insertion_order \in Nat
  <2>1. \A i \in 1..n : es[i] \in Entry
    OBVIOUS
  <2> QED
    BY <2>1 DEF Entry
<1>3. ASSUME NEW i \in 1..n
      PROVE  Cardinality(Ahead(i)) = i - 1
  <2>1. ASSUME NEW j \in 1..n
        PROVE  j \in Ahead(i) <=> j < i
    <3>1. i \in Nat /\ j \in Nat
      BY <1>1
    <3>2. es[i].insertion_order \in Nat /\ es[j].insertion_order \in Nat
      BY <1>2
    <3>3. CASE j < i
      BY <3>3
    <3>4. CASE j = i
      BY <3>1, <3>2, <3>4
    <3>5. CASE i < j
      <4>1. es[i].insertion_order < es[j].insertion_order
        BY <3>5
      <4> QED
        BY <3>1, <3>2, <3>5, <4>1
    <3> QED
      BY <3>1, <3>3, <3>4, <3>5
  <2>2. i - 1 \in Nat /\ \A j \in 1..n : j < i <=> j \in 1..i - 1
    BY <1>1
  <2>3. Ahead(i) \subseteq 1..n /\ 1..i - 1 \subseteq 1..n
    BY <1>1
  <2> HIDE DEF Ahead, n
  <2>4. Ahead(i) = 1..i - 1
    BY <2>1, <2>2, <2>3
  <2> QED
    BY <2>2, <2>4, FS_Interval
<1>4. ASSUME NEW i \in 1..n
      PROVE  (CHOOSE j \in 1..n : Cardinality(Ahead(j)) = i - 1) = i
  <2> HIDE DEF Ahead
  <2>1. \A j \in 1..n : Cardinality(Ahead(j)) = i - 1 => j = i
    BY <1>1, <1>3
  <2>2. Cardinality(Ahead(i)) = i - 1
    BY <1>3
  <2> QED
    BY <2>1, <2>2
<1>5. Sorted(es) = [i \in 1..n |-> es[CHOOSE j \in 1..n : Cardinality(Ahead(j)) = i - 1]]
  BY DEF Sorted
<1> HIDE DEF Ahead, n
<1> QED
  BY <1>1, <1>4, <1>5

\* The positions of a group, and that its members come in the order of their insertion.
Positions(g) == {i \in 1..Len(phases) : phases[i].group = g}

LEMMA MembersAre ==
  ASSUME InOrderOfInsertion, NEW g
  PROVE  /\ Members(phases, g) \in Seq(Entry)
         /\ Ascending(Positions(g)) \in Seq(1..Len(phases))
         /\ Along(Members(phases, g), phases, Ascending(Positions(g)))
         /\ Sorted(Members(phases, g)) = Members(phases, g)
<1> DEFINE S == Positions(g)
           a == Ascending(S)
           M == Members(phases, g)
           R == {e \in Nat \X Nat : e[1] < e[2]}
<1>1. phases \in Seq(Entry) /\ S \in SUBSET (1..Len(phases)) /\ M = Chosen(phases, S)
  BY DEF InOrderOfInsertion, Positions, Members
<1>2. Len(phases) \in Nat
  BY <1>1
<1> HIDE DEF S, M
<1>3. IsFiniteSet(S) /\ S \in SUBSET Nat /\ M \in Seq(Entry) /\ Along(M, phases, a)
  BY <1>1, ChosenIs, ChosenAlong
<1>4. Lists(a, S, R)
  <2>1. \A i, j \in S : i < j => <<i, j>> \in R
    BY <1>3
  <2> HIDE DEF R
  <2> QED
    BY <1>3, <2>1, AscendingLists
<1>5. a \in Seq(S) /\ \A i, j \in 1..Len(a) : i < j => a[i] < a[j]
  BY <1>4 DEF Lists
<1>6. a \in Seq(1..Len(phases))
  <2> HIDE DEF a
  <2>1. Len(a) \in Nat /\ a = [i \in 1..Len(a) |-> a[i]] /\ \A i \in 1..Len(a) : a[i] \in S
    BY <1>5
  <2>2. \A i \in 1..Len(a) : a[i] \in 1..Len(phases)
    BY <1>1, <2>1
  <2> QED
    BY <2>1, <2>2
<1>7. ASSUME NEW i \in 1..Len(M), NEW j \in 1..Len(M), i < j
      PROVE  M[i].insertion_order < M[j].insertion_order
  <2> HIDE DEF a
  <2>1. i \in 1..Len(a) /\ j \in 1..Len(a) /\ M[i] = phases[a[i]] /\ M[j] = phases[a[j]]
    BY <1>3 DEF Along
  <2>2. a[i] \in 1..Len(phases) /\ a[j] \in 1..Len(phases) /\ a[i] < a[j]
    BY <1>5, <1>6, <1>7, <2>1
  <2>3. M[i].insertion_order = a[i] - 1 /\ M[j].insertion_order = a[j] - 1
    BY <2>1, <2>2 DEF InOrderOfInsertion
  <2> QED
    BY <1>2, <2>2, <2>3
<1>8. Sorted(M) = M
  BY <1>3, <1>7, SortedIsSame
<1> QED
  BY <1>3, <1>6, <1>8 DEF S, M

(***************************************************************************)
(* The walk that the engine makes and the plan by which it looks up where  *)
(* it is are the same, for every registration of phases.                   *)
(***************************************************************************)
THEOREM PlanIsTheVisit == Spec => []PlanMatchesVisit
<1>1. InOrderOfInsertion => PlanMatchesVisit
  <2> SUFFICES ASSUME InOrderOfInsertion
               PROVE  PlanMatchesVisit
    OBVIOUS
  <2>1. \A i \in 1..5 : Sorted(Members(phases, AllGroups[i])) = Members(phases, AllGroups[i])
    BY MembersAre
  <2>2. [i \in 1..5 |-> Sorted(Members(phases, AllGroups[i]))] = [i \in 1..5 |-> Members(phases, AllGroups[i])]
    BY <2>1
  <2> QED
    BY <2>2 DEF PlanMatchesVisit, PhasePlan, VisitOrder
<1> QED
  BY <1>1, InOrder, PTL

-----------------------------------------------------------------------------
(***************************************************************************)
(* The order of a walk: by group, and in a group by position.              *)
(***************************************************************************)
Earlier(j, k) ==
  \/ GroupRank(phases[j].group) < GroupRank(phases[k].group)
  \/ phases[j].group = phases[k].group /\ j < k

InOrderOfWalk == {e \in (1..Len(phases)) \X (1..Len(phases)) : Earlier(e[1], e[2])}

LEMMA WalkIsAnOrder ==
  ASSUME InOrderOfInsertion
  PROVE  Asymmetric(InOrderOfWalk)
<1>1. ASSUME NEW j, NEW k, <<j, k>> \in InOrderOfWalk
      PROVE  <<k, j>> \notin InOrderOfWalk
  <2>1. j \in 1..Len(phases) /\ k \in 1..Len(phases) /\ Earlier(j, k)
    BY <1>1 DEF InOrderOfWalk
  <2>2. phases[j] \in Entry /\ phases[k] \in Entry /\ j \in Int /\ k \in Int
    BY <2>1 DEF InOrderOfInsertion
  <2>3. GroupRank(phases[j].group) \in 1..5 /\ GroupRank(phases[k].group) \in 1..5
    BY <2>2, Groups DEF Entry
  <2>4. ~Earlier(k, j)
    BY <2>1, <2>2, <2>3 DEF Earlier
  <2> QED
    BY <2>4 DEF InOrderOfWalk
<1> QED
  BY <1>1 DEF Asymmetric

\* The registrations of the i-th group.
Group(i) == Positions(AllGroups[i])

LEMMA GroupListed ==
  ASSUME InOrderOfInsertion, NEW i \in 1..5
  PROVE  Lists(Ascending(Group(i)), Group(i), InOrderOfWalk)
<1>1. phases \in Seq(Entry) /\ Group(i) \in SUBSET (1..Len(phases))
  BY DEF InOrderOfInsertion, Group, Positions
<1>2. IsFiniteSet(Group(i)) /\ Group(i) \in SUBSET Nat
  BY <1>1, ChosenIs
<1>3. \A j, k \in Group(i) : j < k => <<j, k>> \in InOrderOfWalk
  BY <1>1 DEF InOrderOfWalk, Earlier, Group, Positions
<1> QED
  BY <1>2, <1>3, AscendingLists

LEMMA GroupsApart ==
  ASSUME InOrderOfInsertion, NEW i \in 1..5, NEW m \in 1..5, i < m,
         NEW j \in Group(i), NEW k \in Group(m)
  PROVE  <<j, k>> \in InOrderOfWalk
<1>1. j \in 1..Len(phases) /\ k \in 1..Len(phases)
  BY DEF Group, Positions
<1>2. GroupRank(phases[j].group) = i /\ GroupRank(phases[k].group) = m
  BY Groups DEF Group, Positions
<1> QED
  BY <1>1, <1>2 DEF InOrderOfWalk, Earlier

\* The registrations u are those at the positions w, which are S in the order of the walk.
Walks(u, w, S) ==
  /\ Lists(w, S, InOrderOfWalk) /\ w \in Seq(1..Len(phases))
  /\ Along(u, phases, w) /\ u \in Seq(Entry)

LEMMA WalksTogether ==
  ASSUME NEW u, NEW v, NEW S, Walks(u, v, S), NEW x, NEW y, NEW T, Walks(x, y, T),
         \A j \in S, k \in T : <<j, k>> \in InOrderOfWalk
  PROVE  Walks(u \o x, v \o y, S \cup T)
<1>1. Lists(v \o y, S \cup T, InOrderOfWalk)
  BY ListsTogether DEF Walks
<1>2. Along(u \o x, phases, v \o y)
  <2>1. /\ u \in Seq(Entry) /\ v \in Seq(1..Len(phases)) /\ Along(u, phases, v)
        /\ x \in Seq(Entry) /\ y \in Seq(1..Len(phases)) /\ Along(x, phases, y)
    BY DEF Walks
  <2> QED
    BY <2>1, AlongTogether
<1>3. u \o x \in Seq(Entry) /\ v \o y \in Seq(1..Len(phases))
  BY DEF Walks
<1> QED
  BY <1>1, <1>2, <1>3 DEF Walks

LEMMA WalkListed ==
  ASSUME InOrderOfInsertion
  PROVE  \E w : Walks(GroupByGroup([i \in 1..5 |-> Members(phases, AllGroups[i])]), w, 1..Len(phases))
<1> DEFINE A(i) == Ascending(Group(i))
           M(i) == Members(phases, AllGroups[i])
           G(i) == Group(i)
           I == 1..Len(phases)
           u == GroupByGroup([i \in 1..5 |-> M(i)])
<1>1. \A i \in 1..5 : Walks(M(i), A(i), G(i))
  BY MembersAre, GroupListed DEF Walks, Group
<1>2. /\ \A j \in G(1), k \in G(2) : <<j, k>> \in InOrderOfWalk
      /\ \A j \in G(1) \cup G(2), k \in G(3) : <<j, k>> \in InOrderOfWalk
      /\ \A j \in G(1) \cup G(2) \cup G(3), k \in G(4) : <<j, k>> \in InOrderOfWalk
      /\ \A j \in G(1) \cup G(2) \cup G(3) \cup G(4), k \in G(5) : <<j, k>> \in InOrderOfWalk
  BY GroupsApart
<1>3. G(1) \cup G(2) \cup G(3) \cup G(4) \cup G(5) = I
  <2>1. ASSUME NEW j \in I
        PROVE  \E i \in 1..5 : j \in G(i)
    <3>1. phases[j] \in Entry
      BY DEF InOrderOfInsertion
    <3>2. phases[j].group \in PhaseGroup
      BY <3>1 DEF Entry
    <3> QED
      BY <3>2, Groups DEF Group, Positions
  <2>2. \A i \in 1..5 : G(i) \subseteq I
    BY DEF Group, Positions
  <2>3. \A i \in 1..5 : i = 1 \/ i = 2 \/ i = 3 \/ i = 4 \/ i = 5
    OBVIOUS
  <2> QED
    BY <2>1, <2>2, <2>3
<1>4. u = M(1) \o M(2) \o M(3) \o M(4) \o M(5)
  BY DEF GroupByGroup
<1> HIDE DEF A, M, G, I, u
<1>5. Walks(M(1) \o M(2), A(1) \o A(2), G(1) \cup G(2))
  BY <1>1, <1>2, WalksTogether
<1>6. Walks(M(1) \o M(2) \o M(3), A(1) \o A(2) \o A(3), G(1) \cup G(2) \cup G(3))
  BY <1>1, <1>5, <1>2, WalksTogether
<1>7. Walks(M(1) \o M(2) \o M(3) \o M(4), A(1) \o A(2) \o A(3) \o A(4),
            G(1) \cup G(2) \cup G(3) \cup G(4))
  BY <1>1, <1>6, <1>2, WalksTogether
<1>8. Walks(u, A(1) \o A(2) \o A(3) \o A(4) \o A(5), I)
  <2>1. Walks(M(1) \o M(2) \o M(3) \o M(4) \o M(5), A(1) \o A(2) \o A(3) \o A(4) \o A(5),
              G(1) \cup G(2) \cup G(3) \cup G(4) \cup G(5))
    BY <1>1, <1>2, <1>7, WalksTogether
  <2> QED
    BY <1>3, <1>4, <2>1
<1> QED
  BY <1>8 DEF u, I, M

(***************************************************************************)
(* The k-th registration comes behind exactly those of an earlier group    *)
(* and the earlier ones of its own group.                                  *)
(***************************************************************************)
THEOREM PlanIsGroupedAndStable == Spec => []GroupedAndStable
<1>1. ASSUME InOrderOfInsertion, PlanMatchesVisit
      PROVE  GroupedAndStable
  <2> DEFINE u == GroupByGroup([i \in 1..5 |-> Members(phases, AllGroups[i])])
             N == Len(phases)
             Ahead(k) == {j \in 1..N : Earlier(j, k)}
             plan == PhasePlan(phases)
  <2>1. plan = Numbered(u)
    BY <1>1 DEF PlanMatchesVisit, VisitOrder
  <2>2. PICK w : Lists(w, 1..N, InOrderOfWalk) /\ Along(u, phases, w)
    BY <1>1, WalkListed DEF Walks
  <2> HIDE DEF u, plan
  <2>3. N \in Nat
    BY <1>1 DEF InOrderOfInsertion
  <2>4. /\ Cardinality(1..N) = Len(w)
        /\ \A i \in 1..Len(w) : Cardinality({x \in 1..N : <<x, w[i]>> \in InOrderOfWalk}) = i - 1
    BY <1>1, <2>2, ListedAt, WalkIsAnOrder
  <2>5. Len(w) = N /\ Len(u) = N
    <3>1. Cardinality(1..N) = N
      BY <2>3, FS_Interval
    <3> QED
      BY <2>2, <2>4, <3>1 DEF Along
  <2>6. Len(plan) = N /\ \A n \in 1..N : plan[n] = [ordinal |-> n - 1, group |-> u[n].group, name |-> u[n].name]
    BY <2>1, <2>3, <2>5 DEF Numbered
  <2>7. ASSUME NEW k \in 1..N
        PROVE  plan[Cardinality(Ahead(k)) + 1] =
                 [ordinal |-> Cardinality(Ahead(k)), group |-> phases[k].group, name |-> phases[k].name]
    <3>1. PICK n \in 1..N : w[n] = k
      BY <2>2, <2>5 DEF Lists
    <3>2. Ahead(k) = {x \in 1..N : <<x, w[n]>> \in InOrderOfWalk}
      BY <3>1 DEF InOrderOfWalk
    <3> HIDE DEF Ahead
    <3>3. Cardinality(Ahead(k)) = n - 1
      BY <2>4, <2>5, <3>2
    <3>4. u[n] = phases[k]
      BY <2>2, <2>5, <3>1 DEF Along
    <3>5. n - 1 + 1 = n
      BY <2>3
    <3> QED
      BY <2>6, <3>3, <3>4, <3>5
  <2> QED
    BY <2>6, <2>7 DEF GroupedAndStable, Earlier, plan
<1> QED
  BY <1>1, InOrder, PlanIsTheVisit, PTL
=============================================================================
