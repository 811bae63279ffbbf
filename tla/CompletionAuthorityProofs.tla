----------------------- MODULE CompletionAuthorityProofs -----------------------
(***************************************************************************)
(* What the operators of CompletionGraph compute, for every accepted graph *)
(* and every authority over it, and from that proofs about                 *)
(* CompletionAuthority, for graphs of any size and shape that validation   *)
(* accepts and any set of codes.                                           *)
(*                                                                         *)
(* The library's induction theorems take an operator; NatInductionSet      *)
(* takes a set, from which the recursion of each Fold is shown to be       *)
(* defined and each invariant of a loop to hold.  The lemmas up to         *)
(* AuthorityIInv are about operators only: GraphExecutionProofs rests on   *)
(* them too.                                                               *)
(***************************************************************************)
EXTENDS CompletionAuthority, FiniteSetTheorems, TLAPS

LEMMA NatInductionSet ==
    ASSUME NEW S, 0 \in S, \A k \in Nat : k \in S => k + 1 \in S
    PROVE  Nat \subseteq S
<1> DEFINE T == Nat \ S
<1> SUFFICES ASSUME T # {}
             PROVE  FALSE
    OBVIOUS
<1>1. IsWellFoundedOn(OpToRel(<, Nat), Nat)
    BY NatLessThanWellFounded
<1>2. PICK x \in T : \A y \in T : ~ (<<y, x>> \in OpToRel(<, Nat))
    BY <1>1, WFMin
<1>3. x - 1 \in T /\ x - 1 < x /\ x \in Nat
    OBVIOUS
<1>4. <<x - 1, x>> \in OpToRel(<, Nat)
    BY <1>3 DEF OpToRel
<1> QED BY <1>2, <1>3, <1>4

LEMMA MinIsLeast ==
    ASSUME NEW S, S \subseteq Nat, S # {}
    PROVE  Min(S) \in S /\ \A y \in S : Min(S) <= y
<1>1. IsWellFoundedOn(OpToRel(<, Nat), Nat)
    BY NatLessThanWellFounded
<1>2. PICK x \in S : \A y \in S : ~ (<<y, x>> \in OpToRel(<, Nat))
    BY <1>1, WFMin
<1>3. \A y \in S : x <= y
  <2> SUFFICES ASSUME NEW y \in S, y < x
               PROVE  FALSE
      OBVIOUS
  <2>1. <<y, x>> \in OpToRel(<, Nat)
      BY DEF OpToRel
  <2> QED BY <1>2, <2>1
<1> QED BY <1>3 DEF Min

(***************************************************************************)
(* Ascending.                                                              *)
(***************************************************************************)
IsAscending(s, S) ==
    /\ s \in [1..Cardinality(S) -> S]
    /\ \A i, j \in DOMAIN s : i < j => s[i] < s[j]

LEMMA AscendingExtends ==
    ASSUME NEW c \in Nat, NEW R, NEW T, NEW x \in T, R \subseteq T, x \in Nat,
           \A y \in R : y \in Nat /\ y < x,
           NEW r \in [1..c -> R], \A i, j \in 1..c : i < j => r[i] < r[j]
    PROVE  \E s \in [1..(c + 1) -> T] :
               \A i, j \in 1..(c + 1) : i < j => s[i] < s[j]
<1>0. PICK s : s = [i \in 1..(c + 1) |-> IF i <= c THEN r[i] ELSE x]
    OBVIOUS
<1>1. ASSUME NEW i \in 1..(c + 1)
      PROVE  /\ i \in 1..c => s[i] = r[i] /\ r[i] \in R
             /\ i \notin 1..c => s[i] = x /\ i = c + 1
    BY <1>0
<1>2. s \in [1..(c + 1) -> T]
  <2>1. \A i \in 1..(c + 1) : s[i] \in T
      BY <1>1
  <2> QED BY <1>0, <2>1
<1>3. ASSUME NEW i \in 1..(c + 1), NEW j \in 1..(c + 1), i < j
      PROVE  s[i] < s[j]
  <2>1. i \in 1..c
      BY <1>3
  <2>2. CASE j \in 1..c
      BY <1>1, <1>3, <2>1, <2>2
  <2>3. CASE j \notin 1..c
      BY <1>1, <2>1, <2>3
  <2> QED BY <2>2, <2>3
<1> QED BY <1>2, <1>3

LEMMA AscendingIsInjective ==
    ASSUME NEW c \in Nat, NEW S, S \subseteq Nat, NEW s \in [1..c -> S],
           \A i, j \in 1..c : i < j => s[i] < s[j]
    PROVE  \A i, j \in 1..c : s[i] = s[j] => i = j
<1> SUFFICES ASSUME NEW i \in 1..c, NEW j \in 1..c, s[i] = s[j], i # j
             PROVE  FALSE
    OBVIOUS
<1>1. s[i] \in Nat
    OBVIOUS
<1>2. i < j \/ j < i
    OBVIOUS
<1>3. ~ (s[i] < s[j]) /\ ~ (s[j] < s[i])
    BY <1>1
<1> QED BY <1>2, <1>3

LEMMA FiniteUpTo ==
    ASSUME NEW k \in Nat, NEW S, S \subseteq 1..k
    PROVE  IsFiniteSet(S) /\ Cardinality(S) \in Nat
<1>1. IsFiniteSet(1..k)
    BY FS_Interval
<1>2. S \in SUBSET (1..k)
    OBVIOUS
<1>3. IsFiniteSet(S)
    BY <1>1, <1>2, FS_Subset
<1> QED BY <1>3, FS_CardinalityType

LEMMA CardinalityUpTo ==
    ASSUME NEW k \in Nat
    PROVE  IsFiniteSet(1..k) /\ Cardinality(1..k) = k
<1>1. 1 \in Int /\ k \in Int
    OBVIOUS
<1>2. Cardinality(1..k) = IF 1 > k THEN 0 ELSE k - 1 + 1
    BY <1>1, FS_Interval
<1> QED BY <1>1, <1>2, FS_Interval

LEMMA AscendingExists ==
    ASSUME NEW k \in Nat, NEW S, S \subseteq 1..k
    PROVE  \E s : IsAscending(s, S)
<1> DEFINE Sortable == {n \in Nat : \A T \in SUBSET (1..n) : \E s : IsAscending(s, T)}
<1>1. 0 \in Sortable
  <2> SUFFICES ASSUME NEW T \in SUBSET (1..0)
               PROVE  \E s : IsAscending(s, T)
      OBVIOUS
  <2>0. T = {}
      OBVIOUS
  <2>1. T = {} /\ Cardinality(T) = 0
      BY <2>0, FS_EmptySet
  <2> DEFINE s == [i \in {} |-> i]
  <2>2. IsAscending(s, T)
      BY <2>1 DEF IsAscending
  <2> QED BY <2>2
<1>2. ASSUME NEW n \in Nat, n \in Sortable
      PROVE  n + 1 \in Sortable
  <2> SUFFICES ASSUME NEW T \in SUBSET (1..(n + 1))
               PROVE  \E s : IsAscending(s, T)
      OBVIOUS
  <2>1. CASE n + 1 \notin T
    <3>1. T \in SUBSET (1..n)
        BY <2>1
    <3> QED BY <1>2, <3>1
  <2>2. CASE n + 1 \in T
    <3> DEFINE R == T \ {n + 1}
               c == Cardinality(R)
    <3>1. R \in SUBSET (1..n)
        OBVIOUS
    <3>2. PICK r : IsAscending(r, R)
        BY <1>2, <3>1
    <3>3. IsFiniteSet(R) /\ c \in Nat
        BY <3>1, FiniteUpTo
    <3>4. R \cup {n + 1} = T
        BY <2>2
    <3>5. Cardinality(T) = c + 1
        BY <3>3, <3>4, FS_AddElement
    <3> HIDE DEF c, R
    <3>6. r \in [1..c -> R] /\ \A i, j \in 1..c : i < j => r[i] < r[j]
        BY <3>2 DEF IsAscending, c
    <3>7. R \subseteq T /\ \A x \in R : x \in Nat /\ x < n + 1
        BY <3>1, <3>4
    <3>8. PICK s \in [1..(c + 1) -> T] :
              \A i, j \in 1..(c + 1) : i < j => s[i] < s[j]
      <4>2. c \in Nat /\ n + 1 \in T /\ n + 1 \in Nat
          BY <2>2, <3>3
      <4>3. r \in [1..c -> R]
          BY <3>6
      <4>4. \A i, j \in 1..c : i < j => r[i] < r[j]
          BY <3>6
      <4>5. R \subseteq T
          BY <3>7
      <4>6. \A y \in R : y \in Nat /\ y < n + 1
          BY <3>7
      <4> QED BY <4>2, <4>3, <4>4, <4>5, <4>6, AscendingExtends
    <3>9. IsAscending(s, T)
        BY <3>5, <3>8 DEF IsAscending
    <3> QED BY <3>9
  <2> QED BY <2>1, <2>2
<1>3. k \in Sortable
    BY <1>1, <1>2, NatInductionSet
<1> QED BY <1>3

(* The queue gets every member of the set, once. *)
LEMMA AscendingIsExact ==
    ASSUME NEW k \in Nat, NEW S, S \subseteq 1..k
    PROVE  /\ Ascending(S) \in Seq(S)
           /\ \A i, j \in DOMAIN Ascending(S) :
                 Ascending(S)[i] = Ascending(S)[j] => i = j
           /\ \A x \in S : \E i \in DOMAIN Ascending(S) : Ascending(S)[i] = x
<1> DEFINE s == Ascending(S)
           c == Cardinality(S)
<1>1. IsFiniteSet(S) /\ c \in Nat
    BY FiniteUpTo
<1>2. IsAscending(s, S)
    BY AscendingExists DEF IsAscending, Ascending
<1> HIDE DEF s, c
<1>3. s \in [1..c -> S] /\ \A i, j \in 1..c : i < j => s[i] < s[j]
    BY <1>2 DEF IsAscending, c
<1>4. \A i, j \in 1..c : s[i] = s[j] => i = j
  <2>1. S \subseteq Nat
      OBVIOUS
  <2> QED BY <1>1, <1>3, <2>1, AscendingIsInjective
<1>5. s \in Injection(1..c, S)
    BY <1>3, <1>4 DEF Injection, IsInjective
<1>6. Cardinality(1..c) = c
    BY <1>1, FS_Interval
<1>7. s \in Surjection(1..c, S)
    BY <1>1, <1>5, <1>6, FS_Injection DEF c
<1>8. \A x \in S : \E i \in 1..c : s[i] = x
    BY <1>7 DEF Surjection
<1>9. s \in Seq(S) /\ DOMAIN s = 1..c
    BY <1>1, <1>3
<1> QED BY <1>4, <1>8, <1>9 DEF s


(***************************************************************************)
(* deterministic_topological_order, and what CompletionGraphV1::new gives. *)
(***************************************************************************)
(* What the loop has put in order so far. *)
OrderSound(g, done) ==
    /\ done \in Seq(DOMAIN g)
    /\ \A i, j \in 1..Len(done) : done[i] = done[j] => i = j
    /\ \A i \in 1..Len(done) : \A d \in Dependencies(g, done[i]) :
          \E j \in 1..(i - 1) : done[j] = d

LEMMA NextKeepsOrder ==
    ASSUME NEW k \in Nat, NEW g, DOMAIN g = 1..k, NEW done, OrderSound(g, done)
    PROVE  OrderSound(g, NextInOrder(g, done))
<1> DEFINE next == {m \in DOMAIN g \ ToSet(done) : Dependencies(g, m) \subseteq ToSet(done)}
<1>1. CASE next = {}
    BY <1>1 DEF NextInOrder
<1>2. CASE next # {}
  <2>1. next \subseteq Nat
      OBVIOUS
  <2>2. Min(next) \in next
      BY <1>2, <2>1, MinIsLeast
  <2>3. PICK x : x = Min(next) /\ NextInOrder(g, done) = Append(done, x)
      BY <1>2 DEF NextInOrder
  <2>4. /\ x \in DOMAIN g
        /\ \A i \in 1..Len(done) : done[i] # x
        /\ \A d \in Dependencies(g, x) : \E j \in 1..Len(done) : done[j] = d
    <3>1. x \in DOMAIN g /\ x \notin ToSet(done) /\ Dependencies(g, x) \subseteq ToSet(done)
        BY <2>2, <2>3
    <3>2. ToSet(done) = {done[i] : i \in 1..Len(done)}
        BY DEF ToSet, OrderSound
    <3> QED BY <3>1, <3>2
  <2>s. PICK s : s = Append(done, x)
      OBVIOUS
  <2>5. /\ s \in Seq(DOMAIN g) /\ Len(s) = Len(done) + 1 /\ Len(done) \in Nat
        /\ \A i \in 1..Len(done) : s[i] = done[i]
        /\ s[Len(done) + 1] = x
      BY <2>s, <2>4 DEF OrderSound
  <2>6. \A i, j \in 1..Len(s) : s[i] = s[j] => i = j
    <3> SUFFICES ASSUME NEW i \in 1..Len(s), NEW j \in 1..Len(s), s[i] = s[j]
                 PROVE  i = j
        OBVIOUS
    <3>1. (i \in 1..Len(done) \/ i = Len(done) + 1) /\ (j \in 1..Len(done) \/ j = Len(done) + 1)
        BY <2>5
    <3> QED BY <2>4, <2>5, <3>1, SMTT(30) DEF OrderSound
  <2>7. ASSUME NEW i \in 1..Len(s), NEW d \in Dependencies(g, s[i])
        PROVE  \E j \in 1..(i - 1) : s[j] = d
    <3>1. CASE i = Len(done) + 1
        BY <2>4, <2>5, <2>7, <3>1
    <3>2. CASE i \in 1..Len(done)
      <4>1. PICK j \in 1..(i - 1) : done[j] = d
          BY <2>5, <2>7, <3>2 DEF OrderSound
      <4>2. j \in 1..Len(done)
          BY <2>5, <3>2
      <4> QED BY <2>5, <4>1, <4>2
    <3> QED BY <2>5, <3>1, <3>2
  <2>8. OrderSound(g, s)
      BY <2>5, <2>6, <2>7 DEF OrderSound
  <2> QED BY <2>s, <2>3, <2>8
<1> QED BY <1>1, <1>2

OrderStep(g, done) == CHOOSE r \in {NextInOrder(g, v) : v \in {done}} : TRUE
OrderTrace(f, g, k) == f = [i \in 0..k |-> IF i = 0 THEN <<>> ELSE OrderStep(g, f[i - 1])]

LEMMA OrderTraceExists ==
    ASSUME NEW g
    PROVE  \A k \in Nat : \E f : OrderTrace(f, g, k)
<1> DEFINE S == {k \in Nat : \E f : OrderTrace(f, g, k)}
<1>1. 0 \in S
  <2> DEFINE f == [i \in 0..0 |-> <<>>]
  <2>1. OrderTrace(f, g, 0)
      BY DEF OrderTrace
  <2> QED BY <2>1
<1>2. ASSUME NEW k \in Nat, k \in S
      PROVE  k + 1 \in S
  <2>1. PICK f : OrderTrace(f, g, k)
      BY <1>2
  <2> DEFINE h == [i \in 0..(k + 1) |-> IF i <= k THEN f[i] ELSE OrderStep(g, f[k])]
  <2>2. OrderTrace(h, g, k + 1)
      BY <2>1 DEF OrderTrace
  <2> QED BY <2>2
<1> QED BY <1>1, <1>2, NatInductionSet

LEMMA TopologicalOrderSound ==
    ASSUME NEW g, Len(g) \in Nat, DOMAIN g = 1..Len(g)
    PROVE  OrderSound(g, TopologicalOrder(g))
<1> DEFINE n == Len(g)
           f == CHOOSE h : OrderTrace(h, g, n)
<1>1. OrderTrace(f, g, n)
    BY OrderTraceExists
<1>2. TopologicalOrder(g) = f[n]
    BY DEF TopologicalOrder, Fold, OrderTrace, OrderStep
<1> HIDE DEF f, n
<1>3. n \in Nat
    BY DEF n
<1> DEFINE S == {k \in Nat : k <= n => OrderSound(g, f[k])}
<1>4. 0 \in S
  <2>1. f[0] = <<>>
      BY <1>1, <1>3 DEF OrderTrace
  <2>2. OrderSound(g, <<>>)
      BY DEF OrderSound
  <2> QED BY <2>1, <2>2
<1>5. ASSUME NEW k \in Nat, k \in S
      PROVE  k + 1 \in S
  <2> SUFFICES ASSUME k + 1 <= n
               PROVE  OrderSound(g, f[k + 1])
      OBVIOUS
  <2>1. f[k + 1] = OrderStep(g, f[k])
      BY <1>1, <1>3 DEF OrderTrace
  <2>2. OrderStep(g, f[k]) = NextInOrder(g, f[k])
      BY DEF OrderStep
  <2>3. OrderSound(g, f[k])
      BY <1>3, <1>5
  <2> QED BY <1>3, <2>1, <2>2, <2>3, NextKeepsOrder DEF n
<1>6. n \in S
    BY <1>3, <1>4, <1>5, NatInductionSet
<1> QED BY <1>2, <1>3, <1>6

(* A graph as the authority finds it. *)
WellFormed(h) ==
    /\ \E k \in Nat : Nodes(h) = 1..k
    /\ \A n \in Nodes(h) :
          h.dependencies[n] \subseteq Nodes(h) /\ Cardinality(h.dependencies[n]) \in 0..2
    /\ h.successors = [n \in Nodes(h) |-> {m \in Nodes(h) : n \in h.dependencies[m]}]
    /\ h.order \in Seq(Nodes(h))
    /\ \A i, j \in 1..Len(h.order) : h.order[i] = h.order[j] => i = j
    /\ \A n \in Nodes(h) : \E i \in 1..Len(h.order) : h.order[i] = n
    /\ \A i \in 1..Len(h.order) : \A d \in h.dependencies[h.order[i]] :
          \E j \in 1..(i - 1) : h.order[j] = d

LEMMA DependenciesInside ==
    ASSUME NEW g, NEW streams, Accepted(g, streams), 0 \notin DOMAIN g, NEW n \in DOMAIN g
    PROVE  Dependencies(g, n) \subseteq DOMAIN g /\ Cardinality(Dependencies(g, n)) \in 0..2
<1>1. g[n].predecessor # 0 => g[n].predecessor \in DOMAIN g
    BY DEF Accepted, StreamIsChain
<1>2. g[n].kind = "wait" => g[n].recorded_by \in DOMAIN g
    BY DEF Accepted, WaitsMatchRecords
<1>3. Dependencies(g, n) \subseteq {g[n].predecessor, g[n].recorded_by}
    BY DEF Dependencies
<1>4. \A x, y : IsFiniteSet({x, y}) /\ Cardinality({x, y}) \in 0..2
  <2> SUFFICES ASSUME NEW x, NEW y
               PROVE  IsFiniteSet({x, y}) /\ Cardinality({x, y}) \in 0..2
      OBVIOUS
  <2>1. IsFiniteSet({x}) /\ Cardinality({x}) = 1
      BY FS_Singleton
  <2>2. {x} \cup {y} = {x, y}
      OBVIOUS
  <2> QED BY <2>1, <2>2, FS_AddElement
<1>5. /\ IsFiniteSet(Dependencies(g, n))
      /\ Cardinality(Dependencies(g, n)) <= Cardinality({g[n].predecessor, g[n].recorded_by})
    BY <1>3, <1>4, FS_Subset
<1>6. Cardinality(Dependencies(g, n)) \in Nat
    BY <1>5, FS_CardinalityType
<1>7. Cardinality(Dependencies(g, n)) \in 0..2
  <2>1. Cardinality({g[n].predecessor, g[n].recorded_by}) \in 0..2
      BY <1>4
  <2> QED BY <1>5, <1>6, <2>1
<1>8. Dependencies(g, n) \subseteq DOMAIN g
    BY <1>1, <1>2 DEF Dependencies
<1> QED BY <1>7, <1>8

(* Every graph that CompletionGraphV1::new accepts has complete indices and *)
(* an order in which each node comes after its dependencies.                *)
THEOREM AcceptedIsWellFormed ==
    ASSUME NEW g, NEW streams, Len(g) \in Nat, DOMAIN g = 1..Len(g), Accepted(g, streams)
    PROVE  WellFormed(NewGraph(g))
<1>0. PICK h, s, D : h = NewGraph(g) /\ s = TopologicalOrder(g) /\ D = DOMAIN g
    OBVIOUS
<1>1. Nodes(h) = D /\ h.order = s /\ \A n \in D : h.dependencies[n] = Dependencies(g, n)
    BY <1>0 DEF NewGraph, Nodes
<1>2. h.successors = [n \in D |-> {m \in D : n \in h.dependencies[m]}]
    BY <1>0, <1>1 DEF NewGraph, Successors
<1>3. OrderSound(g, s)
    BY <1>0, TopologicalOrderSound
<1>4. /\ IsFiniteSet(D) /\ Cardinality(D) = Len(s)
      /\ \E k \in Nat : D = 1..k
    BY <1>0, CardinalityUpTo DEF Accepted
<1>5. s \in Seq(D) /\ s \in [1..Len(s) -> D] /\ Len(s) \in Nat
    BY <1>0, <1>3 DEF OrderSound
<1>6. s \in Injection(1..Len(s), D)
    BY <1>3, <1>5 DEF OrderSound, Injection, IsInjective
<1>7. Cardinality(1..Len(s)) = Len(s)
    BY <1>5, CardinalityUpTo
<1>8. s \in Surjection(1..Len(s), D)
    BY <1>4, <1>6, <1>7, FS_Injection
<1>9. \A n \in D : \E i \in 1..Len(s) : s[i] = n
    BY <1>8 DEF Surjection
<1>10. ASSUME NEW n \in D
       PROVE  h.dependencies[n] \subseteq D /\ Cardinality(h.dependencies[n]) \in 0..2
    BY <1>0, <1>1, DependenciesInside
<1>11. \A i, j \in 1..Len(s) : s[i] = s[j] => i = j
    BY <1>3 DEF OrderSound
<1>12. ASSUME NEW i \in 1..Len(s), NEW d \in h.dependencies[s[i]]
       PROVE  \E j \in 1..(i - 1) : s[j] = d
  <2>1. s[i] \in D
      BY <1>5
  <2>2. d \in Dependencies(g, s[i])
      BY <1>1, <1>12, <2>1
  <2> QED BY <1>3, <2>2 DEF OrderSound
<1>13. /\ \E k \in Nat : Nodes(h) = 1..k
       /\ \A n \in Nodes(h) :
             h.dependencies[n] \subseteq Nodes(h) /\ Cardinality(h.dependencies[n]) \in 0..2
    BY <1>1, <1>4, <1>10
<1>14. h.successors = [n \in Nodes(h) |-> {m \in Nodes(h) : n \in h.dependencies[m]}]
    BY <1>1, <1>2
<1>15. /\ h.order \in Seq(Nodes(h))
       /\ \A i, j \in 1..Len(h.order) : h.order[i] = h.order[j] => i = j
       /\ \A n \in Nodes(h) : \E i \in 1..Len(h.order) : h.order[i] = n
    BY <1>1, <1>5, <1>9, <1>11
<1>16. \A i \in 1..Len(h.order) : \A d \in h.dependencies[h.order[i]] :
          \E j \in 1..(i - 1) : h.order[j] = d
    BY <1>1, <1>12
<1>17. WellFormed(h)
    BY <1>13, <1>14, <1>15, <1>16 DEF WellFormed
<1> QED BY <1>0, <1>17


(***************************************************************************)
(* Ancestors.                                                              *)
(***************************************************************************)
LEMMA DependenciesAreAncestors ==
    ASSUME NEW g, WellFormed(g), NEW m \in Nodes(g), NEW d \in g.dependencies[m]
    PROVE  d \in Ancestors(g, m) /\ Ancestors(g, d) \subseteq Ancestors(g, m)
<1>1. d \in Nodes(g)
    BY DEF WellFormed
<1> QED BY <1>1 DEF Ancestors

(* A set that has the dependencies of n and of its members has its ancestors. *)
LEMMA AncestorsInClosed ==
    ASSUME NEW g, NEW n \in Nodes(g), NEW S, S \subseteq Nodes(g),
           g.dependencies[n] \subseteq S, \A m \in S : g.dependencies[m] \subseteq S
    PROVE  Ancestors(g, n) \subseteq S
BY DEF Ancestors

(***************************************************************************)
(* Authorities over a graph.                                               *)
(***************************************************************************)
NodeStates(N, C) ==
    [is : {"Blocked", "Ready", "Succeeded"}, origin : {0}, code : {0}]
    \cup [is : {"CancelRequested"}, origin : {0}, code : C]
    \cup [is : Causes, origin : N, code : C]

Authorities(g, C) ==
    [state : [Nodes(g) -> NodeStates(Nodes(g), C)], remaining : [Nodes(g) -> 0..2],
     terminal : Nat, ready : Seq(Nodes(g))]

(* A node past Blocked, but for a cancelled one, has its dependencies. *)
Follows(g, st) ==
    \A n \in Nodes(g) : st[n].is \in {"Ready", "CancelRequested", "Succeeded", "Failed"} =>
        \A d \in g.dependencies[n] : st[d] = Succeeded

(* A cause has spread to what depends on it. *)
SpreadTo(g, st, n) ==
    \A d \in g.dependencies[n] : st[d].is \in Causes => st[n].is \in Causes

Spread(g, st) == \A n \in Nodes(g) : SpreadTo(g, st, n)

Missing(g, st, n) == {d \in g.dependencies[n] : st[d] # Succeeded}

(* A blocked node counts the dependencies it waits for. *)
Counts(g, st, remaining) ==
    \A n \in Nodes(g) : st[n] = Blocked =>
        remaining[n] = Cardinality(Missing(g, st, n)) /\ remaining[n] # 0

DirectCause(s) ==
    [s EXCEPT !.is = IF s.is = "DependencyFailed" THEN "Failed" ELSE "Cancelled"]

TrueCauses(g, st) ==
    \A n \in Nodes(g) :
        /\ st[n].is \in {"Failed", "Cancelled"} => st[n].origin = n
        /\ st[n].is \in {"DependencyFailed", "DependencyCancelled"} =>
              st[n].origin \in Ancestors(g, n) /\ st[st[n].origin] = DirectCause(st[n])

TerminalNodes(g, st) == {n \in Nodes(g) : IsTerminal(st[n])}

Consistent(g, C, a) ==
    /\ a \in Authorities(g, C)
    /\ Follows(g, a.state) /\ Spread(g, a.state)
    /\ Counts(g, a.state, a.remaining)
    /\ TrueCauses(g, a.state)
    /\ a.terminal = Cardinality(TerminalNodes(g, a.state))

LEMMA StateCases ==
    ASSUME NEW N, NEW C, NEW s \in NodeStates(N, C)
    PROVE  /\ s.is = "Blocked" <=> s = Blocked
           /\ s.is = "Ready" <=> s = Ready
           /\ s.is = "Succeeded" <=> s = Succeeded
           /\ s.is \in {"Blocked", "Ready", "Succeeded", "CancelRequested"} \cup Causes
           /\ s.is \in Causes => s.origin \in N /\ s.code \in C
           /\ s.is = "CancelRequested" => s.code \in C
           /\ s = [is |-> s.is, origin |-> s.origin, code |-> s.code]
BY DEF NodeStates, Blocked, Ready, Succeeded, Causes

LEMMA Names ==
    /\ Blocked.is = "Blocked" /\ Ready.is = "Ready" /\ Succeeded.is = "Succeeded"
    /\ Causes = {"Failed", "Cancelled", "DependencyFailed", "DependencyCancelled"}
    /\ TerminalStates = Causes \cup {"Succeeded"}
BY DEF Blocked, Ready, Succeeded, Causes, TerminalStates

LEMMA StatesTyped ==
    ASSUME NEW N, NEW C, NEW o \in N, NEW c \in C
    PROVE  /\ Blocked \in NodeStates(N, C) /\ Ready \in NodeStates(N, C)
           /\ Succeeded \in NodeStates(N, C)
           /\ [is |-> "CancelRequested", origin |-> 0, code |-> c] \in NodeStates(N, C)
           /\ \A x \in Causes : [is |-> x, origin |-> o, code |-> c] \in NodeStates(N, C)
BY DEF NodeStates, Blocked, Ready, Succeeded, Causes

LEMMA CauseOf ==
    ASSUME NEW o, NEW c, NEW f, NEW fd, NEW k, NEW kd,
           f = [is |-> "Failed", origin |-> o, code |-> c],
           fd = [is |-> "DependencyFailed", origin |-> o, code |-> c],
           k = [is |-> "Cancelled", origin |-> o, code |-> c],
           kd = [is |-> "DependencyCancelled", origin |-> o, code |-> c]
    PROVE  /\ dependency_cause(f) = fd /\ dependency_cause(fd) = fd
           /\ dependency_cause(k) = kd /\ dependency_cause(kd) = kd
           /\ DirectCause(fd) = f /\ DirectCause(kd) = k
BY DEF dependency_cause, DirectCause

LEMMA CauseFields ==
    ASSUME NEW N, NEW C, NEW s \in NodeStates(N, C), s.is \in Causes
    PROVE  /\ dependency_cause(s) \in NodeStates(N, C)
           /\ dependency_cause(s).is \in {"DependencyFailed", "DependencyCancelled"}
           /\ dependency_cause(s).origin = s.origin
           /\ dependency_cause(dependency_cause(s)) = dependency_cause(s)
           /\ DirectCause(dependency_cause(s)) =
                 IF s.is \in {"Failed", "Cancelled"} THEN s ELSE DirectCause(s)
<1>1. PICK x \in Causes, o \in N, c \in C : s = [is |-> x, origin |-> o, code |-> c]
    BY StateCases
<1>2. PICK f, fd, k, kd :
          /\ f = [is |-> "Failed", origin |-> o, code |-> c]
          /\ fd = [is |-> "DependencyFailed", origin |-> o, code |-> c]
          /\ k = [is |-> "Cancelled", origin |-> o, code |-> c]
          /\ kd = [is |-> "DependencyCancelled", origin |-> o, code |-> c]
    OBVIOUS
<1>3. /\ dependency_cause(f) = fd /\ dependency_cause(fd) = fd
      /\ dependency_cause(k) = kd /\ dependency_cause(kd) = kd
      /\ DirectCause(fd) = f /\ DirectCause(kd) = k
    BY <1>2, CauseOf
<1>4. fd \in NodeStates(N, C) /\ kd \in NodeStates(N, C)
    BY <1>2, StatesTyped, Names
<1>5. s \in {f, fd, k, kd}
    BY <1>1, <1>2, Names
<1>6. /\ f.is = "Failed" /\ fd.is = "DependencyFailed"
      /\ k.is = "Cancelled" /\ kd.is = "DependencyCancelled"
      /\ f.origin = o /\ fd.origin = o /\ k.origin = o /\ kd.origin = o
    BY <1>2
<1> QED BY <1>3, <1>4, <1>5, <1>6

LEMMA DirectIsNotBlocked ==
    ASSUME NEW N, NEW C, NEW s \in NodeStates(N, C),
           s.is \in {"DependencyFailed", "DependencyCancelled"}
    PROVE  DirectCause(s) # Blocked /\ DirectCause(s).is \in Causes
<1>1. DirectCause(s).is \in {"Failed", "Cancelled"}
    BY DEF DirectCause, NodeStates
<1> QED BY <1>1, Names

LEMMA AuthorityFields ==
    ASSUME NEW g, NEW C, NEW a \in Authorities(g, C)
    PROVE  /\ a.state \in [Nodes(g) -> NodeStates(Nodes(g), C)]
           /\ a.remaining \in [Nodes(g) -> 0..2]
           /\ a.terminal \in Nat /\ a.ready \in Seq(Nodes(g))
BY DEF Authorities

(* One field at a time. *)
WithState(a, x) == [a EXCEPT !.state = x]
WithRemaining(a, x) == [a EXCEPT !.remaining = x]
WithTerminal(a, x) == [a EXCEPT !.terminal = x]
WithReady(a, x) == [a EXCEPT !.ready = x]

LEMMA OneField ==
    ASSUME NEW g, NEW C, NEW a \in Authorities(g, C)
    PROVE  /\ \A x \in [Nodes(g) -> NodeStates(Nodes(g), C)] :
                 WithState(a, x) \in Authorities(g, C)
           /\ \A x \in [Nodes(g) -> 0..2] : WithRemaining(a, x) \in Authorities(g, C)
           /\ \A x \in Nat : WithTerminal(a, x) \in Authorities(g, C)
           /\ \A x \in Seq(Nodes(g)) : WithReady(a, x) \in Authorities(g, C)
<1>1. ASSUME NEW x \in [Nodes(g) -> NodeStates(Nodes(g), C)]
      PROVE  WithState(a, x) \in Authorities(g, C)
    BY DEF WithState, Authorities
<1>2. ASSUME NEW x \in [Nodes(g) -> 0..2]
      PROVE  WithRemaining(a, x) \in Authorities(g, C)
    BY DEF WithRemaining, Authorities
<1>3. ASSUME NEW x \in Nat
      PROVE  WithTerminal(a, x) \in Authorities(g, C)
    BY DEF WithTerminal, Authorities
<1>4. ASSUME NEW x \in Seq(Nodes(g))
      PROVE  WithReady(a, x) \in Authorities(g, C)
    BY DEF WithReady, Authorities
<1> QED BY <1>1, <1>2, <1>3, <1>4

LEMMA SettleFields ==
    ASSUME NEW g, NEW C, NEW a \in Authorities(g, C), NEW n \in Nodes(g),
           NEW s \in NodeStates(Nodes(g), C)
    PROVE  /\ Settle(a, n, s) \in Authorities(g, C)
           /\ Settle(a, n, s).state = [a.state EXCEPT ![n] = s]
           /\ Settle(a, n, s).terminal = a.terminal + 1
           /\ Settle(a, n, s).remaining = a.remaining
           /\ Settle(a, n, s).ready = a.ready
<1>1. /\ [a.state EXCEPT ![n] = s] \in [Nodes(g) -> NodeStates(Nodes(g), C)]
      /\ a.terminal + 1 \in Nat
    BY AuthorityFields
<1>2. Settle(a, n, s) =
          WithTerminal(WithState(a, [a.state EXCEPT ![n] = s]), a.terminal + 1)
    BY DEF Settle, WithTerminal, WithState
<1>3. Settle(a, n, s) \in Authorities(g, C)
    BY <1>1, <1>2, OneField
<1> QED BY <1>3 DEF Settle, Authorities

LEMMA NodesFinite ==
    ASSUME NEW g, WellFormed(g), NEW S, S \subseteq Nodes(g)
    PROVE  IsFiniteSet(S) /\ Cardinality(S) \in Nat
           /\ Nodes(g) \subseteq Nat /\ Cardinality(S) <= Cardinality(Nodes(g))
<1>1. PICK k \in Nat : Nodes(g) = 1..k
    BY DEF WellFormed
<1>2. IsFiniteSet(Nodes(g))
    BY <1>1, CardinalityUpTo
<1> QED BY <1>1, <1>2, FiniteUpTo, FS_Subset

(* One more node is terminal. *)
LEMMA SettleCounts ==
    ASSUME NEW g, WellFormed(g), NEW st, NEW n \in Nodes(g), NEW s,
           DOMAIN st = Nodes(g), IsTerminal(s), ~ IsTerminal(st[n])
    PROVE  Cardinality(TerminalNodes(g, [st EXCEPT ![n] = s]))
              = Cardinality(TerminalNodes(g, st)) + 1
<1>1. TerminalNodes(g, [st EXCEPT ![n] = s]) = TerminalNodes(g, st) \cup {n}
    BY DEF TerminalNodes
<1>2. n \notin TerminalNodes(g, st) /\ TerminalNodes(g, st) \subseteq Nodes(g)
    BY DEF TerminalNodes
<1>3. IsFiniteSet(TerminalNodes(g, st))
    BY <1>2, NodesFinite
<1> QED BY <1>1, <1>2, <1>3, FS_AddElement

(***************************************************************************)
(* The spread of a cause.  Settled is the authority a just after node n    *)
(* failed or was cancelled: nothing below n knows yet.                     *)
(***************************************************************************)
SpreadBut(g, st, n) ==
    \A m \in Nodes(g) : \A d \in g.dependencies[m] :
        d # n /\ st[d].is \in Causes => st[m].is \in Causes

Settled(g, C, a, n) ==
    /\ a \in Authorities(g, C)
    /\ a.state[n].is \in {"Failed", "Cancelled"}
    /\ Follows(g, a.state) /\ SpreadBut(g, a.state, n)
    /\ Counts(g, a.state, a.remaining)
    /\ TrueCauses(g, a.state)
    /\ a.terminal = Cardinality(TerminalNodes(g, a.state))

(* A node changes only by inheriting the cause of n. *)
Inherits(g, a, n, st) ==
    \A m \in Nodes(g) : st[m] # a.state[m] =>
        /\ a.state[m] = Blocked /\ n \in Ancestors(g, m)
        /\ st[m] = dependency_cause(a.state[n])

(* What waits for a node that changed is queued. *)
Queues(g, a, n, st, queued) ==
    \A m \in Nodes(g) : \A d \in g.dependencies[m] :
        d = n \/ st[d] # a.state[d] => m \in queued

(* After i nodes of the topological order. *)
LoopSound(g, C, a, n, i, b) ==
    /\ b.authority \in Authorities(g, C)
    /\ b.authority.remaining = a.remaining /\ b.authority.ready = a.ready
    /\ Inherits(g, a, n, b.authority.state)
    /\ Queues(g, a, n, b.authority.state, b.queued)
    /\ \A j \in 1..i : SpreadTo(g, b.authority.state, g.order[j])
    /\ b.authority.terminal = Cardinality(TerminalNodes(g, b.authority.state))

LEMMA CausesAreNotBlocked ==
    ASSUME NEW s, s.is \in Causes
    PROVE  s # Blocked /\ s # Ready /\ s # Succeeded /\ s.is \notin {"Ready", "CancelRequested"}
           /\ IsTerminal(s)
BY DEF Blocked, Ready, Succeeded, Causes, IsTerminal, TerminalStates

LEMMA BlockedIsNotTerminal ==
    ~ IsTerminal(Blocked) /\ Blocked.is \notin Causes /\ Blocked # Succeeded
BY DEF Blocked, IsTerminal, TerminalStates, Causes, Succeeded

(* What a changed node has become. *)
LEMMA InheritedCause ==
    ASSUME NEW g, NEW C, NEW a, NEW n \in Nodes(g), Settled(g, C, a, n)
    PROVE  /\ dependency_cause(a.state[n]) \in NodeStates(Nodes(g), C)
           /\ dependency_cause(a.state[n]).is \in {"DependencyFailed", "DependencyCancelled"}
           /\ dependency_cause(a.state[n]).is \in Causes
           /\ dependency_cause(dependency_cause(a.state[n])) = dependency_cause(a.state[n])
           /\ dependency_cause(a.state[n]).origin = n
           /\ DirectCause(dependency_cause(a.state[n])) = a.state[n]
           /\ a.state[n] \in NodeStates(Nodes(g), C) /\ a.state[n].is \in Causes
<1>1. a.state[n] \in NodeStates(Nodes(g), C) /\ a.state[n].is \in {"Failed", "Cancelled"}
    BY AuthorityFields DEF Settled
<1>2. a.state[n].origin = n
    BY DEF Settled, TrueCauses
<1> QED BY <1>1, <1>2, CauseFields, Names

(* The cause a visited node finds comes from n. *)
LEMMA FoundCause ==
    ASSUME NEW g, WellFormed(g), NEW C, NEW a, NEW n \in Nodes(g), Settled(g, C, a, n),
           NEW st, Inherits(g, a, n, st), NEW m \in Nodes(g), st[m] = Blocked,
           NEW d \in g.dependencies[m], st[d].is \in Causes
    PROVE  /\ n \in Ancestors(g, m) /\ a.state[m] = Blocked
           /\ dependency_cause(st[d]) = dependency_cause(a.state[n])
<1>1. d \in Nodes(g)
    BY DEF WellFormed
<1>2. a.state[m] = Blocked
  <2>1. dependency_cause(a.state[n]) # Blocked
      BY InheritedCause, CausesAreNotBlocked
  <2> QED BY <2>1 DEF Inherits
<1>3. d = n \/ st[d] # a.state[d]
  <2> SUFFICES ASSUME d # n, st[d] = a.state[d]
               PROVE  FALSE
      OBVIOUS
  <2>1. a.state[m].is \in Causes
      BY DEF Settled, SpreadBut
  <2> QED BY <2>1, <1>2, BlockedIsNotTerminal
<1>4. d \in Ancestors(g, m) /\ Ancestors(g, d) \subseteq Ancestors(g, m)
    BY DependenciesAreAncestors
<1>5. CASE st[d] # a.state[d]
  <2>1. n \in Ancestors(g, d) /\ st[d] = dependency_cause(a.state[n])
      BY <1>1, <1>5 DEF Inherits
  <2> QED BY <2>1, <1>2, <1>4, InheritedCause
<1>6. CASE d = n /\ st[d] = a.state[d]
    BY <1>6, <1>2, <1>4
<1> QED BY <1>3, <1>5, <1>6

(* A node that is visited and left alone has the cause already, or needs none. *)
LEMMA NotFound ==
    ASSUME NEW g, WellFormed(g), NEW C, NEW a, NEW n \in Nodes(g), Settled(g, C, a, n),
           NEW st, Inherits(g, a, n, st), NEW queued, Queues(g, a, n, st, queued),
           NEW m \in Nodes(g), st[m] # Blocked \/ m \notin queued
    PROVE  SpreadTo(g, st, m)
<1> SUFFICES ASSUME NEW d \in g.dependencies[m], st[d].is \in Causes
             PROVE  st[m].is \in Causes
    BY DEF SpreadTo
<1>1. d \in Nodes(g)
    BY DEF WellFormed
<1>2. st[m] # a.state[m] => st[m].is \in Causes
    BY InheritedCause DEF Inherits
<1>3. CASE d = n \/ st[d] # a.state[d]
  <2>1. st[m] # Blocked
      BY <1>3 DEF Queues
  <2>2. a.state[d] # Succeeded
    <3>1. CASE st[d] # a.state[d]
        BY <1>1, <3>1, BlockedIsNotTerminal DEF Inherits
    <3>2. CASE d = n
        BY <3>2, InheritedCause, CausesAreNotBlocked
    <3> QED BY <1>3, <3>1, <3>2
  <2>3. a.state[m].is \notin {"Ready", "CancelRequested", "Succeeded", "Failed"}
      BY <2>2 DEF Settled, Follows
  <2>4. a.state[m] \in NodeStates(Nodes(g), C)
      BY AuthorityFields DEF Settled
  <2>5. a.state[m] = Blocked \/ a.state[m].is \in Causes
      BY <2>3, <2>4, StateCases
  <2> QED BY <2>1, <2>5, <1>2
<1>4. CASE d # n /\ st[d] = a.state[d]
  <2>1. a.state[m].is \in Causes
      BY <1>4 DEF Settled, SpreadBut
  <2> QED BY <2>1, <1>2
<1> QED BY <1>3, <1>4

LEMMA OrderFacts ==
    ASSUME NEW g, WellFormed(g)
    PROVE  /\ Len(g.order) \in Nat
           /\ \A i \in 1..Len(g.order) : g.order[i] \in Nodes(g)
           /\ \A i, j \in 1..Len(g.order) : i # j => g.order[i] # g.order[j]
           /\ \A i \in 1..Len(g.order) : \A d \in g.dependencies[g.order[i]] :
                 \E j \in 1..(i - 1) : g.order[j] = d
<1>1. PICK s, N : s = g.order /\ N = Nodes(g) /\ s \in Seq(N)
    BY DEF WellFormed
<1>2. Len(s) \in Nat /\ \A i \in 1..Len(s) : s[i] \in N
    BY <1>1
<1> QED BY <1>1, <1>2 DEF WellFormed

VisitFinds(g, b, m) ==
    /\ m \in b.queued /\ b.authority.state[m] = Blocked
    /\ {d \in g.dependencies[m] : b.authority.state[d].is \in Causes} # {}

LEMMA VisitSound ==
    ASSUME NEW g, WellFormed(g), NEW C, NEW a, NEW n \in Nodes(g), Settled(g, C, a, n),
           NEW i \in Nat, i + 1 <= Len(g.order), NEW b, LoopSound(g, C, a, n, i, b)
    PROVE  LoopSound(g, C, a, n, i + 1, Visit(g, b, g.order[i + 1]))
<1>0. PICK m, st, x, q : /\ m = g.order[i + 1] /\ st = b.authority.state
                         /\ x = b.authority /\ q = b.queued
    OBVIOUS
<1>1. m \in Nodes(g)
    BY <1>0 DEF WellFormed
<1>2. x \in Authorities(g, C) /\ st = x.state
    BY <1>0 DEF LoopSound
<1>3. CASE ~ VisitFinds(g, b, m)
  <2>1. Visit(g, b, m) = b
      BY <1>3 DEF Visit, VisitFinds
  <2>2. SpreadTo(g, st, m)
    <3>1. CASE {d \in g.dependencies[m] : st[d].is \in Causes} = {}
        BY <3>1 DEF SpreadTo
    <3>2. CASE st[m] # Blocked \/ m \notin q
        BY <3>2, <1>0, <1>1, NotFound DEF LoopSound
    <3> QED BY <1>0, <1>3, <3>1, <3>2 DEF VisitFinds
  <2>3. \A j \in 1..(i + 1) : j \in 1..i \/ j = i + 1
      OBVIOUS
  <2> QED BY <1>0, <2>1, <2>2, <2>3 DEF LoopSound
<1>4. CASE VisitFinds(g, b, m)
  <2>0. PICK causes : causes = {d \in g.dependencies[m] : st[d].is \in Causes}
      OBVIOUS
  <2>1. PICK d : d = Min(causes)
      OBVIOUS
  <2>2. d \in g.dependencies[m] /\ st[d].is \in Causes
    <3>1. causes # {} /\ causes \subseteq Nat
        BY <1>0, <1>1, <1>4, <2>0, NodesFinite DEF VisitFinds, WellFormed
    <3> QED BY <2>0, <2>1, <3>1, MinIsLeast
  <2>3. PICK c : c = dependency_cause(a.state[n])
      OBVIOUS
  <2>4. /\ n \in Ancestors(g, m) /\ a.state[m] = Blocked /\ st[m] = Blocked
        /\ dependency_cause(st[d]) = c
      BY <1>0, <1>1, <1>4, <2>2, <2>3, FoundCause DEF LoopSound, VisitFinds
  <2>5. c \in NodeStates(Nodes(g), C) /\ c.is \in Causes
      BY <2>3, InheritedCause
  <2>6. PICK y, r : y = Settle(x, m, c) /\ r = q \cup g.successors[m]
      OBVIOUS
  <2>7. Visit(g, b, m) = [authority |-> y, queued |-> r]
      BY <1>0, <1>4, <2>0, <2>1, <2>4, <2>6 DEF Visit, VisitFinds
  <2>8. /\ y \in Authorities(g, C) /\ y.state = [st EXCEPT ![m] = c]
        /\ y.terminal = x.terminal + 1 /\ y.remaining = x.remaining /\ y.ready = x.ready
      BY <1>1, <1>2, <2>5, <2>6, SettleFields
  <2>9. DOMAIN st = Nodes(g) /\ st \in [Nodes(g) -> NodeStates(Nodes(g), C)]
      BY <1>2, AuthorityFields
  <2>10. y.state[m] = c /\ \A k \in Nodes(g) \ {m} : y.state[k] = st[k]
      BY <1>1, <2>8, <2>9
  <2>11. Inherits(g, a, n, y.state)
      BY <1>0, <2>3, <2>4, <2>10 DEF LoopSound, Inherits
  <2>12. Queues(g, a, n, y.state, r)
    <3> SUFFICES ASSUME NEW k \in Nodes(g), NEW e \in g.dependencies[k],
                        e = n \/ y.state[e] # a.state[e]
                 PROVE  k \in r
        BY DEF Queues
    <3>1. e \in Nodes(g)
        BY DEF WellFormed
    <3>2. CASE e = m
        BY <3>2, <1>1, <2>6 DEF WellFormed
    <3>3. CASE e # m
      <4>1. y.state[e] = st[e]
          BY <2>10, <3>1, <3>3
      <4> QED BY <1>0, <2>6, <4>1 DEF LoopSound, Queues
    <3> QED BY <3>2, <3>3
  <2>13. ASSUME NEW j \in 1..(i + 1)
         PROVE  SpreadTo(g, y.state, g.order[j])
    <3>1. CASE j = i + 1
        BY <1>0, <2>5, <2>10, <3>1 DEF SpreadTo
    <3>2. CASE j \in 1..i
      <4>1. /\ j \in 1..Len(g.order) /\ i + 1 \in 1..Len(g.order)
            /\ Len(g.order) \in Nat /\ j < i + 1
          BY <3>2, OrderFacts
      <4>2. g.order[j] # m /\ g.order[j] \in Nodes(g)
          BY <1>0, <4>1, OrderFacts
      <4>3. \A e \in g.dependencies[g.order[j]] : e # m /\ e \in Nodes(g)
        <5> SUFFICES ASSUME NEW e \in g.dependencies[g.order[j]]
                     PROVE  e # m /\ e \in Nodes(g)
            OBVIOUS
        <5>1. PICK p \in 1..(j - 1) : g.order[p] = e
            BY <4>1, OrderFacts
        <5>2. p \in 1..Len(g.order) /\ p # i + 1
            BY <4>1
        <5> QED BY <1>0, <4>1, <5>1, <5>2, OrderFacts
      <4>4. SpreadTo(g, st, g.order[j])
          BY <1>0, <3>2 DEF LoopSound
      <4> QED BY <2>10, <4>2, <4>3, <4>4 DEF SpreadTo
    <3> QED BY <3>1, <3>2
  <2>14. y.terminal = Cardinality(TerminalNodes(g, y.state))
    <3>1. IsTerminal(c) /\ ~ IsTerminal(st[m])
        BY <2>4, <2>5, CausesAreNotBlocked, BlockedIsNotTerminal
    <3>2. x.terminal = Cardinality(TerminalNodes(g, st))
        BY <1>0 DEF LoopSound
    <3>3. Cardinality(TerminalNodes(g, [st EXCEPT ![m] = c]))
             = Cardinality(TerminalNodes(g, st)) + 1
        BY <1>1, <2>9, <3>1, SettleCounts
    <3> QED BY <2>8, <3>2, <3>3
  <2>15. LoopSound(g, C, a, n, i + 1, [authority |-> y, queued |-> r])
      BY <1>0, <2>8, <2>11, <2>12, <2>13, <2>14 DEF LoopSound
  <2> QED BY <1>0, <2>7, <2>15
<1> QED BY <1>0, <1>3, <1>4

SpreadStep(g, b, m) == CHOOSE r \in {Visit(g, v, m) : v \in {b}} : TRUE
SpreadTrace(f, g, base, k) ==
    f = [i \in 0..k |-> IF i = 0 THEN base ELSE SpreadStep(g, f[i - 1], g.order[i])]

LEMMA SpreadTraceExists ==
    ASSUME NEW g, NEW base
    PROVE  \A k \in Nat : \E f : SpreadTrace(f, g, base, k)
<1> DEFINE S == {k \in Nat : \E f : SpreadTrace(f, g, base, k)}
<1>1. 0 \in S
  <2> DEFINE f == [i \in 0..0 |-> base]
  <2>1. SpreadTrace(f, g, base, 0)
      BY DEF SpreadTrace
  <2> QED BY <2>1
<1>2. ASSUME NEW k \in Nat, k \in S
      PROVE  k + 1 \in S
  <2>1. PICK f : SpreadTrace(f, g, base, k)
      BY <1>2
  <2> DEFINE h == [i \in 0..(k + 1) |->
                      IF i <= k THEN f[i] ELSE SpreadStep(g, f[k], g.order[k + 1])]
  <2>2. SpreadTrace(h, g, base, k + 1)
      BY <2>1 DEF SpreadTrace
  <2> QED BY <2>2
<1> QED BY <1>1, <1>2, NatInductionSet

LEMMA PropagateSound ==
    ASSUME NEW g, WellFormed(g), NEW C, NEW a, NEW n \in Nodes(g), Settled(g, C, a, n)
    PROVE  \E b : /\ LoopSound(g, C, a, n, Len(g.order), b)
                  /\ propagate_terminal_cause_from(g, a, n) = b.authority
<1> DEFINE base == [authority |-> a, queued |-> g.successors[n]]
           k == Len(g.order)
           f == CHOOSE h : SpreadTrace(h, g, base, k)
<1>1. k \in Nat
    BY OrderFacts
<1>2. SpreadTrace(f, g, base, k)
    BY <1>1, SpreadTraceExists
<1>3. propagate_terminal_cause_from(g, a, n) = f[k].authority
    BY DEF propagate_terminal_cause_from, Fold, SpreadTrace, SpreadStep
<1>4. LoopSound(g, C, a, n, 0, base)
  <2>1. Queues(g, a, n, a.state, g.successors[n])
      BY DEF Queues, WellFormed
  <2>2. Inherits(g, a, n, a.state)
      BY DEF Inherits
  <2> QED BY <2>1, <2>2 DEF LoopSound, Settled
<1> HIDE DEF f, k, base
<1> DEFINE S == {i \in Nat : i <= k => LoopSound(g, C, a, n, i, f[i])}
<1>5. 0 \in S
  <2>1. f[0] = base
      BY <1>1, <1>2 DEF SpreadTrace
  <2> QED BY <2>1, <1>4
<1>6. ASSUME NEW i \in Nat, i \in S
      PROVE  i + 1 \in S
  <2> SUFFICES ASSUME i + 1 <= k
               PROVE  LoopSound(g, C, a, n, i + 1, f[i + 1])
      OBVIOUS
  <2>1. f[i + 1] = SpreadStep(g, f[i], g.order[i + 1])
      BY <1>1, <1>2 DEF SpreadTrace
  <2>2. SpreadStep(g, f[i], g.order[i + 1]) = Visit(g, f[i], g.order[i + 1])
      BY DEF SpreadStep
  <2>3. LoopSound(g, C, a, n, i, f[i])
      BY <1>1, <1>6
  <2> QED BY <2>1, <2>2, <2>3, VisitSound DEF k
<1>7. k \in S
    BY <1>1, <1>5, <1>6, NatInductionSet
<1>8. LoopSound(g, C, a, n, k, f[k])
    BY <1>1, <1>7
<1> QED BY <1>3, <1>8 DEF k

(***************************************************************************)
(* What a change of the authority leaves alone.                            *)
(***************************************************************************)
LEMMA PropagateConsistent ==
    ASSUME NEW g, WellFormed(g), NEW C, NEW a, NEW n \in Nodes(g), Settled(g, C, a, n),
           NEW y, y = propagate_terminal_cause_from(g, a, n)
    PROVE  /\ Consistent(g, C, y) /\ y.ready = a.ready
           /\ \A m \in Nodes(g) : y.state[m] # a.state[m] =>
                 a.state[m] = Blocked /\ y.state[m].is \in Causes
<1>1. PICK b : LoopSound(g, C, a, n, Len(g.order), b) /\ y = b.authority
    BY PropagateSound
<1>2. PICK st, s : st = a.state /\ s = y.state
    OBVIOUS
<1>3. /\ y \in Authorities(g, C) /\ a \in Authorities(g, C)
      /\ y.remaining = a.remaining /\ y.ready = a.ready
    BY <1>1 DEF LoopSound, Settled
<1>4. y.terminal = Cardinality(TerminalNodes(g, s))
    BY <1>1, <1>2 DEF LoopSound
<1>5. PICK c : c = dependency_cause(st[n])
    OBVIOUS
<1>6. /\ c.is \in {"DependencyFailed", "DependencyCancelled"} /\ c.is \in Causes
      /\ c.origin = n /\ DirectCause(c) = st[n] /\ st[n].is \in Causes
    BY <1>2, <1>5, InheritedCause
<1>7. /\ c # Blocked /\ c # Succeeded /\ Blocked # Succeeded
      /\ st[n] # Blocked /\ Blocked.is \notin Causes
    BY <1>6, CausesAreNotBlocked, BlockedIsNotTerminal
<1>8. \A m \in Nodes(g) : s[m] # st[m] =>
          st[m] = Blocked /\ n \in Ancestors(g, m) /\ s[m] = c
    BY <1>1, <1>2, <1>5 DEF LoopSound, Inherits
<1>9. \A m \in Nodes(g) : g.dependencies[m] \subseteq Nodes(g)
    BY DEF WellFormed
<1>10. Follows(g, s)
  <2> SUFFICES ASSUME NEW m \in Nodes(g),
                      s[m].is \in {"Ready", "CancelRequested", "Succeeded", "Failed"},
                      NEW d \in g.dependencies[m]
               PROVE  s[d] = Succeeded
      BY DEF Follows
  <2>1. s[m] = st[m]
      BY <1>6, <1>8
  <2>2. st[d] = Succeeded /\ d \in Nodes(g)
      BY <1>2, <1>9, <2>1 DEF Settled, Follows
  <2> QED BY <1>7, <1>8, <2>2
<1>11. Spread(g, s)
  <2> SUFFICES ASSUME NEW m \in Nodes(g)
               PROVE  SpreadTo(g, s, m)
      BY DEF Spread
  <2>1. PICK i \in 1..Len(g.order) : g.order[i] = m
      BY DEF WellFormed
  <2> QED BY <1>1, <1>2, <2>1 DEF LoopSound
<1>12. Counts(g, s, y.remaining)
  <2> SUFFICES ASSUME NEW m \in Nodes(g), s[m] = Blocked
               PROVE  /\ y.remaining[m] = Cardinality(Missing(g, s, m))
                      /\ y.remaining[m] # 0
      BY DEF Counts
  <2>1. st[m] = Blocked
      BY <1>7, <1>8
  <2>2. Missing(g, s, m) = Missing(g, st, m)
      BY <1>7, <1>8, <1>9 DEF Missing
  <2> QED BY <1>2, <1>3, <2>1, <2>2 DEF Settled, Counts
<1>13. TrueCauses(g, s)
  <2> SUFFICES ASSUME NEW m \in Nodes(g)
               PROVE  /\ s[m].is \in {"Failed", "Cancelled"} => s[m].origin = m
                      /\ s[m].is \in {"DependencyFailed", "DependencyCancelled"} =>
                            /\ s[m].origin \in Ancestors(g, m)
                            /\ s[s[m].origin] = DirectCause(s[m])
      BY DEF TrueCauses
  <2>1. s[n] = st[n]
      BY <1>7, <1>8
  <2>2. CASE s[m] # st[m]
      BY <1>6, <1>8, <2>1, <2>2
  <2>3. CASE s[m] = st[m]
    <3>1. s[m].is \in {"Failed", "Cancelled"} => s[m].origin = m
        BY <1>2, <2>3 DEF Settled, TrueCauses
    <3>2. ASSUME s[m].is \in {"DependencyFailed", "DependencyCancelled"}
          PROVE  s[m].origin \in Ancestors(g, m) /\ s[s[m].origin] = DirectCause(s[m])
      <4>1. PICK o : o = st[m].origin
          OBVIOUS
      <4>2. o \in Ancestors(g, m) /\ st[o] = DirectCause(st[m])
          BY <1>2, <2>3, <3>2, <4>1 DEF Settled, TrueCauses
      <4>3. o \in Nodes(g)
          BY <4>2 DEF Ancestors
      <4>4. st[o] # Blocked
        <5>1. st[m] \in NodeStates(Nodes(g), C)
            BY <1>2, AuthorityFields DEF Settled
        <5> QED BY <2>3, <3>2, <4>2, <5>1, DirectIsNotBlocked
      <4> QED BY <1>8, <2>3, <4>1, <4>2, <4>3, <4>4
    <3> QED BY <3>1, <3>2
  <2> QED BY <2>2, <2>3
<1>14. Consistent(g, C, y)
    BY <1>2, <1>3, <1>4, <1>10, <1>11, <1>12, <1>13 DEF Consistent
<1> QED BY <1>2, <1>3, <1>6, <1>8, <1>14

(* A direct cause put on a node that is not terminal. *)
LEMMA SettleSound ==
    ASSUME NEW g, WellFormed(g), NEW C, NEW a, Consistent(g, C, a), NEW n \in Nodes(g),
           NEW x \in {"Failed", "Cancelled"}, NEW code \in C,
           a.state[n] = Blocked \/ Outstanding(a, n),
           x = "Failed" => Outstanding(a, n),
           NEW s, s = [is |-> x, origin |-> n, code |-> code]
    PROVE  Settled(g, C, Settle(a, n, s), n)
<1>1. s \in NodeStates(Nodes(g), C) /\ s.is = x /\ s.is \in Causes /\ s.origin = n
    BY StatesTyped, Names
<1>2. PICK y, st, t : y = Settle(a, n, s) /\ st = a.state /\ t = y.state
    OBVIOUS
<1>3. /\ y \in Authorities(g, C) /\ t = [st EXCEPT ![n] = s]
      /\ y.terminal = a.terminal + 1 /\ y.remaining = a.remaining
    BY <1>1, <1>2, SettleFields DEF Consistent
<1>4. st \in [Nodes(g) -> NodeStates(Nodes(g), C)]
    BY <1>2, AuthorityFields DEF Consistent
<1>5. t[n] = s /\ \A m \in Nodes(g) \ {n} : t[m] = st[m]
    BY <1>3, <1>4
<1>6. st[n].is \notin Causes /\ ~ IsTerminal(st[n]) /\ st[n] # Succeeded
    BY <1>2 DEF Outstanding, Blocked, Causes, IsTerminal, TerminalStates, Succeeded
<1>7. s # Succeeded /\ s # Blocked /\ IsTerminal(s)
    BY <1>1, CausesAreNotBlocked
<1>8. \A m \in Nodes(g) : g.dependencies[m] \subseteq Nodes(g)
    BY DEF WellFormed
<1>9. Follows(g, t)
  <2> SUFFICES ASSUME NEW m \in Nodes(g),
                      t[m].is \in {"Ready", "CancelRequested", "Succeeded", "Failed"},
                      NEW d \in g.dependencies[m]
               PROVE  t[d] = Succeeded
      BY DEF Follows
  <2>1. st[m].is \in {"Ready", "CancelRequested", "Succeeded", "Failed"}
    <3>1. CASE m = n
        BY <3>1, <1>1, <1>2, <1>5 DEF Outstanding
    <3>2. CASE m # n
        BY <3>2, <1>5
    <3> QED BY <3>1, <3>2
  <2>2. st[d] = Succeeded /\ d \in Nodes(g)
      BY <1>2, <1>8, <2>1 DEF Consistent, Follows
  <2> QED BY <1>5, <1>6, <2>2
<1>10. SpreadBut(g, t, n)
  <2> SUFFICES ASSUME NEW m \in Nodes(g), NEW d \in g.dependencies[m], d # n, t[d].is \in Causes
               PROVE  t[m].is \in Causes
      BY DEF SpreadBut
  <2>1. st[d].is \in Causes
      BY <1>5, <1>8
  <2>2. st[m].is \in Causes
      BY <1>2, <2>1 DEF Consistent, Spread, SpreadTo
  <2> QED BY <1>1, <1>5, <2>2
<1>11. Counts(g, t, y.remaining)
  <2> SUFFICES ASSUME NEW m \in Nodes(g), t[m] = Blocked
               PROVE  /\ y.remaining[m] = Cardinality(Missing(g, t, m))
                      /\ y.remaining[m] # 0
      BY DEF Counts
  <2>1. st[m] = Blocked
      BY <1>5, <1>7
  <2>2. Missing(g, t, m) = Missing(g, st, m)
      BY <1>5, <1>6, <1>7, <1>8 DEF Missing
  <2> QED BY <1>2, <1>3, <2>1, <2>2 DEF Consistent, Counts
<1>12. TrueCauses(g, t)
  <2> SUFFICES ASSUME NEW m \in Nodes(g)
               PROVE  /\ t[m].is \in {"Failed", "Cancelled"} => t[m].origin = m
                      /\ t[m].is \in {"DependencyFailed", "DependencyCancelled"} =>
                            /\ t[m].origin \in Ancestors(g, m)
                            /\ t[t[m].origin] = DirectCause(t[m])
      BY DEF TrueCauses
  <2>1. CASE m = n
      BY <1>1, <1>5, <2>1
  <2>2. CASE m # n
    <3>0. t[m] = st[m]
        BY <1>5, <2>2
    <3>1. t[m].is \in {"Failed", "Cancelled"} => t[m].origin = m
        BY <1>2, <3>0 DEF Consistent, TrueCauses
    <3>2. ASSUME t[m].is \in {"DependencyFailed", "DependencyCancelled"}
          PROVE  t[m].origin \in Ancestors(g, m) /\ t[t[m].origin] = DirectCause(t[m])
      <4>1. PICK o : o = st[m].origin
          OBVIOUS
      <4>2. o \in Ancestors(g, m) /\ st[o] = DirectCause(st[m])
          BY <1>2, <3>0, <3>2, <4>1 DEF Consistent, TrueCauses
      <4>3. o \in Nodes(g)
          BY <4>2 DEF Ancestors
      <4>4. o # n
        <5>1. st[m] \in NodeStates(Nodes(g), C)
            BY <1>4
        <5>2. st[o].is \in Causes
            BY <3>0, <3>2, <4>2, <5>1, DirectIsNotBlocked
        <5> QED BY <1>6, <5>2
      <4> QED BY <1>5, <3>0, <4>1, <4>2, <4>3, <4>4
    <3> QED BY <3>1, <3>2
  <2> QED BY <2>1, <2>2
<1>13. y.terminal = Cardinality(TerminalNodes(g, t))
  <2>1. Cardinality(TerminalNodes(g, [st EXCEPT ![n] = s]))
           = Cardinality(TerminalNodes(g, st)) + 1
    <3>1. DOMAIN st = Nodes(g)
        BY <1>4
    <3> QED BY <3>1, <1>6, <1>7, SettleCounts
  <2> QED BY <1>2, <1>3, <2>1 DEF Consistent
<1>14. t[n].is \in {"Failed", "Cancelled"}
    BY <1>1, <1>5
<1> QED BY <1>2, <1>3, <1>9, <1>10, <1>11, <1>12, <1>13, <1>14 DEF Settled

(***************************************************************************)
(* Readiness: the queue of an authority, with the notifications popped     *)
(* before.                                                                 *)
(***************************************************************************)
Notices(g, a, notices) ==
    /\ notices \in Seq(Nodes(g))
    /\ \A i, j \in 1..Len(notices) : notices[i] = notices[j] => i = j
    /\ \A i \in 1..Len(notices) : a.state[notices[i]] # Blocked
    /\ \A n \in Nodes(g) : Outstanding(a, n) => \E i \in 1..Len(notices) : notices[i] = n

(* A step that makes no node ready and blocks none. *)
LEMMA NoticesStay ==
    ASSUME NEW g, NEW a, NEW y, NEW notices, Notices(g, a, notices),
           \A m \in Nodes(g) : Outstanding(y, m) => Outstanding(a, m),
           \A m \in Nodes(g) : y.state[m] = Blocked => a.state[m] = Blocked
    PROVE  Notices(g, y, notices)
<1>1. Len(notices) \in Nat /\ \A i \in 1..Len(notices) : notices[i] \in Nodes(g)
    BY DEF Notices
<1> QED BY <1>1 DEF Notices

(* The ascending sequence of a set of nodes. *)
LEMMA NodesUpTo ==
    ASSUME NEW g, WellFormed(g), NEW S, S \subseteq Nodes(g)
    PROVE  /\ Ascending(S) \in Seq(S)
           /\ \A i, j \in 1..Len(Ascending(S)) :
                 Ascending(S)[i] = Ascending(S)[j] => i = j
           /\ \A x \in S : \E i \in 1..Len(Ascending(S)) : Ascending(S)[i] = x
<1>1. PICK k \in Nat : Nodes(g) = 1..k
    BY DEF WellFormed
<1>2. PICK s : s = Ascending(S)
    OBVIOUS
<1>3. /\ s \in Seq(S)
      /\ \A i, j \in DOMAIN s : s[i] = s[j] => i = j
      /\ \A x \in S : \E i \in DOMAIN s : s[i] = x
    BY <1>1, <1>2, AscendingIsExact
<1>4. DOMAIN s = 1..Len(s)
    BY <1>3
<1> QED BY <1>2, <1>3, <1>4

(* A step that makes the nodes of F ready and queues them. *)
LEMMA NoticesGrow ==
    ASSUME NEW g, WellFormed(g), NEW a, NEW y, NEW notices, Notices(g, a, notices),
           NEW F, F \subseteq Nodes(g), \A m \in F : a.state[m] = Blocked /\ y.state[m] = Ready,
           \A m \in Nodes(g) \ F : Outstanding(y, m) => Outstanding(a, m),
           \A m \in Nodes(g) \ F : y.state[m] = Blocked => a.state[m] = Blocked
    PROVE  Notices(g, y, notices \o Ascending(F))
<1>1. PICK s, k, l : s = Ascending(F) /\ k = Len(notices) /\ l = Len(s)
    OBVIOUS
<1>2. /\ s \in Seq(F) /\ \A i, j \in 1..l : s[i] = s[j] => i = j
      /\ \A x \in F : \E i \in 1..l : s[i] = x
    BY <1>1, NodesUpTo, SMTT(30)
<1>3. notices \in Seq(Nodes(g)) /\ s \in Seq(Nodes(g))
    BY <1>2 DEF Notices
<1>4. PICK t : t = notices \o s
    OBVIOUS
<1>5. k \in Nat /\ l \in Nat /\ t \in Seq(Nodes(g)) /\ Len(t) = k + l
    BY <1>1, <1>3, <1>4
<1>6. /\ \A i \in 1..k : t[i] = notices[i] /\ notices[i] \in Nodes(g)
      /\ \A i \in 1..l : t[k + i] = s[i] /\ s[i] \in F
    BY <1>1, <1>2, <1>3, <1>4, SMTT(30)
<1>7. \A i \in 1..(k + l) : i \in 1..k \/ (i - k \in 1..l /\ t[i] = s[i - k])
  <2> SUFFICES ASSUME NEW i \in 1..(k + l), i \notin 1..k
               PROVE  i - k \in 1..l /\ t[i] = s[i - k]
      OBVIOUS
  <2>1. i - k \in 1..l /\ k + (i - k) = i
      BY <1>5
  <2> QED BY <2>1, <1>6
<1>8. \A i \in 1..k : a.state[notices[i]] # Blocked /\ notices[i] \notin F
    BY <1>1 DEF Notices
<1>9. ASSUME NEW i \in 1..(k + l), NEW j \in 1..(k + l), t[i] = t[j]
      PROVE  i = j
  <2>1. CASE i \in 1..k /\ j \in 1..k
      BY <1>1, <1>6, <1>9, <2>1 DEF Notices
  <2>2. CASE i \in 1..k /\ j \notin 1..k
      BY <1>6, <1>7, <1>8, <1>9, <2>2
  <2>3. CASE i \notin 1..k /\ j \in 1..k
      BY <1>6, <1>7, <1>8, <1>9, <2>3
  <2>4. CASE i \notin 1..k /\ j \notin 1..k
    <3>1. i - k = j - k
        BY <1>2, <1>7, <1>9, <2>4
    <3> QED BY <1>5, <3>1
  <2> QED BY <2>1, <2>2, <2>3, <2>4
<1>10. ASSUME NEW i \in 1..(k + l)
       PROVE  y.state[t[i]] # Blocked
  <2>1. CASE i \in 1..k
      BY <1>6, <1>8, <2>1
  <2>2. CASE i \notin 1..k
    <3>1. t[i] \in F
        BY <1>6, <1>7, <2>2
    <3> QED BY <3>1 DEF Blocked, Ready
  <2> QED BY <2>1, <2>2
<1>11. ASSUME NEW n \in Nodes(g), Outstanding(y, n)
       PROVE  \E i \in 1..(k + l) : t[i] = n
  <2>1. CASE n \in F
    <3>1. PICK i \in 1..l : s[i] = n
        BY <1>2, <2>1
    <3>2. t[k + i] = n /\ k + i \in 1..(k + l)
        BY <1>5, <1>6, <3>1
    <3> QED BY <3>2
  <2>2. CASE n \notin F
    <3>1. PICK i \in 1..k : notices[i] = n
        BY <1>1, <1>11, <2>2 DEF Notices
    <3>2. t[i] = n /\ i \in 1..(k + l)
        BY <1>5, <1>6, <3>1
    <3> QED BY <3>2
  <2> QED BY <2>1, <2>2
<1> QED BY <1>1, <1>4, <1>5, <1>9, <1>10, <1>11 DEF Notices

(* A new authority. *)
LEMMA NewAuthoritySound ==
    ASSUME NEW g, WellFormed(g), NEW C
    PROVE  Consistent(g, C, NewAuthority(g)) /\ Notices(g, NewAuthority(g), NewAuthority(g).ready)
<1>1. PICK a, st, R : /\ a = NewAuthority(g) /\ st = a.state
                      /\ R = {n \in Nodes(g) : Cardinality(g.dependencies[n]) = 0}
    OBVIOUS
<1>2. /\ a.remaining = [n \in Nodes(g) |-> Cardinality(g.dependencies[n])]
      /\ st = [n \in Nodes(g) |-> IF Cardinality(g.dependencies[n]) = 0 THEN Ready ELSE Blocked]
      /\ a.terminal = 0
    BY <1>1 DEF NewAuthority
<1>3. a.ready = Ascending(R)
    BY <1>1 DEF NewAuthority
<1>4. \A n \in Nodes(g) : st[n] = IF n \in R THEN Ready ELSE Blocked
    BY <1>1, <1>2
<1>5. /\ Ready # Succeeded /\ Blocked # Succeeded /\ Ready # Blocked
      /\ Ready.is = "Ready" /\ Blocked.is = "Blocked"
      /\ ~ IsTerminal(Ready) /\ ~ IsTerminal(Blocked)
    BY DEF Ready, Blocked, Succeeded, IsTerminal, TerminalStates
<1>6. \A n \in R : g.dependencies[n] = {}
  <2> SUFFICES ASSUME NEW n \in R
               PROVE  g.dependencies[n] = {}
      OBVIOUS
  <2>1. IsFiniteSet(g.dependencies[n]) /\ Cardinality(g.dependencies[n]) = 0
      BY <1>1, NodesFinite DEF WellFormed
  <2> QED BY <2>1, FS_EmptySet
<1>7. a \in Authorities(g, C)
  <2>1. st \in [Nodes(g) -> NodeStates(Nodes(g), C)]
    <3>1. Ready \in NodeStates(Nodes(g), C) /\ Blocked \in NodeStates(Nodes(g), C)
        BY DEF NodeStates, Ready, Blocked
    <3> QED BY <1>2, <3>1
  <2>2. a.remaining \in [Nodes(g) -> 0..2]
      BY <1>2 DEF WellFormed
  <2>3. a.ready \in Seq(Nodes(g))
    <3>1. R \subseteq Nodes(g)
        BY <1>1
    <3>2. Ascending(R) \in Seq(R)
        BY <3>1, NodesUpTo
    <3> QED BY <1>3, <3>1, <3>2
  <2>4. a = [state |-> a.state, remaining |-> a.remaining, terminal |-> a.terminal,
             ready |-> a.ready]
      BY <1>1 DEF NewAuthority
  <2> QED BY <1>1, <1>2, <2>1, <2>2, <2>3, <2>4 DEF Authorities
<1>8. Follows(g, st)
    BY <1>4, <1>5, <1>6 DEF Follows
<1>9. Spread(g, st) /\ TrueCauses(g, st)
  <2>1. \A n \in Nodes(g) : st[n].is \notin Causes
      BY <1>4, <1>5, Names
  <2>2. \A n \in Nodes(g) : \A d \in g.dependencies[n] : d \in Nodes(g)
      BY DEF WellFormed
  <2> QED BY <2>1, <2>2, Names DEF Spread, SpreadTo, TrueCauses
<1>10. Counts(g, st, a.remaining)
  <2> SUFFICES ASSUME NEW n \in Nodes(g), st[n] = Blocked
               PROVE  /\ a.remaining[n] = Cardinality(Missing(g, st, n))
                      /\ a.remaining[n] # 0
      BY DEF Counts
  <2>1. n \notin R
      BY <1>4, <1>5
  <2>2. Missing(g, st, n) = g.dependencies[n]
      BY <1>4, <1>5 DEF Missing, WellFormed
  <2> QED BY <1>1, <1>2, <2>1, <2>2
<1>11. a.terminal = Cardinality(TerminalNodes(g, st))
  <2>1. TerminalNodes(g, st) = {}
      BY <1>4, <1>5 DEF TerminalNodes
  <2> QED BY <1>2, <2>1, FS_EmptySet
<1>12. Notices(g, a, a.ready)
  <2>1. PICK s : s = a.ready
      OBVIOUS
  <2>2. /\ s \in Seq(R) /\ R \subseteq Nodes(g)
        /\ \A i, j \in 1..Len(s) : s[i] = s[j] => i = j
        /\ \A x \in R : \E i \in 1..Len(s) : s[i] = x
    <3>1. R \subseteq Nodes(g)
        BY <1>1
    <3> QED BY <1>3, <2>1, <3>1, NodesUpTo
  <2>3. \A i \in 1..Len(s) : s[i] \in R
      BY <2>2
  <2>4. \A i \in 1..Len(s) : a.state[s[i]] # Blocked
      BY <1>1, <1>4, <1>5, <2>2, <2>3
  <2>5. \A n \in Nodes(g) : Outstanding(a, n) => n \in R
      BY <1>1, <1>4, <1>5 DEF Outstanding
  <2>6. s \in Seq(Nodes(g))
      BY <2>2
  <2> QED BY <2>1, <2>2, <2>4, <2>5, <2>6 DEF Notices
<1> QED BY <1>1, <1>7, <1>8, <1>9, <1>10, <1>11, <1>12 DEF Consistent

(***************************************************************************)
(* Success.                                                                *)
(***************************************************************************)
LEMMA MissingLosesOne ==
    ASSUME NEW g, WellFormed(g), NEW st, NEW t, NEW n \in Nodes(g), NEW m \in Nodes(g),
           n \in g.dependencies[m], st[n] # Succeeded, t[n] = Succeeded,
           \A d \in Nodes(g) \ {n} : t[d] = Succeeded <=> st[d] = Succeeded
    PROVE  Cardinality(Missing(g, t, m)) = Cardinality(Missing(g, st, m)) - 1
<1>1. g.dependencies[m] \subseteq Nodes(g)
    BY DEF WellFormed
<1>2. Missing(g, t, m) = Missing(g, st, m) \ {n} /\ n \in Missing(g, st, m)
    BY <1>1 DEF Missing
<1>3. IsFiniteSet(Missing(g, st, m))
    BY <1>1, NodesFinite DEF Missing
<1> QED BY <1>2, <1>3, FS_RemoveElement

LEMMA ReleaseFields ==
    ASSUME NEW g, NEW C, NEW a \in Authorities(g, C), NEW n \in Nodes(g),
           NEW W, W = Waiting(g, a, n), NEW F, F = Freed(g, a, n),
           F \subseteq Nodes(g), Ascending(F) \in Seq(F),
           \A m \in W : m \in Nodes(g) /\ a.remaining[m] # 0,
           NEW y, y = release_successors(g, a, n)
    PROVE  /\ y \in Authorities(g, C)
           /\ \A m \in Nodes(g) :
                 /\ y.state[m] = IF m \in F THEN Ready ELSE a.state[m]
                 /\ y.remaining[m] =
                       IF m \in W THEN a.remaining[m] - 1 ELSE a.remaining[m]
           /\ y.terminal = a.terminal
           /\ y.ready = a.ready \o Ascending(F)
<1>1. PICK s, r, q :
          /\ s = [m \in Nodes(g) |-> IF m \in F THEN Ready ELSE a.state[m]]
          /\ r = [m \in Nodes(g) |-> IF m \in W THEN a.remaining[m] - 1 ELSE a.remaining[m]]
          /\ q = a.ready \o Ascending(F)
    OBVIOUS
<1>2. s \in [Nodes(g) -> NodeStates(Nodes(g), C)]
  <2>1. Ready \in NodeStates(Nodes(g), C)
      BY DEF NodeStates, Ready
  <2> QED BY <1>1, <2>1, AuthorityFields
<1>3. r \in [Nodes(g) -> 0..2]
  <2>1. \A m \in Nodes(g) : a.remaining[m] \in 0..2
      BY AuthorityFields
  <2>2. \A m \in Nodes(g) : m \in W => a.remaining[m] - 1 \in 0..2
      BY <2>1
  <2> QED BY <1>1, <2>1, <2>2
<1>4. q \in Seq(Nodes(g))
  <2>1. a.ready \in Seq(Nodes(g)) /\ Ascending(F) \in Seq(Nodes(g))
      BY AuthorityFields
  <2> QED BY <1>1, <2>1
<1>5. release_successors(g, a, n) = WithReady(WithState(WithRemaining(a, r), s), q)
    BY <1>1 DEF release_successors, WithReady, WithState, WithRemaining
<1>6. PICK b, c : b = WithRemaining(a, r) /\ c = WithState(b, s)
    OBVIOUS
<1>7. b \in Authorities(g, C)
    BY <1>3, <1>6, OneField
<1>8. c \in Authorities(g, C)
    BY <1>2, <1>6, <1>7, OneField
<1>9. WithReady(c, q) \in Authorities(g, C)
    BY <1>4, <1>8, OneField
<1>10. b.remaining = r /\ b.terminal = a.terminal
    BY <1>6 DEF WithRemaining, Authorities
<1>11. c.state = s /\ c.remaining = r /\ c.terminal = a.terminal
    BY <1>6, <1>7, <1>10 DEF WithState, Authorities
<1>12. /\ WithReady(c, q).state = s /\ WithReady(c, q).remaining = r
       /\ WithReady(c, q).terminal = a.terminal /\ WithReady(c, q).ready = q
    BY <1>8, <1>11 DEF WithReady, Authorities
<1>13. y = WithReady(c, q)
    BY <1>5, <1>6
<1>14. y \in Authorities(g, C) /\ y.state = s /\ y.remaining = r
    BY <1>9, <1>12, <1>13
<1>15. y.terminal = a.terminal /\ y.ready = a.ready \o Ascending(F)
    BY <1>1, <1>12, <1>13
<1>16. \A m \in Nodes(g) : y.state[m] = IF m \in F THEN Ready ELSE a.state[m]
    BY <1>1, <1>14
<1>17. \A m \in Nodes(g) :
          y.remaining[m] = IF m \in W THEN a.remaining[m] - 1 ELSE a.remaining[m]
    BY <1>1, <1>14
<1> QED BY <1>14, <1>15, <1>16, <1>17

(***************************************************************************)
(* The transitions keep an authority consistent, and its notices.          *)
(***************************************************************************)
LEMMA SucceedSound ==
    ASSUME NEW g, WellFormed(g), NEW C, NEW a, Consistent(g, C, a), NEW n \in Nodes(g),
           Outstanding(a, n)
    PROVE  /\ Consistent(g, C, mark_succeeded(g, a, n))
           /\ \E F : /\ F \subseteq Nodes(g) /\ Ascending(F) \in Seq(F)
                     /\ \A m \in F : /\ a.state[m] = Blocked
                                     /\ mark_succeeded(g, a, n).state[m] = Ready
                     /\ \A m \in Nodes(g) \ F :
                           mark_succeeded(g, a, n).state[m] =
                              IF m = n THEN Succeeded ELSE a.state[m]
                     /\ mark_succeeded(g, a, n).ready = a.ready \o Ascending(F)
<1>1. PICK b, W, F, y : /\ b = Settle(a, n, Succeeded) /\ W = Waiting(g, b, n)
                        /\ F = Freed(g, b, n) /\ y = mark_succeeded(g, a, n)
    OBVIOUS
<1>2. PICK st, t, u : st = a.state /\ t = b.state /\ u = y.state
    OBVIOUS
<1>3. a \in Authorities(g, C) /\ st \in [Nodes(g) -> NodeStates(Nodes(g), C)]
    BY <1>2, AuthorityFields DEF Consistent
<1>4. Succeeded \in NodeStates(Nodes(g), C)
    BY DEF NodeStates, Succeeded
<1>5. /\ b \in Authorities(g, C) /\ t = [st EXCEPT ![n] = Succeeded]
      /\ b.terminal = a.terminal + 1 /\ b.remaining = a.remaining /\ b.ready = a.ready
    BY <1>1, <1>2, <1>3, <1>4, SettleFields
<1>6. t[n] = Succeeded /\ \A m \in Nodes(g) \ {n} : t[m] = st[m]
    BY <1>3, <1>5
<1>7. /\ Succeeded # Blocked /\ Succeeded # Ready /\ Ready # Blocked
      /\ Ready.is = "Ready" /\ Succeeded.is = "Succeeded" /\ Blocked.is = "Blocked"
      /\ ~ IsTerminal(Ready) /\ ~ IsTerminal(Blocked) /\ IsTerminal(Succeeded)
    BY DEF Succeeded, Blocked, Ready, IsTerminal, TerminalStates
<1>8. st[n].is \notin Causes /\ ~ IsTerminal(st[n]) /\ st[n] # Succeeded /\ st[n] # Blocked
    BY <1>2 DEF Outstanding, Blocked, Causes, IsTerminal, TerminalStates, Succeeded
<1>9. W = {m \in Nodes(g) : n \in g.dependencies[m] /\ t[m] = Blocked}
    BY <1>1, <1>2 DEF Waiting, WellFormed
<1>10. F = {m \in W : a.remaining[m] = 1}
    BY <1>1, <1>5 DEF Freed
<1>11. \A m \in Nodes(g) : g.dependencies[m] \subseteq Nodes(g)
    BY DEF WellFormed
<1>12. \A m \in Nodes(g) : t[m] = Blocked => m # n /\ st[m] = Blocked
    BY <1>6, <1>7
<1>13. ASSUME NEW m \in Nodes(g), st[m] = Blocked
       PROVE  /\ a.remaining[m] = Cardinality(Missing(g, st, m)) /\ a.remaining[m] # 0
              /\ a.remaining[m] \in 0..2
    BY <1>2, <1>3, <1>13, AuthorityFields DEF Consistent, Counts
<1>14. F \subseteq Nodes(g) /\ \A m \in W : m \in Nodes(g) /\ b.remaining[m] # 0
    BY <1>5, <1>9, <1>10, <1>12, <1>13
<1>15. Ascending(F) \in Seq(F)
    BY <1>14, NodesUpTo
<1>16. /\ y \in Authorities(g, C)
       /\ \A m \in Nodes(g) :
             /\ u[m] = IF m \in F THEN Ready ELSE t[m]
             /\ y.remaining[m] = IF m \in W THEN b.remaining[m] - 1 ELSE b.remaining[m]
       /\ y.terminal = b.terminal /\ y.ready = b.ready \o Ascending(F)
  <2>1. y = release_successors(g, b, n)
      BY <1>1 DEF mark_succeeded
  <2>2. /\ b \in Authorities(g, C) /\ W = Waiting(g, b, n) /\ F = Freed(g, b, n)
        /\ F \subseteq Nodes(g) /\ Ascending(F) \in Seq(F)
        /\ \A m \in W : m \in Nodes(g) /\ b.remaining[m] # 0
      BY <1>1, <1>5, <1>14, <1>15
  <2>3. /\ y \in Authorities(g, C)
        /\ \A m \in Nodes(g) :
             /\ y.state[m] = IF m \in F THEN Ready ELSE b.state[m]
             /\ y.remaining[m] = IF m \in W THEN b.remaining[m] - 1 ELSE b.remaining[m]
        /\ y.terminal = b.terminal /\ y.ready = b.ready \o Ascending(F)
      BY <2>1, <2>2, ReleaseFields
  <2> QED BY <1>2, <2>3
<1>17. /\ \A m \in F : u[m] = Ready /\ t[m] = Blocked /\ st[m] = Blocked /\ m # n
       /\ \A m \in Nodes(g) \ F : u[m] = t[m]
    BY <1>9, <1>10, <1>12, <1>14, <1>16
<1>18. \A m \in Nodes(g) : u[m] = Succeeded <=> t[m] = Succeeded
    BY <1>7, <1>17
<1>19. \A m \in Nodes(g) : Missing(g, u, m) = Missing(g, t, m)
    BY <1>11, <1>18 DEF Missing
<1>20. ASSUME NEW m \in W
       PROVE  Cardinality(Missing(g, t, m)) = Cardinality(Missing(g, st, m)) - 1
  <2>1. m \in Nodes(g) /\ n \in g.dependencies[m]
      BY <1>9
  <2>2. \A d \in Nodes(g) \ {n} : t[d] = Succeeded <=> st[d] = Succeeded
      BY <1>6
  <2> QED BY <1>6, <1>8, <2>1, <2>2, MissingLosesOne
<1>21. \A m \in Nodes(g) : st[m] = Succeeded => u[m] = Succeeded
    BY <1>6, <1>18
<1>22. Follows(g, u)
  <2> SUFFICES ASSUME NEW m \in Nodes(g),
                      u[m].is \in {"Ready", "CancelRequested", "Succeeded", "Failed"},
                      NEW d \in g.dependencies[m]
               PROVE  u[d] = Succeeded
      BY DEF Follows
  <2>1. CASE m \in F
    <3>1. m \in W /\ a.remaining[m] = 1 /\ st[m] = Blocked
        BY <1>10, <1>17, <2>1
    <3>2. Cardinality(Missing(g, u, m)) = 0
        BY <1>13, <1>19, <1>20, <3>1
    <3>3. IsFiniteSet(Missing(g, u, m))
        BY <1>11, NodesFinite DEF Missing
    <3>4. Missing(g, u, m) = {}
        BY <3>2, <3>3, FS_EmptySet
    <3> QED BY <3>4 DEF Missing
  <2>2. CASE m \notin F
    <3>1. st[m].is \in {"Ready", "CancelRequested", "Succeeded", "Failed"}
        BY <1>2, <1>6, <1>17, <2>2 DEF Outstanding
    <3>2. st[d] = Succeeded /\ d \in Nodes(g)
        BY <1>2, <1>11, <3>1 DEF Consistent, Follows
    <3> QED BY <1>21, <3>2
  <2> QED BY <2>1, <2>2
<1>23. \A m \in Nodes(g) : u[m].is \in Causes <=> st[m].is \in Causes
    BY <1>6, <1>7, <1>8, <1>17, Names
<1>24. \A m \in Nodes(g) : st[m].is \in Causes => u[m] = st[m]
    BY <1>6, <1>7, <1>8, <1>17, BlockedIsNotTerminal
<1>25. Spread(g, u)
    BY <1>2, <1>11, <1>23 DEF Consistent, Spread, SpreadTo
<1>26. Counts(g, u, y.remaining)
  <2> SUFFICES ASSUME NEW m \in Nodes(g), u[m] = Blocked
               PROVE  /\ y.remaining[m] = Cardinality(Missing(g, u, m))
                      /\ y.remaining[m] # 0
      BY DEF Counts
  <2>1. m \notin F /\ t[m] = Blocked /\ st[m] = Blocked
      BY <1>7, <1>12, <1>17
  <2>2. CASE m \in W
    <3>1. y.remaining[m] = a.remaining[m] - 1 /\ a.remaining[m] # 1
        BY <1>5, <1>10, <1>16, <2>1, <2>2
    <3> QED BY <1>13, <1>19, <1>20, <2>1, <2>2, <3>1
  <2>3. CASE m \notin W
    <3>1. y.remaining[m] = a.remaining[m]
        BY <1>5, <1>16, <2>3
    <3>2. n \notin g.dependencies[m]
        BY <1>9, <2>1, <2>3
    <3>3. Missing(g, t, m) = Missing(g, st, m)
        BY <1>6, <1>11, <3>2 DEF Missing
    <3> QED BY <1>13, <1>19, <2>1, <3>1, <3>3
  <2> QED BY <2>2, <2>3
<1>27. TrueCauses(g, u)
  <2> SUFFICES ASSUME NEW m \in Nodes(g), u[m].is \in Causes
               PROVE  /\ u[m].is \in {"Failed", "Cancelled"} => u[m].origin = m
                      /\ u[m].is \in {"DependencyFailed", "DependencyCancelled"} =>
                            /\ u[m].origin \in Ancestors(g, m)
                            /\ u[u[m].origin] = DirectCause(u[m])
      BY Names DEF TrueCauses
  <2>1. u[m] = st[m]
      BY <1>23, <1>24
  <2>2. u[m].is \in {"Failed", "Cancelled"} => u[m].origin = m
      BY <1>2, <2>1 DEF Consistent, TrueCauses
  <2>3. ASSUME u[m].is \in {"DependencyFailed", "DependencyCancelled"}
        PROVE  u[m].origin \in Ancestors(g, m) /\ u[u[m].origin] = DirectCause(u[m])
    <3>1. PICK o : o = st[m].origin
        OBVIOUS
    <3>2. o \in Ancestors(g, m) /\ st[o] = DirectCause(st[m])
        BY <1>2, <2>1, <2>3, <3>1 DEF Consistent, TrueCauses
    <3>3. o \in Nodes(g)
        BY <3>2 DEF Ancestors
    <3>4. st[o].is \in Causes
      <4>1. st[m] \in NodeStates(Nodes(g), C)
          BY <1>3
      <4> QED BY <2>1, <2>3, <3>2, <4>1, DirectIsNotBlocked
    <3> QED BY <1>24, <2>1, <3>1, <3>2, <3>3, <3>4
  <2> QED BY <2>2, <2>3
<1>28. y.terminal = Cardinality(TerminalNodes(g, u))
  <2>1. TerminalNodes(g, u) = TerminalNodes(g, t)
      BY <1>7, <1>17 DEF TerminalNodes
  <2>2. Cardinality(TerminalNodes(g, [st EXCEPT ![n] = Succeeded]))
           = Cardinality(TerminalNodes(g, st)) + 1
    <3>1. DOMAIN st = Nodes(g)
        BY <1>3
    <3> QED BY <3>1, <1>7, <1>8, SettleCounts
  <2>3. a.terminal = Cardinality(TerminalNodes(g, st))
      BY <1>2 DEF Consistent
  <2> QED BY <1>5, <1>16, <2>1, <2>2, <2>3
<1>29. Consistent(g, C, y)
    BY <1>2, <1>16, <1>22, <1>25, <1>26, <1>27, <1>28 DEF Consistent
<1>30. /\ \A m \in F : a.state[m] = Blocked /\ y.state[m] = Ready
       /\ \A m \in Nodes(g) \ F : y.state[m] = IF m = n THEN Succeeded ELSE a.state[m]
       /\ y.ready = a.ready \o Ascending(F)
    BY <1>2, <1>5, <1>6, <1>16, <1>17
<1> QED BY <1>1, <1>14, <1>15, <1>29, <1>30

LEMMA RequestSound ==
    ASSUME NEW g, WellFormed(g), NEW C, NEW a, Consistent(g, C, a), NEW n \in Nodes(g),
           a.state[n] = Ready, NEW code \in C,
           NEW y, y = request_cancel(a, n, code)
    PROVE  /\ Consistent(g, C, y) /\ y.ready = a.ready
           /\ y.state[n].is = "CancelRequested"
           /\ \A m \in Nodes(g) \ {n} : y.state[m] = a.state[m]
<1>0. PICK s : s = [is |-> "CancelRequested", origin |-> 0, code |-> code]
    OBVIOUS
<1>1. s \in NodeStates(Nodes(g), C) /\ s.is = "CancelRequested"
    BY <1>0, StatesTyped
<1>2. PICK st, t : st = a.state /\ t = y.state
    OBVIOUS
<1>3. a \in Authorities(g, C) /\ st \in [Nodes(g) -> NodeStates(Nodes(g), C)]
    BY <1>2, AuthorityFields DEF Consistent
<1>4. y = WithState(a, [st EXCEPT ![n] = s])
    BY <1>0, <1>2 DEF request_cancel, WithState
<1>5. y \in Authorities(g, C)
    BY <1>1, <1>3, <1>4, OneField
<1>6. /\ t = [st EXCEPT ![n] = s] /\ y.remaining = a.remaining
      /\ y.terminal = a.terminal /\ y.ready = a.ready
    BY <1>2, <1>3, <1>4 DEF WithState, Authorities
<1>7. t[n] = s /\ \A m \in Nodes(g) \ {n} : t[m] = st[m]
    BY <1>3, <1>6
<1>8. /\ s # Succeeded /\ s # Blocked /\ s.is \notin Causes /\ ~ IsTerminal(s)
      /\ st[n] # Succeeded /\ st[n] # Blocked /\ st[n].is \notin Causes /\ ~ IsTerminal(st[n])
      /\ st[n].is = "Ready"
    BY <1>1, <1>2 DEF Succeeded, Blocked, Ready, Causes, IsTerminal, TerminalStates
<1>9. \A m \in Nodes(g) : g.dependencies[m] \subseteq Nodes(g)
    BY DEF WellFormed
<1>10. Follows(g, t)
  <2> SUFFICES ASSUME NEW m \in Nodes(g),
                      t[m].is \in {"Ready", "CancelRequested", "Succeeded", "Failed"},
                      NEW d \in g.dependencies[m]
               PROVE  t[d] = Succeeded
      BY DEF Follows
  <2>1. st[m].is \in {"Ready", "CancelRequested", "Succeeded", "Failed"}
      BY <1>7, <1>8
  <2>2. st[d] = Succeeded /\ d \in Nodes(g)
      BY <1>2, <1>9, <2>1 DEF Consistent, Follows
  <2> QED BY <1>7, <1>8, <2>2
<1>11. Spread(g, t)
  <2>1. \A m \in Nodes(g) : t[m].is \in Causes <=> st[m].is \in Causes
      BY <1>7, <1>8
  <2> QED BY <1>2, <1>9, <2>1 DEF Consistent, Spread, SpreadTo
<1>12. Counts(g, t, y.remaining)
  <2>1. \A m \in Nodes(g) : t[m] = Blocked <=> st[m] = Blocked
      BY <1>7, <1>8
  <2>2. \A m \in Nodes(g) : Missing(g, t, m) = Missing(g, st, m)
      BY <1>7, <1>8, <1>9 DEF Missing
  <2> QED BY <1>2, <1>6, <2>1, <2>2 DEF Consistent, Counts
<1>13. TrueCauses(g, t)
  <2> SUFFICES ASSUME NEW m \in Nodes(g), t[m].is \in Causes
               PROVE  /\ t[m].is \in {"Failed", "Cancelled"} => t[m].origin = m
                      /\ t[m].is \in {"DependencyFailed", "DependencyCancelled"} =>
                            /\ t[m].origin \in Ancestors(g, m)
                            /\ t[t[m].origin] = DirectCause(t[m])
      BY Names DEF TrueCauses
  <2>1. t[m] = st[m]
      BY <1>7, <1>8
  <2>2. t[m].is \in {"Failed", "Cancelled"} => t[m].origin = m
      BY <1>2, <2>1 DEF Consistent, TrueCauses
  <2>3. ASSUME t[m].is \in {"DependencyFailed", "DependencyCancelled"}
        PROVE  t[m].origin \in Ancestors(g, m) /\ t[t[m].origin] = DirectCause(t[m])
    <3>1. PICK o : o = st[m].origin
        OBVIOUS
    <3>2. o \in Ancestors(g, m) /\ st[o] = DirectCause(st[m])
        BY <1>2, <2>1, <2>3, <3>1 DEF Consistent, TrueCauses
    <3>3. o \in Nodes(g)
        BY <3>2 DEF Ancestors
    <3>4. o # n
      <4>1. st[m] \in NodeStates(Nodes(g), C)
          BY <1>3
      <4>2. st[o].is \in Causes
          BY <2>1, <2>3, <3>2, <4>1, DirectIsNotBlocked
      <4> QED BY <1>8, <4>2
    <3> QED BY <1>7, <2>1, <3>1, <3>2, <3>3, <3>4
  <2> QED BY <2>2, <2>3
<1>14. y.terminal = Cardinality(TerminalNodes(g, t))
  <2>1. TerminalNodes(g, t) = TerminalNodes(g, st)
      BY <1>7, <1>8 DEF TerminalNodes
  <2> QED BY <1>2, <1>6, <2>1 DEF Consistent
<1>15. Consistent(g, C, y)
    BY <1>2, <1>5, <1>10, <1>11, <1>12, <1>13, <1>14 DEF Consistent
<1> QED BY <1>1, <1>2, <1>6, <1>7, <1>15

(* What a failure or a cancellation of node n does. *)
Caused(g, C, a, n, y) ==
    /\ Consistent(g, C, y) /\ y.ready = a.ready
    /\ y.state[n].is \in {"Failed", "Cancelled"}
    /\ \A m \in Nodes(g) \ {n} : y.state[m] # a.state[m] =>
          a.state[m] = Blocked /\ y.state[m].is \in Causes

LEMMA CauseSound ==
    ASSUME NEW g, WellFormed(g), NEW C, NEW a, Consistent(g, C, a), NEW n \in Nodes(g),
           NEW x \in {"Failed", "Cancelled"}, NEW code \in C,
           a.state[n] = Blocked \/ Outstanding(a, n),
           x = "Failed" => Outstanding(a, n),
           NEW s, s = [is |-> x, origin |-> n, code |-> code]
    PROVE  Caused(g, C, a, n, propagate_terminal_cause_from(g, Settle(a, n, s), n))
<1>1. PICK b, y : b = Settle(a, n, s) /\ y = propagate_terminal_cause_from(g, b, n)
    OBVIOUS
<1>2. Settled(g, C, b, n)
    BY <1>1, SettleSound
<1>3. /\ Consistent(g, C, y) /\ y.ready = b.ready
      /\ \A m \in Nodes(g) : y.state[m] # b.state[m] =>
            b.state[m] = Blocked /\ y.state[m].is \in Causes
    BY <1>1, <1>2, PropagateConsistent
<1>4. s \in NodeStates(Nodes(g), C) /\ s.is = x
    BY StatesTyped, Names
<1>5. b.state = [a.state EXCEPT ![n] = s] /\ b.ready = a.ready
    BY <1>1, <1>4, SettleFields DEF Consistent
<1>6. a.state \in [Nodes(g) -> NodeStates(Nodes(g), C)]
    BY AuthorityFields DEF Consistent
<1>7. b.state[n] = s /\ \A m \in Nodes(g) \ {n} : b.state[m] = a.state[m]
    BY <1>5, <1>6
<1>8. y.state[n] = s
    BY <1>3, <1>4, <1>7, CausesAreNotBlocked, Names
<1> QED BY <1>1, <1>3, <1>4, <1>5, <1>7, <1>8 DEF Caused

(* cancel_blocked, mark_failed and mark_cancelled, where they are accepted. *)
LEMMA CausesSound ==
    ASSUME NEW g, WellFormed(g), NEW C, NEW a, Consistent(g, C, a), NEW n \in Nodes(g),
           NEW code \in C
    PROVE  /\ a.state[n] = Blocked => Caused(g, C, a, n, cancel_blocked(g, a, n, code))
           /\ Outstanding(a, n) => Caused(g, C, a, n, mark_failed(g, a, n, code))
           /\ a.state[n].is = "CancelRequested" => Caused(g, C, a, n, mark_cancelled(g, a, n))
<1>1. ASSUME a.state[n] = Blocked
      PROVE  Caused(g, C, a, n, cancel_blocked(g, a, n, code))
  <2>1. PICK s : s = [is |-> "Cancelled", origin |-> n, code |-> code]
      OBVIOUS
  <2>2. Caused(g, C, a, n, propagate_terminal_cause_from(g, Settle(a, n, s), n))
      BY <1>1, <2>1, CauseSound
  <2> QED BY <2>1, <2>2 DEF cancel_blocked
<1>2. ASSUME Outstanding(a, n)
      PROVE  Caused(g, C, a, n, mark_failed(g, a, n, code))
  <2>1. PICK s : s = [is |-> "Failed", origin |-> n, code |-> code]
      OBVIOUS
  <2>2. Caused(g, C, a, n, propagate_terminal_cause_from(g, Settle(a, n, s), n))
      BY <1>2, <2>1, CauseSound
  <2> QED BY <2>1, <2>2 DEF mark_failed
<1>3. ASSUME a.state[n].is = "CancelRequested"
      PROVE  Caused(g, C, a, n, mark_cancelled(g, a, n))
  <2>0. PICK c : c = a.state[n].code
      OBVIOUS
  <2>1. PICK s : s = [is |-> "Cancelled", origin |-> n, code |-> c]
      OBVIOUS
  <2>2. c \in C
    <3>1. a.state[n] \in NodeStates(Nodes(g), C)
        BY AuthorityFields DEF Consistent
    <3> QED BY <1>3, <2>0, <3>1, StateCases
  <2>3. Outstanding(a, n)
      BY <1>3 DEF Outstanding
  <2>4. Caused(g, C, a, n, propagate_terminal_cause_from(g, Settle(a, n, s), n))
      BY <2>1, <2>2, <2>3, CauseSound
  <2> QED BY <2>0, <2>1, <2>4 DEF mark_cancelled
<1> QED BY <1>1, <1>2, <1>3

LEMMA CausedNotices ==
    ASSUME NEW g, NEW C, NEW a, NEW n \in Nodes(g), NEW y, Caused(g, C, a, n, y),
           NEW notices, Notices(g, a, notices)
    PROVE  Notices(g, y, notices)
<1>1. \A m \in Nodes(g) : Outstanding(y, m) => Outstanding(a, m)
    BY CausesAreNotBlocked, Names DEF Caused, Outstanding
<1>2. \A m \in Nodes(g) : y.state[m] = Blocked => a.state[m] = Blocked
    BY CausesAreNotBlocked, Names DEF Caused
<1> QED BY <1>1, <1>2, NoticesStay

(***************************************************************************)
(* What consistency says about ancestors.                                  *)
(***************************************************************************)
(* A node that was handed out, succeeded or failed has only succeeded      *)
(* ancestors: they form a set that contains its own dependencies.          *)
THEOREM ReadyMeansAllSucceeded ==
    ASSUME NEW g, WellFormed(g), NEW st, Follows(g, st), NEW n \in Nodes(g),
           st[n].is \in {"Ready", "CancelRequested", "Succeeded", "Failed"}
    PROVE  \A m \in Ancestors(g, n) : st[m] = Succeeded
<1> DEFINE S == {m \in Nodes(g) : st[m] = Succeeded}
<1>1. g.dependencies[n] \subseteq S
    BY DEF Follows, WellFormed
<1>2. \A m \in S : g.dependencies[m] \subseteq S
  <2>1. \A m \in S : st[m].is = "Succeeded"
      BY Names
  <2> QED BY <2>1 DEF Follows, WellFormed
<1>3. Ancestors(g, n) \subseteq S
    BY <1>1, <1>2, AncestorsInClosed
<1> QED BY <1>3

(* A node below a failed or cancelled one shares a cause: the nodes without  *)
(* one contain their own dependencies.                                       *)
THEOREM CausesReachEveryDescendant ==
    ASSUME NEW g, WellFormed(g), NEW st, Spread(g, st), NEW n \in Nodes(g),
           NEW m \in Ancestors(g, n), st[m].is \in Causes
    PROVE  st[n].is \in Causes
<1> SUFFICES ASSUME st[n].is \notin Causes
             PROVE  FALSE
    OBVIOUS
<1> DEFINE S == {k \in Nodes(g) : st[k].is \notin Causes}
<1>1. \A k \in S : g.dependencies[k] \subseteq S
    BY DEF Spread, SpreadTo, WellFormed
<1>2. g.dependencies[n] \subseteq S
    BY <1>1
<1>3. Ancestors(g, n) \subseteq S
    BY <1>1, <1>2, AncestorsInClosed
<1> QED BY <1>3

-----------------------------------------------------------------------------
(***************************************************************************)
(* The authority driven by its caller.  The inductive invariant says that  *)
(* the graph is well formed, that the authority is consistent with it      *)
(* (each blocked node counts what it waits for, causes have spread and are *)
(* true) and that the notifications are in order.                          *)
(***************************************************************************)
AuthorityIInv ==
    /\ WellFormed(graph)
    /\ Consistent(graph, Code, authority)
    /\ Notices(graph, authority, notified \o authority.ready)
    /\ notified \in Seq(Nodes(graph))

LEMMA AuthorityInitIInv == AuthorityInit => AuthorityIInv
<1> SUFFICES ASSUME AuthorityInit
             PROVE  AuthorityIInv
    OBVIOUS
<1>1. PICK g \in Graphs : Accepted(g, Stream) /\ graph = NewGraph(g)
    BY DEF AuthorityInit
<1>2. g \in Seq(ToSet(g))
    BY AuthorityAssumption
<1>3. Len(g) \in Nat /\ DOMAIN g = 1..Len(g)
    BY <1>2
<1>4. WellFormed(graph)
    BY <1>1, <1>3, AcceptedIsWellFormed
<1>5. Consistent(graph, Code, authority) /\ Notices(graph, authority, authority.ready)
    BY <1>4, NewAuthoritySound DEF AuthorityInit
<1>6. notified \o authority.ready = authority.ready
  <2>1. authority.ready \in Seq(Nodes(graph))
      BY <1>5, AuthorityFields DEF Consistent
  <2> QED BY <2>1 DEF AuthorityInit
<1>7. notified \in Seq(Nodes(graph))
    BY DEF AuthorityInit
<1> QED BY <1>4, <1>5, <1>6, <1>7 DEF AuthorityIInv

(* A transition that leaves the queue alone. *)
LEMMA CausedStep ==
    ASSUME AuthorityIInv, NEW n \in Nodes(graph), NEW next, Caused(graph, Code, authority, n, next),
           authority' = next, UNCHANGED <<graph, notified>>
    PROVE  AuthorityIInv'
<1>1. Consistent(graph, Code, next) /\ next.ready = authority.ready
    BY DEF Caused
<1>2. Notices(graph, next, notified \o authority.ready)
    BY CausedNotices DEF AuthorityIInv
<1> QED BY <1>1, <1>2 DEF AuthorityIInv

LEMMA PopReadyNotificationKeeps ==
    ASSUME AuthorityIInv, PopReadyNotification
    PROVE  AuthorityIInv'
<1>1. PICK N, q, p : N = Nodes(graph) /\ q = authority.ready /\ p = notified
    OBVIOUS
<1>2. authority \in Authorities(graph, Code) /\ q \in Seq(N) /\ p \in Seq(N) /\ q # <<>>
    BY <1>1, AuthorityFields DEF AuthorityIInv, Consistent, PopReadyNotification
<1>3. /\ Append(p, Head(q)) \in Seq(N) /\ Tail(q) \in Seq(N)
      /\ Append(p, Head(q)) \o Tail(q) = p \o q
  <2>1. Len(q) \in Nat /\ Len(q) # 0 /\ Len(p) \in Nat
      BY <1>2
  <2>2. /\ Head(q) \in N /\ Tail(q) \in Seq(N) /\ Len(Tail(q)) = Len(q) - 1
        /\ \A i \in 1..(Len(q) - 1) : Tail(q)[i] = q[i + 1]
        /\ Head(q) = q[1]
      BY <1>2, <2>1
  <2>3. PICK u, v, w : u = Append(p, Head(q)) /\ v = Tail(q) /\ w = p \o q
      OBVIOUS
  <2>4. /\ u \in Seq(N) /\ Len(u) = Len(p) + 1
        /\ \A i \in 1..Len(p) : u[i] = p[i]
        /\ u[Len(p) + 1] = q[1]
      BY <1>2, <2>1, <2>2, <2>3
  <2>5. /\ w \in Seq(N) /\ Len(w) = Len(p) + Len(q)
        /\ \A i \in 1..Len(w) : w[i] = IF i <= Len(p) THEN p[i] ELSE q[i - Len(p)]
      BY <1>2, <2>1, <2>3
  <2>6. /\ u \o v \in Seq(N) /\ Len(u \o v) = Len(p) + Len(q)
        /\ \A i \in 1..Len(w) :
              (u \o v)[i] = IF i <= Len(p) + 1 THEN u[i] ELSE v[i - (Len(p) + 1)]
      BY <2>1, <2>2, <2>3, <2>4, <2>5
  <2>7. ASSUME NEW i \in 1..Len(w)
        PROVE  (u \o v)[i] = w[i]
    <3>1. CASE i <= Len(p)
        BY <3>1, <2>1, <2>4, <2>5, <2>6
    <3>2. CASE i = Len(p) + 1
        BY <3>2, <2>1, <2>4, <2>5, <2>6
    <3>3. CASE i > Len(p) + 1
      <4>1. i - (Len(p) + 1) \in 1..(Len(q) - 1)
          BY <3>3, <2>1, <2>5
      <4>2. v[i - (Len(p) + 1)] = q[i - Len(p)]
          BY <2>1, <2>2, <2>3, <4>1
      <4> QED BY <3>3, <2>1, <2>5, <2>6, <4>2
    <3>4. i <= Len(p) \/ i = Len(p) + 1 \/ i > Len(p) + 1
        BY <2>1, <2>5
    <3> QED BY <3>1, <3>2, <3>3, <3>4
  <2>8. u \o v = w
      BY <2>5, <2>6, <2>7
  <2> QED BY <2>2, <2>3, <2>4, <2>8
<1>4. /\ graph' = graph /\ notified' = Append(p, Head(q))
      /\ authority' = WithReady(authority, Tail(q))
    BY <1>1 DEF PopReadyNotification, WithReady
<1>5. authority' \in Authorities(graph, Code)
    BY <1>1, <1>2, <1>3, <1>4, OneField
<1>6. /\ authority'.state = authority.state /\ authority'.remaining = authority.remaining
      /\ authority'.terminal = authority.terminal /\ authority'.ready = Tail(q)
    BY <1>2, <1>4 DEF WithReady, Authorities
<1>7. Consistent(graph, Code, authority')
    BY <1>5, <1>6 DEF AuthorityIInv, Consistent
<1>8. Notices(graph, authority', p \o q)
  <2>1. Notices(graph, authority, p \o q)
      BY <1>1 DEF AuthorityIInv
  <2>2. \A m \in Nodes(graph) : Outstanding(authority', m) => Outstanding(authority, m)
      BY <1>6 DEF Outstanding
  <2>3. \A m \in Nodes(graph) : authority'.state[m] = Blocked => authority.state[m] = Blocked
      BY <1>6
  <2> QED BY <2>1, <2>2, <2>3, NoticesStay
<1> QED BY <1>1, <1>3, <1>4, <1>6, <1>7, <1>8 DEF AuthorityIInv

LEMMA RequestCancelKeeps ==
    ASSUME AuthorityIInv, NEW n \in Nodes(graph), NEW reason \in Code, RequestCancel(n, reason)
    PROVE  AuthorityIInv'
<1>1. PICK y : y = request_cancel(authority, n, reason)
    OBVIOUS
<1>2. /\ authority.state[n] = Ready
      /\ authority' = y /\ graph' = graph /\ notified' = notified
    BY <1>1 DEF RequestCancel, Step
<1>3. /\ Consistent(graph, Code, y) /\ y.ready = authority.ready
      /\ y.state[n].is = "CancelRequested"
      /\ \A m \in Nodes(graph) \ {n} : y.state[m] = authority.state[m]
    BY <1>1, <1>2, RequestSound DEF AuthorityIInv
<1>4. \A m \in Nodes(graph) : Outstanding(y, m) => Outstanding(authority, m)
    BY <1>2, <1>3, Names DEF Outstanding
<1>5. \A m \in Nodes(graph) : y.state[m] = Blocked => authority.state[m] = Blocked
    BY <1>3, Names
<1>6. Notices(graph, y, notified \o authority.ready)
    BY <1>4, <1>5, NoticesStay DEF AuthorityIInv
<1> QED BY <1>2, <1>3, <1>6 DEF AuthorityIInv

LEMMA MarkSucceededKeeps ==
    ASSUME AuthorityIInv, NEW n \in Nodes(graph), MarkSucceeded(n)
    PROVE  AuthorityIInv'
<1>1. PICK y : y = mark_succeeded(graph, authority, n)
    OBVIOUS
<1>2. /\ Outstanding(authority, n)
      /\ authority' = y /\ graph' = graph /\ notified' = notified
    BY <1>1 DEF MarkSucceeded, Step
<1>3. Consistent(graph, Code, y)
    BY <1>1, <1>2, SucceedSound DEF AuthorityIInv
<1>4. PICK F : /\ F \subseteq Nodes(graph) /\ Ascending(F) \in Seq(F)
               /\ \A m \in F : authority.state[m] = Blocked /\ y.state[m] = Ready
               /\ \A m \in Nodes(graph) \ F :
                     y.state[m] = IF m = n THEN Succeeded ELSE authority.state[m]
               /\ y.ready = authority.ready \o Ascending(F)
    BY <1>1, <1>2, SucceedSound, SMTT(30) DEF AuthorityIInv
<1>5. \A m \in Nodes(graph) \ F : Outstanding(y, m) => Outstanding(authority, m)
    BY <1>2, <1>4 DEF Outstanding
<1>6. \A m \in Nodes(graph) \ F : y.state[m] = Blocked => authority.state[m] = Blocked
    BY <1>4, BlockedIsNotTerminal
<1>7. Notices(graph, y, (notified \o authority.ready) \o Ascending(F))
    BY <1>4, <1>5, <1>6, NoticesGrow DEF AuthorityIInv
<1>8. (notified \o authority.ready) \o Ascending(F) = notified \o y.ready
  <2>1. PICK N, p, q, s : /\ N = Nodes(graph) /\ p = notified
                          /\ q = authority.ready /\ s = Ascending(F)
      OBVIOUS
  <2>2. p \in Seq(N) /\ q \in Seq(N) /\ s \in Seq(N)
      BY <1>4, <2>1, AuthorityFields DEF AuthorityIInv, Consistent
  <2>3. (p \o q) \o s = p \o (q \o s)
      BY <2>2
  <2> QED BY <1>4, <2>1, <2>3
<1> QED BY <1>2, <1>3, <1>7, <1>8 DEF AuthorityIInv

LEMMA AuthorityNextIInv == AuthorityIInv /\ [AuthorityNext]_authorityVars => AuthorityIInv'
<1> SUFFICES ASSUME AuthorityIInv, [AuthorityNext]_authorityVars
             PROVE  AuthorityIInv'
    OBVIOUS
<1>1. CASE PopReadyNotification
    BY <1>1, PopReadyNotificationKeeps
<1>2. ASSUME NEW n \in Nodes(graph), MarkSucceeded(n)
      PROVE  AuthorityIInv'
    BY <1>2, MarkSucceededKeeps
<1>3. ASSUME NEW n \in Nodes(graph), MarkCancelled(n)
      PROVE  AuthorityIInv'
  <2>1. Caused(graph, Code, authority, n, mark_cancelled(graph, authority, n))
    <3>1. authority.state[n].is = "CancelRequested"
        BY <1>3 DEF MarkCancelled
    <3>2. authority.state[n] \in NodeStates(Nodes(graph), Code)
        BY AuthorityFields DEF AuthorityIInv, Consistent
    <3>3. PICK code \in Code : TRUE
        BY <3>1, <3>2, StateCases
    <3> QED BY <3>1, <3>3, CausesSound DEF AuthorityIInv
  <2> QED BY <1>3, <2>1, CausedStep DEF MarkCancelled, Step
<1>4. ASSUME NEW n \in Nodes(graph), NEW error \in Code, MarkFailed(n, error)
      PROVE  AuthorityIInv'
  <2>1. Caused(graph, Code, authority, n, mark_failed(graph, authority, n, error))
      BY <1>4, CausesSound DEF AuthorityIInv, MarkFailed
  <2> QED BY <1>4, <2>1, CausedStep DEF MarkFailed, Step
<1>5. ASSUME NEW n \in Nodes(graph), NEW reason \in Code, RequestCancel(n, reason)
      PROVE  AuthorityIInv'
    BY <1>5, RequestCancelKeeps
<1>6. ASSUME NEW n \in Nodes(graph), NEW reason \in Code, CancelBlocked(n, reason)
      PROVE  AuthorityIInv'
  <2>1. Caused(graph, Code, authority, n, cancel_blocked(graph, authority, n, reason))
      BY <1>6, CausesSound DEF AuthorityIInv, CancelBlocked
  <2> QED BY <1>6, <2>1, CausedStep DEF CancelBlocked, Step
<1>7. CASE UNCHANGED <<graph, authority, notified>>
    BY <1>7 DEF AuthorityIInv
<1> QED BY <1>1, <1>2, <1>3, <1>4, <1>5, <1>6, <1>7
        DEF AuthorityNext, Observe, TryIntoReport, Reported, authorityVars

LEMMA AuthorityInvariance == AuthoritySpec => []AuthorityIInv
BY AuthorityInitIInv, AuthorityNextIInv, PTL DEF AuthoritySpec

-----------------------------------------------------------------------------
LEMMA TypeFollows == AuthorityIInv => AuthorityTypeOK
<1> SUFFICES ASSUME AuthorityIInv
             PROVE  AuthorityTypeOK
    OBVIOUS
<1>1. State = NodeStates(Nodes(graph), Code)
    BY DEF State, NodeStates
<1>2. /\ authority.state \in [Nodes(graph) -> NodeStates(Nodes(graph), Code)]
      /\ authority.remaining \in [Nodes(graph) -> 0..2]
      /\ authority.ready \in Seq(Nodes(graph))
    BY AuthorityFields DEF AuthorityIInv, Consistent
<1>3. authority.terminal \in 0..Cardinality(Nodes(graph))
  <2>1. PICK T : T = TerminalNodes(graph, authority.state)
      OBVIOUS
  <2>2. T \subseteq Nodes(graph)
      BY <2>1 DEF TerminalNodes
  <2>3. Cardinality(T) \in Nat /\ Cardinality(T) <= Cardinality(Nodes(graph))
      BY <2>2, NodesFinite DEF AuthorityIInv
  <2>4. Cardinality(Nodes(graph)) \in Nat
      BY NodesFinite DEF AuthorityIInv
  <2>5. authority.terminal = Cardinality(T)
      BY <2>1 DEF AuthorityIInv, Consistent
  <2> QED BY <2>3, <2>4, <2>5
<1> QED BY <1>1, <1>2, <1>3 DEF AuthorityTypeOK, AuthorityIInv

(* The authority's fields keep their types: the terminal counter never     *)
(* exceeds the number of nodes and no dependency counter leaves 0..2,      *)
(* whatever the order of observations and cancellations.                   *)
THEOREM AuthorityTypeCorrect == AuthoritySpec => []AuthorityTypeOK
BY AuthorityInvariance, TypeFollows, PTL

LEMMA ReadyFollows == AuthorityIInv => ReadyAfterDependencies
<1> SUFFICES ASSUME AuthorityIInv, NEW n \in Nodes(graph),
                    \/ Outstanding(authority, n)
                    \/ authority.state[n].is \in {"Succeeded", "Failed"}
             PROVE  \A m \in Ancestors(graph, n) : authority.state[m] = Succeeded
    BY DEF ReadyAfterDependencies
<1>1. authority.state[n].is \in {"Ready", "CancelRequested", "Succeeded", "Failed"}
    BY DEF Outstanding
<1> QED BY <1>1, ReadyMeansAllSucceeded DEF AuthorityIInv, Consistent

(* A node is handed to the backend only after all that it depends on,      *)
(* directly or through others, succeeded, in every accepted graph          *)
(* (release_successors and the counters it keeps).                         *)
THEOREM ReadyOnlyAfterDependencies == AuthoritySpec => []ReadyAfterDependencies
BY AuthorityInvariance, ReadyFollows, PTL

LEMMA SpreadFollows == AuthorityIInv => NobodyWaitsForAFailure
<1> SUFFICES ASSUME AuthorityIInv, NEW n \in Nodes(graph), NEW m \in Ancestors(graph, n),
                    authority.state[m].is \in Causes
             PROVE  IsTerminal(authority.state[n])
    BY DEF NobodyWaitsForAFailure
<1>1. authority.state[n].is \in Causes
    BY CausesReachEveryDescendant DEF AuthorityIInv, Consistent
<1> QED BY <1>1, CausesAreNotBlocked

(* propagate_terminal_cause_from reaches every descendant of a failed or   *)
(* cancelled node in the step that settles it, however many paths join.    *)
THEOREM FailuresReachEverybody == AuthoritySpec => []NobodyWaitsForAFailure
BY AuthorityInvariance, SpreadFollows, PTL

LEMMA CausesFollow == AuthorityIInv => CausesAreTrue
BY DEF AuthorityIInv, Consistent, TrueCauses, DirectCause, CausesAreTrue

(* The origin and the code a node inherits are those of an ancestor that   *)
(* really failed or was cancelled itself (dependency_cause).               *)
THEOREM InheritedCausesAreTrue == AuthoritySpec => []CausesAreTrue
BY AuthorityInvariance, CausesFollow, PTL

LEMMA NoticesFollow == AuthorityIInv => NotifiedOnce
<1> SUFFICES ASSUME AuthorityIInv
             PROVE  NotifiedOnce
    OBVIOUS
<1>1. PICK s : s = notified \o authority.ready
    OBVIOUS
<1>2. /\ s \in Seq(Nodes(graph)) /\ \A i, j \in 1..Len(s) : s[i] = s[j] => i = j
      /\ \A n \in Nodes(graph) : Outstanding(authority, n) => \E i \in 1..Len(s) : s[i] = n
    BY <1>1 DEF AuthorityIInv, Notices
<1>3. ToSet(s) = {s[i] : i \in 1..Len(s)} /\ DOMAIN s = 1..Len(s)
    BY <1>2 DEF ToSet
<1>4. IsInjective(s)
    BY <1>2, <1>3 DEF IsInjective
<1>5. \A n \in Nodes(graph) : Outstanding(authority, n) => n \in ToSet(s)
    BY <1>2, <1>3
<1> QED BY <1>1, <1>4, <1>5 DEF NotifiedOnce

(* A node is put into the readiness queue once in the life of a graph, and *)
(* no node that waits to be submitted is missing from it.                  *)
THEOREM EveryNodeIsNotifiedOnce == AuthoritySpec => []NotifiedOnce
BY AuthorityInvariance, NoticesFollow, PTL

=============================================================================
