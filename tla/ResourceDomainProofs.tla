------------------------- MODULE ResourceDomainProofs -------------------------
(***************************************************************************)
(* The hierarchical ledger keeps its books for every profile: any number   *)
(* of domains and records, any dimensions, any roster of charges.          *)
(*                                                                         *)
(* None of the properties is inductive: whether a release may subtract,    *)
(* and which domains go with it, depends on every level above the record.  *)
(* IInv therefore says that the live domains form a tree in which parents  *)
(* are older than their children (Tree, so a path has no slot twice and    *)
(* ends at the root), that both free lists are exact, that handles,        *)
(* children, counts and charges are what can be counted (Handles, Family,  *)
(* Books), that no level is over its limits, that every record that is not *)
(* quarantined has its token, and that every domain is there for a reason  *)
(* (AllNeeded).                                                            *)
(*                                                                         *)
(* The order is: vectors and totals; the invariant; paths; what leaves the *)
(* tree or the books alone; handles and children; retirement; transitions  *)
(* of one credit; admission of a batch; the three invariants; and last the *)
(* account at the root, which every step of the hierarchy advances by one  *)
(* step of CreditAccount or not at all.                                    *)
(***************************************************************************)
EXTENDS ResourceDomain, FiniteSetTheorems, SequenceTheorems, TLAPS

LEMMA NatInductionSet ==
    ASSUME NEW S, 0 \in S, \A k \in Nat : k \in S => k + 1 \in S
    PROVE  Nat \subseteq S
<1> DEFINE T == Nat \ S
<1> SUFFICES ASSUME T # {}
             PROVE  FALSE
    OBVIOUS
<1>1. IsWellFoundedOn(OpToRel(<, Nat), Nat)
    BY NatLessThanWellFounded
<1>2. PICK x \in T : \A y \in T : ~ (<<y, x>> \in OpToRel(<, Nat))
    BY <1>1, WFMin
<1>3. x - 1 \in T /\ x - 1 < x /\ x \in Nat
    OBVIOUS
<1>4. <<x - 1, x>> \in OpToRel(<, Nat)
    BY <1>3 DEF OpToRel
<1> QED BY <1>2, <1>3, <1>4

(***************************************************************************)
(* Resource vectors.                                                       *)
(***************************************************************************)
LEMMA VectorArithmetic ==
    ASSUME NEW u \in Vector, NEW v \in Vector, NEW w \in Vector
    PROVE  /\ Zero \in Vector /\ Plus(u, v) \in Vector
           /\ Plus(u, Zero) = u /\ Plus(Zero, u) = u
           /\ Plus(Plus(u, v), w) = Plus(u, Plus(v, w))
           /\ Plus(u, v) = Plus(v, u)
           /\ Minus(Plus(u, v), v) = u /\ Minus(Plus(u, v), u) = v
           /\ Plus(u, v) = Plus(u, w) => v = w
<1>1. /\ Zero \in Vector /\ Plus(u, v) \in Vector
      /\ Plus(u, Zero) = u /\ Plus(Zero, u) = u
    BY DEF Vector, Zero, Plus
<1>2. Plus(Plus(u, v), w) = Plus(u, Plus(v, w)) /\ Plus(u, v) = Plus(v, u)
    BY DEF Vector, Plus
<1>3. Minus(Plus(u, v), v) = u /\ Minus(Plus(u, v), u) = v
    BY DEF Vector, Plus, Minus
<1>4. Plus(u, v) = Plus(u, w) => v = w
  <2> SUFFICES ASSUME Plus(u, v) = Plus(u, w)
               PROVE  v = w
      OBVIOUS
  <2>1. \A k \in Kind : Plus(u, v)[k] = u[k] + v[k] /\ Plus(u, w)[k] = u[k] + w[k]
      BY DEF Plus
  <2>2. \A k \in Kind : v[k] = w[k]
      BY <2>1 DEF Vector
  <2> QED BY <2>2 DEF Vector
<1> QED BY <1>1, <1>2, <1>3, <1>4

LEMMA PlusAssociative ==
    ASSUME NEW u \in Vector, NEW v \in Vector, NEW w \in Vector
    PROVE  Plus(Plus(u, v), w) = Plus(u, Plus(v, w))
BY DEF Vector, Plus

LEMMA PlusSwap ==
    ASSUME NEW u \in Vector, NEW v \in Vector, NEW w \in Vector
    PROVE  Plus(Plus(u, v), w) = Plus(Plus(u, w), v)
BY DEF Vector, Plus

(* The running total of a roster. *)
Running(f, charges, n) ==
    f = [i \in 0..n |-> IF i = 0 THEN Zero ELSE Plus(f[i - 1], charges[i])]

LEMMA RunningExists ==
    ASSUME NEW charges
    PROVE  \A n \in Nat : \E f : Running(f, charges, n)
<1> DEFINE S == {n \in Nat : \E f : Running(f, charges, n)}
<1>1. 0 \in S
  <2> DEFINE f == [i \in 0..0 |-> Zero]
  <2>1. Running(f, charges, 0)
      BY DEF Running
  <2> QED BY <2>1
<1>2. ASSUME NEW n \in Nat, n \in S
      PROVE  n + 1 \in S
  <2>1. PICK f : Running(f, charges, n)
      BY <1>2
  <2> DEFINE h == [i \in 0..(n + 1) |-> IF i <= n THEN f[i] ELSE Plus(f[n], charges[i])]
  <2>2. Running(h, charges, n + 1)
      BY <2>1 DEF Running
  <2> QED BY <2>2
<1> QED BY <1>1, <1>2, NatInductionSet

(* A function that adds charge after charge ends with the total. *)
Adds(f, charges, n) ==
    f[0] = Zero /\ \A i \in 1..n : f[i] = Plus(f[i - 1], charges[i])

LEMMA TotalAdds ==
    ASSUME NEW charges, Len(charges) \in Nat
    PROVE  \E f : Adds(f, charges, Len(charges)) /\ Total(charges) = f[Len(charges)]
<1> DEFINE n == Len(charges)
           f == CHOOSE h : Running(h, charges, n)
<1>1. Running(f, charges, n)
    BY RunningExists
<1>2. Total(charges) = f[n]
    BY DEF Total, Running
<1> HIDE DEF f
<1>3. Adds(f, charges, n)
    BY <1>1 DEF Running, Adds
<1> QED BY <1>2, <1>3

LEMMA AddsOnce ==
    ASSUME NEW n \in Nat, NEW charges, NEW f, NEW g, Adds(f, charges, n), Adds(g, charges, n)
    PROVE  f[n] = g[n]
<1> DEFINE S == {i \in Nat : i <= n => f[i] = g[i]}
<1>1. 0 \in S
    BY DEF Adds
<1>2. ASSUME NEW i \in Nat, i \in S
      PROVE  i + 1 \in S
    BY <1>2 DEF Adds
<1>3. n \in S
    BY <1>1, <1>2, NatInductionSet
<1> QED BY <1>3

LEMMA TotalIs ==
    ASSUME NEW charges, Len(charges) \in Nat, NEW f, Adds(f, charges, Len(charges))
    PROVE  Total(charges) = f[Len(charges)]
BY TotalAdds, AddsOnce

LEMMA AddsType ==
    ASSUME NEW n \in Nat, NEW charges, \A i \in 1..n : charges[i] \in Vector,
           NEW f, Adds(f, charges, n)
    PROVE  \A i \in 0..n : f[i] \in Vector
<1> DEFINE S == {i \in Nat : i <= n => f[i] \in Vector}
<1>1. 0 \in S
    BY DEF Adds, Vector, Zero
<1>2. ASSUME NEW i \in Nat, i \in S
      PROVE  i + 1 \in S
  <2> SUFFICES ASSUME i + 1 <= n
               PROVE  f[i + 1] \in Vector
      OBVIOUS
  <2>1. f[i + 1] = Plus(f[i], charges[i + 1])
      BY DEF Adds
  <2>2. f[i] \in Vector /\ charges[i + 1] \in Vector
      BY <1>2
  <2> QED BY <2>1, <2>2, VectorArithmetic
<1>3. \A i \in Nat : i \in S
    BY <1>1, <1>2, NatInductionSet
<1> QED BY <1>3

LEMMA TotalType ==
    ASSUME NEW charges \in Seq(Vector)
    PROVE  Total(charges) \in Vector
<1>1. PICK f : Adds(f, charges, Len(charges)) /\ Total(charges) = f[Len(charges)]
    BY TotalAdds
<1>2. \A i \in 1..Len(charges) : charges[i] \in Vector
    OBVIOUS
<1> QED BY <1>1, <1>2, AddsType

(* One entry that was nothing and is now c adds c to the total. *)
LEMMA TotalGrows ==
    ASSUME NEW s \in Seq(Vector), NEW t \in Seq(Vector), Len(t) = Len(s),
           NEW j \in 1..Len(s), s[j] = Zero,
           \A i \in 1..Len(s) : i # j => t[i] = s[i]
    PROVE  Total(t) = Plus(Total(s), t[j])
<1> DEFINE n == Len(s)
<1>1. PICK f : Adds(f, s, n) /\ Total(s) = f[n]
    BY TotalAdds
<1>2. PICK g : Adds(g, t, n) /\ Total(t) = g[n]
    BY TotalAdds
<1>3. /\ \A i \in 1..n : s[i] \in Vector /\ t[i] \in Vector
      /\ n \in Nat /\ j \in 1..n
    OBVIOUS
<1> HIDE DEF n
<1>4. \A i \in 0..n : f[i] \in Vector /\ g[i] \in Vector
    BY <1>1, <1>2, <1>3, AddsType
<1> DEFINE S == {i \in Nat : i <= n => g[i] = IF i < j THEN f[i] ELSE Plus(f[i], t[j])}
<1>5. 0 \in S
    BY <1>1, <1>2, <1>3 DEF Adds
<1>6. ASSUME NEW i \in Nat, i \in S
      PROVE  i + 1 \in S
  <2> SUFFICES ASSUME i + 1 <= n
               PROVE  g[i + 1] = IF i + 1 < j THEN f[i + 1] ELSE Plus(f[i + 1], t[j])
      OBVIOUS
  <2>1. /\ f[i + 1] = Plus(f[i], s[i + 1]) /\ g[i + 1] = Plus(g[i], t[i + 1])
        /\ f[i] \in Vector /\ g[i] \in Vector /\ i + 1 \in 1..n
        /\ s[i + 1] \in Vector /\ t[i + 1] \in Vector /\ t[j] \in Vector
      BY <1>1, <1>2, <1>3, <1>4 DEF Adds
  <2>2. CASE i + 1 < j
      BY <1>3, <1>6, <2>1, <2>2 DEF n
  <2>3. CASE i + 1 = j
    <3>1. g[i] = f[i] /\ s[i + 1] = Zero
        BY <1>3, <1>6, <2>1, <2>3
    <3>2. f[i + 1] = f[i]
        BY <2>1, <3>1, VectorArithmetic
    <3> QED BY <2>1, <2>3, <3>1, <3>2
  <2>4. CASE i + 1 > j
    <3>1. g[i] = Plus(f[i], t[j]) /\ s[i + 1] = t[i + 1]
        BY <1>3, <1>6, <2>1, <2>4 DEF n
    <3>2. Plus(Plus(f[i], t[j]), s[i + 1]) = Plus(Plus(f[i], s[i + 1]), t[j])
        BY <2>1, PlusSwap
    <3> QED BY <1>3, <2>1, <2>4, <3>1, <3>2
  <2> QED BY <1>3, <2>2, <2>3, <2>4
<1>7. n \in S
    BY <1>3, <1>5, <1>6, NatInductionSet
<1> QED BY <1>1, <1>2, <1>3, <1>7

LEMMA TotalOfNothing ==
    ASSUME NEW s \in Seq(Vector), \A i \in 1..Len(s) : s[i] = Zero
    PROVE  Total(s) = Zero
<1> DEFINE f == [i \in 0..Len(s) |-> Zero]
<1>1. Plus(Zero, Zero) = Zero
    BY DEF Plus, Zero
<1>2. Adds(f, s, Len(s))
    BY <1>1 DEF Adds
<1>3. Total(s) = f[Len(s)]
    BY <1>2, TotalIs
<1> QED BY <1>3

(* The first charges of a roster and one more. *)
LEMMA TotalOfOneMore ==
    ASSUME NEW s \in Seq(Vector), NEW j \in 0..(Len(s) - 1)
    PROVE  Total(SubSeq(s, 1, j + 1)) = Plus(Total(SubSeq(s, 1, j)), s[j + 1])
<1>1. PICK f : Adds(f, SubSeq(s, 1, j + 1), j + 1) /\ Total(SubSeq(s, 1, j + 1)) = f[j + 1]
  <2>1. PICK t : t = SubSeq(s, 1, j + 1)
      OBVIOUS
  <2>2. Len(t) = j + 1 /\ Len(t) \in Nat
      BY <2>1
  <2>3. \E f : Adds(f, t, Len(t)) /\ Total(t) = f[Len(t)]
      BY <2>2, TotalAdds
  <2> QED BY <2>1, <2>2, <2>3
<1>2. Len(SubSeq(s, 1, j)) = j /\ j \in Nat
    OBVIOUS
<1>3. Adds(f, SubSeq(s, 1, j), j)
  <2>1. \A i \in 1..j : SubSeq(s, 1, j + 1)[i] = SubSeq(s, 1, j)[i]
      OBVIOUS
  <2> QED BY <1>1, <2>1 DEF Adds
<1>4. Total(SubSeq(s, 1, j)) = f[j]
    BY <1>2, <1>3, TotalIs
<1>5. SubSeq(s, 1, j + 1)[j + 1] = s[j + 1]
    OBVIOUS
<1>6. f[j + 1] = Plus(f[j], SubSeq(s, 1, j + 1)[j + 1])
    BY <1>1 DEF Adds
<1> QED BY <1>1, <1>4, <1>5, <1>6

(***************************************************************************)
(* What a set of records is charged.                                       *)
(***************************************************************************)
Weights(records, slots) ==
    [i \in 1..MaxRecords |-> IF i - 1 \in slots THEN records[i - 1].charge ELSE Zero]

Charged(records) == \A s \in RecordSlot : records[s].charge \in Vector

LEMMA WeightsType ==
    ASSUME NEW records, Charged(records), NEW slots
    PROVE  /\ Weights(records, slots) \in Seq(Vector)
           /\ Len(Weights(records, slots)) = MaxRecords
           /\ ChargeOf(records, slots) = Total(Weights(records, slots))
<1>1. MaxRecords \in Nat /\ Zero \in Vector
    BY CreditsAssumption DEF Zero, Vector
<1>2. \A i \in 1..MaxRecords : i - 1 \in RecordSlot
    BY <1>1 DEF RecordSlot
<1>3. Weights(records, slots) \in [1..MaxRecords -> Vector]
    BY <1>1, <1>2 DEF Weights, Charged
<1> QED BY <1>1, <1>3 DEF ChargeOf, Weights

LEMMA ChargeType ==
    ASSUME NEW records, Charged(records), NEW slots
    PROVE  ChargeOf(records, slots) \in Vector
BY WeightsType, TotalType

LEMMA ChargeSame ==
    ASSUME NEW rec, NEW rec2, NEW S,
           \A s \in S \cap RecordSlot : rec2[s].charge = rec[s].charge
    PROVE  ChargeOf(rec2, S) = ChargeOf(rec, S)
<1>1. \A i \in 1..MaxRecords : i - 1 \in RecordSlot
    BY CreditsAssumption DEF RecordSlot
<1>2. Weights(rec2, S) = Weights(rec, S)
    BY <1>1 DEF Weights
<1> QED BY <1>2 DEF ChargeOf, Weights

LEMMA ChargeNone ==
    ASSUME NEW rec, Charged(rec)
    PROVE  ChargeOf(rec, {}) = Zero
<1>1. PICK w : w = Weights(rec, {})
    OBVIOUS
<1>2. w \in Seq(Vector) /\ ChargeOf(rec, {}) = Total(w) /\ Len(w) = MaxRecords
    BY <1>1, WeightsType
<1>3. \A i \in 1..Len(w) : w[i] = Zero
    BY <1>1, <1>2 DEF Weights
<1> QED BY <1>2, <1>3, TotalOfNothing

LEMMA ChargeGrows ==
    ASSUME NEW rec, NEW rec2, Charged(rec), Charged(rec2), NEW S, NEW r \in RecordSlot,
           r \notin S, \A s \in S \cap RecordSlot : rec2[s].charge = rec[s].charge
    PROVE  ChargeOf(rec2, S \cup {r}) = Plus(ChargeOf(rec, S), rec2[r].charge)
<1>1. PICK v : v = Weights(rec, S)
    OBVIOUS
<1>2. PICK w : w = Weights(rec2, S \cup {r})
    OBVIOUS
<1>3. /\ v \in Seq(Vector) /\ Len(v) = MaxRecords /\ ChargeOf(rec, S) = Total(v)
      /\ w \in Seq(Vector) /\ Len(w) = MaxRecords /\ ChargeOf(rec2, S \cup {r}) = Total(w)
    BY <1>1, <1>2, WeightsType
<1>4. r + 1 \in 1..MaxRecords /\ (r + 1) - 1 = r
      /\ \A i \in 1..MaxRecords : i - 1 \in RecordSlot /\ (i # r + 1 => i - 1 # r)
    BY CreditsAssumption DEF RecordSlot
<1>5. v[r + 1] = Zero /\ w[r + 1] = rec2[r].charge
    BY <1>1, <1>2, <1>4 DEF Weights
<1>6. \A i \in 1..MaxRecords : i # r + 1 => w[i] = v[i]
    BY <1>1, <1>2, <1>4 DEF Weights
<1>7. PICK j : j = r + 1
    OBVIOUS
<1>8. j \in 1..Len(v) /\ v[j] = Zero /\ \A i \in 1..Len(v) : i # j => w[i] = v[i]
    BY <1>3, <1>4, <1>5, <1>6, <1>7
<1>9. Total(w) = Plus(Total(v), w[j])
    BY <1>3, <1>8, TotalGrows
<1> QED BY <1>3, <1>5, <1>7, <1>9

(* The records of a batch add what its charges amount to. *)
LEMMA ChargeOfBatch ==
    ASSUME NEW rec, NEW rec2, Charged(rec), Charged(rec2), NEW S,
           \A s \in S \cap RecordSlot : rec2[s].charge = rec[s].charge,
           NEW charges \in Seq(Vector), NEW pos \in [1..Len(charges) -> RecordSlot],
           \A i, j \in 1..Len(charges) : pos[i] = pos[j] => i = j,
           \A i \in 1..Len(charges) : pos[i] \notin S /\ rec2[pos[i]].charge = charges[i]
    PROVE  ChargeOf(rec2, S \cup {pos[i] : i \in 1..Len(charges)})
              = Plus(ChargeOf(rec, S), Total(charges))
<1> DEFINE n == Len(charges)
           New(j) == {pos[i] : i \in 1..j}
           P == {j \in Nat : j <= n => ChargeOf(rec2, S \cup New(j))
                                = Plus(ChargeOf(rec, S), Total(SubSeq(charges, 1, j)))}
<1>0. n \in Nat /\ ChargeOf(rec, S) \in Vector
    BY ChargeType
<1>1. 0 \in P
  <2>1. New(0) = {} /\ S \cup {} = S
      OBVIOUS
  <2>2. PICK none : none = SubSeq(charges, 1, 0)
      OBVIOUS
  <2>3. Total(none) = Zero
    <3>1. none \in Seq(Vector) /\ Len(none) = 0
        BY <2>2
    <3>2. \A i \in 1..Len(none) : none[i] = Zero
        BY <3>1
    <3> QED BY <3>1, <3>2, TotalOfNothing
  <2>4. ChargeOf(rec2, S) = ChargeOf(rec, S)
      BY ChargeSame
  <2>5. Plus(ChargeOf(rec, S), Zero) = ChargeOf(rec, S)
      BY <1>0, VectorArithmetic
  <2> QED BY <2>1, <2>2, <2>3, <2>4, <2>5
<1>2. ASSUME NEW j \in Nat, j \in P
      PROVE  j + 1 \in P
  <2> SUFFICES ASSUME j + 1 <= n
               PROVE  ChargeOf(rec2, S \cup New(j + 1))
                        = Plus(ChargeOf(rec, S), Total(SubSeq(charges, 1, j + 1)))
      OBVIOUS
  <2>1. PICK T : T = S \cup New(j)
      OBVIOUS
  <2>2. S \cup New(j + 1) = T \cup {pos[j + 1]}
      BY <2>1
  <2>3. j + 1 \in 1..n /\ pos[j + 1] \in RecordSlot /\ pos[j + 1] \notin T
      BY <2>1
  <2>4. ChargeOf(rec2, T \cup {pos[j + 1]}) = Plus(ChargeOf(rec2, T), rec2[pos[j + 1]].charge)
      BY <2>3, ChargeGrows
  <2>5. PICK a, b, c : a = ChargeOf(rec, S) /\ b = Total(SubSeq(charges, 1, j)) /\ c = charges[j + 1]
      OBVIOUS
  <2>6. a \in Vector /\ b \in Vector /\ c \in Vector
    <3>1. PICK s : s = SubSeq(charges, 1, j)
        OBVIOUS
    <3>2. s \in Seq(Vector)
        BY <3>1
    <3>3. Total(s) \in Vector
        BY <3>2, TotalType
    <3>4. charges[j + 1] \in Vector
        BY <2>3
    <3> QED BY <1>0, <2>5, <3>1, <3>3, <3>4
  <2>7. ChargeOf(rec2, T) = Plus(a, b) /\ rec2[pos[j + 1]].charge = c
      BY <1>2, <2>1, <2>3, <2>5
  <2>8. Total(SubSeq(charges, 1, j + 1)) = Plus(b, c)
      BY <2>5, TotalOfOneMore
  <2>9. Plus(Plus(a, b), c) = Plus(a, Plus(b, c))
      BY <2>6, VectorArithmetic
  <2> QED BY <2>2, <2>4, <2>5, <2>7, <2>8, <2>9
<1>3. n \in P
    BY <1>0, <1>1, <1>2, NatInductionSet
<1>4. SubSeq(charges, 1, n) = charges
    OBVIOUS
<1>5. ChargeOf(rec2, S \cup New(n)) = Plus(ChargeOf(rec, S), Total(SubSeq(charges, 1, n)))
    BY <1>0, <1>3
<1> QED BY <1>4, <1>5

(***************************************************************************)
(* The inductive invariant, of a ledger l, the handles h and the tokens t. *)
(***************************************************************************)
Key == [slot : Nat, generation : Nat]
Node ==
    [key : Key, parent : Key, capacity : Vector, used : Vector, record_limit : Nat,
     counts : [Phase -> Nat], handles : Nat, children : Nat]
Credit == [owner : Nat, charge : Vector, phase : Phase \cup {"Vacant"}]
DomainRecord == [leaf : Key, credit : Credit]
Ledger ==
    [nodes : [DomainSlot -> Node], free_nodes : Seq(DomainSlot),
     records : [RecordSlot -> DomainRecord], free_records : Seq(RecordSlot),
     next_node : Nat, next_owner : Nat, poisoned : BOOLEAN, anchored : BOOLEAN]
Token == [slot : RecordSlot, owner : Nat, kind : {"reservation", "retained"}]

LiveIn(l) == {s \in DomainSlot : l.nodes[s] # NoNode}
RecordsIn(l) == {r \in RecordSlot : l.records[r] # NoDomainRecord}
CreditsIn(l) == [r \in RecordSlot |-> l.records[r].credit]
Under(l, s) == {r \in RecordsIn(l) : l.nodes[s].key \in ToSet(Path(l, l.records[r].leaf))}

(* p leads from a leaf to the root, through older and older domains. *)
Chain(l, leaf, p) ==
    /\ p \in Seq(Key) /\ Len(p) \in 1..MaxDepth
    /\ p[1] = leaf /\ p[Len(p)] = ROOT
    /\ \A i \in 1..Len(p) : p[i].generation >= 1 /\ Resolves(l, p[i])
    /\ \A i \in 1..(Len(p) - 1) : l.nodes[p[i].slot].parent = p[i + 1]
    /\ \A i, j \in 1..Len(p) : i < j => p[j].generation < p[i].generation

(* Every domain has its own key and a way to the root. *)
Tree(l) ==
    /\ l.nodes[0].key = ROOT /\ l.nodes[0].parent = NoKey
    /\ \A s \in LiveIn(l) :
          /\ l.nodes[s].key.slot = s
          /\ l.nodes[s].key.generation \in 1..(l.next_node - 1)
          /\ Chain(l, l.nodes[s].key, Path(l, l.nodes[s].key))

FreeNodes(l) == IsInjective(l.free_nodes) /\ ToSet(l.free_nodes) = DomainSlot \ LiveIn(l)

ChildrenIn(l, s) == {d \in LiveIn(l) : l.nodes[d].parent = l.nodes[s].key}
Family(l) == \A s \in LiveIn(l) : l.nodes[s].children = Cardinality(ChildrenIn(l, s))

Copies(h, key) == IF key \in DOMAIN h THEN h[key] ELSE 0
Handles(l, h) ==
    /\ h \in [DOMAIN h -> Nat \ {0}]
    /\ \A key \in DOMAIN h : key \in Key /\ Resolves(l, key)
    /\ \A s \in LiveIn(l) : l.nodes[s].handles = Copies(h, l.nodes[s].key)

(* Every record has an owner of its own, and a domain. *)
Owned(l) ==
    /\ l.next_owner >= 1
    /\ \A r \in RecordsIn(l) :
          /\ l.records[r].credit.owner \in 1..(l.next_owner - 1)
          /\ l.records[r].credit.phase \in Phase
          /\ Resolves(l, l.records[r].leaf)
    /\ \A r, q \in RecordsIn(l) :
          l.records[r].credit.owner = l.records[q].credit.owner => r = q

FreeRecords(l) ==
    IsInjective(l.free_records) /\ ToSet(l.free_records) = RecordSlot \ RecordsIn(l)

Base(s) == IF s = 0 THEN Baseline ELSE Zero
InPhase(l, s, p) == {r \in Under(l, s) : l.records[r].credit.phase = p}
Books(l) ==
    \A s \in LiveIn(l) :
        /\ l.nodes[s].used = Plus(Base(s), ChargeOf(CreditsIn(l), Under(l, s)))
        /\ \A p \in Phase : l.nodes[s].counts[p] = Cardinality(InPhase(l, s, p))

(* What the checks of new_child and reserve_into keep. *)
Limits(l) ==
    /\ l.nodes[0].capacity = Capacity
    /\ \A s \in LiveIn(l) :
          /\ \A k \in Kind : l.nodes[s].used[k] <= l.nodes[s].capacity[k]
          /\ Occupied(l.nodes[s]) <= l.nodes[s].record_limit

Tokens(l, t) ==
    /\ t \subseteq Token
    /\ \A x \in t :
          /\ x.slot \in RecordsIn(l)
          /\ l.records[x.slot].credit.owner = x.owner
          /\ l.records[x.slot].credit.phase =
                IF x.kind = "reservation" THEN "Reserved" ELSE "Retained"
    /\ \A r \in RecordsIn(l) :
          l.records[r].credit.phase # "Quarantined" => \E x \in t : x.slot = r

Needed(l, s) == l.nodes[s].handles > 0 \/ l.nodes[s].children > 0 \/ Under(l, s) # {}

Sound(l, h, t) ==
    /\ l \in Ledger /\ ~ l.poisoned
    /\ Tree(l) /\ FreeNodes(l) /\ Family(l) /\ Handles(l, h)
    /\ Owned(l) /\ FreeRecords(l) /\ RecordTotalIsSound(l)
    /\ Books(l) /\ Limits(l) /\ Tokens(l, t)

AllNeeded(l) == \A s \in LiveIn(l) \ {0} : Needed(l, s)

IInv == Sound(state, held, tokens) /\ AllNeeded(state)

(***************************************************************************)
(* Paths.                                                                  *)
(***************************************************************************)
LEMMA Constants ==
    /\ MaxRecords \in Nat \ {0} /\ MaxDomains \in Nat \ {0} /\ MaxDepth \in Nat /\ MaxDepth >= 1
    /\ 0 \in DomainSlot
BY CreditsAssumption, DomainAssumption DEF DomainSlot

LEMMA NodeTypes ==
    ASSUME NEW l \in Ledger, NEW s \in DomainSlot
    PROVE  /\ l.nodes[s] \in Node /\ l.nodes[s].handles \in Nat /\ l.nodes[s].children \in Nat
           /\ l.nodes[s].used \in Vector /\ l.nodes[s].capacity \in Vector
           /\ l.nodes[s].counts \in [Phase -> Nat] /\ l.nodes[s].record_limit \in Nat
           /\ l.nodes[s].key \in Key /\ l.nodes[s].parent \in Key
<1>1. l.nodes[s] \in Node
    BY DEF Ledger
<1> QED BY <1>1 DEF Node

Climbing(f, l, leaf, n) ==
    f = [d \in 1..n |-> IF d = 1 THEN <<leaf>> ELSE Climb(l, f[d - 1])]

LEMMA ClimbingExists ==
    ASSUME NEW l, NEW leaf
    PROVE  \A n \in Nat : \E f : Climbing(f, l, leaf, n)
<1> DEFINE S == {n \in Nat : \E f : Climbing(f, l, leaf, n)}
<1>1. 0 \in S
  <2> DEFINE f == [i \in 1..0 |-> <<leaf>>]
  <2>1. Climbing(f, l, leaf, 0)
      BY DEF Climbing
  <2> QED BY <2>1
<1>2. ASSUME NEW n \in Nat, n \in S
      PROVE  n + 1 \in S
  <2>1. PICK f : Climbing(f, l, leaf, n)
      BY <1>2
  <2> DEFINE h == [d \in 1..(n + 1) |-> IF d <= n THEN f[d]
                                        ELSE IF d = 1 THEN <<leaf>> ELSE Climb(l, f[n])]
  <2>2. Climbing(h, l, leaf, n + 1)
      BY <2>1 DEF Climbing
  <2> QED BY <2>2
<1> QED BY <1>1, <1>2, NatInductionSet

(* domain_path_v1 finds the chain that is there. *)
LEMMA PathOfChain ==
    ASSUME NEW l, NEW leaf, NEW p, Chain(l, leaf, p), l.nodes[0].parent = NoKey
    PROVE  Path(l, leaf) = p
<1> DEFINE f == CHOOSE g : Climbing(g, l, leaf, MaxDepth)
<1>1. Climbing(f, l, leaf, MaxDepth)
    BY ClimbingExists, Constants
<1>2. Path(l, leaf) = f[MaxDepth]
    BY DEF Path, Climbing
<1> HIDE DEF f
<1>3. PICK n : n = Len(p)
    OBVIOUS
<1>4. /\ p \in Seq(Key) /\ n \in 1..MaxDepth /\ p[1] = leaf /\ p[n] = ROOT /\ MaxDepth \in Nat
      /\ \A i \in 1..(n - 1) : l.nodes[p[i].slot].parent = p[i + 1] /\ p[i + 1].generation >= 1
    BY <1>3, Constants DEF Chain
<1>5. /\ f[1] = <<leaf>>
      /\ \A d \in 1..(MaxDepth - 1) : f[d + 1] = Climb(l, f[d])
    BY <1>1, <1>4 DEF Climbing
<1> DEFINE Top(d) == IF d < n THEN d ELSE n
           S == {i \in Nat : i \in 1..MaxDepth => f[i] = SubSeq(p, 1, Top(i))}
<1>6. 0 \in S
    OBVIOUS
<1>7. ASSUME NEW i \in Nat, i \in S
      PROVE  i + 1 \in S
  <2> SUFFICES ASSUME i + 1 \in 1..MaxDepth
               PROVE  f[i + 1] = SubSeq(p, 1, Top(i + 1))
      OBVIOUS
  <2>1. CASE i = 0
    <3>1. Top(i + 1) = 1 /\ i + 1 = 1
        BY <1>4, <2>1
    <3>2. SubSeq(p, 1, 1) = <<p[1]>>
      <4>1. PICK q : q = SubSeq(p, 1, 1)
          OBVIOUS
      <4>2. Len(q) = 1 /\ q[1] = p[1] /\ q \in Seq(Key)
          BY <1>3, <1>4, <4>1
      <4>3. PICK s : s = <<p[1]>>
          OBVIOUS
      <4>4. p[1] \in Key
          BY <1>3, <1>4
      <4>5. s \in Seq(Key) /\ Len(s) = 1 /\ s[1] = p[1]
          BY <4>3, <4>4
      <4>6. Len(q) = Len(s) /\ \A j \in 1..Len(q) : q[j] = s[j]
          BY <4>2, <4>5
      <4>7. q = s
          BY <4>2, <4>5, <4>6, SeqEqual
      <4> QED BY <4>1, <4>3, <4>7
    <3> QED BY <1>4, <1>5, <3>1, <3>2
  <2>2. CASE i # 0
    <3>1. PICK q : q = SubSeq(p, 1, Top(i))
        OBVIOUS
    <3>2. i \in 1..(MaxDepth - 1) /\ f[i] = q
        BY <1>4, <1>7, <2>2, <3>1
    <3>3. f[i + 1] = Climb(l, q)
        BY <1>5, <3>2
    <3>4. Len(q) = Top(i) /\ q[Len(q)] = p[Top(i)] /\ q \in Seq(Key)
        BY <1>3, <1>4, <3>1, <3>2
    <3>5. CASE i < n
      <4>1. l.nodes[Last(q).slot].parent = p[i + 1] /\ p[i + 1] # NoKey
          BY <1>4, <3>2, <3>4, <3>5 DEF Last, NoKey
      <4>2. Climb(l, q) = Append(q, p[i + 1])
          BY <4>1 DEF Climb
      <4>3. Append(SubSeq(p, 1, i), p[i + 1]) = SubSeq(p, 1, i + 1)
          BY <1>3, <1>4, <3>2, <3>5
      <4>4. Top(i) = i /\ Top(i + 1) = i + 1
          BY <1>4, <3>2, <3>5
      <4> QED BY <3>1, <3>3, <4>2, <4>3, <4>4
    <3>6. CASE i >= n
      <4>1. Top(i) = n /\ Top(i + 1) = n
          BY <1>4, <3>2, <3>6
      <4>2. l.nodes[Last(q).slot].parent = NoKey
          BY <1>4, <3>4, <4>1 DEF Last, ROOT
      <4>3. Climb(l, q) = q
          BY <4>2 DEF Climb
      <4> QED BY <3>1, <3>3, <4>1, <4>3
    <3> QED BY <1>4, <3>5, <3>6
  <2> QED BY <2>1, <2>2
<1>8. \A i \in Nat : i \in S
    BY <1>6, <1>7, NatInductionSet
<1>9. f[MaxDepth] = SubSeq(p, 1, Top(MaxDepth)) /\ Top(MaxDepth) = n
    BY <1>4, <1>8
<1> QED BY <1>2, <1>3, <1>4, <1>9

LEMMA ChainKept ==
    ASSUME NEW l, NEW l2, NEW leaf, NEW p, Chain(l, leaf, p),
           \A i \in 1..Len(p) : /\ l2.nodes[p[i].slot].key = l.nodes[p[i].slot].key
                                /\ l2.nodes[p[i].slot].parent = l.nodes[p[i].slot].parent
    PROVE  Chain(l2, leaf, p)
BY DEF Chain, Resolves

(* A key that resolves is the key of a live domain. *)
LEMMA ResolvesIsLive ==
    ASSUME NEW l, Tree(l), NEW key, Resolves(l, key)
    PROVE  key.slot \in LiveIn(l) /\ l.nodes[key.slot].key = key
<1>1. key.slot \in DomainSlot /\ l.nodes[key.slot].key = key /\ l.nodes[0].key = ROOT
    BY DEF Resolves, Tree
<1>2. ASSUME l.nodes[key.slot] = NoNode
      PROVE  FALSE
  <2>1. NoNode.key = NoKey /\ NoKey.slot = 0 /\ NoKey.generation = 0 /\ ROOT.generation = 1
      BY DEF NoNode, NoKey, ROOT
  <2>2. key = NoKey
      BY <1>1, <1>2, <2>1
  <2> QED BY <1>1, <2>1, <2>2
<1> QED BY <1>1, <1>2 DEF LiveIn

LEMMA PathOfKey ==
    ASSUME NEW l, Tree(l), NEW key, Resolves(l, key)
    PROVE  Chain(l, key, Path(l, key))
BY ResolvesIsLive DEF Tree

(* What a chain says of the path: its domains are live and distinct. *)
LEMMA OnPathIsLive ==
    ASSUME NEW l, Tree(l), NEW key, Resolves(l, key)
    PROVE  /\ OnPath(l, key) \subseteq LiveIn(l) /\ 0 \in OnPath(l, key)
           /\ key.slot \in OnPath(l, key)
           /\ PathIsSound(l, key)
           /\ \A s \in LiveIn(l) : s \in OnPath(l, key) <=> l.nodes[s].key \in ToSet(Path(l, key))
<1>1. PICK p : p = Path(l, key)
    OBVIOUS
<1>2. Chain(l, key, p)
    BY <1>1, PathOfKey
<1>3. /\ p \in Seq(Key) /\ Len(p) >= 1 /\ Len(p) \in Nat /\ p[1] = key /\ p[Len(p)] = ROOT
      /\ \A i \in 1..Len(p) : Resolves(l, p[i])
    BY <1>2, Constants DEF Chain
<1>4. ToSet(p) = {p[i] : i \in 1..Len(p)}
    BY <1>3 DEF ToSet
<1>5. OnPath(l, key) = {p[i].slot : i \in 1..Len(p)}
    BY <1>1, <1>4 DEF OnPath
<1>6. \A i \in 1..Len(p) : p[i].slot \in LiveIn(l) /\ l.nodes[p[i].slot].key = p[i]
    BY <1>3, ResolvesIsLive
<1>7. ROOT.slot = 0
    BY DEF ROOT
<1>8. OnPath(l, key) \subseteq LiveIn(l) /\ 0 \in OnPath(l, key) /\ key.slot \in OnPath(l, key)
    BY <1>3, <1>5, <1>6, <1>7
<1>9. PathIsSound(l, key)
    BY <1>1, <1>3 DEF PathIsSound, Last
<1>10. ASSUME NEW s \in LiveIn(l)
       PROVE  s \in OnPath(l, key) <=> l.nodes[s].key \in ToSet(Path(l, key))
  <2>1. l.nodes[s].key.slot = s
      BY DEF Tree
  <2> QED BY <1>1, <1>4, <1>5, <1>6, <2>1
<1> QED BY <1>8, <1>9, <1>10

LEMMA PathSlotsDistinct ==
    ASSUME NEW l, Tree(l), NEW key, Resolves(l, key), NEW p, p = Path(l, key)
    PROVE  \A i, j \in 1..Len(p) : p[i].slot = p[j].slot => i = j
<1>1. Chain(l, key, p)
    BY PathOfKey
<1>2. /\ p \in Seq(Key) /\ Len(p) \in Nat
      /\ \A i \in 1..Len(p) : l.nodes[p[i].slot].key = p[i]
      /\ \A i, j \in 1..Len(p) : i < j => p[j].generation < p[i].generation
    BY <1>1 DEF Chain, Resolves
<1> SUFFICES ASSUME NEW i \in 1..Len(p), NEW j \in 1..Len(p), p[i].slot = p[j].slot
             PROVE  i = j
    OBVIOUS
<1>3. p[i] = p[j]
    BY <1>2
<1>4. p[i] \in Key
    BY <1>2
<1>5. p[i].generation \in Nat
    BY <1>4 DEF Key
<1> QED BY <1>2, <1>3, <1>5

(***************************************************************************)
(* Steps that leave the tree alone.                                        *)
(***************************************************************************)
SameTree(l, l2) ==
    /\ l2.next_node = l.next_node /\ l2.free_nodes = l.free_nodes
    /\ \A s \in DomainSlot :
          /\ l2.nodes[s].key = l.nodes[s].key /\ l2.nodes[s].parent = l.nodes[s].parent
          /\ l2.nodes[s].capacity = l.nodes[s].capacity
          /\ l2.nodes[s].record_limit = l.nodes[s].record_limit
          /\ s \notin LiveIn(l) => l2.nodes[s] = l.nodes[s]

SamePaths(l, l2) ==
    /\ LiveIn(l2) = LiveIn(l)
    /\ \A key : Resolves(l2, key) <=> Resolves(l, key)
    /\ \A key : Resolves(l, key) => Path(l2, key) = Path(l, key)
    /\ \A s \in LiveIn(l) : ChildrenIn(l2, s) = ChildrenIn(l, s)
                            /\ l2.nodes[s].key = l.nodes[s].key

LEMMA SameTreeKept ==
    ASSUME NEW l, NEW l2, Tree(l), SameTree(l, l2)
    PROVE  /\ Tree(l2) /\ SamePaths(l, l2)
           /\ FreeNodes(l) => FreeNodes(l2)
<1>1. LiveIn(l2) = LiveIn(l)
  <2> SUFFICES ASSUME NEW s \in DomainSlot
               PROVE  l2.nodes[s] = NoNode <=> l.nodes[s] = NoNode
      BY DEF LiveIn
  <2>1. CASE l.nodes[s] = NoNode
      BY <2>1 DEF SameTree, LiveIn
  <2>2. CASE l.nodes[s] # NoNode
    <3>1. l.nodes[s].key.generation \in 1..(l.next_node - 1)
        BY <2>2 DEF Tree, LiveIn
    <3>2. l2.nodes[s].key.generation # 0
        BY <3>1 DEF SameTree
    <3>3. NoNode.key.generation = 0
        BY DEF NoNode, NoKey
    <3> QED BY <2>2, <3>2, <3>3
  <2> QED BY <2>1, <2>2
<1>2. \A key : Resolves(l2, key) <=> Resolves(l, key)
    BY DEF Resolves, SameTree
<1>3. l2.nodes[0].key = ROOT /\ l2.nodes[0].parent = NoKey
    BY Constants DEF SameTree, Tree
<1>4. ASSUME NEW key, Resolves(l, key)
      PROVE  Path(l2, key) = Path(l, key) /\ Chain(l2, key, Path(l2, key))
  <2>1. PICK p : p = Path(l, key)
      OBVIOUS
  <2>2. Chain(l, key, p)
      BY <1>4, <2>1, PathOfKey
  <2>3. \A i \in 1..Len(p) : p[i].slot \in DomainSlot
      BY <2>2 DEF Chain, Resolves
  <2>4. Chain(l2, key, p)
      BY <2>2, <2>3, ChainKept DEF SameTree
  <2>5. Path(l2, key) = p
      BY <1>3, <2>4, PathOfChain
  <2> QED BY <2>1, <2>4, <2>5
<1>5. ASSUME NEW s \in LiveIn(l)
      PROVE  /\ l2.nodes[s].key.slot = s
             /\ l2.nodes[s].key.generation \in 1..(l2.next_node - 1)
             /\ Chain(l2, l2.nodes[s].key, Path(l2, l2.nodes[s].key))
  <2>1. /\ s \in DomainSlot /\ l.nodes[s].key.slot = s
        /\ l.nodes[s].key.generation \in 1..(l.next_node - 1)
      BY DEF Tree, LiveIn
  <2>2. Resolves(l, l.nodes[s].key)
      BY <2>1 DEF Resolves
  <2>3. l2.nodes[s].key = l.nodes[s].key /\ l2.next_node = l.next_node
      BY <2>1 DEF SameTree
  <2>4. Chain(l2, l.nodes[s].key, Path(l2, l.nodes[s].key))
      BY <1>4, <2>2
  <2> QED BY <2>1, <2>3, <2>4
<1>6. Tree(l2)
    BY <1>1, <1>3, <1>5 DEF Tree
<1>7. ASSUME NEW s \in LiveIn(l)
      PROVE  ChildrenIn(l2, s) = ChildrenIn(l, s) /\ l2.nodes[s].key = l.nodes[s].key
  <2>1. \A d \in LiveIn(l) : d \in DomainSlot
      BY DEF LiveIn
  <2> QED BY <1>1, <2>1 DEF ChildrenIn, SameTree
<1>8. SamePaths(l, l2)
    BY <1>1, <1>2, <1>4, <1>7 DEF SamePaths
<1>9. FreeNodes(l) => FreeNodes(l2)
    BY <1>1 DEF FreeNodes, SameTree
<1> QED BY <1>6, <1>8, <1>9

(* A resolved key is the key of the node that it names. *)
LEMMA LiveResolves ==
    ASSUME NEW l, Tree(l), NEW s \in LiveIn(l)
    PROVE  Resolves(l, l.nodes[s].key) /\ l.nodes[s].key.slot = s
BY DEF Tree, Resolves, LiveIn

(* The records of a domain, from the paths of their leaves. *)
LEMMA UnderIs ==
    ASSUME NEW l, Tree(l), Owned(l), NEW s \in LiveIn(l)
    PROVE  Under(l, s) = {r \in RecordsIn(l) : s \in OnPath(l, l.records[r].leaf)}
<1>1. ASSUME NEW r \in RecordsIn(l)
      PROVE  s \in OnPath(l, l.records[r].leaf)
                <=> l.nodes[s].key \in ToSet(Path(l, l.records[r].leaf))
  <2>1. Resolves(l, l.records[r].leaf)
      BY DEF Owned
  <2> QED BY <2>1, OnPathIsLive
<1> QED BY <1>1 DEF Under

LEMMA FiniteRecords ==
    ASSUME NEW l
    PROVE  /\ IsFiniteSet(RecordSlot) /\ IsFiniteSet(RecordsIn(l))
           /\ \A s : /\ IsFiniteSet(Under(l, s)) /\ Cardinality(Under(l, s)) \in Nat
                     /\ \A p : IsFiniteSet(InPhase(l, s, p)) /\ Cardinality(InPhase(l, s, p)) \in Nat
<1>1. IsFiniteSet(RecordSlot)
    BY Constants, FS_Interval DEF RecordSlot
<1>2. RecordsIn(l) \subseteq RecordSlot
    BY DEF RecordsIn
<1>3. \A s : Under(l, s) \subseteq RecordSlot
    BY DEF Under, RecordsIn
<1>4. \A s, p : InPhase(l, s, p) \subseteq RecordSlot
    BY <1>3 DEF InPhase
<1>5. ASSUME NEW A, A \subseteq RecordSlot
      PROVE  IsFiniteSet(A) /\ Cardinality(A) \in Nat
    BY <1>1, <1>5, FS_Subset, FS_CardinalityType
<1> QED BY <1>1, <1>2, <1>3, <1>4, <1>5

LEMMA OccupiedIs ==
    ASSUME NEW l, Owned(l), Books(l), NEW s \in LiveIn(l)
    PROVE  Occupied(l.nodes[s]) = Cardinality(Under(l, s))
<1> DEFINE A == InPhase(l, s, "Reserved")
           B == InPhase(l, s, "Retained")
           C == InPhase(l, s, "Quarantined")
<1>1. /\ IsFiniteSet(A) /\ IsFiniteSet(B) /\ IsFiniteSet(C)
      /\ Cardinality(A) \in Nat /\ Cardinality(B) \in Nat /\ Cardinality(C) \in Nat
    BY FiniteRecords
<1>2. Under(l, s) = (A \cup B) \cup C
    BY DEF InPhase, Owned, Phase, Under
<1>3. A \cap B = {} /\ (A \cup B) \cap C = {}
    BY DEF InPhase
<1> HIDE DEF A, B, C
<1>4. Cardinality(A \cup B) = Cardinality(A) + Cardinality(B) /\ IsFiniteSet(A \cup B)
    BY <1>1, <1>3, FS_Union, FS_EmptySet
<1>5. Cardinality((A \cup B) \cup C) = Cardinality(A \cup B) + Cardinality(C)
  <2>1. PICK D : D = A \cup B
      OBVIOUS
  <2>2. IsFiniteSet(D) /\ D \cap C = {} /\ Cardinality(D) \in Nat
      BY <1>1, <1>3, <1>4, <2>1
  <2>3. Cardinality(D \cup C) = Cardinality(D) + Cardinality(C)
      BY <1>1, <2>2, FS_Union, FS_EmptySet, SMTT(30)
  <2> QED BY <2>1, <2>3
<1>6. Occupied(l.nodes[s]) = (Cardinality(A) + Cardinality(B)) + Cardinality(C)
    BY DEF Occupied, Books, Phase, A, B, C
<1> QED BY <1>2, <1>4, <1>5, <1>6

LEMMA RootHasAll ==
    ASSUME NEW l, Tree(l), Owned(l)
    PROVE  0 \in LiveIn(l) /\ Under(l, 0) = RecordsIn(l)
<1>1. 0 \in LiveIn(l)
    BY Constants DEF LiveIn, Tree, NoNode, NoKey, ROOT
<1>2. \A r \in RecordsIn(l) : 0 \in OnPath(l, l.records[r].leaf)
    BY OnPathIsLive DEF Owned
<1> QED BY <1>1, <1>2, UnderIs

(* The records, and what the domains show of them, are untouched. *)
SameBooks(l, l2) ==
    /\ l2.records = l.records /\ l2.free_records = l.free_records
    /\ l2.next_owner = l.next_owner
    /\ \A s \in DomainSlot :
          l2.nodes[s].used = l.nodes[s].used /\ l2.nodes[s].counts = l.nodes[s].counts

LEMMA SameBooksKept ==
    ASSUME NEW l, NEW l2, NEW h, NEW t, Sound(l, h, t), SameTree(l, l2), SameBooks(l, l2)
    PROVE  /\ Owned(l2) /\ FreeRecords(l2) /\ RecordTotalIsSound(l2)
           /\ Books(l2) /\ Limits(l2) /\ Tokens(l2, t)
           /\ \A s \in LiveIn(l) : Under(l2, s) = Under(l, s)
<1>0. /\ Tree(l) /\ Owned(l) /\ FreeRecords(l) /\ RecordTotalIsSound(l)
      /\ Books(l) /\ Limits(l) /\ Tokens(l, t)
    BY DEF Sound
<1>1. SamePaths(l, l2)
    BY <1>0, SameTreeKept
<1>2. RecordsIn(l2) = RecordsIn(l) /\ CreditsIn(l2) = CreditsIn(l) /\ l2.records = l.records
    BY DEF RecordsIn, CreditsIn, SameBooks
<1>3. Owned(l2)
    BY <1>0, <1>1, <1>2 DEF Owned, SamePaths, SameBooks
<1>4. FreeRecords(l2)
    BY <1>0, <1>2 DEF FreeRecords, SameBooks
<1>5. RecordTotalIsSound(l2)
    BY <1>0, Constants DEF RecordTotalIsSound, Occupied, SameBooks
<1>6. ASSUME NEW s \in LiveIn(l)
      PROVE  Under(l2, s) = Under(l, s)
  <2>1. l2.nodes[s].key = l.nodes[s].key
      BY <1>1 DEF SamePaths
  <2>2. \A r \in RecordsIn(l) : Path(l2, l2.records[r].leaf) = Path(l, l.records[r].leaf)
      BY <1>0, <1>1, <1>2 DEF Owned, SamePaths
  <2> QED BY <1>2, <2>1, <2>2 DEF Under
<1>7. \A s \in LiveIn(l) : \A p : InPhase(l2, s, p) = InPhase(l, s, p)
    BY <1>2, <1>6 DEF InPhase
<1>8. \A s \in LiveIn(l) : /\ s \in DomainSlot
                           /\ l2.nodes[s].used = l.nodes[s].used
                           /\ l2.nodes[s].counts = l.nodes[s].counts
                           /\ l2.nodes[s].capacity = l.nodes[s].capacity
                           /\ l2.nodes[s].record_limit = l.nodes[s].record_limit
    BY DEF LiveIn, SameBooks, SameTree
<1>9. LiveIn(l2) = LiveIn(l)
    BY <1>1 DEF SamePaths
<1>10. Books(l2)
    BY <1>0, <1>2, <1>6, <1>7, <1>8, <1>9 DEF Books
<1>11. Limits(l2)
    BY <1>0, <1>8, <1>9, Constants DEF Limits, Occupied, SameTree
<1>12. Tokens(l2, t)
    BY <1>0, <1>2 DEF Tokens
<1> QED BY <1>3, <1>4, <1>5, <1>6, <1>10, <1>11, <1>12

SameFamily(l, l2) == \A s \in DomainSlot : l2.nodes[s].children = l.nodes[s].children

LEMMA SameFamilyKept ==
    ASSUME NEW l, NEW l2, Tree(l), Family(l), SameTree(l, l2), SameFamily(l, l2)
    PROVE  Family(l2)
<1>1. SamePaths(l, l2)
    BY SameTreeKept
<1>2. \A s \in LiveIn(l) : s \in DomainSlot
    BY DEF LiveIn
<1> QED BY <1>1, <1>2 DEF Family, SamePaths, SameFamily

SameHandles(l, l2) == \A s \in DomainSlot : l2.nodes[s].handles = l.nodes[s].handles

LEMMA SameHandlesKept ==
    ASSUME NEW l, NEW l2, NEW h, Tree(l), Handles(l, h), SameTree(l, l2), SameHandles(l, l2)
    PROVE  Handles(l2, h)
<1>1. SamePaths(l, l2)
    BY SameTreeKept
<1>2. \A s \in LiveIn(l) : s \in DomainSlot
    BY DEF LiveIn
<1> QED BY <1>1, <1>2 DEF Handles, SamePaths, SameHandles

(***************************************************************************)
(* Handles.                                                                *)
(***************************************************************************)
HandlesOf(l, slot, n) == [l EXCEPT !.nodes[slot].handles = n]
HandleStep(l, l2, slot, n) ==
    /\ SameTree(l, l2) /\ SameBooks(l, l2) /\ SameFamily(l, l2)
    /\ l2.poisoned = l.poisoned /\ l2.anchored = l.anchored
    /\ \A s \in DomainSlot : l2.nodes[s].handles = IF s = slot THEN n ELSE l.nodes[s].handles

LEMMA HandlesOfIs ==
    ASSUME NEW l \in Ledger, NEW slot \in LiveIn(l), NEW n \in Nat, NEW l2, l2 = HandlesOf(l, slot, n),
           Tree(l)
    PROVE  l2 \in Ledger /\ HandleStep(l, l2, slot, n)
<1>0. slot \in DomainSlot
    BY DEF LiveIn
<1>1. l.nodes \in [DomainSlot -> Node] /\ l.nodes[slot] \in Node
    BY <1>0 DEF Ledger
<1>2. PICK node : node = [l.nodes[slot] EXCEPT !.handles = n]
    OBVIOUS
<1>3. /\ node \in Node /\ node.handles = n
      /\ node.key = l.nodes[slot].key /\ node.parent = l.nodes[slot].parent
      /\ node.capacity = l.nodes[slot].capacity /\ node.record_limit = l.nodes[slot].record_limit
      /\ node.used = l.nodes[slot].used /\ node.counts = l.nodes[slot].counts
      /\ node.children = l.nodes[slot].children
    BY <1>1, <1>2 DEF Node
<1>4. PICK nodes : nodes = [l.nodes EXCEPT ![slot] = node]
    OBVIOUS
<1>5. /\ nodes \in [DomainSlot -> Node]
      /\ \A s \in DomainSlot : nodes[s] = IF s = slot THEN node ELSE l.nodes[s]
    BY <1>0, <1>1, <1>3, <1>4
<1>6. l2 = [l EXCEPT !.nodes = nodes]
    BY <1>2, <1>4 DEF HandlesOf
<1>7. /\ l2 \in Ledger /\ l2.nodes = nodes
      /\ l2.free_nodes = l.free_nodes /\ l2.records = l.records
      /\ l2.free_records = l.free_records /\ l2.next_node = l.next_node
      /\ l2.next_owner = l.next_owner /\ l2.poisoned = l.poisoned /\ l2.anchored = l.anchored
    BY <1>5, <1>6 DEF Ledger
<1>8. SameTree(l, l2)
    BY <1>3, <1>5, <1>7 DEF SameTree
<1>9. SameBooks(l, l2) /\ SameFamily(l, l2)
    BY <1>3, <1>5, <1>7 DEF SameBooks, SameFamily
<1> QED BY <1>3, <1>5, <1>7, <1>8, <1>9 DEF HandleStep

IsBag(h) == h \in [DOMAIN h -> Nat \ {0}]
With(h, key) == h (+) SetToBag({key})
Without(h, key) == h (-) SetToBag({key})
ChangedTo(h, h2, key, n) ==
    /\ IsBag(h2) /\ DOMAIN h2 \subseteq DOMAIN h \cup {key}
    /\ \A k : Copies(h2, k) = IF k = key THEN n ELSE Copies(h, k)

LEMMA HoldIs ==
    ASSUME NEW h, IsBag(h), NEW key, NEW h2, h2 = With(h, key)
    PROVE  ChangedTo(h, h2, key, Copies(h, key) + 1)
<1>1. h2 = [e \in DOMAIN h \cup {key} |-> Copies(h, e) + (IF e = key THEN 1 ELSE 0)]
    BY DEF With, SetToBag, Copies, (+)
<1>2. \A e : Copies(h, e) \in Nat /\ (e \in DOMAIN h => Copies(h, e) # 0)
    BY DEF Copies, IsBag
<1>3. DOMAIN h2 = DOMAIN h \cup {key}
    BY <1>1
<1>4. \A e \in DOMAIN h2 : h2[e] = Copies(h, e) + (IF e = key THEN 1 ELSE 0)
    BY <1>1, <1>3
<1>5. \A e \in DOMAIN h2 : h2[e] \in Nat \ {0}
    BY <1>2, <1>3, <1>4
<1>6. IsBag(h2)
    BY <1>1, <1>3, <1>5 DEF IsBag
<1>7. ASSUME NEW k
      PROVE  Copies(h2, k) = IF k = key THEN Copies(h, key) + 1 ELSE Copies(h, k)
  <2>1. CASE k \in DOMAIN h2
    <3>1. Copies(h2, k) = Copies(h, k) + (IF k = key THEN 1 ELSE 0)
        BY <1>4, <2>1 DEF Copies
    <3> QED BY <1>2, <3>1
  <2>2. CASE k \notin DOMAIN h2
      BY <1>3, <2>2 DEF Copies
  <2> QED BY <2>1, <2>2
<1> QED BY <1>3, <1>6, <1>7 DEF ChangedTo

LEMMA LetGoIs ==
    ASSUME NEW h, IsBag(h), NEW key \in DOMAIN h, NEW h2, h2 = Without(h, key)
    PROVE  ChangedTo(h, h2, key, h[key] - 1)
<1> DEFINE B == [e \in DOMAIN h |-> h[e] - (IF e = key THEN 1 ELSE 0)]
<1>0. \A e \in DOMAIN h : h[e] \in Nat \ {0}
    BY DEF IsBag
<1>1. B = [e \in DOMAIN h |-> IF e \in DOMAIN SetToBag({key}) THEN h[e] - SetToBag({key})[e] ELSE h[e]]
    BY <1>0 DEF SetToBag
<1>2. h2 = [e \in {d \in DOMAIN B : B[d] > 0} |-> B[e]]
    BY <1>1 DEF Without, (-)
<1>3. DOMAIN h2 = {d \in DOMAIN h : h[d] - (IF d = key THEN 1 ELSE 0) > 0}
    BY <1>2
<1>4. \A e \in DOMAIN h2 : h2[e] = h[e] - (IF e = key THEN 1 ELSE 0)
    BY <1>2, <1>3
<1>5. \A e \in DOMAIN h2 : h2[e] \in Nat \ {0}
    BY <1>0, <1>3, <1>4
<1>6. IsBag(h2)
    BY <1>2, <1>5 DEF IsBag
<1>7. ASSUME NEW k
      PROVE  Copies(h2, k) = IF k = key THEN h[key] - 1 ELSE Copies(h, k)
  <2>1. CASE k \in DOMAIN h2
      BY <1>0, <1>3, <1>4, <2>1 DEF Copies
  <2>2. CASE k \notin DOMAIN h2
      BY <1>0, <1>3, <2>2 DEF Copies
  <2> QED BY <2>1, <2>2
<1> QED BY <1>3, <1>6, <1>7 DEF ChangedTo

(* A change of the handles of one domain, in the ledger and outside. *)
LEMMA HandlesChange ==
    ASSUME NEW l, NEW h, NEW t, Sound(l, h, t), NEW key \in Key, Resolves(l, key),
           NEW n \in Nat, NEW l2, l2 = HandlesOf(l, key.slot, n),
           NEW h2, ChangedTo(h, h2, key, n)
    PROVE  Sound(l2, h2, t) /\ HandleStep(l, l2, key.slot, n)
<1>0. l \in Ledger /\ ~ l.poisoned /\ Tree(l) /\ FreeNodes(l) /\ Family(l) /\ Handles(l, h)
    BY DEF Sound
<1>1. key.slot \in LiveIn(l) /\ l.nodes[key.slot].key = key
    BY <1>0, ResolvesIsLive
<1>h. l2 \in Ledger /\ HandleStep(l, l2, key.slot, n)
    BY <1>0, <1>1, HandlesOfIs
<1>2. /\ l2 \in Ledger /\ SameTree(l, l2) /\ SameBooks(l, l2) /\ SameFamily(l, l2)
      /\ l2.poisoned = l.poisoned /\ l2.anchored = l.anchored
      /\ \A s \in DomainSlot :
            l2.nodes[s].handles = IF s = key.slot THEN n ELSE l.nodes[s].handles
    BY <1>h DEF HandleStep
<1>3. Tree(l2) /\ FreeNodes(l2) /\ SamePaths(l, l2)
    BY <1>0, <1>2, SameTreeKept
<1>4. Family(l2)
    BY <1>0, <1>2, SameFamilyKept
<1>5. /\ Owned(l2) /\ FreeRecords(l2) /\ RecordTotalIsSound(l2)
      /\ Books(l2) /\ Limits(l2) /\ Tokens(l2, t)
    BY <1>2, SameBooksKept
<1>6. Handles(l2, h2)
  <2>1. h2 \in [DOMAIN h2 -> Nat \ {0}]
      BY DEF IsBag, ChangedTo
  <2>2. \A k \in DOMAIN h2 : k \in Key /\ Resolves(l2, k)
      BY <1>0, <1>3 DEF Handles, SamePaths, ChangedTo
  <2>3. ASSUME NEW s \in LiveIn(l2)
        PROVE  l2.nodes[s].handles = Copies(h2, l2.nodes[s].key)
    <3>1. s \in LiveIn(l) /\ l2.nodes[s].key = l.nodes[s].key /\ s \in DomainSlot
        BY <1>3 DEF SamePaths, LiveIn
    <3>2. l.nodes[s].key = key <=> s = key.slot
        BY <1>0, <1>1, <3>1 DEF Tree
    <3>3. l.nodes[s].handles = Copies(h, l.nodes[s].key)
        BY <1>0, <3>1 DEF Handles
    <3> QED BY <1>2, <3>1, <3>2, <3>3 DEF ChangedTo
  <2> QED BY <2>1, <2>2, <2>3 DEF Handles
<1> QED BY <1>0, <1>h, <1>2, <1>3, <1>4, <1>5, <1>6 DEF Sound

(* DomainAccount::clone and account_for_record *)
LEMMA AddHandleKeeps ==
    ASSUME NEW l, NEW h, NEW t, Sound(l, h, t), AllNeeded(l), NEW key \in Key, Resolves(l, key),
           NEW l2, l2 = [l EXCEPT !.nodes[key.slot].handles = @ + 1],
           NEW h2, h2 = With(h, key)
    PROVE  /\ Sound(l2, h2, t) /\ AllNeeded(l2) /\ SameBooks(l, l2)
           /\ l2.poisoned = l.poisoned /\ l2.anchored = l.anchored
<1>0. l \in Ledger /\ Tree(l) /\ Handles(l, h)
    BY DEF Sound
<1>1. key.slot \in LiveIn(l) /\ l.nodes[key.slot].key = key /\ key.slot \in DomainSlot
    BY <1>0, ResolvesIsLive DEF LiveIn
<1>2. PICK n : n = l.nodes[key.slot].handles + 1
    OBVIOUS
<1>3. l.nodes[key.slot].handles \in Nat /\ l.nodes[key.slot].handles = Copies(h, key) /\ n \in Nat
    BY <1>0, <1>1, <1>2 DEF Handles, Ledger, Node
<1>4. l2 = HandlesOf(l, key.slot, n)
    BY <1>2 DEF HandlesOf
<1>5. IsBag(h)
    BY <1>0 DEF Handles, IsBag
<1>6. ChangedTo(h, h2, key, n)
    BY <1>2, <1>3, <1>5, HoldIs
<1>8. Sound(l2, h2, t) /\ HandleStep(l, l2, key.slot, n)
    BY <1>3, <1>4, <1>6, HandlesChange
<1>9. /\ Sound(l2, h2, t) /\ SameTree(l, l2) /\ SameBooks(l, l2) /\ SameFamily(l, l2)
      /\ l2.poisoned = l.poisoned /\ l2.anchored = l.anchored
      /\ \A s \in DomainSlot :
            l2.nodes[s].handles = IF s = key.slot THEN n ELSE l.nodes[s].handles
    BY <1>8 DEF HandleStep
<1>10. AllNeeded(l2)
  <2>1. LiveIn(l2) = LiveIn(l)
      BY <1>0, <1>9, SameTreeKept DEF SamePaths
  <2>2. \A s \in LiveIn(l) : Under(l2, s) = Under(l, s)
      BY <1>9, SameBooksKept
  <2>3. ASSUME NEW s \in LiveIn(l)
        PROVE  l2.nodes[s].handles >= l.nodes[s].handles /\ l2.nodes[s].children = l.nodes[s].children
               /\ l.nodes[s].handles \in Nat /\ l2.nodes[s].handles \in Nat
    <3>1. s \in DomainSlot
        BY DEF LiveIn
    <3>2. l.nodes[s].handles \in Nat
        BY <1>0, <3>1 DEF Ledger, Node
    <3> QED BY <1>2, <1>3, <1>9, <3>1, <3>2 DEF SameFamily
  <2> QED BY <2>1, <2>2, <2>3 DEF AllNeeded, Needed
<1> QED BY <1>9, <1>10

(***************************************************************************)
(* New domains.                                                            *)
(***************************************************************************)
LEMMA PathStays ==
    ASSUME NEW l, NEW l2, Tree(l), l2.nodes[0].parent = NoKey, NEW key, Resolves(l, key),
           \A s \in OnPath(l, key) : /\ l2.nodes[s].key = l.nodes[s].key
                                     /\ l2.nodes[s].parent = l.nodes[s].parent
    PROVE  Path(l2, key) = Path(l, key) /\ Chain(l2, key, Path(l2, key))
<1>1. PICK p : p = Path(l, key)
    OBVIOUS
<1>2. Chain(l, key, p)
    BY <1>1, PathOfKey
<1>3. \A i \in 1..Len(p) : p[i].slot \in OnPath(l, key)
    BY <1>1, <1>2 DEF OnPath, ToSet, Chain
<1>4. Chain(l2, key, p)
    BY <1>2, <1>3, ChainKept
<1>5. Path(l2, key) = p
    BY <1>4, PathOfChain
<1> QED BY <1>1, <1>4, <1>5

LEMMA ParentIsLive ==
    ASSUME NEW l, Tree(l), NEW d \in LiveIn(l)
    PROVE  IF d = 0 THEN l.nodes[d].parent = NoKey
           ELSE /\ Resolves(l, l.nodes[d].parent) /\ l.nodes[d].parent.slot \in LiveIn(l)
                /\ l.nodes[d].parent.slot \in OnPath(l, l.nodes[d].key)
<1>1. CASE d = 0
    BY <1>1 DEF Tree
<1>2. CASE d # 0
  <2>1. PICK p : p = Path(l, l.nodes[d].key)
      OBVIOUS
  <2>2. Chain(l, l.nodes[d].key, p) /\ l.nodes[d].key.slot = d
      BY <2>1 DEF Tree
  <2>3. p[1].slot = d /\ p[Len(p)].slot = 0 /\ Len(p) \in Nat /\ Len(p) >= 1 /\ p \in Seq(Key)
      BY <2>2, Constants DEF Chain, ROOT
  <2>4. Len(p) >= 2
      BY <1>2, <2>3
  <2>5. l.nodes[d].parent = p[2] /\ Resolves(l, p[2])
    <3>1. 1 \in 1..(Len(p) - 1) /\ 2 \in 1..Len(p)
        BY <2>3, <2>4
    <3> QED BY <2>2, <2>3, <3>1 DEF Chain
  <2>6. p[2].slot \in OnPath(l, l.nodes[d].key)
      BY <2>1, <2>3, <2>4 DEF OnPath, ToSet
  <2> QED BY <1>2, <2>5, <2>6, ResolvesIsLive
<1> QED BY <1>1, <1>2

ChildOf(l, parent, key, capacity, limit) ==
    [l EXCEPT !.free_nodes = Front(@),
              !.next_node = @ + 1,
              !.nodes[parent.slot].children = @ + 1,
              !.nodes[key.slot] = NewNode(key, parent, capacity, limit)]

(* What new_child does, domain by domain. *)
ChildStep(l, l2, parent, key, capacity, limit) ==
    /\ SameBooks(l, l2)
    /\ l2.free_nodes = Front(l.free_nodes) /\ l2.next_node = l.next_node + 1
    /\ l2.poisoned = l.poisoned /\ l2.anchored = l.anchored
    /\ l2.nodes[key.slot] = NewNode(key, parent, capacity, limit)
    /\ \A s \in DomainSlot \ {key.slot} :
          /\ l2.nodes[s].key = l.nodes[s].key /\ l2.nodes[s].parent = l.nodes[s].parent
          /\ l2.nodes[s].capacity = l.nodes[s].capacity
          /\ l2.nodes[s].record_limit = l.nodes[s].record_limit
          /\ l2.nodes[s].handles = l.nodes[s].handles
          /\ l2.nodes[s].children = l.nodes[s].children + (IF s = parent.slot THEN 1 ELSE 0)
          /\ s # parent.slot => l2.nodes[s] = l.nodes[s]

LEMMA NewNodeIs ==
    ASSUME NEW key \in Key, NEW parent \in Key, NEW capacity \in Vector, NEW limit \in Nat,
           NEW node, node = NewNode(key, parent, capacity, limit)
    PROVE  /\ node \in Node /\ node.key = key /\ node.parent = parent
           /\ node.capacity = capacity /\ node.record_limit = limit
           /\ node.used = Zero /\ node.counts = [p \in Phase |-> 0]
           /\ node.handles = 1 /\ node.children = 0
<1>1. Zero \in Vector
    BY DEF Zero, Vector
<1> QED BY <1>1 DEF NewNode, NoNode, Node, NoKey, Key

LEMMA ChildOfIs ==
    ASSUME NEW l \in Ledger, NEW parent \in Key, NEW key \in Key,
           parent.slot \in DomainSlot, key.slot \in DomainSlot, key.slot # parent.slot,
           l.nodes[key.slot] = NoNode, Len(l.free_nodes) > 0,
           NEW capacity \in Vector, NEW limit \in Nat,
           NEW l2, l2 = ChildOf(l, parent, key, capacity, limit)
    PROVE  l2 \in Ledger /\ ChildStep(l, l2, parent, key, capacity, limit)
<1>1. PICK new : new = NewNode(key, parent, capacity, limit)
    OBVIOUS
<1>2. /\ new \in Node /\ new.used = Zero /\ new.counts = [p \in Phase |-> 0]
    BY <1>1, NewNodeIs
<1>3. l.nodes \in [DomainSlot -> Node] /\ l.nodes[parent.slot] \in Node
    BY DEF Ledger
<1>c. PICK c : c = l.nodes[parent.slot].children + 1
    OBVIOUS
<1>d. c \in Nat
    BY <1>3, <1>c DEF Node
<1>4. PICK old : old = [l.nodes[parent.slot] EXCEPT !.children = c]
    OBVIOUS
<1>5. /\ old \in Node /\ old.children = l.nodes[parent.slot].children + 1
      /\ old.key = l.nodes[parent.slot].key /\ old.parent = l.nodes[parent.slot].parent
      /\ old.capacity = l.nodes[parent.slot].capacity
      /\ old.record_limit = l.nodes[parent.slot].record_limit
      /\ old.used = l.nodes[parent.slot].used /\ old.counts = l.nodes[parent.slot].counts
      /\ old.handles = l.nodes[parent.slot].handles
    BY <1>3, <1>4, <1>c, <1>d DEF Node
<1>6. PICK nodes : nodes = [[l.nodes EXCEPT ![parent.slot] = old] EXCEPT ![key.slot] = new]
    OBVIOUS
<1>7. /\ nodes \in [DomainSlot -> Node]
      /\ \A s \in DomainSlot : nodes[s] = IF s = key.slot THEN new
                                          ELSE IF s = parent.slot THEN old ELSE l.nodes[s]
    BY <1>2, <1>3, <1>5, <1>6
<1>8. PICK front, n : front = Front(l.free_nodes) /\ n = l.next_node + 1
    OBVIOUS
<1>e. front \in Seq(DomainSlot) /\ n \in Nat
    BY <1>8 DEF Front, Ledger
<1>9. l2 = [l EXCEPT !.free_nodes = front, !.next_node = n, !.nodes = nodes]
    BY <1>1, <1>c, <1>4, <1>6, <1>8 DEF ChildOf, Ledger
<1>10. /\ l2 \in Ledger /\ l2.nodes = nodes /\ l2.records = l.records
       /\ l2.free_records = l.free_records /\ l2.next_owner = l.next_owner
       /\ l2.free_nodes = Front(l.free_nodes) /\ l2.next_node = l.next_node + 1
       /\ l2.poisoned = l.poisoned /\ l2.anchored = l.anchored
    BY <1>7, <1>8, <1>e, <1>9 DEF Ledger
<1>11. NoNode.used = Zero /\ NoNode.counts = [p \in Phase |-> 0]
    BY DEF NoNode
<1>12. SameBooks(l, l2)
    BY <1>2, <1>5, <1>7, <1>10, <1>11 DEF SameBooks
<1>13. \A s \in DomainSlot : l.nodes[s].children \in Nat
    BY <1>3 DEF Node
<1>14. ASSUME NEW s \in DomainSlot \ {key.slot}
       PROVE  /\ l2.nodes[s].key = l.nodes[s].key /\ l2.nodes[s].parent = l.nodes[s].parent
              /\ l2.nodes[s].capacity = l.nodes[s].capacity
              /\ l2.nodes[s].record_limit = l.nodes[s].record_limit
              /\ l2.nodes[s].handles = l.nodes[s].handles
              /\ l2.nodes[s].children = l.nodes[s].children + (IF s = parent.slot THEN 1 ELSE 0)
              /\ s # parent.slot => l2.nodes[s] = l.nodes[s]
  <2>1. CASE s = parent.slot
      BY <1>5, <1>7, <1>10, <2>1
  <2>2. CASE s # parent.slot
    <3>1. l2.nodes[s] = l.nodes[s]
        BY <1>7, <1>10, <2>2
    <3> QED BY <1>13, <2>2, <3>1
  <2> QED BY <2>1, <2>2
<1> QED BY <1>1, <1>7, <1>10, <1>12, <1>14 DEF ChildStep

LEMMA LastIsFree ==
    ASSUME NEW l \in Ledger, FreeNodes(l), l.free_nodes # <<>>, NEW slot, slot = Last(l.free_nodes)
    PROVE  /\ slot \in DomainSlot /\ slot \notin LiveIn(l) /\ Len(l.free_nodes) > 0
           /\ IsInjective(Front(l.free_nodes))
           /\ ToSet(Front(l.free_nodes)) = (DomainSlot \ LiveIn(l)) \ {slot}
<1>1. PICK f : f = l.free_nodes
    OBVIOUS
<1>2. PICK n : n = Len(f)
    OBVIOUS
<1>3. f \in Seq(DomainSlot) /\ n \in Nat /\ n > 0 /\ slot = f[n] /\ DOMAIN f = 1..n
    BY <1>1, <1>2 DEF Ledger, Last
<1>4. /\ \A i, j \in 1..n : f[i] = f[j] => i = j
      /\ {f[i] : i \in 1..n} = DomainSlot \ LiveIn(l)
    BY <1>1, <1>3 DEF FreeNodes, IsInjective, ToSet
<1>5. PICK g : g = Front(f)
    OBVIOUS
<1>6. DOMAIN g = 1..(n - 1) /\ \A i \in 1..(n - 1) : g[i] = f[i]
    BY <1>2, <1>3, <1>5 DEF Front
<1>7. IsInjective(g)
    BY <1>3, <1>4, <1>6 DEF IsInjective
<1>8. ToSet(g) = {f[i] : i \in 1..(n - 1)}
    BY <1>6 DEF ToSet
<1>9. \A i \in 1..n : i = n \/ i \in 1..(n - 1)
    BY <1>3
<1>10. {f[i] : i \in 1..(n - 1)} = {f[i] : i \in 1..n} \ {f[n]}
    BY <1>3, <1>4, <1>9
<1>11. f[n] \in {f[i] : i \in 1..n}
    BY <1>3
<1> QED BY <1>1, <1>2, <1>3, <1>4, <1>5, <1>7, <1>8, <1>10, <1>11

(* The chain of a new domain: its own key, then the path of its parent. *)
LEMMA ChainOfChild ==
    ASSUME NEW l, Tree(l), NEW parent, Resolves(l, parent), Len(Path(l, parent)) < MaxDepth,
           NEW key \in Key, key.slot \in DomainSlot, key.slot \notin LiveIn(l),
           key.generation = l.next_node,
           NEW l2, l2.nodes[key.slot].key = key, l2.nodes[key.slot].parent = parent,
           \A s \in LiveIn(l) : /\ l2.nodes[s].key = l.nodes[s].key
                                /\ l2.nodes[s].parent = l.nodes[s].parent
    PROVE  Chain(l2, key, <<key>> \o Path(l, parent))
<1>1. PICK p : p = Path(l, parent)
    OBVIOUS
<1>2. PICK q : q = <<key>> \o p
    OBVIOUS
<1>3. PICK n : n = Len(p)
    OBVIOUS
<1>4. Chain(l, parent, p)
    BY <1>1, PathOfKey
<1>5. /\ p \in Seq(Key) /\ n \in Nat /\ n >= 1 /\ n < MaxDepth /\ MaxDepth \in Nat
      /\ p[1] = parent /\ p[n] = ROOT
      /\ \A i \in 1..n : p[i].generation >= 1 /\ Resolves(l, p[i])
      /\ \A i \in 1..(n - 1) : l.nodes[p[i].slot].parent = p[i + 1]
      /\ \A i, j \in 1..n : i < j => p[j].generation < p[i].generation
    BY <1>1, <1>3, <1>4, Constants DEF Chain
<1>6. /\ q \in Seq(Key) /\ Len(q) = n + 1 /\ q[1] = key
      /\ \A i \in 1..n : q[i + 1] = p[i]
    BY <1>2, <1>3, <1>5
<1>7. \A i \in 1..n : /\ p[i].slot \in LiveIn(l) /\ l.nodes[p[i].slot].key = p[i]
                      /\ p[i].generation \in 1..(l.next_node - 1)
  <2> SUFFICES ASSUME NEW i \in 1..n
               PROVE  /\ p[i].slot \in LiveIn(l) /\ l.nodes[p[i].slot].key = p[i]
                      /\ p[i].generation \in 1..(l.next_node - 1)
      OBVIOUS
  <2>1. p[i].slot \in LiveIn(l) /\ l.nodes[p[i].slot].key = p[i]
      BY <1>5, ResolvesIsLive
  <2>2. l.nodes[p[i].slot].key.generation \in 1..(l.next_node - 1)
      BY <2>1 DEF Tree
  <2> QED BY <2>1, <2>2
<1>8. l.next_node \in Nat /\ l.next_node >= 1
  <2>1. key.generation \in Nat
      BY DEF Key
  <2>2. 1 \in 1..n
      BY <1>5
  <2>3. p[1].generation \in 1..(l.next_node - 1)
      BY <1>7, <2>2
  <2> QED BY <2>1, <2>3
<1>9. \A i \in 1..(n + 1) : i = 1 \/ (i - 1 \in 1..n /\ q[i] = p[i - 1])
    BY <1>5, <1>6
<1>10. \A i \in 1..(n + 1) : q[i].generation >= 1 /\ Resolves(l2, q[i])
  <2> SUFFICES ASSUME NEW i \in 1..(n + 1)
               PROVE  q[i].generation >= 1 /\ Resolves(l2, q[i])
      OBVIOUS
  <2>1. CASE i = 1
      BY <1>6, <1>8, <2>1 DEF Resolves
  <2>2. CASE i # 1
    <3>1. i - 1 \in 1..n /\ q[i] = p[i - 1]
        BY <1>9, <2>2
    <3>2. /\ p[i - 1].slot \in LiveIn(l) /\ l.nodes[p[i - 1].slot].key = p[i - 1]
          /\ p[i - 1].generation >= 1 /\ p[i - 1].slot \in DomainSlot
        BY <1>5, <1>7, <3>1 DEF Resolves
    <3> QED BY <3>1, <3>2 DEF Resolves
  <2> QED BY <2>1, <2>2
<1>11. \A i \in 1..((n + 1) - 1) : l2.nodes[q[i].slot].parent = q[i + 1]
  <2> SUFFICES ASSUME NEW i \in 1..n
               PROVE  l2.nodes[q[i].slot].parent = q[i + 1]
      BY <1>5
  <2>1. CASE i = 1
      BY <1>5, <1>6, <2>1
  <2>2. CASE i # 1
    <3>1. i - 1 \in 1..(n - 1) /\ i - 1 \in 1..n /\ q[i] = p[i - 1] /\ q[i + 1] = p[i]
        BY <1>5, <1>6, <1>9, <2>2
    <3>2. l.nodes[p[i - 1].slot].parent = p[(i - 1) + 1] /\ p[i - 1].slot \in LiveIn(l)
        BY <1>5, <1>7, <3>1
    <3> QED BY <3>1, <3>2
  <2> QED BY <2>1, <2>2
<1>12. ASSUME NEW i \in 1..(n + 1), NEW j \in 1..(n + 1), i < j
       PROVE  q[j].generation < q[i].generation
  <2>1. j - 1 \in 1..n /\ q[j] = p[j - 1]
      BY <1>5, <1>9, <1>12
  <2>2. CASE i = 1
      BY <1>6, <1>7, <1>8, <2>1, <2>2
  <2>3. CASE i # 1
    <3>1. i - 1 \in 1..n /\ q[i] = p[i - 1] /\ i - 1 < j - 1
        BY <1>9, <1>12, <2>3
    <3> QED BY <1>5, <2>1, <3>1
  <2> QED BY <2>2, <2>3
<1>13. q[Len(q)] = ROOT /\ Len(q) \in 1..MaxDepth
  <2>1. n \in 1..n /\ q[n + 1] = p[n]
      BY <1>5, <1>6
  <2> QED BY <1>5, <1>6, <2>1
<1>14. Chain(l2, key, q)
    BY <1>5, <1>6, <1>10, <1>11, <1>12, <1>13 DEF Chain
<1> QED BY <1>1, <1>2, <1>14

(* Cardinality of one more child. *)
LEMMA FiniteChildren ==
    ASSUME NEW l, NEW s
    PROVE  IsFiniteSet(LiveIn(l)) /\ IsFiniteSet(ChildrenIn(l, s))
           /\ Cardinality(ChildrenIn(l, s)) \in Nat
<1>1. IsFiniteSet(DomainSlot)
    BY Constants, FS_Interval DEF DomainSlot
<1>2. LiveIn(l) \subseteq DomainSlot /\ ChildrenIn(l, s) \subseteq DomainSlot
    BY DEF LiveIn, ChildrenIn
<1> QED BY <1>1, <1>2, FS_Subset, FS_CardinalityType

(* new_child *)
LEMMA NewChildKeeps ==
    ASSUME NEW l, NEW h, NEW t, Sound(l, h, t), AllNeeded(l),
           NEW parent \in Key, Resolves(l, parent), Len(Path(l, parent)) < MaxDepth,
           l.free_nodes # <<>>, NEW key,
           key = [slot |-> Last(l.free_nodes), generation |-> l.next_node],
           NEW capacity \in Vector, NEW limit \in Nat,
           NEW l2, l2 = ChildOf(l, parent, key, capacity, limit), NEW h2, h2 = With(h, key)
    PROVE  /\ Sound(l2, h2, t) /\ AllNeeded(l2) /\ SameBooks(l, l2)
           /\ l2.poisoned = l.poisoned /\ l2.anchored = l.anchored
<1>0. /\ l \in Ledger /\ ~ l.poisoned /\ Tree(l) /\ FreeNodes(l) /\ Family(l) /\ Handles(l, h)
      /\ Owned(l) /\ FreeRecords(l) /\ RecordTotalIsSound(l) /\ Books(l) /\ Limits(l) /\ Tokens(l, t)
    BY DEF Sound
<1>1. PICK slot : slot = Last(l.free_nodes)
    OBVIOUS
<1>2. /\ slot \in DomainSlot /\ slot \notin LiveIn(l) /\ Len(l.free_nodes) > 0
      /\ IsInjective(Front(l.free_nodes))
      /\ ToSet(Front(l.free_nodes)) = (DomainSlot \ LiveIn(l)) \ {slot}
    BY <1>0, <1>1, LastIsFree
<1>3. /\ key \in Key /\ key.slot = slot /\ key.generation = l.next_node
      /\ l.next_node \in Nat
    BY <1>0, <1>1, <1>2, Constants DEF Key, DomainSlot, Ledger
<1>4. parent.slot \in LiveIn(l) /\ l.nodes[parent.slot].key = parent /\ parent.slot # slot
    BY <1>0, <1>2, ResolvesIsLive
<1>5. parent.slot \in DomainSlot /\ l.nodes[slot] = NoNode /\ 0 \in LiveIn(l) /\ slot # 0
    BY <1>0, <1>2, <1>4, RootHasAll DEF LiveIn
<1>6. l2 \in Ledger /\ ChildStep(l, l2, parent, key, capacity, limit)
    BY <1>0, <1>2, <1>3, <1>4, <1>5, ChildOfIs
<1>7. PICK node : node = NewNode(key, parent, capacity, limit)
    OBVIOUS
<1>8. /\ node \in Node /\ node.key = key /\ node.parent = parent
      /\ node.capacity = capacity /\ node.record_limit = limit
      /\ node.used = Zero /\ node.counts = [p \in Phase |-> 0]
      /\ node.handles = 1 /\ node.children = 0
    BY <1>3, <1>7, NewNodeIs
<1>9. /\ SameBooks(l, l2) /\ l2.free_nodes = Front(l.free_nodes) /\ l2.next_node = l.next_node + 1
      /\ l2.poisoned = l.poisoned /\ l2.anchored = l.anchored /\ l2.nodes[slot] = node
    BY <1>3, <1>6, <1>7 DEF ChildStep
<1>10. \A s \in LiveIn(l) :
          /\ s \in DomainSlot /\ s # slot
          /\ l2.nodes[s].key = l.nodes[s].key /\ l2.nodes[s].parent = l.nodes[s].parent
          /\ l2.nodes[s].capacity = l.nodes[s].capacity
          /\ l2.nodes[s].record_limit = l.nodes[s].record_limit
          /\ l2.nodes[s].handles = l.nodes[s].handles
          /\ l2.nodes[s].children = l.nodes[s].children + (IF s = parent.slot THEN 1 ELSE 0)
    BY <1>2, <1>3, <1>6 DEF ChildStep, LiveIn
<1>11. LiveIn(l2) = LiveIn(l) \cup {slot}
  <2>1. NoNode.handles = 0 /\ NoNode.key.generation = 0
      BY DEF NoNode, NoKey
  <2>2. slot \in LiveIn(l2)
      BY <1>2, <1>8, <1>9, <2>1 DEF LiveIn
  <2>3. ASSUME NEW s \in LiveIn(l)
        PROVE  s \in LiveIn(l2)
    <3>1. l2.nodes[s].key.generation \in 1..(l.next_node - 1)
        BY <1>0, <1>10 DEF Tree
    <3>2. l2.nodes[s].key.generation # 0
        BY <3>1
    <3> QED BY <1>10, <2>1, <3>2 DEF LiveIn
  <2>4. ASSUME NEW s \in DomainSlot, s \notin LiveIn(l), s # slot
        PROVE  s \notin LiveIn(l2)
    <3>1. l2.nodes[s] = l.nodes[s]
        BY <1>3, <1>4, <1>6, <2>4 DEF ChildStep
    <3> QED BY <2>4, <3>1 DEF LiveIn
  <2>5. LiveIn(l2) \subseteq DomainSlot
      BY DEF LiveIn
  <2> QED BY <2>2, <2>3, <2>4, <2>5
<1>12. l2.nodes[0].key = ROOT /\ l2.nodes[0].parent = NoKey
    BY <1>0, <1>5, <1>10 DEF Tree
<1>13. \A k : Resolves(l, k) => /\ Path(l2, k) = Path(l, k) /\ Chain(l2, k, Path(l2, k))
                                /\ Resolves(l2, k) /\ key \notin ToSet(Path(l, k))
  <2> SUFFICES ASSUME NEW k, Resolves(l, k)
               PROVE  /\ Path(l2, k) = Path(l, k) /\ Chain(l2, k, Path(l2, k))
                      /\ Resolves(l2, k) /\ key \notin ToSet(Path(l, k))
      OBVIOUS
  <2>1. OnPath(l, k) \subseteq LiveIn(l)
      BY <1>0, OnPathIsLive
  <2>2. Path(l2, k) = Path(l, k) /\ Chain(l2, k, Path(l2, k))
      BY <1>0, <1>10, <1>12, <2>1, PathStays, SMTT(30)
  <2>3. k.slot \in LiveIn(l) /\ l.nodes[k.slot].key = k
      BY <1>0, ResolvesIsLive
  <2>4. Resolves(l2, k)
      BY <1>10, <2>3 DEF Resolves
  <2>5. key \notin ToSet(Path(l, k))
      BY <1>2, <1>3, <2>1 DEF OnPath
  <2> QED BY <2>2, <2>4, <2>5
<1>14. Chain(l2, key, Path(l2, key))
  <2>1. l2.nodes[key.slot].key = key /\ l2.nodes[key.slot].parent = parent
      BY <1>3, <1>8, <1>9
  <2>2. Chain(l2, key, <<key>> \o Path(l, parent))
      BY <1>0, <1>2, <1>3, <1>10, <2>1, ChainOfChild
  <2> QED BY <1>12, <2>2, PathOfChain
<1>15. Tree(l2)
  <2>1. 0 < l.next_node
    <3>1. l.nodes[0].key.generation \in 1..(l.next_node - 1)
        BY <1>0, <1>5 DEF Tree
    <3> QED BY <1>3, <3>1
  <2>2. ASSUME NEW s \in LiveIn(l2)
        PROVE  /\ l2.nodes[s].key.slot = s
               /\ l2.nodes[s].key.generation \in 1..(l2.next_node - 1)
               /\ Chain(l2, l2.nodes[s].key, Path(l2, l2.nodes[s].key))
    <3>1. CASE s = slot
        BY <1>3, <1>8, <1>9, <1>14, <2>1, <3>1
    <3>2. CASE s # slot
      <4>1. s \in LiveIn(l) /\ l2.nodes[s].key = l.nodes[s].key
          BY <1>10, <1>11, <3>2
      <4>2. l.nodes[s].key.slot = s /\ l.nodes[s].key.generation \in 1..(l.next_node - 1)
          BY <1>0, <4>1 DEF Tree
      <4>3. Resolves(l, l.nodes[s].key)
          BY <1>0, <4>1, LiveResolves
      <4> QED BY <1>3, <1>9, <1>13, <4>1, <4>2, <4>3
    <3> QED BY <3>1, <3>2
  <2> QED BY <1>12, <2>2 DEF Tree
<1>16. FreeNodes(l2)
    BY <1>2, <1>9, <1>11 DEF FreeNodes
<1>17. ASSUME NEW s \in LiveIn(l)
       PROVE  ChildrenIn(l2, s) = ChildrenIn(l, s) \cup (IF s = parent.slot THEN {slot} ELSE {})
  <2>1. parent = l.nodes[s].key <=> s = parent.slot
      BY <1>0, <1>4 DEF Tree
  <2>2. \A d \in LiveIn(l) : d \in ChildrenIn(l2, s) <=> d \in ChildrenIn(l, s)
      BY <1>10, <1>11 DEF ChildrenIn
  <2>3. slot \in ChildrenIn(l2, s) <=> s = parent.slot
      BY <1>8, <1>9, <1>10, <1>11, <2>1 DEF ChildrenIn
  <2>4. /\ ChildrenIn(l2, s) \subseteq LiveIn(l) \cup {slot}
        /\ ChildrenIn(l, s) \subseteq LiveIn(l)
      BY <1>11 DEF ChildrenIn
  <2> QED BY <1>2, <2>2, <2>3, <2>4
<1>18. ChildrenIn(l2, slot) = {}
  <2> SUFFICES ASSUME NEW d \in LiveIn(l2), l2.nodes[d].parent = key
               PROVE  FALSE
      BY <1>8, <1>9 DEF ChildrenIn
  <2>1. CASE d = slot
      BY <1>3, <1>4, <1>8, <1>9, <2>1
  <2>2. CASE d # slot
    <3>1. d \in LiveIn(l) /\ l.nodes[d].parent = key
        BY <1>10, <1>11, <2>2
    <3>2. d # 0 => key.slot \in LiveIn(l)
        BY <1>0, <3>1, ParentIsLive
    <3>3. d = 0 => key = NoKey
        BY <1>0, <3>1, ParentIsLive
    <3> QED BY <1>2, <1>3, <1>5, <3>2, <3>3 DEF NoKey
  <2> QED BY <2>1, <2>2
<1>19. Family(l2)
  <2> SUFFICES ASSUME NEW s \in LiveIn(l2)
               PROVE  l2.nodes[s].children = Cardinality(ChildrenIn(l2, s))
      BY DEF Family
  <2>1. CASE s = slot
      BY <1>8, <1>9, <1>18, <2>1, FS_EmptySet
  <2>2. CASE s # slot /\ s # parent.slot
    <3>1. s \in LiveIn(l) /\ l2.nodes[s].children = l.nodes[s].children + 0
        BY <1>10, <1>11, <2>2
    <3>2. ChildrenIn(l2, s) = ChildrenIn(l, s)
        BY <1>17, <2>2, <3>1
    <3>3. l.nodes[s].children \in Nat
        BY <1>0, <1>10, <3>1, NodeTypes
    <3> QED BY <1>0, <3>1, <3>2, <3>3 DEF Family
  <2>3. CASE s = parent.slot
    <3>1. s \in LiveIn(l) /\ l2.nodes[s].children = l.nodes[s].children + 1
        BY <1>4, <1>10, <2>3
    <3>2. ChildrenIn(l2, s) = ChildrenIn(l, s) \cup {slot} /\ slot \notin ChildrenIn(l, s)
        BY <1>2, <1>17, <2>3, <3>1 DEF ChildrenIn
    <3>3. Cardinality(ChildrenIn(l, s) \cup {slot}) = Cardinality(ChildrenIn(l, s)) + 1
        BY <3>2, FiniteChildren, FS_AddElement
    <3> QED BY <1>0, <3>1, <3>2, <3>3 DEF Family
  <2> QED BY <2>1, <2>2, <2>3
<1>20. Handles(l2, h2)
  <2>1. IsBag(h)
      BY <1>0 DEF Handles, IsBag
  <2>2. key \notin DOMAIN h
      BY <1>0, <1>2, <1>3, ResolvesIsLive DEF Handles
  <2>3. Copies(h, key) + 1 = 1
      BY <2>2 DEF Copies
  <2>4. ChangedTo(h, h2, key, 1)
      BY <2>1, <2>3, HoldIs
  <2>5. h2 \in [DOMAIN h2 -> Nat \ {0}] /\ DOMAIN h2 \subseteq DOMAIN h \cup {key}
      BY <2>4 DEF ChangedTo, IsBag
  <2>6. Resolves(l2, key)
      BY <1>2, <1>3, <1>8, <1>9 DEF Resolves
  <2>7. \A k \in DOMAIN h2 : k \in Key /\ Resolves(l2, k)
      BY <1>0, <1>3, <1>13, <2>5, <2>6 DEF Handles
  <2>8. ASSUME NEW s \in LiveIn(l2)
        PROVE  l2.nodes[s].handles = Copies(h2, l2.nodes[s].key)
    <3>1. CASE s = slot
        BY <1>8, <1>9, <2>4, <3>1 DEF ChangedTo
    <3>2. CASE s # slot
      <4>1. s \in LiveIn(l) /\ l2.nodes[s].handles = l.nodes[s].handles
            /\ l2.nodes[s].key = l.nodes[s].key
          BY <1>10, <1>11, <3>2
      <4>2. l.nodes[s].key # key
          BY <1>0, <1>3, <3>2, <4>1 DEF Tree
      <4>3. Copies(h2, l.nodes[s].key) = Copies(h, l.nodes[s].key)
          BY <2>4, <4>2 DEF ChangedTo
      <4> QED BY <1>0, <4>1, <4>3 DEF Handles
    <3> QED BY <3>1, <3>2
  <2> QED BY <2>5, <2>7, <2>8 DEF Handles
<1>21. RecordsIn(l2) = RecordsIn(l) /\ CreditsIn(l2) = CreditsIn(l) /\ l2.records = l.records
    BY <1>9 DEF RecordsIn, CreditsIn, SameBooks
<1>22. Owned(l2)
    BY <1>0, <1>9, <1>13, <1>21 DEF Owned, SameBooks
<1>23. FreeRecords(l2)
    BY <1>0, <1>9, <1>21 DEF FreeRecords, SameBooks
<1>24. RecordTotalIsSound(l2)
    BY <1>0, <1>9, Constants DEF RecordTotalIsSound, Occupied, SameBooks
<1>25. ASSUME NEW s \in LiveIn(l)
       PROVE  Under(l2, s) = Under(l, s)
    BY <1>0, <1>10, <1>13, <1>21 DEF Under, Owned
<1>26. Under(l2, slot) = {}
    BY <1>0, <1>8, <1>9, <1>13, <1>21 DEF Under, Owned
<1>27. \A s \in LiveIn(l) : /\ \A p : InPhase(l2, s, p) = InPhase(l, s, p)
                            /\ l2.nodes[s].used = l.nodes[s].used
                            /\ l2.nodes[s].counts = l.nodes[s].counts
    BY <1>9, <1>10, <1>21, <1>25 DEF InPhase, SameBooks
<1>28. Books(l2)
  <2>1. ASSUME NEW s \in LiveIn(l2)
        PROVE  /\ l2.nodes[s].used = Plus(Base(s), ChargeOf(CreditsIn(l2), Under(l2, s)))
               /\ \A p \in Phase : l2.nodes[s].counts[p] = Cardinality(InPhase(l2, s, p))
    <3>1. CASE s = slot
      <4>1. Charged(CreditsIn(l2))
          BY <1>6 DEF Charged, CreditsIn, Ledger, DomainRecord, Credit
      <4>2. ChargeOf(CreditsIn(l2), {}) = Zero
          BY <4>1, ChargeNone
      <4>3. Base(slot) = Zero /\ Plus(Zero, Zero) = Zero
          BY <1>5 DEF Base, Plus, Zero
      <4>4. \A p : InPhase(l2, slot, p) = {}
          BY <1>26 DEF InPhase
      <4> QED BY <1>8, <1>9, <1>26, <3>1, <4>2, <4>3, <4>4, FS_EmptySet, ZenonT(60)
    <3>2. CASE s # slot
      <4>1. s \in LiveIn(l)
          BY <1>11, <3>2
      <4> QED BY <1>0, <1>21, <1>25, <1>27, <4>1 DEF Books
    <3> QED BY <3>1, <3>2
  <2> QED BY <2>1 DEF Books
<1>29. Limits(l2)
  <2>1. ASSUME NEW s \in LiveIn(l2)
        PROVE  /\ \A k \in Kind : l2.nodes[s].used[k] <= l2.nodes[s].capacity[k]
               /\ Occupied(l2.nodes[s]) <= l2.nodes[s].record_limit
    <3>1. CASE s = slot
        BY <1>8, <1>9, <3>1 DEF Zero, Vector, Occupied, Phase
    <3>2. CASE s # slot
      <4>1. s \in LiveIn(l)
          BY <1>11, <3>2
      <4> QED BY <1>0, <1>10, <1>27, <4>1 DEF Limits, Occupied
    <3> QED BY <3>1, <3>2
  <2>2. l2.nodes[0].capacity = Capacity
      BY <1>0, <1>5, <1>10 DEF Limits
  <2> QED BY <2>1, <2>2 DEF Limits
<1>30. Tokens(l2, t)
    BY <1>0, <1>21 DEF Tokens
<1>31. AllNeeded(l2)
  <2> SUFFICES ASSUME NEW s \in LiveIn(l2) \ {0}
               PROVE  Needed(l2, s)
      BY DEF AllNeeded
  <2>1. CASE s = slot
      BY <1>8, <1>9, <2>1 DEF Needed
  <2>2. CASE s # slot
    <3>1. s \in LiveIn(l) \ {0}
        BY <1>11, <2>2
    <3>2. Needed(l, s)
        BY <3>1 DEF AllNeeded
    <3>x. l.nodes[s].children \in Nat
        BY <1>0, <1>10, <3>1, NodeTypes
    <3>3. l.nodes[s].children \in Nat /\ l2.nodes[s].children >= l.nodes[s].children
        BY <1>10, <3>1, <3>x
    <3>4. l2.nodes[s].children \in Nat
        BY <1>6, <1>10, <3>1 DEF Ledger, Node
    <3> QED BY <1>10, <1>25, <3>1, <3>2, <3>3, <3>4 DEF Needed
  <2> QED BY <2>1, <2>2
<1>32. Sound(l2, h2, t)
    BY <1>0, <1>6, <1>9, <1>15, <1>16, <1>19, <1>20, <1>22, <1>23, <1>24, <1>28, <1>29, <1>30 DEF Sound
<1> QED BY <1>9, <1>31, <1>32

(***************************************************************************)
(* Retirement.                                                             *)
(***************************************************************************)
Retirees(p, m) == {p[i].slot : i \in 1..m}

(* What commit_reap does, domain by domain. *)
ReapStep(l, l2, p, m) ==
    /\ l2.records = l.records /\ l2.free_records = l.free_records
    /\ l2.next_owner = l.next_owner /\ l2.next_node = l.next_node
    /\ l2.poisoned = l.poisoned /\ l2.anchored = l.anchored
    /\ l2.free_nodes = l.free_nodes \o [i \in 1..m |-> p[i].slot]
    /\ \A s \in Retirees(p, m) : l2.nodes[s] = NoNode
    /\ \A s \in DomainSlot \ Retirees(p, m) :
          /\ l2.nodes[s].key = l.nodes[s].key /\ l2.nodes[s].parent = l.nodes[s].parent
          /\ l2.nodes[s].capacity = l.nodes[s].capacity
          /\ l2.nodes[s].record_limit = l.nodes[s].record_limit
          /\ l2.nodes[s].handles = l.nodes[s].handles
          /\ l2.nodes[s].used = l.nodes[s].used /\ l2.nodes[s].counts = l.nodes[s].counts
          /\ l2.nodes[s].children = l.nodes[s].children - (IF s = p[m + 1].slot THEN 1 ELSE 0)
          /\ s # p[m + 1].slot => l2.nodes[s] = l.nodes[s]

LEMMA NoNodeIs ==
    /\ NoNode \in Node /\ NoNode.key = NoKey /\ NoNode.used = Zero /\ NoNode.handles = 0
    /\ NoNode.children = 0 /\ NoNode.counts = [p \in Phase |-> 0] /\ NoNode.key.generation = 0
<1>1. Zero \in Vector
    BY DEF Zero, Vector
<1> QED BY <1>1 DEF NoNode, Node, NoKey, Key

LEMMA CommitReapIs ==
    ASSUME NEW l \in Ledger, NEW p, NEW m \in Nat \ {0},
           \A i \in 1..(m + 1) : p[i].slot \in DomainSlot,
           p[m + 1].slot \notin Retirees(p, m), l.nodes[p[m + 1].slot].children > 0,
           NEW l2, l2 = commit_reap(l, p, m)
    PROVE  l2 \in Ledger /\ ReapStep(l, l2, p, m)
<1>1. PICK top : top = p[m + 1].slot
    OBVIOUS
<1>2. l.nodes \in [DomainSlot -> Node] /\ top \in DomainSlot
    BY <1>1 DEF Ledger
<1>c. PICK c : c = l.nodes[top].children - 1
    OBVIOUS
<1>d. c \in Nat /\ l.nodes[top] \in Node
    BY <1>1, <1>2, <1>c, NodeTypes
<1>4. PICK old : old = [l.nodes[top] EXCEPT !.children = c]
    OBVIOUS
<1>5. /\ old \in Node /\ old.children = c
      /\ old.key = l.nodes[top].key /\ old.parent = l.nodes[top].parent
      /\ old.capacity = l.nodes[top].capacity
      /\ old.record_limit = l.nodes[top].record_limit
      /\ old.used = l.nodes[top].used /\ old.counts = l.nodes[top].counts
      /\ old.handles = l.nodes[top].handles
    BY <1>d, <1>4 DEF Node
<1>6. PICK nodes : nodes = [s \in DomainSlot |-> IF s \in Retirees(p, m) THEN NoNode
                                                 ELSE IF s = top THEN old ELSE l.nodes[s]]
    OBVIOUS
<1>7. /\ nodes \in [DomainSlot -> Node]
      /\ \A s \in DomainSlot : nodes[s] = IF s \in Retirees(p, m) THEN NoNode
                                          ELSE IF s = top THEN old ELSE l.nodes[s]
    BY <1>2, <1>5, <1>6, NoNodeIs
<1>8. PICK free : free = l.free_nodes \o [i \in 1..m |-> p[i].slot]
    OBVIOUS
<1>9. free \in Seq(DomainSlot)
  <2>1. [i \in 1..m |-> p[i].slot] \in Seq(DomainSlot)
      OBVIOUS
  <2>2. l.free_nodes \in Seq(DomainSlot)
      BY DEF Ledger
  <2> QED BY <1>8, <2>1, <2>2
<1>10. nodes = [s \in DomainSlot |->
                  IF \E i \in 1..m : p[i].slot = s THEN NoNode
                  ELSE IF s = p[m + 1].slot THEN [l.nodes[s] EXCEPT !.children = @ - 1]
                  ELSE l.nodes[s]]
  <2>1. \A s : s \in Retirees(p, m) <=> \E i \in 1..m : p[i].slot = s
      BY DEF Retirees
  <2>2. old = [l.nodes[top] EXCEPT !.children = @ - 1]
      BY <1>c, <1>4
  <2> QED BY <1>1, <1>6, <2>1, <2>2
<1>11. l2 = [l EXCEPT !.nodes = nodes, !.free_nodes = free]
  <2>1. m # 0
      OBVIOUS
  <2>2. commit_reap(l, p, m) =
          [l EXCEPT
             !.nodes = [s \in DomainSlot |->
                  IF \E i \in 1..m : p[i].slot = s THEN NoNode
                  ELSE IF s = p[m + 1].slot THEN [l.nodes[s] EXCEPT !.children = @ - 1]
                  ELSE l.nodes[s]],
             !.free_nodes = @ \o [i \in 1..m |-> p[i].slot]]
      BY <2>1, Zenon DEF commit_reap
  <2>3. l2 = [l EXCEPT !.nodes = nodes, !.free_nodes = @ \o [i \in 1..m |-> p[i].slot]]
      BY <1>10, <2>2, Zenon
  <2>4. [l EXCEPT !.nodes = nodes].free_nodes = l.free_nodes
      BY DEF Ledger
  <2> QED BY <1>8, <2>3, <2>4, Zenon
<1>12. /\ l2 \in Ledger /\ l2.nodes = nodes /\ l2.records = l.records
       /\ l2.free_records = l.free_records /\ l2.next_owner = l.next_owner
       /\ l2.free_nodes = free /\ l2.next_node = l.next_node
       /\ l2.poisoned = l.poisoned /\ l2.anchored = l.anchored
    BY <1>7, <1>9, <1>11 DEF Ledger
<1>13. \A s \in Retirees(p, m) : s \in DomainSlot
    BY DEF Retirees
<1>14. ASSUME NEW s \in DomainSlot \ Retirees(p, m)
       PROVE  /\ l2.nodes[s].key = l.nodes[s].key /\ l2.nodes[s].parent = l.nodes[s].parent
              /\ l2.nodes[s].capacity = l.nodes[s].capacity
              /\ l2.nodes[s].record_limit = l.nodes[s].record_limit
              /\ l2.nodes[s].handles = l.nodes[s].handles
              /\ l2.nodes[s].used = l.nodes[s].used /\ l2.nodes[s].counts = l.nodes[s].counts
              /\ l2.nodes[s].children = l.nodes[s].children - (IF s = p[m + 1].slot THEN 1 ELSE 0)
              /\ s # p[m + 1].slot => l2.nodes[s] = l.nodes[s]
  <2>1. CASE s = top
    <3>1. l2.nodes[s] = old
        BY <1>7, <1>12, <2>1
    <3> QED BY <1>1, <1>c, <1>5, <2>1, <3>1
  <2>2. CASE s # top
    <3>1. l2.nodes[s] = l.nodes[s]
        BY <1>7, <1>12, <2>2
    <3>2. l.nodes[s].children \in Nat
        BY NodeTypes
    <3> QED BY <1>1, <2>2, <3>1, <3>2
  <2> QED BY <2>1, <2>2
<1> QED BY <1>7, <1>8, <1>12, <1>13, <1>14 DEF ReapStep

(* A domain that may go: nothing holds it but the child that goes first. *)
Gone(l, p, i) ==
    /\ l.nodes[p[i].slot].handles = 0
    /\ l.nodes[p[i].slot].children = (IF i = 1 THEN 0 ELSE 1)
    /\ Occupied(l.nodes[p[i].slot]) = 0

(* A roster of domains that go, from a leaf up to below the root. *)
Going(l, leaf, p, m) ==
    /\ leaf \in Key /\ Resolves(l, leaf) /\ p = Path(l, leaf) /\ m \in 1..(Len(p) - 1)
    /\ \A i \in 1..m : Gone(l, p, i)

GoingFacts(l, leaf, p, m) ==
    /\ m \in Nat \ {0} /\ Len(p) \in Nat /\ m < Len(p) /\ p \in Seq(Key)
    /\ \A i \in 1..Len(p) : /\ p[i].slot \in LiveIn(l) /\ p[i].slot \in DomainSlot
                            /\ l.nodes[p[i].slot].key = p[i]
    /\ \A i \in 1..(Len(p) - 1) : l.nodes[p[i].slot].parent = p[i + 1]
    /\ \A i, j \in 1..Len(p) : p[i].slot = p[j].slot => i = j
    /\ p[1] = leaf /\ 0 \notin Retirees(p, m) /\ p[m + 1].slot \notin Retirees(p, m)
    /\ p[Len(p)].slot = 0
    /\ \A s \in Retirees(p, m) : Under(l, s) = {} /\ l.nodes[s].handles = 0
    /\ ChildrenIn(l, p[1].slot) = {}
    /\ \A i \in 2..m : ChildrenIn(l, p[i].slot) = {p[i - 1].slot}

LEMMA GoingIs ==
    ASSUME NEW l, NEW h, NEW t, Sound(l, h, t), NEW leaf, NEW p, NEW m, Going(l, leaf, p, m)
    PROVE  GoingFacts(l, leaf, p, m)
<1>0. /\ l \in Ledger /\ Tree(l) /\ Family(l) /\ Owned(l) /\ Books(l)
      /\ leaf \in Key /\ Resolves(l, leaf) /\ p = Path(l, leaf) /\ m \in 1..(Len(p) - 1)
      /\ \A i \in 1..m : Gone(l, p, i)
    BY DEF Sound, Going
<1>1. Chain(l, leaf, p)
    BY <1>0, PathOfKey
<1>2. /\ p \in Seq(Key) /\ Len(p) \in Nat /\ p[1] = leaf /\ p[Len(p)] = ROOT
      /\ \A i \in 1..Len(p) : Resolves(l, p[i])
      /\ \A i \in 1..(Len(p) - 1) : l.nodes[p[i].slot].parent = p[i + 1]
    BY <1>1 DEF Chain
<1>3. m \in Nat \ {0} /\ m < Len(p)
    BY <1>0, <1>2
<1>4. \A i \in 1..Len(p) : /\ p[i].slot \in LiveIn(l) /\ p[i].slot \in DomainSlot
                           /\ l.nodes[p[i].slot].key = p[i]
    BY <1>0, <1>2, ResolvesIsLive DEF Resolves
<1>5. \A i, j \in 1..Len(p) : p[i].slot = p[j].slot => i = j
    BY <1>0, PathSlotsDistinct
<1>6. p[Len(p)].slot = 0
    BY <1>2 DEF ROOT
<1>7. \A i \in 1..m : i \in 1..Len(p) /\ i # Len(p) /\ i # m + 1
    BY <1>2, <1>3
<1>8. 0 \notin Retirees(p, m)
  <2>1. Len(p) \in 1..Len(p)
      BY <1>2, <1>3
  <2> QED BY <1>5, <1>6, <1>7, <2>1 DEF Retirees
<1>9. p[m + 1].slot \notin Retirees(p, m)
  <2>1. m + 1 \in 1..Len(p)
      BY <1>2, <1>3
  <2> QED BY <1>5, <1>7, <2>1 DEF Retirees
<1>10. ASSUME NEW i \in 1..m
       PROVE  Under(l, p[i].slot) = {} /\ l.nodes[p[i].slot].handles = 0
  <2>1. p[i].slot \in LiveIn(l)
      BY <1>4, <1>7
  <2>2. Occupied(l.nodes[p[i].slot]) = Cardinality(Under(l, p[i].slot))
      BY <1>0, <2>1, OccupiedIs
  <2>3. Cardinality(Under(l, p[i].slot)) = 0 /\ l.nodes[p[i].slot].handles = 0
      BY <1>0, <2>2 DEF Gone
  <2> QED BY <2>3, FiniteRecords, FS_EmptySet
<1>11. \A s \in Retirees(p, m) : Under(l, s) = {} /\ l.nodes[s].handles = 0
    BY <1>10 DEF Retirees
<1>12. ASSUME NEW i \in 1..m
       PROVE  Cardinality(ChildrenIn(l, p[i].slot)) = IF i = 1 THEN 0 ELSE 1
    BY <1>0, <1>4, <1>7 DEF Family, Gone
<1>13. ChildrenIn(l, p[1].slot) = {}
  <2>1. 1 \in 1..m
      BY <1>3
  <2>2. Cardinality(ChildrenIn(l, p[1].slot)) = 0
      BY <1>12, <2>1
  <2> QED BY <2>2, FiniteChildren, FS_EmptySet
<1>14. ASSUME NEW i \in 2..m
       PROVE  ChildrenIn(l, p[i].slot) = {p[i - 1].slot}
  <2>1. i \in 1..m /\ i # 1 /\ i - 1 \in 1..Len(p) /\ i - 1 \in 1..(Len(p) - 1) /\ i \in 1..Len(p)
      BY <1>2, <1>3
  <2>2. Cardinality(ChildrenIn(l, p[i].slot)) = 1
      BY <1>12, <2>1
  <2>3. PICK x : ChildrenIn(l, p[i].slot) = {x}
      BY <2>2, FiniteChildren, FS_Singleton
  <2>4. l.nodes[p[i - 1].slot].parent = p[(i - 1) + 1] /\ p[(i - 1) + 1] = p[i]
      BY <1>2, <2>1
  <2>5. p[i - 1].slot \in ChildrenIn(l, p[i].slot)
      BY <1>4, <2>1, <2>4 DEF ChildrenIn
  <2> QED BY <2>3, <2>5
<1> QED BY <1>2, <1>3, <1>4, <1>5, <1>6, <1>8, <1>9, <1>11, <1>13, <1>14 DEF GoingFacts

(* No domain that stays has one that goes above it. *)
LEMMA StayersKeepTheirPaths ==
    ASSUME NEW l, NEW h, NEW t, Sound(l, h, t), NEW leaf, NEW p, NEW m, Going(l, leaf, p, m),
           NEW key, Resolves(l, key), key.slot \notin Retirees(p, m)
    PROVE  \A s \in OnPath(l, key) : s \notin Retirees(p, m)
<1>0. l \in Ledger /\ Tree(l)
    BY DEF Sound
<1>1. /\ m \in Nat \ {0} /\ Len(p) \in Nat /\ m < Len(p)
      /\ \A i \in 1..Len(p) : p[i].slot \in LiveIn(l) /\ l.nodes[p[i].slot].key = p[i]
      /\ ChildrenIn(l, p[1].slot) = {}
      /\ \A i \in 2..m : ChildrenIn(l, p[i].slot) = {p[i - 1].slot}
  <2>1. GoingFacts(l, leaf, p, m)
      BY GoingIs
  <2> QED BY <2>1 DEF GoingFacts
<1>2. ASSUME NEW d \in LiveIn(l), d \notin Retirees(p, m),
             NEW i \in 1..m, l.nodes[d].parent = p[i]
      PROVE  FALSE
  <2>1. d \in ChildrenIn(l, p[i].slot)
      BY <1>1, <1>2 DEF ChildrenIn
  <2>2. i # 1
      BY <1>1, <2>1
  <2>3. i \in 2..m /\ i - 1 \in 1..m
      BY <1>1, <2>2
  <2>4. d = p[i - 1].slot
      BY <1>1, <2>1, <2>3
  <2> QED BY <1>2, <2>3, <2>4 DEF Retirees
<1>3. PICK q : q = Path(l, key)
    OBVIOUS
<1>4. Chain(l, key, q)
    BY <1>0, <1>3, PathOfKey
<1>5. /\ q \in Seq(Key) /\ Len(q) \in Nat /\ q[1] = key
      /\ \A i \in 1..Len(q) : Resolves(l, q[i])
      /\ \A i \in 1..(Len(q) - 1) : l.nodes[q[i].slot].parent = q[i + 1]
    BY <1>4 DEF Chain
<1>6. \A i \in 1..Len(q) : q[i].slot \in LiveIn(l) /\ l.nodes[q[i].slot].key = q[i]
    BY <1>0, <1>5, ResolvesIsLive
<1> DEFINE S == {j \in Nat : j \in 1..Len(q) => q[j].slot \notin Retirees(p, m)}
<1>7. 0 \in S
    OBVIOUS
<1>8. ASSUME NEW j \in Nat, j \in S
      PROVE  j + 1 \in S
  <2> SUFFICES ASSUME j + 1 \in 1..Len(q), NEW i \in 1..m, q[j + 1].slot = p[i].slot
               PROVE  FALSE
      BY DEF Retirees
  <2>1. CASE j = 0
      BY <1>5, <2>1 DEF Retirees
  <2>2. CASE j # 0
    <3>1. j \in 1..(Len(q) - 1) /\ j \in 1..Len(q) /\ i \in 1..Len(p)
        BY <1>1, <1>5, <2>2
    <3>2. q[j].slot \in LiveIn(l) /\ q[j].slot \notin Retirees(p, m)
        BY <1>6, <1>8, <3>1
    <3>3. l.nodes[q[j].slot].parent = q[j + 1] /\ q[j + 1] = p[i]
        BY <1>1, <1>5, <1>6, <3>1
    <3> QED BY <1>2, <3>2, <3>3
  <2> QED BY <2>1, <2>2
<1>9. \A j \in Nat : j \in S
    BY <1>7, <1>8, NatInductionSet
<1>10. OnPath(l, key) = {q[j].slot : j \in 1..Len(q)}
    BY <1>3, <1>5 DEF OnPath, ToSet
<1> QED BY <1>9, <1>10

Joined(r, f, g) ==
    /\ Len(r) = Len(f) + Len(g)
    /\ \A i \in 1..(Len(f) + Len(g)) : r[i] = IF i <= Len(f) THEN f[i] ELSE g[i - Len(f)]

LEMMA TwoLists ==
    ASSUME NEW S, NEW f \in Seq(S), NEW g \in Seq(S), NEW r, r = f \o g
    PROVE  r \in Seq(S) /\ Joined(r, f, g)
BY ConcatProperties DEF Joined

LEMMA FreeListGrows ==
    ASSUME NEW S, NEW f \in Seq(S), IsInjective(f), NEW m \in Nat, NEW g \in [1..m -> S],
           \A i, j \in 1..m : g[i] = g[j] => i = j, \A i \in 1..m : g[i] \notin ToSet(f)
    PROVE  IsInjective(f \o g) /\ ToSet(f \o g) = ToSet(f) \cup {g[i] : i \in 1..m}
<1>1. PICK n, r : n = Len(f) /\ r = f \o g
    OBVIOUS
<1>2. g \in Seq(S) /\ Len(g) = m /\ n \in Nat /\ DOMAIN f = 1..n
    BY <1>1
<1>3. /\ DOMAIN r = 1..(n + m)
      /\ \A i \in 1..n : r[i] = f[i]
      /\ \A i \in 1..m : r[n + i] = g[i]
  <2>1. /\ Len(r) = n + m
        /\ \A i \in 1..(n + m) : r[i] = IF i <= n THEN f[i] ELSE g[i - n]
        /\ r \in Seq(S)
    <3>1. g \in Seq(S)
        BY <1>2
    <3>2. r \in Seq(S) /\ Joined(r, f, g)
        BY <1>1, <3>1, TwoLists
    <3> QED BY <1>1, <1>2, <3>2 DEF Joined
  <2>2. \A i \in 1..m : n + i \in 1..(n + m) /\ ~ (n + i <= n) /\ (n + i) - n = i
      BY <1>2
  <2>3. \A i \in 1..n : i \in 1..(n + m) /\ i <= n
      BY <1>2
  <2>4. \A i \in 1..m : r[n + i] = g[i]
      BY <2>1, <2>2
  <2>5. \A i \in 1..n : r[i] = f[i]
      BY <2>1, <2>3
  <2> QED BY <2>1, <2>4, <2>5
<1>4. \A i \in 1..(n + m) : i \in 1..n \/ (i - n \in 1..m /\ r[i] = g[i - n])
  <2> SUFFICES ASSUME NEW i \in 1..(n + m), i \notin 1..n
               PROVE  i - n \in 1..m /\ r[i] = g[i - n]
      OBVIOUS
  <2>1. i - n \in 1..m /\ n + (i - n) = i
      BY <1>2
  <2> QED BY <1>3, <2>1
<1>5. \A i, j \in 1..n : f[i] = f[j] => i = j
    BY <1>2 DEF IsInjective
<1>6. ToSet(f) = {f[i] : i \in 1..n}
    BY <1>2 DEF ToSet
<1>7. ASSUME NEW i \in 1..(n + m), NEW j \in 1..(n + m), r[i] = r[j]
      PROVE  i = j
  <2>1. CASE i \in 1..n /\ j \in 1..n
      BY <1>3, <1>5, <1>7, <2>1
  <2>2. CASE i \in 1..n /\ j \notin 1..n
      BY <1>3, <1>4, <1>6, <1>7, <2>2
  <2>3. CASE i \notin 1..n /\ j \in 1..n
      BY <1>3, <1>4, <1>6, <1>7, <2>3
  <2>4. CASE i \notin 1..n /\ j \notin 1..n
    <3>1. i - n \in 1..m /\ j - n \in 1..m /\ g[i - n] = g[j - n]
        BY <1>4, <1>7, <2>4
    <3>2. i - n = j - n
        BY <3>1
    <3> QED BY <1>2, <3>2
  <2> QED BY <2>1, <2>2, <2>3, <2>4
<1>8. IsInjective(r)
    BY <1>3, <1>7 DEF IsInjective
<1>9. ToSet(r) = {f[i] : i \in 1..n} \cup {g[i] : i \in 1..m}
  <2>1. ToSet(r) = {r[i] : i \in 1..(n + m)}
      BY <1>3 DEF ToSet
  <2>2. \A i \in 1..n : i \in 1..(n + m)
      BY <1>2
  <2>3. \A i \in 1..m : n + i \in 1..(n + m)
      BY <1>2
  <2>4. \A x \in ToSet(r) : x \in {f[i] : i \in 1..n} \cup {g[i] : i \in 1..m}
      BY <1>3, <1>4, <2>1
  <2>5. \A i \in 1..n : f[i] \in ToSet(r)
      BY <1>3, <2>1, <2>2
  <2>6. \A i \in 1..m : g[i] \in ToSet(r)
      BY <1>3, <2>1, <2>3
  <2> QED BY <2>4, <2>5, <2>6
<1> QED BY <1>1, <1>6, <1>8, <1>9

LEMMA ReapIs ==
    ASSUME NEW l, NEW h, NEW t, Sound(l, h, t), NEW leaf, NEW p, NEW m, Going(l, leaf, p, m),
           NEW l2, l2 = commit_reap(l, p, m)
    PROVE  l2 \in Ledger /\ ReapStep(l, l2, p, m) /\ GoingFacts(l, leaf, p, m)
<1>0. l \in Ledger /\ Tree(l) /\ Family(l)
    BY DEF Sound
<1>1. GoingFacts(l, leaf, p, m)
    BY GoingIs
<1>2. /\ m \in Nat \ {0} /\ Len(p) \in Nat /\ m < Len(p)
      /\ \A i \in 1..Len(p) : /\ p[i].slot \in LiveIn(l) /\ p[i].slot \in DomainSlot
                              /\ l.nodes[p[i].slot].key = p[i]
      /\ \A i \in 1..(Len(p) - 1) : l.nodes[p[i].slot].parent = p[i + 1]
      /\ p[m + 1].slot \notin Retirees(p, m)
    BY <1>1 DEF GoingFacts
<1>3. m \in 1..Len(p) /\ m + 1 \in 1..Len(p) /\ m \in 1..(Len(p) - 1)
    BY <1>2
<1>4. p[m].slot \in ChildrenIn(l, p[m + 1].slot)
    BY <1>2, <1>3 DEF ChildrenIn
<1>5. l.nodes[p[m + 1].slot].children = Cardinality(ChildrenIn(l, p[m + 1].slot))
    BY <1>0, <1>2, <1>3 DEF Family
<1>6. Cardinality(ChildrenIn(l, p[m + 1].slot)) # 0
    BY <1>4, FiniteChildren, FS_EmptySet
<1>7. l.nodes[p[m + 1].slot].children > 0
    BY <1>5, <1>6, FiniteChildren
<1>8. \A i \in 1..(m + 1) : p[i].slot \in DomainSlot
    BY <1>2
<1>9. l2 \in Ledger /\ ReapStep(l, l2, p, m)
    BY <1>0, <1>2, <1>7, <1>8, CommitReapIs
<1> QED BY <1>1, <1>9

(* What is left of the tree. *)
Pruned(l, l2, R) ==
    /\ LiveIn(l2) = LiveIn(l) \ R
    /\ \A key : Resolves(l, key) /\ key.slot \notin R =>
          Resolves(l2, key) /\ Path(l2, key) = Path(l, key)

LEMMA ReapTree ==
    ASSUME NEW l, NEW h, NEW t, Sound(l, h, t), NEW leaf, NEW p, NEW m, Going(l, leaf, p, m),
           NEW l2, ReapStep(l, l2, p, m)
    PROVE  Tree(l2) /\ Pruned(l, l2, Retirees(p, m))
<1> DEFINE R == Retirees(p, m)
<1>0. l \in Ledger /\ Tree(l)
    BY DEF Sound
<1>1. 0 \notin R /\ \A s \in R : s \in LiveIn(l) /\ s \in DomainSlot
  <2>1. GoingFacts(l, leaf, p, m)
      BY GoingIs
  <2>2. /\ m \in Nat \ {0} /\ Len(p) \in Nat /\ m < Len(p) /\ 0 \notin R
        /\ \A i \in 1..Len(p) : p[i].slot \in LiveIn(l) /\ p[i].slot \in DomainSlot
      BY <2>1 DEF GoingFacts
  <2>3. \A i \in 1..m : i \in 1..Len(p)
      BY <2>2
  <2> QED BY <2>2, <2>3 DEF Retirees
<1>2. /\ l2.next_node = l.next_node
      /\ \A s \in R : l2.nodes[s] = NoNode
      /\ \A s \in DomainSlot \ R : /\ l2.nodes[s].key = l.nodes[s].key
                                   /\ l2.nodes[s].parent = l.nodes[s].parent
                                   /\ s # p[m + 1].slot => l2.nodes[s] = l.nodes[s]
    BY DEF ReapStep
<1>t. p[m + 1].slot \in LiveIn(l)
  <2>1. GoingFacts(l, leaf, p, m)
      BY GoingIs
  <2>2. /\ m \in Nat \ {0} /\ Len(p) \in Nat /\ m < Len(p)
        /\ \A i \in 1..Len(p) : p[i].slot \in LiveIn(l)
      BY <2>1 DEF GoingFacts
  <2> QED BY <2>2
<1> HIDE DEF R
<1>3. LiveIn(l2) = LiveIn(l) \ R
  <2> SUFFICES ASSUME NEW s \in DomainSlot
               PROVE  l2.nodes[s] # NoNode <=> l.nodes[s] # NoNode /\ s \notin R
      BY DEF LiveIn
  <2>1. CASE s \in R
      BY <1>2, <2>1
  <2>2. CASE s \notin R /\ s # p[m + 1].slot
      BY <1>2, <2>2
  <2>3. CASE s \notin R /\ s = p[m + 1].slot
    <3>1. l.nodes[s].key.generation \in 1..(l.next_node - 1) /\ l.nodes[s] # NoNode
        BY <1>0, <1>t, <2>3 DEF Tree, LiveIn
    <3>2. l2.nodes[s].key.generation # 0
        BY <1>2, <2>3, <3>1
    <3> QED BY <2>3, <3>1, <3>2, NoNodeIs
  <2> QED BY <2>1, <2>2, <2>3
<1>4. l2.nodes[0].key = ROOT /\ l2.nodes[0].parent = NoKey
    BY <1>0, <1>1, <1>2, Constants DEF Tree
<1>5. ASSUME NEW key, Resolves(l, key), key.slot \notin R
      PROVE  /\ Resolves(l2, key) /\ Path(l2, key) = Path(l, key)
             /\ Chain(l2, key, Path(l2, key))
  <2>1. Resolves(l2, key)
      BY <1>2, <1>5 DEF Resolves
  <2>2. \A s \in OnPath(l, key) : s \notin R
      BY <1>5, StayersKeepTheirPaths DEF R
  <2>3. \A s \in OnPath(l, key) : s \in DomainSlot
      BY <1>0, <1>5, OnPathIsLive DEF LiveIn
  <2>4. Path(l2, key) = Path(l, key) /\ Chain(l2, key, Path(l2, key))
      BY <1>0, <1>2, <1>4, <1>5, <2>2, <2>3, PathStays
  <2> QED BY <2>1, <2>4
<1>6. ASSUME NEW s \in LiveIn(l2)
      PROVE  /\ l2.nodes[s].key.slot = s
             /\ l2.nodes[s].key.generation \in 1..(l2.next_node - 1)
             /\ Chain(l2, l2.nodes[s].key, Path(l2, l2.nodes[s].key))
  <2>1. s \in LiveIn(l) /\ s \in DomainSlot \ R
      BY <1>3 DEF LiveIn
  <2>2. /\ l.nodes[s].key.slot = s /\ l.nodes[s].key.generation \in 1..(l.next_node - 1)
        /\ Resolves(l, l.nodes[s].key)
      BY <1>0, <2>1, LiveResolves DEF Tree
  <2>3. Chain(l2, l.nodes[s].key, Path(l2, l.nodes[s].key))
      BY <1>5, <2>1, <2>2
  <2> QED BY <1>2, <2>1, <2>2, <2>3
<1>7. Tree(l2)
    BY <1>4, <1>6 DEF Tree
<1>8. Pruned(l, l2, R)
    BY <1>3, <1>5 DEF Pruned
<1> QED BY <1>7, <1>8 DEF R

(* What a step that only retires domains leaves alone. *)
SameRoot(l, l2) ==
    /\ l2.records = l.records /\ l2.free_records = l.free_records
    /\ l2.next_owner = l.next_owner /\ l2.poisoned = l.poisoned /\ l2.anchored = l.anchored
    /\ l2.nodes[0].used = l.nodes[0].used /\ l2.nodes[0].counts = l.nodes[0].counts

LEMMA ReapFamily ==
    ASSUME NEW l, NEW h, NEW t, Sound(l, h, t), NEW leaf, NEW p, NEW m, Going(l, leaf, p, m),
           NEW l2, l2 \in Ledger, ReapStep(l, l2, p, m)
    PROVE  Family(l2)
<1> DEFINE R == Retirees(p, m)
           top == p[m + 1].slot
<1>0. l \in Ledger /\ Tree(l) /\ Family(l)
    BY DEF Sound
<1>1. /\ m \in Nat \ {0} /\ Len(p) \in Nat /\ m < Len(p)
      /\ \A i \in 1..Len(p) : /\ p[i].slot \in LiveIn(l) /\ p[i].slot \in DomainSlot
                              /\ l.nodes[p[i].slot].key = p[i]
      /\ \A i \in 1..(Len(p) - 1) : l.nodes[p[i].slot].parent = p[i + 1]
      /\ \A i, j \in 1..Len(p) : p[i].slot = p[j].slot => i = j
  <2>1. GoingFacts(l, leaf, p, m)
      BY GoingIs
  <2> QED BY <2>1 DEF GoingFacts
<1>2. LiveIn(l2) = LiveIn(l) \ R
    BY ReapTree DEF Pruned
<1>3. \A s \in DomainSlot \ R : /\ l2.nodes[s].key = l.nodes[s].key
                                /\ l2.nodes[s].parent = l.nodes[s].parent
                                /\ l2.nodes[s].children =
                                      l.nodes[s].children - (IF s = top THEN 1 ELSE 0)
    BY DEF ReapStep
<1>4. ASSUME NEW s \in LiveIn(l) \ R
      PROVE  ChildrenIn(l2, s) = ChildrenIn(l, s) \ R
  <2>1. s \in DomainSlot \ R /\ \A d \in LiveIn(l) : d \in DomainSlot
      BY DEF LiveIn
  <2> QED BY <1>2, <1>3, <2>1 DEF ChildrenIn
<1>5. ASSUME NEW s \in LiveIn(l) \ R, NEW i \in 1..m, p[i].slot \in ChildrenIn(l, s)
      PROVE  i = m /\ s = top
  <2>1. i \in 1..(Len(p) - 1) /\ i + 1 \in 1..Len(p)
      BY <1>1
  <2>2. l.nodes[p[i].slot].parent = p[i + 1] /\ l.nodes[s].key = p[i + 1]
      BY <1>1, <1>5, <2>1 DEF ChildrenIn
  <2>3. s = p[i + 1].slot
      BY <1>0, <2>2 DEF Tree
  <2>4. i + 1 \notin 1..m
      BY <2>3 DEF Retirees
  <2>5. i = m
      BY <1>1, <2>4
  <2> QED BY <2>3, <2>5
<1>6. ASSUME NEW s \in LiveIn(l2)
      PROVE  l2.nodes[s].children = Cardinality(ChildrenIn(l2, s))
  <2>1. s \in LiveIn(l) \ R /\ s \in DomainSlot \ R
      BY <1>2 DEF LiveIn
  <2>2. l.nodes[s].children = Cardinality(ChildrenIn(l, s)) /\ l.nodes[s].children \in Nat
      BY <1>0, <2>1, FiniteChildren DEF Family
  <2>3. CASE s # top
    <3>1. ChildrenIn(l, s) \ R = ChildrenIn(l, s)
        BY <1>5, <2>1, <2>3 DEF Retirees
    <3>2. l2.nodes[s].children = l.nodes[s].children
        BY <1>3, <2>1, <2>2, <2>3
    <3>3. ChildrenIn(l2, s) = ChildrenIn(l, s)
        BY <1>4, <2>1, <3>1
    <3> QED BY <2>2, <3>2, <3>3
  <2>4. CASE s = top
    <3>1. m \in 1..m /\ m \in 1..(Len(p) - 1) /\ m + 1 \in 1..Len(p) /\ m \in 1..Len(p)
        BY <1>1
    <3>2. p[m].slot \in ChildrenIn(l, s)
        BY <1>1, <2>4, <3>1 DEF ChildrenIn
    <3>3. ChildrenIn(l, s) \ R = ChildrenIn(l, s) \ {p[m].slot}
        BY <1>5, <2>1, <3>1 DEF Retirees
    <3>4. Cardinality(ChildrenIn(l, s) \ {p[m].slot}) = Cardinality(ChildrenIn(l, s)) - 1
        BY <3>2, FiniteChildren, FS_RemoveElement
    <3> QED BY <1>3, <1>4, <2>1, <2>2, <2>4, <3>3, <3>4
  <2> QED BY <2>3, <2>4
<1> QED BY <1>6 DEF Family

LEMMA ReapFreeNodes ==
    ASSUME NEW l, NEW h, NEW t, Sound(l, h, t), NEW leaf, NEW p, NEW m, Going(l, leaf, p, m),
           NEW l2, ReapStep(l, l2, p, m)
    PROVE  FreeNodes(l2)
<1>0. l \in Ledger /\ FreeNodes(l) /\ l.free_nodes \in Seq(DomainSlot)
    BY DEF Sound, Ledger
<1>1. /\ m \in Nat \ {0} /\ Len(p) \in Nat /\ m < Len(p)
      /\ \A i \in 1..Len(p) : p[i].slot \in LiveIn(l) /\ p[i].slot \in DomainSlot
      /\ \A i, j \in 1..Len(p) : p[i].slot = p[j].slot => i = j
  <2>1. GoingFacts(l, leaf, p, m)
      BY GoingIs
  <2> QED BY <2>1 DEF GoingFacts
<1>2. LiveIn(l2) = LiveIn(l) \ Retirees(p, m)
    BY ReapTree DEF Pruned
<1>3. PICK f, g : f = l.free_nodes /\ g = [i \in 1..m |-> p[i].slot]
    OBVIOUS
<1>4. \A i \in 1..m : i \in 1..Len(p) /\ g[i] = p[i].slot
    BY <1>1, <1>3
<1>5. /\ g \in [1..m -> DomainSlot] /\ \A i \in 1..m : g[i] \notin ToSet(f)
      /\ \A i, j \in 1..m : g[i] = g[j] => i = j
    BY <1>0, <1>1, <1>3, <1>4 DEF FreeNodes
<1>6. IsInjective(f) /\ f \in Seq(DomainSlot) /\ m \in Nat
    BY <1>0, <1>1, <1>3 DEF FreeNodes
<1>7. IsInjective(f \o g) /\ ToSet(f \o g) = ToSet(f) \cup {g[i] : i \in 1..m}
    BY <1>5, <1>6, FreeListGrows
<1>8. {g[i] : i \in 1..m} = Retirees(p, m)
    BY <1>4 DEF Retirees
<1>9. Retirees(p, m) \subseteq DomainSlot
    BY <1>1, <1>4 DEF Retirees
<1>10. l2.free_nodes = f \o g
    BY <1>3 DEF ReapStep
<1> QED BY <1>0, <1>2, <1>3, <1>7, <1>8, <1>9, <1>10 DEF FreeNodes

(* commit_reap *)
LEMMA ReapKeeps ==
    ASSUME NEW l, NEW h, NEW t, Sound(l, h, t), NEW leaf, NEW p, NEW m, Going(l, leaf, p, m),
           m = Len(p) - 1 \/ ~ Gone(l, p, m + 1),
           \A s \in LiveIn(l) \ {0} : s = leaf.slot \/ Needed(l, s),
           NEW l2, l2 = commit_reap(l, p, m)
    PROVE  Sound(l2, h, t) /\ AllNeeded(l2) /\ SameRoot(l, l2)
<1> DEFINE R == Retirees(p, m)
           top == p[m + 1].slot
<1>0. /\ l \in Ledger /\ ~ l.poisoned /\ Tree(l) /\ FreeNodes(l) /\ Family(l) /\ Handles(l, h)
      /\ Owned(l) /\ FreeRecords(l) /\ RecordTotalIsSound(l) /\ Books(l) /\ Limits(l) /\ Tokens(l, t)
    BY DEF Sound
<1>s. l2 \in Ledger /\ ReapStep(l, l2, p, m) /\ GoingFacts(l, leaf, p, m)
    BY ReapIs
<1>1. /\ m \in Nat \ {0} /\ Len(p) \in Nat /\ m < Len(p)
      /\ \A i \in 1..Len(p) : p[i].slot \in LiveIn(l) /\ p[i].slot \in DomainSlot
      /\ p[1] = leaf /\ 0 \notin R /\ top \notin R /\ p[Len(p)].slot = 0
      /\ \A s \in R : Under(l, s) = {} /\ l.nodes[s].handles = 0
    BY <1>s DEF GoingFacts
<1>2. /\ l2.records = l.records /\ l2.free_records = l.free_records
      /\ l2.next_owner = l.next_owner /\ l2.next_node = l.next_node
      /\ l2.poisoned = l.poisoned /\ l2.anchored = l.anchored
      /\ \A s \in DomainSlot \ R :
            /\ l2.nodes[s].key = l.nodes[s].key
            /\ l2.nodes[s].capacity = l.nodes[s].capacity
            /\ l2.nodes[s].record_limit = l.nodes[s].record_limit
            /\ l2.nodes[s].handles = l.nodes[s].handles
            /\ l2.nodes[s].used = l.nodes[s].used /\ l2.nodes[s].counts = l.nodes[s].counts
            /\ l2.nodes[s].children = l.nodes[s].children - (IF s = top THEN 1 ELSE 0)
    BY <1>s DEF ReapStep
<1>3. Tree(l2) /\ Pruned(l, l2, R)
    BY <1>s, ReapTree
<1>4. /\ LiveIn(l2) = LiveIn(l) \ R
      /\ \A key : Resolves(l, key) /\ key.slot \notin R =>
            Resolves(l2, key) /\ Path(l2, key) = Path(l, key)
    BY <1>3 DEF Pruned
<1>5. Family(l2)
    BY <1>s, ReapFamily
<1>6. FreeNodes(l2)
    BY <1>s, ReapFreeNodes
<1> HIDE DEF R
<1>7. RecordsIn(l2) = RecordsIn(l) /\ CreditsIn(l2) = CreditsIn(l)
    BY <1>2 DEF RecordsIn, CreditsIn
<1>8. ASSUME NEW r \in RecordsIn(l)
      PROVE  /\ Resolves(l2, l.records[r].leaf)
             /\ Path(l2, l.records[r].leaf) = Path(l, l.records[r].leaf)
  <2>1. Resolves(l, l.records[r].leaf)
      BY <1>0 DEF Owned
  <2>2. l.records[r].leaf.slot \in LiveIn(l) /\ l.records[r].leaf.slot \in OnPath(l, l.records[r].leaf)
      BY <1>0, <2>1, ResolvesIsLive, OnPathIsLive
  <2>3. r \in Under(l, l.records[r].leaf.slot)
      BY <1>0, <2>2, UnderIs
  <2>4. l.records[r].leaf.slot \notin R
      BY <1>1, <2>3
  <2> QED BY <1>4, <2>1, <2>4
<1>9. \A s \in LiveIn(l) \ R : s \in DomainSlot \ R
    BY DEF LiveIn
<1>10. ASSUME NEW s \in LiveIn(l) \ R
       PROVE  Under(l2, s) = Under(l, s)
    BY <1>2, <1>7, <1>8, <1>9 DEF Under
<1>11. \A s \in LiveIn(l) \ R : \A x : InPhase(l2, s, x) = InPhase(l, s, x)
    BY <1>2, <1>10 DEF InPhase
<1>12. Owned(l2)
    BY <1>0, <1>2, <1>7, <1>8 DEF Owned
<1>13. FreeRecords(l2)
    BY <1>0, <1>2, <1>7 DEF FreeRecords
<1>14. SameRoot(l, l2)
    BY <1>1, <1>2, Constants DEF SameRoot
<1>15. RecordTotalIsSound(l2)
    BY <1>0, <1>14 DEF RecordTotalIsSound, Occupied, SameRoot
<1>16. Books(l2)
    BY <1>0, <1>2, <1>4, <1>7, <1>9, <1>10, <1>11 DEF Books
<1>17. Limits(l2)
    BY <1>0, <1>1, <1>2, <1>4, <1>9, Constants DEF Limits, Occupied
<1>18. Tokens(l2, t)
    BY <1>0, <1>2, <1>7 DEF Tokens
<1>19. Handles(l2, h)
  <2>1. ASSUME NEW key \in DOMAIN h
        PROVE  key \in Key /\ Resolves(l2, key)
    <3>1. key \in Key /\ Resolves(l, key) /\ h[key] \in Nat \ {0}
        BY <1>0 DEF Handles
    <3>2. key.slot \in LiveIn(l) /\ l.nodes[key.slot].key = key
        BY <1>0, <3>1, ResolvesIsLive
    <3>3. l.nodes[key.slot].handles = h[key]
        BY <1>0, <3>2 DEF Handles, Copies
    <3>4. key.slot \notin R
        BY <1>1, <3>1, <3>3
    <3> QED BY <1>4, <3>1, <3>4
  <2>2. \A s \in LiveIn(l2) : l2.nodes[s].handles = Copies(h, l2.nodes[s].key)
      BY <1>0, <1>2, <1>4, <1>9 DEF Handles
  <2> QED BY <1>0, <2>1, <2>2 DEF Handles
<1>20. ASSUME NEW s \in LiveIn(l2) \ {0}
       PROVE  Needed(l2, s)
  <2>1. s \in LiveIn(l) \ R /\ s \in DomainSlot \ R /\ s # 0
      BY <1>4, <1>9
  <2>2. 1 \in 1..m /\ leaf.slot \in R
      BY <1>1 DEF R, Retirees
  <2>3. Needed(l, s)
      BY <2>1, <2>2
  <2>4. l.nodes[s].children \in Nat /\ l.nodes[s].handles \in Nat
      BY <1>0, <2>1, NodeTypes
  <2>5. /\ l2.nodes[s].handles = l.nodes[s].handles /\ Under(l2, s) = Under(l, s)
        /\ l2.nodes[s].children = l.nodes[s].children - (IF s = top THEN 1 ELSE 0)
      BY <1>2, <1>10, <2>1
  <2>6. CASE s # top
      BY <2>3, <2>4, <2>5, <2>6 DEF Needed
  <2>7. CASE s = top
    <3>1. m + 1 # Len(p)
        BY <1>1, <2>1, <2>7
    <3>2. ~ Gone(l, p, m + 1)
        BY <1>1, <3>1
    <3>3. m + 1 # 1
        BY <1>1
    <3>4. l.nodes[s].handles # 0 \/ l.nodes[s].children # 1 \/ Occupied(l.nodes[s]) # 0
        BY <2>7, <3>2, <3>3 DEF Gone
    <3>5. l2.nodes[s].children \in Nat
        BY <1>s, <2>1, NodeTypes
    <3>6. Occupied(l.nodes[s]) # 0 => Under(l, s) # {}
      <4>1. Occupied(l.nodes[s]) = Cardinality(Under(l, s))
          BY <1>0, <2>1, OccupiedIs
      <4>2. Cardinality({}) = 0
          BY FS_EmptySet
      <4> QED BY <4>1, <4>2
    <3> QED BY <2>4, <2>5, <2>7, <3>4, <3>5, <3>6 DEF Needed
  <2> QED BY <2>6, <2>7
<1>21. Sound(l2, h, t)
    BY <1>0, <1>s, <1>2, <1>3, <1>5, <1>6, <1>12, <1>13, <1>15, <1>16, <1>17, <1>18, <1>19 DEF Sound
<1> QED BY <1>14, <1>20, <1>21 DEF AllNeeded

LEMMA MaxIs ==
    ASSUME NEW n \in Nat, NEW S, S \subseteq 0..n, 0 \in S
    PROVE  Max(S) \in S /\ \A y \in S : Max(S) >= y
<1> DEFINE P == {j \in Nat : \E x \in S : \A y \in S : y <= j => x >= y}
<1>1. 0 \in P
    OBVIOUS
<1>2. ASSUME NEW j \in Nat, j \in P
      PROVE  j + 1 \in P
  <2>1. PICK x \in S : \A y \in S : y <= j => x >= y
      BY <1>2
  <2>2. CASE j + 1 \in S /\ j + 1 > x
    <3>1. \A y \in S : y <= j + 1 => j + 1 >= y
        OBVIOUS
    <3> QED BY <2>2, <3>1
  <2>3. CASE j + 1 \notin S \/ j + 1 <= x
    <3>1. \A y \in S : y <= j + 1 => x >= y
      <4> SUFFICES ASSUME NEW y \in S, y <= j + 1
                   PROVE  x >= y
          OBVIOUS
      <4>1. y = j + 1 \/ y <= j
          OBVIOUS
      <4> QED BY <2>1, <2>3, <4>1
    <3> QED BY <3>1
  <2> QED BY <2>2, <2>3
<1>3. n \in P
    BY <1>1, <1>2, NatInductionSet
<1>4. \E x \in S : \A y \in S : x >= y
    BY <1>3
<1> QED BY <1>4 DEF Max

(* plan_reap stops at the first domain that is still needed. *)
LEMMA PlanIs ==
    ASSUME NEW l, NEW p, Len(p) \in Nat \ {0}, NEW handles, NEW released,
           NEW m, m = plan_reap(l, p, handles, released)
    PROVE  /\ m \in 0..(Len(p) - 1)
           /\ \A i \in 1..m : Retires(l, p, i, handles, released)
           /\ m = Len(p) - 1 \/ ~ Retires(l, p, m + 1, handles, released)
<1> DEFINE S == {j \in 0..(Len(p) - 1) : \A i \in 1..j : Retires(l, p, i, handles, released)}
<1>1. m = Max(S)
    BY DEF plan_reap
<1>2. PICK n : n = Len(p) - 1
    OBVIOUS
<1>3. n \in Nat /\ S \subseteq 0..n /\ 0 \in S
    BY <1>2
<1> HIDE DEF S
<1>4. m \in S /\ \A y \in S : m >= y
    BY <1>1, <1>3, MaxIs
<1> USE DEF S
<1>5. m \in 0..(Len(p) - 1) /\ \A i \in 1..m : Retires(l, p, i, handles, released)
    BY <1>4
<1>6. ASSUME m # Len(p) - 1, Retires(l, p, m + 1, handles, released)
      PROVE  FALSE
  <2>1. m + 1 \in 0..(Len(p) - 1)
      BY <1>5, <1>6
  <2>2. \A i \in 1..(m + 1) : i = m + 1 \/ i \in 1..m
      BY <1>5
  <2>3. m + 1 \in S
      BY <1>5, <1>6, <2>1, <2>2
  <2> QED BY <1>4, <1>5, <2>3
<1> QED BY <1>5, <1>6

(* A domain below the root with no record has nothing charged. *)
LEMMA VacantIsUncharged ==
    ASSUME NEW l, NEW h, NEW t, Sound(l, h, t), NEW s \in LiveIn(l), s # 0,
           Occupied(l.nodes[s]) = 0
    PROVE  l.nodes[s].used = Zero
<1>0. l \in Ledger /\ Owned(l) /\ Books(l)
    BY DEF Sound
<1>1. Cardinality(Under(l, s)) = 0
    BY <1>0, OccupiedIs
<1>2. Under(l, s) = {}
    BY <1>1, FiniteRecords, FS_EmptySet
<1>3. l.nodes[s].used = Plus(Zero, ChargeOf(CreditsIn(l), {}))
    BY <1>0, <1>2 DEF Books, Base
<1>c. Charged(CreditsIn(l))
    BY <1>0 DEF Charged, CreditsIn, Ledger, DomainRecord, Credit
<1>4. ChargeOf(CreditsIn(l), {}) = Zero
    BY <1>c, ChargeNone
<1>5. Plus(Zero, Zero) = Zero
    BY DEF Plus, Zero
<1> QED BY <1>3, <1>4, <1>5

Stops(l, leaf, p, m) ==
    /\ leaf \in Key /\ Resolves(l, leaf) /\ p = Path(l, leaf) /\ m \in 0..(Len(p) - 1)
    /\ \A i \in 1..m : Gone(l, p, i)
    /\ m = Len(p) - 1 \/ ~ Gone(l, p, m + 1)

(* The whole retirement, of any number of domains or of none. *)
LEMMA RetirementKeeps ==
    ASSUME NEW l, NEW h, NEW t, Sound(l, h, t), NEW leaf, NEW p, NEW m, Stops(l, leaf, p, m),
           \A s \in LiveIn(l) \ {0} : s = leaf.slot \/ Needed(l, s),
           NEW l2, l2 = commit_reap(l, p, m)
    PROVE  Sound(l2, h, t) /\ AllNeeded(l2) /\ SameRoot(l, l2) /\ ReapIsSound(l, p, m)
<1>0. /\ l \in Ledger /\ Tree(l) /\ Owned(l) /\ Books(l)
      /\ leaf \in Key /\ Resolves(l, leaf) /\ p = Path(l, leaf) /\ m \in 0..(Len(p) - 1)
      /\ \A i \in 1..m : Gone(l, p, i)
      /\ m = Len(p) - 1 \/ ~ Gone(l, p, m + 1)
    BY DEF Sound, Stops
<1>1. CASE m = 0
  <2>1. l2 = l
      BY <1>1 DEF commit_reap
  <2>2. ReapIsSound(l, p, m) /\ SameRoot(l, l2)
      BY <1>1, <2>1 DEF ReapIsSound, SameRoot
  <2>3. Chain(l, leaf, p)
      BY <1>0, PathOfKey
  <2>4. p \in Seq(Key) /\ Len(p) \in Nat /\ Len(p) >= 1 /\ p[1] = leaf /\ p[Len(p)] = ROOT
      BY <2>3, Constants DEF Chain
  <2>5. leaf.slot \in LiveIn(l) /\ leaf.slot \in DomainSlot
      BY <1>0, ResolvesIsLive DEF LiveIn
  <2>6. leaf.slot = 0 \/ Needed(l, leaf.slot)
    <3>1. CASE Len(p) = 1
        BY <2>4, <3>1 DEF ROOT
    <3>2. CASE Len(p) # 1
      <4>1. ~ Gone(l, p, 1)
          BY <1>0, <1>1, <2>4, <3>2
      <4>2. l.nodes[leaf.slot].handles # 0 \/ l.nodes[leaf.slot].children # 0
                \/ Occupied(l.nodes[leaf.slot]) # 0
          BY <2>4, <4>1 DEF Gone
      <4>3. Occupied(l.nodes[leaf.slot]) = Cardinality(Under(l, leaf.slot))
          BY <1>0, <2>5, OccupiedIs
      <4>4. Cardinality({}) = 0
          BY FS_EmptySet
      <4>5. l.nodes[leaf.slot].handles \in Nat /\ l.nodes[leaf.slot].children \in Nat
          BY <1>0, <2>5, NodeTypes
      <4> QED BY <4>2, <4>3, <4>4, <4>5 DEF Needed
    <3> QED BY <3>1, <3>2
  <2>7. AllNeeded(l2)
      BY <2>1, <2>6 DEF AllNeeded
  <2> QED BY <2>1, <2>2, <2>7
<1>2. CASE m # 0
  <2>1. Going(l, leaf, p, m)
      BY <1>0, <1>2 DEF Going
  <2>2. Sound(l2, h, t) /\ AllNeeded(l2) /\ SameRoot(l, l2)
      BY <1>0, <2>1, ReapKeeps
  <2>3. GoingFacts(l, leaf, p, m)
      BY <2>1, GoingIs
  <2>4. /\ \A i \in 1..m : p[i].slot \in LiveIn(l) /\ p[i].slot # 0
      BY <2>3 DEF GoingFacts, Retirees
  <2>5. \A i \in 1..m : Occupied(l.nodes[p[i].slot]) = 0
      BY <1>0 DEF Gone
  <2>6. ReapIsSound(l, p, m)
      BY <2>4, <2>5, VacantIsUncharged DEF ReapIsSound
  <2> QED BY <2>2, <2>6
<1> QED BY <1>1, <1>2

(* DomainAccount::drop *)
LEMMA DropKeeps ==
    ASSUME NEW l, NEW h, NEW t, Sound(l, h, t), AllNeeded(l), NEW key \in DOMAIN h,
           NEW l2, l2 = AfterDrop(l, key), NEW h2, h2 = Without(h, key)
    PROVE  Sound(l2, h2, t) /\ AllNeeded(l2) /\ SameRoot(l, l2)
<1>0. l \in Ledger /\ Tree(l) /\ Handles(l, h)
    BY DEF Sound
<1>1. key \in Key /\ Resolves(l, key) /\ IsBag(h) /\ h[key] \in Nat \ {0}
    BY <1>0 DEF Handles, IsBag
<1>2. key.slot \in LiveIn(l) /\ key.slot \in DomainSlot /\ l.nodes[key.slot].key = key
    BY <1>0, <1>1, ResolvesIsLive DEF LiveIn
<1>3. l.nodes[key.slot].handles = h[key]
    BY <1>0, <1>2 DEF Handles, Copies
<1>4. PICK n : n = l.nodes[key.slot].handles - 1
    OBVIOUS
<1>5. n \in Nat /\ n = h[key] - 1
    BY <1>1, <1>3, <1>4
<1>6. ChangedTo(h, h2, key, n)
    BY <1>1, <1>5, LetGoIs
<1>7. PICK l1 : l1 = HandlesOf(l, key.slot, n)
    OBVIOUS
<1>8. Sound(l1, h2, t) /\ HandleStep(l, l1, key.slot, n)
    BY <1>1, <1>5, <1>6, <1>7, HandlesChange
<1>9. /\ SameTree(l, l1) /\ SameBooks(l, l1) /\ SameFamily(l, l1)
      /\ l1.poisoned = l.poisoned /\ l1.anchored = l.anchored
      /\ \A s \in DomainSlot : l1.nodes[s].handles = IF s = key.slot THEN n ELSE l.nodes[s].handles
    BY <1>8 DEF HandleStep
<1>10. PICK p : p = Path(l, key)
    OBVIOUS
<1>11. p = Path(l1, key) /\ Resolves(l1, key) /\ LiveIn(l1) = LiveIn(l)
    BY <1>0, <1>1, <1>9, <1>10, SameTreeKept DEF SamePaths
<1>12. Chain(l, key, p)
    BY <1>0, <1>1, <1>10, PathOfKey
<1>13. /\ p \in Seq(Key) /\ Len(p) \in Nat \ {0} /\ p[1] = key
       /\ \A i \in 1..Len(p) : p[i].slot \in DomainSlot
    BY <1>12, Constants DEF Chain, Resolves
<1>14. \A i \in 1..Len(p) : p[i].slot = key.slot <=> i = 1
  <2>1. 1 \in 1..Len(p)
      BY <1>13
  <2> QED BY <1>0, <1>1, <1>10, <1>13, <2>1, PathSlotsDistinct
<1>15. ASSUME NEW i \in 1..Len(p)
       PROVE  Retires(l, p, i, n, 0) <=> Gone(l1, p, i)
  <2>1. /\ l1.nodes[p[i].slot].children = l.nodes[p[i].slot].children
        /\ l1.nodes[p[i].slot].counts = l.nodes[p[i].slot].counts
        /\ l1.nodes[p[i].slot].handles = IF i = 1 THEN n ELSE l.nodes[p[i].slot].handles
      BY <1>9, <1>13, <1>14 DEF SameFamily, SameBooks
  <2> QED BY <2>1 DEF Retires, Gone, Occupied
<1>16. PICK m : m = plan_reap(l, p, n, 0)
    OBVIOUS
<1>17. /\ m \in 0..(Len(p) - 1)
       /\ \A i \in 1..m : Retires(l, p, i, n, 0)
       /\ m = Len(p) - 1 \/ ~ Retires(l, p, m + 1, n, 0)
    BY <1>13, <1>16, PlanIs
<1>18. Stops(l1, key, p, m)
  <2>1. \A i \in 1..m : i \in 1..Len(p)
      BY <1>13, <1>17
  <2>2. m = Len(p) - 1 \/ m + 1 \in 1..Len(p)
      BY <1>13, <1>17
  <2>3. \A i \in 1..m : Gone(l1, p, i)
      BY <1>15, <1>17, <2>1
  <2>4. m = Len(p) - 1 \/ ~ Gone(l1, p, m + 1)
      BY <1>15, <1>17, <2>2
  <2> QED BY <1>1, <1>11, <1>17, <2>3, <2>4 DEF Stops
<1>19. ASSUME NEW s \in LiveIn(l1) \ {0}
       PROVE  s = key.slot \/ Needed(l1, s)
  <2>1. s \in LiveIn(l) /\ s # 0 /\ s \in DomainSlot
      BY <1>11 DEF LiveIn
  <2>2. Needed(l, s) /\ Under(l1, s) = Under(l, s)
      BY <1>9, <2>1, SameBooksKept DEF AllNeeded
  <2> QED BY <1>9, <2>1, <2>2 DEF Needed, SameFamily
<1>20. PICK l3 : l3 = commit_reap(l1, p, m)
    OBVIOUS
<1>21. Sound(l3, h2, t) /\ AllNeeded(l3) /\ SameRoot(l1, l3) /\ ReapIsSound(l1, p, m)
    BY <1>8, <1>18, <1>19, <1>20, RetirementKeeps
<1>22. ReapIsSound(l, p, m)
  <2>1. \A i \in 1..m : i \in 1..Len(p)
      BY <1>13, <1>17
  <2> QED BY <1>9, <1>13, <1>21, <2>1 DEF ReapIsSound, SameBooks
<1>23. PathIsSound(l, key)
    BY <1>0, <1>1, OnPathIsLive
<1>24. l2 = l3
  <2>1. ~ (~ PathIsSound(l, key) \/ n < 0 \/ ~ ReapIsSound(l, p, m))
      BY <1>5, <1>22, <1>23
  <2> QED BY <1>4, <1>7, <1>10, <1>16, <1>20, <2>1 DEF AfterDrop, HandlesOf
<1>25. SameRoot(l, l3)
    BY <1>9, <1>21, Constants DEF SameRoot, SameBooks
<1> QED BY <1>21, <1>24, <1>25

(***************************************************************************)
(* Transitions of a credit.                                                *)
(***************************************************************************)
SettledNodes(l, leaf, charge, old, next) ==
    [s \in DomainSlot |->
        IF s \notin OnPath(l, leaf) THEN l.nodes[s]
        ELSE [l.nodes[s] EXCEPT
                !.used = IF next = "Vacant" THEN Minus(@, charge) ELSE @,
                !.counts = [p \in Phase |-> @[p] - (IF p = old THEN 1 ELSE 0)
                                                 + (IF p = next THEN 1 ELSE 0)]]]

(* What a transition does to the domains, one by one. *)
SettleFacts(l, nodes, leaf, charge, old, next) ==
    \A s \in DomainSlot :
        /\ nodes[s].key = l.nodes[s].key /\ nodes[s].parent = l.nodes[s].parent
        /\ nodes[s].capacity = l.nodes[s].capacity
        /\ nodes[s].record_limit = l.nodes[s].record_limit
        /\ nodes[s].handles = l.nodes[s].handles /\ nodes[s].children = l.nodes[s].children
        /\ s \notin OnPath(l, leaf) => nodes[s] = l.nodes[s]
        /\ s \in OnPath(l, leaf) =>
              /\ nodes[s].used =
                    IF next = "Vacant" THEN Minus(l.nodes[s].used, charge) ELSE l.nodes[s].used
              /\ \A p \in Phase : nodes[s].counts[p] = l.nodes[s].counts[p]
                    - (IF p = old THEN 1 ELSE 0) + (IF p = next THEN 1 ELSE 0)

LEMMA MinusIs ==
    ASSUME NEW u \in Vector, NEW v \in Vector, Covers(u, v)
    PROVE  Minus(u, v) \in Vector
BY DEF Vector, Covers, Minus

LEMMA SettledIs ==
    ASSUME NEW l \in Ledger, NEW leaf, NEW charge \in Vector, NEW old \in Phase,
           NEW next \in Phase \cup {"Vacant"},
           \A s \in OnPath(l, leaf) :
               l.nodes[s].counts[old] > 0 /\ (next = "Vacant" => Covers(l.nodes[s].used, charge)),
           NEW nodes, nodes = SettledNodes(l, leaf, charge, old, next)
    PROVE  nodes \in [DomainSlot -> Node] /\ SettleFacts(l, nodes, leaf, charge, old, next)
<1>1. ASSUME NEW s \in DomainSlot
      PROVE  /\ nodes[s] \in Node
             /\ nodes[s].key = l.nodes[s].key /\ nodes[s].parent = l.nodes[s].parent
             /\ nodes[s].capacity = l.nodes[s].capacity
             /\ nodes[s].record_limit = l.nodes[s].record_limit
             /\ nodes[s].handles = l.nodes[s].handles /\ nodes[s].children = l.nodes[s].children
             /\ s \notin OnPath(l, leaf) => nodes[s] = l.nodes[s]
             /\ s \in OnPath(l, leaf) =>
                   /\ nodes[s].used =
                         IF next = "Vacant" THEN Minus(l.nodes[s].used, charge) ELSE l.nodes[s].used
                   /\ \A p \in Phase : nodes[s].counts[p] = l.nodes[s].counts[p]
                         - (IF p = old THEN 1 ELSE 0) + (IF p = next THEN 1 ELSE 0)
  <2>0. /\ l.nodes[s] \in Node /\ l.nodes[s].used \in Vector
        /\ l.nodes[s].counts \in [Phase -> Nat]
      BY NodeTypes
  <2>1. CASE s \notin OnPath(l, leaf)
    <3>1. nodes[s] = l.nodes[s]
        BY <2>1 DEF SettledNodes
    <3> QED BY <2>0, <2>1, <3>1
  <2>2. CASE s \in OnPath(l, leaf)
    <3>1. PICK u, c : /\ u = IF next = "Vacant" THEN Minus(l.nodes[s].used, charge) ELSE l.nodes[s].used
                      /\ c = [p \in Phase |-> l.nodes[s].counts[p] - (IF p = old THEN 1 ELSE 0)
                                                                   + (IF p = next THEN 1 ELSE 0)]
        OBVIOUS
    <3>2. u \in Vector
        BY <2>0, <2>2, <3>1, MinusIs
    <3>3. \A p \in Phase : l.nodes[s].counts[p] - (IF p = old THEN 1 ELSE 0)
                                                + (IF p = next THEN 1 ELSE 0) \in Nat
        BY <2>0, <2>2
    <3>4. c \in [Phase -> Nat]
        BY <3>1, <3>3
    <3>5. nodes[s] = [l.nodes[s] EXCEPT !.used = u, !.counts = c]
      <4>1. nodes[s] = [l.nodes[s] EXCEPT
                !.used = IF next = "Vacant" THEN Minus(@, charge) ELSE @,
                !.counts = [p \in Phase |-> @[p] - (IF p = old THEN 1 ELSE 0)
                                                 + (IF p = next THEN 1 ELSE 0)]]
          BY <2>2 DEF SettledNodes
      <4>2. [l.nodes[s] EXCEPT !.used = u].counts = l.nodes[s].counts
          BY <2>0 DEF Node
      <4> QED BY <3>1, <4>1, <4>2, Zenon
    <3>6. /\ nodes[s] \in Node /\ nodes[s].used = u /\ nodes[s].counts = c
          /\ nodes[s].key = l.nodes[s].key /\ nodes[s].parent = l.nodes[s].parent
          /\ nodes[s].capacity = l.nodes[s].capacity
          /\ nodes[s].record_limit = l.nodes[s].record_limit
          /\ nodes[s].handles = l.nodes[s].handles /\ nodes[s].children = l.nodes[s].children
        BY <2>0, <3>2, <3>4, <3>5 DEF Node
    <3>7. \A p \in Phase : c[p] = l.nodes[s].counts[p]
                         - (IF p = old THEN 1 ELSE 0) + (IF p = next THEN 1 ELSE 0)
        BY <3>1
    <3> QED BY <2>2, <3>1, <3>6, <3>7
  <2> QED BY <2>1, <2>2
<1>2. nodes \in [DomainSlot -> Node]
  <2>1. nodes = [s \in DomainSlot |-> nodes[s]]
      BY DEF SettledNodes
  <2> QED BY <1>1, <2>1
<1> QED BY <1>1, <1>2 DEF SettleFacts

(* What the ledger knows of a token that is alive. *)
CreditFacts(l, x, r, leaf, charge, phase) ==
    /\ r \in RecordsIn(l) /\ r \in RecordSlot /\ leaf \in Key /\ Resolves(l, leaf)
    /\ charge \in Vector /\ phase \in {"Reserved", "Retained"}
    /\ phase = (IF x.kind = "reservation" THEN "Reserved" ELSE "Retained")
    /\ l.records[r].credit.owner = x.owner /\ x.owner # 0
    /\ PathIsSound(l, leaf) /\ Len(l.free_records) < MaxRecords
    /\ OnPath(l, leaf) \subseteq LiveIn(l) /\ 0 \in OnPath(l, leaf) /\ leaf.slot \in OnPath(l, leaf)
    /\ \A s \in LiveIn(l) : s \in OnPath(l, leaf) <=> r \in Under(l, s)
    /\ \A s \in OnPath(l, leaf) :
          /\ l.nodes[s].counts[phase] > 0 /\ Covers(l.nodes[s].used, charge)
          /\ Minus(l.nodes[s].used, charge) =
                Plus(Base(s), ChargeOf(CreditsIn(l), Under(l, s) \ {r}))

LEMMA CreditIs ==
    ASSUME NEW l, NEW h, NEW t, Sound(l, h, t), NEW x \in t, NEW r, r = x.slot,
           NEW leaf, leaf = l.records[r].leaf, NEW charge, charge = l.records[r].credit.charge,
           NEW phase, phase = l.records[r].credit.phase
    PROVE  CreditFacts(l, x, r, leaf, charge, phase)
<1>0. /\ l \in Ledger /\ Tree(l) /\ Owned(l) /\ Books(l) /\ RecordTotalIsSound(l) /\ Tokens(l, t)
    BY DEF Sound
<1>1. /\ r \in RecordsIn(l) /\ r \in RecordSlot
      /\ phase = (IF x.kind = "reservation" THEN "Reserved" ELSE "Retained")
      /\ l.records[r].credit.owner = x.owner
    BY <1>0 DEF Tokens, RecordsIn
<1>2. phase \in {"Reserved", "Retained"} /\ phase \in Phase
    BY <1>1 DEF Phase
<1>3. leaf \in Key /\ charge \in Vector /\ l.records[r].credit.owner \in Nat
  <2>1. l.records[r] \in DomainRecord
      BY <1>0, <1>1 DEF Ledger
  <2>2. l.records[r].credit \in Credit /\ leaf \in Key
      BY <2>1 DEF DomainRecord
  <2> QED BY <2>2 DEF Credit
<1>4. Resolves(l, leaf) /\ x.owner # 0
    BY <1>0, <1>1 DEF Owned
<1>5. /\ OnPath(l, leaf) \subseteq LiveIn(l) /\ 0 \in OnPath(l, leaf) /\ leaf.slot \in OnPath(l, leaf)
      /\ PathIsSound(l, leaf)
    BY <1>0, <1>4, OnPathIsLive
<1>6. \A s \in LiveIn(l) : s \in OnPath(l, leaf) <=> r \in Under(l, s)
    BY <1>0, <1>1, UnderIs
<1>7. Charged(CreditsIn(l)) /\ CreditsIn(l)[r].charge = charge
    BY <1>0, <1>1 DEF Charged, CreditsIn, Ledger, DomainRecord, Credit
<1>8. ASSUME NEW s \in OnPath(l, leaf)
      PROVE  /\ l.nodes[s].counts[phase] > 0 /\ Covers(l.nodes[s].used, charge)
             /\ Minus(l.nodes[s].used, charge) =
                   Plus(Base(s), ChargeOf(CreditsIn(l), Under(l, s) \ {r}))
  <2>1. s \in LiveIn(l) /\ r \in Under(l, s) /\ s \in DomainSlot
      BY <1>5, <1>6 DEF LiveIn
  <2>2. r \in InPhase(l, s, phase)
      BY <2>1 DEF InPhase
  <2>3. l.nodes[s].counts[phase] = Cardinality(InPhase(l, s, phase))
      BY <1>0, <1>2, <2>1 DEF Books
  <2>f. /\ IsFiniteSet(InPhase(l, s, phase)) /\ Cardinality(InPhase(l, s, phase)) \in Nat
        /\ InPhase(l, s, phase) # {}
      BY <2>2, FiniteRecords
  <2>g. Cardinality(InPhase(l, s, phase)) # 0
      BY <2>f, FS_EmptySet
  <2>4. l.nodes[s].counts[phase] > 0
    <3>1. PICK n : n = Cardinality(InPhase(l, s, phase))
        OBVIOUS
    <3>2. n \in Nat /\ n # 0
        BY <2>f, <2>g, <3>1
    <3>3. n > 0
        BY <3>2
    <3> QED BY <2>3, <3>1, <3>3
  <2>5. PICK S : S = Under(l, s) \ {r}
      OBVIOUS
  <2>6. S \cup {r} = Under(l, s) /\ r \notin S
      BY <2>1, <2>5
  <2>7. PICK b, c : b = Base(s) /\ c = ChargeOf(CreditsIn(l), S)
      OBVIOUS
  <2>8. b \in Vector /\ c \in Vector
    <3>1. c \in Vector
        BY <1>7, <2>7, ChargeType
    <3>2. Zero \in Vector
        BY DEF Zero, Vector
    <3> QED BY <2>7, <3>1, <3>2, DomainAssumption DEF Base
  <2>9. ChargeOf(CreditsIn(l), S \cup {r}) = Plus(c, charge)
    <3>1. PICK rec : rec = CreditsIn(l)
        OBVIOUS
    <3>2. Charged(rec) /\ rec[r].charge = charge
        BY <1>7, <3>1
    <3>3. ChargeOf(rec, S \cup {r}) = Plus(ChargeOf(rec, S), rec[r].charge)
        BY <1>1, <2>6, <3>2, ChargeGrows
    <3> QED BY <2>7, <3>1, <3>2, <3>3
  <2>10. l.nodes[s].used = Plus(b, Plus(c, charge))
      BY <1>0, <2>1, <2>6, <2>7, <2>9 DEF Books
  <2>11. PICK d : d = Plus(b, c)
      OBVIOUS
  <2>a. Plus(b, c) \in Vector
      BY <2>8, VectorArithmetic
  <2>b. Plus(Plus(b, c), charge) = Plus(b, Plus(c, charge))
      BY <1>3, <2>8, PlusAssociative
  <2>12. d \in Vector /\ l.nodes[s].used = Plus(d, charge)
      BY <2>10, <2>11, <2>a, <2>b
  <2>13. Minus(Plus(d, charge), charge) = d
      BY <1>3, <2>12, VectorArithmetic
  <2>14. Covers(Plus(d, charge), charge)
      BY <1>3, <2>12 DEF Covers, Plus, Vector
  <2> QED BY <2>4, <2>5, <2>7, <2>11, <2>12, <2>13, <2>14
<1>9. Len(l.free_records) < MaxRecords
  <2>1. 0 \in LiveIn(l)
      BY <1>5
  <2>2. Occupied(l.nodes[0]) = Cardinality(Under(l, 0)) /\ r \in Under(l, 0)
      BY <1>0, <1>5, <1>6, <2>1, OccupiedIs
  <2>3. Cardinality(Under(l, 0)) > 0
      BY <2>2, FiniteRecords, FS_EmptySet
  <2>4. Len(l.free_records) \in Nat
      BY <1>0 DEF Ledger
  <2>5. Occupied(l.nodes[0]) + Len(l.free_records) = MaxRecords /\ MaxRecords \in Nat
      BY <1>0, Constants DEF RecordTotalIsSound
  <2>6. Cardinality(Under(l, 0)) \in Nat
      BY FiniteRecords
  <2> QED BY <2>2, <2>3, <2>4, <2>5, <2>6
<1> QED BY <1>1, <1>2, <1>3, <1>4, <1>5, <1>6, <1>8, <1>9 DEF CreditFacts

PhaseOf(l, nodes, r, next) ==
    [[l EXCEPT !.nodes = nodes] EXCEPT !.records[r].credit.phase = next,
                                       !.anchored = @ \/ next = "Quarantined"]

PhaseStep(l, l1, nodes, r, next) ==
    /\ l1.nodes = nodes /\ l1.free_nodes = l.free_nodes /\ l1.next_node = l.next_node
    /\ l1.free_records = l.free_records /\ l1.next_owner = l.next_owner
    /\ l1.poisoned = l.poisoned /\ l1.anchored = (l.anchored \/ next = "Quarantined")
    /\ CreditsIn(l1) = [CreditsIn(l) EXCEPT ![r].phase = next]
    /\ \A q \in RecordSlot :
          /\ l1.records[q].leaf = l.records[q].leaf
          /\ l1.records[q].credit.owner = l.records[q].credit.owner
          /\ l1.records[q].credit.charge = l.records[q].credit.charge
          /\ l1.records[q].credit.phase = IF q = r THEN next ELSE l.records[q].credit.phase
          /\ q # r => l1.records[q] = l.records[q]

LEMMA PhaseOfIs ==
    ASSUME NEW l \in Ledger, NEW nodes \in [DomainSlot -> Node], NEW r \in RecordSlot,
           NEW next \in Phase, NEW l1, l1 = PhaseOf(l, nodes, r, next)
    PROVE  l1 \in Ledger /\ PhaseStep(l, l1, nodes, r, next)
<1>1. l.records \in [RecordSlot -> DomainRecord] /\ l.records[r] \in DomainRecord
    BY DEF Ledger
<1>2. l.records[r].credit \in Credit /\ l.records[r].leaf \in Key
    BY <1>1 DEF DomainRecord
<1>3. PICK c : c = [l.records[r].credit EXCEPT !.phase = next]
    OBVIOUS
<1>4. /\ c \in Credit /\ c.phase = next /\ c.owner = l.records[r].credit.owner
      /\ c.charge = l.records[r].credit.charge
    BY <1>2, <1>3 DEF Credit
<1>5. PICK d : d = [l.records[r] EXCEPT !.credit = c]
    OBVIOUS
<1>6. d \in DomainRecord /\ d.credit = c /\ d.leaf = l.records[r].leaf
    BY <1>1, <1>4, <1>5 DEF DomainRecord
<1>7. PICK records : records = [l.records EXCEPT ![r] = d]
    OBVIOUS
<1>8. /\ records \in [RecordSlot -> DomainRecord]
      /\ \A q \in RecordSlot : records[q] = IF q = r THEN d ELSE l.records[q]
    BY <1>1, <1>6, <1>7
<1>9. PICK anchored : anchored = (l.anchored \/ next = "Quarantined")
    OBVIOUS
<1>10. anchored \in BOOLEAN
    BY <1>9
<1>11. l1 = [l EXCEPT !.nodes = nodes, !.records = records, !.anchored = anchored]
    BY <1>3, <1>5, <1>7, <1>9 DEF PhaseOf, Ledger
<1>12. /\ l1 \in Ledger /\ l1.nodes = nodes /\ l1.records = records /\ l1.anchored = anchored
       /\ l1.free_nodes = l.free_nodes /\ l1.next_node = l.next_node
       /\ l1.free_records = l.free_records /\ l1.next_owner = l.next_owner
       /\ l1.poisoned = l.poisoned
    BY <1>8, <1>10, <1>11 DEF Ledger
<1>13. ASSUME NEW q \in RecordSlot
       PROVE  /\ l1.records[q].leaf = l.records[q].leaf
              /\ l1.records[q].credit.owner = l.records[q].credit.owner
              /\ l1.records[q].credit.charge = l.records[q].credit.charge
              /\ l1.records[q].credit.phase = IF q = r THEN next ELSE l.records[q].credit.phase
              /\ q # r => l1.records[q] = l.records[q]
    BY <1>4, <1>6, <1>8, <1>12
<1>14. CreditsIn(l1) = [CreditsIn(l) EXCEPT ![r].phase = next]
    BY <1>3, <1>6, <1>8, <1>12 DEF CreditsIn
<1> QED BY <1>9, <1>12, <1>13, <1>14 DEF PhaseStep

LEMMA OneToken ==
    ASSUME NEW l, NEW t, Tokens(l, t), NEW x \in t, NEW y \in t, x.slot = y.slot
    PROVE  x = y
<1>1. x \in Token /\ y \in Token
    BY DEF Tokens
<1>2. x.owner = y.owner
    BY DEF Tokens
<1>3. x.kind = y.kind
  <2>1. (IF x.kind = "reservation" THEN "Reserved" ELSE "Retained")
            = IF y.kind = "reservation" THEN "Reserved" ELSE "Retained"
      BY DEF Tokens
  <2> QED BY <1>1, <2>1 DEF Token
<1> QED BY <1>1, <1>2, <1>3 DEF Token

LEMMA SettledTree ==
    ASSUME NEW l, NEW l1, NEW leaf, NEW charge, NEW old, NEW next,
           SettleFacts(l, l1.nodes, leaf, charge, old, next), OnPath(l, leaf) \subseteq LiveIn(l),
           l1.free_nodes = l.free_nodes, l1.next_node = l.next_node
    PROVE  SameTree(l, l1) /\ SameFamily(l, l1) /\ SameHandles(l, l1)
BY DEF SettleFacts, SameTree, SameFamily, SameHandles

(* Retain and Quarantine: the credit keeps its charge. *)
AfterPhase(t, x, next) ==
    IF next = "Retained" THEN (t \ {x}) \cup {[x EXCEPT !.kind = "retained"]} ELSE t \ {x}

LEMMA PhaseTokens ==
    ASSUME NEW l, NEW t, Tokens(l, t), NEW x \in t, NEW r, r = x.slot, NEW next,
           \/ x.kind = "reservation" /\ next = "Retained"
           \/ x.kind = "retained" /\ next = "Quarantined",
           NEW l1, RecordsIn(l1) = RecordsIn(l),
           \A q \in RecordSlot :
              /\ l1.records[q].credit.owner = l.records[q].credit.owner
              /\ l1.records[q].credit.phase = IF q = r THEN next ELSE l.records[q].credit.phase,
           NEW t2, t2 = AfterPhase(t, x, next)
    PROVE  Tokens(l1, t2)
<1>0. \A q \in RecordsIn(l) : q \in RecordSlot
    BY DEF RecordsIn
<1>1. ASSUME NEW y \in t \ {x}
      PROVE  /\ y \in Token /\ y.slot \in RecordsIn(l) /\ y.slot # r
             /\ l1.records[y.slot].credit.owner = y.owner
             /\ l1.records[y.slot].credit.phase =
                   IF y.kind = "reservation" THEN "Reserved" ELSE "Retained"
  <2>1. /\ y \in Token /\ y.slot \in RecordsIn(l)
        /\ l.records[y.slot].credit.owner = y.owner
        /\ l.records[y.slot].credit.phase =
              IF y.kind = "reservation" THEN "Reserved" ELSE "Retained"
      BY DEF Tokens
  <2>2. y.slot # r
      BY <1>1, OneToken
  <2> QED BY <1>0, <2>1, <2>2
<1>2. ASSUME NEW q \in RecordsIn(l), q # r, l1.records[q].credit.phase # "Quarantined"
      PROVE  \E y \in t \ {x} : y.slot = q
    BY <1>0, <1>2 DEF Tokens
<1>3. x \in Token /\ r \in RecordsIn(l) /\ l.records[r].credit.owner = x.owner
    BY DEF Tokens
<1>4. CASE next = "Quarantined"
  <2>1. t2 = t \ {x}
      BY <1>4 DEF AfterPhase
  <2>2. l1.records[r].credit.phase = "Quarantined"
      BY <1>0, <1>3, <1>4
  <2> QED BY <1>1, <1>2, <2>1, <2>2 DEF Tokens
<1>5. CASE next = "Retained"
  <2>1. PICK z : z = [x EXCEPT !.kind = "retained"]
      OBVIOUS
  <2>2. z \in Token /\ z.slot = r /\ z.owner = x.owner /\ z.kind = "retained"
      BY <1>3, <2>1 DEF Token
  <2>3. t2 = (t \ {x}) \cup {z}
      BY <1>5, <2>1 DEF AfterPhase
  <2>4. l1.records[r].credit.phase = "Retained" /\ l1.records[r].credit.owner = x.owner
      BY <1>0, <1>3, <1>5
  <2>5. t2 \subseteq Token
      BY <1>1, <2>2, <2>3
  <2>6. ASSUME NEW y \in t2
        PROVE  /\ y.slot \in RecordsIn(l1)
               /\ l1.records[y.slot].credit.owner = y.owner
               /\ l1.records[y.slot].credit.phase =
                     IF y.kind = "reservation" THEN "Reserved" ELSE "Retained"
    <3>1. CASE y = z
        BY <1>3, <2>2, <2>4, <3>1
    <3>2. CASE y # z
        BY <1>1, <2>3, <3>2
    <3> QED BY <3>1, <3>2
  <2>7. ASSUME NEW q \in RecordsIn(l1), l1.records[q].credit.phase # "Quarantined"
        PROVE  \E y \in t2 : y.slot = q
      BY <1>2, <2>2, <2>3, <2>7
  <2> QED BY <2>5, <2>6, <2>7 DEF Tokens
<1> QED BY <1>4, <1>5

IsCredit(l, x, r, leaf, charge, old) ==
    /\ r = x.slot /\ leaf = l.records[r].leaf /\ charge = l.records[r].credit.charge
    /\ old = l.records[r].credit.phase

Advances(x, next) ==
    \/ x.kind = "reservation" /\ next = "Retained"
    \/ x.kind = "retained" /\ next = "Quarantined"

PhaseChange(l, x, r, leaf, charge, old, next, nodes, l1) ==
    /\ IsCredit(l, x, r, leaf, charge, old) /\ Advances(x, next)
    /\ nodes = SettledNodes(l, leaf, charge, old, next) /\ l1 = PhaseOf(l, nodes, r, next)

LEMMA PhaseKeeps ==
    ASSUME NEW l, NEW h, NEW t, Sound(l, h, t), AllNeeded(l), NEW x \in t, NEW r, NEW leaf,
           NEW charge, NEW old, NEW next, NEW nodes, NEW l1,
           PhaseChange(l, x, r, leaf, charge, old, next, nodes, l1),
           NEW t2, t2 = AfterPhase(t, x, next)
    PROVE  /\ Sound(l1, h, t2) /\ AllNeeded(l1)
           /\ SettleFacts(l, nodes, leaf, charge, old, next) /\ PhaseStep(l, l1, nodes, r, next)
<1>0. /\ l \in Ledger /\ ~ l.poisoned /\ Tree(l) /\ FreeNodes(l) /\ Family(l) /\ Handles(l, h)
      /\ Owned(l) /\ FreeRecords(l) /\ RecordTotalIsSound(l) /\ Books(l) /\ Limits(l) /\ Tokens(l, t)
    BY DEF Sound
<1>c. CreditFacts(l, x, r, leaf, charge, old)
    BY CreditIs DEF PhaseChange, IsCredit
<1>1. /\ r \in RecordsIn(l) /\ r \in RecordSlot /\ charge \in Vector
      /\ old = (IF x.kind = "reservation" THEN "Reserved" ELSE "Retained")
      /\ OnPath(l, leaf) \subseteq LiveIn(l)
      /\ \A s \in LiveIn(l) : s \in OnPath(l, leaf) <=> r \in Under(l, s)
      /\ \A s \in OnPath(l, leaf) : l.nodes[s].counts[old] > 0
    BY <1>c DEF CreditFacts
<1>o. l.records[r].credit.phase = old
    BY DEF PhaseChange, IsCredit
<1>2. old \in Phase /\ next \in Phase /\ next # "Vacant" /\ old # next
    BY <1>1 DEF Phase, PhaseChange, Advances
<1>3. nodes \in [DomainSlot -> Node] /\ SettleFacts(l, nodes, leaf, charge, old, next)
    BY <1>0, <1>1, <1>2, SettledIs DEF PhaseChange
<1>4. l1 \in Ledger /\ PhaseStep(l, l1, nodes, r, next)
    BY <1>0, <1>1, <1>2, <1>3, PhaseOfIs DEF PhaseChange
<1>5. /\ l1.nodes = nodes /\ l1.free_nodes = l.free_nodes /\ l1.next_node = l.next_node
      /\ l1.free_records = l.free_records /\ l1.next_owner = l.next_owner
      /\ l1.poisoned = l.poisoned
      /\ \A q \in RecordSlot :
          /\ l1.records[q].leaf = l.records[q].leaf
          /\ l1.records[q].credit.owner = l.records[q].credit.owner
          /\ l1.records[q].credit.charge = l.records[q].credit.charge
          /\ l1.records[q].credit.phase = IF q = r THEN next ELSE l.records[q].credit.phase
          /\ q # r => l1.records[q] = l.records[q]
    BY <1>4 DEF PhaseStep
<1>6. SameTree(l, l1) /\ SameFamily(l, l1) /\ SameHandles(l, l1)
    BY <1>1, <1>3, <1>5, SettledTree
<1>7. Tree(l1) /\ FreeNodes(l1) /\ SamePaths(l, l1)
    BY <1>0, <1>6, SameTreeKept
<1>8. Family(l1) /\ Handles(l1, h)
    BY <1>0, <1>6, SameFamilyKept, SameHandlesKept
<1>9. RecordsIn(l1) = RecordsIn(l)
  <2>1. NoDomainRecord.credit.phase = "Vacant"
      BY DEF NoDomainRecord, NoRecord
  <2>2. l1.records[r] # NoDomainRecord
      BY <1>1, <1>2, <1>5, <2>1
  <2> QED BY <1>1, <1>5, <2>2 DEF RecordsIn
<1>10. \A q \in RecordsIn(l) : q \in RecordSlot
    BY DEF RecordsIn
<1>11. LiveIn(l1) = LiveIn(l) /\ \A s \in LiveIn(l) : s \in DomainSlot
    BY <1>7 DEF SamePaths, LiveIn
<1>12. ASSUME NEW s \in LiveIn(l)
       PROVE  Under(l1, s) = Under(l, s)
  <2>1. l1.nodes[s].key = l.nodes[s].key
      BY <1>7 DEF SamePaths
  <2>2. \A q \in RecordsIn(l) : Path(l1, l1.records[q].leaf) = Path(l, l.records[q].leaf)
      BY <1>0, <1>5, <1>7, <1>10 DEF Owned, SamePaths
  <2> QED BY <1>9, <2>1, <2>2 DEF Under
<1>13. Owned(l1)
    BY <1>0, <1>2, <1>5, <1>7, <1>9, <1>10 DEF Owned, SamePaths
<1>14. FreeRecords(l1)
    BY <1>0, <1>5, <1>9 DEF FreeRecords
<1>15. ASSUME NEW s \in LiveIn(l)
       PROVE  l1.nodes[s].used = Plus(Base(s), ChargeOf(CreditsIn(l1), Under(l1, s)))
  <2>1. l1.nodes[s].used = l.nodes[s].used
      BY <1>2, <1>3, <1>5, <1>11 DEF SettleFacts
  <2>2. \A q \in Under(l, s) \cap RecordSlot : CreditsIn(l1)[q].charge = CreditsIn(l)[q].charge
      BY <1>5 DEF CreditsIn
  <2>3. ChargeOf(CreditsIn(l1), Under(l, s)) = ChargeOf(CreditsIn(l), Under(l, s))
      BY <2>2, ChargeSame
  <2> QED BY <1>0, <1>12, <2>1, <2>3 DEF Books
<1>16. ASSUME NEW s \in LiveIn(l), NEW ph \in Phase
       PROVE  l1.nodes[s].counts[ph] = Cardinality(InPhase(l1, s, ph))
  <2>1. /\ l.nodes[s].counts[ph] = Cardinality(InPhase(l, s, ph)) /\ s \in DomainSlot
        /\ l.nodes[s].counts[ph] \in Nat /\ IsFiniteSet(InPhase(l, s, ph))
      BY <1>0, <1>11, FiniteRecords, ZenonT(60) DEF Books
  <2>2. \A q \in Under(l, s) : q \in RecordSlot
      BY DEF Under, RecordsIn
  <2>3. CASE s \notin OnPath(l, leaf)
    <3>1. l1.nodes[s] = l.nodes[s]
        BY <1>3, <1>5, <2>1, <2>3 DEF SettleFacts
    <3>2. r \notin Under(l, s)
        BY <1>1, <2>3
    <3>3. InPhase(l1, s, ph) = InPhase(l, s, ph)
        BY <1>5, <1>12, <2>2, <3>2 DEF InPhase
    <3> QED BY <2>1, <3>1, <3>3
  <2>4. CASE s \in OnPath(l, leaf)
    <3>1. l1.nodes[s].counts[ph] = l.nodes[s].counts[ph]
                - (IF ph = old THEN 1 ELSE 0) + (IF ph = next THEN 1 ELSE 0)
        BY <1>3, <1>5, <2>1, <2>4 DEF SettleFacts
    <3>2. r \in Under(l, s)
        BY <1>1, <2>4
    <3>3. CASE ph = old
      <4>1. InPhase(l1, s, ph) = InPhase(l, s, ph) \ {r} /\ r \in InPhase(l, s, ph)
          BY <1>o, <1>2, <1>5, <1>12, <2>2, <3>2, <3>3 DEF InPhase
      <4>2. Cardinality(InPhase(l, s, ph) \ {r}) = Cardinality(InPhase(l, s, ph)) - 1
          BY <2>1, <4>1, FS_RemoveElement
      <4> QED BY <1>2, <2>1, <3>1, <3>3, <4>1, <4>2
    <3>4. CASE ph = next
      <4>1. InPhase(l1, s, ph) = InPhase(l, s, ph) \cup {r} /\ r \notin InPhase(l, s, ph)
          BY <1>o, <1>2, <1>5, <1>12, <2>2, <3>2, <3>4 DEF InPhase
      <4>2. Cardinality(InPhase(l, s, ph) \cup {r}) = Cardinality(InPhase(l, s, ph)) + 1
          BY <2>1, <4>1, FS_AddElement
      <4> QED BY <1>2, <2>1, <3>1, <3>4, <4>1, <4>2
    <3>5. CASE ph # old /\ ph # next
      <4>1. InPhase(l1, s, ph) = InPhase(l, s, ph)
          BY <1>o, <1>5, <1>12, <2>2, <3>5 DEF InPhase
      <4>2. l1.nodes[s].counts[ph] = l.nodes[s].counts[ph]
          BY <2>1, <3>1, <3>5
      <4> QED BY <2>1, <4>1, <4>2
    <3> QED BY <3>3, <3>4, <3>5
  <2> QED BY <2>3, <2>4
<1>17. Books(l1)
    BY <1>11, <1>15, <1>16 DEF Books
<1>18. \A s \in LiveIn(l) : Occupied(l1.nodes[s]) = Occupied(l.nodes[s])
    BY <1>0, <1>11, <1>12, <1>13, <1>17, OccupiedIs
<1>19. RecordTotalIsSound(l1)
  <2>1. 0 \in LiveIn(l)
      BY <1>0, RootHasAll
  <2> QED BY <1>0, <1>5, <1>18, <2>1 DEF RecordTotalIsSound
<1>20. Limits(l1)
  <2>1. \A s \in LiveIn(l) : /\ l1.nodes[s].used = l.nodes[s].used
                             /\ l1.nodes[s].capacity = l.nodes[s].capacity
                             /\ l1.nodes[s].record_limit = l.nodes[s].record_limit
      BY <1>2, <1>3, <1>5, <1>11 DEF SettleFacts
  <2>2. 0 \in LiveIn(l)
      BY <1>0, RootHasAll
  <2> QED BY <1>0, <1>11, <1>18, <2>1, <2>2 DEF Limits
<1>21. Tokens(l1, t2)
  <2>1. r = x.slot /\ (\/ x.kind = "reservation" /\ next = "Retained"
                       \/ x.kind = "retained" /\ next = "Quarantined")
      BY DEF PhaseChange, IsCredit, Advances
  <2> QED BY <1>0, <1>5, <1>9, <2>1, PhaseTokens
<1>22. AllNeeded(l1)
    BY <1>6, <1>11, <1>12 DEF AllNeeded, Needed, SameFamily, SameHandles
<1>23. Sound(l1, h, t2)
    BY <1>0, <1>4, <1>5, <1>7, <1>8, <1>13, <1>14, <1>17, <1>19, <1>20, <1>21 DEF Sound
<1> QED BY <1>3, <1>4, <1>22, <1>23

VacateOf(l, nodes, r) ==
    [[l EXCEPT !.nodes = nodes] EXCEPT !.records[r] = NoDomainRecord,
                                       !.free_records = Append(@, r)]

VacateStep(l, l1, nodes, r) ==
    /\ l1.nodes = nodes /\ l1.free_nodes = l.free_nodes /\ l1.next_node = l.next_node
    /\ l1.free_records = Append(l.free_records, r) /\ l1.next_owner = l.next_owner
    /\ l1.poisoned = l.poisoned /\ l1.anchored = l.anchored
    /\ CreditsIn(l1) = [CreditsIn(l) EXCEPT ![r] = NoRecord]
    /\ \A q \in RecordSlot : l1.records[q] = IF q = r THEN NoDomainRecord ELSE l.records[q]

LEMMA NoRecordIs ==
    /\ NoDomainRecord \in DomainRecord /\ NoDomainRecord.credit = NoRecord
    /\ NoRecord.charge = Zero /\ NoRecord.phase = "Vacant" /\ NoRecord.owner = 0
<1>1. Zero \in Vector
    BY DEF Zero, Vector
<1> QED BY <1>1 DEF NoDomainRecord, NoRecord, DomainRecord, Credit, NoKey, Key

LEMMA VacateOfIs ==
    ASSUME NEW l \in Ledger, NEW nodes \in [DomainSlot -> Node], NEW r \in RecordSlot,
           NEW l1, l1 = VacateOf(l, nodes, r)
    PROVE  l1 \in Ledger /\ VacateStep(l, l1, nodes, r)
<1>1. l.records \in [RecordSlot -> DomainRecord] /\ l.free_records \in Seq(RecordSlot)
    BY DEF Ledger
<1>2. PICK records : records = [l.records EXCEPT ![r] = NoDomainRecord]
    OBVIOUS
<1>3. /\ records \in [RecordSlot -> DomainRecord]
      /\ \A q \in RecordSlot : records[q] = IF q = r THEN NoDomainRecord ELSE l.records[q]
    BY <1>1, <1>2, NoRecordIs
<1>4. PICK free : free = Append(l.free_records, r)
    OBVIOUS
<1>5. free \in Seq(RecordSlot)
    BY <1>1, <1>4
<1>6. l1 = [l EXCEPT !.nodes = nodes, !.records = records, !.free_records = free]
    BY <1>2, <1>4 DEF VacateOf, Ledger
<1>7. /\ l1 \in Ledger /\ l1.nodes = nodes /\ l1.records = records /\ l1.free_records = free
      /\ l1.free_nodes = l.free_nodes /\ l1.next_node = l.next_node
      /\ l1.next_owner = l.next_owner
      /\ l1.poisoned = l.poisoned /\ l1.anchored = l.anchored
    BY <1>3, <1>5, <1>6 DEF Ledger
<1>8. CreditsIn(l1) = [CreditsIn(l) EXCEPT ![r] = NoRecord]
    BY <1>3, <1>7, NoRecordIs DEF CreditsIn
<1> QED BY <1>3, <1>4, <1>7, <1>8 DEF VacateStep

Vacates(l, x, r, leaf, charge, old, nodes, l1) ==
    /\ IsCredit(l, x, r, leaf, charge, old)
    /\ nodes = SettledNodes(l, leaf, charge, old, "Vacant") /\ l1 = VacateOf(l, nodes, r)

(* A release, before the domains that it leaves empty retire. *)
LEMMA VacateKeeps ==
    ASSUME NEW l, NEW h, NEW t, Sound(l, h, t), AllNeeded(l), NEW x \in t, NEW r, NEW leaf,
           NEW charge, NEW old, NEW nodes, NEW l1,
           Vacates(l, x, r, leaf, charge, old, nodes, l1)
    PROVE  /\ Sound(l1, h, t \ {x})
           /\ \A s \in LiveIn(l1) \ {0} : s \notin OnPath(l, leaf) => Needed(l1, s)
           /\ SettleFacts(l, nodes, leaf, charge, old, "Vacant") /\ VacateStep(l, l1, nodes, r)
           /\ SameTree(l, l1)
<1>0. /\ l \in Ledger /\ ~ l.poisoned /\ Tree(l) /\ FreeNodes(l) /\ Family(l) /\ Handles(l, h)
      /\ Owned(l) /\ FreeRecords(l) /\ RecordTotalIsSound(l) /\ Books(l) /\ Limits(l) /\ Tokens(l, t)
    BY DEF Sound
<1>c. CreditFacts(l, x, r, leaf, charge, old)
    BY CreditIs DEF Vacates, IsCredit
<1>1. /\ r \in RecordsIn(l) /\ r \in RecordSlot /\ charge \in Vector /\ old \in Phase
      /\ OnPath(l, leaf) \subseteq LiveIn(l)
      /\ \A s \in LiveIn(l) : s \in OnPath(l, leaf) <=> r \in Under(l, s)
      /\ \A s \in OnPath(l, leaf) :
            /\ l.nodes[s].counts[old] > 0 /\ Covers(l.nodes[s].used, charge)
            /\ Minus(l.nodes[s].used, charge) =
                  Plus(Base(s), ChargeOf(CreditsIn(l), Under(l, s) \ {r}))
    BY <1>c DEF CreditFacts, Phase
<1>o. l.records[r].credit.phase = old
    BY DEF Vacates, IsCredit
<1>2. "Vacant" \notin Phase
    BY DEF Phase
<1>3. nodes \in [DomainSlot -> Node] /\ SettleFacts(l, nodes, leaf, charge, old, "Vacant")
    BY <1>0, <1>1, <1>2, SettledIs DEF Vacates
<1>4. l1 \in Ledger /\ VacateStep(l, l1, nodes, r)
    BY <1>0, <1>1, <1>2, <1>3, VacateOfIs DEF Vacates
<1>5. /\ l1.nodes = nodes /\ l1.free_nodes = l.free_nodes /\ l1.next_node = l.next_node
      /\ l1.free_records = Append(l.free_records, r) /\ l1.next_owner = l.next_owner
      /\ l1.poisoned = l.poisoned
      /\ \A q \in RecordSlot : l1.records[q] = IF q = r THEN NoDomainRecord ELSE l.records[q]
    BY <1>4 DEF VacateStep
<1>6. SameTree(l, l1) /\ SameFamily(l, l1) /\ SameHandles(l, l1)
    BY <1>1, <1>3, <1>5, SettledTree
<1>7. Tree(l1) /\ FreeNodes(l1) /\ SamePaths(l, l1)
    BY <1>0, <1>6, SameTreeKept
<1>8. Family(l1) /\ Handles(l1, h)
    BY <1>0, <1>6, SameFamilyKept, SameHandlesKept
<1>9. RecordsIn(l1) = RecordsIn(l) \ {r}
    BY <1>1, <1>5 DEF RecordsIn
<1>10. \A q \in RecordsIn(l) : q \in RecordSlot
    BY DEF RecordsIn
<1>11. LiveIn(l1) = LiveIn(l) /\ \A s \in LiveIn(l) : s \in DomainSlot
    BY <1>7 DEF SamePaths, LiveIn
<1>12. ASSUME NEW s \in LiveIn(l)
       PROVE  Under(l1, s) = Under(l, s) \ {r}
  <2>1. l1.nodes[s].key = l.nodes[s].key
      BY <1>7 DEF SamePaths
  <2>2. \A q \in RecordsIn(l) \ {r} : Path(l1, l1.records[q].leaf) = Path(l, l.records[q].leaf)
      BY <1>0, <1>5, <1>7, <1>10 DEF Owned, SamePaths
  <2> QED BY <1>9, <2>1, <2>2 DEF Under
<1>13. Owned(l1)
    BY <1>0, <1>5, <1>7, <1>9, <1>10 DEF Owned, SamePaths
<1>14. FreeRecords(l1)
  <2>1. PICK f, m, g : f = l.free_records /\ m = 1 /\ g = [i \in 1..m |-> r]
      OBVIOUS
  <2>2. f \in Seq(RecordSlot) /\ IsInjective(f) /\ ToSet(f) = RecordSlot \ RecordsIn(l)
      BY <1>0, <2>1 DEF FreeRecords, Ledger
  <2>3. /\ g \in [1..m -> RecordSlot] /\ \A i \in 1..m : g[i] \notin ToSet(f)
        /\ \A i, j \in 1..m : g[i] = g[j] => i = j
        /\ m \in Nat
      BY <1>1, <2>1, <2>2
  <2>4. IsInjective(f \o g) /\ ToSet(f \o g) = ToSet(f) \cup {g[i] : i \in 1..m}
      BY <2>2, <2>3, FreeListGrows
  <2>5. {g[i] : i \in 1..m} = {r}
      BY <2>1
  <2>6. g = <<r>>
      BY <2>1
  <2>7. Append(f, r) = f \o g
      BY <1>1, <2>2, <2>6, AppendIsConcat
  <2> QED BY <1>1, <1>5, <1>9, <1>10, <2>1, <2>2, <2>4, <2>5, <2>7 DEF FreeRecords
<1>15. ASSUME NEW s \in LiveIn(l)
       PROVE  l1.nodes[s].used = Plus(Base(s), ChargeOf(CreditsIn(l1), Under(l1, s)))
  <2>1. PICK S : S = Under(l, s) \ {r}
      OBVIOUS
  <2>2. \A q \in S \cap RecordSlot : CreditsIn(l1)[q].charge = CreditsIn(l)[q].charge
      BY <1>5, <2>1 DEF CreditsIn
  <2>3. ChargeOf(CreditsIn(l1), S) = ChargeOf(CreditsIn(l), S)
      BY <2>2, ChargeSame
  <2>4. CASE s \in OnPath(l, leaf)
    <3>1. l1.nodes[s].used = Minus(l.nodes[s].used, charge)
        BY <1>3, <1>5, <1>11, <2>4 DEF SettleFacts
    <3> QED BY <1>1, <1>12, <2>1, <2>3, <2>4, <3>1
  <2>5. CASE s \notin OnPath(l, leaf)
    <3>1. l1.nodes[s] = l.nodes[s]
        BY <1>3, <1>5, <1>11, <2>5 DEF SettleFacts
    <3>2. S = Under(l, s)
        BY <1>1, <2>1, <2>5
    <3> QED BY <1>0, <1>12, <2>1, <2>3, <3>1, <3>2 DEF Books
  <2> QED BY <2>4, <2>5
<1>16. ASSUME NEW s \in LiveIn(l), NEW ph \in Phase
       PROVE  l1.nodes[s].counts[ph] = Cardinality(InPhase(l1, s, ph))
  <2>1. /\ l.nodes[s].counts[ph] = Cardinality(InPhase(l, s, ph)) /\ s \in DomainSlot
        /\ l.nodes[s].counts[ph] \in Nat /\ IsFiniteSet(InPhase(l, s, ph))
      BY <1>0, <1>11, FiniteRecords DEF Books
  <2>2. \A q \in Under(l, s) : q \in RecordSlot
      BY DEF Under, RecordsIn
  <2>3. InPhase(l1, s, ph) = InPhase(l, s, ph) \ {r}
      BY <1>5, <1>12, <2>2 DEF InPhase
  <2>4. CASE s \in OnPath(l, leaf) /\ ph = old
    <3>1. l1.nodes[s].counts[ph] = l.nodes[s].counts[ph] - 1
        BY <1>1, <1>2, <1>3, <1>5, <2>1, <2>4 DEF SettleFacts
    <3>2. r \in InPhase(l, s, ph)
        BY <1>o, <1>1, <2>4 DEF InPhase
    <3>3. Cardinality(InPhase(l, s, ph) \ {r}) = Cardinality(InPhase(l, s, ph)) - 1
        BY <2>1, <3>2, FS_RemoveElement
    <3> QED BY <2>1, <2>3, <3>1, <3>3
  <2>5. CASE s \notin OnPath(l, leaf) \/ ph # old
    <3>1. l1.nodes[s].counts[ph] = l.nodes[s].counts[ph]
      <4>1. CASE s \notin OnPath(l, leaf)
          BY <1>3, <1>5, <2>1, <4>1 DEF SettleFacts
      <4>2. CASE s \in OnPath(l, leaf)
        <5>1. l1.nodes[s].counts[ph] = l.nodes[s].counts[ph]
                - (IF ph = old THEN 1 ELSE 0) + (IF ph = "Vacant" THEN 1 ELSE 0)
            BY <1>3, <1>5, <2>1, <4>2 DEF SettleFacts
        <5> QED BY <1>2, <2>1, <2>5, <4>2, <5>1
      <4> QED BY <4>1, <4>2
    <3>2. r \notin InPhase(l, s, ph)
        BY <1>o, <1>1, <2>5 DEF InPhase
    <3>3. InPhase(l, s, ph) \ {r} = InPhase(l, s, ph)
        BY <3>2
    <3> QED BY <2>1, <2>3, <3>1, <3>3
  <2> QED BY <2>4, <2>5
<1>17. Books(l1)
    BY <1>11, <1>15, <1>16 DEF Books
<1>18. ASSUME NEW s \in LiveIn(l)
       PROVE  Occupied(l1.nodes[s]) = Occupied(l.nodes[s]) - (IF s \in OnPath(l, leaf) THEN 1 ELSE 0)
              /\ Occupied(l.nodes[s]) \in Nat
  <2>1. /\ Occupied(l.nodes[s]) = Cardinality(Under(l, s))
        /\ Occupied(l1.nodes[s]) = Cardinality(Under(l1, s))
      BY <1>0, <1>11, <1>13, <1>17, OccupiedIs
  <2>2. IsFiniteSet(Under(l, s)) /\ Cardinality(Under(l, s)) \in Nat
      BY FiniteRecords
  <2>3. CASE s \in OnPath(l, leaf)
    <3>1. Cardinality(Under(l, s) \ {r}) = Cardinality(Under(l, s)) - 1
        BY <1>1, <2>2, <2>3, FS_RemoveElement
    <3> QED BY <1>12, <2>1, <2>2, <2>3, <3>1
  <2>4. CASE s \notin OnPath(l, leaf)
    <3>1. Under(l, s) \ {r} = Under(l, s)
        BY <1>1, <2>4
    <3>2. Occupied(l1.nodes[s]) = Occupied(l.nodes[s])
        BY <1>12, <2>1, <3>1
    <3> QED BY <2>1, <2>2, <2>4, <3>2
  <2> QED BY <2>3, <2>4
<1>19. RecordTotalIsSound(l1)
  <2>1. 0 \in LiveIn(l) /\ 0 \in OnPath(l, leaf)
      BY <1>0, <1>c, RootHasAll DEF CreditFacts
  <2>2. l.free_records \in Seq(RecordSlot)
      BY <1>0 DEF Ledger
  <2>3. Len(l1.free_records) = Len(l.free_records) + 1 /\ Len(l.free_records) \in Nat
      BY <1>1, <1>5, <2>2, AppendProperties
  <2>4. Occupied(l1.nodes[0]) = Occupied(l.nodes[0]) - 1 /\ Occupied(l.nodes[0]) \in Nat
      BY <1>18, <2>1
  <2>5. Occupied(l.nodes[0]) + Len(l.free_records) = MaxRecords
      BY <1>0 DEF RecordTotalIsSound
  <2> QED BY <2>3, <2>4, <2>5 DEF RecordTotalIsSound
<1>20. Limits(l1)
  <2>1. ASSUME NEW s \in LiveIn(l)
        PROVE  /\ \A k \in Kind : l1.nodes[s].used[k] <= l1.nodes[s].capacity[k]
               /\ Occupied(l1.nodes[s]) <= l1.nodes[s].record_limit
    <3>1. /\ l1.nodes[s].capacity = l.nodes[s].capacity
          /\ l1.nodes[s].record_limit = l.nodes[s].record_limit /\ s \in DomainSlot
        BY <1>3, <1>5, <1>11 DEF SettleFacts
    <3>2. /\ l.nodes[s].used \in Vector /\ l.nodes[s].record_limit \in Nat
          /\ l.nodes[s].capacity \in Vector
        BY <1>0, <3>1, NodeTypes
    <3>3. /\ \A k \in Kind : l.nodes[s].used[k] <= l.nodes[s].capacity[k]
          /\ Occupied(l.nodes[s]) <= l.nodes[s].record_limit
        BY <1>0 DEF Limits
    <3>4. Occupied(l1.nodes[s]) <= l1.nodes[s].record_limit
        BY <1>18, <3>1, <3>2, <3>3
    <3>5. CASE s \notin OnPath(l, leaf)
        BY <1>3, <1>5, <3>1, <3>3, <3>4, <3>5 DEF SettleFacts
    <3>6. CASE s \in OnPath(l, leaf)
      <4>1. l1.nodes[s].used = Minus(l.nodes[s].used, charge)
          BY <1>3, <1>5, <3>1, <3>6 DEF SettleFacts
      <4>2. \A k \in Kind : Minus(l.nodes[s].used, charge)[k] <= l.nodes[s].used[k]
          BY <1>1, <3>2 DEF Minus, Vector
      <4>3. \A k \in Kind : Minus(l.nodes[s].used, charge)[k] \in Int
          BY <1>1, <3>2 DEF Minus, Vector
      <4> QED BY <3>1, <3>2, <3>3, <3>4, <4>1, <4>2, <4>3 DEF Vector
    <3> QED BY <3>5, <3>6
  <2>2. 0 \in LiveIn(l) /\ l1.nodes[0].capacity = l.nodes[0].capacity
      BY <1>0, <1>3, <1>5, RootHasAll, Constants DEF SettleFacts
  <2> QED BY <1>0, <1>11, <2>1, <2>2 DEF Limits
<1>21. Tokens(l1, t \ {x})
  <2>r. r = x.slot
      BY DEF Vacates, IsCredit
  <2>1. ASSUME NEW y \in t \ {x}
        PROVE  /\ y \in Token /\ y.slot \in RecordsIn(l1)
               /\ l1.records[y.slot].credit.owner = y.owner
               /\ l1.records[y.slot].credit.phase =
                     IF y.kind = "reservation" THEN "Reserved" ELSE "Retained"
    <3>1. /\ y \in Token /\ y.slot \in RecordsIn(l)
          /\ l.records[y.slot].credit.owner = y.owner
          /\ l.records[y.slot].credit.phase =
                IF y.kind = "reservation" THEN "Reserved" ELSE "Retained"
        BY <1>0 DEF Tokens
    <3>2. y.slot # r
        BY <1>0, <2>r, OneToken
    <3> QED BY <1>5, <1>9, <1>10, <3>1, <3>2
  <2>2. ASSUME NEW q \in RecordsIn(l1), l1.records[q].credit.phase # "Quarantined"
        PROVE  \E y \in t \ {x} : y.slot = q
    <3>1. q \in RecordsIn(l) /\ q # r /\ l1.records[q] = l.records[q]
        BY <1>5, <1>9, <1>10
    <3> QED BY <1>0, <2>r, <2>2, <3>1 DEF Tokens
  <2> QED BY <2>1, <2>2 DEF Tokens
<1>22. ASSUME NEW s \in LiveIn(l1) \ {0}, s \notin OnPath(l, leaf)
       PROVE  Needed(l1, s)
  <2>1. s \in LiveIn(l) \ {0} /\ s \in DomainSlot
      BY <1>11
  <2>2. Under(l1, s) = Under(l, s)
      BY <1>1, <1>12, <1>22, <2>1
  <2> QED BY <1>6, <2>1, <2>2 DEF AllNeeded, Needed, SameFamily, SameHandles
<1>23. Sound(l1, h, t \ {x})
    BY <1>0, <1>4, <1>5, <1>7, <1>8, <1>13, <1>14, <1>17, <1>19, <1>20, <1>21 DEF Sound
<1> QED BY <1>3, <1>4, <1>6, <1>22, <1>23

(* release_after_rejection, release_after_disposal and cancel *)
LEMMA ReleaseKeeps ==
    ASSUME NEW l, NEW h, NEW t, Sound(l, h, t), AllNeeded(l), NEW x \in t, NEW r, NEW leaf,
           NEW charge, NEW old, NEW nodes, NEW l1,
           Vacates(l, x, r, leaf, charge, old, nodes, l1),
           NEW p, p = Path(l, leaf), NEW m, m = plan_reap(l, p, l.nodes[leaf.slot].handles, 1),
           NEW l2, l2 = commit_reap(l1, p, m)
    PROVE  /\ Sound(l2, h, t \ {x}) /\ AllNeeded(l2) /\ SameRoot(l1, l2)
           /\ ReapIsSound(l1, p, m)
           /\ SettleFacts(l, nodes, leaf, charge, old, "Vacant") /\ VacateStep(l, l1, nodes, r)
<1>0. l \in Ledger /\ Tree(l)
    BY DEF Sound
<1>c. CreditFacts(l, x, r, leaf, charge, old)
    BY CreditIs DEF Vacates, IsCredit
<1>1. /\ leaf \in Key /\ Resolves(l, leaf) /\ old \in {"Reserved", "Retained"}
      /\ OnPath(l, leaf) \subseteq LiveIn(l)
    BY <1>c DEF CreditFacts
<1>2. /\ Sound(l1, h, t \ {x})
      /\ \A s \in LiveIn(l1) \ {0} : s \notin OnPath(l, leaf) => Needed(l1, s)
      /\ SettleFacts(l, nodes, leaf, charge, old, "Vacant") /\ VacateStep(l, l1, nodes, r)
      /\ SameTree(l, l1)
    BY VacateKeeps
<1>3. l1 \in Ledger /\ Tree(l1) /\ Family(l1) /\ l1.nodes = nodes
    BY <1>2 DEF Sound, VacateStep
<1>4. p = Path(l1, leaf) /\ Resolves(l1, leaf) /\ LiveIn(l1) = LiveIn(l)
    BY <1>0, <1>1, <1>2, SameTreeKept DEF SamePaths
<1>5. Chain(l1, leaf, p)
    BY <1>3, <1>4, PathOfKey
<1>6. /\ p \in Seq(Key) /\ Len(p) \in Nat \ {0} /\ p[1] = leaf
      /\ \A i \in 1..Len(p) : p[i].slot \in DomainSlot /\ l1.nodes[p[i].slot].key = p[i]
      /\ \A i \in 1..(Len(p) - 1) : l1.nodes[p[i].slot].parent = p[i + 1]
    BY <1>5, Constants DEF Chain, Resolves
<1>7. OnPath(l, leaf) = {p[i].slot : i \in 1..Len(p)}
    BY <1>6 DEF OnPath, ToSet
<1>8. ASSUME NEW i \in 1..Len(p)
      PROVE  Retires(l, p, i, l.nodes[leaf.slot].handles, 1) <=> Gone(l1, p, i)
  <2>1. p[i].slot \in DomainSlot /\ p[i].slot \in OnPath(l, leaf)
      BY <1>6, <1>7
  <2>2. /\ l1.nodes[p[i].slot].children = l.nodes[p[i].slot].children
        /\ l1.nodes[p[i].slot].handles = l.nodes[p[i].slot].handles
        /\ \A ph \in Phase : l1.nodes[p[i].slot].counts[ph] = l.nodes[p[i].slot].counts[ph]
                     - (IF ph = old THEN 1 ELSE 0) + (IF ph = "Vacant" THEN 1 ELSE 0)
      BY <1>2, <1>3, <2>1 DEF SettleFacts
  <2>3. l.nodes[p[i].slot].counts \in [Phase -> Nat]
      BY <1>0, <2>1, NodeTypes
  <2>a. PICK c, d : c = l.nodes[p[i].slot].counts /\ d = l1.nodes[p[i].slot].counts
      OBVIOUS
  <2>b. c["Reserved"] \in Nat /\ c["Retained"] \in Nat /\ c["Quarantined"] \in Nat
      BY <2>3, <2>a DEF Phase
  <2>d. /\ d["Reserved"] = c["Reserved"] - (IF "Reserved" = old THEN 1 ELSE 0)
        /\ d["Retained"] = c["Retained"] - (IF "Retained" = old THEN 1 ELSE 0)
        /\ d["Quarantined"] = c["Quarantined"]
    <3>1. \A ph \in Phase : d[ph] = c[ph] - (IF ph = old THEN 1 ELSE 0)
                                         + (IF ph = "Vacant" THEN 1 ELSE 0)
        BY <2>2, <2>a
    <3>2. /\ "Reserved" \in Phase /\ "Retained" \in Phase /\ "Quarantined" \in Phase
          /\ "Quarantined" # old
        BY <1>1 DEF Phase
    <3>3. d["Reserved"] = c["Reserved"] - (IF "Reserved" = old THEN 1 ELSE 0)
        BY <2>b, <3>1, <3>2
    <3>4. d["Retained"] = c["Retained"] - (IF "Retained" = old THEN 1 ELSE 0)
        BY <2>b, <3>1, <3>2
    <3>5. d["Quarantined"] = c["Quarantined"]
        BY <2>b, <3>1, <3>2
    <3> QED BY <3>3, <3>4, <3>5
  <2>4. Occupied(l1.nodes[p[i].slot]) = Occupied(l.nodes[p[i].slot]) - 1
        /\ Occupied(l.nodes[p[i].slot]) \in Nat
    <3>1. /\ Occupied(l.nodes[p[i].slot]) = c["Reserved"] + c["Retained"] + c["Quarantined"]
          /\ Occupied(l1.nodes[p[i].slot]) = d["Reserved"] + d["Retained"] + d["Quarantined"]
        BY <2>a DEF Occupied
    <3>2. CASE old = "Reserved"
        BY <2>b, <2>d, <3>1, <3>2
    <3>3. CASE old = "Retained"
      <4>1. PICK u, v, w : u = c["Reserved"] /\ v = c["Retained"] /\ w = c["Quarantined"]
          OBVIOUS
      <4>2. d["Reserved"] = u /\ d["Retained"] = v - 1 /\ d["Quarantined"] = w
          BY <2>b, <2>d, <3>3, <4>1
      <4>3. u \in Nat /\ v \in Nat /\ w \in Nat
          BY <2>b, <4>1
      <4>4. u + (v - 1) + w = (u + v + w) - 1 /\ u + v + w \in Nat
          BY <4>3
      <4> QED BY <3>1, <4>1, <4>2, <4>4
    <3> QED BY <1>1, <3>2, <3>3
  <2>5. Occupied(l.nodes[p[i].slot]) = 1 <=> Occupied(l1.nodes[p[i].slot]) = 0
      BY <2>4
  <2>6. (IF i = 1 THEN l.nodes[leaf.slot].handles ELSE l.nodes[p[i].slot].handles)
            = l1.nodes[p[i].slot].handles
      BY <1>6, <2>2
  <2> QED BY <2>2, <2>5, <2>6 DEF Retires, Gone
<1>9. /\ m \in 0..(Len(p) - 1)
      /\ \A i \in 1..m : Retires(l, p, i, l.nodes[leaf.slot].handles, 1)
      /\ m = Len(p) - 1 \/ ~ Retires(l, p, m + 1, l.nodes[leaf.slot].handles, 1)
    BY <1>6, PlanIs
<1>10. Stops(l1, leaf, p, m)
  <2>1. \A i \in 1..m : i \in 1..Len(p)
      BY <1>6, <1>9
  <2>2. m = Len(p) - 1 \/ m + 1 \in 1..Len(p)
      BY <1>6, <1>9
  <2>3. \A i \in 1..m : Gone(l1, p, i)
      BY <1>8, <1>9, <2>1
  <2>4. m = Len(p) - 1 \/ ~ Gone(l1, p, m + 1)
      BY <1>8, <1>9, <2>2
  <2> QED BY <1>1, <1>4, <1>9, <2>3, <2>4 DEF Stops
<1>11. ASSUME NEW s \in LiveIn(l1) \ {0}
       PROVE  s = leaf.slot \/ Needed(l1, s)
  <2>1. CASE s \notin OnPath(l, leaf)
      BY <1>2, <2>1
  <2>2. CASE s \in OnPath(l, leaf) /\ s # leaf.slot
    <3>1. PICK i \in 1..Len(p) : s = p[i].slot
        BY <1>7, <2>2
    <3>2. i # 1
        BY <1>6, <2>2, <3>1
    <3>3. PICK j : j = i - 1
        OBVIOUS
    <3>4. j \in 1..(Len(p) - 1) /\ j \in 1..Len(p) /\ j + 1 = i
        BY <1>6, <3>2, <3>3
    <3>5. l1.nodes[p[j].slot].parent = l1.nodes[s].key
        BY <1>6, <3>1, <3>4
    <3>6. p[j].slot \in LiveIn(l1)
        BY <1>1, <1>4, <1>7, <3>4
    <3>7. p[j].slot \in ChildrenIn(l1, s)
        BY <3>5, <3>6 DEF ChildrenIn
    <3>8. Cardinality(ChildrenIn(l1, s)) # 0 /\ Cardinality(ChildrenIn(l1, s)) \in Nat
        BY <3>7, FiniteChildren, FS_EmptySet
    <3>9. l1.nodes[s].children = Cardinality(ChildrenIn(l1, s))
        BY <1>3 DEF Family
    <3> QED BY <3>8, <3>9 DEF Needed
  <2> QED BY <2>1, <2>2
<1>12. Sound(l2, h, t \ {x}) /\ AllNeeded(l2) /\ SameRoot(l1, l2) /\ ReapIsSound(l1, p, m)
    BY <1>2, <1>10, <1>11, RetirementKeeps
<1> QED BY <1>2, <1>12

(* What Root::transition computes when it finds nothing wrong. *)
LEMMA TransitionToPhase ==
    ASSUME NEW l, NEW x, NEW action, NEW r, NEW leaf, NEW charge, NEW old, NEW next, NEW nodes,
           IsCredit(l, x, r, leaf, charge, old), ~ l.poisoned,
           CreditTransition(l.records[r].credit.owner, x.owner, old, action) = next,
           next # "Vacant", next # "None", RecordTotalIsSound(l), PathIsSound(l, leaf),
           \A s \in OnPath(l, leaf) : l.nodes[s].counts[old] > 0,
           nodes = SettledNodes(l, leaf, charge, old, next)
    PROVE  transition(l, x, action) = PhaseOf(l, nodes, r, next)
BY DEF transition, SettledNodes, PhaseOf, IsCredit

LEMMA TransitionToVacant ==
    ASSUME NEW l, NEW x, NEW action, NEW r, NEW leaf, NEW charge, NEW old, NEW nodes,
           NEW p, NEW m, NEW l1,
           IsCredit(l, x, r, leaf, charge, old), ~ l.poisoned,
           CreditTransition(l.records[r].credit.owner, x.owner, old, action) = "Vacant",
           RecordTotalIsSound(l), PathIsSound(l, leaf),
           \A s \in OnPath(l, leaf) : l.nodes[s].counts[old] > 0 /\ Covers(l.nodes[s].used, charge),
           Len(l.free_records) < MaxRecords,
           nodes = SettledNodes(l, leaf, charge, old, "Vacant"), l1 = VacateOf(l, nodes, r),
           p = Path(l, leaf), m = plan_reap(l, p, l.nodes[leaf.slot].handles, 1),
           l \in Ledger, l1.nodes = nodes, ReapIsSound(l1, p, m)
    PROVE  transition(l, x, action) = commit_reap(l1, p, m)
<1>1. ReapIsSound([l EXCEPT !.nodes = nodes], p, m)
    BY DEF ReapIsSound, Ledger
<1> DEFINE lf == l.records[x.slot].leaf
           cr == l.records[x.slot].credit
           nx == CreditTransition(cr.owner, x.owner, cr.phase, action)
           set == [l EXCEPT !.nodes = SettledNodes(l, lf, cr.charge, cr.phase, nx)]
           pl == plan_reap(l, Path(l, lf), l.nodes[lf.slot].handles, 1)
<1>2. transition(l, x, action) =
        IF l.poisoned THEN l
        ELSE IF ~ (/\ RecordTotalIsSound(l) /\ nx # "None" /\ PathIsSound(l, lf)
                   /\ \A s \in OnPath(l, lf) : l.nodes[s].counts[cr.phase] > 0
                   /\ nx = "Vacant" =>
                        /\ \A s \in OnPath(l, lf) : Covers(l.nodes[s].used, cr.charge)
                        /\ Len(l.free_records) < MaxRecords
                        /\ ReapIsSound(set, Path(l, lf), pl))
        THEN Poison(l)
        ELSE IF nx = "Vacant"
        THEN commit_reap([set EXCEPT !.records[x.slot] = NoDomainRecord,
                                     !.free_records = Append(@, x.slot)], Path(l, lf), pl)
        ELSE [set EXCEPT !.records[x.slot].credit.phase = nx,
                         !.anchored = @ \/ nx = "Quarantined"]
    BY Zenon DEF transition, SettledNodes
<1>3. /\ x.slot = r /\ lf = leaf /\ cr.charge = charge /\ cr.phase = old /\ nx = "Vacant"
      /\ Path(l, lf) = p /\ pl = m
    BY Zenon DEF IsCredit
<1>4. set = [l EXCEPT !.nodes = nodes]
    BY <1>3, Zenon
<1>5. l1 = [set EXCEPT !.records[r] = NoDomainRecord, !.free_records = Append(@, r)]
    BY <1>4, Zenon DEF VacateOf
<1> HIDE DEF lf, cr, nx, set, pl
<1>6. transition(l, x, action) =
        commit_reap([set EXCEPT !.records[r] = NoDomainRecord,
                                !.free_records = Append(@, r)], p, m)
    BY <1>1, <1>2, <1>3, <1>4
<1> QED BY <1>5, <1>6, Zenon

(***************************************************************************)
(* Reservations.                                                           *)
(***************************************************************************)
Top(l, i) == l.free_records[Len(l.free_records) + 1 - i]
Taken(l, n) == {Top(l, i) : i \in 1..n}
Rest(l, n) == SubSeq(l.free_records, 1, Len(l.free_records) - n)

(* The records that a batch takes are vacant and distinct. *)
TopFacts(l, n) ==
    /\ ToSet(TopRecords(l, n)) = Taken(l, n) /\ IsInjective(TopRecords(l, n))
    /\ \A i \in 1..n : Top(l, i) \in RecordSlot /\ Top(l, i) \notin RecordsIn(l)
    /\ \A i, j \in 1..n : Top(l, i) = Top(l, j) => i = j

RestFacts(l, n) ==
    /\ Rest(l, n) \in Seq(RecordSlot) /\ Len(Rest(l, n)) = Len(l.free_records) - n
    /\ IsInjective(Rest(l, n))
    /\ ToSet(Rest(l, n)) = (RecordSlot \ RecordsIn(l)) \ Taken(l, n)

LEMMA TopIs ==
    ASSUME NEW l \in Ledger, FreeRecords(l), NEW n \in 0..Len(l.free_records)
    PROVE  TopFacts(l, n) /\ RestFacts(l, n)
<1>1. PICK f, c : f = l.free_records /\ c = Len(l.free_records)
    OBVIOUS
<1>2. /\ f \in Seq(RecordSlot) /\ c \in Nat /\ c = Len(f) /\ n \in Nat /\ n <= c
      /\ IsInjective(f) /\ ToSet(f) = RecordSlot \ RecordsIn(l)
    BY <1>1 DEF Ledger, FreeRecords
<1>3. /\ \A i, j \in 1..c : f[i] = f[j] => i = j
      /\ ToSet(f) = {f[i] : i \in 1..c}
      /\ \A i \in 1..c : f[i] \in RecordSlot /\ f[i] \notin RecordsIn(l)
  <2>1. DOMAIN f = 1..c
      BY <1>2
  <2>2. ToSet(f) = {f[i] : i \in 1..c}
      BY <2>1 DEF ToSet
  <2>3. \A i \in 1..c : f[i] \in ToSet(f)
      BY <2>2
  <2> QED BY <1>2, <2>1, <2>2, <2>3 DEF IsInjective
<1>4. \A i \in 1..n : Top(l, i) = f[c + 1 - i] /\ c + 1 - i \in 1..c
    BY <1>1, <1>2 DEF Top
<1>5. \A i \in 1..n : Top(l, i) \in RecordSlot /\ Top(l, i) \notin RecordsIn(l)
    BY <1>3, <1>4
<1>6. ASSUME NEW i \in 1..n, NEW j \in 1..n, Top(l, i) = Top(l, j)
      PROVE  i = j
  <2>1. c + 1 - i = c + 1 - j
      BY <1>3, <1>4, <1>6
  <2> QED BY <1>2, <2>1
<1>7. PICK top : top = TopRecords(l, n)
    OBVIOUS
<1>8. /\ DOMAIN top = 1..n
      /\ \A i \in 1..n : top[i] = f[c - n + i] /\ c - n + i \in 1..c
  <2>1. top = SubSeq(f, c - n + 1, c)
      BY <1>1, <1>7 DEF TopRecords
  <2>2. PICK a : a = c - n + 1
      OBVIOUS
  <2>3. a \in Nat /\ a >= 1 /\ a <= c + 1 /\ (c - a) + 1 = n
      BY <1>2, <2>2
  <2>4. Len(top) = n /\ \A i \in 1..n : top[i] = f[a + i - 1]
      BY <1>2, <2>1, <2>2, <2>3
  <2>5. top \in Seq(RecordSlot)
      BY <1>2, <2>1, <2>2, <2>3
  <2>6. DOMAIN top = 1..n
      BY <2>4, <2>5
  <2>7. \A i \in 1..n : a + i - 1 = c - n + i /\ c - n + i \in 1..c
      BY <1>2, <2>2
  <2> QED BY <2>4, <2>6, <2>7
<1>9. IsInjective(top)
  <2> SUFFICES ASSUME NEW i \in 1..n, NEW j \in 1..n, top[i] = top[j]
               PROVE  i = j
      BY <1>8 DEF IsInjective
  <2>1. c - n + i = c - n + j
      BY <1>3, <1>8
  <2> QED BY <1>2, <2>1
<1>10. ToSet(top) = Taken(l, n)
  <2>1. ToSet(top) = {top[i] : i \in 1..n}
      BY <1>8 DEF ToSet
  <2>2. ASSUME NEW i \in 1..n
        PROVE  \E j \in 1..n : Top(l, j) = top[i]
    <3>1. PICK j : j = n + 1 - i
        OBVIOUS
    <3>2. j \in 1..n /\ c + 1 - j = c - n + i
        BY <1>2, <3>1
    <3> QED BY <1>4, <1>8, <3>2
  <2>3. ASSUME NEW j \in 1..n
        PROVE  \E i \in 1..n : Top(l, j) = top[i]
    <3>1. PICK i : i = n + 1 - j
        OBVIOUS
    <3>2. i \in 1..n /\ c + 1 - j = c - n + i
        BY <1>2, <3>1
    <3> QED BY <1>4, <1>8, <3>2
  <2> QED BY <2>1, <2>2, <2>3 DEF Taken
<1>11. PICK rest, b : rest = Rest(l, n) /\ b = c - n
    OBVIOUS
<1>12. b \in Nat /\ b <= c
    BY <1>2, <1>11
<1>13. /\ rest \in Seq(RecordSlot) /\ Len(rest) = b /\ DOMAIN rest = 1..b
       /\ \A i \in 1..b : rest[i] = f[i]
  <2>1. rest = SubSeq(f, 1, b)
      BY <1>1, <1>11 DEF Rest
  <2> QED BY <1>2, <1>12, <2>1
<1>14. IsInjective(rest)
  <2>1. \A i \in 1..b : i \in 1..c
      BY <1>2, <1>12
  <2> QED BY <1>3, <1>13, <2>1 DEF IsInjective
<1>15. ToSet(rest) = ToSet(f) \ Taken(l, n)
  <2>1. ToSet(rest) = {f[i] : i \in 1..b}
      BY <1>13 DEF ToSet
  <2>2. ASSUME NEW i \in 1..b, NEW j \in 1..n, f[i] = Top(l, j)
        PROVE  FALSE
    <3>a. i \in 1..c
        BY <1>2, <1>12
    <3>1. i = c + 1 - j
        BY <1>3, <1>4, <2>2, <3>a
    <3> QED BY <1>2, <1>11, <3>1
  <2>3. ASSUME NEW i \in 1..c, i \notin 1..b
        PROVE  \E j \in 1..n : f[i] = Top(l, j)
    <3>1. PICK j : j = c + 1 - i
        OBVIOUS
    <3>2. j \in 1..n /\ c + 1 - j = i
        BY <1>2, <1>11, <1>12, <2>3, <3>1
    <3> QED BY <1>4, <3>2
  <2>4. \A i \in 1..b : i \in 1..c
      BY <1>2, <1>12
  <2> QED BY <1>3, <2>1, <2>2, <2>3, <2>4 DEF Taken
<1>16. TopFacts(l, n)
    BY <1>5, <1>6, <1>7, <1>9, <1>10 DEF TopFacts
<1>17. RestFacts(l, n)
    BY <1>1, <1>2, <1>11, <1>13, <1>14, <1>15 DEF RestFacts
<1> QED BY <1>16, <1>17

(* As many records as charges. *)
LEMMA TakenCount ==
    ASSUME NEW l, NEW n \in Nat, \A i, j \in 1..n : Top(l, i) = Top(l, j) => i = j
    PROVE  IsFiniteSet(Taken(l, n)) /\ Cardinality(Taken(l, n)) = n
<1> DEFINE P == {j \in Nat : j <= n => IsFiniteSet(Taken(l, j)) /\ Cardinality(Taken(l, j)) = j}
<1>1. 0 \in P
  <2>1. Taken(l, 0) = {}
      BY DEF Taken
  <2> QED BY <2>1, FS_EmptySet
<1>2. ASSUME NEW j \in Nat, j \in P
      PROVE  j + 1 \in P
  <2> SUFFICES ASSUME j + 1 <= n
               PROVE  IsFiniteSet(Taken(l, j + 1)) /\ Cardinality(Taken(l, j + 1)) = j + 1
      OBVIOUS
  <2>1. IsFiniteSet(Taken(l, j)) /\ Cardinality(Taken(l, j)) = j
      BY <1>2
  <2>2. Taken(l, j + 1) = Taken(l, j) \cup {Top(l, j + 1)}
    <3>1. \A i \in 1..(j + 1) : i \in 1..j \/ i = j + 1
        OBVIOUS
    <3>2. \A i \in 1..j : i \in 1..(j + 1)
        OBVIOUS
    <3>3. j + 1 \in 1..(j + 1)
        OBVIOUS
    <3> QED BY <3>1, <3>2, <3>3 DEF Taken
  <2>3. Top(l, j + 1) \notin Taken(l, j)
    <3>1. \A i \in 1..j : i \in 1..n /\ j + 1 \in 1..n /\ i # j + 1
        OBVIOUS
    <3> QED BY <3>1 DEF Taken
  <2> QED BY <2>1, <2>2, <2>3, FS_AddElement
<1>3. n \in P
    BY <1>1, <1>2, NatInductionSet
<1> QED BY <1>3

Fresh(leaf, owner, charge) ==
    [leaf |-> leaf, credit |-> [owner |-> owner, charge |-> charge, phase |-> "Reserved"]]

Member(l, n, s) == CHOOSE i \in 1..n : Top(l, i) = s

(* What reserve_into does, domain by domain and record by record. *)
AdmitNodes(l, nodes, leaf, charges) ==
    \A s \in DomainSlot :
        /\ nodes[s].key = l.nodes[s].key /\ nodes[s].parent = l.nodes[s].parent
        /\ nodes[s].capacity = l.nodes[s].capacity
        /\ nodes[s].record_limit = l.nodes[s].record_limit
        /\ nodes[s].handles = l.nodes[s].handles /\ nodes[s].children = l.nodes[s].children
        /\ s \notin OnPath(l, leaf) => nodes[s] = l.nodes[s]
        /\ s \in OnPath(l, leaf) =>
              /\ nodes[s].used = Plus(l.nodes[s].used, Total(charges))
              /\ \A p \in Phase : nodes[s].counts[p] =
                    l.nodes[s].counts[p] + (IF p = "Reserved" THEN Len(charges) ELSE 0)

AdmitRecords(l, records, leaf, charges) ==
    /\ \A i \in 1..Len(charges) :
          records[Top(l, i)] = Fresh(leaf, l.next_owner + i - 1, charges[i])
    /\ \A q \in RecordSlot \ Taken(l, Len(charges)) : records[q] = l.records[q]

AdmitStep(l, l2, leaf, charges) ==
    /\ l2.free_nodes = l.free_nodes /\ l2.next_node = l.next_node
    /\ l2.free_records = Rest(l, Len(charges)) /\ l2.next_owner = l.next_owner + Len(charges)
    /\ l2.poisoned = l.poisoned /\ l2.anchored = l.anchored
    /\ AdmitNodes(l, l2.nodes, leaf, charges) /\ AdmitRecords(l, l2.records, leaf, charges)

AdmittedNodes(l, leaf, charges) ==
    [s \in DomainSlot |->
        IF s \in OnPath(l, leaf)
        THEN [l.nodes[s] EXCEPT !.used = Plus(@, Total(charges)),
                                !.counts["Reserved"] = @ + Len(charges)]
        ELSE l.nodes[s]]

LEMMA AdmitNodesIs ==
    ASSUME NEW l \in Ledger, NEW leaf, NEW charges \in Seq(Vector),
           NEW nodes, nodes = AdmittedNodes(l, leaf, charges)
    PROVE  nodes \in [DomainSlot -> Node] /\ AdmitNodes(l, nodes, leaf, charges)
<1>0. Total(charges) \in Vector /\ Len(charges) \in Nat
    BY TotalType
<1>1. ASSUME NEW s \in DomainSlot
      PROVE  /\ nodes[s] \in Node
             /\ nodes[s].key = l.nodes[s].key /\ nodes[s].parent = l.nodes[s].parent
             /\ nodes[s].capacity = l.nodes[s].capacity
             /\ nodes[s].record_limit = l.nodes[s].record_limit
             /\ nodes[s].handles = l.nodes[s].handles /\ nodes[s].children = l.nodes[s].children
             /\ s \notin OnPath(l, leaf) => nodes[s] = l.nodes[s]
             /\ s \in OnPath(l, leaf) =>
                   /\ nodes[s].used = Plus(l.nodes[s].used, Total(charges))
                   /\ \A p \in Phase : nodes[s].counts[p] =
                         l.nodes[s].counts[p] + (IF p = "Reserved" THEN Len(charges) ELSE 0)
  <2>0. /\ l.nodes[s] \in Node /\ l.nodes[s].used \in Vector
        /\ l.nodes[s].counts \in [Phase -> Nat]
      BY NodeTypes
  <2>1. CASE s \notin OnPath(l, leaf)
    <3>1. nodes[s] = l.nodes[s]
        BY <2>1 DEF AdmittedNodes
    <3> QED BY <2>0, <2>1, <3>1
  <2>2. CASE s \in OnPath(l, leaf)
    <3>1. PICK u, k, c : /\ u = Plus(l.nodes[s].used, Total(charges))
                         /\ k = l.nodes[s].counts["Reserved"] + Len(charges)
                         /\ c = [l.nodes[s].counts EXCEPT !["Reserved"] = k]
        OBVIOUS
    <3>2. u \in Vector
        BY <1>0, <2>0, <3>1, VectorArithmetic
    <3>3. k \in Nat
        BY <1>0, <2>0, <3>1 DEF Phase
    <3>4. c \in [Phase -> Nat]
        BY <2>0, <3>1, <3>3
    <3>5. nodes[s] = [l.nodes[s] EXCEPT !.used = u, !.counts = c]
      <4>1. nodes[s] = [l.nodes[s] EXCEPT !.used = Plus(@, Total(charges)),
                                          !.counts["Reserved"] = @ + Len(charges)]
          BY <2>2 DEF AdmittedNodes
      <4> QED BY <2>0, <3>1, <4>1 DEF Node
    <3>6. /\ nodes[s] \in Node /\ nodes[s].used = u /\ nodes[s].counts = c
          /\ nodes[s].key = l.nodes[s].key /\ nodes[s].parent = l.nodes[s].parent
          /\ nodes[s].capacity = l.nodes[s].capacity
          /\ nodes[s].record_limit = l.nodes[s].record_limit
          /\ nodes[s].handles = l.nodes[s].handles /\ nodes[s].children = l.nodes[s].children
        BY <2>0, <3>2, <3>4, <3>5 DEF Node
    <3>7. ASSUME NEW p \in Phase
          PROVE  c[p] = l.nodes[s].counts[p] + (IF p = "Reserved" THEN Len(charges) ELSE 0)
      <4>1. l.nodes[s].counts[p] \in Nat
          BY <2>0
      <4> QED BY <2>0, <3>1, <4>1
    <3> QED BY <2>2, <3>1, <3>6, <3>7
  <2> QED BY <2>1, <2>2
<1>2. nodes \in [DomainSlot -> Node]
    BY <1>1 DEF AdmittedNodes
<1> QED BY <1>1, <1>2 DEF AdmitNodes

LEMMA AdmitRecordsIs ==
    ASSUME NEW l \in Ledger, NEW leaf \in Key, NEW charges \in Seq(Vector),
           TopFacts(l, Len(charges)), NEW records,
           records = [s \in RecordSlot |->
                IF s \in ToSet(TopRecords(l, Len(charges)))
                THEN [leaf |-> leaf,
                      credit |-> [owner |-> l.next_owner + Member(l, Len(charges), s) - 1,
                                  charge |-> charges[Member(l, Len(charges), s)],
                                  phase |-> "Reserved"]]
                ELSE l.records[s]]
    PROVE  records \in [RecordSlot -> DomainRecord] /\ AdmitRecords(l, records, leaf, charges)
<1>1. PICK n : n = Len(charges)
    OBVIOUS
<1>2. /\ n \in Nat /\ ToSet(TopRecords(l, n)) = Taken(l, n)
      /\ \A i \in 1..n : Top(l, i) \in RecordSlot
      /\ \A i, j \in 1..n : Top(l, i) = Top(l, j) => i = j
    BY <1>1 DEF TopFacts
<1>3. ASSUME NEW i \in 1..n
      PROVE  Member(l, n, Top(l, i)) = i
    BY <1>2 DEF Member
<1>4. ASSUME NEW i \in 1..n
      PROVE  /\ records[Top(l, i)] = Fresh(leaf, l.next_owner + i - 1, charges[i])
             /\ Fresh(leaf, l.next_owner + i - 1, charges[i]) \in DomainRecord
  <2>1. Top(l, i) \in Taken(l, n) /\ Top(l, i) \in RecordSlot
      BY <1>2 DEF Taken
  <2>2. PICK q, k : q = Top(l, i) /\ k = Member(l, n, q)
      OBVIOUS
  <2>3. k = i /\ q \in RecordSlot /\ q \in ToSet(TopRecords(l, n))
      BY <1>2, <1>3, <2>1, <2>2
  <2>4. records[q] = [leaf |-> leaf, credit |-> [owner |-> l.next_owner + k - 1,
                                      charge |-> charges[k], phase |-> "Reserved"]]
      BY <1>1, <2>2, <2>3
  <2>5. charges[i] \in Vector /\ l.next_owner + i - 1 \in Nat
      BY <1>1 DEF Ledger
  <2>6. PICK o, c : o = l.next_owner + i - 1 /\ c = charges[i]
      OBVIOUS
  <2>7. Fresh(leaf, o, c) \in DomainRecord
      BY <2>5, <2>6 DEF Fresh, DomainRecord, Credit, Phase
  <2> QED BY <2>2, <2>3, <2>4, <2>6, <2>7 DEF Fresh
<1>5. ASSUME NEW q \in RecordSlot \ Taken(l, n)
      PROVE  records[q] = l.records[q]
    BY <1>1, <1>2
<1>6. ASSUME NEW q \in RecordSlot
      PROVE  records[q] \in DomainRecord
  <2>1. CASE q \in Taken(l, n)
      BY <1>4, <2>1 DEF Taken
  <2>2. CASE q \notin Taken(l, n)
      BY <1>5, <2>2 DEF Ledger
  <2> QED BY <2>1, <2>2
<1>7. records \in [RecordSlot -> DomainRecord]
    BY <1>6
<1> QED BY <1>1, <1>4, <1>5, <1>7 DEF AdmitRecords

LEMMA AdmitIs ==
    ASSUME NEW l \in Ledger, NEW leaf \in Key, NEW charges \in Seq(Vector),
           TopFacts(l, Len(charges)), RestFacts(l, Len(charges)),
           NEW l2, l2 = Admit(l, leaf, charges)
    PROVE  l2 \in Ledger /\ AdmitStep(l, l2, leaf, charges)
<1>1. PICK nodes : nodes = AdmittedNodes(l, leaf, charges)
    OBVIOUS
<1>2. nodes \in [DomainSlot -> Node] /\ AdmitNodes(l, nodes, leaf, charges)
    BY <1>1, AdmitNodesIs
<1>3. PICK records : records = [s \in RecordSlot |->
                IF s \in ToSet(TopRecords(l, Len(charges)))
                THEN [leaf |-> leaf,
                      credit |-> [owner |-> l.next_owner + Member(l, Len(charges), s) - 1,
                                  charge |-> charges[Member(l, Len(charges), s)],
                                  phase |-> "Reserved"]]
                ELSE l.records[s]]
    OBVIOUS
<1>4. records \in [RecordSlot -> DomainRecord] /\ AdmitRecords(l, records, leaf, charges)
    BY <1>3, AdmitRecordsIs
<1>5. PICK free, o : free = Rest(l, Len(charges)) /\ o = l.next_owner + Len(charges)
    OBVIOUS
<1>6. free \in Seq(RecordSlot) /\ o \in Nat
    BY <1>5 DEF RestFacts, Ledger
<1>7. l2 = [l EXCEPT !.nodes = nodes, !.records = records, !.free_records = free,
                     !.next_owner = o]
  <2>1. l2 = [l EXCEPT
                !.nodes = [s \in DomainSlot |->
                    IF s \in OnPath(l, leaf)
                    THEN [l.nodes[s] EXCEPT !.used = Plus(@, Total(charges)),
                                            !.counts["Reserved"] = @ + Len(charges)]
                    ELSE l.nodes[s]],
                !.records = [s \in RecordSlot |->
                    IF s \in ToSet(TopRecords(l, Len(charges)))
                    THEN [leaf |-> leaf,
                          credit |-> [owner |-> l.next_owner + Member(l, Len(charges), s) - 1,
                                      charge |-> charges[Member(l, Len(charges), s)],
                                      phase |-> "Reserved"]]
                    ELSE l.records[s]],
                !.free_records = SubSeq(@, 1, Len(@) - Len(charges)),
                !.next_owner = @ + Len(charges)]
      BY Zenon DEF Admit, Member, Top
  <2>2. l2 = [l EXCEPT !.nodes = nodes, !.records = records,
                       !.free_records = SubSeq(@, 1, Len(@) - Len(charges)),
                       !.next_owner = @ + Len(charges)]
      BY <1>1, <1>3, <2>1, Zenon DEF AdmittedNodes
  <2> QED BY <1>5, <2>2 DEF Rest, Ledger
<1>8. /\ l2 \in Ledger /\ l2.nodes = nodes /\ l2.records = records /\ l2.free_records = free
      /\ l2.next_owner = o /\ l2.free_nodes = l.free_nodes /\ l2.next_node = l.next_node
      /\ l2.poisoned = l.poisoned /\ l2.anchored = l.anchored
    BY <1>2, <1>4, <1>6, <1>7 DEF Ledger
<1> QED BY <1>2, <1>4, <1>5, <1>8 DEF AdmitStep

(* The tokens of a batch. *)
LEMMA AdmitTokens ==
    ASSUME NEW l \in Ledger, Owned(l), NEW t, Tokens(l, t), NEW leaf, NEW charges \in Seq(Vector),
           NEW l2 \in Ledger, NEW n, n = Len(charges), TopFacts(l, n),
           AdmitRecords(l, l2.records, leaf, charges), RecordsIn(l2) = RecordsIn(l) \cup Taken(l, n),
           NEW t2, t2 = t \cup NewTokens(l2, l.next_owner)
    PROVE  Tokens(l2, t2)
<1>1. /\ n \in Nat /\ l.next_owner \in Nat /\ l.next_owner >= 1
      /\ \A i \in 1..n : Top(l, i) \in RecordSlot /\ Top(l, i) \notin RecordsIn(l)
    BY DEF TopFacts, Ledger, Owned
<1>2. ASSUME NEW i \in 1..n
      PROVE  /\ l2.records[Top(l, i)].credit.owner = l.next_owner + i - 1
             /\ l2.records[Top(l, i)].credit.owner >= l.next_owner
             /\ l2.records[Top(l, i)].credit.phase = "Reserved"
  <2>1. l2.records[Top(l, i)] = Fresh(leaf, l.next_owner + i - 1, charges[i])
      BY DEF AdmitRecords
  <2>2. /\ l2.records[Top(l, i)].credit.owner = l.next_owner + i - 1
        /\ l2.records[Top(l, i)].credit.phase = "Reserved"
      BY <2>1 DEF Fresh
  <2> QED BY <1>1, <2>2
<1>3. \A q \in RecordSlot \ Taken(l, n) : l2.records[q] = l.records[q]
    BY DEF AdmitRecords
<1>4. ASSUME NEW q \in RecordSlot \ Taken(l, n)
      PROVE  ~ (l2.records[q].credit.owner >= l.next_owner)
  <2>1. l2.records[q].credit.owner = l.records[q].credit.owner
      BY <1>3
  <2>2. CASE q \in RecordsIn(l)
      BY <1>1, <2>1, <2>2 DEF Owned
  <2>3. CASE q \notin RecordsIn(l)
    <3>1. l.records[q].credit.owner = 0
        BY <2>3, NoRecordIs DEF RecordsIn
    <3> QED BY <1>1, <2>1, <3>1
  <2> QED BY <2>2, <2>3
<1>5. NewTokens(l2, l.next_owner) =
        {[slot |-> s, owner |-> l2.records[s].credit.owner, kind |-> "reservation"] :
            s \in Taken(l, n)}
  <2>1. {q \in RecordSlot : l2.records[q].credit.owner >= l.next_owner} = Taken(l, n)
      BY <1>1, <1>2, <1>4 DEF Taken
  <2> QED BY <2>1 DEF NewTokens
<1>6. ASSUME NEW y \in NewTokens(l2, l.next_owner)
      PROVE  /\ y \in Token /\ y.slot \in RecordsIn(l2)
             /\ l2.records[y.slot].credit.owner = y.owner
             /\ l2.records[y.slot].credit.phase =
                   IF y.kind = "reservation" THEN "Reserved" ELSE "Retained"
  <2>1. PICK s \in Taken(l, n) :
          y = [slot |-> s, owner |-> l2.records[s].credit.owner, kind |-> "reservation"]
      BY <1>5
  <2>2. PICK i \in 1..n : s = Top(l, i)
      BY DEF Taken
  <2>3. s \in RecordSlot /\ l2.records[s].credit.phase = "Reserved"
      BY <1>1, <1>2, <2>2
  <2>4. PICK o : o = l2.records[s].credit.owner
      OBVIOUS
  <2>5. o \in Nat
      BY <2>3, <2>4 DEF Ledger, DomainRecord, Credit
  <2>6. y = [slot |-> s, owner |-> o, kind |-> "reservation"]
      BY <2>1, <2>4
  <2>7. y \in Token /\ y.slot = s /\ y.owner = o /\ y.kind = "reservation"
      BY <2>3, <2>5, <2>6 DEF Token
  <2> QED BY <2>3, <2>4, <2>7
<1>7. ASSUME NEW y \in t
      PROVE  /\ y \in Token /\ y.slot \in RecordsIn(l2)
             /\ l2.records[y.slot].credit.owner = y.owner
             /\ l2.records[y.slot].credit.phase =
                   IF y.kind = "reservation" THEN "Reserved" ELSE "Retained"
  <2>1. /\ y \in Token /\ y.slot \in RecordsIn(l)
        /\ l.records[y.slot].credit.owner = y.owner
        /\ l.records[y.slot].credit.phase =
              IF y.kind = "reservation" THEN "Reserved" ELSE "Retained"
      BY DEF Tokens
  <2>2. y.slot \in RecordSlot \ Taken(l, n)
      BY <1>1, <2>1 DEF Taken, RecordsIn
  <2> QED BY <1>3, <2>1, <2>2
<1>8. ASSUME NEW q \in RecordsIn(l2), l2.records[q].credit.phase # "Quarantined"
      PROVE  \E y \in t2 : y.slot = q
  <2>1. CASE q \in Taken(l, n)
    <3>1. PICK y : y = [slot |-> q, owner |-> l2.records[q].credit.owner, kind |-> "reservation"]
        OBVIOUS
    <3>2. y \in NewTokens(l2, l.next_owner)
        BY <1>5, <2>1, <3>1
    <3>3. y.slot = q
        BY <3>1
    <3> QED BY <3>2, <3>3
  <2>2. CASE q \notin Taken(l, n)
    <3>1. q \in RecordsIn(l) /\ q \in RecordSlot /\ l2.records[q] = l.records[q]
        BY <1>3, <2>2 DEF RecordsIn
    <3> QED BY <1>8, <3>1 DEF Tokens
  <2> QED BY <2>1, <2>2
<1> QED BY <1>6, <1>7, <1>8 DEF Tokens

(* reserve_into *)
LEMMA AdmitKeeps ==
    ASSUME NEW l, NEW h, NEW t, Sound(l, h, t), AllNeeded(l), NEW leaf \in Key, Resolves(l, leaf),
           NEW charges \in Seq(Vector), Len(charges) <= Len(l.free_records),
           HasRoom(l, leaf, charges), NEW l2, l2 = Admit(l, leaf, charges),
           NEW t2, t2 = t \cup NewTokens(l2, l.next_owner)
    PROVE  /\ Sound(l2, h, t2) /\ AllNeeded(l2)
           /\ TopFacts(l, Len(charges)) /\ AdmitStep(l, l2, leaf, charges)
<1>0. /\ l \in Ledger /\ ~ l.poisoned /\ Tree(l) /\ FreeNodes(l) /\ Family(l) /\ Handles(l, h)
      /\ Owned(l) /\ FreeRecords(l) /\ RecordTotalIsSound(l) /\ Books(l) /\ Limits(l) /\ Tokens(l, t)
    BY DEF Sound
<1>1. PICK n : n = Len(charges)
    OBVIOUS
<1>2. n \in Nat /\ n \in 0..Len(l.free_records) /\ Len(l.free_records) \in Nat
    BY <1>0, <1>1 DEF Ledger
<1>3. TopFacts(l, n) /\ RestFacts(l, n)
    BY <1>0, <1>2, TopIs
<1>s. l2 \in Ledger /\ AdmitStep(l, l2, leaf, charges)
    BY <1>0, <1>1, <1>3, AdmitIs
<1>4. /\ \A i \in 1..n : Top(l, i) \in RecordSlot /\ Top(l, i) \notin RecordsIn(l)
      /\ \A i, j \in 1..n : Top(l, i) = Top(l, j) => i = j
    BY <1>3 DEF TopFacts
<1>5. IsFiniteSet(Taken(l, n)) /\ Cardinality(Taken(l, n)) = n
    BY <1>2, <1>4, TakenCount
<1>6. /\ l2.free_nodes = l.free_nodes /\ l2.next_node = l.next_node
      /\ l2.free_records = Rest(l, n) /\ l2.next_owner = l.next_owner + n
      /\ l2.poisoned = l.poisoned
      /\ AdmitNodes(l, l2.nodes, leaf, charges) /\ AdmitRecords(l, l2.records, leaf, charges)
    BY <1>1, <1>s DEF AdmitStep
<1>7. /\ OnPath(l, leaf) \subseteq LiveIn(l) /\ 0 \in OnPath(l, leaf)
      /\ \A s \in LiveIn(l) : s \in OnPath(l, leaf) <=> l.nodes[s].key \in ToSet(Path(l, leaf))
    BY <1>0, OnPathIsLive
<1>8. SameTree(l, l2) /\ SameFamily(l, l2) /\ SameHandles(l, l2)
    BY <1>6, <1>7 DEF AdmitNodes, SameTree, SameFamily, SameHandles
<1>9. Tree(l2) /\ FreeNodes(l2) /\ SamePaths(l, l2)
    BY <1>0, <1>8, SameTreeKept
<1>10. Family(l2) /\ Handles(l2, h)
    BY <1>0, <1>8, SameFamilyKept, SameHandlesKept
<1>11. LiveIn(l2) = LiveIn(l) /\ \A s \in LiveIn(l) : s \in DomainSlot
    BY <1>9 DEF SamePaths, LiveIn
<1>12. ASSUME NEW i \in 1..n
       PROVE  /\ l2.records[Top(l, i)].credit.owner = l.next_owner + i - 1
              /\ l2.records[Top(l, i)].credit.phase = "Reserved"
              /\ l2.records[Top(l, i)].credit.charge = charges[i]
              /\ l2.records[Top(l, i)].leaf = leaf
  <2>1. l2.records[Top(l, i)] = Fresh(leaf, l.next_owner + i - 1, charges[i])
      BY <1>1, <1>6 DEF AdmitRecords
  <2> QED BY <2>1 DEF Fresh
<1>13. \A q \in Taken(l, n) : /\ l2.records[q].credit.phase = "Reserved" /\ q \notin RecordsIn(l)
                              /\ l2.records[q].leaf = leaf /\ q \in RecordSlot
    BY <1>4, <1>12 DEF Taken
<1>14. \A q \in RecordSlot \ Taken(l, n) : l2.records[q] = l.records[q]
    BY <1>1, <1>6 DEF AdmitRecords
<1>15. RecordsIn(l2) = RecordsIn(l) \cup Taken(l, n)
  <2>1. NoDomainRecord.credit.phase = "Vacant"
      BY NoRecordIs
  <2>2. \A q \in Taken(l, n) : l2.records[q] # NoDomainRecord
      BY <1>13, <2>1
  <2> QED BY <1>13, <1>14, <2>2 DEF RecordsIn
<1>16. \A q \in RecordsIn(l) : q \in RecordSlot \ Taken(l, n) /\ l2.records[q] = l.records[q]
    BY <1>13, <1>14 DEF RecordsIn
<1>17. ASSUME NEW s \in LiveIn(l)
       PROVE  Under(l2, s) = Under(l, s) \cup (IF s \in OnPath(l, leaf) THEN Taken(l, n) ELSE {})
  <2>1. l2.nodes[s].key = l.nodes[s].key
      BY <1>9 DEF SamePaths
  <2>2. \A q \in RecordsIn(l) : Path(l2, l2.records[q].leaf) = Path(l, l.records[q].leaf)
      BY <1>0, <1>9, <1>16 DEF Owned, SamePaths
  <2>3. \A q \in Taken(l, n) : Path(l2, l2.records[q].leaf) = Path(l, leaf)
      BY <1>9, <1>13 DEF SamePaths
  <2>4. ASSUME NEW q \in RecordsIn(l2)
        PROVE  l2.nodes[s].key \in ToSet(Path(l2, l2.records[q].leaf)) <=>
                  q \in Under(l, s) \cup (IF s \in OnPath(l, leaf) THEN Taken(l, n) ELSE {})
    <3>1. CASE q \in RecordsIn(l)
        BY <1>16, <2>1, <2>2, <3>1 DEF Under
    <3>2. CASE q \in Taken(l, n)
        BY <1>7, <1>13, <2>1, <2>3, <3>2 DEF Under
    <3> QED BY <1>15, <3>1, <3>2
  <2>5. Under(l, s) \subseteq RecordsIn(l)
      BY DEF Under
  <2> QED BY <1>15, <2>4, <2>5 DEF Under
<1>18. Owned(l2)
  <2>1. l.next_owner \in Nat /\ l.next_owner >= 1
      BY <1>0 DEF Owned, Ledger
  <2>2. ASSUME NEW q \in RecordsIn(l2)
        PROVE  /\ l2.records[q].credit.owner \in 1..(l2.next_owner - 1)
               /\ l2.records[q].credit.phase \in Phase
               /\ Resolves(l2, l2.records[q].leaf)
    <3>1. CASE q \in RecordsIn(l)
      <4>1. l.records[q].credit.owner \in 1..(l.next_owner - 1)
          BY <1>0, <3>1 DEF Owned
      <4>2. l.records[q].credit.owner \in 1..(l2.next_owner - 1)
          BY <1>2, <1>6, <2>1, <4>1
      <4>3. l.records[q].credit.phase \in Phase /\ Resolves(l2, l.records[q].leaf)
          BY <1>0, <1>9, <3>1 DEF Owned, SamePaths
      <4> QED BY <1>16, <3>1, <4>2, <4>3
    <3>2. CASE q \in Taken(l, n)
      <4>1. PICK i \in 1..n : q = Top(l, i)
          BY <3>2 DEF Taken
      <4>2. l2.records[q].credit.owner = l.next_owner + i - 1
          BY <1>12, <4>1
      <4>3. l2.records[q].credit.owner \in 1..(l2.next_owner - 1)
          BY <1>2, <1>6, <2>1, <4>2
      <4>4. Resolves(l2, leaf)
          BY <1>9 DEF SamePaths
      <4> QED BY <1>13, <3>2, <4>3, <4>4 DEF Phase
    <3> QED BY <1>15, <3>1, <3>2
  <2>3. \A q \in RecordsIn(l) : l2.records[q].credit.owner \in 1..(l.next_owner - 1)
      BY <1>0, <1>16 DEF Owned
  <2>4. ASSUME NEW q \in RecordsIn(l2), NEW z \in RecordsIn(l2),
               l2.records[q].credit.owner = l2.records[z].credit.owner
        PROVE  q = z
    <3>1. CASE q \in RecordsIn(l) /\ z \in RecordsIn(l)
        BY <1>0, <1>16, <2>4, <3>1 DEF Owned
    <3>2. ASSUME NEW a \in RecordsIn(l), NEW b \in Taken(l, n),
                 l2.records[a].credit.owner = l2.records[b].credit.owner
          PROVE  FALSE
      <4>1. PICK i \in 1..n : b = Top(l, i)
          BY DEF Taken
      <4>2. l2.records[b].credit.owner = l.next_owner + i - 1
          BY <1>12, <4>1
      <4>3. l2.records[a].credit.owner \in 1..(l.next_owner - 1)
          BY <2>3
      <4> QED BY <1>2, <2>1, <3>2, <4>2, <4>3
    <3>3. CASE q \in Taken(l, n) /\ z \in Taken(l, n)
      <4>1. PICK i \in 1..n : q = Top(l, i)
          BY <3>3 DEF Taken
      <4>2. PICK j \in 1..n : z = Top(l, j)
          BY <3>3 DEF Taken
      <4>3. l.next_owner + i - 1 = l.next_owner + j - 1
          BY <1>12, <2>4, <4>1, <4>2
      <4>4. i = j
          BY <1>2, <2>1, <4>3
      <4> QED BY <4>1, <4>2, <4>4
    <3> QED BY <1>15, <2>4, <3>1, <3>2, <3>3
  <2>5. l2.next_owner >= 1
      BY <1>2, <1>6, <2>1
  <2> QED BY <2>2, <2>4, <2>5 DEF Owned
<1>19. FreeRecords(l2)
    BY <1>3, <1>6, <1>15 DEF RestFacts, FreeRecords
<1>20. ASSUME NEW s \in LiveIn(l)
       PROVE  l2.nodes[s].used = Plus(Base(s), ChargeOf(CreditsIn(l2), Under(l2, s)))
  <2>0. Charged(CreditsIn(l)) /\ Charged(CreditsIn(l2))
      BY <1>0, <1>s DEF Charged, CreditsIn, Ledger, DomainRecord, Credit
  <2>1. PICK S, rec, rec2 : S = Under(l, s) /\ rec = CreditsIn(l) /\ rec2 = CreditsIn(l2)
      OBVIOUS
  <2>2. S \subseteq RecordsIn(l)
      BY <2>1 DEF Under
  <2>3. \A q \in S \cap RecordSlot : rec2[q].charge = rec[q].charge
      BY <1>16, <2>1, <2>2 DEF CreditsIn
  <2>4. l.nodes[s].used = Plus(Base(s), ChargeOf(rec, S))
      BY <1>0, <2>1 DEF Books
  <2>5. CASE s \notin OnPath(l, leaf)
    <3>1. l2.nodes[s] = l.nodes[s]
        BY <1>6, <1>11, <2>5 DEF AdmitNodes
    <3>2. Under(l2, s) = S
        BY <1>17, <2>1, <2>5
    <3>3. ChargeOf(rec2, S) = ChargeOf(rec, S)
        BY <2>3, ChargeSame
    <3> QED BY <2>1, <2>4, <3>1, <3>2, <3>3
  <2>6. CASE s \in OnPath(l, leaf)
    <3>1. l2.nodes[s].used = Plus(l.nodes[s].used, Total(charges))
        BY <1>6, <1>11, <2>6 DEF AdmitNodes
    <3>2. PICK pos : pos = [i \in 1..Len(charges) |-> Top(l, i)]
        OBVIOUS
    <3>3. \A i \in 1..Len(charges) : pos[i] = Top(l, i)
        BY <3>2
    <3>4. pos \in [1..Len(charges) -> RecordSlot]
        BY <1>1, <1>4, <3>2
    <3>5. \A i, j \in 1..Len(charges) : pos[i] = pos[j] => i = j
        BY <1>1, <1>4, <3>3
    <3>6. \A i \in 1..Len(charges) : pos[i] \notin S /\ rec2[pos[i]].charge = charges[i]
        BY <1>1, <1>4, <1>12, <2>1, <2>2, <3>3 DEF CreditsIn
    <3>7. Charged(rec) /\ Charged(rec2)
        BY <2>0, <2>1
    <3>8. ChargeOf(rec2, S \cup {pos[i] : i \in 1..Len(charges)})
              = Plus(ChargeOf(rec, S), Total(charges))
        BY <2>3, <3>4, <3>5, <3>6, <3>7, ChargeOfBatch
    <3>9. {pos[i] : i \in 1..Len(charges)} = Taken(l, n)
        BY <1>1, <3>3 DEF Taken
    <3>10. Under(l2, s) = S \cup Taken(l, n)
        BY <1>17, <2>1, <2>6
    <3>11. PICK b, c, d : b = Base(s) /\ c = ChargeOf(rec, S) /\ d = Total(charges)
        OBVIOUS
    <3>12. b \in Vector /\ c \in Vector /\ d \in Vector
      <4>1. Zero \in Vector
          BY DEF Zero, Vector
      <4>2. b \in Vector
          BY <3>11, <4>1, DomainAssumption DEF Base
      <4>3. c \in Vector
          BY <3>7, <3>11, ChargeType
      <4>4. d \in Vector
          BY <3>11, TotalType
      <4> QED BY <4>2, <4>3, <4>4
    <3>13. Plus(Plus(b, c), d) = Plus(b, Plus(c, d))
        BY <3>12, PlusAssociative
    <3> QED BY <2>1, <2>4, <3>1, <3>8, <3>9, <3>10, <3>11, <3>13
  <2> QED BY <2>5, <2>6
<1>21. ASSUME NEW s \in LiveIn(l), NEW ph \in Phase
       PROVE  l2.nodes[s].counts[ph] = Cardinality(InPhase(l2, s, ph))
  <2>1. /\ l.nodes[s].counts[ph] = Cardinality(InPhase(l, s, ph)) /\ s \in DomainSlot
        /\ l.nodes[s].counts[ph] \in Nat /\ IsFiniteSet(InPhase(l, s, ph))
      BY <1>0, <1>11, FiniteRecords, ZenonT(60) DEF Books
  <2>2. Under(l, s) \subseteq RecordsIn(l)
      BY DEF Under
  <2>3. CASE s \notin OnPath(l, leaf)
    <3>1. l2.nodes[s] = l.nodes[s]
        BY <1>6, <2>1, <2>3 DEF AdmitNodes
    <3>2. Under(l2, s) = Under(l, s)
        BY <1>17, <2>3
    <3>3. InPhase(l2, s, ph) = InPhase(l, s, ph)
        BY <1>16, <2>2, <3>2 DEF InPhase
    <3> QED BY <2>1, <3>1, <3>3
  <2>4. CASE s \in OnPath(l, leaf)
    <3>1. l2.nodes[s].counts[ph] =
            l.nodes[s].counts[ph] + (IF ph = "Reserved" THEN n ELSE 0)
        BY <1>1, <1>6, <2>1, <2>4 DEF AdmitNodes
    <3>2. Under(l2, s) = Under(l, s) \cup Taken(l, n)
        BY <1>17, <2>4
    <3>3. CASE ph = "Reserved"
      <4>1. InPhase(l2, s, ph) = InPhase(l, s, ph) \cup Taken(l, n)
          BY <1>13, <1>16, <2>2, <3>2, <3>3 DEF InPhase
      <4>2. InPhase(l, s, ph) \cap Taken(l, n) = {}
          BY <1>13, <2>2 DEF InPhase
      <4>3. PICK A, B : A = InPhase(l, s, ph) /\ B = Taken(l, n)
          OBVIOUS
      <4>4. IsFiniteSet(A) /\ IsFiniteSet(B) /\ A \cap B = {} /\ Cardinality(A) \in Nat
          BY <1>5, <2>1, <4>2, <4>3
      <4>5. Cardinality(A \cup B) = Cardinality(A) + Cardinality(B) - Cardinality({})
          BY <4>4, FS_Union
      <4>6. Cardinality({}) = 0
          BY FS_EmptySet
      <4>7. Cardinality(B) = n /\ n \in Nat
          BY <1>2, <1>5, <4>3
      <4>8. Cardinality(A \cup B) = Cardinality(A) + n
          BY <4>4, <4>5, <4>6, <4>7
      <4>9. l2.nodes[s].counts[ph] = l.nodes[s].counts[ph] + n
          BY <3>1, <3>3
      <4>10. l.nodes[s].counts[ph] = Cardinality(A)
          BY <2>1, <4>3
      <4>11. InPhase(l2, s, ph) = A \cup B
          BY <4>1, <4>3
      <4> QED BY <4>8, <4>9, <4>10, <4>11
    <3>4. CASE ph # "Reserved"
      <4>1. InPhase(l2, s, ph) = InPhase(l, s, ph)
          BY <1>13, <1>16, <2>2, <3>2, <3>4 DEF InPhase
      <4>2. l2.nodes[s].counts[ph] = l.nodes[s].counts[ph]
          BY <2>1, <3>1, <3>4
      <4> QED BY <2>1, <4>1, <4>2
    <3> QED BY <3>3, <3>4
  <2> QED BY <2>3, <2>4
<1>22. Books(l2)
    BY <1>11, <1>20, <1>21 DEF Books
<1>23. ASSUME NEW s \in LiveIn(l)
       PROVE  Occupied(l2.nodes[s]) = Occupied(l.nodes[s]) + (IF s \in OnPath(l, leaf) THEN n ELSE 0)
              /\ Occupied(l.nodes[s]) \in Nat
  <2>1. /\ Occupied(l.nodes[s]) = Cardinality(Under(l, s))
        /\ Occupied(l2.nodes[s]) = Cardinality(Under(l2, s))
      BY <1>0, <1>11, <1>18, <1>22, OccupiedIs
  <2>2. IsFiniteSet(Under(l, s)) /\ Cardinality(Under(l, s)) \in Nat
      BY FiniteRecords
  <2>3. CASE s \in OnPath(l, leaf)
    <3>1. PICK A, B : A = Under(l, s) /\ B = Taken(l, n)
        OBVIOUS
    <3>2. A \cap B = {}
        BY <1>13, <3>1 DEF Under
    <3>3. Cardinality(A \cup B) = Cardinality(A) + Cardinality(B) - Cardinality({})
        BY <1>5, <2>2, <3>1, <3>2, FS_Union
    <3>4. Cardinality({}) = 0
        BY FS_EmptySet
    <3>5. Under(l2, s) = A \cup B
        BY <1>17, <2>3, <3>1
    <3> QED BY <1>2, <1>5, <2>1, <2>2, <2>3, <3>1, <3>3, <3>4, <3>5
  <2>4. CASE s \notin OnPath(l, leaf)
    <3>1. Under(l2, s) = Under(l, s)
        BY <1>17, <2>4
    <3>2. Occupied(l2.nodes[s]) = Occupied(l.nodes[s])
        BY <2>1, <3>1
    <3> QED BY <2>1, <2>2, <2>4, <3>2
  <2> QED BY <2>3, <2>4
<1>24. RecordTotalIsSound(l2)
  <2>1. 0 \in LiveIn(l)
      BY <1>7
  <2>2. Len(l2.free_records) = Len(l.free_records) - n
      BY <1>3, <1>6 DEF RestFacts
  <2>3. Occupied(l2.nodes[0]) = Occupied(l.nodes[0]) + n /\ Occupied(l.nodes[0]) \in Nat
      BY <1>7, <1>23, <2>1
  <2>4. Occupied(l.nodes[0]) + Len(l.free_records) = MaxRecords
      BY <1>0 DEF RecordTotalIsSound
  <2> QED BY <1>2, <2>2, <2>3, <2>4 DEF RecordTotalIsSound
<1>25. Limits(l2)
  <2>1. ASSUME NEW s \in LiveIn(l)
        PROVE  /\ \A k \in Kind : l2.nodes[s].used[k] <= l2.nodes[s].capacity[k]
               /\ Occupied(l2.nodes[s]) <= l2.nodes[s].record_limit
    <3>1. /\ l2.nodes[s].capacity = l.nodes[s].capacity
          /\ l2.nodes[s].record_limit = l.nodes[s].record_limit /\ s \in DomainSlot
        BY <1>6, <1>11 DEF AdmitNodes
    <3>2. CASE s \notin OnPath(l, leaf)
      <4>1. l2.nodes[s] = l.nodes[s]
          BY <1>6, <1>11, <3>2 DEF AdmitNodes
      <4> QED BY <1>0, <4>1 DEF Limits
    <3>3. CASE s \in OnPath(l, leaf)
      <4>1. l2.nodes[s].used = Plus(l.nodes[s].used, Total(charges))
          BY <1>6, <3>1, <3>3 DEF AdmitNodes
      <4>2. /\ Occupied(l.nodes[s]) + n <= l.nodes[s].record_limit
            /\ Fits(l.nodes[s].used, Total(charges), l.nodes[s].capacity)
          BY <1>1, <3>3 DEF HasRoom
      <4>3. \A k \in Kind : l2.nodes[s].used[k] <= l2.nodes[s].capacity[k]
          BY <3>1, <4>1, <4>2 DEF Fits, Plus
      <4> QED BY <1>23, <3>1, <3>3, <4>2, <4>3
    <3> QED BY <3>2, <3>3
  <2>2. l2.nodes[0].capacity = l.nodes[0].capacity
      BY <1>6, Constants DEF AdmitNodes
  <2> QED BY <1>0, <1>11, <2>1, <2>2 DEF Limits
<1>26. Tokens(l2, t2)
    BY <1>0, <1>s, <1>1, <1>3, <1>6, <1>15, AdmitTokens
<1>27. AllNeeded(l2)
  <2>1. \A s \in LiveIn(l) : Under(l, s) \subseteq Under(l2, s)
      BY <1>17
  <2> QED BY <1>8, <1>11, <2>1 DEF AllNeeded, Needed, SameFamily, SameHandles
<1>28. Sound(l2, h, t2)
    BY <1>0, <1>s, <1>6, <1>9, <1>10, <1>18, <1>19, <1>22, <1>24, <1>25, <1>26 DEF Sound
<1> QED BY <1>s, <1>1, <1>3, <1>27, <1>28

(***************************************************************************)
(* The invariant holds at first.                                           *)
(***************************************************************************)
RootNode(l) ==
    /\ l.nodes[0].key = ROOT /\ l.nodes[0].parent = NoKey /\ l.nodes[0].capacity = Capacity
    /\ l.nodes[0].used = Baseline /\ l.nodes[0].record_limit = MaxRecords
    /\ l.nodes[0].counts = [p \in Phase |-> 0]
    /\ l.nodes[0].handles = 1 /\ l.nodes[0].children = 0

Fresh0(l) ==
    /\ RootNode(l) /\ \A s \in DomainSlot \ {0} : l.nodes[s] = NoNode
    /\ l.free_nodes = [i \in 1..(MaxDomains - 1) |-> MaxDomains - i]
    /\ \A r \in RecordSlot : l.records[r] = NoDomainRecord
    /\ l.free_records = [i \in 1..MaxRecords |-> MaxRecords - i]
    /\ l.next_node = 2 /\ l.next_owner = 1 /\ l.poisoned = FALSE /\ l.anchored = FALSE

LEMMA InitIs ==
    ASSUME Init
    PROVE  /\ state \in Ledger /\ Fresh0(state) /\ held = SetToBag({ROOT}) /\ tokens = {}
<1>1. PICK rn : rn = [NewNode(ROOT, NoKey, Capacity, MaxRecords) EXCEPT !.used = Baseline]
    OBVIOUS
<1>2. ROOT \in Key /\ NoKey \in Key
    BY DEF ROOT, NoKey, Key
<1>3. PICK nn : nn = NewNode(ROOT, NoKey, Capacity, MaxRecords)
    OBVIOUS
<1>4. /\ nn \in Node /\ nn.key = ROOT /\ nn.parent = NoKey
      /\ nn.capacity = Capacity /\ nn.record_limit = MaxRecords
      /\ nn.used = Zero /\ nn.counts = [p \in Phase |-> 0]
      /\ nn.handles = 1 /\ nn.children = 0
    BY <1>2, <1>3, Constants, DomainAssumption, NewNodeIs
<1>5. rn = [nn EXCEPT !.used = Baseline]
    BY <1>1, <1>3
<1>6. /\ rn \in Node /\ rn.key = ROOT /\ rn.parent = NoKey
      /\ rn.capacity = Capacity /\ rn.record_limit = MaxRecords
      /\ rn.used = Baseline /\ rn.counts = [p \in Phase |-> 0]
      /\ rn.handles = 1 /\ rn.children = 0
    BY <1>4, <1>5, DomainAssumption DEF Node
<1>7. PICK ns : ns = [s \in DomainSlot |-> IF s = 0 THEN rn ELSE NoNode]
    OBVIOUS
<1>8. ns \in [DomainSlot -> Node] /\ ns[0] = rn /\ \A s \in DomainSlot \ {0} : ns[s] = NoNode
    BY <1>6, <1>7, NoNodeIs, Constants
<1>9. PICK fn, fr : /\ fn = [i \in 1..(MaxDomains - 1) |-> MaxDomains - i]
                    /\ fr = [i \in 1..MaxRecords |-> MaxRecords - i]
    OBVIOUS
<1>10. fn \in Seq(DomainSlot) /\ fr \in Seq(RecordSlot)
  <2>1. MaxDomains - 1 \in Nat /\ MaxRecords \in Nat
      BY Constants
  <2>2. \A i \in 1..(MaxDomains - 1) : MaxDomains - i \in DomainSlot
      BY Constants DEF DomainSlot
  <2>3. \A i \in 1..MaxRecords : MaxRecords - i \in RecordSlot
      BY Constants DEF RecordSlot
  <2> QED BY <1>9, <2>1, <2>2, <2>3
<1>11. PICK rs : rs = [s \in RecordSlot |-> NoDomainRecord]
    OBVIOUS
<1>12. rs \in [RecordSlot -> DomainRecord]
    BY <1>11, NoRecordIs
<1>13. state = [nodes |-> ns, free_nodes |-> fn, records |-> rs, free_records |-> fr,
                next_node |-> 2, next_owner |-> 1, poisoned |-> FALSE, anchored |-> FALSE]
    BY <1>1, <1>7, <1>9, <1>11, Zenon DEF Init
<1>14. state \in Ledger
    BY <1>8, <1>10, <1>12, <1>13 DEF Ledger
<1>15. state.nodes = ns /\ state.free_nodes = fn /\ state.records = rs /\ state.free_records = fr
    BY <1>13
<1>16. Fresh0(state)
    BY <1>6, <1>8, <1>9, <1>11, <1>13, <1>15 DEF Fresh0, RootNode
<1> QED BY <1>14, <1>16 DEF Init

LEMMA InitSound ==
    ASSUME NEW l \in Ledger, Fresh0(l), NEW h, h = SetToBag({ROOT})
    PROVE  Sound(l, h, {}) /\ AllNeeded(l)
<1>0. RootNode(l) /\ \A s \in DomainSlot \ {0} : l.nodes[s] = NoNode
    BY DEF Fresh0
<1>1. LiveIn(l) = {0} /\ RecordsIn(l) = {} /\ 0 \in DomainSlot
    BY <1>0, Constants DEF Fresh0, RootNode, LiveIn, RecordsIn, NoNode, NoKey, ROOT
<1>2. \A s : Under(l, s) = {} /\ \A p : InPhase(l, s, p) = {}
    BY <1>1 DEF Under, InPhase
<1>3. ROOT \in Key /\ ROOT.slot = 0 /\ ROOT.generation = 1
    BY DEF ROOT, Key
<1>4. Tree(l)
  <2>1. PICK p : p = <<ROOT>>
      OBVIOUS
  <2>2. p \in Seq(Key) /\ Len(p) = 1 /\ p[1] = ROOT
      BY <1>3, <2>1
  <2>3. Resolves(l, ROOT)
      BY <1>0, <1>1, <1>3 DEF Resolves, RootNode
  <2>4. Chain(l, ROOT, p)
      BY <1>3, <2>2, <2>3, Constants DEF Chain
  <2>5. Path(l, ROOT) = p
      BY <1>0, <2>4, PathOfChain DEF RootNode
  <2>6. l.next_node = 2
      BY DEF Fresh0
  <2> QED BY <1>0, <1>1, <1>3, <2>4, <2>5, <2>6 DEF Tree, RootNode
<1>5. FreeNodes(l)
  <2>1. PICK f : f = l.free_nodes
      OBVIOUS
  <2>2. f = [i \in 1..(MaxDomains - 1) |-> MaxDomains - i]
      BY <2>1 DEF Fresh0
  <2>3. IsInjective(f)
      BY <2>2, Constants DEF IsInjective
  <2>4. ToSet(f) = DomainSlot \ {0}
    <3>1. ASSUME NEW s \in DomainSlot \ {0}
          PROVE  \E i \in 1..(MaxDomains - 1) : f[i] = s
      <4>1. MaxDomains - s \in 1..(MaxDomains - 1) /\ MaxDomains - (MaxDomains - s) = s
          BY Constants DEF DomainSlot
      <4> QED BY <2>2, <4>1
    <3>2. \A i \in 1..(MaxDomains - 1) : f[i] \in DomainSlot \ {0}
        BY <2>2, Constants DEF DomainSlot
    <3>3. ToSet(f) = {f[i] : i \in 1..(MaxDomains - 1)}
        BY <2>2 DEF ToSet
    <3> QED BY <3>1, <3>2, <3>3
  <2> QED BY <1>1, <2>1, <2>3, <2>4 DEF FreeNodes
<1>6. FreeRecords(l) /\ Len(l.free_records) = MaxRecords
  <2>1. PICK f : f = l.free_records
      OBVIOUS
  <2>2. f = [i \in 1..MaxRecords |-> MaxRecords - i]
      BY <2>1 DEF Fresh0
  <2>3. IsInjective(f)
      BY <2>2, Constants DEF IsInjective
  <2>4. ToSet(f) = RecordSlot
    <3>1. ASSUME NEW s \in RecordSlot
          PROVE  \E i \in 1..MaxRecords : f[i] = s
      <4>1. MaxRecords - s \in 1..MaxRecords /\ MaxRecords - (MaxRecords - s) = s
          BY Constants DEF RecordSlot
      <4> QED BY <2>2, <4>1
    <3>2. \A i \in 1..MaxRecords : f[i] \in RecordSlot
        BY <2>2, Constants DEF RecordSlot
    <3>3. ToSet(f) = {f[i] : i \in 1..MaxRecords}
        BY <2>2 DEF ToSet
    <3> QED BY <3>1, <3>2, <3>3
  <2>5. Len(f) = MaxRecords
      BY <2>2, Constants
  <2> QED BY <1>1, <2>1, <2>3, <2>4, <2>5 DEF FreeRecords
<1>7. Family(l)
  <2>1. ChildrenIn(l, 0) = {}
      BY <1>0, <1>1 DEF ChildrenIn, RootNode, NoKey, ROOT
  <2>2. Cardinality({}) = 0
      BY FS_EmptySet
  <2> QED BY <1>0, <1>1, <2>1, <2>2 DEF Family, RootNode
<1>8. Handles(l, h)
  <2>1. h = [e \in {ROOT} |-> 1]
      BY DEF SetToBag
  <2>2. DOMAIN h = {ROOT} /\ h[ROOT] = 1 /\ h \in [DOMAIN h -> Nat \ {0}]
      BY <2>1
  <2>3. Resolves(l, ROOT)
      BY <1>0, <1>1, <1>3 DEF Resolves, RootNode
  <2> QED BY <1>0, <1>1, <1>3, <2>2, <2>3 DEF Handles, Copies, RootNode
<1>9. Owned(l) /\ Tokens(l, {}) /\ AllNeeded(l)
    BY <1>1 DEF Owned, Tokens, AllNeeded, Fresh0
<1>10. Occupied(l.nodes[0]) = 0
    BY <1>0 DEF RootNode, Occupied, Phase
<1>11. RecordTotalIsSound(l)
    BY <1>6, <1>10, Constants DEF RecordTotalIsSound
<1>12. Books(l)
  <2>1. Charged(CreditsIn(l))
    <3>1. Zero \in Vector
        BY DEF Zero, Vector
    <3> QED BY <3>1, NoRecordIs DEF Charged, CreditsIn, Fresh0
  <2>2. ChargeOf(CreditsIn(l), {}) = Zero
      BY <2>1, ChargeNone
  <2>3. Plus(Baseline, Zero) = Baseline
      BY DomainAssumption, VectorArithmetic
  <2>4. Cardinality({}) = 0
      BY FS_EmptySet
  <2> QED BY <1>0, <1>1, <1>2, <2>2, <2>3, <2>4 DEF Books, RootNode, Base
<1>13. Limits(l)
  <2>1. \A k \in Kind : Baseline[k] <= Capacity[k]
      BY DomainAssumption DEF Fits, Zero, Vector
  <2> QED BY <1>0, <1>1, <1>10, <2>1, Constants DEF Limits, RootNode
<1>14. ~ l.poisoned
    BY DEF Fresh0
<1> QED BY <1>4, <1>5, <1>6, <1>7, <1>8, <1>9, <1>11, <1>12, <1>13, <1>14 DEF Sound

LEMMA InitIInv ==
    Init => IInv
BY InitIs, InitSound DEF IInv

(***************************************************************************)
(* What a transition of a credit does to a sound ledger.                   *)
(***************************************************************************)
(* The credit of x goes to its next phase. *)
Advanced(l, x, l2, next) ==
    \E r, leaf, charge, old, nodes :
        /\ IsCredit(l, x, r, leaf, charge, old) /\ CreditFacts(l, x, r, leaf, charge, old)
        /\ SettleFacts(l, nodes, leaf, charge, old, next) /\ PhaseStep(l, l2, nodes, r, next)

(* The credit of x is released, and domains that it leaves empty retire. *)
Released(l, x, l2) ==
    \E r, leaf, charge, old, nodes, l1 :
        /\ IsCredit(l, x, r, leaf, charge, old) /\ CreditFacts(l, x, r, leaf, charge, old)
        /\ SettleFacts(l, nodes, leaf, charge, old, "Vacant") /\ VacateStep(l, l1, nodes, r)
        /\ SameRoot(l1, l2)

LEMMA PhaseTable ==
    ASSUME NEW owner, owner # 0
    PROVE  /\ CreditTransition(owner, owner, "Reserved", "Retain") = "Retained"
           /\ CreditTransition(owner, owner, "Retained", "Quarantine") = "Quarantined"
           /\ CreditTransition(owner, owner, "Reserved", "CancelUnissued") = "Vacant"
           /\ CreditTransition(owner, owner, "Retained", "ReleaseRejected") = "Vacant"
           /\ CreditTransition(owner, owner, "Retained", "ReleaseDisposed") = "Vacant"
BY DEF CreditTransition

Advancing(x, action, next) ==
    \/ x.kind = "reservation" /\ action = "Retain" /\ next = "Retained"
    \/ x.kind = "retained" /\ action = "Quarantine" /\ next = "Quarantined"

Releasing(x, action) ==
    \/ x.kind = "reservation" /\ action = "CancelUnissued"
    \/ x.kind = "retained" /\ action \in {"ReleaseRejected", "ReleaseDisposed"}

LEMMA AdvanceKeeps ==
    ASSUME NEW l, NEW h, NEW t, Sound(l, h, t), AllNeeded(l), NEW x \in t, NEW action, NEW next,
           Advancing(x, action, next), NEW l2, l2 = transition(l, x, action),
           NEW t2, t2 = AfterPhase(t, x, next)
    PROVE  Sound(l2, h, t2) /\ AllNeeded(l2) /\ Advanced(l, x, l2, next)
<1>0. ~ l.poisoned /\ RecordTotalIsSound(l)
    BY DEF Sound
<1>1. PICK r, leaf, charge, old : IsCredit(l, x, r, leaf, charge, old)
    BY DEF IsCredit
<1>2. CreditFacts(l, x, r, leaf, charge, old)
    BY <1>1, CreditIs DEF IsCredit
<1>3. CreditTransition(l.records[r].credit.owner, x.owner, old, action) = next
    BY <1>2, PhaseTable DEF CreditFacts, Advancing
<1>4. PICK nodes : nodes = SettledNodes(l, leaf, charge, old, next)
    OBVIOUS
<1>5. PathIsSound(l, leaf) /\ \A s \in OnPath(l, leaf) : l.nodes[s].counts[old] > 0
    BY <1>2 DEF CreditFacts
<1>6. next # "Vacant" /\ next # "None" /\ Advances(x, next)
    BY DEF Advancing, Advances
<1>7. l2 = PhaseOf(l, nodes, r, next)
    BY <1>0, <1>1, <1>3, <1>4, <1>5, <1>6, TransitionToPhase
<1>8. PhaseChange(l, x, r, leaf, charge, old, next, nodes, l2)
    BY <1>1, <1>4, <1>6, <1>7 DEF PhaseChange
<1>9. /\ Sound(l2, h, t2) /\ AllNeeded(l2)
      /\ SettleFacts(l, nodes, leaf, charge, old, next) /\ PhaseStep(l, l2, nodes, r, next)
    BY <1>8, PhaseKeeps
<1> QED BY <1>1, <1>2, <1>9 DEF Advanced

LEMMA ReleasingKeeps ==
    ASSUME NEW l, NEW h, NEW t, Sound(l, h, t), AllNeeded(l), NEW x \in t, NEW action,
           Releasing(x, action), NEW l2, l2 = transition(l, x, action)
    PROVE  Sound(l2, h, t \ {x}) /\ AllNeeded(l2) /\ Released(l, x, l2)
<1>0. ~ l.poisoned /\ RecordTotalIsSound(l) /\ l \in Ledger
    BY DEF Sound
<1>1. PICK r, leaf, charge, old : IsCredit(l, x, r, leaf, charge, old)
    BY DEF IsCredit
<1>2. CreditFacts(l, x, r, leaf, charge, old)
    BY <1>1, CreditIs DEF IsCredit
<1>3. CreditTransition(l.records[r].credit.owner, x.owner, old, action) = "Vacant"
    BY <1>2, PhaseTable DEF CreditFacts, Releasing
<1>4. PICK nodes : nodes = SettledNodes(l, leaf, charge, old, "Vacant")
    OBVIOUS
<1>5. /\ PathIsSound(l, leaf) /\ Len(l.free_records) < MaxRecords
      /\ \A s \in OnPath(l, leaf) : l.nodes[s].counts[old] > 0 /\ Covers(l.nodes[s].used, charge)
    BY <1>2 DEF CreditFacts
<1>6. PICK l1, p : l1 = VacateOf(l, nodes, r) /\ p = Path(l, leaf)
    OBVIOUS
<1>7. PICK m : m = plan_reap(l, p, l.nodes[leaf.slot].handles, 1)
    OBVIOUS
<1>8. Vacates(l, x, r, leaf, charge, old, nodes, l1)
    BY <1>1, <1>4, <1>6 DEF Vacates
<1>9. PICK l3 : l3 = commit_reap(l1, p, m)
    OBVIOUS
<1>10. /\ Sound(l3, h, t \ {x}) /\ AllNeeded(l3) /\ SameRoot(l1, l3) /\ ReapIsSound(l1, p, m)
       /\ SettleFacts(l, nodes, leaf, charge, old, "Vacant") /\ VacateStep(l, l1, nodes, r)
    BY <1>6, <1>7, <1>8, <1>9, ReleaseKeeps
<1>11. l1.nodes = nodes
    BY <1>10 DEF VacateStep
<1>12. transition(l, x, action) = commit_reap(l1, p, m)
    BY <1>0, <1>1, <1>3, <1>4, <1>5, <1>6, <1>7, <1>10, <1>11, TransitionToVacant
<1>13. l2 = l3
    BY <1>9, <1>12
<1> QED BY <1>1, <1>2, <1>10, <1>13 DEF Released

(***************************************************************************)
(* Every step keeps the invariant.                                         *)
(***************************************************************************)
LEMMA HeldResolves ==
    ASSUME NEW l, NEW h, NEW t, Sound(l, h, t), NEW key \in BagToSet(h)
    PROVE  key \in DOMAIN h /\ key \in Key /\ Resolves(l, key) /\ PathIsSound(l, key)
<1>1. key \in DOMAIN h
    BY DEF BagToSet
<1>2. key \in Key /\ Resolves(l, key) /\ Tree(l)
    BY <1>1 DEF Sound, Handles
<1> QED BY <1>1, <1>2, OnPathIsLive

(* The root's ledger and the tokens do not notice. *)
Idle == SameRoot(state, state') /\ tokens' = tokens

LEMMA SameBooksIsIdle ==
    ASSUME NEW l, NEW l2, SameBooks(l, l2), l2.poisoned = l.poisoned, l2.anchored = l.anchored
    PROVE  SameRoot(l, l2)
BY Constants DEF SameBooks, SameRoot

LEMMA NewChildStep ==
    ASSUME IInv, NEW key \in BagToSet(held), NEW shape \in Shapes, NewChild(key, shape)
    PROVE  IInv' /\ Idle
<1>0. Sound(state, held, tokens) /\ AllNeeded(state)
    BY DEF IInv
<1>1. /\ state \in Ledger /\ FreeNodes(state) /\ key \in Key /\ Resolves(state, key)
      /\ PathIsSound(state, key)
    BY <1>0, HeldResolves DEF Sound
<1>2. PICK slot : slot = Last(state.free_nodes)
    OBVIOUS
<1>3. /\ Len(Path(state, key)) < MaxDepth /\ state.free_nodes # <<>> /\ shape.limit \in 1..MaxRecords
      /\ tokens' = tokens
    BY DEF NewChild
<1>4. slot \in DomainSlot /\ slot \notin LiveIn(state)
    BY <1>1, <1>2, <1>3, LastIsFree
<1>5. state.nodes[slot] = NoNode
    BY <1>4 DEF LiveIn
<1>6. PICK child : child = [slot |-> slot, generation |-> state.next_node]
    OBVIOUS
<1>7. shape.capacity \in Vector /\ shape.limit \in Nat
    BY DomainAssumption
<1>8. PICK capacity, limit : capacity = shape.capacity /\ limit = shape.limit
    OBVIOUS
<1>9. /\ state' = [state EXCEPT
              !.free_nodes = Front(@),
              !.next_node = @ + 1,
              !.nodes[key.slot].children = @ + 1,
              !.nodes[slot] = NewNode(child, key, capacity, limit)]
      /\ held' = With(held, child)
    BY <1>1, <1>2, <1>5, <1>6, <1>8, Zenon DEF NewChild, Hold, With
<1>10. state' = ChildOf(state, key, child, capacity, limit)
  <2>1. child.slot = slot
      BY <1>6
  <2> QED BY <1>9, <2>1 DEF ChildOf
<1>11. /\ Sound(state', held', tokens) /\ AllNeeded(state') /\ SameBooks(state, state')
       /\ state'.poisoned = state.poisoned /\ state'.anchored = state.anchored
    BY <1>0, <1>1, <1>2, <1>3, <1>6, <1>7, <1>8, <1>9, <1>10, NewChildKeeps
<1>12. SameRoot(state, state')
    BY <1>11, SameBooksIsIdle
<1> QED BY <1>3, <1>11, <1>12 DEF IInv, Idle

LEMMA AddHandleStep ==
    ASSUME IInv, NEW key \in Key, Resolves(state, key), AddHandle(key)
    PROVE  IInv' /\ Idle
<1>0. Sound(state, held, tokens) /\ AllNeeded(state)
    BY DEF IInv
<1>1. /\ state' = [state EXCEPT !.nodes[key.slot].handles = @ + 1]
      /\ held' = With(held, key) /\ tokens' = tokens
    BY DEF AddHandle, Hold, With
<1>2. /\ Sound(state', held', tokens) /\ AllNeeded(state') /\ SameBooks(state, state')
      /\ state'.poisoned = state.poisoned /\ state'.anchored = state.anchored
    BY <1>0, <1>1, AddHandleKeeps
<1>3. SameRoot(state, state')
    BY <1>2, SameBooksIsIdle
<1> QED BY <1>1, <1>2, <1>3 DEF IInv, Idle

LEMMA CloneStep ==
    ASSUME IInv, NEW key \in BagToSet(held), Clone(key)
    PROVE  IInv' /\ Idle
<1>1. key \in Key /\ Resolves(state, key)
    BY HeldResolves DEF IInv
<1> QED BY <1>1, AddHandleStep DEF Clone

LEMMA AccountForRecordStep ==
    ASSUME IInv, NEW t \in tokens, AccountForRecord(t)
    PROVE  IInv' /\ Idle
<1>1. PICK leaf, r : leaf = state.records[r].leaf /\ r = t.slot
    OBVIOUS
<1>2. leaf \in Key /\ Resolves(state, leaf)
    BY <1>1, CreditIs DEF IInv, CreditFacts
<1>3. AddHandle(leaf)
    BY <1>1 DEF AccountForRecord
<1> QED BY <1>2, <1>3, AddHandleStep

LEMMA DropHandleStep ==
    ASSUME IInv, NEW key \in BagToSet(held), DropHandle(key)
    PROVE  IInv' /\ Idle
<1>0. Sound(state, held, tokens) /\ AllNeeded(state) /\ ~ state.poisoned
    BY DEF IInv, Sound
<1>1. state' = AfterDrop(state, key) /\ held' = Without(held, key) /\ tokens' = tokens
    BY <1>0 DEF DropHandle, Without
<1>2. key \in DOMAIN held
    BY DEF BagToSet
<1>3. Sound(state', held', tokens) /\ AllNeeded(state') /\ SameRoot(state, state')
    BY <1>0, <1>1, <1>2, DropKeeps
<1> QED BY <1>1, <1>3 DEF IInv, Idle

(* A batch is admitted: no check of reserve_into finds the ledger corrupt. *)
Admitted(leaf, charges) ==
    /\ Len(charges) <= Len(state.free_records) /\ HasRoom(state, leaf, charges)
    /\ 0 \in OnPath(state, leaf)
    /\ state.next_owner + Len(charges) <= MaxOwner
    /\ TopFacts(state, Len(charges)) /\ AdmitStep(state, state', leaf, charges)
    /\ tokens' = tokens \cup NewTokens(state', state.next_owner)

LEMMA ReserveIntoStep ==
    ASSUME IInv, NEW leaf \in BagToSet(held), NEW charges \in Batches, ReserveInto(leaf, charges)
    PROVE  IInv' /\ Admitted(leaf, charges)
<1>0. Sound(state, held, tokens) /\ AllNeeded(state)
    BY DEF IInv
<1>1. /\ state \in Ledger /\ FreeRecords(state) /\ RecordTotalIsSound(state) /\ Tree(state)
      /\ leaf \in Key /\ Resolves(state, leaf) /\ PathIsSound(state, leaf)
    BY <1>0, HeldResolves DEF Sound
<1>2. /\ Len(charges) <= Len(state.free_records) /\ HasRoom(state, leaf, charges)
      /\ state.next_owner + Len(charges) <= MaxOwner /\ held' = held
    BY DEF ReserveInto
<1>3. charges \in Seq(Vector) /\ Len(charges) \in 0..Len(state.free_records)
  <2>1. charges \in Seq(Vector) /\ Len(charges) \in Nat /\ Len(state.free_records) \in Nat
      BY <1>1, DomainAssumption DEF Ledger
  <2> QED BY <1>2, <2>1
<1>4. PICK n : n = Len(charges)
    OBVIOUS
<1>5. TopFacts(state, n)
    BY <1>1, <1>3, <1>4, TopIs
<1>6. /\ IsInjective(TopRecords(state, n))
      /\ \A s \in ToSet(TopRecords(state, n)) : state.records[s] = NoDomainRecord
    BY <1>5 DEF TopFacts, Taken, RecordsIn
<1>7. /\ state' = Admit(state, leaf, charges)
      /\ tokens' = tokens \cup NewTokens(state', state.next_owner)
    BY <1>1, <1>4, <1>6 DEF ReserveInto
<1>8. /\ Sound(state', held, tokens') /\ AllNeeded(state')
      /\ AdmitStep(state, state', leaf, charges)
    BY <1>0, <1>1, <1>2, <1>3, <1>7, AdmitKeeps
<1>9. 0 \in OnPath(state, leaf)
    BY <1>1, OnPathIsLive
<1> QED BY <1>2, <1>4, <1>5, <1>7, <1>8, <1>9 DEF IInv, Admitted

LEMMA RetainStep ==
    ASSUME IInv, NEW t \in tokens, Retain(t)
    PROVE  IInv' /\ Advanced(state, t, state', "Retained")
<1>1. /\ t.kind = "reservation" /\ state' = transition(state, t, "Retain") /\ held' = held
      /\ tokens' = AfterPhase(tokens, t, "Retained")
    BY DEF Retain, Perform, AfterPhase
<1>2. Advancing(t, "Retain", "Retained")
    BY <1>1 DEF Advancing
<1>3. Sound(state', held, tokens') /\ AllNeeded(state') /\ Advanced(state, t, state', "Retained")
    BY <1>1, <1>2, AdvanceKeeps DEF IInv
<1> QED BY <1>1, <1>3 DEF IInv

LEMMA QuarantineStep ==
    ASSUME IInv, NEW t \in tokens, Quarantine(t)
    PROVE  IInv' /\ Advanced(state, t, state', "Quarantined")
<1>1. /\ t.kind = "retained" /\ state' = transition(state, t, "Quarantine") /\ held' = held
      /\ tokens' = AfterPhase(tokens, t, "Quarantined")
    BY DEF Quarantine, Perform, Consume, AfterPhase
<1>2. Advancing(t, "Quarantine", "Quarantined")
    BY <1>1 DEF Advancing
<1>3. Sound(state', held, tokens') /\ AllNeeded(state') /\ Advanced(state, t, state', "Quarantined")
    BY <1>1, <1>2, AdvanceKeeps DEF IInv
<1> QED BY <1>1, <1>3 DEF IInv

LEMMA CancelUnissuedStep ==
    ASSUME IInv, NEW t \in tokens, CancelUnissued(t)
    PROVE  IInv' /\ Released(state, t, state')
<1>1. /\ t.kind = "reservation" /\ state' = transition(state, t, "CancelUnissued")
      /\ held' = held /\ tokens' = tokens \ {t}
    BY DEF CancelUnissued, Perform, Consume
<1>2. Releasing(t, "CancelUnissued")
    BY <1>1 DEF Releasing
<1>3. Sound(state', held, tokens') /\ AllNeeded(state') /\ Released(state, t, state')
    BY <1>1, <1>2, ReleasingKeeps DEF IInv
<1> QED BY <1>1, <1>3 DEF IInv

LEMMA ReleaseStep ==
    ASSUME IInv, NEW t \in tokens, Release(t)
    PROVE  IInv' /\ Released(state, t, state')
<1>1. PICK action \in {"ReleaseRejected", "ReleaseDisposed"} :
        /\ t.kind = "retained" /\ state' = transition(state, t, action)
        /\ held' = held /\ tokens' = tokens \ {t}
    BY DEF Release, Perform, Consume
<1>2. Releasing(t, action)
    BY <1>1 DEF Releasing
<1>3. Sound(state', held, tokens') /\ AllNeeded(state') /\ Released(state, t, state')
    BY <1>1, <1>2, ReleasingKeeps DEF IInv
<1> QED BY <1>1, <1>3 DEF IInv

LEMMA NextIInv ==
    ASSUME IInv, [Next]_vars
    PROVE  IInv'
<1>1. ASSUME NEW key \in BagToSet(held), NEW shape \in Shapes, NewChild(key, shape)
      PROVE  IInv'
    BY <1>1, NewChildStep
<1>2. ASSUME NEW key \in BagToSet(held), NEW charges \in Batches, ReserveInto(key, charges)
      PROVE  IInv'
    BY <1>2, ReserveIntoStep
<1>3. ASSUME NEW key \in BagToSet(held), Clone(key)
      PROVE  IInv'
    BY <1>3, CloneStep
<1>4. ASSUME NEW key \in BagToSet(held), DropHandle(key)
      PROVE  IInv'
    BY <1>4, DropHandleStep
<1>5. ASSUME NEW t \in tokens, Retain(t)
      PROVE  IInv'
    BY <1>5, RetainStep
<1>6. ASSUME NEW t \in tokens, CancelUnissued(t)
      PROVE  IInv'
    BY <1>6, CancelUnissuedStep
<1>7. ASSUME NEW t \in tokens, Release(t)
      PROVE  IInv'
    BY <1>7, ReleaseStep
<1>8. ASSUME NEW t \in tokens, Quarantine(t)
      PROVE  IInv'
    BY <1>8, QuarantineStep
<1>9. ASSUME NEW t \in tokens, AccountForRecord(t)
      PROVE  IInv'
    BY <1>9, AccountForRecordStep
<1>10. CASE UNCHANGED vars
    BY <1>10 DEF IInv, vars
<1> QED BY <1>1, <1>2, <1>3, <1>4, <1>5, <1>6, <1>7, <1>8, <1>9, <1>10 DEF Next

(* Every operation of the hierarchical account (new_child, clone and drop  *)
(* of a handle, reserve_into, Root::transition with the retirement of      *)
(* domains) keeps the tree, the free lists, the counts and the charges of  *)
(* all levels in agreement.                                                *)
THEOREM Invariance == Spec => []IInv
<1>1. Init => IInv
    BY InitIInv
<1>2. IInv /\ [Next]_vars => IInv'
    BY NextIInv
<1> QED BY <1>1, <1>2, PTL DEF Spec

(***************************************************************************)
(* What the invariant says in the terms of the properties.                 *)
(***************************************************************************)
LEMMA SeenIs ==
    /\ Domains = LiveIn(state) /\ Records = RecordsIn(state) /\ Credits = CreditsIn(state)
    /\ \A s : Below(s) = Under(state, s)
BY DEF Domains, LiveIn, Records, RecordsIn, Credits, CreditsIn, Below, Under

LEMMA AccountVectors ==
    ASSUME NEW u, NEW v
    PROVE  /\ Account!Zero = Zero /\ Account!Plus(u, v) = Plus(u, v)
           /\ Account!Minus(u, v) = Minus(u, v)
           /\ Account!Slot = RecordSlot /\ Account!NoRecord = NoRecord /\ Account!Phase = Phase
BY DEF Account!Zero, Zero, Account!Plus, Plus, Account!Minus, Minus, Account!Slot, RecordSlot,
       Account!NoRecord, NoRecord, Account!Phase, Phase

LEMMA AccountTotal ==
    ASSUME NEW charges
    PROVE  Account!Total(charges) = Total(charges)
BY Zenon DEF Account!Total, Total, Account!Zero, Zero, Account!Plus, Plus

LEMMA AccountCharge ==
    ASSUME NEW records, NEW slots
    PROVE  Account!ChargeOf(records, slots) = ChargeOf(records, slots)
<1>1. Account!Zero = Zero
    BY AccountVectors
<1>2. Account!ChargeOf(records, slots) = Account!Total(
        [i \in 1..MaxRecords |-> IF i - 1 \in slots THEN records[i - 1].charge ELSE Zero])
    BY <1>1, Zenon DEF Account!ChargeOf
<1> QED BY <1>2, AccountTotal, Zenon DEF ChargeOf

LEMMA AccountCardinality ==
    ASSUME NEW S
    PROVE  Account!Cardinality(S) = Cardinality(S)
BY Zenon DEF Account!Cardinality, Cardinality

LEMMA LiveCredits ==
    ASSUME NEW l \in Ledger, Owned(l), NEW r \in RecordSlot
    PROVE  /\ CreditsIn(l)[r] = l.records[r].credit
           /\ CreditsIn(l)[r] # NoRecord <=> r \in RecordsIn(l)
<1>1. CreditsIn(l)[r] = l.records[r].credit
    BY DEF CreditsIn
<1>2. ASSUME r \in RecordsIn(l)
      PROVE  l.records[r].credit # NoRecord
  <2>1. l.records[r].credit.owner \in 1..(l.next_owner - 1) /\ l.next_owner \in Nat
      BY <1>2 DEF Owned, Ledger
  <2> QED BY <2>1, NoRecordIs
<1>3. ASSUME r \notin RecordsIn(l)
      PROVE  l.records[r].credit = NoRecord
    BY <1>3, NoRecordIs DEF RecordsIn
<1> QED BY <1>1, <1>2, <1>3

LEMMA CreditsAreCharged ==
    ASSUME NEW l \in Ledger
    PROVE  Charged(CreditsIn(l))
<1>1. ASSUME NEW r \in RecordSlot
      PROVE  l.records[r].credit.charge \in Vector
  <2>1. l.records[r] \in DomainRecord
      BY DEF Ledger
  <2>2. l.records[r].credit \in Credit
      BY <2>1 DEF DomainRecord
  <2> QED BY <2>2 DEF Credit
<1> QED BY <1>1 DEF Charged, CreditsIn

LEMMA RootAccountIs ==
    /\ RootAccount.used = Minus(state.nodes[0].used, Baseline)
    /\ RootAccount.records = CreditsIn(state) /\ RootAccount.free = state.free_records
    /\ RootAccount.next_owner = state.next_owner /\ RootAccount.counts = state.nodes[0].counts
    /\ RootAccount.poisoned = state.poisoned /\ RootAccount.anchored = state.anchored
BY SeenIs DEF RootAccount

LEMMA AccountLive ==
    ASSUME IInv
    PROVE  Account!Live = RecordsIn(state)
<1>1. state \in Ledger /\ Owned(state)
    BY DEF IInv, Sound
<1>2. Account!Live = {r \in RecordSlot : CreditsIn(state)[r] # NoRecord}
    BY AccountVectors, RootAccountIs DEF Account!Live
<1>3. RecordsIn(state) \subseteq RecordSlot
    BY DEF RecordsIn
<1> QED BY <1>1, <1>2, <1>3, LiveCredits

LEMMA AccountConserved ==
    ASSUME IInv
    PROVE  Account!Conserved
<1>0. /\ state \in Ledger /\ Tree(state) /\ Owned(state) /\ Books(state) /\ Limits(state)
      /\ FreeRecords(state)
    BY DEF IInv, Sound
<1>1. 0 \in LiveIn(state) /\ Under(state, 0) = RecordsIn(state) /\ 0 \in DomainSlot
    BY <1>0, RootHasAll, Constants
<1>2. PICK c, u : c = ChargeOf(CreditsIn(state), RecordsIn(state)) /\ u = state.nodes[0].used
    OBVIOUS
<1>3. RecordsIn(state) \subseteq RecordSlot
    BY DEF RecordsIn
<1>4. c \in Vector /\ u \in Vector /\ Baseline \in Vector /\ Capacity \in Vector
    BY <1>0, <1>1, <1>2, <1>3, CreditsAreCharged, ChargeType, NodeTypes, DomainAssumption
<1>5. u = Plus(Baseline, c)
    BY <1>0, <1>1, <1>2 DEF Books, Base
<1>6. Minus(u, Baseline) = c
    BY <1>4, <1>5, VectorArithmetic
<1>7. Account!ChargeOf(RootAccount.records, Account!Live) = c
    BY <1>2, AccountCharge, AccountLive, RootAccountIs
<1>8. \A k \in Kind : c[k] <= Minus(Capacity, Baseline)[k]
  <2> SUFFICES ASSUME NEW k \in Kind
               PROVE  c[k] <= Minus(Capacity, Baseline)[k]
      OBVIOUS
  <2>1. u[k] <= Capacity[k]
      BY <1>0, <1>1, <1>2 DEF Limits
  <2>2. u[k] = Baseline[k] + c[k] /\ Minus(Capacity, Baseline)[k] = Capacity[k] - Baseline[k]
      BY <1>5 DEF Plus, Minus
  <2>3. u[k] \in Nat /\ c[k] \in Nat /\ Baseline[k] \in Nat /\ Capacity[k] \in Nat
      BY <1>4 DEF Vector
  <2> QED BY <2>1, <2>2, <2>3
<1>9. \A p \in Phase : state.nodes[0].counts[p] =
        Cardinality({s \in RecordsIn(state) : RootAccount.records[s].phase = p})
  <2>1. \A p : InPhase(state, 0, p) =
                  {s \in RecordsIn(state) : RootAccount.records[s].phase = p}
      BY <1>1, <1>3, RootAccountIs DEF InPhase, CreditsIn
  <2> QED BY <1>0, <1>1, <2>1 DEF Books
<1>10. IsInjective(state.free_records) /\ ToSet(state.free_records) = RecordSlot \ RecordsIn(state)
    BY <1>0 DEF FreeRecords
<1>11. Account!IsInjective(state.free_records) /\ Account!ToSet(state.free_records) = ToSet(state.free_records)
    BY <1>10 DEF Account!IsInjective, IsInjective, Account!ToSet, ToSet
<1>12. RootAccount.used = c /\ RootAccount.free = state.free_records
    BY <1>2, <1>6, RootAccountIs
<1>13. \A p \in Phase : RootAccount.counts[p] =
        Cardinality({s \in RecordsIn(state) : RootAccount.records[s].phase = p})
    BY <1>9, RootAccountIs
<1>14. Account!Phase = Phase /\ Account!Slot = RecordSlot /\ Account!Live = RecordsIn(state)
    BY AccountLive, AccountVectors
<1>15. Account!Conserved <=>
        /\ RootAccount.used = Account!ChargeOf(RootAccount.records, RecordsIn(state))
        /\ \A k \in Kind : RootAccount.used[k] <= Minus(Capacity, Baseline)[k]
        /\ \A p \in Phase : RootAccount.counts[p] =
              Account!Cardinality({s \in RecordsIn(state) : RootAccount.records[s].phase = p})
        /\ Account!IsInjective(RootAccount.free)
        /\ Account!ToSet(RootAccount.free) = RecordSlot \ RecordsIn(state)
    BY <1>14, Zenon DEF Account!Conserved
<1>16. \A p \in Phase : RootAccount.counts[p] =
        Account!Cardinality({s \in RecordsIn(state) : RootAccount.records[s].phase = p})
    BY <1>13, AccountCardinality
<1> QED BY <1>7, <1>8, <1>10, <1>11, <1>12, <1>14, <1>15, <1>16

LEMMA IInvConserved ==
    IInv => Conserved
<1> SUFFICES ASSUME IInv
             PROVE  Conserved
    OBVIOUS
<1>0. /\ state \in Ledger /\ ~ state.poisoned /\ Tree(state) /\ Owned(state) /\ Books(state)
      /\ Limits(state)
    BY DEF IInv, Sound
<1>1. ASSUME NEW s \in LiveIn(state)
      PROVE  /\ state.nodes[s].used = Plus(IF s = 0 THEN Baseline ELSE Zero,
                                           ChargeOf(Credits, Below(s)))
             /\ \A k \in Kind : state.nodes[s].used[k] <= state.nodes[s].capacity[k]
             /\ \A p \in Phase : state.nodes[s].counts[p] =
                    Cardinality({r \in Below(s) : Credits[r].phase = p})
             /\ Cardinality(Below(s)) <= state.nodes[s].record_limit
  <2>1. /\ state.nodes[s].used = Plus(IF s = 0 THEN Baseline ELSE Zero,
                                      ChargeOf(Credits, Below(s)))
        /\ \A k \in Kind : state.nodes[s].used[k] <= state.nodes[s].capacity[k]
      BY <1>0, SeenIs DEF Books, Limits, Base
  <2>2. \A p : InPhase(state, s, p) = {r \in Below(s) : Credits[r].phase = p}
      BY SeenIs DEF InPhase, Credits, Under, RecordsIn
  <2>3. Cardinality(Below(s)) <= state.nodes[s].record_limit
      BY <1>0, OccupiedIs, SeenIs DEF Limits
  <2> QED BY <1>0, <2>1, <2>2, <2>3 DEF Books
<1> QED BY <1>0, <1>1, AccountConserved, SeenIs DEF Conserved

LEMMA AccountTokens ==
    ASSUME IInv
    PROVE  Account!EveryChargeHasItsToken
<1>0. state \in Ledger /\ Owned(state) /\ Tokens(state, tokens)
    BY DEF IInv, Sound
<1>1. PICK R, C : R = RecordsIn(state) /\ C = RootAccount.records
    OBVIOUS
<1>2. R \subseteq RecordSlot /\ Account!Live = R /\ \A r \in RecordSlot : C[r] = state.records[r].credit
    BY <1>1, AccountLive, RootAccountIs DEF RecordsIn, CreditsIn
<1>3. ASSUME NEW s \in R, C[s].phase # "Quarantined"
      PROVE  Account!Cardinality({t \in tokens : t.slot = s}) = 1
  <2>1. PICK x \in tokens : x.slot = s
      BY <1>0, <1>1, <1>2, <1>3 DEF Tokens
  <2>2. {t \in tokens : t.slot = s} = {x}
      BY <1>0, <2>1, OneToken
  <2>3. Cardinality({x}) = 1
      BY FS_Singleton
  <2> QED BY <2>2, <2>3, AccountCardinality
<1>4. ASSUME NEW t \in tokens
      PROVE  /\ C[t.slot].owner = t.owner
             /\ C[t.slot].phase = IF t.kind = "reservation" THEN "Reserved" ELSE "Retained"
    BY <1>0, <1>2 DEF Tokens, Token
<1>5. ASSUME NEW s \in R, NEW r \in R, s # r
      PROVE  C[s].owner # C[r].owner
    BY <1>0, <1>1, <1>2, <1>5 DEF Owned
<1>6. Account!EveryChargeHasItsToken <=>
        /\ \A s \in R : C[s].phase # "Quarantined" =>
              Account!Cardinality({t \in tokens : t.slot = s}) = 1
        /\ \A t \in tokens :
              /\ C[t.slot].owner = t.owner
              /\ C[t.slot].phase = IF t.kind = "reservation" THEN "Reserved" ELSE "Retained"
        /\ \A s, r \in R : s # r => C[s].owner # C[r].owner
    BY <1>1, <1>2, ZenonT(60) DEF Account!EveryChargeHasItsToken
<1> QED BY <1>3, <1>4, <1>5, <1>6

LEMMA IInvNothingDangles ==
    IInv => NothingDangles
<1> SUFFICES ASSUME IInv
             PROVE  NothingDangles
    OBVIOUS
<1>0. /\ Sound(state, held, tokens) /\ Tree(state) /\ Handles(state, held) /\ Owned(state)
    BY DEF IInv, Sound
<1>1. ASSUME NEW key \in BagToSet(held)
      PROVE  PathIsSound(state, key) /\ state.nodes[key.slot].handles = held[key]
  <2>1. key \in DOMAIN held /\ Resolves(state, key) /\ PathIsSound(state, key)
      BY <1>0, HeldResolves
  <2>2. key.slot \in LiveIn(state) /\ state.nodes[key.slot].key = key
      BY <1>0, <2>1, ResolvesIsLive
  <2> QED BY <1>0, <2>1, <2>2 DEF Handles, Copies
<1>2. ASSUME NEW r \in Records
      PROVE  PathIsSound(state, state.records[r].leaf)
  <2>1. Resolves(state, state.records[r].leaf)
      BY <1>0, SeenIs DEF Owned
  <2> QED BY <1>0, <2>1, OnPathIsLive
<1> QED BY <1>1, <1>2, AccountTokens DEF NothingDangles

LEMMA IInvRetiredExactly ==
    IInv => RetiredExactly
<1> SUFFICES ASSUME IInv
             PROVE  RetiredExactly
    OBVIOUS
<1>0. /\ state \in Ledger /\ Tree(state) /\ Handles(state, held) /\ Family(state) /\ FreeNodes(state)
      /\ AllNeeded(state)
    BY DEF IInv, Sound
<1>1. ASSUME NEW s \in LiveIn(state) \ {0}
      PROVE  \/ BagIn(state.nodes[s].key, held) \/ state.nodes[s].children > 0
             \/ Below(s) # {}
  <2>1. Needed(state, s)
      BY <1>0 DEF AllNeeded
  <2>2. CASE state.nodes[s].handles > 0
    <3>1. Copies(held, state.nodes[s].key) > 0
        BY <1>0, <2>2 DEF Handles
    <3>2. state.nodes[s].key \in DOMAIN held
        BY <3>1 DEF Copies
    <3> QED BY <3>2 DEF BagIn, BagToSet
  <2> QED BY <2>1, <2>2, SeenIs DEF Needed
<1>2. ASSUME NEW s \in LiveIn(state)
      PROVE  state.nodes[s].children =
                Cardinality({d \in LiveIn(state) : state.nodes[d].parent = state.nodes[s].key})
    BY <1>0 DEF Family, ChildrenIn
<1>3. IsInjective(state.free_nodes) /\ ToSet(state.free_nodes) = DomainSlot \ LiveIn(state)
    BY <1>0 DEF FreeNodes
<1> QED BY <1>1, <1>2, <1>3, SeenIs DEF RetiredExactly

(* At every level the ledger shows the charges of exactly the records      *)
(* below it, within that level's capacity and record limit, and none of    *)
(* the checks by which reserve_into, Root::transition and drop find the    *)
(* ledger corrupt ever fails, for every tree, roster and order of calls.   *)
THEOREM ConservedHolds == Spec => []Conserved
BY Invariance, IInvConserved, PTL

(* A live handle, record or token finds its own domain and record, and the *)
(* way to the root, however often slots were used again; a charge that is  *)
(* not quarantined has exactly one token (node, domain_path_v1).           *)
THEOREM NothingDanglesHolds == Spec => []NothingDangles
BY Invariance, IInvNothingDangles, PTL

(* plan_reap and commit_reap retire a domain with its last handle, child   *)
(* and record, neither earlier nor later, whichever of the three goes last *)
(* and however many ancestors go with it; freed slots are listed once.     *)
THEOREM RetiredExactlyHolds == Spec => []RetiredExactly
BY Invariance, IInvRetiredExactly, PTL

(***************************************************************************)
(* The account at the root.                                                *)
(***************************************************************************)
Acc(used, records, free, next_owner, counts, poisoned, anchored) ==
    [used |-> used, records |-> records, free |-> free, next_owner |-> next_owner,
     counts |-> counts, poisoned |-> poisoned, anchored |-> anchored]

RootOf(l) ==
    Acc(Minus(l.nodes[0].used, Baseline), CreditsIn(l), l.free_records, l.next_owner,
        l.nodes[0].counts, l.poisoned, l.anchored)

LEMMA RootAccountOf ==
    RootAccount = RootOf(state) /\ RootAccount' = RootOf(state')
<1>1. Credits = CreditsIn(state) /\ Credits' = CreditsIn(state')
    BY DEF Credits, CreditsIn
<1> QED BY <1>1 DEF RootAccount, RootOf, Acc

LEMMA AccIs ==
    ASSUME NEW u, NEW r, NEW f, NEW n, NEW c, NEW p, NEW q, NEW a, a = Acc(u, r, f, n, c, p, q)
    PROVE  /\ a.used = u /\ a.records = r /\ a.free = f /\ a.next_owner = n /\ a.counts = c
           /\ a.poisoned = p /\ a.anchored = q
BY DEF Acc

Fields == {"used", "records", "free", "next_owner", "counts", "poisoned", "anchored"}

LEMMA AccFields ==
    ASSUME NEW u, NEW r, NEW f, NEW n, NEW c, NEW p, NEW q, NEW a, a = Acc(u, r, f, n, c, p, q)
    PROVE  DOMAIN a = Fields /\ a = [i \in Fields |-> a[i]]
<1>1. a = [i \in Fields |-> a[i]]
    BY Zenon DEF Acc, Fields
<1> QED BY <1>1

LEMMA AccEquals ==
    ASSUME NEW u, NEW r, NEW f, NEW n, NEW c, NEW p, NEW q, NEW x, x = [i \in Fields |-> x[i]],
           x.used = u, x.records = r, x.free = f, x.next_owner = n, x.counts = c,
           x.poisoned = p, x.anchored = q
    PROVE  x = Acc(u, r, f, n, c, p, q)
<1>1. PICK a : a = Acc(u, r, f, n, c, p, q)
    OBVIOUS
<1>2. a = [i \in Fields |-> a[i]]
    BY <1>1, AccFields
<1>3. \A i \in Fields : x[i] = a[i]
    BY <1>1, AccIs DEF Fields
<1>4. x = a
    BY <1>2, <1>3
<1> QED BY <1>1, <1>4

LEMMA RootOfIs ==
    ASSUME NEW l, NEW a, a = RootOf(l)
    PROVE  /\ a.used = Minus(l.nodes[0].used, Baseline) /\ a.records = CreditsIn(l)
           /\ a.free = l.free_records /\ a.next_owner = l.next_owner
           /\ a.counts = l.nodes[0].counts /\ a.poisoned = l.poisoned /\ a.anchored = l.anchored
BY DEF RootOf, Acc

LEMMA AccountSequences ==
    ASSUME NEW s
    PROVE  /\ Account!Front(s) = Front(s) /\ Account!Last(s) = Last(s)
           /\ Account!ToSet(s) = ToSet(s) /\ (Account!IsInjective(s) <=> IsInjective(s))
BY DEF Account!Front, Front, Account!Last, Last, Account!ToSet, ToSet,
       Account!IsInjective, IsInjective

(* One member of a batch, in the account. *)
LEMMA PlaceIs ==
    ASSUME NEW u, NEW r, NEW f, NEW n, NEW c, NEW p, NEW q, NEW charge
    PROVE  Account!Place(Acc(u, r, f, n, c, p, q), charge) =
              Acc(Plus(u, charge),
                  [r EXCEPT ![Last(f)] = [owner |-> n, charge |-> charge, phase |-> "Reserved"]],
                  Front(f), n + 1, [c EXCEPT !["Reserved"] = @ + 1], p, q)
<1>1. /\ Account!Front(f) = Front(f) /\ Account!Last(f) = Last(f)
      /\ Account!Plus(u, charge) = Plus(u, charge)
    BY AccountSequences, AccountVectors
<1>2. PICK a, new, x : /\ a = Acc(u, r, f, n, c, p, q)
                       /\ new = [owner |-> n, charge |-> charge, phase |-> "Reserved"]
                       /\ x = Account!Place(a, charge)
    OBVIOUS
<1>3. /\ a.used = u /\ a.records = r /\ a.free = f /\ a.next_owner = n /\ a.counts = c
      /\ a.poisoned = p /\ a.anchored = q /\ DOMAIN a = Fields
    BY <1>2, AccIs, AccFields
<1>4. x = [a EXCEPT !.free = Account!Front(@), !.records[Account!Last(a.free)] =
                        [owner |-> a.next_owner, charge |-> charge, phase |-> "Reserved"],
                    !.next_owner = @ + 1, !.used = Account!Plus(@, charge),
                    !.counts["Reserved"] = @ + 1]
    BY <1>2, Zenon DEF Account!Place
<1>5. x = [a EXCEPT !.free = Front(f), !.records[Last(f)] = new, !.next_owner = n + 1,
                    !.used = Plus(u, charge), !.counts["Reserved"] = c["Reserved"] + 1]
    BY <1>1, <1>2, <1>3, <1>4
<1>6. x = [i \in Fields |-> x[i]]
    BY <1>3, <1>5 DEF Fields
<1>7. /\ x.used = Plus(u, charge) /\ x.records = [r EXCEPT ![Last(f)] = new] /\ x.free = Front(f)
      /\ x.next_owner = n + 1 /\ x.counts = [c EXCEPT !["Reserved"] = c["Reserved"] + 1]
      /\ x.poisoned = p /\ x.anchored = q
    BY <1>3, <1>5 DEF Fields
<1>8. x = Acc(Plus(u, charge), [r EXCEPT ![Last(f)] = new], Front(f), n + 1,
              [c EXCEPT !["Reserved"] = c["Reserved"] + 1], p, q)
    BY <1>6, <1>7, AccEquals
<1> QED BY <1>2, <1>8

Placing(f, a, charges, n) ==
    f = [i \in 0..n |-> IF i = 0 THEN a ELSE Account!Place(f[i - 1], charges[i])]

LEMMA PlacingExists ==
    ASSUME NEW a, NEW charges
    PROVE  \A n \in Nat : \E f : Placing(f, a, charges, n)
<1> DEFINE S == {n \in Nat : \E f : Placing(f, a, charges, n)}
<1>1. 0 \in S
  <2> DEFINE f == [i \in 0..0 |-> a]
  <2>1. Placing(f, a, charges, 0)
      BY DEF Placing
  <2> QED BY <2>1
<1>2. ASSUME NEW n \in Nat, n \in S
      PROVE  n + 1 \in S
  <2>1. PICK f : Placing(f, a, charges, n)
      BY <1>2
  <2> DEFINE h == [i \in 0..(n + 1) |-> IF i <= n THEN f[i]
                                        ELSE Account!Place(f[n], charges[i])]
  <2>2. Placing(h, a, charges, n + 1)
      BY <2>1 DEF Placing
  <2> QED BY <2>2
<1> QED BY <1>1, <1>2, NatInductionSet

LEMMA PlaceAllIs ==
    ASSUME NEW a, NEW charges, Len(charges) \in Nat
    PROVE  \E f : /\ f[0] = a /\ Account!PlaceAll(a, charges) = f[Len(charges)]
                  /\ \A i \in 1..Len(charges) : f[i] = Account!Place(f[i - 1], charges[i])
<1> DEFINE n == Len(charges)
           f == CHOOSE h : Placing(h, a, charges, n)
<1>1. Placing(f, a, charges, n)
    BY PlacingExists
<1>2. Account!PlaceAll(a, charges) = f[n]
    BY DEF Account!PlaceAll, Placing
<1> HIDE DEF f
<1>3. f[0] = a /\ \A i \in 1..n : f[i] = Account!Place(f[i - 1], charges[i])
    BY <1>1 DEF Placing
<1> QED BY <1>2, <1>3

(* What the account shows after i members of a batch. *)
MidRecords(l, l2, i) ==
    [r \in RecordSlot |-> IF r \in Taken(l, i) THEN CreditsIn(l2)[r] ELSE CreditsIn(l)[r]]
MidCounts(l, i) ==
    [p \in Phase |-> l.nodes[0].counts[p] + (IF p = "Reserved" THEN i ELSE 0)]
Mid(l, l2, charges, i) ==
    Acc(Plus(Minus(l.nodes[0].used, Baseline), Total(SubSeq(charges, 1, i))), MidRecords(l, l2, i),
        Rest(l, i), l.next_owner + i, MidCounts(l, i), l.poisoned, l.anchored)

LEMMA RestIs ==
    ASSUME NEW l \in Ledger, NEW i \in Nat, i < Len(l.free_records)
    PROVE  Last(Rest(l, i)) = Top(l, i + 1) /\ Front(Rest(l, i)) = Rest(l, i + 1)
<1>1. PICK f, n : f = l.free_records /\ n = Len(f)
    OBVIOUS
<1>2. f \in Seq(RecordSlot) /\ n \in Nat /\ i < n
    BY <1>1 DEF Ledger
<1>3. PICK g : g = SubSeq(f, 1, n - i)
    OBVIOUS
<1>4. g \in Seq(RecordSlot) /\ Len(g) = n - i /\ \A j \in 1..(n - i) : g[j] = f[j]
    BY <1>1, <1>2, <1>3
<1>5. g[Len(g)] = f[n + 1 - (i + 1)]
    BY <1>2, <1>4
<1>6. SubSeq(g, 1, Len(g) - 1) = SubSeq(f, 1, n - (i + 1))
  <2>1. PICK a, b : a = SubSeq(g, 1, Len(g) - 1) /\ b = SubSeq(f, 1, n - (i + 1))
      OBVIOUS
  <2>2. a \in Seq(RecordSlot) /\ Len(a) = n - i - 1 /\ \A j \in 1..(n - i - 1) : a[j] = g[j]
      BY <1>2, <1>4, <2>1
  <2>3. b \in Seq(RecordSlot) /\ Len(b) = n - i - 1 /\ \A j \in 1..(n - i - 1) : b[j] = f[j]
      BY <1>1, <1>2, <2>1
  <2>4. \A j \in 1..(n - i - 1) : a[j] = b[j]
      BY <1>2, <1>4, <2>2, <2>3
  <2> QED BY <2>1, <2>2, <2>3, <2>4
<1> QED BY <1>1, <1>3, <1>5, <1>6 DEF Rest, Top, Last, Front

LEMMA TakenOneMore ==
    ASSUME NEW l, NEW i \in Nat
    PROVE  Taken(l, i + 1) = Taken(l, i) \cup {Top(l, i + 1)}
<1>1. 1..(i + 1) = (1..i) \cup {i + 1}
    OBVIOUS
<1> QED BY <1>1 DEF Taken

LEMMA RootUse ==
    ASSUME NEW l, NEW h, NEW t, Sound(l, h, t)
    PROVE  /\ Minus(l.nodes[0].used, Baseline) \in Vector
           /\ Minus(l.nodes[0].used, Baseline) = ChargeOf(CreditsIn(l), RecordsIn(l))
           /\ l.nodes[0].used = Plus(Baseline, ChargeOf(CreditsIn(l), RecordsIn(l)))
<1>0. l \in Ledger /\ Tree(l) /\ Owned(l) /\ Books(l)
    BY DEF Sound
<1>1. 0 \in LiveIn(l) /\ Under(l, 0) = RecordsIn(l)
    BY <1>0, RootHasAll
<1>2. PICK c : c = ChargeOf(CreditsIn(l), RecordsIn(l))
    OBVIOUS
<1>3. c \in Vector /\ Baseline \in Vector
    BY <1>0, <1>2, CreditsAreCharged, ChargeType, DomainAssumption
<1>4. l.nodes[0].used = Plus(Baseline, c)
    BY <1>0, <1>1, <1>2 DEF Books, Base
<1>5. Minus(Plus(Baseline, c), Baseline) = c
    BY <1>3, VectorArithmetic
<1> QED BY <1>2, <1>3, <1>4, <1>5

LEMMA MidStep ==
    ASSUME NEW l, NEW h, NEW t, Sound(l, h, t), NEW l2, NEW leaf, NEW charges \in Seq(Vector),
           NEW n, n = Len(charges), n <= Len(l.free_records), TopFacts(l, n),
           AdmitRecords(l, l2.records, leaf, charges), NEW i \in Nat, i < n
    PROVE  Account!Place(Mid(l, l2, charges, i), charges[i + 1]) = Mid(l, l2, charges, i + 1)
<1>0. l \in Ledger
    BY DEF Sound
<1>1. /\ n \in Nat /\ i + 1 \in 1..n /\ Len(l.free_records) \in Nat /\ i < Len(l.free_records)
      /\ l.next_owner \in Nat
    BY <1>0 DEF Ledger
<1>2. Last(Rest(l, i)) = Top(l, i + 1) /\ Front(Rest(l, i)) = Rest(l, i + 1)
    BY <1>0, <1>1, RestIs
<1>3. PICK top, charge : top = Top(l, i + 1) /\ charge = charges[i + 1]
    OBVIOUS
<1>4. top \in RecordSlot /\ charge \in Vector
    BY <1>1, <1>3 DEF TopFacts
<1>5. [MidRecords(l, l2, i) EXCEPT ![top] =
          [owner |-> l.next_owner + i, charge |-> charge, phase |-> "Reserved"]] =
        MidRecords(l, l2, i + 1)
  <2>1. l2.records[top].credit =
          [owner |-> l.next_owner + i, charge |-> charge, phase |-> "Reserved"]
    <3>1. l2.records[top] = Fresh(leaf, l.next_owner + (i + 1) - 1, charge)
        BY <1>1, <1>3 DEF AdmitRecords
    <3>2. l.next_owner + (i + 1) - 1 = l.next_owner + i
        BY <1>1
    <3> QED BY <3>1, <3>2 DEF Fresh
  <2>2. CreditsIn(l2)[top] = l2.records[top].credit
      BY <1>4 DEF CreditsIn
  <2>3. PICK a, b : a = MidRecords(l, l2, i) /\ b = MidRecords(l, l2, i + 1)
      OBVIOUS
  <2>4. /\ a = [r \in RecordSlot |-> IF r \in Taken(l, i) THEN CreditsIn(l2)[r] ELSE CreditsIn(l)[r]]
        /\ b = [r \in RecordSlot |->
                  IF r \in Taken(l, i) \cup {top} THEN CreditsIn(l2)[r] ELSE CreditsIn(l)[r]]
      BY <1>3, <2>3, TakenOneMore DEF MidRecords
  <2>5. b = [a EXCEPT ![top] = CreditsIn(l2)[top]]
      BY <1>4, <2>4
  <2> QED BY <2>1, <2>2, <2>3, <2>5
<1>6. [MidCounts(l, i) EXCEPT !["Reserved"] = @ + 1] = MidCounts(l, i + 1)
  <2>1. l.nodes[0].counts \in [Phase -> Nat] /\ "Reserved" \in Phase
      BY <1>0, NodeTypes, Constants DEF Phase
  <2>2. PICK c : c = l.nodes[0].counts
      OBVIOUS
  <2>3. c \in [Phase -> Nat]
      BY <2>1, <2>2
  <2>4. MidCounts(l, i) = [p \in Phase |-> c[p] + (IF p = "Reserved" THEN i ELSE 0)]
      BY <2>2 DEF MidCounts
  <2>5. MidCounts(l, i + 1) = [p \in Phase |-> c[p] + (IF p = "Reserved" THEN i + 1 ELSE 0)]
      BY <2>2 DEF MidCounts
  <2>6. PICK a : a = MidCounts(l, i)
      OBVIOUS
  <2>7. a["Reserved"] + 1 = c["Reserved"] + (i + 1)
      BY <2>1, <2>3, <2>4, <2>6
  <2>8. [a EXCEPT !["Reserved"] = @ + 1] =
          [p \in Phase |-> IF p = "Reserved" THEN c["Reserved"] + (i + 1) ELSE a[p]]
      BY <2>4, <2>6, <2>7
  <2>9. \A p \in Phase : (IF p = "Reserved" THEN c["Reserved"] + (i + 1) ELSE a[p]) =
                           c[p] + (IF p = "Reserved" THEN i + 1 ELSE 0)
      BY <2>3, <2>4, <2>6
  <2> QED BY <2>5, <2>6, <2>8, <2>9
<1>7. PICK u, b, c : /\ u = Minus(l.nodes[0].used, Baseline) /\ b = Total(SubSeq(charges, 1, i))
                     /\ c = Total(SubSeq(charges, 1, i + 1))
    OBVIOUS
<1>8. Plus(Plus(u, b), charge) = Plus(u, c)
  <2>1. c = Plus(b, charge)
      BY <1>1, <1>3, <1>7, TotalOfOneMore
  <2>2. b \in Vector
    <3>1. SubSeq(charges, 1, i) \in Seq(Vector)
        BY <1>1
    <3> QED BY <1>7, <3>1, TotalType
  <2>3. u \in Vector
      BY <1>7, RootUse
  <2> QED BY <1>4, <2>1, <2>2, <2>3, PlusAssociative
<1>9. Account!Place(Mid(l, l2, charges, i), charge) =
        Acc(Plus(Plus(u, b), charge),
            [MidRecords(l, l2, i) EXCEPT ![Last(Rest(l, i))] =
                [owner |-> l.next_owner + i, charge |-> charge, phase |-> "Reserved"]],
            Front(Rest(l, i)), l.next_owner + i + 1,
            [MidCounts(l, i) EXCEPT !["Reserved"] = @ + 1], l.poisoned, l.anchored)
    BY <1>7, PlaceIs DEF Mid
<1>10. l.next_owner + i + 1 = l.next_owner + (i + 1)
    BY <1>1
<1> QED BY <1>2, <1>3, <1>5, <1>6, <1>7, <1>8, <1>9, <1>10 DEF Mid

LEMMA PlacedIs ==
    ASSUME NEW l, NEW h, NEW t, Sound(l, h, t), NEW l2 \in Ledger, NEW leaf,
           NEW charges \in Seq(Vector), NEW n, n = Len(charges), n <= Len(l.free_records),
           TopFacts(l, n), AdmitStep(l, l2, leaf, charges), 0 \in OnPath(l, leaf)
    PROVE  RootOf(l2) = Account!PlaceAll(RootOf(l), charges)
<1>0. l \in Ledger /\ n \in Nat /\ Len(l.free_records) \in Nat /\ l.next_owner \in Nat
    BY DEF Sound, Ledger
<1>1. /\ AdmitNodes(l, l2.nodes, leaf, charges) /\ AdmitRecords(l, l2.records, leaf, charges)
      /\ l2.free_records = Rest(l, n) /\ l2.next_owner = l.next_owner + n
      /\ l2.poisoned = l.poisoned /\ l2.anchored = l.anchored
    BY DEF AdmitStep
<1>2. PICK f : /\ f[0] = RootOf(l) /\ Account!PlaceAll(RootOf(l), charges) = f[n]
               /\ \A i \in 1..n : f[i] = Account!Place(f[i - 1], charges[i])
    BY <1>0, PlaceAllIs
<1>3. PICK u, c : u = Minus(l.nodes[0].used, Baseline) /\ c = l.nodes[0].counts
    OBVIOUS
<1>4. u \in Vector /\ c \in [Phase -> Nat] /\ l.nodes[0].used \in Vector /\ Baseline \in Vector
    BY <1>0, <1>3, RootUse, NodeTypes, Constants, DomainAssumption
<1>5. f[0] = Mid(l, l2, charges, 0)
  <2>1. Total(SubSeq(charges, 1, 0)) = Zero
    <3>1. PICK s : s = SubSeq(charges, 1, 0)
        OBVIOUS
    <3>2. s \in Seq(Vector) /\ Len(s) = 0 /\ \A i \in 1..Len(s) : s[i] = Zero
        BY <3>1
    <3>3. Total(s) = Zero
        BY <3>2, TotalOfNothing
    <3> QED BY <3>1, <3>3
  <2>2. Plus(u, Zero) = u
      BY <1>4, VectorArithmetic
  <2>3. MidRecords(l, l2, 0) = CreditsIn(l)
    <3>1. Taken(l, 0) = {}
        BY DEF Taken
    <3>2. CreditsIn(l) = [r \in RecordSlot |-> CreditsIn(l)[r]]
        BY DEF CreditsIn
    <3>3. MidRecords(l, l2, 0) = [r \in RecordSlot |-> CreditsIn(l)[r]]
        BY <3>1 DEF MidRecords
    <3> QED BY <3>2, <3>3
  <2>4. Rest(l, 0) = l.free_records
      BY <1>0 DEF Rest, Ledger
  <2>5. MidCounts(l, 0) = c
    <3>1. MidCounts(l, 0) = [p \in Phase |-> c[p] + (IF p = "Reserved" THEN 0 ELSE 0)]
        BY <1>3 DEF MidCounts
    <3>2. \A p \in Phase : c[p] + (IF p = "Reserved" THEN 0 ELSE 0) = c[p]
        BY <1>4
    <3> QED BY <1>4, <3>1, <3>2
  <2>6. l.next_owner + 0 = l.next_owner
      BY <1>0
  <2> QED BY <1>2, <1>3, <2>1, <2>2, <2>3, <2>4, <2>5, <2>6 DEF Mid, RootOf
<1>6. \A i \in Nat : i <= n => f[i] = Mid(l, l2, charges, i)
  <2> DEFINE S == {i \in Nat : i <= n => f[i] = Mid(l, l2, charges, i)}
  <2>1. 0 \in S
      BY <1>5
  <2>2. ASSUME NEW i \in Nat, i \in S
        PROVE  i + 1 \in S
    <3> SUFFICES ASSUME i + 1 <= n
                 PROVE  f[i + 1] = Mid(l, l2, charges, i + 1)
        OBVIOUS
    <3>1. i < n /\ i + 1 \in 1..n /\ (i + 1) - 1 = i
        BY <1>0
    <3>2. f[i] = Mid(l, l2, charges, i)
        BY <2>2, <3>1
    <3>3. f[i + 1] = Account!Place(f[i], charges[i + 1])
        BY <1>2, <3>1
    <3>4. Account!Place(Mid(l, l2, charges, i), charges[i + 1]) = Mid(l, l2, charges, i + 1)
        BY <1>1, <3>1, MidStep
    <3> QED BY <3>2, <3>3, <3>4
  <2> QED BY <2>1, <2>2, NatInductionSet
<1>7. Mid(l, l2, charges, n) = RootOf(l2)
  <2>1. SubSeq(charges, 1, n) = charges
      OBVIOUS
  <2>2. PICK v, d : v = Total(charges) /\ d = l2.nodes[0].used
      OBVIOUS
  <2>3. v \in Vector /\ d = Plus(l.nodes[0].used, v)
      BY <1>1, <2>2, TotalType, Constants DEF AdmitNodes
  <2>4. Plus(u, v) = Minus(d, Baseline)
    <3>1. PICK w : w = l.nodes[0].used
        OBVIOUS
    <3>2. \A k \in Kind : (w[k] - Baseline[k]) + v[k] = (w[k] + v[k]) - Baseline[k]
        BY <1>4, <2>3, <3>1 DEF Vector
    <3>3. Plus(u, v) = [k \in Kind |-> (w[k] - Baseline[k]) + v[k]]
        BY <1>3, <3>1 DEF Plus, Minus
    <3>4. Minus(d, Baseline) = [k \in Kind |-> (w[k] + v[k]) - Baseline[k]]
        BY <2>3, <3>1 DEF Plus, Minus
    <3> QED BY <3>2, <3>3, <3>4
  <2>5. MidRecords(l, l2, n) = CreditsIn(l2)
    <3>1. \A r \in RecordSlot : r \notin Taken(l, n) => CreditsIn(l2)[r] = CreditsIn(l)[r]
        BY <1>1 DEF AdmitRecords, CreditsIn
    <3>2. CreditsIn(l2) = [r \in RecordSlot |-> CreditsIn(l2)[r]]
        BY DEF CreditsIn
    <3>3. MidRecords(l, l2, n) = [r \in RecordSlot |-> CreditsIn(l2)[r]]
        BY <3>1 DEF MidRecords
    <3> QED BY <3>2, <3>3
  <2>6. MidCounts(l, n) = l2.nodes[0].counts
    <3>1. PICK e : e = l2.nodes[0].counts
        OBVIOUS
    <3>2. \A p \in Phase : e[p] = c[p] + (IF p = "Reserved" THEN n ELSE 0)
        BY <1>1, <1>3, <3>1, Constants DEF AdmitNodes
    <3>3. e \in [Phase -> Nat]
        BY <3>1, NodeTypes, Constants
    <3>4. MidCounts(l, n) = [p \in Phase |-> c[p] + (IF p = "Reserved" THEN n ELSE 0)]
        BY <1>3 DEF MidCounts
    <3> QED BY <3>1, <3>2, <3>3, <3>4
  <2> QED BY <1>1, <1>3, <2>1, <2>2, <2>4, <2>5, <2>6 DEF Mid, RootOf
<1> QED BY <1>0, <1>2, <1>6, <1>7

(***************************************************************************)
(* Steps of the account at the root.                                       *)
(***************************************************************************)
LEMMA AccountFits ==
    ASSUME NEW u, NEW v, NEW w
    PROVE  /\ Account!Fits(u, v, w) <=> Fits(u, v, w)
           /\ Account!Covers(u, v) <=> Covers(u, v)
BY DEF Account!Fits, Fits, Account!Covers, Covers

LEMMA AdmittedIsBatch ==
    ASSUME IInv, IInv', NEW leaf, NEW charges \in Batches, Admitted(leaf, charges)
    PROVE  Account!ReserveBatch(charges)
<1>0. /\ Sound(state, held, tokens) /\ state \in Ledger /\ state' \in Ledger /\ ~ state.poisoned
      /\ Tree(state) /\ Owned(state) /\ Limits(state) /\ RecordTotalIsSound(state)
    BY DEF IInv, Sound
<1>1. charges \in Seq(Vector) /\ Len(charges) \in Nat
    BY DomainAssumption
<1>2. PICK n, a, b : n = Len(charges) /\ a = RootOf(state) /\ b = RootOf(state')
    OBVIOUS
<1>3. /\ n <= Len(state.free_records) /\ HasRoom(state, leaf, charges)
      /\ state.next_owner + n <= MaxOwner /\ 0 \in OnPath(state, leaf)
      /\ TopFacts(state, n) /\ AdmitStep(state, state', leaf, charges)
      /\ tokens' = tokens \cup NewTokens(state', state.next_owner)
    BY <1>2 DEF Admitted
<1>4. b = Account!PlaceAll(a, charges)
    BY <1>0, <1>1, <1>2, <1>3, PlacedIs
<1>5. RootAccount = a /\ RootAccount' = b
    BY <1>2, RootAccountOf
<1>6. /\ a.used = Minus(state.nodes[0].used, Baseline) /\ a.records = CreditsIn(state)
      /\ a.free = state.free_records /\ a.next_owner = state.next_owner
      /\ a.counts = state.nodes[0].counts /\ a.poisoned = state.poisoned
    BY <1>2, RootOfIs
<1>7. b.records = CreditsIn(state')
    BY <1>2, RootOfIs
<1>8. Account!Fits(a.used, Account!Total(charges), Minus(Capacity, Baseline))
  <2>1. PICK u, v : u = state.nodes[0].used /\ v = Total(charges)
      OBVIOUS
  <2>2. Fits(u, v, Capacity)
      BY <1>0, <1>3, <2>1 DEF HasRoom, Limits
  <2>3. u \in Vector /\ v \in Vector /\ Capacity \in Vector /\ Baseline \in Vector
      BY <1>0, <1>1, <2>1, TotalType, NodeTypes, Constants, DomainAssumption
  <2>4. ASSUME NEW k \in Kind
        PROVE  Minus(u, Baseline)[k] + v[k] <= Minus(Capacity, Baseline)[k]
    <3>1. u[k] + v[k] <= Capacity[k]
        BY <2>2 DEF Fits
    <3>2. u[k] \in Nat /\ v[k] \in Nat /\ Capacity[k] \in Nat /\ Baseline[k] \in Nat
        BY <2>3 DEF Vector
    <3>3. /\ Minus(u, Baseline)[k] = u[k] - Baseline[k]
          /\ Minus(Capacity, Baseline)[k] = Capacity[k] - Baseline[k]
        BY DEF Minus
    <3> QED BY <3>1, <3>2, <3>3
  <2>5. Fits(Minus(u, Baseline), v, Minus(Capacity, Baseline))
      BY <2>4 DEF Fits
  <2> QED BY <1>6, <2>1, <2>5, AccountFits, AccountTotal
<1>9. ~ Account!RejectsBatch(a, charges)
  <2>1. ~ a.poisoned /\ ~ (Len(charges) > Len(a.free)) /\ ~ (a.next_owner + Len(charges) > MaxOwner)
    <3>1. /\ Len(state.free_records) \in Nat /\ n \in Nat /\ state.next_owner \in Nat
          /\ MaxOwner \in Nat
        BY <1>0, <1>1, <1>2, CreditsAssumption DEF Ledger
    <3> QED BY <1>0, <1>2, <1>3, <1>6, <3>1
  <2> QED BY <1>8, <2>1 DEF Account!RejectsBatch
<1>10. Account!Vacancies(a.records, a.free, n)
  <2>1. Account!TopSlots(a.free, n) = TopRecords(state, n)
      BY <1>6 DEF Account!TopSlots, TopRecords
  <2>2. PICK s : s = TopRecords(state, n)
      OBVIOUS
  <2>3. IsInjective(s) /\ \A r \in ToSet(s) : r \in RecordSlot /\ r \notin RecordsIn(state)
      BY <1>3, <2>2 DEF TopFacts, Taken
  <2>4. Account!IsInjective(s) /\ Account!ToSet(s) = ToSet(s)
      BY <2>3, AccountSequences
  <2>5. \A r \in ToSet(s) : a.records[r] = Account!NoRecord
      BY <1>0, <1>6, <2>3, LiveCredits, AccountVectors
  <2> QED BY <2>1, <2>2, <2>4, <2>5 DEF Account!Vacancies
<1>11. Account!Occupied(a.counts) + Len(a.free) = MaxRecords
    BY <1>0, <1>6 DEF Account!Occupied, RecordTotalIsSound, Occupied
<1>12. Account!TokensFrom(b.records, a.next_owner) = NewTokens(state', state.next_owner)
  <2>1. PICK c : c = CreditsIn(state')
      OBVIOUS
  <2>2. DOMAIN c = RecordSlot /\ \A r \in RecordSlot : c[r] = state'.records[r].credit
      BY <2>1 DEF CreditsIn
  <2>3. Account!TokensFrom(c, state.next_owner) = NewTokens(state', state.next_owner)
      BY <2>2 DEF Account!TokensFrom, NewTokens
  <2> QED BY <1>6, <1>7, <2>1, <2>3
<1> QED BY <1>2, <1>3, <1>4, <1>5, <1>9, <1>10, <1>11, <1>12 DEF Account!ReserveBatch

LEMMA AccountPhases ==
    ASSUME NEW owner, owner # 0
    PROVE  /\ Account!CreditTransition(owner, owner, "Reserved", "Retain") = "Retained"
           /\ Account!CreditTransition(owner, owner, "Retained", "Quarantine") = "Quarantined"
           /\ Account!CreditTransition(owner, owner, "Reserved", "CancelUnissued") = "Vacant"
           /\ Account!CreditTransition(owner, owner, "Retained", "ReleaseRejected") = "Vacant"
           /\ Account!CreditTransition(owner, owner, "Retained", "ReleaseDisposed") = "Vacant"
BY DEF Account!CreditTransition

(* The counters of the root, when one credit goes from old to next. *)
Moved(c, e, old, next) ==
    /\ c \in [Phase -> Nat] /\ e \in [Phase -> Nat] /\ old \in Phase
    /\ \A p \in Phase : e[p] = c[p] - (IF p = old THEN 1 ELSE 0) + (IF p = next THEN 1 ELSE 0)

LEMMA CountsMove ==
    ASSUME NEW c, NEW e, NEW old, NEW next, Moved(c, e, old, next), next \in Phase, next # old
    PROVE  e = [[c EXCEPT ![old] = c[old] - 1] EXCEPT ![next] = c[next] + 1]
<1>1. \A p \in Phase : e[p] = [[c EXCEPT ![old] = c[old] - 1] EXCEPT ![next] = c[next] + 1][p]
    BY DEF Moved
<1> QED BY <1>1 DEF Moved

LEMMA CountsFall ==
    ASSUME NEW c, NEW e, NEW old, NEW next, Moved(c, e, old, next), next \notin Phase
    PROVE  e = [c EXCEPT ![old] = c[old] - 1]
<1>1. \A p \in Phase : e[p] = [c EXCEPT ![old] = c[old] - 1][p]
    BY DEF Moved
<1> QED BY <1>1 DEF Moved

LEMMA AccountAdvances ==
    ASSUME NEW l, NEW h, NEW t, Sound(l, h, t), NEW x \in t, NEW action, NEW next,
           Advancing(x, action, next), NEW l2 \in Ledger, Advanced(l, x, l2, next)
    PROVE  RootOf(l2) = Account!transition(RootOf(l), x, action)
<1>0. l \in Ledger /\ ~ l.poisoned
    BY DEF Sound
<1>1. PICK r, leaf, charge, old, nodes :
        /\ IsCredit(l, x, r, leaf, charge, old) /\ CreditFacts(l, x, r, leaf, charge, old)
        /\ SettleFacts(l, nodes, leaf, charge, old, next) /\ PhaseStep(l, l2, nodes, r, next)
    BY DEF Advanced
<1>2. /\ r = x.slot /\ old = l.records[r].credit.phase /\ r \in RecordSlot
      /\ l.records[r].credit.owner = x.owner /\ x.owner # 0 /\ 0 \in OnPath(l, leaf)
      /\ old \in Phase /\ l.nodes[0].counts[old] > 0 /\ next \in Phase /\ next # old
      /\ next # "None" /\ next # "Vacant"
    BY <1>1 DEF IsCredit, CreditFacts, Phase, Advancing
<1>3. PICK a, c, b : a = RootOf(l) /\ c = l.nodes[0].counts /\ b = Account!transition(a, x, action)
    OBVIOUS
<1>4. /\ a.used = Minus(l.nodes[0].used, Baseline) /\ a.records = CreditsIn(l)
      /\ a.free = l.free_records /\ a.next_owner = l.next_owner
      /\ a.counts = c /\ a.poisoned = l.poisoned /\ a.anchored = l.anchored
    BY <1>3, RootOfIs
<1>5. a.records[x.slot] = l.records[r].credit
    BY <1>2, <1>4 DEF CreditsIn
<1>6. Account!CreditTransition(x.owner, x.owner, old, action) = next
    BY <1>1, <1>2, AccountPhases DEF CreditFacts, Advancing
<1>7. c \in [Phase -> Nat] /\ l2.nodes[0].counts \in [Phase -> Nat]
    BY <1>0, <1>3, NodeTypes, Constants
<1>8. c[old] # 0 /\ c[old] > 0
  <2>1. c[old] > 0 /\ c[old] \in Nat
      BY <1>2, <1>3, <1>7, Zenon
  <2> QED BY <2>1
<1>9. b = [a EXCEPT !.counts[old] = @ - 1, !.counts[next] = @ + 1,
                    !.records[r].phase = next, !.anchored = Account!Anchored(a, next)]
  <2> DEFINE rec == a.records[x.slot]
             nx == Account!CreditTransition(rec.owner, x.owner, rec.phase, action)
  <2>1. b = IF a.poisoned THEN [a EXCEPT !.anchored = TRUE]
            ELSE IF \/ nx = "None" \/ a.counts[rec.phase] = 0
                    \/ /\ nx = "Vacant"
                       /\ Len(a.free) = MaxRecords \/ ~ Account!Covers(a.used, rec.charge)
            THEN [a EXCEPT !.poisoned = TRUE, !.anchored = TRUE]
            ELSE IF nx = "Vacant"
            THEN [a EXCEPT !.used = Account!Minus(@, rec.charge),
                           !.counts[rec.phase] = @ - 1,
                           !.records[x.slot] = Account!NoRecord,
                           !.free = Append(@, x.slot)]
            ELSE [a EXCEPT !.counts[rec.phase] = @ - 1, !.counts[nx] = @ + 1,
                           !.records[x.slot].phase = nx,
                           !.anchored = Account!Anchored(a, nx)]
      BY <1>3, Zenon DEF Account!transition
  <2>2. rec.phase = old /\ nx = next /\ x.slot = r /\ ~ a.poisoned /\ a.counts[old] # 0
      BY <1>0, <1>2, <1>4, <1>5, <1>6, <1>8
  <2> HIDE DEF rec, nx
  <2>3. b = [a EXCEPT !.counts[rec.phase] = @ - 1, !.counts[nx] = @ + 1,
                      !.records[x.slot].phase = nx, !.anchored = Account!Anchored(a, nx)]
      BY <1>2, <2>1, <2>2
  <2> QED BY <2>2, <2>3
<1>10. DOMAIN a = Fields /\ a = [i \in Fields |-> a[i]]
    BY <1>3, AccFields DEF RootOf
<1>11. b = [i \in Fields |-> b[i]]
    BY <1>9, <1>10 DEF Fields
<1>12. /\ b.used = a.used /\ b.free = a.free /\ b.next_owner = a.next_owner
       /\ b.poisoned = a.poisoned /\ b.anchored = Account!Anchored(a, next)
       /\ b.records = [a.records EXCEPT ![r].phase = next]
    BY <1>9, <1>10 DEF Fields
<1>13. b.counts = [[c EXCEPT ![old] = c[old] - 1] EXCEPT ![next] = c[next] + 1]
    BY <1>2, <1>4, <1>7, <1>9, <1>10 DEF Fields
<1>14. l2.nodes[0].counts = b.counts
  <2>1. \A p \in Phase : l2.nodes[0].counts[p] =
          c[p] - (IF p = old THEN 1 ELSE 0) + (IF p = next THEN 1 ELSE 0)
    <3>1. l2.nodes = nodes
        BY <1>1 DEF PhaseStep
    <3>2. 0 \in DomainSlot /\ 0 \in OnPath(l, leaf)
        BY <1>2, Constants
    <3>3. \A p \in Phase : nodes[0].counts[p] =
            l.nodes[0].counts[p] - (IF p = old THEN 1 ELSE 0) + (IF p = next THEN 1 ELSE 0)
        BY <1>1, <3>2 DEF SettleFacts
    <3> QED BY <1>3, <3>1, <3>3
  <2>2. PICK e : e = l2.nodes[0].counts
      OBVIOUS
  <2>3. Moved(c, e, old, next)
      BY <1>2, <1>7, <2>1, <2>2 DEF Moved
  <2>4. e = [[c EXCEPT ![old] = c[old] - 1] EXCEPT ![next] = c[next] + 1]
      BY <1>2, <2>3, CountsMove
  <2> QED BY <1>13, <2>2, <2>4
<1>15. l2.nodes[0].used = l.nodes[0].used
    BY <1>1, <1>2, Constants DEF SettleFacts, PhaseStep
<1>16. /\ CreditsIn(l2) = [CreditsIn(l) EXCEPT ![r].phase = next] /\ l2.free_records = l.free_records
       /\ l2.next_owner = l.next_owner /\ l2.poisoned = l.poisoned
       /\ l2.anchored = (l.anchored \/ next = "Quarantined")
    BY <1>1 DEF PhaseStep
<1>17. b.anchored = l2.anchored
    BY <1>4, <1>12, <1>16 DEF Account!Anchored
<1>18. b = Acc(Minus(l2.nodes[0].used, Baseline), CreditsIn(l2), l2.free_records, l2.next_owner,
               l2.nodes[0].counts, l2.poisoned, l2.anchored)
    BY <1>4, <1>11, <1>12, <1>14, <1>15, <1>16, <1>17, AccEquals
<1> QED BY <1>3, <1>18 DEF RootOf

LEMMA AccountReleases ==
    ASSUME NEW l, NEW h, NEW t, Sound(l, h, t), NEW x \in t, NEW action, Releasing(x, action),
           NEW l2 \in Ledger, Released(l, x, l2)
    PROVE  RootOf(l2) = Account!transition(RootOf(l), x, action)
<1>0. l \in Ledger /\ ~ l.poisoned
    BY DEF Sound
<1>1. PICK r, leaf, charge, old, nodes, l1 :
        /\ IsCredit(l, x, r, leaf, charge, old) /\ CreditFacts(l, x, r, leaf, charge, old)
        /\ SettleFacts(l, nodes, leaf, charge, old, "Vacant") /\ VacateStep(l, l1, nodes, r)
        /\ SameRoot(l1, l2)
    BY DEF Released
<1>2. /\ r = x.slot /\ old = l.records[r].credit.phase /\ charge = l.records[r].credit.charge
      /\ l.records[r].credit.owner = x.owner /\ x.owner # 0 /\ 0 \in OnPath(l, leaf)
      /\ old \in Phase /\ l.nodes[0].counts[old] > 0 /\ r \in RecordSlot /\ charge \in Vector
      /\ Covers(l.nodes[0].used, charge) /\ Len(l.free_records) < MaxRecords
      /\ Minus(l.nodes[0].used, charge) = Plus(Baseline, ChargeOf(CreditsIn(l), Under(l, 0) \ {r}))
    BY <1>1 DEF IsCredit, CreditFacts, Phase, Base
<1>3. PICK a, c, b : a = RootOf(l) /\ c = l.nodes[0].counts /\ b = Account!transition(a, x, action)
    OBVIOUS
<1>4. /\ a.used = Minus(l.nodes[0].used, Baseline) /\ a.records = CreditsIn(l)
      /\ a.free = l.free_records /\ a.next_owner = l.next_owner
      /\ a.counts = c /\ a.poisoned = l.poisoned /\ a.anchored = l.anchored
    BY <1>3, RootOfIs
<1>5. a.records[x.slot] = l.records[r].credit
    BY <1>2, <1>4 DEF CreditsIn
<1>6. Account!CreditTransition(x.owner, x.owner, old, action) = "Vacant"
    BY <1>1, <1>2, AccountPhases DEF CreditFacts, Releasing
<1>7. c \in [Phase -> Nat] /\ l2.nodes[0].counts \in [Phase -> Nat]
    BY <1>0, <1>3, NodeTypes, Constants
<1>8. c[old] # 0 /\ c[old] > 0
  <2>1. c[old] > 0 /\ c[old] \in Nat
      BY <1>2, <1>3, <1>7, Zenon
  <2> QED BY <2>1
<1>u. PICK u, v : u = l.nodes[0].used /\ v = ChargeOf(CreditsIn(l), Under(l, 0) \ {r})
    OBVIOUS
<1>v. u \in Vector /\ v \in Vector /\ Baseline \in Vector /\ Minus(u, charge) = Plus(Baseline, v)
  <2>1. Under(l, 0) \ {r} \subseteq RecordSlot
      BY DEF Under, RecordsIn
  <2> QED BY <1>0, <1>2, <1>u, <2>1, CreditsAreCharged, ChargeType, NodeTypes, Constants,
             DomainAssumption
<1>w. /\ Covers(Minus(u, Baseline), charge)
      /\ Minus(Minus(u, Baseline), charge) = Minus(Minus(u, charge), Baseline)
  <2>1. ASSUME NEW k \in Kind
        PROVE  /\ u[k] - Baseline[k] >= charge[k]
               /\ (u[k] - Baseline[k]) - charge[k] = (u[k] - charge[k]) - Baseline[k]
    <3>1. u[k] \in Nat /\ v[k] \in Nat /\ Baseline[k] \in Nat /\ charge[k] \in Nat
        BY <1>2, <1>v DEF Vector
    <3>2. Minus(u, charge)[k] = u[k] - charge[k] /\ Plus(Baseline, v)[k] = Baseline[k] + v[k]
        BY DEF Minus, Plus
    <3>3. u[k] - charge[k] = Baseline[k] + v[k]
        BY <1>v, <3>2
    <3> QED BY <3>1, <3>3
  <2>2. /\ Minus(Minus(u, Baseline), charge) = [k \in Kind |-> (u[k] - Baseline[k]) - charge[k]]
        /\ Minus(Minus(u, charge), Baseline) = [k \in Kind |-> (u[k] - charge[k]) - Baseline[k]]
      BY DEF Minus
  <2>3. Covers(Minus(u, Baseline), charge)
      BY <2>1 DEF Covers, Minus
  <2> QED BY <2>1, <2>2, <2>3
<1>x. Account!Covers(a.used, charge) /\ Account!Minus(a.used, charge) = Minus(a.used, charge)
    BY <1>4, <1>u, <1>w, AccountFits, AccountVectors
<1>y. Len(a.free) # MaxRecords
  <2>1. Len(l.free_records) \in Nat /\ MaxRecords \in Nat
      BY <1>0, Constants DEF Ledger
  <2>2. PICK n : n = Len(l.free_records)
      OBVIOUS
  <2>3. n \in Nat /\ MaxRecords \in Nat /\ n < MaxRecords
      BY <1>2, <2>1, <2>2
  <2>4. n # MaxRecords
      BY <2>3
  <2>5. a.free = l.free_records
      BY <1>4
  <2> QED BY <2>2, <2>4, <2>5
<1>9. b = [a EXCEPT !.used = Minus(a.used, charge), !.counts[old] = @ - 1,
                    !.records[r] = NoRecord, !.free = Append(@, r)]
  <2> DEFINE rec == a.records[x.slot]
             nx == Account!CreditTransition(rec.owner, x.owner, rec.phase, action)
  <2>1. b = IF a.poisoned THEN [a EXCEPT !.anchored = TRUE]
            ELSE IF \/ nx = "None" \/ a.counts[rec.phase] = 0
                    \/ /\ nx = "Vacant"
                       /\ Len(a.free) = MaxRecords \/ ~ Account!Covers(a.used, rec.charge)
            THEN [a EXCEPT !.poisoned = TRUE, !.anchored = TRUE]
            ELSE IF nx = "Vacant"
            THEN [a EXCEPT !.used = Account!Minus(@, rec.charge),
                           !.counts[rec.phase] = @ - 1,
                           !.records[x.slot] = Account!NoRecord,
                           !.free = Append(@, x.slot)]
            ELSE [a EXCEPT !.counts[rec.phase] = @ - 1, !.counts[nx] = @ + 1,
                           !.records[x.slot].phase = nx,
                           !.anchored = Account!Anchored(a, nx)]
      BY <1>3, Zenon DEF Account!transition
  <2>2. /\ rec.phase = old /\ rec.charge = charge /\ nx = "Vacant" /\ x.slot = r /\ ~ a.poisoned
        /\ a.counts[old] # 0
      BY <1>0, <1>2, <1>4, <1>5, <1>6, <1>8
  <2> HIDE DEF rec, nx
  <2>3. b = [a EXCEPT !.used = Account!Minus(@, rec.charge),
                      !.counts[rec.phase] = @ - 1,
                      !.records[x.slot] = Account!NoRecord,
                      !.free = Append(@, x.slot)]
      BY <1>x, <1>y, <2>1, <2>2
  <2>4. Account!NoRecord = NoRecord
      BY AccountVectors
  <2> QED BY <1>x, <2>2, <2>3, <2>4
<1>10. DOMAIN a = Fields /\ a = [i \in Fields |-> a[i]]
    BY <1>3, AccFields DEF RootOf
<1>11. b = [i \in Fields |-> b[i]]
    BY <1>9, <1>10 DEF Fields
<1>12. /\ b.used = Minus(a.used, charge) /\ b.free = Append(a.free, r)
       /\ b.next_owner = a.next_owner /\ b.poisoned = a.poisoned /\ b.anchored = a.anchored
       /\ b.records = [a.records EXCEPT ![r] = NoRecord]
    BY <1>9, <1>10 DEF Fields
<1>13. b.counts = [c EXCEPT ![old] = c[old] - 1]
    BY <1>2, <1>4, <1>7, <1>9, <1>10 DEF Fields
<1>14. l2.nodes[0].counts = b.counts
  <2>1. \A p \in Phase : l2.nodes[0].counts[p] =
          c[p] - (IF p = old THEN 1 ELSE 0) + (IF p = "Vacant" THEN 1 ELSE 0)
    <3>1. l2.nodes[0].counts = nodes[0].counts
        BY <1>1 DEF VacateStep, SameRoot
    <3>2. \A p \in Phase : nodes[0].counts[p] =
            l.nodes[0].counts[p] - (IF p = old THEN 1 ELSE 0) + (IF p = "Vacant" THEN 1 ELSE 0)
        BY <1>1, <1>2, Constants DEF SettleFacts
    <3> QED BY <1>3, <3>1, <3>2
  <2>2. PICK e : e = l2.nodes[0].counts
      OBVIOUS
  <2>3. Moved(c, e, old, "Vacant")
      BY <1>2, <1>7, <2>1, <2>2 DEF Moved
  <2>4. "Vacant" \notin Phase
      BY DEF Phase
  <2>5. e = [c EXCEPT ![old] = c[old] - 1]
      BY <2>3, <2>4, CountsFall
  <2> QED BY <1>13, <2>2, <2>5
<1>15. l2.nodes[0].used = Minus(l.nodes[0].used, charge)
    BY <1>1, <1>2, Constants DEF SettleFacts, VacateStep, SameRoot
<1>16. b.used = Minus(l2.nodes[0].used, Baseline)
    BY <1>4, <1>12, <1>15, <1>u, <1>w
<1>17. /\ l2.free_records = Append(l.free_records, r)
       /\ l2.next_owner = l.next_owner /\ l2.poisoned = l.poisoned /\ l2.anchored = l.anchored
       /\ CreditsIn(l1) = [CreditsIn(l) EXCEPT ![r] = NoRecord] /\ l2.records = l1.records
    BY <1>1 DEF VacateStep, SameRoot
<1>18. CreditsIn(l2) = CreditsIn(l1)
    BY <1>17 DEF CreditsIn
<1>19. b = Acc(Minus(l2.nodes[0].used, Baseline), CreditsIn(l2), l2.free_records, l2.next_owner,
               l2.nodes[0].counts, l2.poisoned, l2.anchored)
  <2>1. /\ b.records = CreditsIn(l2) /\ b.free = l2.free_records /\ b.next_owner = l2.next_owner
        /\ b.poisoned = l2.poisoned /\ b.anchored = l2.anchored
      BY <1>4, <1>12, <1>17, <1>18
  <2> QED BY <1>11, <1>14, <1>16, <2>1, AccEquals
<1> QED BY <1>3, <1>19 DEF RootOf

LEMMA IdleStutters ==
    ASSUME Idle
    PROVE  UNCHANGED Account!vars
<1>1. SameRoot(state, state') /\ tokens' = tokens
    BY DEF Idle
<1>2. CreditsIn(state') = CreditsIn(state)
    BY <1>1 DEF SameRoot, CreditsIn
<1>3. RootOf(state') = RootOf(state)
    BY <1>1, <1>2 DEF RootOf, SameRoot
<1>4. RootAccount' = RootAccount
    BY <1>3, RootAccountOf
<1> QED BY <1>1, <1>4 DEF Account!vars

LEMMA StepOfAccount ==
    ASSUME IInv, [Next]_vars
    PROVE  [Account!Next]_(Account!vars)
<1>0. IInv' /\ Sound(state, held, tokens) /\ state' \in Ledger
    BY NextIInv DEF IInv, Sound
<1>1. ASSUME NEW key \in BagToSet(held), NEW shape \in Shapes, NewChild(key, shape)
      PROVE  UNCHANGED Account!vars
    BY <1>1, NewChildStep, IdleStutters
<1>2. ASSUME NEW key \in BagToSet(held), NEW charges \in Batches, ReserveInto(key, charges)
      PROVE  Account!Next
  <2>1. Admitted(key, charges)
      BY <1>2, ReserveIntoStep
  <2>2. Account!ReserveBatch(charges)
      BY <1>0, <2>1, AdmittedIsBatch
  <2> QED BY <2>2 DEF Account!Next
<1>3. ASSUME NEW key \in BagToSet(held), Clone(key)
      PROVE  UNCHANGED Account!vars
    BY <1>3, CloneStep, IdleStutters
<1>4. ASSUME NEW key \in BagToSet(held), DropHandle(key)
      PROVE  UNCHANGED Account!vars
    BY <1>4, DropHandleStep, IdleStutters
<1>5. ASSUME NEW t \in tokens, Retain(t)
      PROVE  Account!Next
  <2>1. Advanced(state, t, state', "Retained") /\ t.kind = "reservation"
      BY <1>5, RetainStep DEF Retain
  <2>2. Advancing(t, "Retain", "Retained")
      BY <2>1 DEF Advancing
  <2>3. RootOf(state') = Account!transition(RootOf(state), t, "Retain")
      BY <1>0, <2>1, <2>2, AccountAdvances
  <2>4. Account!Perform(t, "Retain")
      BY <2>3, RootAccountOf DEF Account!Perform
  <2>5. Account!Retain(t)
      BY <1>5, <2>4 DEF Account!Retain, Retain
  <2> QED BY <2>5 DEF Account!Next
<1>6. ASSUME NEW t \in tokens, CancelUnissued(t)
      PROVE  Account!Next
  <2>1. Released(state, t, state') /\ t.kind = "reservation" /\ tokens' = tokens \ {t}
      BY <1>6, CancelUnissuedStep DEF CancelUnissued, Consume
  <2>2. Releasing(t, "CancelUnissued")
      BY <2>1 DEF Releasing
  <2>3. RootOf(state') = Account!transition(RootOf(state), t, "CancelUnissued")
      BY <1>0, <2>1, <2>2, AccountReleases
  <2>4. Account!Perform(t, "CancelUnissued") /\ Account!Consume(t)
      BY <2>1, <2>3, RootAccountOf DEF Account!Perform, Account!Consume
  <2>5. Account!CancelUnissued(t)
      BY <2>1, <2>4 DEF Account!CancelUnissued
  <2> QED BY <2>5 DEF Account!Next
<1>7. ASSUME NEW t \in tokens, Release(t)
      PROVE  Account!Next
  <2>1. PICK action \in {"ReleaseRejected", "ReleaseDisposed"} :
          /\ t.kind = "retained" /\ state' = transition(state, t, action) /\ tokens' = tokens \ {t}
      BY <1>7 DEF Release, Perform, Consume
  <2>2. Releasing(t, action)
      BY <2>1 DEF Releasing
  <2>3. Released(state, t, state')
      BY <1>7, ReleaseStep
  <2>4. RootOf(state') = Account!transition(RootOf(state), t, action)
      BY <1>0, <2>2, <2>3, AccountReleases
  <2>5. Account!Perform(t, action) /\ Account!Consume(t)
      BY <2>1, <2>4, RootAccountOf DEF Account!Perform, Account!Consume
  <2>6. Account!Release(t)
      BY <2>1, <2>5 DEF Account!Release
  <2> QED BY <2>6 DEF Account!Next
<1>8. ASSUME NEW t \in tokens, Quarantine(t)
      PROVE  Account!Next
  <2>1. /\ Advanced(state, t, state', "Quarantined") /\ t.kind = "retained"
        /\ tokens' = tokens \ {t}
      BY <1>8, QuarantineStep DEF Quarantine, Consume
  <2>2. Advancing(t, "Quarantine", "Quarantined")
      BY <2>1 DEF Advancing
  <2>3. RootOf(state') = Account!transition(RootOf(state), t, "Quarantine")
      BY <1>0, <2>1, <2>2, AccountAdvances
  <2>4. Account!Perform(t, "Quarantine") /\ Account!Consume(t)
      BY <2>1, <2>3, RootAccountOf DEF Account!Perform, Account!Consume
  <2>5. Account!Quarantine(t)
      BY <2>1, <2>4 DEF Account!Quarantine
  <2> QED BY <2>5 DEF Account!Next
<1>9. ASSUME NEW t \in tokens, AccountForRecord(t)
      PROVE  UNCHANGED Account!vars
    BY <1>9, AccountForRecordStep, IdleStutters
<1>10. CASE UNCHANGED vars
  <2>1. state' = state /\ tokens' = tokens
      BY <1>10 DEF vars
  <2>2. RootAccount' = RootAccount
      BY <2>1, RootAccountOf
  <2> QED BY <2>1, <2>2 DEF Account!vars
<1> QED BY <1>1, <1>2, <1>3, <1>4, <1>5, <1>6, <1>7, <1>8, <1>9, <1>10 DEF Next

LEMMA InitOfAccount ==
    Init => Account!Init
<1> SUFFICES ASSUME Init
             PROVE  Account!Init
    OBVIOUS
<1>1. state \in Ledger /\ Fresh0(state) /\ tokens = {}
    BY InitIs
<1>2. /\ state.nodes[0].used = Baseline /\ state.nodes[0].counts = [p \in Phase |-> 0]
      /\ state.free_records = [i \in 1..MaxRecords |-> MaxRecords - i]
      /\ state.next_owner = 1 /\ state.poisoned = FALSE /\ state.anchored = FALSE
    BY <1>1 DEF Fresh0, RootNode
<1>3. Minus(Baseline, Baseline) = Zero
  <2>1. \A k \in Kind : Baseline[k] - Baseline[k] = 0
      BY DomainAssumption DEF Vector
  <2> QED BY <2>1 DEF Minus, Zero
<1>4. CreditsIn(state) = [s \in RecordSlot |-> NoRecord]
    BY <1>1, NoRecordIs DEF CreditsIn, Fresh0
<1>5. RootAccount = Acc(Zero, [s \in RecordSlot |-> NoRecord],
                        [i \in 1..MaxRecords |-> MaxRecords - i], 1, [p \in Phase |-> 0],
                        FALSE, FALSE)
    BY <1>2, <1>3, <1>4, RootAccountOf DEF RootOf
<1>6. /\ Account!Zero = Zero /\ Account!Slot = RecordSlot /\ Account!NoRecord = NoRecord
      /\ Account!Phase = Phase
    BY AccountVectors
<1> QED BY <1>1, <1>5, <1>6 DEF Account!Init, Acc

(* Seen from its root, the hierarchy is an independent account over what   *)
(* the arenas leave of the capacity: reserve_into and Root::transition     *)
(* take the steps of CreditAccount with the same tokens, and creating,     *)
(* cloning, dropping and retiring domains are no step of it.               *)
THEOREM ImplementsAccountHolds == Spec => ImplementsAccount
<1>1. Init => Account!Init
    BY InitOfAccount
<1>2. IInv /\ [Next]_vars => [Account!Next]_(Account!vars)
    BY StepOfAccount
<1> QED BY <1>1, <1>2, Invariance, PTL DEF Spec, ImplementsAccount, Account!Spec

=============================================================================
