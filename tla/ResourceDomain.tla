---------------------------- MODULE ResourceDomain ----------------------------
(***************************************************************************)
(* Hierarchical credit accounts (fe2o3-resource-accounting, domain.rs): a  *)
(* root that owns one arena of domains and one arena of records.  A charge *)
(* is taken at a leaf and at every ancestor of it or at none; a domain is  *)
(* retired with its last handle, child and record, and its slot is used    *)
(* again under a new generation.  Every operation holds the root's lock.   *)
(***************************************************************************)
EXTENDS ResourceCredits, Bags

CONSTANTS
    Capacity,       \* of the root
    Baseline,       \* the charge of the arenas themselves
    MaxDomains,     \* slots for domains, the root included
    MaxDepth,       \* of the profile: three or four levels
    Shapes,         \* what children are created with: [capacity, limit]
    Batches,        \* the rosters of charges that clients ask for
    MaxGeneration,  \* the largest generation of a domain (u64::MAX)
    MaxHandles      \* bound on the handles at which none is cloned

ASSUME DomainAssumption ==
    /\ MaxDomains \in Nat \ {0} /\ MaxDepth \in {3, 4}
    /\ Capacity \in Vector /\ Baseline \in Vector /\ Fits(Zero, Baseline, Capacity)
    /\ Shapes \subseteq [capacity : Vector, limit : Nat]
    /\ Batches \subseteq Seq(Vector)

VARIABLES
    state,   \* the ledger behind the lock
    held,    \* the handles alive: a bag of keys
    tokens   \* the reservations and retained credits alive

vars == <<state, held, tokens>>

ROOT == [slot |-> 0, generation |-> 1]
NoKey == [slot |-> 0, generation |-> 0]

DomainSlot == 0..(MaxDomains - 1)
RecordSlot == 0..(MaxRecords - 1)

NoDomainRecord == [leaf |-> NoKey, credit |-> NoRecord]
NoNode ==
    [key |-> NoKey, parent |-> NoKey, capacity |-> Zero, used |-> Zero, record_limit |-> 0,
     counts |-> [p \in Phase |-> 0], handles |-> 0, children |-> 0]

NewNode(key, parent, capacity, limit) ==
    [NoNode EXCEPT !.key = key, !.parent = parent, !.capacity = capacity,
                   !.record_limit = limit, !.handles = 1]

(* new_root_at_depth: slot 0 is permanent. *)
Init ==
    /\ state = [nodes |-> [s \in DomainSlot |->
                   IF s = 0
                   THEN [NewNode(ROOT, NoKey, Capacity, MaxRecords) EXCEPT !.used = Baseline]
                   ELSE NoNode],
                free_nodes |-> [i \in 1..(MaxDomains - 1) |-> MaxDomains - i],
                records |-> [s \in RecordSlot |-> NoDomainRecord],
                free_records |-> [i \in 1..MaxRecords |-> MaxRecords - i],
                next_node |-> 2,
                next_owner |-> 1,
                poisoned |-> FALSE,
                anchored |-> FALSE]
    /\ held = SetToBag({ROOT})
    /\ tokens = {}

(***************************************************************************)
(* Lookups.                                                                *)
(***************************************************************************)
(* node: a key finds its domain only in its own generation. *)
Resolves(l, key) == key.slot \in DomainSlot /\ l.nodes[key.slot].key = key

(* domain_path_v1: the keys from a leaf to the root, one step of the loop   *)
(* and all of them.                                                         *)
Climb(l, path) ==
    LET parent == l.nodes[Last(path).slot].parent
    IN  IF parent = NoKey THEN path ELSE Append(path, parent)

Path(l, leaf) ==
    LET climb[depth \in 1..MaxDepth] ==
            IF depth = 1 THEN <<leaf>> ELSE Climb(l, climb[depth - 1])
    IN  climb[MaxDepth]

PathIsSound(l, leaf) ==
    /\ \A i \in DOMAIN Path(l, leaf) : Resolves(l, Path(l, leaf)[i])
    /\ Last(Path(l, leaf)) = ROOT

OnPathButRoot(l, leaf) == {key.slot : key \in ToSet(Path(l, leaf)) \ {ROOT}}

OnPath(l, leaf) == {key.slot : key \in ToSet(Path(l, leaf))}

Occupied(node) ==
    node.counts["Reserved"] + node.counts["Retained"] + node.counts["Quarantined"]

(* check_record_total *)
RecordTotalIsSound(l) ==
    Occupied(l.nodes[0]) + Len(l.free_records) = MaxRecords

Poison(l) == [l EXCEPT !.poisoned = TRUE, !.anchored = TRUE]

(***************************************************************************)
(* Retirement of domains.                                                  *)
(***************************************************************************)
(* The i-th domain of a path goes if it has no handle, no child except the  *)
(* one that goes before it, and no record except the one that is released.  *)
RetiresChildless(l, path, i, handles, released) ==
    LET node == l.nodes[path[i].slot]
    IN  /\ (IF i = 1 THEN handles ELSE node.handles) = 0
        /\ Occupied(node) = released

Retires(l, path, i, handles, released) ==
    LET node == l.nodes[path[i].slot]
    IN  /\ (IF i = 1 THEN handles ELSE node.handles) = 0
        /\ node.children = (IF i = 1 THEN 0 ELSE 1)
        /\ Occupied(node) = released

(* plan_reap: how many domains of the path retire, never the root. *)
plan_reap(l, path, handles, released) ==
    Max({m \in 0..(Len(path) - 1) :
            \A i \in 1..m : Retires(l, path, i, handles, released)})

commit_reap(l, path, m) ==
    IF m = 0 THEN l
    ELSE [l EXCEPT
            !.nodes = [s \in DomainSlot |->
                IF \E i \in 1..m : path[i].slot = s THEN NoNode
                ELSE IF s = path[m + 1].slot THEN [l.nodes[s] EXCEPT !.children = @ - 1]
                ELSE l.nodes[s]],
            !.free_nodes = @ \o [i \in 1..m |-> path[i].slot]]

(* A domain that retires must have nothing charged. *)
ReapIsSound(l, path, m) == \A i \in 1..m : l.nodes[path[i].slot].used = Zero

(***************************************************************************)
(* Domains and handles.                                                    *)
(***************************************************************************)
Holds(key) == BagIn(key, held)
Hold(key) == held' = held (+) SetToBag({key})

(* new_child; a rejection changes nothing. *)
NewChild(parent, shape) ==
    /\ Holds(parent) /\ ~ state.poisoned
    /\ Len(Path(state, parent)) < MaxDepth
    /\ shape.limit \in 1..MaxRecords
    /\ state.free_nodes # <<>>
    /\ state.next_node + 1 <= MaxGeneration
    /\ LET slot == Last(state.free_nodes)
           key == [slot |-> slot, generation |-> state.next_node]
       IN  IF PathIsSound(state, parent) /\ state.nodes[slot] = NoNode
           THEN /\ state' = [state EXCEPT
                      !.free_nodes = Front(@),
                      !.next_node = @ + 1,
                      !.nodes[parent.slot].children = @ + 1,
                      !.nodes[slot] = NewNode(key, parent, shape.capacity, shape.limit)]
                /\ Hold(key)
           ELSE state' = Poison(state) /\ UNCHANGED held
    /\ UNCHANGED tokens

AddHandle(key) ==
    /\ BagCardinality(held) < MaxHandles
    /\ state' = [state EXCEPT !.nodes[key.slot].handles = @ + 1]
    /\ Hold(key)
    /\ UNCHANGED tokens

(* DomainAccount::clone *)
Clone(key) == Holds(key) /\ AddHandle(key)

(* account_for_record: a retained credit gives a handle to its leaf. *)
AccountForRecord(t) ==
    /\ t.kind = "retained"
    /\ state.records[t.slot].credit.owner = t.owner
    /\ AddHandle(state.records[t.slot].leaf)

AfterDropForgets(l, key) ==
    [l EXCEPT !.nodes[key.slot].handles = @ - 1]

AfterDrop(l, key) ==
    LET path == Path(l, key)
        handles == l.nodes[key.slot].handles - 1
        m == plan_reap(l, path, handles, 0)
    IN  IF ~ PathIsSound(l, key) \/ handles < 0 \/ ~ ReapIsSound(l, path, m)
        THEN Poison(l)
        ELSE commit_reap([l EXCEPT !.nodes[key.slot].handles = handles], path, m)

(* DomainAccount::drop *)
DropHandle(key) ==
    /\ Holds(key)
    /\ state' = IF state.poisoned THEN state ELSE AfterDrop(state, key)
    /\ held' = held (-) SetToBag({key})
    /\ UNCHANGED tokens

(***************************************************************************)
(* Credits.                                                                *)
(***************************************************************************)
(* r75_resource_domain_reserve_v1 accepts, at every level of the path. *)
HasRoom(l, leaf, charges) ==
    \A s \in OnPath(l, leaf) :
        /\ Occupied(l.nodes[s]) + Len(charges) <= l.nodes[s].record_limit
        /\ Fits(l.nodes[s].used, Total(charges), l.nodes[s].capacity)

TopRecords(l, n) == SubSeq(l.free_records, Len(l.free_records) - n + 1, Len(l.free_records))

AdmitSwapped(l, leaf, charges) ==
    LET n == Len(charges)
        member(s) == CHOOSE i \in 1..n : TopRecords(l, n)[i] = s
    IN  [l EXCEPT
            !.nodes = [s \in DomainSlot |->
                IF s \in OnPath(l, leaf)
                THEN [l.nodes[s] EXCEPT !.used = Plus(@, Total(charges)),
                                        !.counts["Reserved"] = @ + n]
                ELSE l.nodes[s]],
            !.records = [s \in RecordSlot |->
                IF s \in ToSet(TopRecords(l, n))
                THEN [leaf |-> leaf,
                      credit |-> [owner |-> l.next_owner + member(s) - 1,
                                  charge |-> charges[1], phase |-> "Reserved"]]
                ELSE l.records[s]],
            !.free_records = SubSeq(@, 1, Len(@) - n),
            !.next_owner = @ + n]

(* Every ancestor takes the total; the members get the top free records. *)
Admit(l, leaf, charges) ==
    LET n == Len(charges)
        member(s) == CHOOSE i \in 1..n : l.free_records[Len(l.free_records) + 1 - i] = s
    IN  [l EXCEPT
            !.nodes = [s \in DomainSlot |->
                IF s \in OnPath(l, leaf)
                THEN [l.nodes[s] EXCEPT !.used = Plus(@, Total(charges)),
                                        !.counts["Reserved"] = @ + n]
                ELSE l.nodes[s]],
            !.records = [s \in RecordSlot |->
                IF s \in ToSet(TopRecords(l, n))
                THEN [leaf |-> leaf,
                      credit |-> [owner |-> l.next_owner + member(s) - 1,
                                  charge |-> charges[member(s)], phase |-> "Reserved"]]
                ELSE l.records[s]],
            !.free_records = SubSeq(@, 1, Len(@) - n),
            !.next_owner = @ + n]

NewTokens(l, first) ==
    {[slot |-> s, owner |-> l.records[s].credit.owner, kind |-> "reservation"] :
        s \in {r \in RecordSlot : l.records[r].credit.owner >= first}}

(* reserve_into; a rejection changes nothing. *)
ReserveInto(leaf, charges) ==
    /\ Holds(leaf) /\ ~ state.poisoned
    /\ Len(charges) <= Len(state.free_records)
    /\ HasRoom(state, leaf, charges)
    /\ state.next_owner + Len(charges) <= MaxOwner
    /\ IF /\ RecordTotalIsSound(state) /\ PathIsSound(state, leaf)
          /\ IsInjective(TopRecords(state, Len(charges)))
          /\ \A s \in ToSet(TopRecords(state, Len(charges))) :
                state.records[s] = NoDomainRecord
       THEN /\ state' = Admit(state, leaf, charges)
            /\ tokens' = tokens \cup NewTokens(state', state.next_owner)
       ELSE state' = Poison(state) /\ UNCHANGED tokens
    /\ UNCHANGED held

(* Root::transition *)
transition(l, t, action) ==
    LET leaf == l.records[t.slot].leaf
        credit == l.records[t.slot].credit
        next == CreditTransition(credit.owner, t.owner, credit.phase, action)
        path == Path(l, leaf)
        m == plan_reap(l, path, l.nodes[leaf.slot].handles, 1)
        settled == [l EXCEPT !.nodes = [s \in DomainSlot |->
            IF s \notin OnPath(l, leaf) THEN l.nodes[s]
            ELSE [l.nodes[s] EXCEPT
                    !.used = IF next = "Vacant" THEN Minus(@, credit.charge) ELSE @,
                    !.counts = [p \in Phase |-> @[p] - (IF p = credit.phase THEN 1 ELSE 0)
                                                     + (IF p = next THEN 1 ELSE 0)]]]]
        sound ==
            /\ RecordTotalIsSound(l) /\ next # "None" /\ PathIsSound(l, leaf)
            /\ \A s \in OnPath(l, leaf) : l.nodes[s].counts[credit.phase] > 0
            /\ next = "Vacant" =>
                  /\ \A s \in OnPath(l, leaf) : Covers(l.nodes[s].used, credit.charge)
                  /\ Len(l.free_records) < MaxRecords
                  /\ ReapIsSound(settled, path, m)
    IN  IF l.poisoned THEN l
        ELSE IF ~ sound THEN Poison(l)
        ELSE IF next = "Vacant"
        THEN commit_reap([settled EXCEPT !.records[t.slot] = NoDomainRecord,
                                         !.free_records = Append(@, t.slot)], path, m)
        ELSE [settled EXCEPT !.records[t.slot].credit.phase = next,
                             !.anchored = @ \/ next = "Quarantined"]

Perform(t, action) == state' = transition(state, t, action) /\ UNCHANGED held
Consume(t) == tokens' = tokens \ {t}

(* ResourceReservationV1::retain *)
Retain(t) ==
    /\ t.kind = "reservation"
    /\ Perform(t, "Retain")
    /\ tokens' = (tokens \ {t}) \cup {[t EXCEPT !.kind = "retained"]}

(* The drop of a reservation. *)
CancelUnissued(t) ==
    /\ t.kind = "reservation"
    /\ Perform(t, "CancelUnissued") /\ Consume(t)

(* release_after_rejection and release_after_disposal *)
Release(t) ==
    /\ t.kind = "retained"
    /\ \E action \in {"ReleaseRejected", "ReleaseDisposed"} : Perform(t, action)
    /\ Consume(t)

(* The drop of a retained credit. *)
Quarantine(t) ==
    /\ t.kind = "retained"
    /\ Perform(t, "Quarantine") /\ Consume(t)

Next ==
    \/ \E key \in BagToSet(held) :
          \/ \E shape \in Shapes : NewChild(key, shape)
          \/ \E charges \in Batches : ReserveInto(key, charges)
          \/ Clone(key) \/ DropHandle(key)
    \/ \E t \in tokens :
          Retain(t) \/ CancelUnissued(t) \/ Release(t) \/ Quarantine(t) \/ AccountForRecord(t)

Spec == Init /\ [][Next]_vars

-----------------------------------------------------------------------------
Domains == {s \in DomainSlot : state.nodes[s] # NoNode}
Records == {r \in RecordSlot : state.records[r] # NoDomainRecord}
Credits == [r \in RecordSlot |-> state.records[r].credit]
Below(s) ==
    {r \in Records : state.nodes[s].key \in ToSet(Path(state, state.records[r].leaf))}

(* Seen from the root, the hierarchy is one account that holds all records *)
(* and whose capacity is what the arenas leave.                            *)
RootAccount ==
    [used |-> Minus(state.nodes[0].used, Baseline),
     records |-> Credits,
     free |-> state.free_records,
     next_owner |-> state.next_owner,
     counts |-> state.nodes[0].counts,
     poisoned |-> state.poisoned,
     anchored |-> state.anchored]

Account == INSTANCE CreditAccount WITH
    Capacity <- Minus(Capacity, Baseline), account <- RootAccount

(* At every level the ledger shows exactly the charges of the records      *)
(* below it, within the capacity and the record limit of that level, even  *)
(* though children may promise more than their parent has left; the root's *)
(* free list is exact and no sequence of calls makes the ledger find       *)
(* itself corrupt (reserve_into, Root::transition, plan_reap).             *)
Conserved ==
    /\ ~ state.poisoned
    /\ Account!Conserved
    /\ \A s \in Domains :
          LET node == state.nodes[s]
          IN  /\ node.used = Plus(IF s = 0 THEN Baseline ELSE Zero,
                                  ChargeOf(Credits, Below(s)))
              /\ \A k \in Kind : node.used[k] <= node.capacity[k]
              /\ \A p \in Phase :
                    node.counts[p] = Cardinality({r \in Below(s) : Credits[r].phase = p})
              /\ Cardinality(Below(s)) <= node.record_limit

(* A handle or a token that is alive finds its own domain and record, with *)
(* its ancestors, however often the slots were used again; a charge that   *)
(* is not quarantined has exactly one token (node, Root::transition).      *)
NothingDangles ==
    /\ \A key \in BagToSet(held) :
          PathIsSound(state, key) /\ state.nodes[key.slot].handles = held[key]
    /\ \A r \in Records : PathIsSound(state, state.records[r].leaf)
    /\ Account!EveryChargeHasItsToken

(* A domain below the root is there because of a handle, a child or a      *)
(* record, and every slot without one is on the free list once: nothing is *)
(* retired early and nothing is forgotten (plan_reap, commit_reap).        *)
RetiredExactly ==
    /\ \A s \in Domains \ {0} :
          \/ BagIn(state.nodes[s].key, held) \/ state.nodes[s].children > 0 \/ Below(s) # {}
    /\ \A s \in Domains : state.nodes[s].children =
          Cardinality({d \in Domains : state.nodes[d].parent = state.nodes[s].key})
    /\ IsInjective(state.free_nodes) /\ ToSet(state.free_nodes) = DomainSlot \ Domains

(* No level can break what an independent account promises: every step of  *)
(* the hierarchy is a step of the account at its root, or none.            *)
ImplementsAccount == Account!Spec

=============================================================================
