----------------------------- MODULE CreditAccount -----------------------------
(***************************************************************************)
(* One independent credit account (fe2o3-resource-accounting, lib.rs and   *)
(* batch.rs): a ledger behind a mutex, and the move-only tokens that its   *)
(* clients hold.  A reservation is cancelled when it is dropped; a         *)
(* retained credit that is dropped is quarantined and its charge is kept.  *)
(* Every operation holds the lock from its first check to its last write.  *)
(***************************************************************************)
EXTENDS ResourceCredits

CONSTANTS
    Capacity,     \* the resource vector of the account
    Batches       \* the rosters of charges that clients ask for

VARIABLES
    account,  \* [used, records, free, next_owner, counts, poisoned, anchored]
    tokens    \* the reservations and retained credits alive: [slot, owner, kind]

vars == <<account, tokens>>

Slot == 0..(MaxRecords - 1)

(* ResourceCreditAccountV1::new *)
Init ==
    /\ account = [used |-> Zero,
                  records |-> [s \in Slot |-> NoRecord],
                  free |-> [i \in 1..MaxRecords |-> MaxRecords - i],
                  next_owner |-> 1,
                  counts |-> [p \in Phase |-> 0],
                  poisoned |-> FALSE,
                  anchored |-> FALSE]
    /\ tokens = {}

Occupied(counts) == counts["Reserved"] + counts["Retained"] + counts["Quarantined"]

(* The slots that the next n reservations take are vacant and distinct. *)
TopSlots(free, n) == SubSeq(free, Len(free) - n + 1, Len(free))
Vacancies(records, free, n) ==
    /\ IsInjective(TopSlots(free, n))
    /\ \A s \in ToSet(TopSlots(free, n)) : records[s] = NoRecord

(* One record for one charge. *)
Place(a, charge) ==
    [a EXCEPT !.free = Front(@),
              !.records[Last(a.free)] =
                  [owner |-> a.next_owner, charge |-> charge, phase |-> "Reserved"],
              !.next_owner = @ + 1,
              !.used = Plus(@, charge),
              !.counts["Reserved"] = @ + 1]

(* One record for each charge of a roster, in its order. *)
PlaceAll(a, charges) ==
    LET placed[i \in 0..Len(charges)] ==
            IF i = 0 THEN a ELSE Place(placed[i - 1], charges[i])
    IN  placed[Len(charges)]

(* The tokens for the owners from first on. *)
TokensFrom(records, first) ==
    {[slot |-> s, owner |-> records[s].owner, kind |-> "reservation"] :
        s \in {r \in DOMAIN records : records[r].owner >= first}}

RejectsBatch(a, charges) ==
    \/ a.poisoned
    \/ Len(charges) > Len(a.free)
    \/ ~ Fits(a.used, Total(charges), Capacity)
    \/ a.next_owner + Len(charges) > MaxOwner

(* reserve and reserve_batch; a rejection changes nothing. *)
ReserveBatch(charges) ==
    /\ ~ RejectsBatch(account, charges)
    /\ IF /\ Vacancies(account.records, account.free, Len(charges))
          /\ Len(charges) = 1 \/ Occupied(account.counts) + Len(account.free) = MaxRecords
       THEN /\ account' = PlaceAll(account, charges)
            /\ tokens' = tokens \cup TokensFrom(account'.records, account.next_owner)
       ELSE account' = [account EXCEPT !.poisoned = TRUE] /\ UNCHANGED tokens

(* The account holds a reference to itself from the first quarantine on. *)
Anchored(a, next) == a.anchored \/ next = "Quarantined"

(* Account::transition *)
transition(a, t, action) ==
    LET record == a.records[t.slot]
        next == CreditTransition(record.owner, t.owner, record.phase, action)
        old == record.phase
    IN  IF a.poisoned THEN [a EXCEPT !.anchored = TRUE]
        ELSE IF \/ next = "None" \/ a.counts[old] = 0
                \/ /\ next = "Vacant"
                   /\ Len(a.free) = MaxRecords \/ ~ Covers(a.used, record.charge)
        THEN [a EXCEPT !.poisoned = TRUE, !.anchored = TRUE]
        ELSE IF next = "Vacant"
        THEN [a EXCEPT !.used = Minus(@, record.charge),
                       !.counts[old] = @ - 1,
                       !.records[t.slot] = NoRecord,
                       !.free = Append(@, t.slot)]
        ELSE [a EXCEPT !.counts[old] = @ - 1, !.counts[next] = @ + 1,
                       !.records[t.slot].phase = next,
                       !.anchored = Anchored(a, next)]

Perform(t, action) == account' = transition(account, t, action)
Consume(t) == tokens' = tokens \ {t}

(* ResourceReservationV1::retain *)
Retain(t) ==
    /\ t.kind = "reservation"
    /\ Perform(t, "Retain")
    /\ tokens' = (tokens \ {t}) \cup {[t EXCEPT !.kind = "retained"]}

(* The drop of a reservation. *)
CancelUnissued(t) ==
    /\ t.kind = "reservation"
    /\ Perform(t, "CancelUnissued") /\ Consume(t)

(* release_after_rejection and release_after_disposal *)
Release(t) ==
    /\ t.kind = "retained"
    /\ \E action \in {"ReleaseRejected", "ReleaseDisposed"} : Perform(t, action)
    /\ Consume(t)

(* The drop of a retained credit. *)
Quarantine(t) ==
    /\ t.kind = "retained"
    /\ Perform(t, "Quarantine") /\ Consume(t)

Next ==
    \/ \E charges \in Batches : ReserveBatch(charges)
    \/ \E t \in tokens : Retain(t) \/ CancelUnissued(t) \/ Release(t) \/ Quarantine(t)

Spec == Init /\ [][Next]_vars

-----------------------------------------------------------------------------
Live == {s \in Slot : account.records[s] # NoRecord}

(* What is used is what the live records are charged, within the capacity, *)
(* whatever order tokens are settled in; the counters and the free list    *)
(* describe the same records.                                              *)
Conserved ==
    /\ account.used = ChargeOf(account.records, Live)
    /\ \A k \in Kind : account.used[k] <= Capacity[k]
    /\ \A p \in Phase :
          account.counts[p] = Cardinality({s \in Live : account.records[s].phase = p})
    /\ IsInjective(account.free) /\ ToSet(account.free) = Slot \ Live

(* Every charge that is not quarantined belongs to exactly one token, and  *)
(* a token never finds the record of another in its slot.                  *)
EveryChargeHasItsToken ==
    /\ \A s \in Live : account.records[s].phase # "Quarantined" =>
          Cardinality({t \in tokens : t.slot = s}) = 1
    /\ \A t \in tokens :
          /\ account.records[t.slot].owner = t.owner
          /\ account.records[t.slot].phase =
                IF t.kind = "reservation" THEN "Reserved" ELSE "Retained"
    /\ \A s, r \in Live : s # r => account.records[s].owner # account.records[r].owner

=============================================================================
