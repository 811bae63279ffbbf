---------------------------- MODULE ResourceCredits ----------------------------
(***************************************************************************)
(* Resource vectors and the phases of a credit (fe2o3-runtime-model,       *)
(* r67_resource_credits.rs): what both kinds of ledger compute with.       *)
(***************************************************************************)
EXTENDS Integers, Sequences, SequencesExt, FiniteSets, FiniteSetsExt

CONSTANTS
    Kind,         \* the dimensions of a resource vector
    MaxRecords,   \* the slots for records
    MaxOwner      \* the largest owner number (u64::MAX)

ASSUME CreditsAssumption == MaxRecords \in Nat \ {0} /\ MaxOwner \in Nat \ {0}

Vector == [Kind -> Nat]
Zero == [k \in Kind |-> 0]

Plus(used, charge) == [k \in Kind |-> used[k] + charge[k]]
Minus(used, charge) == [k \in Kind |-> used[k] - charge[k]]
(* What a roster of charges amounts to. *)
Total(charges) ==
    LET total[i \in 0..Len(charges)] ==
            IF i = 0 THEN Zero ELSE Plus(total[i - 1], charges[i])
    IN  total[Len(charges)]

(* r67_resource_reserve_v1 accepts: every coordinate stays within capacity. *)
Fits(used, charge, capacity) == \A k \in Kind : used[k] + charge[k] <= capacity[k]

(* r67_resource_release_v1 accepts: no coordinate goes below zero. *)
Covers(used, charge) == \A k \in Kind : used[k] >= charge[k]

Phase == {"Reserved", "Retained", "Quarantined"}
Action == {"Retain", "CancelUnissued", "ReleaseRejected", "ReleaseDisposed", "Quarantine"}

(* r67_credit_transition_v1: the next phase, or None. *)
CreditTransition(actual, expected, phase, action) ==
    CASE actual = 0 \/ actual # expected -> "None"
      [] phase = "Reserved" /\ action = "Retain" -> "Retained"
      [] phase = "Reserved" /\ action = "CancelUnissued" -> "Vacant"
      [] phase = "Retained" /\ action \in {"ReleaseRejected", "ReleaseDisposed"} -> "Vacant"
      [] phase = "Retained" /\ action = "Quarantine" -> "Quarantined"
      [] OTHER -> "None"

NoRecord == [owner |-> 0, charge |-> Zero, phase |-> "Vacant"]

ChargeOf(records, slots) ==
    Total([i \in 1..MaxRecords |-> IF i - 1 \in slots THEN records[i - 1].charge ELSE Zero])

=============================================================================
