--------------------------- MODULE MonotonicAnchor ---------------------------
(***************************************************************************)
(* What an external anchor promises to the clients that believe its signed *)
(* observations: one hash chain that only grows, one link per sequence,    *)
(* and no signature for anything but its current end.                      *)
(***************************************************************************)
EXTENDS Naturals, Sequences

CONSTANTS
    Transactions,   \* transaction digests a client may anchor
    MaxSequence     \* largest sequence

VARIABLES
    chain,          \* transactions anchored so far, in sequence order
    observed        \* every chain that was signed as Proposed

vars == <<chain, observed>>

Init == chain = <<>> /\ observed = {}

Anchor(transaction) ==
    /\ Len(chain) < MaxSequence
    /\ chain' = Append(chain, transaction)
    /\ UNCHANGED observed

Observe ==
    /\ chain # <<>>
    /\ observed' = observed \cup {chain}
    /\ UNCHANGED chain

Next == (\E t \in Transactions : Anchor(t)) \/ Observe

Spec == Init /\ [][Next]_vars

=============================================================================
