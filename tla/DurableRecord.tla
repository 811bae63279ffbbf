---------------------------- MODULE DurableRecord ----------------------------
(***************************************************************************)
(* What a journal of one record promises to the ledger above it.  The      *)
(* record is the history of the values committed.  A commit that was not   *)
(* acknowledged may be kept or be lost, once, by a loss of power; an       *)
(* acknowledged one is never lost, and no commit starts before the last    *)
(* one was acknowledged.                                                   *)
(***************************************************************************)
EXTENDS Naturals, Sequences

CONSTANTS
    Values,         \* what a commit may append
    MaxVersion      \* bound on the length of the history

VARIABLES
    record,         \* the record recovery would find
    acknowledged    \* the last record returned to the ledger

vars == <<record, acknowledged>>

Init == record = <<>> /\ acknowledged = <<>>

Propose(value) ==
    /\ record = acknowledged
    /\ Len(record) < MaxVersion
    /\ record' = Append(record, value)
    /\ UNCHANGED acknowledged

Acknowledge ==
    /\ acknowledged' = record
    /\ UNCHANGED record

Lose ==
    /\ record' = acknowledged
    /\ UNCHANGED acknowledged

Next == (\E v \in Values : Propose(v)) \/ Acknowledge \/ Lose

Spec == Init /\ [][Next]_vars

=============================================================================
