-------------------------- MODULE QuiescentRetention --------------------------
(***************************************************************************)
(* What fe2o3-completion promises its callers: the resources of an         *)
(* operation come back only when the backend can no longer access them,    *)
(* and once; otherwise they stay held or are lost for good.                *)
(***************************************************************************)
CONSTANT Operation

VARIABLES
    busy,  \* operations whose resources the backend may still access
    fate   \* per operation: "held", "returned" or "lost"

vars == <<busy, fate>>

Init ==
    /\ busy = Operation
    /\ fate = [o \in Operation |-> "held"]

BackendFinishes(o) ==
    /\ o \in busy
    /\ busy' = busy \ {o}
    /\ UNCHANGED fate

(* One call may return, or lose, the resources of several operations. *)
Return(os) ==
    /\ \A o \in os : fate[o] = "held" /\ o \notin busy
    /\ fate' = [o \in Operation |-> IF o \in os THEN "returned" ELSE fate[o]]
    /\ UNCHANGED busy

Lose(os) ==
    /\ \A o \in os : fate[o] = "held"
    /\ fate' = [o \in Operation |-> IF o \in os THEN "lost" ELSE fate[o]]
    /\ UNCHANGED busy

Next ==
    \/ \E o \in Operation : BackendFinishes(o)
    \/ \E os \in SUBSET Operation : Return(os) \/ Lose(os)

Spec == Init /\ [][Next]_vars

=============================================================================
