---------------------------- MODULE MCServiceState ----------------------------
(* ServiceState for TLC: what each task depends on, and which identifiers    *)
(* no rule tells apart.                                                      *)
EXTENDS ServiceState, TLC

NoNeeds == [t \in Tasks |-> {}]
EachNeedsAll == [t \in Tasks |-> Dependencies]
MCSymmetry == Permutations(Tasks) \cup Permutations(Records) \cup Permutations(Leases)
              \cup Permutations(Workers)

=============================================================================
