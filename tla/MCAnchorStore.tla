---------------------------- MODULE MCAnchorStore ----------------------------
(* Instances of AnchorStore for TLC.                                       *)
EXTENDS AnchorStore, TLC

(* Heads of well-formed chains shorter than the largest sequence.          *)
MCPriorHeads ==
    UNION {{h \in [1..n -> Link] : \A k \in 1..n : h[k].sequence = k} :
              n \in 0..(MaxSequence - 1)}

(* Every challenge on such a head, with the right or a wrong sequence.     *)
MCRequests ==
    [kind : {"Advance", "Recover"}, sequence : 1..MaxSequence,
     prior : MCPriorHeads, transaction : Transactions]

MCSymmetry == Permutations(Instances) \cup Permutations(Transactions)

=============================================================================
