--------------------------- MODULE MCResourceDomain ---------------------------
(***************************************************************************)
(* ResourceDomain for TLC: two dimensions, children that promise more than *)
(* their parent has, a charge of nothing and a batch.                      *)
(***************************************************************************)
EXTENDS ResourceDomain

Charge(bytes, count) == [k \in Kind |-> IF k = "bytes" THEN bytes ELSE count]
MCCapacity == Charge(4, 2)
MCBaseline == Charge(1, 0)
MCShapes == {[capacity |-> Charge(4, 1), limit |-> 2]}
MCBatches == {<<Charge(0, 0)>>, <<Charge(2, 1)>>, <<Charge(1, 0), Charge(0, 1)>>}

=============================================================================
