------------------------- MODULE MCOperationLifecycle -------------------------
(* OperationLifecycle for TLC. *)
EXTENDS OperationLifecycle

=============================================================================
