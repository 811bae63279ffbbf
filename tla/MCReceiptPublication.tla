------------------------- MODULE MCReceiptPublication -------------------------
(* ReceiptPublication for TLC: all its constants are bounds.               *)
EXTENDS ReceiptPublication

=============================================================================
