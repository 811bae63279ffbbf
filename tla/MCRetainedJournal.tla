-------------------------- MODULE MCRetainedJournal --------------------------
(* RetainedJournal for TLC: the configurations give every constant a value *)
(* and no set is large enough to need a definition here.                   *)
EXTENDS RetainedJournal

=============================================================================
