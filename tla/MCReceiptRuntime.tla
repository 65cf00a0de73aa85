-------------------------- MODULE MCReceiptRuntime --------------------------
(* Symmetry for checking ReceiptRuntime with TLC.                           *)
EXTENDS ReceiptRuntime, TLC

Symmetry == Permutations(Procs) \cup Permutations(Bodies)
=============================================================================
