---------------------------- MODULE MCReconcile -----------------------------
(***************************************************************************)
(* Reconcile for TLC, with the symmetries of its safety runs: requests are *)
(* interchangeable, and so are the ledger files other than the real one.   *)
(***************************************************************************)
EXTENDS Reconcile, TLC

Symmetry == Permutations(Requests) \cup Permutations(Files \ {Ledger})
=============================================================================
