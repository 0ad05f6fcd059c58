----------------------------- MODULE MCVerdict ------------------------------
(***************************************************************************)
(* Verdict for TLC: which incidents a run considers.                       *)
(***************************************************************************)
EXTENDS Verdict

Vetted == Singles \cup Pairs
=============================================================================
