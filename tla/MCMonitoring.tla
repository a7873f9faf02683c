---------------------------- MODULE MCMonitoring ----------------------------
(* Monitoring for TLC: two interchangeable runs, whose configuration asks   *)
(* for one check or for two to confirm a verdict.                           *)
EXTENDS Monitoring, TLC

Verdicts == {<<1, 1>>, <<2, 2>>}

Symmetry == Permutations(Runs)
=============================================================================
