--------------------------- MODULE MCStatusReports ---------------------------
(* Two reports, two updates, one incident and two requests. *)
EXTENDS StatusReports, TLC

Symmetry == Permutations(Reports) \cup Permutations(Requests)
=============================================================================
