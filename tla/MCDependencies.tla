--------------------------- MODULE MCDependencies ---------------------------
(* One preset that is removed and added again. *)
EXTENDS Dependencies, TLC
CONSTANTS e1, p1, d1, d2
Symmetry == Permutations({d1, d2})
Fidelities == p1 :> "component"
PresetsOf == [d \in {d1, d2} |-> p1]
OneInstall == d1 :> p1
=============================================================================
