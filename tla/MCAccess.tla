------------------------------ MODULE MCAccess ------------------------------
(* One installation, linked by two codes, the first of which is polled twice. *)
EXTENDS Access, TLC
CONSTANTS p1, p2, p3, a1, a2, a3, d1, c1, c2, k1, k2, r1, r2
OneDevice == [c \in {c1, c2} |-> d1]
OneCode == [k \in {k1, k2} |-> c1]
Symmetry == Permutations({p1, p2, p3}) \cup Permutations({a1, a2, a3}) \cup
            Permutations({k1, k2}) \cup Permutations({r1, r2})
=============================================================================
