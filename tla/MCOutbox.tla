------------------------------ MODULE MCOutbox ------------------------------
(* Outbox for TLC: retry delays of one and two units.                       *)
EXTENDS Outbox, TLC

Delays == [attempt \in 1 .. MaxAttempts |-> IF attempt = 1 THEN 1 ELSE 2]

Symmetry == Permutations(Drains) \cup Permutations(Notices)
=============================================================================
