--------------------------- MODULE MCIdempotency ---------------------------
(* Idempotency for TLC: one route of each mode.                            *)
EXTENDS Idempotency, TLC

MCRoutes == {"token", "apply", "refresh"}
MCModeOf == [x \in MCRoutes |-> CASE x = "token"   -> "atomic"
                                  [] x = "apply"   -> "replay_safe"
                                  [] x = "refresh" -> "conservative"]

Symmetry == Permutations(Requests)
=============================================================================
