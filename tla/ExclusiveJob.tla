--------------------------- MODULE ExclusiveJob ---------------------------
(***************************************************************************)
(* What the cron coordinator promises to the work it runs: no two          *)
(* invocations of one job work at the same time, and no scheduled minute   *)
(* is worked on twice, whatever the platform delivers, kills or repeats.   *)
(***************************************************************************)
CONSTANTS Invocations,  \* function invocations of one cron job
          Minutes,      \* the scheduled minutes
          NoOwner       \* no invocation

VARIABLES worker,   \* the invocation doing the job's work, or NoOwner
          begun     \* the scheduled minutes whose work was ever begun

vars == <<worker, begun>>

Init == worker = NoOwner /\ begun = {}

Begin(i, m) ==
  /\ worker = NoOwner
  /\ m \notin begun
  /\ worker' = i
  /\ begun' = begun \cup {m}

\* The minute is recorded, but its work never starts.
Miss(m) ==
  /\ begun' = begun \cup {m}
  /\ UNCHANGED worker

End(i) ==
  /\ worker = i
  /\ worker' = NoOwner
  /\ UNCHANGED begun

Next ==
  \/ \E i \in Invocations : End(i)
  \/ \E m \in Minutes : Miss(m) \/ \E i \in Invocations : Begin(i, m)

Spec == Init /\ [][Next]_vars
=============================================================================
