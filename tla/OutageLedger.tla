---------------------------- MODULE OutageLedger ----------------------------
(***************************************************************************)
(* What monitoring promises to whoever reads the incidents and gets the    *)
(* mail, with no checks, versions, runs or transactions in sight.  An      *)
(* outage of a monitor is one incident, after all earlier ones, announced  *)
(* in the step that records it.  It ends once: with a recovery, announced  *)
(* in that step too, or silently when the monitor is no longer watched.    *)
(* Any number of monitors may take such a step at once.                    *)
(***************************************************************************)
EXTENDS Integers

CONSTANTS Monitors,
          None       \* no time

VARIABLES watched,    \* the monitors that are neither paused nor archived
          incidents,  \* the record of outages
          outbox      \* what was announced: monitor, start of the outage, event

vars == <<watched, incidents, outbox>>

Of(m)   == {i \in incidents : i.monitor = m}
Open(m) == {i \in Of(m) : i.resolvedAt = None}
Told(m) == {n \in outbox : n[1] = m}

Init == watched \subseteq Monitors /\ incidents = {} /\ outbox = {}

\* Nothing is recorded; people may begin to watch a monitor or, unless it is in
\* an outage, leave it.
Stays(m) ==
  /\ Of(m)' = Of(m)
  /\ Told(m)' = Told(m)
  /\ Open(m) # {} => m \in watched'

Begins(m) ==
  /\ m \in watched /\ m \in watched'
  /\ Open(m) = {}
  /\ \E i \in incidents' :
       /\ i.monitor = m /\ i.resolvedAt = None
       /\ \A j \in Of(m) : j.openedAt < i.openedAt /\ j.resolvedAt <= i.openedAt
       /\ Of(m)' = Of(m) \cup {i}
       /\ Told(m)' = Told(m) \cup {<<m, i.openedAt, "opened">>}

\* The incident i becomes j, and is over.
Ends(i, j, reason) ==
  /\ j.monitor = i.monitor /\ j.openedAt = i.openedAt /\ j.reason = reason
  /\ j.resolvedAt # None /\ i.openedAt <= j.resolvedAt
  /\ Of(i.monitor)' = (Of(i.monitor) \ {i}) \cup {j}

Recovers(m) ==
  /\ m \in watched /\ m \in watched'
  /\ \E i \in Open(m), j \in incidents' :
       /\ Ends(i, j, "recovered")
       /\ Told(m)' = Told(m) \cup {<<m, i.openedAt, "resolved">>}

Closes(m) ==
  /\ m \in watched /\ m \notin watched'
  /\ \E i \in Open(m), j \in incidents' : Ends(i, j, "lifecycle")
  /\ Told(m)' = Told(m)

Next == \A m \in Monitors : Stays(m) \/ Begins(m) \/ Recovers(m) \/ Closes(m)

Spec == Init /\ [][Next]_vars
=============================================================================
