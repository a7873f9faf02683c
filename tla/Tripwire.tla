------------------------------ MODULE Tripwire ------------------------------
(***************************************************************************)
(* evaluateDestructiveChange (lib/config/tripwire.ts): which changes of    *)
(* the configuration need an approval.  A configuration is what the        *)
(* tripwire and the registry tell apart: the active monitors and the group *)
(* of each.                                                                *)
(***************************************************************************)
EXTENDS Integers, FiniteSets

CONSTANTS
  Monitors, Groups,
  Alone,  \* an active monitor without a group
  Off     \* a monitor that is disabled or not in the document

Config == [Monitors -> Groups \cup {Alone, Off}]

Active(config) == {m \in Monitors : config[m] # Off}

MaxRemoved == 5
MaxPercentage == 20

Destructive(previous, candidate) ==
  LET removed == Cardinality(Active(previous) \ Active(candidate))
  IN  \/ Active(previous) # {} /\ Active(candidate) = {}
      \/ removed > MaxRemoved
      \/ removed * 100 > MaxPercentage * Cardinality(Active(previous))
      \/ \E g \in Groups :
           LET members == {m \in Monitors : previous[m] = g}
           IN  Cardinality(members) >= 2 /\ \A m \in members : candidate[m] # g
=============================================================================
