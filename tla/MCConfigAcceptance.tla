------------------------- MODULE MCConfigAcceptance -------------------------
(* ConfigAcceptance for TLC: five monitors, two of them in a group.         *)
EXTENDS ConfigAcceptance

CONSTANTS m1, m2, m3, m4, m5, g1

Five == [m \in Monitors |-> IF m \in {m1, m2} THEN g1 ELSE Alone]
Four == [Five EXCEPT ![m5] = Off]                    \* allowed from Five
Three == [Four EXCEPT ![m4] = Off]                   \* needs consent
Ungrouped == [Five EXCEPT ![m1] = Alone, ![m2] = Alone]  \* needs consent

TwoConfigs == {Five, Three}
GroupConfigs == {Five, Four, Ungrouped}
InStep == {0}
Skewed == {-1, 0, 1}
=============================================================================
