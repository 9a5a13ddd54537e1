--------------------------- MODULE MCEventDispatch ---------------------------
(* Instances of EventDispatch for TLC: three or four events of two workflow *)
(* types and two target states, and listeners with every kind of filter.    *)
EXTENDS EventDispatch, TLC

CONSTANTS e1, e2, e3, e4, wildcard, byType, byState

MCEventType == [e \in Events |-> IF e \in {e1, e3} THEN "approval" ELSE "order"]
MCEventState == [e \in Events |-> IF e \in {e1, e2} THEN "Approved" ELSE "Paid"]

MCTypeFilter == [l \in Listeners |-> IF l = byType THEN "approval" ELSE ""]
MCStateFilter == [l \in Listeners |-> IF l = wildcard THEN "" ELSE "Approved"]
=============================================================================
