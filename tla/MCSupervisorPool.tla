------------------------- MODULE MCSupervisorPool -------------------------
(* SupervisorPool for TLC: one job, one review and one delegation. *)
EXTENDS SupervisorPool

CONSTANTS j, r, d

MCKind == [w \in Orders |-> IF w = j THEN "job" ELSE IF w = r THEN "review" ELSE "delegation"]
===========================================================================
