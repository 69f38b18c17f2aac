-------------------------- MODULE MCCapacityLeases --------------------------
(* CapacityLeases for TLC: kinds, triggers and agents of the model values. *)
EXTENDS CapacityLeases

CONSTANTS p1, s1, r1, d1, d2, w1, f1

MCKindOf == [w \in Work |-> CASE w = p1 -> "project"
                              [] w = s1 -> "system"
                              [] w \in {r1, f1} -> "review"
                              [] w = w1 -> "workspace"
                              [] w \in {d1, d2} -> "delegate"]

MCTriggerOf == [w \in Work |-> CASE w = d1 -> "operator"
                                 [] w = d2 -> "resource-repair"
                                 [] OTHER -> "background"]

\* The repository of f1 is configured for the other agent.
MCAgentOf == [w \in Work |-> IF w = f1 THEN "codex" ELSE "claude"]
=============================================================================
