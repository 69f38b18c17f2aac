--------------------------- MODULE MCInstanceLock ---------------------------
(* InstanceLock for TLC: processes and pids are interchangeable. *)
EXTENDS InstanceLock, TLC

Symmetry == Permutations(Process) \cup Permutations(Pid)
=============================================================================
