------------------------- MODULE ExclusiveAttempts -------------------------
(***************************************************************************)
(* What the attempt journal promises to a work order: attempts are opened  *)
(* one at a time; an open attempt is either refused before it ran or run   *)
(* once and ended with one final result.                                   *)
(***************************************************************************)
CONSTANT Attempt
VARIABLE status   \* [Attempt -> new | reserved | running | a final result]

Results == {"success", "failure", "timeout"}

Open(a) == status[a] \in {"reserved", "running"}

Init == status = [a \in Attempt |-> "new"]

Reserve(a) == /\ status[a] = "new"
              /\ \A b \in Attempt : ~Open(b)
              /\ status' = [status EXCEPT ![a] = "reserved"]

\* The attempt ends without having run.
Refuse(a) == status[a] = "reserved" /\ status' = [status EXCEPT ![a] = "failure"]

Run(a) == status[a] = "reserved" /\ status' = [status EXCEPT ![a] = "running"]

End(a, result) ==
  status[a] = "running" /\ status' = [status EXCEPT ![a] = result]

Next == \E a \in Attempt : \/ Reserve(a) \/ Refuse(a) \/ Run(a)
                           \/ \E result \in Results : End(a, result)

Spec == Init /\ [][Next]_status
=============================================================================
