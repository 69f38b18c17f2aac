--------------------------- MODULE MCMessageQueue ---------------------------
(* Instances of MessageQueue for TLC.                                        *)
EXTENDS MessageQueueRefinement

CONSTANTS s1, s2, global, none, user, loop, t1, t2,
          a1, a2, verb, d1, d2, d3, g1

\* Two prompts with one text, a control verb and a supervisor prompt in one
\* session, a supervisor prompt in another, and a bot-level message.
MCLaneOf ==
  [m \in Message |-> CASE m \in {a1, a2, verb, d1, d3} -> s1
                       [] m = d2 -> s2
                       [] OTHER -> global]
MCChatOf == [m \in Message |-> IF m \in {d1, d2, d3} THEN loop ELSE user]
MCText0 == [m \in Message |-> IF m \in {d2, a2} THEN t2 ELSE t1]
MCPrompt == Message \ {verb, g1}
MCDurable == {d1, d2, d3} \cap Message
MCHooked == MCDurable
MCRestorable == {d1, d2} \cap Message
=============================================================================
