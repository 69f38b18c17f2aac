----------------------- MODULE MessageQueueRefinement -----------------------
(* MessageQueue implements SessionMailbox: a lane's line is the message its   *)
(* handler is executing followed by the ones that wait.                       *)
EXTENDS MessageQueue

First(S) == CHOOSE m \in S : TRUE

\* The line of lane l, from the messages in handlers and the queue of the lane.
LineOf(executing, queue, l) ==
  LET inService == {m \in executing : LaneOf[m] = l}
  IN  IF inService = {} THEN queue ELSE <<First(inService)>> \o queue

Lines == [l \in Lane |-> LineOf(running, waiting[l], l)]
Served == {m \in Message : handled[m] > 0}
Answers == [m \in Message |->
              IF outcome[m] \in {"duplicate", "full"} THEN "refused" ELSE outcome[m]]

Mailbox == INSTANCE SessionMailbox WITH
  line <- Lines, served <- Served, answer <- Answers

\* Messages of a lane are served one by one in the order of acceptance and
\* answered once, across hooks that refuse, busy agents, cancellations and
\* restarts: the queue implements the mailbox.
ServesInOrder == Mailbox!Spec
=============================================================================
