--------------------------- MODULE SessionMailbox ---------------------------
(***************************************************************************)
(* What the message queue promises the senders of messages, without its    *)
(* gates, timers, slots and files: each lane is a line in which messages   *)
(* are served one at a time in the order of their acceptance, each is      *)
(* served at most once ever and answered at most once, only a message not  *)
(* yet served can be withdrawn, and a restart forgets the ones in service. *)
(***************************************************************************)
EXTENDS Sequences, Naturals, SequencesExt

CONSTANTS Message, Lane, LaneOf

VARIABLES
  line,    \* [Lane -> Seq(Message)]: accepted and unanswered, oldest first
  served,  \* messages that have been handed over, now or before
  answer   \* what each sender has been told

mailbox == <<line, served, answer>>

InLine(m) == \E i \in DOMAIN line[LaneOf[m]] : line[LaneOf[m]][i] = m

Init ==
  /\ line = [l \in Lane |-> <<>>]
  /\ served = {}
  /\ answer = [m \in Message |-> "new"]

\* Join the line; the oldest of it, which waited for a free place or is m itself,
\* may be served at once.
Join(m) ==
  LET joined == Append(line[LaneOf[m]], m) IN
  /\ ~InLine(m) /\ m \notin served
  /\ line' = [line EXCEPT ![LaneOf[m]] = joined]
  /\ answer' = [answer EXCEPT ![m] = "pending"]
  /\ \/ UNCHANGED served
     \/ Head(joined) \notin served /\ served' = served \cup {Head(joined)}

Accept(m) == answer[m] = "new" /\ Join(m)

Refuse(m) ==
  /\ answer[m] = "new"
  /\ answer' = [answer EXCEPT ![m] = "refused"]
  /\ UNCHANGED <<line, served>>

\* The oldest of the line is handed over.
Serve(l) ==
  /\ line[l] # <<>> /\ Head(line[l]) \notin served
  /\ served' = served \cup {Head(line[l])}
  /\ UNCHANGED <<line, answer>>

\* It gets its answer and leaves the line.
Settle(l) ==
  /\ line[l] # <<>> /\ Head(line[l]) \in served
  /\ \E v \in {"resolved", "rejected"} :
       answer' = [answer EXCEPT ![Head(line[l])] = v]
  /\ line' = [line EXCEPT ![l] = Tail(@)]
  /\ UNCHANGED served

Withdraw(l) ==
  /\ \E i \in DOMAIN line[l] :
       /\ line[l][i] \notin served
       /\ answer' = [answer EXCEPT ![line[l][i]] = "rejected"]
       /\ line' = [line EXCEPT ![l] = RemoveAt(@, i)]
  /\ UNCHANGED served

\* A message in service is not answered after a restart.
Restart ==
  /\ line' = [l \in Lane |-> <<>>]
  /\ \E kept \in SUBSET {m \in Message : answer[m] = "pending" /\ m \notin served} :
       answer' = [m \in Message |->
                    IF answer[m] = "pending" /\ m \notin kept THEN "gone"
                    ELSE answer[m]]
  /\ UNCHANGED served

\* A message that survived a restart joins its line again or is dropped as
\* already done.  One withdrawn just before a crash may come back as well.
Survived(m) == answer[m] \in {"pending", "rejected"} /\ ~InLine(m)

Readmit(m) == Survived(m) /\ Join(m)

Discard(m) ==
  /\ Survived(m) /\ m \notin served
  /\ answer' = [answer EXCEPT ![m] = "discarded"]
  /\ UNCHANGED <<line, served>>

Next ==
  \/ \E m \in Message : Accept(m) \/ Refuse(m) \/ Readmit(m) \/ Discard(m)
  \/ \E l \in Lane : Serve(l) \/ Settle(l) \/ Withdraw(l)
  \/ Restart

Spec == Init /\ [][Next]_mailbox
=============================================================================
