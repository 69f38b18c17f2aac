------------------------- MODULE MessageQueueProofs -------------------------
(* Safety of MessageQueue for every set of messages and sessions.            *)
EXTENDS MessageQueueRefinement, TLAPS, SequenceTheorems, FiniteSetTheorems

-----------------------------------------------------------------------------
(* Lanes as sequences *)

LEMMA RemoveAtOK ==
  ASSUME NEW S, NEW s \in Seq(S), NEW i \in DOMAIN s
  PROVE  /\ RemoveAt(s, i) \in Seq(S)
         /\ Len(RemoveAt(s, i)) = Len(s) - 1
         /\ \A j \in 1 .. Len(s) - 1 :
              RemoveAt(s, i)[j] = IF j < i THEN s[j] ELSE s[j + 1]
<1>1. Len(s) \in Nat /\ DOMAIN s = 1 .. Len(s) /\ i \in 1 .. Len(s)
  BY LenProperties
<1>2. \A j \in 1 .. Len(s) : s[j] \in S
  BY ElementOfSeq
<1> DEFINE a == SubSeq(s, 1, i - 1)
           b == SubSeq(s, i + 1, Len(s))
<1>3. /\ a \in Seq(S) /\ Len(a) = i - 1
      /\ \A j \in 1 .. i - 1 : a[j] = s[j]
  <2>1. i - 1 \in Int /\ \A j \in 1 .. i - 1 : s[j] \in S
    BY <1>1, <1>2
  <2>2. /\ a \in Seq(S) /\ Len(a) = (IF 1 <= i - 1 THEN (i - 1) - 1 + 1 ELSE 0)
        /\ \A j \in 1 .. (i - 1) - 1 + 1 : a[j] = s[1 + j - 1]
    BY <2>1, SubSeqProperties
  <2> QED  BY <1>1, <2>2
<1>4. /\ b \in Seq(S) /\ Len(b) = Len(s) - i
      /\ \A j \in 1 .. Len(s) - i : b[j] = s[i + j]
  <2>1. i + 1 \in Int /\ Len(s) \in Int /\ \A j \in i + 1 .. Len(s) : s[j] \in S
    BY <1>1, <1>2
  <2>2. /\ b \in Seq(S)
        /\ Len(b) = (IF i + 1 <= Len(s) THEN Len(s) - (i + 1) + 1 ELSE 0)
        /\ \A j \in 1 .. Len(s) - (i + 1) + 1 : b[j] = s[i + 1 + j - 1]
    BY <2>1, SubSeqProperties
  <2> QED  BY <1>1, <2>2
<1>5. /\ a \o b \in Seq(S)
      /\ Len(a \o b) = Len(a) + Len(b)
      /\ \A j \in 1 .. Len(a) + Len(b) :
           (a \o b)[j] = IF j <= Len(a) THEN a[j] ELSE b[j - Len(a)]
  BY <1>3, <1>4, ConcatProperties
<1>6. RemoveAt(s, i) = a \o b
  BY DEF RemoveAt
<1>7. Len(a \o b) = Len(s) - 1
  BY <1>1, <1>3, <1>4, <1>5
<1>8. ASSUME NEW j \in 1 .. Len(s) - 1
      PROVE  (a \o b)[j] = IF j < i THEN s[j] ELSE s[j + 1]
  <2>1. CASE j < i
    BY <1>1, <1>3, <1>4, <1>5, <2>1
  <2>2. CASE ~(j < i)
    <3>1. (a \o b)[j] = b[j - (i - 1)]
      <4>1. j \in 1 .. Len(a) + Len(b) /\ Len(a) = i - 1
        BY <1>1, <1>3, <1>4
      <4> HIDE DEF a, b
      <4> QED  BY <1>1, <1>5, <2>2, <4>1
    <3>2. j - (i - 1) \in 1 .. Len(s) - i /\ i + (j - (i - 1)) = j + 1
      BY <1>1, <2>2
    <3> QED  BY <1>4, <2>2, <3>1, <3>2
  <2> QED  BY <2>1, <2>2
<1> QED  BY <1>5, <1>6, <1>7, <1>8

LEMMA HeadTailOK ==
  ASSUME NEW S, NEW w \in Seq(S), w # <<>>
  PROVE  Head(w) \in S /\ Tail(w) \in Seq(S)
  BY HeadTailProperties

-----------------------------------------------------------------------------
(* Types *)

\* The part of TypeOK that work on a lane can disturb.
LaneTypeOK ==
  /\ waiting \in [Lane -> Seq(Message)]
  /\ \A l \in Lane : waiting[l] \in Seq(Owned(l))
  /\ processing \subseteq Lane
  /\ gate \subseteq {m \in Message : LaneOf[m] \in Session}
  /\ running \subseteq Message
  /\ current \in [Lane -> Message \cup {None}]
  /\ retry \subseteq Session
  /\ consumed \subseteq Message
  /\ handled \in [Message -> Nat]
  /\ disk \in [backlog : SUBSET Message, dispatched : SUBSET Message]

LEMMA OwnedIsMessage ==
  ASSUME NEW l \in Lane, NEW w \in Seq(Owned(l))
  PROVE  w \in Seq(Message)
  <1>1. Owned(l) \subseteq Message
    BY DEF Owned
  <1> QED  BY <1>1, SeqMonotonic

\* Replacing the queue of one lane.
LEMMA WaitingOK ==
  ASSUME LaneTypeOK, NEW l \in Lane, NEW w \in Seq(Owned(l)),
         waiting' = [waiting EXCEPT ![l] = w]
  PROVE  /\ waiting' \in [Lane -> Seq(Message)]
         /\ \A k \in Lane : waiting'[k] \in Seq(Owned(k))
  BY OwnedIsMessage DEF LaneTypeOK

\* What is written to pending.json names messages only.
LEMMA SnapshotOK ==
  ASSUME QueueAssumption, carry \subseteq Message, NEW w, NEW cur
  PROVE  Snapshot(w, cur) \in [backlog : SUBSET Message, dispatched : SUBSET Message]
  BY DEF Snapshot, QueueAssumption

LEMMA WriteOK ==
  ASSUME QueueAssumption, LaneTypeOK, carry \subseteq Message, NEW w, NEW cur,
         WritePersistedNow(w, cur)
  PROVE  disk' \in [backlog : SUBSET Message, dispatched : SUBSET Message]
  BY SnapshotOK DEF WritePersistedNow, LaneTypeOK

LEMMA LeaveOK ==
  ASSUME LaneTypeOK, NEW l \in Lane, NEW w \in Seq(Owned(l)),
         NEW timers \in SUBSET Session, Leave(l, w, timers), consumed' \subseteq Message,
         gate' \subseteq {m \in Message : LaneOf[m] \in Session}
  PROVE  LaneTypeOK'
<1>1. /\ waiting' \in [Lane -> Seq(Message)]
      /\ \A k \in Lane : waiting'[k] \in Seq(Owned(k))
  BY WaitingOK DEF Leave
<1> QED  BY <1>1 DEF Leave, LaneTypeOK, Owned

LEMMA DispatchOK ==
  ASSUME QueueAssumption, LaneTypeOK, carry \subseteq Message, NEW l \in Lane,
         NEW held \in Seq(Owned(l)), held # <<>>, NEW timers \in SUBSET Session,
         Dispatch(l, held, timers), consumed' \subseteq Message,
         gate' \subseteq {m \in Message : LaneOf[m] \in Session}
  PROVE  LaneTypeOK'
<1>1. Head(held) \in Owned(l) /\ Tail(held) \in Seq(Owned(l))
  BY HeadTailOK
<1>2. /\ waiting' \in [Lane -> Seq(Message)]
      /\ \A k \in Lane : waiting'[k] \in Seq(Owned(k))
  BY <1>1, WaitingOK DEF Dispatch
<1>3. disk' \in [backlog : SUBSET Message, dispatched : SUBSET Message]
  BY WriteOK DEF Dispatch
<1>4. Head(held) \in Message
  BY <1>1 DEF Owned
<1>5. handled' \in [Message -> Nat]
  BY <1>4 DEF Dispatch, LaneTypeOK
<1> QED  BY <1>2, <1>3, <1>4, <1>5 DEF Dispatch, LaneTypeOK, Owned

LEMMA HookOK ==
  ASSUME QueueAssumption, LaneTypeOK, carry \subseteq Message, NEW l \in Lane,
         NEW h \in Owned(l), NEW w \in Seq(Owned(l)), NEW held \in Seq(Owned(l)),
         NEW timers \in SUBSET Session,
         HookRefuses(l, h, w, timers) \/ HookAllows(l, h, held, timers),
         gate' \subseteq {m \in Message : LaneOf[m] \in Session}
  PROVE  LaneTypeOK'
<1>1. CASE HookRefuses(l, h, w, timers)
  <2>1. l \in Session
    BY <1>1 DEF HookRefuses, QueueAssumption, Owned
  <2>2. timers \cup {l} \in SUBSET Session /\ consumed' \subseteq Message
    BY <1>1, <2>1 DEF HookRefuses, LaneTypeOK
  <2> QED  BY <1>1, <2>2, LeaveOK DEF HookRefuses
<1>2. CASE HookAllows(l, h, held, timers)
  <2>1. consumed' \subseteq Message
    BY <1>2 DEF HookAllows, LaneTypeOK, Owned
  <2>2. <<>> \in Seq(Owned(l))
    BY EmptySeq
  <2>3. CASE held = <<>>
    BY <1>2, <2>1, <2>2, <2>3, LeaveOK DEF HookAllows
  <2>4. CASE held # <<>>
    BY <1>2, <2>1, <2>4, DispatchOK DEF HookAllows
  <2> QED  BY <2>3, <2>4
<1> QED  BY <1>1, <1>2

LEMMA ProcessLaneOK ==
  ASSUME QueueAssumption, LaneTypeOK, carry \subseteq Message, NEW l \in Lane,
         NEW w \in Seq(Owned(l)), NEW fresh \in BOOLEAN,
         NEW timers \in SUBSET Session, ProcessLane(l, w, fresh, timers)
  PROVE  LaneTypeOK'
<1>1. CASE SlotsTaken(l) /\ Leave(l, w, timers \cup {l}) /\ UNCHANGED <<gate, consumed>>
  <2>1. timers \cup {l} \in SUBSET Session
    BY <1>1 DEF SlotsTaken, Lane
  <2> QED  BY <1>1, <2>1, LeaveOK DEF LaneTypeOK
<1>2. CASE Leave(l, <<>>, timers) /\ UNCHANGED <<gate, consumed>>
  <2>1. <<>> \in Seq(Owned(l))
    BY EmptySeq
  <2> QED  BY <1>2, <2>1, LeaveOK DEF LaneTypeOK
<1>3. CASE w # <<>> /\ Gated(l, w, fresh) /\ AwaitGate(l, w, timers)
  <2>1. /\ waiting' \in [Lane -> Seq(Message)]
        /\ \A k \in Lane : waiting'[k] \in Seq(Owned(k))
    BY <1>3, WaitingOK DEF AwaitGate
  <2>2. Head(w) \in Owned(l) /\ l \in Session
    BY <1>3, HeadTailOK DEF Gated, Lane
  <2> QED  BY <1>3, <2>1, <2>2 DEF AwaitGate, LaneTypeOK, Owned
<1>4. CASE /\ w # <<>> /\ UNCHANGED gate
           /\ HookRefuses(l, Head(w), w, timers) \/ HookAllows(l, Head(w), w, timers)
  <2>1. Head(w) \in Owned(l)
    BY <1>4, HeadTailOK
  <2> QED  BY <1>4, <2>1, HookOK DEF LaneTypeOK
<1> QED  BY <1>1, <1>2, <1>3, <1>4 DEF ProcessLane

LEMMA InitType == QueueAssumption /\ Init => TypeOK
<1> SUFFICES ASSUME QueueAssumption, Init PROVE TypeOK
  OBVIOUS
<1>1. \A l \in Lane : <<>> \in Seq(Message) /\ <<>> \in Seq(Owned(l))
  BY EmptySeq
<1>2. /\ waiting \in [Lane -> Seq(Message)]
      /\ \A l \in Lane : waiting[l] \in Seq(Owned(l))
      /\ current \in [Lane -> Message \cup {None}]
  BY <1>1 DEF Init
<1>3. /\ outcome \in [Message -> Outcome]
      /\ text \in [Message -> Text]
      /\ handled \in [Message -> Nat]
      /\ disk \in [backlog : SUBSET Message, dispatched : SUBSET Message]
      /\ restarts \in 0 .. MaxRestarts
  BY DEF Init, QueueAssumption, Outcome
<1> QED  BY <1>2, <1>3 DEF Init, TypeOK

\* Adding a message to its lane, in the course of enqueue or of a restore.
LEMMA AcceptType ==
  ASSUME QueueAssumption, TypeOK, NEW m \in Message, Accept(m)
  PROVE  /\ LaneTypeOK'
         /\ scheduled' \in BOOLEAN
         /\ outcome' \in [Message -> Outcome]
         /\ UNCHANGED <<detached, returned, text>>
<1> DEFINE l == LaneOf[m]
           w == Append(waiting[l], m)
<1>1. l \in Lane /\ LaneTypeOK
  BY DEF QueueAssumption, TypeOK, LaneTypeOK
<1>2. m \in Owned(l) /\ waiting[l] \in Seq(Owned(l))
  BY <1>1 DEF TypeOK, Owned
<1>3. w \in Seq(Owned(l))
  BY <1>2, AppendProperties
<1>4. LaneTypeOK'
  <2>1. CASE l \in processing
    <3>1. /\ waiting' = [waiting EXCEPT ![l] = w]
          /\ UNCHANGED <<processing, gate, running, current, retry, consumed,
                         handled, disk>>
      BY <2>1 DEF Accept
    <3>2. /\ waiting' \in [Lane -> Seq(Message)]
          /\ \A k \in Lane : waiting'[k] \in Seq(Owned(k))
      BY <1>1, <1>3, <3>1, WaitingOK
    <3> QED  BY <1>1, <3>1, <3>2 DEF LaneTypeOK, Owned
  <2>2. CASE l \notin processing
    <3>1. ProcessLane(l, w, TRUE, retry)
      BY <2>2 DEF Accept
    <3> QED  BY <1>1, <1>3, <3>1, ProcessLaneOK DEF TypeOK
  <2> QED  BY <2>1, <2>2
<1> QED  BY <1>4 DEF Accept, TypeOK, Outcome

LEMMA RestartType ==
  ASSUME QueueAssumption, TypeOK,
         NEW file \in [backlog : SUBSET Message, dispatched : SUBSET Message],
         Restart(file)
  PROVE  TypeOK'
<1>1. \A l \in Lane : <<>> \in Seq(Message) /\ <<>> \in Seq(Owned(l))
  BY EmptySeq
<1>2. outcome' \in [Message -> Outcome]
  BY DEF Restart, TypeOK, Outcome
<1>3. restarts' \in 0 .. MaxRestarts
  BY DEF Restart, TypeOK, QueueAssumption
<1> QED  BY <1>1, <1>2, <1>3 DEF Restart, TypeOK, Owned

LEMMA NextType == QueueAssumption /\ TypeOK /\ [Next]_vars => TypeOK'
<1> SUFFICES ASSUME QueueAssumption, TypeOK, [Next]_vars PROVE TypeOK'
  OBVIOUS
<1> USE DEF bootVars, diskVars, laneVars
<1>0. LaneTypeOK /\ carry \subseteq Message
  BY DEF TypeOK, LaneTypeOK
<1>1. ASSUME NEW m \in Message, Enqueue(m) PROVE TypeOK'
  <2>1. CASE Accept(m) /\ UNCHANGED bootVars
    BY <2>1, AcceptType DEF TypeOK, LaneTypeOK
  <2>2. CASE Refuse(m)
    BY <2>2 DEF Refuse, TypeOK, Outcome, Owned
  <2> QED  BY <1>1, <2>1, <2>2 DEF Enqueue
<1>2. ASSUME NEW s \in Session, Retry(s) PROVE TypeOK'
  <2>1. LaneTypeOK'
    <3>1. CASE s \in processing
      BY <1>0, <1>2, <3>1 DEF Retry, LaneTypeOK, Owned
    <3>2. CASE s \notin processing
      <4>1. ProcessLane(s, waiting[s], TRUE, retry \ {s})
        BY <1>2, <3>2 DEF Retry
      <4>2. s \in Lane /\ retry \ {s} \in SUBSET Session
        BY DEF Lane, TypeOK
      <4>3. waiting[s] \in Seq(Owned(s))
        BY <4>2 DEF TypeOK
      <4> QED  BY <1>0, <4>1, <4>2, <4>3, ProcessLaneOK
    <3> QED  BY <3>1, <3>2
  <2> QED  BY <1>2, <2>1 DEF Retry, TypeOK, LaneTypeOK
<1>3. ASSUME NEW s \in Session, CancelQueued(s) PROVE TypeOK'
  <2>1. s \in Lane
    BY DEF Lane
  <2>2. PICK i \in DOMAIN waiting[s] :
          /\ waiting' = [waiting EXCEPT ![s] = RemoveAt(@, i)]
          /\ outcome' = [outcome EXCEPT ![waiting[s][i]] = "rejected"]
    BY <1>3 DEF CancelQueued
  <2>3. RemoveAt(waiting[s], i) \in Seq(Owned(s))
    BY <2>1, RemoveAtOK DEF TypeOK
  <2>4. /\ waiting' \in [Lane -> Seq(Message)]
        /\ \A k \in Lane : waiting'[k] \in Seq(Owned(k))
    <3>1. waiting' = [waiting EXCEPT ![s] = RemoveAt(waiting[s], i)]
      BY <2>2
    <3> QED  BY <1>0, <2>1, <2>3, <3>1, WaitingOK
  <2>5. outcome' \in [Message -> Outcome]
    BY <2>2 DEF TypeOK, Outcome
  <2> QED  BY <1>3, <2>4, <2>5 DEF CancelQueued, TypeOK, Owned
<1>4. ASSUME NEW s \in Session, ClearSession(s) PROVE TypeOK'
  <2>1. s \in Lane /\ <<>> \in Seq(Owned(s))
    BY EmptySeq DEF Lane
  <2>2. /\ waiting' \in [Lane -> Seq(Message)]
        /\ \A k \in Lane : waiting'[k] \in Seq(Owned(k))
    BY <1>0, <1>4, <2>1, WaitingOK DEF ClearSession
  <2>3. outcome' \in [Message -> Outcome]
    BY <1>4 DEF ClearSession, TypeOK, Outcome
  <2> QED  BY <1>4, <2>1, <2>2, <2>3 DEF ClearSession, TypeOK, Owned
<1>5. ASSUME NEW h \in gate, ProbeBusy(h) PROVE TypeOK'
  <2>1. h \in Message /\ LaneOf[h] \in Session /\ LaneOf[h] \in Lane
    BY DEF TypeOK, Lane
  <2>2. waiting[LaneOf[h]] \in Seq(Owned(LaneOf[h]))
    BY <2>1 DEF TypeOK
  <2>3. retry \cup {LaneOf[h]} \in SUBSET Session
    BY <2>1 DEF TypeOK
  <2>4. LaneTypeOK'
    BY <1>0, <1>5, <2>1, <2>2, <2>3, LeaveOK DEF ProbeBusy, TypeOK
  <2> QED  BY <1>5, <2>4 DEF ProbeBusy, TypeOK, LaneTypeOK
<1>6. ASSUME NEW h \in gate, ProbeIdle(h) PROVE TypeOK'
  <2> DEFINE s == LaneOf[h]
             held == IF s \in detached THEN <<>> ELSE waiting[s]
  <2>1. h \in Message /\ s \in Session /\ s \in Lane /\ h \in Owned(s)
    BY DEF TypeOK, Lane, Owned
  <2>2. waiting[s] \in Seq(Owned(s)) /\ <<>> \in Seq(Owned(s))
    BY <2>1, EmptySeq DEF TypeOK
  <2>3. held \in Seq(Owned(s))
    BY <2>2
  <2>4. HookRefuses(s, h, waiting[s], retry) \/ HookAllows(s, h, held, retry)
    BY <1>6 DEF ProbeIdle
  <2>5. gate' \subseteq {m \in Message : LaneOf[m] \in Session}
    BY <1>6 DEF ProbeIdle, TypeOK
  <2>6. retry \in SUBSET Session
    BY DEF TypeOK
  <2>7. LaneTypeOK'
    <3> HIDE DEF s, held
    <3> QED  BY <1>0, <2>1, <2>2, <2>3, <2>4, <2>5, <2>6, HookOK
  <2> QED  BY <1>6, <2>7 DEF ProbeIdle, TypeOK, LaneTypeOK
<1>7. ASSUME NEW m \in Message, HandlerSettles(m) PROVE TypeOK'
  BY <1>7 DEF HandlerSettles, TypeOK, Outcome, Owned
<1>8. ASSUME NEW m \in Message, HandlerReturns(m) PROVE TypeOK'
  <2>1. LaneOf[m] \in Lane
    BY DEF QueueAssumption
  <2>2. waiting[LaneOf[m]] \in Seq(Owned(LaneOf[m])) /\ retry \in SUBSET Session
    BY <2>1 DEF TypeOK
  <2>3. ProcessLane(LaneOf[m], waiting[LaneOf[m]], m \notin Prompt, retry)
    BY <1>8 DEF HandlerReturns
  <2>4. LaneTypeOK'
    BY <1>0, <2>1, <2>2, <2>3, ProcessLaneOK
  <2> QED  BY <1>8, <2>4 DEF HandlerReturns, TypeOK, LaneTypeOK
<1>9. ASSUME NEW m \in Message, NEW t \in Text, RewriteByAck(m, t) PROVE TypeOK'
  BY <1>9 DEF RewriteByAck, TypeOK, Owned
<1>10. CASE WriteScheduled
  <2>1. disk' \in [backlog : SUBSET Message, dispatched : SUBSET Message]
    BY <1>0, <1>10, WriteOK DEF WriteScheduled
  <2> QED  BY <1>10, <2>1 DEF WriteScheduled, TypeOK, Owned
<1>11. CASE Crash
  BY <1>11, RestartType DEF Crash, TypeOK
<1>12. CASE Shutdown
  <2>1. (IF scheduled THEN Snapshot(waiting, current) ELSE disk)
          \in [backlog : SUBSET Message, dispatched : SUBSET Message]
    BY <1>0, SnapshotOK DEF TypeOK
  <2> QED  BY <1>12, <2>1, RestartType DEF Shutdown
<1>13. CASE BeginRestore
  BY <1>13 DEF BeginRestore, TypeOK, Owned
<1>14. CASE EndRestore
  BY <1>14 DEF EndRestore, TypeOK, Owned
<1>15. ASSUME NEW m \in Message, RestoreEntry(m) PROVE TypeOK'
  <2>1. CASE Accept(m) /\ UNCHANGED carry
    BY <1>15, <2>1, AcceptType DEF RestoreEntry, TypeOK, LaneTypeOK
  <2>2. CASE ~(Accept(m) /\ UNCHANGED carry)
    <3>1. /\ loaded' \subseteq Message /\ carry' \subseteq Message
          /\ outcome' \in [Message -> Outcome]
      BY <1>15, <2>2 DEF RestoreEntry, TypeOK, Outcome
    <3>2. UNCHANGED <<laneVars, text, scheduled, disk, boot, restarts>>
      BY <1>15, <2>2 DEF RestoreEntry
    <3> QED  BY <3>1, <3>2 DEF TypeOK, Owned
  <2> QED  BY <2>1, <2>2
<1>16. CASE UNCHANGED vars
  BY <1>16 DEF vars, TypeOK, Owned
<1> QED
  BY <1>1, <1>2, <1>3, <1>4, <1>5, <1>6, <1>7, <1>8, <1>9, <1>10, <1>11, <1>12,
     <1>13, <1>14, <1>15, <1>16 DEF Next

\* TypeOK: the queue's state keeps to its types for any sessions and messages;
\* in particular a message waits in its own lane only.
THEOREM TypeCorrect == Spec => []TypeOK
<1>1. Init => TypeOK
  BY InitType, QueueAssumption
<1>2. TypeOK /\ [Next]_vars => TypeOK'
  BY NextType, QueueAssumption
<1> QED  BY <1>1, <1>2, PTL DEF Spec

-----------------------------------------------------------------------------
(* Lane discipline.  A lane's processing flag is set before the first await    *)
(* of the call that works on it and cleared when that call ends, so the flag   *)
(* covers every message at the gate, in the handler or just settled by it.     *)

Exclusive(g, r, d) ==
  /\ \A x, y \in g \cup r \cup d : LaneOf[x] = LaneOf[y] => x = y
  /\ g \cap (r \cup d) = {}
  /\ r \cap d = {}

Reserved(g, r, d, p) == \A x \in g \cup r \cup d : LaneOf[x] \in p

LaneInv ==
  /\ TypeOK
  /\ OneAtATime
  /\ Reserved(gate, running, returned, processing)
  /\ Cardinality(processing \cap Session) <= MaxConcurrent
  /\ NoLostWakeup

\* How a call leaves lane l: free, with a timer if messages remain, ...
Freed(l) ==
  /\ processing' = processing \ {l}
  /\ running' = running
  /\ waiting'[l] = <<>> \/ l \in retry'

\* ... or with one more message of the lane in the handler, ...
Started(l) ==
  /\ processing' = processing \cup {l}
  /\ \E x \in Owned(l) : running' = running \cup {x}

\* ... or at the gate.
GateAwaited(l) ==
  /\ processing' = processing \cup {l}
  /\ running' = running
  /\ \E x \in Owned(l) : gate' = gate \cup {x}

Elsewhere(l, timers) ==
  /\ \A k \in Lane \ {l} : waiting'[k] = waiting[k]
  /\ timers \subseteq retry'

LEMMA HookEffect ==
  ASSUME LaneTypeOK, NEW l \in Lane, NEW h, NEW w \in Seq(Owned(l)),
         NEW held \in Seq(Owned(l)), NEW timers,
         HookRefuses(l, h, w, timers) \/ HookAllows(l, h, held, timers)
  PROVE  Elsewhere(l, timers) /\ (Freed(l) \/ Started(l))
<1>1. CASE HookRefuses(l, h, w, timers)
  BY <1>1 DEF HookRefuses, Leave, Elsewhere, Freed, LaneTypeOK
<1>2. CASE HookAllows(l, h, held, timers)
  <2>1. CASE held = <<>>
    BY <1>2, <2>1 DEF HookAllows, Leave, Elsewhere, Freed, LaneTypeOK
  <2>2. CASE held # <<>>
    <3>1. Head(held) \in Owned(l)
      BY <2>2, HeadTailOK
    <3>2. Dispatch(l, held, timers)
      BY <1>2, <2>2 DEF HookAllows
    <3> QED  BY <3>1, <3>2 DEF Dispatch, Elsewhere, Started, LaneTypeOK
  <2> QED  BY <2>1, <2>2
<1> QED  BY <1>1, <1>2

LEMMA ProcessEffect ==
  ASSUME LaneTypeOK, NEW l \in Lane, NEW w \in Seq(Owned(l)), NEW fresh, NEW timers,
         ProcessLane(l, w, fresh, timers)
  PROVE  /\ Elsewhere(l, timers)
         /\ \/ Freed(l) /\ gate' = gate
            \/ ~SlotsTaken(l) /\ Started(l) /\ gate' = gate
            \/ ~SlotsTaken(l) /\ GateAwaited(l)
<1>1. CASE SlotsTaken(l) /\ Leave(l, w, timers \cup {l}) /\ UNCHANGED <<gate, consumed>>
  BY <1>1 DEF Leave, Elsewhere, Freed, LaneTypeOK
<1>2. CASE Leave(l, <<>>, timers) /\ UNCHANGED <<gate, consumed>>
  BY <1>2 DEF Leave, Elsewhere, Freed, LaneTypeOK
<1>3. CASE ~SlotsTaken(l) /\ w # <<>> /\ AwaitGate(l, w, timers)
  <2>1. Head(w) \in Owned(l)
    BY <1>3, HeadTailOK
  <2> QED  BY <1>3, <2>1 DEF AwaitGate, Elsewhere, GateAwaited, LaneTypeOK
<1>4. CASE /\ ~SlotsTaken(l) /\ w # <<>> /\ UNCHANGED gate
           /\ HookRefuses(l, Head(w), w, timers) \/ HookAllows(l, Head(w), w, timers)
  BY <1>4, HookEffect
<1> QED  BY <1>1, <1>2, <1>3, <1>4 DEF ProcessLane

\* Work on a lane that nobody works on keeps the discipline.
LEMMA DisciplineKept ==
  ASSUME LaneTypeOK, NEW l \in Lane, NEW d,
         Exclusive(gate, running, d), Reserved(gate, running, d, processing \ {l}),
         \/ Freed(l) /\ gate' = gate
         \/ Started(l) /\ gate' = gate
         \/ GateAwaited(l)
  PROVE  Exclusive(gate', running', d) /\ Reserved(gate', running', d, processing')
<1>1. CASE Freed(l) /\ gate' = gate
  BY <1>1 DEF Freed, Exclusive, Reserved
<1>2. CASE Started(l) /\ gate' = gate
  BY <1>2 DEF Started, Exclusive, Reserved, Owned
<1>3. CASE GateAwaited(l)
  BY <1>3 DEF GateAwaited, Exclusive, Reserved, Owned
<1> QED  BY <1>1, <1>2, <1>3

\* The limit: a lane is reserved only when a slot is free.
LEMMA SlotCount ==
  ASSUME QueueAssumption, LaneTypeOK, NEW l \in Lane,
         Cardinality(processing \cap Session) <= MaxConcurrent,
         \/ processing' = processing \ {l}
         \/ processing' = processing \cup {l} /\ (~SlotsTaken(l) \/ l \in processing)
  PROVE  Cardinality(processing' \cap Session) <= MaxConcurrent
<1> DEFINE P == processing \cap Session
           O == (processing \ {l}) \cap Session
<1>1. IsFiniteSet(P) /\ IsFiniteSet(O) /\ O \subseteq P
  BY FiniteAssumption, FS_Subset
<1>2. Cardinality(P) \in Nat /\ Cardinality(O) \in Nat /\ Cardinality(O) <= Cardinality(P)
  BY <1>1, FS_CardinalityType, FS_Subset
<1>3. MaxConcurrent \in Nat
  BY DEF QueueAssumption
<1>4. CASE processing' = processing \ {l}
  BY <1>2, <1>3, <1>4
<1>5. CASE processing' = processing \cup {l} /\ l \in processing
  <2>1. processing' = processing
    BY <1>5
  <2> QED  BY <2>1
<1>6. CASE processing' = processing \cup {l} /\ l \notin processing /\ ~SlotsTaken(l)
  <2>1. CASE l = Global
    <3>1. processing' \cap Session = P
      BY <1>6, <2>1 DEF QueueAssumption
    <3> QED  BY <3>1
  <2>2. CASE l \in Session
    <3>1. l # Global /\ ~(Cardinality(O) >= MaxConcurrent)
      BY <1>6, <2>2 DEF SlotsTaken, QueueAssumption
    <3>2. processing' \cap Session = O \cup {l} /\ l \notin O
      BY <1>6, <2>2
    <3>3. Cardinality(O \cup {l}) = Cardinality(O) + 1
      BY <1>1, <3>2, FS_AddElement
    <3>4. Cardinality(O) + 1 <= MaxConcurrent
      <4> HIDE DEF O
      <4> QED  BY <1>2, <1>3, <3>1
    <3>5. Cardinality(processing' \cap Session) = Cardinality(O) + 1
      <4> HIDE DEF O
      <4> QED  BY <3>2, <3>3
    <3> QED  BY <3>4, <3>5
  <2> QED  BY <2>1, <2>2 DEF Lane
<1> QED  BY <1>4, <1>5, <1>6

LEMMA InitLane == Init => LaneInv
<1> SUFFICES ASSUME Init PROVE LaneInv
  OBVIOUS
<1>1. TypeOK
  BY InitType, QueueAssumption
<1>2. Cardinality(processing \cap Session) <= MaxConcurrent
  <2>1. processing \cap Session = {} /\ Cardinality({}) = 0
    BY FS_EmptySet DEF Init
  <2> QED  BY <2>1, QueueAssumption DEF QueueAssumption
<1> QED  BY <1>1, <1>2 DEF Init, LaneInv, OneAtATime, Reserved, NoLostWakeup

\* Work on a free lane keeps the whole invariant.
LEMMA WorkKeepsLane ==
  ASSUME LaneInv, TypeOK', NEW l \in Lane, NEW w \in Seq(Owned(l)), NEW fresh,
         NEW timers \in SUBSET Session, retry \subseteq timers \cup {l},
         returned' \subseteq returned, \A x \in gate \cup running \cup returned' : LaneOf[x] # l,
         ProcessLane(l, w, fresh, timers)
  PROVE  LaneInv'
<1>1. LaneTypeOK
  BY DEF LaneInv, TypeOK, LaneTypeOK
<1>2. /\ Elsewhere(l, timers)
      /\ \/ Freed(l) /\ gate' = gate
         \/ ~SlotsTaken(l) /\ Started(l) /\ gate' = gate
         \/ ~SlotsTaken(l) /\ GateAwaited(l)
  BY <1>1, ProcessEffect
<1>3. /\ Exclusive(gate, running, returned')
      /\ Reserved(gate, running, returned', processing \ {l})
  BY DEF LaneInv, OneAtATime, Exclusive, Reserved
<1>4. /\ Exclusive(gate', running', returned')
      /\ Reserved(gate', running', returned', processing')
  BY <1>1, <1>2, <1>3, DisciplineKept
<1>5. Cardinality(processing' \cap Session) <= MaxConcurrent
  BY <1>1, <1>2, SlotCount, QueueAssumption DEF Freed, Started, GateAwaited, LaneInv
<1>6. NoLostWakeup'
  <2> SUFFICES ASSUME NEW k \in Lane \ processing', waiting'[k] # <<>> PROVE k \in retry'
    BY DEF NoLostWakeup
  <2>1. CASE k = l
    BY <1>2, <2>1 DEF Freed, Started, GateAwaited
  <2>2. CASE k # l
    BY <1>2, <2>2 DEF Elsewhere, Freed, Started, GateAwaited, LaneInv, NoLostWakeup
  <2> QED  BY <2>1, <2>2
<1> QED  BY <1>4, <1>5, <1>6 DEF LaneInv, OneAtATime, Exclusive

\* Adding a message keeps it.
LEMMA AcceptKeepsLane ==
  ASSUME LaneInv, TypeOK', NEW m \in Message, Accept(m)
  PROVE  LaneInv'
<1> DEFINE l == LaneOf[m]
           w == Append(waiting[l], m)
<1>1. l \in Lane
  BY QueueAssumption DEF QueueAssumption
<1>2. w \in Seq(Owned(l))
  BY <1>1, AppendProperties DEF LaneInv, TypeOK, Owned
<1>3. CASE l \in processing
  <2>1. /\ \A k \in Lane \ {l} : waiting'[k] = waiting[k]
        /\ UNCHANGED <<processing, gate, running, returned, retry>>
    BY <1>1, <1>3 DEF Accept, LaneInv, TypeOK
  <2> HIDE DEF l, w
  <2> QED  BY <1>3, <2>1 DEF LaneInv, OneAtATime, Reserved, NoLostWakeup
<1>4. CASE l \notin processing
  <2>1. ProcessLane(l, w, TRUE, retry) /\ returned' = returned
    BY <1>4 DEF Accept
  <2>2. \A x \in gate \cup running \cup returned : LaneOf[x] # l
    BY <1>4 DEF LaneInv, Reserved
  <2>3. retry \in SUBSET Session
    BY DEF LaneInv, TypeOK
  <2> QED  BY <1>1, <1>2, <2>1, <2>2, <2>3, WorkKeepsLane
<1> QED  BY <1>3, <1>4

LEMMA NextLane == LaneInv /\ [Next]_vars => LaneInv'
<1> SUFFICES ASSUME LaneInv, [Next]_vars PROVE LaneInv'
  OBVIOUS
<1> USE DEF bootVars, diskVars, laneVars
<1>0. TypeOK /\ TypeOK' /\ LaneTypeOK
  BY NextType, QueueAssumption DEF LaneInv, TypeOK, LaneTypeOK
\* Steps that leave the lanes alone.
<1>a. ASSUME UNCHANGED <<waiting, processing, gate, running, returned, retry>>
      PROVE  LaneInv'
  BY <1>0, <1>a DEF LaneInv, OneAtATime, Reserved, NoLostWakeup
<1>1. ASSUME NEW m \in Message, Enqueue(m) PROVE LaneInv'
  <2>1. CASE Accept(m)
    BY <1>0, <2>1, AcceptKeepsLane
  <2>2. CASE Refuse(m)
    BY <1>a, <2>2 DEF Refuse
  <2> QED  BY <1>1, <2>1, <2>2 DEF Enqueue
<1>2. ASSUME NEW s \in Session, Retry(s) PROVE LaneInv'
  <2>1. s \in Lane /\ waiting[s] \in Seq(Owned(s)) /\ retry \ {s} \in SUBSET Session
    BY <1>0 DEF Lane, TypeOK
  <2>2. CASE s \in processing
    BY <1>0, <1>2, <2>2 DEF Retry, LaneInv, OneAtATime, Reserved, NoLostWakeup
  <2>3. CASE s \notin processing
    <3>1. ProcessLane(s, waiting[s], TRUE, retry \ {s}) /\ returned' = returned
      BY <1>2, <2>3 DEF Retry
    <3>2. \A x \in gate \cup running \cup returned : LaneOf[x] # s
      BY <2>3 DEF LaneInv, Reserved
    <3> QED  BY <1>0, <2>1, <3>1, <3>2, WorkKeepsLane
  <2> QED  BY <2>2, <2>3
<1>3. ASSUME NEW s \in Session, CancelQueued(s) PROVE LaneInv'
  <2>1. /\ \A k \in Lane \ {s} : waiting'[k] = waiting[k]
        /\ waiting[s] # <<>>
        /\ UNCHANGED <<processing, gate, running, returned, retry>>
    BY <1>0, <1>3 DEF CancelQueued, TypeOK, Lane
  <2> QED  BY <1>0, <2>1 DEF LaneInv, OneAtATime, Reserved, NoLostWakeup
<1>4. ASSUME NEW s \in Session, ClearSession(s) PROVE LaneInv'
  <2>1. /\ \A k \in Lane \ {s} : waiting'[k] = waiting[k]
        /\ s \in Lane => waiting'[s] = <<>>
        /\ UNCHANGED <<processing, gate, running, returned, retry>>
    BY <1>0, <1>4 DEF ClearSession, TypeOK, Lane
  <2> QED  BY <1>0, <2>1 DEF LaneInv, OneAtATime, Reserved, NoLostWakeup
<1>5. ASSUME NEW h \in gate, ProbeBusy(h) PROVE LaneInv'
  <2>1. LaneOf[h] \in Lane
    BY <1>0 DEF TypeOK, Lane
  <2>2. /\ processing' = processing \ {LaneOf[h]} /\ gate' = gate \ {h}
        /\ UNCHANGED <<running, returned>>
        /\ \A k \in Lane : waiting'[k] = waiting[k]
        /\ retry' = retry \cup {LaneOf[h]}
    BY <1>0, <1>5, <2>1 DEF ProbeBusy, Leave, TypeOK
  <2>3. Cardinality(processing' \cap Session) <= MaxConcurrent
    BY <1>0, <2>1, <2>2, SlotCount, QueueAssumption DEF LaneInv
  <2> QED  BY <1>0, <2>1, <2>2, <2>3 DEF LaneInv, OneAtATime, Reserved, NoLostWakeup
<1>6. ASSUME NEW h \in gate, ProbeIdle(h) PROVE LaneInv'
  <2> DEFINE s == LaneOf[h]
             held == IF s \in detached THEN <<>> ELSE waiting[s]
  <2>1. s \in Lane /\ waiting[s] \in Seq(Owned(s)) /\ held \in Seq(Owned(s))
    BY <1>0, EmptySeq DEF TypeOK, Lane
  <2>2. Elsewhere(s, retry) /\ (Freed(s) \/ Started(s))
    <3>1. HookRefuses(s, h, waiting[s], retry) \/ HookAllows(s, h, held, retry)
      BY <1>6 DEF ProbeIdle
    <3> HIDE DEF s, held
    <3> QED  BY <1>0, <2>1, <3>1, HookEffect
  <2>3. gate' = gate \ {h} /\ returned' = returned
    BY <1>6 DEF ProbeIdle
  <2>4. s \in processing /\ \A x \in (gate \ {h}) \cup running \cup returned : LaneOf[x] # s
    BY DEF LaneInv, OneAtATime, Reserved
  <2>5. OneAtATime' /\ Reserved(gate', running', returned', processing')
    BY <2>2, <2>3, <2>4 DEF LaneInv, OneAtATime, Reserved, Freed, Started, Owned
  <2>6. Cardinality(processing' \cap Session) <= MaxConcurrent
    BY <1>0, <2>1, <2>2, <2>4, SlotCount, QueueAssumption DEF LaneInv, Freed, Started
  <2>7. NoLostWakeup'
    <3> SUFFICES ASSUME NEW k \in Lane \ processing', waiting'[k] # <<>> PROVE k \in retry'
      BY DEF NoLostWakeup
    <3>1. CASE k = s
      BY <2>2, <3>1 DEF Freed, Started
    <3>2. CASE k # s
      BY <2>2, <3>2 DEF Elsewhere, Freed, Started, LaneInv, NoLostWakeup
    <3> QED  BY <3>1, <3>2
  <2> QED  BY <1>0, <2>5, <2>6, <2>7 DEF LaneInv
<1>7. ASSUME NEW m \in Message, HandlerSettles(m) PROVE LaneInv'
  BY <1>0, <1>7 DEF HandlerSettles, LaneInv, OneAtATime, Reserved, NoLostWakeup
<1>8. ASSUME NEW m \in Message, HandlerReturns(m) PROVE LaneInv'
  <2> DEFINE l == LaneOf[m]
  <2>1. l \in Lane /\ waiting[l] \in Seq(Owned(l)) /\ retry \in SUBSET Session
    BY <1>0, QueueAssumption DEF TypeOK, QueueAssumption
  <2>2. ProcessLane(l, waiting[l], m \notin Prompt, retry) /\ returned' = returned \ {m}
    BY <1>8 DEF HandlerReturns
  <2>3. \A x \in gate \cup running \cup returned' : LaneOf[x] # l
    BY <1>8, <2>2 DEF HandlerReturns, LaneInv, OneAtATime
  <2> HIDE DEF l
  <2> QED  BY <1>0, <2>1, <2>2, <2>3, WorkKeepsLane
<1>9. ASSUME NEW m \in Message, NEW t \in Text, RewriteByAck(m, t) PROVE LaneInv'
  BY <1>9, <1>a DEF RewriteByAck
<1>10. CASE WriteScheduled
  BY <1>10, <1>a DEF WriteScheduled
<1>11. ASSUME NEW file, Restart(file) PROVE LaneInv'
  <2>1. /\ processing' = {} /\ gate' = {} /\ running' = {} /\ returned' = {}
        /\ \A k \in Lane : waiting'[k] = <<>>
    BY <1>11 DEF Restart
  <2>2. Cardinality(processing' \cap Session) <= MaxConcurrent
    <3>1. processing' \cap Session = {} /\ Cardinality({}) = 0
      BY <2>1, FS_EmptySet
    <3> QED  BY <3>1, QueueAssumption DEF QueueAssumption
  <2> QED  BY <1>0, <2>1, <2>2 DEF LaneInv, OneAtATime, Reserved, NoLostWakeup
<1>12. CASE Crash \/ Shutdown
  BY <1>11, <1>12 DEF Crash, Shutdown
<1>13. CASE BeginRestore
  BY <1>13, <1>a DEF BeginRestore
<1>14. CASE EndRestore
  BY <1>14, <1>a DEF EndRestore
<1>15. ASSUME NEW m \in Message, RestoreEntry(m) PROVE LaneInv'
  <2>1. CASE Accept(m)
    BY <1>0, <2>1, AcceptKeepsLane
  <2>2. CASE ~Accept(m)
    BY <1>15, <1>a, <2>2 DEF RestoreEntry
  <2> QED  BY <2>1, <2>2
<1>16. CASE UNCHANGED vars
  BY <1>16, <1>a DEF vars
<1> QED
  BY <1>1, <1>2, <1>3, <1>4, <1>5, <1>6, <1>7, <1>8, <1>9, <1>10, <1>12, <1>13,
     <1>14, <1>15, <1>16 DEF Next

THEOREM LaneInvariant == Spec => []LaneInv
<1>1. Init => LaneInv
  BY InitLane
<1>2. LaneInv /\ [Next]_vars => LaneInv'
  BY NextLane
<1> QED  BY <1>1, <1>2, PTL DEF Spec

\* OneAtATime: one message at a time is worked on in a lane, across the awaits
\* of the idle gate and of the handler, whatever is cleared, cancelled, retried
\* or restored meanwhile.
THEOREM Serial == Spec => []OneAtATime
<1>1. LaneInv => OneAtATime
  BY DEF LaneInv
<1> QED  BY <1>1, LaneInvariant, PTL

\* NoLostWakeup: no return of processSession leaves messages in a lane without
\* work or timer.
THEOREM Wakeup == Spec => []NoLostWakeup
<1>1. LaneInv => NoLostWakeup
  BY DEF LaneInv
<1> QED  BY <1>1, LaneInvariant, PTL

\* ConcurrencyLimit: at most maxConcurrentSessions sessions are worked on.
THEOREM Limit == Spec => []ConcurrencyLimit
<1>1. LaneInv => ConcurrencyLimit
  <2> SUFFICES ASSUME LaneInv PROVE ConcurrencyLimit
    OBVIOUS
  <2> DEFINE B == {LaneOf[m] : m \in gate \cup running \cup returned} \cap Session
             P == processing \cap Session
  <2>1. B \subseteq P
    BY DEF LaneInv, Reserved
  <2>2. IsFiniteSet(P)
    BY FiniteAssumption, FS_Subset
  <2>3. IsFiniteSet(B) /\ Cardinality(B) <= Cardinality(P)
    BY <2>1, <2>2, FS_Subset
  <2>4. Cardinality(B) \in Nat /\ Cardinality(P) \in Nat /\ MaxConcurrent \in Nat
    BY <2>2, <2>3, FS_CardinalityType, QueueAssumption DEF QueueAssumption
  <2>5. Cardinality(P) <= MaxConcurrent
    BY DEF LaneInv
  <2>6. Cardinality(B) <= MaxConcurrent
    <3> HIDE DEF B, P
    <3> QED  BY <2>3, <2>4, <2>5
  <2> QED  BY <2>6 DEF ConcurrencyLimit
<1> QED  BY <1>1, LaneInvariant, PTL

-----------------------------------------------------------------------------
(* What a lane holds, as a set *)

LEMMA ElemsAppend ==
  ASSUME NEW S, NEW s \in Seq(S), NEW m \in S
  PROVE  /\ Elems(Append(s, m)) = Elems(s) \cup {m}
         /\ IsInjective(s) /\ m \notin Elems(s) => IsInjective(Append(s, m))
<1> DEFINE a == Append(s, m)
           n == Len(s)
<1>1. /\ n \in Nat /\ DOMAIN s = 1 .. n /\ DOMAIN a = 1 .. (n + 1)
      /\ \A i \in 1 .. n : a[i] = s[i]
      /\ a[n + 1] = m
  BY AppendProperties, LenProperties
<1> HIDE DEF a, n
<1>2. Elems(a) = Elems(s) \cup {m}
  <2>1. \A i \in 1 .. (n + 1) : i \in 1 .. n \/ i = n + 1
    BY <1>1
  <2>2. \A i \in 1 .. n : i \in 1 .. (n + 1)
    BY <1>1
  <2>3. n + 1 \in 1 .. (n + 1)
    BY <1>1
  <2> QED  BY <1>1, <2>1, <2>2, <2>3 DEF Elems
<1>3. ASSUME IsInjective(s), m \notin Elems(s) PROVE IsInjective(a)
  <2>1. \A i \in 1 .. (n + 1) : i \in 1 .. n \/ i = n + 1
    BY <1>1
  <2> QED  BY <1>1, <1>3, <2>1 DEF IsInjective, Elems
<1> QED  BY <1>2, <1>3 DEF a

LEMMA ElemsTail ==
  ASSUME NEW S, NEW s \in Seq(S), s # <<>>
  PROVE  /\ Elems(s) = {Head(s)} \cup Elems(Tail(s))
         /\ IsInjective(s) => IsInjective(Tail(s)) /\ Head(s) \notin Elems(Tail(s))
<1> DEFINE t == Tail(s)
           n == Len(t)
<1>1. /\ n \in Nat /\ DOMAIN s = 1 .. (n + 1) /\ DOMAIN t = 1 .. n
      /\ \A i \in 1 .. n : t[i] = s[i + 1]
      /\ Head(s) = s[1]
  <2>1. t \in Seq(S) /\ n = Len(s) - 1 /\ \A i \in 1 .. n : t[i] = s[i + 1]
    BY HeadTailProperties
  <2>2. Len(s) \in Nat /\ DOMAIN s = 1 .. Len(s) /\ n \in Nat /\ DOMAIN t = 1 .. n
    BY <2>1, LenProperties
  <2> QED  BY <2>1, <2>2
<1> HIDE DEF t, n
<1>2. \A i \in 1 .. (n + 1) : i = 1 \/ \E j \in 1 .. n : i = j + 1
  <2> SUFFICES ASSUME NEW i \in 1 .. (n + 1), i # 1 PROVE \E j \in 1 .. n : i = j + 1
    OBVIOUS
  <2>1. i - 1 \in 1 .. n /\ i = (i - 1) + 1
    BY <1>1
  <2> QED  BY <2>1
<1>3. /\ 1 \in 1 .. (n + 1)
      /\ \A j \in 1 .. n : j + 1 \in 1 .. (n + 1) /\ j + 1 # 1 /\ j \in Int
  BY <1>1
<1>4. Elems(s) = {Head(s)} \cup Elems(t)
  <2>1. ASSUME NEW i \in 1 .. (n + 1) PROVE s[i] \in {Head(s)} \cup Elems(t)
    <3>1. CASE i = 1
      BY <1>1, <3>1
    <3>2. CASE i # 1
      <4>1. PICK j \in 1 .. n : i = j + 1
        BY <1>2, <3>2
      <4>2. s[i] = t[j] /\ j \in DOMAIN t
        BY <1>1, <4>1
      <4> QED  BY <4>2 DEF Elems
    <3> QED  BY <3>1, <3>2
  <2>2. {Head(s)} \cup Elems(t) \subseteq Elems(s)
    BY <1>1, <1>3 DEF Elems
  <2> QED  BY <1>1, <2>1, <2>2 DEF Elems
<1>5. ASSUME IsInjective(s) PROVE IsInjective(t) /\ Head(s) \notin Elems(t)
  <2>1. IsInjective(t)
    <3> SUFFICES ASSUME NEW i \in 1 .. n, NEW j \in 1 .. n, t[i] = t[j] PROVE i = j
      BY <1>1 DEF IsInjective
    <3>1. i + 1 \in DOMAIN s /\ j + 1 \in DOMAIN s /\ s[i + 1] = s[j + 1]
      BY <1>1, <1>3
    <3>2. i + 1 = j + 1
      BY <1>5, <3>1 DEF IsInjective
    <3> QED  BY <3>2
  <2>2. Head(s) \notin Elems(t)
    BY <1>1, <1>3, <1>5 DEF IsInjective, Elems
  <2> QED  BY <2>1, <2>2
<1> QED  BY <1>4, <1>5 DEF t

LEMMA ElemsRemoveAt ==
  ASSUME NEW S, NEW s \in Seq(S), NEW i \in DOMAIN s
  PROVE  /\ Elems(s) = Elems(RemoveAt(s, i)) \cup {s[i]}
         /\ IsInjective(s) => /\ IsInjective(RemoveAt(s, i))
                              /\ s[i] \notin Elems(RemoveAt(s, i))
<1> DEFINE r == RemoveAt(s, i)
           n == Len(r)
<1>1. /\ n \in Nat /\ DOMAIN s = 1 .. (n + 1) /\ DOMAIN r = 1 .. n
      /\ i \in 1 .. (n + 1)
      /\ \A j \in 1 .. n : r[j] = IF j < i THEN s[j] ELSE s[j + 1]
  <2>1. r \in Seq(S) /\ n = Len(s) - 1
        /\ \A j \in 1 .. Len(s) - 1 : r[j] = IF j < i THEN s[j] ELSE s[j + 1]
    BY RemoveAtOK
  <2>2. Len(s) \in Nat /\ DOMAIN s = 1 .. Len(s) /\ n \in Nat /\ DOMAIN r = 1 .. n
    BY <2>1, LenProperties
  <2> QED  BY <2>1, <2>2
<1> HIDE DEF r, n
<1>2. \A k \in 1 .. (n + 1) : k = i \/ \E j \in 1 .. n : r[j] = s[k]
  <2> SUFFICES ASSUME NEW k \in 1 .. (n + 1), k # i PROVE \E j \in 1 .. n : r[j] = s[k]
    OBVIOUS
  <2>1. CASE k < i
    <3>1. k \in 1 .. n
      BY <1>1, <2>1
    <3> QED  BY <1>1, <2>1, <3>1
  <2>2. CASE k > i
    <3>1. k - 1 \in 1 .. n /\ ~(k - 1 < i) /\ (k - 1) + 1 = k
      BY <1>1, <2>2
    <3> QED  BY <1>1, <3>1
  <2> QED  BY <1>1, <2>1, <2>2
<1>3. \A j \in 1 .. n : \E k \in 1 .. (n + 1) : k # i /\ r[j] = s[k]
  <2> SUFFICES ASSUME NEW j \in 1 .. n
               PROVE  \E k \in 1 .. (n + 1) : k # i /\ r[j] = s[k]
    OBVIOUS
  <2>1. CASE j < i
    <3>1. j \in 1 .. (n + 1) /\ j # i
      BY <1>1, <2>1
    <3> QED  BY <1>1, <2>1, <3>1
  <2>2. CASE ~(j < i)
    <3>1. j + 1 \in 1 .. (n + 1) /\ j + 1 # i
      BY <1>1, <2>2
    <3> QED  BY <1>1, <2>2, <3>1
  <2> QED  BY <2>1, <2>2
<1>4. Elems(s) = Elems(r) \cup {s[i]}
  <2>1. ASSUME NEW k \in 1 .. (n + 1) PROVE s[k] \in Elems(r) \cup {s[i]}
    BY <1>1, <1>2 DEF Elems
  <2>2. ASSUME NEW j \in 1 .. n PROVE r[j] \in Elems(s)
    BY <1>1, <1>3 DEF Elems
  <2> QED  BY <1>1, <2>1, <2>2 DEF Elems
<1>5. ASSUME IsInjective(s) PROVE IsInjective(r) /\ s[i] \notin Elems(r)
  <2>1. ASSUME s[i] \in Elems(r) PROVE FALSE
    <3>1. PICK j \in 1 .. n : r[j] = s[i]
      BY <1>1, <2>1 DEF Elems
    <3>2. PICK k \in 1 .. (n + 1) : k # i /\ r[j] = s[k]
      BY <1>3
    <3> QED  BY <1>1, <1>5, <3>1, <3>2 DEF IsInjective
  <2>2. IsInjective(r)
    <3> SUFFICES ASSUME NEW j \in 1 .. n, NEW k \in 1 .. n, r[j] = r[k] PROVE j = k
      BY <1>1 DEF IsInjective
    <3> DEFINE f(x) == IF x < i THEN x ELSE x + 1
    <3>1. /\ f(j) \in 1 .. (n + 1) /\ f(k) \in 1 .. (n + 1)
          /\ r[j] = s[f(j)] /\ r[k] = s[f(k)]
      BY <1>1
    <3>2. f(j) = f(k)
      <4> HIDE DEF f
      <4> QED  BY <1>1, <1>5, <3>1 DEF IsInjective
    <3> QED  BY <1>1, <3>2
  <2> QED  BY <2>1, <2>2
<1> QED  BY <1>4, <1>5 DEF r

LEMMA ElemsEmpty == Elems(<<>>) = {} /\ IsInjective(<<>>)
  BY DEF Elems, IsInjective

LEMMA ElemsIn ==
  ASSUME NEW S, NEW s \in Seq(S)
  PROVE  Elems(s) \subseteq S
  BY LenProperties, ElementOfSeq DEF Elems

\* Replacing the queue of one lane changes what waits in that lane only.
Others(l) == UNION {Elems(waiting[k]) : k \in Lane \ {l}}

LEMMA WaitingSplit ==
  ASSUME TypeOK, NEW l \in Lane
  PROVE  /\ Waiting = Elems(waiting[l]) \cup Others(l)
         /\ Elems(waiting[l]) \subseteq Owned(l)
         /\ \A x \in Others(l) : x \in Message /\ LaneOf[x] # l
         /\ Waiting \subseteq Message
<1>1. Waiting = Elems(waiting[l]) \cup Others(l)
  BY DEF Waiting, Others
<1>2. \A k \in Lane : Elems(waiting[k]) \subseteq Owned(k)
  BY ElemsIn DEF TypeOK
<1> QED  BY <1>1, <1>2 DEF Others, Owned

LEMMA WaitingMoves ==
  ASSUME TypeOK, NEW l \in Lane, NEW w, waiting' = [waiting EXCEPT ![l] = w]
  PROVE  Waiting' = Elems(w) \cup Others(l)
<1>1. waiting'[l] = w /\ \A k \in Lane \ {l} : waiting'[k] = waiting[k]
  BY DEF TypeOK
<1> QED  BY <1>1 DEF Waiting, Others
-----------------------------------------------------------------------------
(* What a step does to the messages, whatever it does to slots and timers.    *)

\* The call that works on lane l ends or waits, and leaves w in the lane, ...
Yields(l, w) ==
  /\ waiting' = [waiting EXCEPT ![l] = w]
  /\ current' = [current EXCEPT ![l] = None]
  /\ UNCHANGED <<running, handled, disk>>

\* ... or it hands the head of w to the handler.
Hands(l, w) ==
  /\ w # <<>>
  /\ waiting' = [waiting EXCEPT ![l] = Tail(w)]
  /\ current' = [current EXCEPT ![l] = Head(w)]
  /\ running' = running \cup {Head(w)}
  /\ handled' = [handled EXCEPT ![Head(w)] = @ + 1]
  /\ WritePersistedNow(waiting', current')

LEMMA HookMoves ==
  ASSUME NEW l, NEW h, NEW w, NEW held, NEW timers,
         HookRefuses(l, h, w, timers) \/ HookAllows(l, h, held, timers)
  PROVE  \/ h \in Hooked /\ Yields(l, w) /\ consumed' = consumed
         \/ held = <<>> /\ Yields(l, <<>>) /\ consumed' = consumed \cup ({h} \cap Hooked)
         \/ Hands(l, held) /\ consumed' = consumed \cup ({h} \cap Hooked)
  BY DEF HookRefuses, HookAllows, Leave, Dispatch, Yields, Hands

LEMMA ProcessMoves ==
  ASSUME NEW l, NEW w, NEW fresh, NEW timers, ProcessLane(l, w, fresh, timers)
  PROVE  \/ /\ Yields(l, w) /\ consumed' = consumed
            /\ \/ gate' = gate
               \/ w # <<>> /\ gate' = gate \cup {Head(w)}
         \/ /\ Hands(l, w) /\ consumed' = consumed \cup ({Head(w)} \cap Hooked)
            /\ gate' = gate
<1>1. CASE \/ Leave(l, w, timers \cup {l}) /\ UNCHANGED <<gate, consumed>>
           \/ w = <<>> /\ Leave(l, <<>>, timers) /\ UNCHANGED <<gate, consumed>>
  BY <1>1 DEF Leave, Yields
<1>2. CASE w # <<>> /\ AwaitGate(l, w, timers)
  BY <1>2 DEF AwaitGate, Yields
<1>3. CASE /\ w # <<>> /\ UNCHANGED gate
           /\ HookRefuses(l, Head(w), w, timers) \/ HookAllows(l, Head(w), w, timers)
  BY <1>3, HookMoves
<1> QED  BY <1>1, <1>2, <1>3 DEF ProcessLane

\* The steps that only work on a lane.
Works(l, w) ==
  /\ Yields(l, w) \/ Hands(l, w)
  /\ UNCHANGED <<text, outcome, bootVars>>

WorkStep ==
  \/ \E s \in Session : Retry(s) /\ s \notin processing
  \/ \E h \in gate : ProbeBusy(h) \/ ProbeIdle(h)
  \/ \E m \in Message : HandlerReturns(m)

LEMMA WorkMoves ==
  ASSUME TypeOK, WorkStep
  PROVE  \E l \in Lane : Works(l, waiting[l]) \/ (l \in detached /\ Works(l, <<>>))
<1>1. ASSUME NEW s \in Session, Retry(s), s \notin processing
      PROVE  s \in Lane /\ Works(s, waiting[s])
  <2>1. ProcessLane(s, waiting[s], TRUE, retry \ {s}) /\ UNCHANGED <<text, outcome, bootVars>>
    BY <1>1 DEF Retry
  <2> QED  BY <2>1, ProcessMoves DEF Works, Lane
<1>2. ASSUME NEW h \in gate, ProbeBusy(h)
      PROVE  LaneOf[h] \in Lane /\ Works(LaneOf[h], waiting[LaneOf[h]])
  BY <1>2 DEF ProbeBusy, Leave, Works, Yields, TypeOK, Lane
<1>3. ASSUME NEW h \in gate, ProbeIdle(h)
      PROVE  LET l == LaneOf[h] IN
             l \in Lane /\ (Works(l, waiting[l]) \/ (l \in detached /\ Works(l, <<>>)))
  <2> DEFINE l == LaneOf[h]
             held == IF l \in detached THEN <<>> ELSE waiting[l]
  <2>1. l \in Lane
    BY DEF TypeOK, Lane
  <2>2. /\ HookRefuses(l, h, waiting[l], retry) \/ HookAllows(l, h, held, retry)
        /\ UNCHANGED <<text, outcome, bootVars>>
    BY <1>3 DEF ProbeIdle
  <2>3. Yields(l, waiting[l]) \/ (held = <<>> /\ Yields(l, <<>>)) \/ Hands(l, held)
    <3> HIDE DEF l, held
    <3> QED  BY <2>2, HookMoves
  <2>4. Hands(l, held) => held = waiting[l]
    BY DEF Hands
  <2> QED  BY <2>1, <2>2, <2>3, <2>4 DEF Works
<1>4. ASSUME NEW m \in Message, HandlerReturns(m)
      PROVE  LaneOf[m] \in Lane /\ Works(LaneOf[m], waiting[LaneOf[m]])
  <2>1. /\ ProcessLane(LaneOf[m], waiting[LaneOf[m]], m \notin Prompt, retry)
        /\ UNCHANGED <<text, outcome, bootVars>>
    BY <1>4 DEF HandlerReturns
  <2> QED  BY <2>1, ProcessMoves, QueueAssumption DEF Works, QueueAssumption
<1> QED  BY <1>1, <1>2, <1>3, <1>4 DEF WorkStep

\* Adding a message: it joins its lane, and the lane may be worked on.
LEMMA AcceptMoves ==
  ASSUME NEW m, Accept(m)
  PROVE  LET l == LaneOf[m]
             w == Append(waiting[l], m)
         IN  \/ /\ l \in processing
                /\ waiting' = [waiting EXCEPT ![l] = w]
                /\ UNCHANGED <<gate, consumed, current, running, handled, disk>>
             \/ /\ l \notin processing
                /\ Yields(l, w) \/ Hands(l, w)
  BY ProcessMoves DEF Accept

\* The steps, as the proofs below split them.
LEMMA OtherSteps ==
  ASSUME [Next]_vars
  PROVE  \/ WorkStep
         \/ \E m \in Message : Enqueue(m) \/ HandlerSettles(m) \/ RestoreEntry(m)
         \/ \E s \in Session : CancelQueued(s) \/ ClearSession(s)
         \/ \E m \in Message, t \in Text : RewriteByAck(m, t)
         \/ WriteScheduled \/ Crash \/ Shutdown \/ BeginRestore \/ EndRestore
         \/ UNCHANGED vars \/ \E s \in Session : Retry(s) /\ s \in processing
  BY DEF Next, WorkStep

-----------------------------------------------------------------------------
(* Deduplication.  Only enqueue and a reply to an ack add a prompt or a text, *)
(* and both look at all that waits or flies first; no other step brings a     *)
(* message back.                                                              *)

Active == Waiting \cup {current[l] : l \in Lane}

LEMMA MoveActive ==
  ASSUME TypeOK, NEW l \in Lane, NEW w \in Seq(Owned(l)),
         \/ waiting' = [waiting EXCEPT ![l] = w] /\ UNCHANGED current
         \/ Yields(l, w)
         \/ Hands(l, w)
  PROVE  Active' \subseteq Active \cup Elems(w) \cup {None}
<1>1. ASSUME NEW x, current' = [current EXCEPT ![l] = x]
      PROVE  {current'[k] : k \in Lane} \subseteq {current[k] : k \in Lane} \cup {x}
  BY <1>1 DEF TypeOK
<1>2. ASSUME NEW v, waiting' = [waiting EXCEPT ![l] = v]
      PROVE  Waiting' \subseteq Waiting \cup Elems(v)
  <2>1. Waiting' = Elems(v) \cup Others(l)
    BY <1>2, WaitingMoves
  <2>2. Others(l) \subseteq Waiting
    BY WaitingSplit
  <2> QED  BY <2>1, <2>2
<1>3. CASE waiting' = [waiting EXCEPT ![l] = w] /\ UNCHANGED current
  BY <1>2, <1>3 DEF Active
<1>4. CASE Yields(l, w)
  <2>1. Waiting' \subseteq Waiting \cup Elems(w)
    BY <1>2, <1>4 DEF Yields
  <2>2. {current'[k] : k \in Lane} \subseteq {current[k] : k \in Lane} \cup {None}
    BY <1>1, <1>4 DEF Yields
  <2> QED  BY <2>1, <2>2 DEF Active
<1>5. CASE Hands(l, w)
  <2>1. Elems(w) = {Head(w)} \cup Elems(Tail(w))
    BY <1>5, ElemsTail DEF Hands
  <2>2. Waiting' \subseteq Waiting \cup Elems(Tail(w))
    BY <1>2, <1>5 DEF Hands
  <2>3. {current'[k] : k \in Lane} \subseteq {current[k] : k \in Lane} \cup {Head(w)}
    BY <1>1, <1>5 DEF Hands
  <2> QED  BY <2>1, <2>2, <2>3 DEF Active
<1> QED  BY <1>3, <1>4, <1>5

LEMMA WorkActive ==
  ASSUME TypeOK, WorkStep
  PROVE  Active' \subseteq Active \cup {None} /\ text' = text
<1>1. PICK l \in Lane : Works(l, waiting[l]) \/ Works(l, <<>>)
  BY WorkMoves
<1>2. waiting[l] \in Seq(Owned(l)) /\ <<>> \in Seq(Owned(l))
  BY EmptySeq DEF TypeOK
<1>3. Elems(waiting[l]) \subseteq Active /\ Elems(<<>>) = {}
  BY WaitingSplit, ElemsEmpty DEF Active
<1>4. CASE Works(l, waiting[l])
  BY <1>2, <1>3, <1>4, MoveActive DEF Works
<1>5. CASE Works(l, <<>>)
  BY <1>2, <1>3, <1>5, MoveActive DEF Works
<1> QED  BY <1>1, <1>4, <1>5

LEMMA AcceptActive ==
  ASSUME TypeOK, NEW m \in Message, Accept(m)
  PROVE  Active' \subseteq Active \cup {m, None} /\ text' = text
<1> DEFINE l == LaneOf[m]
           w == Append(waiting[l], m)
<1>1. l \in Lane /\ waiting[l] \in Seq(Owned(l)) /\ m \in Owned(l)
  BY QueueAssumption DEF QueueAssumption, TypeOK, Owned
<1>2. w \in Seq(Owned(l)) /\ Elems(w) = Elems(waiting[l]) \cup {m}
  BY <1>1, AppendProperties, ElemsAppend
<1>3. Elems(waiting[l]) \subseteq Active
  BY <1>1, WaitingSplit DEF Active
<1>4. \/ waiting' = [waiting EXCEPT ![l] = w] /\ UNCHANGED current
      \/ Yields(l, w)
      \/ Hands(l, w)
  BY AcceptMoves
<1>5. Active' \subseteq Active \cup Elems(w) \cup {None}
  <2> HIDE DEF l, w
  <2> QED  BY <1>1, <1>2, <1>4, MoveActive
<1> QED  BY <1>2, <1>3, <1>5 DEF Accept

LEMMA RestartActive ==
  ASSUME NEW file, Restart(file)
  PROVE  Waiting' = {} /\ Active' \subseteq {None} /\ \A l \in Lane : waiting'[l] = <<>>
<1>1. \A l \in Lane : waiting'[l] = <<>> /\ current'[l] = None
  BY DEF Restart
<1> QED  BY <1>1, ElemsEmpty DEF Waiting, Active

LEMMA CancelMoves ==
  ASSUME TypeOK, NEW s \in Session, CancelQueued(s)
  PROVE  /\ s \in Lane /\ "cancel" \in Withdrawals
         /\ \E i \in DOMAIN waiting[s] :
              /\ waiting' = [waiting EXCEPT ![s] = RemoveAt(waiting[s], i)]
              /\ outcome' = [outcome EXCEPT ![waiting[s][i]] = "rejected"]
              /\ waiting[s][i] \in Owned(s)
              /\ Elems(waiting[s]) = Elems(RemoveAt(waiting[s], i)) \cup {waiting[s][i]}
              /\ IsInjective(waiting[s]) =>
                   /\ IsInjective(RemoveAt(waiting[s], i))
                   /\ waiting[s][i] \notin Elems(RemoveAt(waiting[s], i))
<1>1. s \in Lane /\ "cancel" \in Withdrawals
  BY DEF CancelQueued, Lane
<1>2. PICK i \in DOMAIN waiting[s] :
        /\ waiting' = [waiting EXCEPT ![s] = RemoveAt(@, i)]
        /\ outcome' = [outcome EXCEPT ![waiting[s][i]] = "rejected"]
  BY DEF CancelQueued
<1>3. waiting' = [waiting EXCEPT ![s] = RemoveAt(waiting[s], i)]
  BY <1>2
<1>4. waiting[s] \in Seq(Owned(s))
  BY <1>1 DEF TypeOK
<1>5. /\ Elems(waiting[s]) = Elems(RemoveAt(waiting[s], i)) \cup {waiting[s][i]}
      /\ IsInjective(waiting[s]) =>
           /\ IsInjective(RemoveAt(waiting[s], i))
           /\ waiting[s][i] \notin Elems(RemoveAt(waiting[s], i))
  BY <1>4, ElemsRemoveAt
<1>6. waiting[s][i] \in Owned(s)
  BY <1>4, <1>5, ElemsIn
<1> QED  BY <1>1, <1>2, <1>3, <1>5, <1>6

LEMMA NextDup ==
  ASSUME TypeOK, NoDuplicateWaiting, [Next]_vars
  PROVE  NoDuplicateWaiting'
<1> USE DEF bootVars, diskVars, laneVars
<1>0. /\ \A x, y \in Prompt \cap Active :
           ChatOf[x] = ChatOf[y] /\ text[x] = text[y] => x = y
      /\ None \notin Prompt
  BY QueueAssumption DEF NoDuplicateWaiting, Active, QueueAssumption
<1>a. ASSUME Active' \subseteq Active \cup {None}, text' = text
      PROVE  NoDuplicateWaiting'
  BY <1>0, <1>a DEF NoDuplicateWaiting, Active
<1>b. ASSUME NEW m \in Message, Accept(m)
      PROVE  NoDuplicateWaiting'
  <2>1. Active' \subseteq Active \cup {m, None} /\ text' = text
    BY <1>b, AcceptActive
  <2>2. m \in Prompt => \A x \in Prompt \cap Active : ~(ChatOf[x] = ChatOf[m] /\ text[x] = text[m])
    BY <1>b DEF Accept, Duplicate, HasDuplicateText, Active
  <2>3. \A x, y \in Prompt \cap Active' :
          ChatOf[x] = ChatOf[y] /\ text'[x] = text'[y] => x = y
    BY <1>0, <2>1, <2>2
  <2> QED  BY <2>3 DEF NoDuplicateWaiting, Active
<1>c. ASSUME UNCHANGED <<waiting, current, text>> PROVE NoDuplicateWaiting'
  BY <1>a, <1>c DEF Active, Waiting
<1>1. CASE WorkStep
  BY <1>1, <1>a, WorkActive
<1>2. ASSUME NEW m \in Message, Enqueue(m) PROVE NoDuplicateWaiting'
  BY <1>2, <1>b, <1>c DEF Enqueue, Refuse
<1>3. ASSUME NEW m \in Message, HandlerSettles(m) PROVE NoDuplicateWaiting'
  BY <1>3, <1>c DEF HandlerSettles
<1>4. ASSUME NEW m \in Message, RestoreEntry(m) PROVE NoDuplicateWaiting'
  BY <1>4, <1>b, <1>c DEF RestoreEntry
<1>5. ASSUME NEW s \in Session, CancelQueued(s) PROVE NoDuplicateWaiting'
  <2>1. Waiting' \subseteq Waiting
    BY <1>5, CancelMoves, WaitingMoves, WaitingSplit
  <2> QED  BY <1>5, <1>a, <2>1 DEF CancelQueued, Active
<1>6. ASSUME NEW s \in Session, ClearSession(s) PROVE NoDuplicateWaiting'
  <2>1. s \in Lane
    BY DEF Lane
  <2>2. Waiting' \subseteq Waiting
    BY <1>6, <2>1, WaitingMoves, WaitingSplit, ElemsEmpty DEF ClearSession
  <2>3. {current'[l] : l \in Lane} \subseteq {current[l] : l \in Lane} \cup {None}
    BY <1>6, <2>1 DEF ClearSession, TypeOK
  <2> QED  BY <1>6, <1>a, <2>2, <2>3 DEF ClearSession, Active
<1>7. ASSUME NEW m \in Message, NEW t \in Text, RewriteByAck(m, t)
      PROVE  NoDuplicateWaiting'
  <2>1. m \in Prompt => \A x \in Prompt \cap Active : ~(ChatOf[x] = ChatOf[m] /\ text[x] = t)
    BY <1>7 DEF RewriteByAck, HasDuplicateText, Active
  <2>2. text'[m] = t /\ \A x \in Message \ {m} : text'[x] = text[x]
    BY <1>7 DEF RewriteByAck, TypeOK
  <2>3. Active' = Active /\ Prompt \subseteq Message
    BY <1>7, QueueAssumption DEF RewriteByAck, Active, Waiting, QueueAssumption
  <2>4. \A x, y \in Prompt \cap Active' :
          ChatOf[x] = ChatOf[y] /\ text'[x] = text'[y] => x = y
    BY <1>0, <2>1, <2>2, <2>3
  <2> QED  BY <2>4 DEF NoDuplicateWaiting, Active
<1>8. CASE WriteScheduled \/ BeginRestore \/ EndRestore
  BY <1>8, <1>c DEF WriteScheduled, BeginRestore, EndRestore
<1>9. CASE Crash \/ Shutdown
  <2>1. PICK file : Restart(file)
    BY <1>9 DEF Crash, Shutdown
  <2> QED  BY <1>a, <2>1, RestartActive DEF Restart
<1>10. CASE UNCHANGED vars \/ \E s \in Session : Retry(s) /\ s \in processing
  BY <1>10, <1>c DEF vars, Retry
<1> QED
  BY <1>1, <1>2, <1>3, <1>4, <1>5, <1>6, <1>7, <1>8, <1>9, <1>10, OtherSteps

\* NoDuplicateWaiting: no history of messages, replies to acks and restores has
\* the agent sent one prompt of a chat twice, because both checks look at what
\* waits and at what is in flight.
THEOREM NoDuplicates == Spec => []NoDuplicateWaiting
<1>1. Init => NoDuplicateWaiting
  <2> SUFFICES ASSUME Init PROVE NoDuplicateWaiting
    OBVIOUS
  <2>1. Waiting = {} /\ {current[l] : l \in Lane} \subseteq {None}
    BY ElemsEmpty DEF Init, Waiting
  <2> QED  BY <2>1, QueueAssumption DEF NoDuplicateWaiting, QueueAssumption
<1>2. TypeOK /\ NoDuplicateWaiting /\ [Next]_vars => NoDuplicateWaiting'
  BY NextDup
<1> QED  BY <1>1, <1>2, TypeCorrect, PTL DEF Spec

-----------------------------------------------------------------------------
(* The start of the process.  Until the backlog has been restored nothing     *)
(* durable is live, so that what is written over pending.json before that is  *)
(* empty; without traffic nothing happens at all.                             *)

Empty == [backlog |-> {}, dispatched |-> {}]

Asleep ==
  /\ Waiting = {} /\ processing = {} /\ ~scheduled
  /\ gate = {} /\ running = {} /\ returned = {} /\ retry = {}

BootInv ==
  /\ disk.backlog \cup loaded \cup carry \subseteq Durable
  /\ boot = "booting" =>
       /\ carry \cup loaded = {}
       /\ Active \cap Durable = {}
       /\ restarts = 0 => disk = Empty
       /\ ~BootTraffic => Asleep

\* What a write can make of the file: one of two shapes.
Written(w, cur) == disk' = disk \/ disk' = Snapshot(w, cur)

LEMMA WriteIsWritten ==
  ASSUME NEW w, NEW cur, WritePersistedNow(w, cur)
  PROVE  Written(w, cur) /\ (~WriteFaults => disk' = Snapshot(w, cur))
  BY DEF WritePersistedNow, Written

LEMMA WorkWrites ==
  ASSUME NEW l, NEW w, Yields(l, w) \/ Hands(l, w)
  PROVE  Written(waiting', current')
  BY WriteIsWritten DEF Yields, Hands, Written

LEMMA SnapshotIs ==
  ASSUME TypeOK, BootInv
  PROVE  /\ Snapshot(waiting, current) \in [backlog : SUBSET Durable, dispatched : SUBSET Durable]
         /\ Snapshot(waiting, current).backlog \subseteq Waiting \cup carry
         /\ Snapshot(waiting, current).backlog \cap {current[l] : l \in Lane} \subseteq Waiting
  BY DEF Snapshot, BootInv, Waiting

\* A write after the step, with the carryover of before.
LEMMA SnapshotNext ==
  ASSUME TypeOK, BootInv
  PROVE  /\ Snapshot(waiting', current') \in [backlog : SUBSET Durable, dispatched : SUBSET Durable]
         /\ Snapshot(waiting', current').backlog \subseteq Waiting' \cup carry
         /\ boot # "up" /\ Active' \cap Durable = {} => Snapshot(waiting', current') = Empty
<1>1. Waiting' = UNION {Elems(waiting'[l]) : l \in Lane}
  BY DEF Waiting
<1> QED  BY <1>1 DEF Snapshot, BootInv, Active, Empty

LEMMA BootKept ==
  ASSUME TypeOK, BootInv, UNCHANGED bootVars, Written(waiting', current'),
         boot = "booting" => Active' \cap Durable = {},
         boot = "booting" /\ ~BootTraffic => Asleep'
  PROVE  BootInv'
<1> USE DEF bootVars
<1>1. disk'.backlog \subseteq Durable
  BY SnapshotNext DEF Written, BootInv
<1>2. ASSUME boot = "booting", restarts = 0 PROVE disk' = Empty
  BY <1>2, SnapshotNext DEF Written, BootInv
<1> QED  BY <1>1, <1>2 DEF BootInv

LEMMA NextBoot ==
  ASSUME TypeOK, BootInv, [Next]_vars
  PROVE  BootInv'
<1> USE DEF bootVars, diskVars, laneVars
<1>0. None \notin Durable
  BY QueueAssumption DEF QueueAssumption
<1>1. CASE WorkStep
  <2>1. PICK l \in Lane : Works(l, waiting[l]) \/ Works(l, <<>>)
    BY <1>1, WorkMoves
  <2>2. UNCHANGED bootVars /\ Written(waiting', current')
    BY <2>1, WorkWrites DEF Works
  <2>3. boot = "booting" => Active' \cap Durable = {}
    BY <1>0, <1>1, WorkActive DEF BootInv
  <2>4. boot = "booting" => BootTraffic
    BY <1>1 DEF WorkStep, Retry, HandlerReturns, BootInv, Asleep
  <2> QED  BY <2>2, <2>3, <2>4, BootKept
<1>2. ASSUME NEW m \in Message, Enqueue(m) PROVE BootInv'
  <2>1. CASE Accept(m)
    <3>1. Written(waiting', current')
      BY <2>1, AcceptMoves, WorkWrites DEF Written
    <3>2. boot = "booting" => Active' \cap Durable = {} /\ BootTraffic
      BY <1>0, <1>2, <2>1, AcceptActive DEF Enqueue, BootInv
    <3>3. UNCHANGED bootVars
      BY <1>2, <2>1 DEF Enqueue, Refuse
    <3> QED  BY <3>1, <3>2, <3>3, BootKept
  <2>2. CASE Refuse(m)
    BY <2>2 DEF Refuse, BootInv, Active, Waiting, Asleep
  <2> QED  BY <1>2, <2>1, <2>2 DEF Enqueue
<1>3. ASSUME NEW m \in Message, HandlerSettles(m) PROVE BootInv'
  <2>1. boot = "booting" => BootTraffic
    BY <1>3 DEF HandlerSettles, BootInv, Asleep
  <2> QED  BY <1>3, <2>1 DEF HandlerSettles, BootInv, Active, Waiting
<1>4. ASSUME NEW m \in Message, RestoreEntry(m) PROVE BootInv'
  <2>1. /\ boot' = "restoring" /\ boot = "restoring"
        /\ loaded' \cup carry' \subseteq loaded \cup carry
    BY <1>4 DEF RestoreEntry
  <2>2. disk'.backlog \subseteq Durable
    <3>1. CASE Accept(m)
      BY <3>1, AcceptMoves, WorkWrites, SnapshotNext DEF Written, BootInv
    <3>2. CASE disk' = disk
      BY <3>2 DEF BootInv
    <3> QED  BY <1>4, <3>1, <3>2 DEF RestoreEntry
  <2> QED  BY <2>1, <2>2 DEF BootInv
<1>5. ASSUME NEW s \in Session, CancelQueued(s) PROVE BootInv'
  <2>1. /\ Waiting' \subseteq Waiting /\ Waiting # {}
    BY <1>5, CancelMoves, WaitingMoves, WaitingSplit
  <2>2. Active' \subseteq Active
    BY <1>5, <2>1 DEF CancelQueued, Active
  <2> QED  BY <1>5, <2>1, <2>2 DEF CancelQueued, BootInv, Asleep
<1>6. ASSUME NEW s \in Session, ClearSession(s) PROVE BootInv'
  <2>1. s \in Lane
    BY DEF Lane
  <2>2. Waiting' \subseteq Waiting
    BY <1>6, <2>1, WaitingMoves, WaitingSplit, ElemsEmpty DEF ClearSession
  <2>3. {current'[l] : l \in Lane} \subseteq {current[l] : l \in Lane} \cup {None}
    BY <1>6, <2>1 DEF ClearSession, TypeOK
  <2>4. Waiting # {} \/ s \in processing
    <3>1. waiting[s] # <<>> => Head(waiting[s]) \in Waiting
      BY <2>1, ElemsTail, WaitingSplit DEF TypeOK
    <3> QED  BY <1>6, <3>1 DEF ClearSession
  <2> QED  BY <1>0, <1>6, <2>2, <2>3, <2>4 DEF ClearSession, BootInv, Active, Asleep
<1>7. ASSUME NEW m \in Message, NEW t \in Text, RewriteByAck(m, t) PROVE BootInv'
  <2>1. Waiting # {}
    BY <1>7, QueueAssumption, WaitingSplit DEF RewriteByAck, QueueAssumption
  <2> QED  BY <1>7, <2>1 DEF RewriteByAck, BootInv, Active, Waiting, Asleep
<1>8. CASE WriteScheduled
  <2>1. Written(waiting', current') /\ Active' = Active
    BY <1>8, WriteIsWritten DEF WriteScheduled, Active, Waiting
  <2> QED  BY <1>8, <2>1, BootKept DEF WriteScheduled, BootInv, Asleep
<1>9. CASE Crash \/ Shutdown
  <2>1. PICK file : Restart(file) /\ (file = disk \/ file = Snapshot(waiting, current))
    BY <1>9 DEF Crash, Shutdown
  <2>2. file.backlog \subseteq Durable
    BY <2>1, SnapshotIs DEF BootInv
  <2>3. Waiting' = {} /\ Active' \cap Durable = {}
    BY <1>0, <2>1, RestartActive
  <2>4. restarts' # 0
    BY <2>1, QueueAssumption DEF Restart, TypeOK, QueueAssumption
  <2> QED  BY <2>1, <2>2, <2>3, <2>4 DEF Restart, BootInv, Asleep
<1>10. CASE BeginRestore \/ EndRestore
  <2>1. /\ boot' # "booting" /\ disk' = disk /\ carry' = carry
        /\ loaded' = loaded \/ loaded' = disk.backlog
    BY <1>10 DEF BeginRestore, EndRestore
  <2> QED  BY <2>1 DEF BootInv
<1>11. CASE UNCHANGED vars \/ \E s \in Session : Retry(s) /\ s \in processing
  <2>1. CASE UNCHANGED vars
    BY <2>1 DEF vars, BootInv, Active, Waiting, Asleep
  <2>2. ASSUME NEW s \in Session, Retry(s), s \in processing PROVE BootInv'
    BY <2>2 DEF Retry, BootInv, Active, Waiting, Asleep
  <2> QED  BY <1>11, <2>1, <2>2
<1> QED
  BY <1>1, <1>2, <1>3, <1>4, <1>5, <1>6, <1>7, <1>8, <1>9, <1>10, <1>11, OtherSteps

-----------------------------------------------------------------------------
(* At most once.  A message that has reached its handler is in no queue, not  *)
(* in the carryover and not in the backlog of pending.json: the file says so  *)
(* before the handler runs, and a message is in one place only.               *)

Places == Waiting \cup loaded \cup carry \cup disk.backlog

OnceInv ==
  /\ BootInv
  /\ \A l \in Lane : IsInjective(waiting[l])
  /\ \A m \in Message :
       handled[m] # 0 => handled[m] = 1 /\ m \notin Places /\ outcome[m] # "new"
  /\ \A m \in Places : outcome[m] # "new"
  /\ Waiting \cap (loaded \cup carry) = {}
  /\ loaded \cap carry = {}

LEMMA PlacesAreMessages ==
  ASSUME TypeOK PROVE Places \subseteq Message /\ disk.backlog \subseteq Message
<1>1. Waiting \subseteq Message
  <2>1. \A l \in Lane : Elems(waiting[l]) \subseteq Message
    BY ElemsIn DEF TypeOK
  <2> QED  BY <2>1 DEF Waiting
<1> QED  BY <1>1 DEF Places, TypeOK

\* Work on a lane, with the messages of new added to it.
LEMMA OnceMoves ==
  ASSUME ~WriteFaults, TypeOK, OnceInv, BootInv', NEW l \in Lane, NEW w \in Seq(Owned(l)),
         NEW new \in SUBSET Message,
         \/ waiting' = [waiting EXCEPT ![l] = w] /\ UNCHANGED <<handled, disk>>
         \/ Yields(l, w)
         \/ Hands(l, w),
         IsInjective(w), Elems(w) \subseteq Elems(waiting[l]) \cup new,
         loaded' \subseteq loaded, carry' = carry, new \cap (loaded' \cup carry) = {},
         \A m \in new : handled[m] = 0 /\ outcome'[m] # "new",
         \A m \in Message : outcome[m] # "new" => outcome'[m] # "new"
  PROVE  OnceInv'
<1>1. /\ Waiting = Elems(waiting[l]) \cup Others(l)
      /\ \A x \in Others(l) : LaneOf[x] # l
      /\ \A x \in Elems(w) : LaneOf[x] = l /\ x \in Message
      /\ Waiting \subseteq Message
  BY WaitingSplit, ElemsIn DEF Owned
<1>2. Places \subseteq Message
  BY PlacesAreMessages
<1>3. CASE waiting' = [waiting EXCEPT ![l] = w] /\ UNCHANGED <<handled, disk>>
  <2>1. Waiting' = Elems(w) \cup Others(l)
    BY <1>3, WaitingMoves
  <2>2. \A k \in Lane : IsInjective(waiting'[k])
    BY <1>3 DEF OnceInv, TypeOK
  <2>3. Places' \subseteq Places \cup new
    BY <1>1, <1>3, <2>1 DEF Places
  <2>4. /\ Waiting' \cap (loaded' \cup carry') = {}
        /\ loaded' \cap carry' = {}
    BY <1>1, <2>1 DEF OnceInv
  <2>5. \A m \in Message : handled[m] # 0 => m \notin Places' /\ outcome'[m] # "new"
    BY <2>3 DEF OnceInv
  <2>6. \A m \in Places' : outcome'[m] # "new"
    BY <1>2, <2>3 DEF OnceInv
  <2> QED  BY <1>3, <2>2, <2>4, <2>5, <2>6 DEF OnceInv
<1>4. CASE Yields(l, w)
  BY <1>3, <1>4 DEF Yields
<1>5. CASE Hands(l, w)
  <2> DEFINE h == Head(w)
             t == Tail(w)
  <2>1. /\ Elems(w) = {h} \cup Elems(t) /\ IsInjective(t) /\ h \notin Elems(t)
        /\ h \in Message /\ LaneOf[h] = l
    BY <1>1, <1>5, ElemsTail DEF Hands
  <2>2. waiting' = [waiting EXCEPT ![l] = t] /\ handled' = [handled EXCEPT ![h] = @ + 1]
    BY <1>5 DEF Hands
  <2>3. disk'.backlog \subseteq Waiting' \cup carry
    BY <1>5, WriteIsWritten, SnapshotNext DEF Hands, OnceInv
  <2> HIDE DEF h, t
  <2>4. Waiting' = Elems(t) \cup Others(l)
    BY <2>2, WaitingMoves
  <2>5. \A k \in Lane : IsInjective(waiting'[k])
    BY <2>1, <2>2 DEF OnceInv, TypeOK
  <2>6. Waiting' \subseteq (Waiting \cup new) \ {h} /\ h \in Waiting \cup new
    BY <1>1, <2>1, <2>4
  <2>7. /\ Waiting' \cap (loaded' \cup carry') = {}
        /\ loaded' \cap carry' = {}
    BY <2>6 DEF OnceInv
  <2>8. Places' \subseteq (Places \cup new) \ {h} /\ h \in Places \cup new
    BY <2>3, <2>6 DEF Places, OnceInv
  <2>9. /\ handled[h] = 0 /\ outcome'[h] # "new" /\ handled'[h] = 1
        /\ \A m \in Message \ {h} : handled'[m] = handled[m]
    BY <2>1, <2>2, <2>8 DEF OnceInv, TypeOK
  <2>10. \A m \in Message :
           handled'[m] # 0 => handled'[m] = 1 /\ m \notin Places' /\ outcome'[m] # "new"
    BY <2>8, <2>9 DEF OnceInv
  <2>11. \A m \in Places' : outcome'[m] # "new"
    BY <1>2, <2>8 DEF OnceInv
  <2> QED  BY <2>5, <2>7, <2>10, <2>11 DEF OnceInv
<1> QED  BY <1>3, <1>4, <1>5

\* Work on a lane, and removals from it.
LEMMA OnceWorks ==
  ASSUME ~WriteFaults, TypeOK, OnceInv, BootInv', NEW l \in Lane, NEW w \in Seq(Owned(l)),
         \/ waiting' = [waiting EXCEPT ![l] = w] /\ UNCHANGED <<handled, disk>>
         \/ Yields(l, w)
         \/ Hands(l, w),
         IsInjective(w), Elems(w) \subseteq Elems(waiting[l]), UNCHANGED <<carry, loaded>>,
         \A m \in Message : outcome[m] # "new" => outcome'[m] # "new"
  PROVE  OnceInv'
<1> DEFINE new == {}
<1>1. /\ new \in SUBSET Message /\ new \cap (loaded' \cup carry) = {}
      /\ \A m \in new : handled[m] = 0 /\ outcome'[m] # "new"
      /\ Elems(w) \subseteq Elems(waiting[l]) \cup new
      /\ loaded' \subseteq loaded
  OBVIOUS
<1> HIDE DEF new
<1> QED  BY <1>1, OnceMoves

\* A message that joins its lane.
LEMMA OnceAccept ==
  ASSUME ~WriteFaults, TypeOK, OnceInv, BootInv', NEW m \in Message, Accept(m),
         m \notin Waiting, handled[m] = 0,
         loaded' \subseteq loaded, carry' = carry, m \notin loaded' \cup carry
  PROVE  OnceInv'
<1> DEFINE l == LaneOf[m]
           w == Append(waiting[l], m)
<1>1. l \in Lane /\ waiting[l] \in Seq(Owned(l)) /\ m \in Owned(l)
  BY QueueAssumption DEF QueueAssumption, TypeOK, Owned
<1>2. w \in Seq(Owned(l)) /\ Elems(w) = Elems(waiting[l]) \cup {m} /\ IsInjective(w)
  <2>1. m \notin Elems(waiting[l]) /\ IsInjective(waiting[l])
    BY <1>1, WaitingSplit DEF OnceInv
  <2> QED  BY <1>1, <2>1, AppendProperties, ElemsAppend
<1>3. \/ waiting' = [waiting EXCEPT ![l] = w] /\ UNCHANGED <<handled, disk>>
      \/ Yields(l, w)
      \/ Hands(l, w)
  BY AcceptMoves
<1>4. outcome'[m] # "new" /\ \A x \in Message : outcome[x] # "new" => outcome'[x] # "new"
  BY DEF Accept, TypeOK
<1> DEFINE new == {m}
<1>5. /\ new \in SUBSET Message /\ new \cap (loaded' \cup carry) = {}
      /\ \A x \in new : handled[x] = 0 /\ outcome'[x] # "new"
      /\ Elems(w) \subseteq Elems(waiting[l]) \cup new
  BY <1>2, <1>4
<1> HIDE DEF l, w, new
<1> QED  BY <1>1, <1>2, <1>3, <1>4, <1>5, OnceMoves

LEMMA NextOnce ==
  ASSUME ~WriteFaults, TypeOK, OnceInv, [Next]_vars
  PROVE  OnceInv'
<1> USE DEF bootVars, diskVars, laneVars
<1>0. BootInv' /\ Places \subseteq Message
  BY NextBoot, PlacesAreMessages DEF OnceInv
\* Steps that leave every message where it is.
<1>a. ASSUME UNCHANGED <<waiting, handled, carry, loaded, disk>>,
             \A m \in Message : outcome[m] # "new" => outcome'[m] # "new"
      PROVE  OnceInv'
  <2>1. Places' = Places /\ Waiting' = Waiting
    BY <1>a DEF Places, Waiting
  <2>2. \A m \in Places' : outcome'[m] # "new"
    BY <1>0, <1>a, <2>1 DEF OnceInv
  <2>3. \A m \in Message :
          handled'[m] # 0 => handled'[m] = 1 /\ m \notin Places' /\ outcome'[m] # "new"
    BY <1>a, <2>1 DEF OnceInv
  <2>4. /\ \A l \in Lane : IsInjective(waiting'[l])
        /\ Waiting' \cap (loaded' \cup carry') = {}
        /\ loaded' \cap carry' = {}
    BY <1>a, <2>1 DEF OnceInv
  <2> QED  BY <1>0, <2>2, <2>3, <2>4 DEF OnceInv
<1>1. CASE WorkStep
  <2>1. PICK l \in Lane : Works(l, waiting[l]) \/ Works(l, <<>>)
    BY <1>1, WorkMoves
  <2>2. PICK w \in {waiting[l], <<>>} : Works(l, w)
    BY <2>1
  <2>3. w \in Seq(Owned(l)) /\ IsInjective(w) /\ Elems(w) \subseteq Elems(waiting[l])
    <3>1. waiting[l] \in Seq(Owned(l)) /\ <<>> \in Seq(Owned(l)) /\ IsInjective(waiting[l])
      BY EmptySeq DEF TypeOK, OnceInv
    <3>2. CASE w = waiting[l]
      BY <3>1, <3>2
    <3>3. CASE w = <<>>
      BY <3>1, <3>3, ElemsEmpty
    <3> QED  BY <3>2, <3>3
  <2>4. Yields(l, w) \/ Hands(l, w)
    BY <2>2 DEF Works
  <2>5. UNCHANGED <<outcome, carry, loaded>>
    BY <2>2 DEF Works
  <2> QED  BY <1>0, <2>3, <2>4, <2>5, OnceWorks
<1>2. ASSUME NEW m \in Message, Enqueue(m) PROVE OnceInv'
  <2>1. CASE Accept(m)
    <3>1. m \notin Places /\ handled[m] = 0
      BY <1>2 DEF Enqueue, OnceInv
    <3>2. carry' = carry /\ loaded' = loaded
      BY <1>2 DEF Enqueue, Refuse
    <3> QED  BY <1>0, <2>1, <3>1, <3>2, OnceAccept DEF Places
  <2>2. CASE Refuse(m)
    <3>1. \A x \in Message : outcome[x] # "new" => outcome'[x] # "new"
      BY <2>2 DEF Refuse, TypeOK
    <3> QED  BY <1>a, <2>2, <3>1 DEF Refuse
  <2> QED  BY <1>2, <2>1, <2>2 DEF Enqueue
<1>3. ASSUME NEW m \in Message, HandlerSettles(m) PROVE OnceInv'
  <2>1. \A x \in Message : outcome[x] # "new" => outcome'[x] # "new"
    BY <1>3 DEF HandlerSettles, TypeOK
  <2> QED  BY <1>a, <1>3, <2>1 DEF HandlerSettles
<1>4. ASSUME NEW m \in Message, RestoreEntry(m) PROVE OnceInv'
  <2>0. loaded' = loaded \ {m} /\ m \in loaded /\ m \in Places
    BY <1>4 DEF RestoreEntry, Places
  <2>1. CASE Accept(m) /\ UNCHANGED carry
    BY <1>0, <2>0, <2>1, OnceAccept DEF OnceInv
  <2>2. CASE UNCHANGED <<waiting, handled, disk>> /\ carry' \subseteq carry \cup {m}
    <3>1. \A x \in Message : outcome[x] # "new" => outcome'[x] # "new"
      BY <1>4 DEF RestoreEntry, TypeOK, Accept
    <3>2. Places' \subseteq Places /\ Waiting' = Waiting
      BY <2>0, <2>2 DEF Places, Waiting
    <3>3. Waiting' \cap (loaded' \cup carry') = {} /\ loaded' \cap carry' = {}
      BY <2>0, <2>2, <3>2 DEF OnceInv
    <3> QED  BY <1>0, <2>2, <3>1, <3>2, <3>3 DEF OnceInv
  <2> QED  BY <1>4, <2>1, <2>2 DEF RestoreEntry
<1>5. ASSUME NEW s \in Session, CancelQueued(s) PROVE OnceInv'
  <2>1. PICK i \in DOMAIN waiting[s] :
          /\ waiting' = [waiting EXCEPT ![s] = RemoveAt(waiting[s], i)]
          /\ outcome' = [outcome EXCEPT ![waiting[s][i]] = "rejected"]
          /\ Elems(waiting[s]) = Elems(RemoveAt(waiting[s], i)) \cup {waiting[s][i]}
          /\ IsInjective(waiting[s]) => IsInjective(RemoveAt(waiting[s], i))
    BY <1>5, CancelMoves
  <2> DEFINE w == RemoveAt(waiting[s], i)
  <2>2. s \in Lane /\ w \in Seq(Owned(s))
    BY <1>5, CancelMoves, RemoveAtOK DEF TypeOK
  <2>3. IsInjective(w) /\ Elems(w) \subseteq Elems(waiting[s])
    BY <2>1, <2>2 DEF OnceInv
  <2>4. \A x \in Message : outcome[x] # "new" => outcome'[x] # "new"
    BY <2>1 DEF TypeOK
  <2>5. waiting' = [waiting EXCEPT ![s] = w] /\ UNCHANGED <<handled, disk, carry, loaded>>
    BY <1>5, <2>1 DEF CancelQueued
  <2> HIDE DEF w
  <2> QED  BY <1>0, <2>2, <2>3, <2>4, <2>5, OnceWorks
<1>6. ASSUME NEW s \in Session, ClearSession(s) PROVE OnceInv'
  <2>1. s \in Lane /\ <<>> \in Seq(Owned(s))
    BY EmptySeq DEF Lane
  <2>2. IsInjective(<<>>) /\ Elems(<<>>) \subseteq Elems(waiting[s])
    BY ElemsEmpty
  <2>3. \A x \in Message : outcome[x] # "new" => outcome'[x] # "new"
    BY <1>6 DEF ClearSession
  <2>4. waiting' = [waiting EXCEPT ![s] = <<>>] /\ UNCHANGED <<handled, disk, carry, loaded>>
    BY <1>6 DEF ClearSession
  <2> QED  BY <1>0, <2>1, <2>2, <2>3, <2>4, OnceWorks
<1>7. ASSUME NEW m \in Message, NEW t \in Text, RewriteByAck(m, t) PROVE OnceInv'
  BY <1>7, <1>a DEF RewriteByAck
<1>8. CASE WriteScheduled
  <2>1. disk'.backlog \subseteq Waiting \cup carry /\ Waiting' = Waiting
    BY <1>8, WriteIsWritten, SnapshotIs DEF WriteScheduled, OnceInv, Waiting
  <2>2. Places' \subseteq Places
    BY <1>8, <2>1 DEF WriteScheduled, Places
  <2> QED  BY <1>0, <1>8, <2>1, <2>2 DEF WriteScheduled, OnceInv
<1>9. CASE Crash \/ Shutdown
  <2>1. PICK file : Restart(file) /\ (file = disk \/ file = Snapshot(waiting, current))
    BY <1>9 DEF Crash, Shutdown
  <2>2. file.backlog \subseteq Places
    BY <2>1, SnapshotIs DEF OnceInv, Places
  <2>3. Waiting' = {} /\ \A l \in Lane : waiting'[l] = <<>>
    BY <2>1, RestartActive
  <2>4. Places' \subseteq Places
    BY <2>1, <2>2, <2>3 DEF Restart, Places
  <2>5. \A x \in Message : outcome[x] # "new" => outcome'[x] # "new"
    BY <2>1 DEF Restart
  <2> QED  BY <1>0, <2>1, <2>3, <2>4, <2>5, ElemsEmpty DEF Restart, OnceInv
<1>10. CASE BeginRestore \/ EndRestore
  <2>1. Places' \subseteq Places /\ Waiting' = Waiting
    BY <1>10 DEF BeginRestore, EndRestore, Places, Waiting
  <2>2. Waiting' \cap (loaded' \cup carry') = {} /\ loaded' \cap carry' = {}
    <3>1. CASE loaded' = loaded
      BY <1>10, <2>1, <3>1 DEF BeginRestore, EndRestore, OnceInv
    <3>2. CASE loaded' = disk.backlog
      BY <1>10, <2>1, <3>2 DEF BeginRestore, EndRestore, OnceInv, BootInv, Active
    <3> QED  BY <1>10, <3>1, <3>2 DEF BeginRestore, EndRestore
  <2> QED  BY <1>0, <1>10, <2>1, <2>2 DEF BeginRestore, EndRestore, OnceInv
<1>11. CASE UNCHANGED vars \/ \E s \in Session : Retry(s) /\ s \in processing
  BY <1>11, <1>a DEF vars, Retry
<1> QED
  BY <1>1, <1>2, <1>3, <1>4, <1>5, <1>6, <1>7, <1>8, <1>9, <1>10, <1>11, OtherSteps

LEMMA InitBoot == Init => BootInv
<1> SUFFICES ASSUME Init PROVE BootInv
  OBVIOUS
<1>1. Waiting = {} /\ Active \subseteq {None}
  BY ElemsEmpty DEF Init, Waiting, Active
<1> QED  BY <1>1, QueueAssumption DEF Init, BootInv, Asleep, Empty, QueueAssumption

LEMMA InitOnce == Init => OnceInv
<1> SUFFICES ASSUME Init PROVE OnceInv
  OBVIOUS
<1>1. Waiting = {}
  BY ElemsEmpty DEF Init, Waiting
<1> QED  BY <1>1, InitBoot, ElemsEmpty DEF Init, OnceInv, Places

\* AtMostOnceHandled, when no write of pending.json fails: over any number of
\* crashes and shutdowns a message is handed to its handler at most once.
THEOREM AtMostOnce ==
  ASSUME ~WriteFaults
  PROVE  Spec => []AtMostOnceHandled
<1>1. Init => OnceInv
  BY InitOnce
<1>2. TypeOK /\ OnceInv /\ [Next]_vars => OnceInv'
  BY NextOnce
<1>3. TypeOK /\ OnceInv => AtMostOnceHandled
  <2> SUFFICES ASSUME TypeOK, OnceInv, NEW m \in Message PROVE handled[m] <= 1
    BY DEF AtMostOnceHandled
  <2>1. handled[m] # 0 => handled[m] = 1
    BY DEF OnceInv
  <2> QED  BY <2>1
<1> QED  BY <1>1, <1>2, <1>3, TypeCorrect, PTL DEF Spec

-----------------------------------------------------------------------------
(* pending.json against memory.  A change of what waits, flies or is carried  *)
(* over either is written by its own step or schedules a write.               *)

\* current names a message that is still being worked on.
CurrentInv ==
  \A l \in Lane : current[l] # None =>
    \E x \in running \cup returned : LaneOf[x] = l /\ current[l] = x

LEMMA CurrentMoves ==
  ASSUME TypeOK, CurrentInv, NEW l \in Lane, NEW w \in Seq(Owned(l)),
         Yields(l, w) \/ Hands(l, w),
         \A x \in returned \ returned' : LaneOf[x] = l
  PROVE  CurrentInv'
<1> SUFFICES ASSUME NEW k \in Lane, current'[k] # None
             PROVE  \E x \in running' \cup returned' : LaneOf[x] = k /\ current'[k] = x
  BY DEF CurrentInv
<1>1. CASE k # l
  <2>1. current'[k] = current[k] /\ running \subseteq running'
    BY <1>1 DEF Yields, Hands, TypeOK
  <2>2. PICK x \in running \cup returned : LaneOf[x] = k /\ current[k] = x
    BY <2>1 DEF CurrentInv
  <2>3. x \in running' \cup returned'
    BY <1>1, <2>1, <2>2
  <2> QED  BY <2>1, <2>2, <2>3
<1>2. CASE k = l
  <2>1. Hands(l, w)
    BY <1>2 DEF Yields, TypeOK
  <2>2. current'[l] = Head(w) /\ Head(w) \in running' /\ LaneOf[Head(w)] = l
    BY <2>1, HeadTailOK DEF Hands, TypeOK, Owned
  <2> QED  BY <1>2, <2>2
<1> QED  BY <1>1, <1>2

LEMMA WorkReturned ==
  ASSUME TypeOK, WorkStep
  PROVE  \E l \in Lane, w \in Seq(Message) :
           /\ w \in Seq(Owned(l)) /\ (Yields(l, w) \/ Hands(l, w))
           /\ \A x \in returned \ returned' : LaneOf[x] = l
<1>0. \A l \in Lane : waiting[l] \in Seq(Owned(l)) /\ <<>> \in Seq(Owned(l))
  BY EmptySeq DEF TypeOK
<1>1. PICK l \in Lane : /\ Works(l, waiting[l]) \/ Works(l, <<>>)
                        /\ \A x \in returned \ returned' : LaneOf[x] = l
  <2>1. ASSUME NEW m \in Message, HandlerReturns(m)
        PROVE  /\ LaneOf[m] \in Lane /\ Works(LaneOf[m], waiting[LaneOf[m]])
               /\ \A x \in returned \ returned' : LaneOf[x] = LaneOf[m]
    <3>1. /\ ProcessLane(LaneOf[m], waiting[LaneOf[m]], m \notin Prompt, retry)
          /\ UNCHANGED <<text, outcome, bootVars>> /\ returned' = returned \ {m}
      BY <2>1 DEF HandlerReturns
    <3> QED  BY <3>1, ProcessMoves, QueueAssumption DEF Works, QueueAssumption
  <2>2. CASE ~ \E m \in Message : HandlerReturns(m)
    <3>1. returned' = returned
      BY <2>2 DEF WorkStep, Retry, ProbeBusy, ProbeIdle
    <3> QED  BY <3>1, WorkMoves
  <2> QED  BY <2>1, <2>2
<1>2. PICK w \in {waiting[l], <<>>} : Works(l, w)
  BY <1>1
<1>3. w \in Seq(Owned(l)) /\ w \in Seq(Message)
  BY <1>0, OwnedIsMessage
<1> QED  BY <1>1, <1>2, <1>3 DEF Works

LEMMA AcceptCurrent ==
  ASSUME TypeOK, CurrentInv, NEW m \in Message, Accept(m)
  PROVE  CurrentInv'
<1> DEFINE l == LaneOf[m]
           w == Append(waiting[l], m)
<1>1. l \in Lane /\ waiting[l] \in Seq(Owned(l)) /\ m \in Owned(l)
  BY QueueAssumption DEF QueueAssumption, TypeOK, Owned
<1>2. w \in Seq(Owned(l)) /\ returned' = returned
  BY <1>1, AppendProperties DEF Accept
<1>3. UNCHANGED <<current, running>> \/ Yields(l, w) \/ Hands(l, w)
  BY AcceptMoves
<1> HIDE DEF l, w
<1>4. CASE UNCHANGED <<current, running>>
  BY <1>2, <1>4 DEF CurrentInv
<1> QED  BY <1>1, <1>2, <1>3, <1>4, CurrentMoves

LEMMA NextCurrent ==
  ASSUME TypeOK, CurrentInv, [Next]_vars
  PROVE  CurrentInv'
<1> USE DEF bootVars, diskVars, laneVars
<1>a. ASSUME UNCHANGED <<current, running, returned>> PROVE CurrentInv'
  BY <1>a DEF CurrentInv
<1>1. CASE WorkStep
  BY <1>1, WorkReturned, CurrentMoves
<1>2. ASSUME NEW m \in Message, Enqueue(m) PROVE CurrentInv'
  BY <1>2, <1>a, AcceptCurrent DEF Enqueue, Refuse
<1>3. ASSUME NEW m \in Message, HandlerSettles(m) PROVE CurrentInv'
  BY <1>3 DEF HandlerSettles, CurrentInv
<1>4. ASSUME NEW m \in Message, RestoreEntry(m) PROVE CurrentInv'
  BY <1>4, <1>a, AcceptCurrent DEF RestoreEntry
<1>5. ASSUME NEW s \in Session, CancelQueued(s) PROVE CurrentInv'
  BY <1>5, <1>a DEF CancelQueued
<1>6. ASSUME NEW s \in Session, ClearSession(s) PROVE CurrentInv'
  <2>1. \A k \in Lane : current'[k] # None => current'[k] = current[k]
    BY <1>6 DEF ClearSession, TypeOK
  <2>2. UNCHANGED <<running, returned>>
    BY <1>6 DEF ClearSession
  <2> QED  BY <2>1, <2>2 DEF CurrentInv
<1>7. ASSUME NEW m \in Message, NEW t \in Text, RewriteByAck(m, t) PROVE CurrentInv'
  BY <1>7, <1>a DEF RewriteByAck
<1>8. CASE WriteScheduled \/ BeginRestore \/ EndRestore
  BY <1>8, <1>a DEF WriteScheduled, BeginRestore, EndRestore
<1>9. CASE Crash \/ Shutdown
  <2>1. \A k \in Lane : current'[k] = None
    BY <1>9 DEF Crash, Shutdown, Restart
  <2> QED  BY <2>1 DEF CurrentInv
<1>10. CASE UNCHANGED vars \/ \E s \in Session : Retry(s) /\ s \in processing
  BY <1>10, <1>a DEF vars, Retry
<1> QED
  BY <1>1, <1>2, <1>3, <1>4, <1>5, <1>6, <1>7, <1>8, <1>9, <1>10, OtherSteps

\* Without clearSession no queue object is ever detached.
LEMMA NextAttached ==
  ASSUME "clearSession" \notin Withdrawals, detached = {}, [Next]_vars
  PROVE  detached' = {}
<1> USE DEF bootVars, diskVars, laneVars
<1>1. CASE WorkStep
  BY <1>1 DEF WorkStep, Retry, ProbeBusy, ProbeIdle, HandlerReturns
<1>2. CASE \E m \in Message : Enqueue(m) \/ HandlerSettles(m) \/ RestoreEntry(m)
  BY <1>2 DEF Enqueue, HandlerSettles, RestoreEntry, Accept, Refuse
<1>3. CASE \E s \in Session : CancelQueued(s) \/ ClearSession(s)
  BY <1>3 DEF CancelQueued, ClearSession
<1>4. CASE \E m \in Message, t \in Text : RewriteByAck(m, t)
  BY <1>4 DEF RewriteByAck
<1>5. CASE WriteScheduled \/ Crash \/ Shutdown \/ BeginRestore \/ EndRestore
  BY <1>5 DEF WriteScheduled, Crash, Shutdown, Restart, BeginRestore, EndRestore
<1>6. CASE UNCHANGED vars \/ \E s \in Session : Retry(s) /\ s \in processing
  BY <1>6 DEF vars, Retry
<1> QED  BY <1>1, <1>2, <1>3, <1>4, <1>5, <1>6, OtherSteps

SyncInv ==
  /\ LaneInv /\ BootInv /\ CurrentInv
  /\ detached = {}
  /\ DiskInSync

\* Nobody works on lane l: current says so.
LEMMA CurrentFree ==
  ASSUME CurrentInv, NEW l \in Lane, \A x \in running \cup returned : LaneOf[x] # l
  PROVE  current[l] = None
  BY DEF CurrentInv

LEMMA SyncMoves ==
  ASSUME ~WriteFaults, TypeOK, DiskInSync, UNCHANGED <<carry, boot, scheduled>>,
         NEW l \in Lane, current[l] = None,
         Yields(l, waiting[l]) \/ \E w : Hands(l, w)
  PROVE  DiskInSync'
<1>1. CASE Yields(l, waiting[l])
  <2>1. waiting' = waiting /\ current' = current /\ disk' = disk
    BY <1>1 DEF Yields, TypeOK
  <2> QED  BY <2>1 DEF DiskInSync, Snapshot
<1>2. CASE \E w : Hands(l, w)
  <2>1. disk' = Snapshot(waiting', current')
    BY <1>2, WriteIsWritten DEF Hands
  <2> QED  BY <2>1 DEF DiskInSync, Snapshot
<1> QED  BY <1>1, <1>2

LEMMA WorkSync ==
  ASSUME ~WriteFaults, SyncInv, WorkStep
  PROVE  DiskInSync'
<1> USE DEF bootVars
<1>0. TypeOK
  BY DEF SyncInv, LaneInv
<1>1. ASSUME NEW s \in Session, Retry(s), s \notin processing PROVE DiskInSync'
  <2>1. s \in Lane /\ \A x \in running \cup returned : LaneOf[x] # s
    BY <1>1 DEF SyncInv, LaneInv, Reserved, Lane
  <2>2. /\ ProcessLane(s, waiting[s], TRUE, retry \ {s})
        /\ UNCHANGED <<carry, boot, scheduled>>
    BY <1>1 DEF Retry
  <2>3. Yields(s, waiting[s]) \/ Hands(s, waiting[s])
    BY <2>2, ProcessMoves
  <2> QED  BY <1>0, <2>1, <2>2, <2>3, SyncMoves, CurrentFree DEF SyncInv
<1>2. ASSUME NEW h \in gate, ProbeBusy(h) \/ ProbeIdle(h) PROVE DiskInSync'
  <2> DEFINE l == LaneOf[h]
  <2>1. l \in Lane /\ \A x \in running \cup returned : LaneOf[x] # l
    BY <1>0 DEF SyncInv, LaneInv, OneAtATime, TypeOK, Lane
  <2>2. UNCHANGED <<carry, boot, scheduled>>
    BY <1>2 DEF ProbeBusy, ProbeIdle
  <2>3. Yields(l, waiting[l]) \/ Hands(l, waiting[l])
    <3>1. CASE ProbeBusy(h)
      BY <3>1 DEF ProbeBusy, Leave, Yields
    <3>2. CASE ProbeIdle(h)
      <4>1. \/ HookRefuses(l, h, waiting[l], retry)
            \/ HookAllows(l, h, waiting[l], retry)
        BY <3>2 DEF ProbeIdle, SyncInv
      <4>2. \/ Yields(l, waiting[l]) \/ Hands(l, waiting[l])
            \/ waiting[l] = <<>> /\ Yields(l, <<>>)
        <5> HIDE DEF l
        <5> QED  BY <4>1, HookMoves
      <4> QED  BY <4>2
    <3> QED  BY <1>2, <3>1, <3>2
  <2> HIDE DEF l
  <2> QED  BY <1>0, <2>1, <2>2, <2>3, SyncMoves, CurrentFree DEF SyncInv
<1>3. ASSUME NEW m \in Message, HandlerReturns(m) PROVE DiskInSync'
  <2> DEFINE l == LaneOf[m]
  <2>1. /\ UNCHANGED <<carry, boot>>
        /\ ProcessLane(l, waiting[l], m \notin Prompt, retry)
        /\ scheduled' = (scheduled \/ l # Global \/ waiting[l] = <<>>)
    BY <1>3 DEF HandlerReturns
  <2>2. CASE l = Global /\ waiting[l] # <<>>
    <3>1. Head(waiting[l]) \notin Hooked
      <4>1. waiting[l] \in Seq(Owned(l))
        BY <1>0, <2>2 DEF TypeOK, Lane
      <4>2. Head(waiting[l]) \in Owned(l)
        BY <2>2, <4>1, HeadTailOK
      <4> HIDE DEF l
      <4> QED  BY <2>2, <4>2, QueueAssumption DEF Owned, QueueAssumption
    <3>2. HookAllows(l, Head(waiting[l]), waiting[l], retry)
      BY <2>1, <2>2, <3>1 DEF ProcessLane, SlotsTaken, Gated, HookRefuses
    <3>3. disk' = Snapshot(waiting', current')
      BY <2>2, <3>2, WriteIsWritten DEF HookAllows, Dispatch
    <3> QED  BY <2>1, <3>3 DEF DiskInSync, Snapshot
  <2>3. CASE l # Global \/ waiting[l] = <<>>
    BY <2>1, <2>3 DEF DiskInSync
  <2> QED  BY <2>2, <2>3
<1> QED  BY <1>1, <1>2, <1>3 DEF WorkStep

LEMMA NextDisk ==
  ASSUME ~WriteFaults, SyncInv, [Next]_vars
  PROVE  DiskInSync'
<1> USE DEF bootVars, diskVars, laneVars
<1>0. TypeOK
  BY DEF SyncInv, LaneInv
<1>a. ASSUME UNCHANGED <<waiting, current, disk, carry, boot, scheduled>> PROVE DiskInSync'
  BY <1>a DEF SyncInv, DiskInSync, Snapshot
<1>b. ASSUME scheduled' \/ boot' # "up" PROVE DiskInSync'
  BY <1>b DEF DiskInSync
<1>1. CASE WorkStep
  BY <1>1, WorkSync
<1>2. ASSUME NEW m \in Message, Enqueue(m) PROVE DiskInSync'
  BY <1>2, <1>a, <1>b DEF Enqueue, Accept, Refuse
<1>3. ASSUME NEW m \in Message, HandlerSettles(m) PROVE DiskInSync'
  BY <1>3, <1>a DEF HandlerSettles
<1>4. ASSUME NEW m \in Message, RestoreEntry(m) PROVE DiskInSync'
  BY <1>4, <1>b DEF RestoreEntry
<1>5. ASSUME NEW s \in Session, CancelQueued(s) \/ ClearSession(s) PROVE DiskInSync'
  BY <1>5, <1>b DEF CancelQueued, ClearSession
<1>6. ASSUME NEW m \in Message, NEW t \in Text, RewriteByAck(m, t) PROVE DiskInSync'
  BY <1>6, <1>b DEF RewriteByAck
<1>7. CASE WriteScheduled
  <2>1. disk' = Snapshot(waiting, current) /\ UNCHANGED <<waiting, current, carry, boot>>
    BY <1>7, WriteIsWritten DEF WriteScheduled
  <2> QED  BY <2>1 DEF DiskInSync, Snapshot
<1>8. CASE Crash \/ Shutdown
  BY <1>8, <1>b DEF Crash, Shutdown, Restart
<1>9. CASE EndRestore
  BY <1>9, <1>b DEF EndRestore
<1>10. CASE BeginRestore
  <2>1. CASE boot' = "up"
    <3>1. disk = Empty
      BY <1>0, <1>10, <2>1 DEF BeginRestore, TypeOK, Empty
    <3>2. UNCHANGED <<waiting, current, disk, carry>> /\ carry = {} /\ Active \cap Durable = {}
      BY <1>10 DEF BeginRestore, SyncInv, BootInv
    <3>3. Snapshot(waiting, current)' = Empty
      BY <2>1, <3>2 DEF Snapshot, Active, Waiting, Empty
    <3> QED  BY <3>1, <3>2, <3>3 DEF DiskInSync
  <2>2. CASE boot' # "up"
    BY <1>b, <2>2
  <2> QED  BY <2>1, <2>2
<1>11. CASE UNCHANGED vars \/ \E s \in Session : Retry(s) /\ s \in processing
  BY <1>11, <1>a DEF vars, Retry
<1> QED
  BY <1>1, <1>2, <1>3, <1>4, <1>5, <1>6, <1>7, <1>8, <1>9, <1>10, <1>11, OtherSteps

LEMMA NextSync ==
  ASSUME ~WriteFaults, "clearSession" \notin Withdrawals, SyncInv, [Next]_vars
  PROVE  SyncInv'
<1>1. TypeOK
  BY DEF SyncInv, LaneInv
<1> QED  BY <1>1, NextLane, NextBoot, NextCurrent, NextAttached, NextDisk DEF SyncInv

\* DiskInSync, when no write of pending.json fails and no session is cleared:
\* every change of the backlog, of the messages in flight or of the carryover is
\* written at once or schedules a write.
THEOREM InSync ==
  ASSUME ~WriteFaults, "clearSession" \notin Withdrawals
  PROVE  Spec => []DiskInSync
<1>1. Init => SyncInv
  BY InitLane, InitBoot DEF Init, SyncInv, CurrentInv, DiskInSync
<1>2. SyncInv /\ [Next]_vars => SyncInv'
  BY NextSync
<1>3. SyncInv => DiskInSync
  BY DEF SyncInv
<1> QED  BY <1>1, <1>2, <1>3, PTL DEF Spec

-----------------------------------------------------------------------------
(* Nothing is forgotten.  A message that leaves a lane is in the handler, a   *)
(* message that leaves the file is in a lane or in the carryover, and the     *)
(* file is not touched between a restart and the restore.                     *)

KeepsQueues == "clearSession" \notin Withdrawals /\ (BootTraffic => MaxRestarts = 0)

ForgetInv ==
  /\ BootInv
  /\ detached = {}
  /\ NothingForgotten

\* The backlog that a starting process has yet to restore.
AwaitsRestore == IF boot = "booting" THEN disk.backlog ELSE {}

\* A process that is not asleep before the restore has no backlog to restore.
LEMMA AwakeMeansEmpty ==
  ASSUME KeepsQueues, TypeOK, BootInv, ~Asleep
  PROVE  AwaitsRestore = {}
<1>1. restarts \in 0 .. MaxRestarts
  BY DEF TypeOK
<1>2. boot = "booting" => MaxRestarts = 0
  BY DEF KeepsQueues, BootInv
<1>3. boot = "booting" => restarts = 0
  BY <1>1, <1>2
<1> QED  BY <1>3 DEF BootInv, AwaitsRestore, Empty

\* Work on a lane keeps its messages waiting or puts them in the handler.
LEMMA MovesForgetNothing ==
  ASSUME TypeOK, NEW l \in Lane, NEW w \in Seq(Owned(l)), Elems(waiting[l]) \subseteq Elems(w),
         \/ waiting' = [waiting EXCEPT ![l] = w] /\ UNCHANGED running
         \/ Yields(l, w)
         \/ Hands(l, w)
  PROVE  Waiting \cup running \cup Elems(w) \subseteq Waiting' \cup running'
<1>1. Waiting = Elems(waiting[l]) \cup Others(l)
  BY WaitingSplit
<1>2. CASE waiting' = [waiting EXCEPT ![l] = w] /\ UNCHANGED running
  BY <1>1, <1>2, WaitingMoves
<1>3. CASE Yields(l, w)
  BY <1>2, <1>3 DEF Yields
<1>4. CASE Hands(l, w)
  <2>1. Waiting' = Elems(Tail(w)) \cup Others(l)
    BY <1>4, WaitingMoves DEF Hands
  <2>2. Elems(w) = {Head(w)} \cup Elems(Tail(w)) /\ running' = running \cup {Head(w)}
    BY <1>4, ElemsTail DEF Hands
  <2> QED  BY <1>1, <2>1, <2>2
<1> QED  BY <1>2, <1>3, <1>4

LEMMA AcceptForgetsNothing ==
  ASSUME TypeOK, NEW m \in Message, Accept(m)
  PROVE  Waiting \cup running \cup {m} \subseteq Waiting' \cup running'
<1> DEFINE l == LaneOf[m]
           w == Append(waiting[l], m)
<1>1. l \in Lane /\ waiting[l] \in Seq(Owned(l)) /\ m \in Owned(l)
  BY QueueAssumption DEF QueueAssumption, TypeOK, Owned
<1>2. w \in Seq(Owned(l)) /\ Elems(w) = Elems(waiting[l]) \cup {m}
  BY <1>1, AppendProperties, ElemsAppend
<1>3. \/ waiting' = [waiting EXCEPT ![l] = w] /\ UNCHANGED running
      \/ Yields(l, w)
      \/ Hands(l, w)
  BY AcceptMoves
<1> HIDE DEF l, w
<1> QED  BY <1>1, <1>2, <1>3, MovesForgetNothing

LEMMA NextForgets ==
  ASSUME KeepsQueues, TypeOK, ForgetInv, [Next]_vars
  PROVE  NothingForgotten'
<1> USE DEF bootVars, diskVars, laneVars
<1>0. /\ Pending \subseteq Waiting \cup running \cup loaded \cup carry \cup AwaitsRestore
      /\ Pending \subseteq Message
      /\ BootInv /\ detached = {}
      /\ \A l \in Lane : waiting[l] \in Seq(Owned(l))
  BY DEF ForgetInv, NothingForgotten, AwaitsRestore, Pending, TypeOK
\* Steps that leave the file and the restore alone, but for what is empty.
<1>a. ASSUME ~Asleep \/ UNCHANGED <<disk, boot>>, boot' = boot,
             Pending' \subseteq Waiting' \cup running' \cup loaded' \cup carry' \cup AwaitsRestore
      PROVE  NothingForgotten'
  <2>1. AwaitsRestore \subseteq AwaitsRestore'
    BY <1>0, <1>a, AwakeMeansEmpty DEF AwaitsRestore
  <2> QED  BY <1>a, <2>1 DEF NothingForgotten, AwaitsRestore
<1>b. ASSUME UNCHANGED <<waiting, running, outcome, loaded, carry>>
      PROVE  Pending' \subseteq Waiting' \cup running' \cup loaded' \cup carry' \cup AwaitsRestore
  BY <1>0, <1>b DEF Pending, Waiting
<1>1. CASE WorkStep
  <2>1. PICK l \in Lane : Works(l, waiting[l])
    BY <1>0, <1>1, WorkMoves
  <2>2. Waiting \cup running \subseteq Waiting' \cup running'
    BY <1>0, <2>1, MovesForgetNothing DEF Works
  <2>3. UNCHANGED <<outcome, loaded, carry, boot>>
    BY <2>1 DEF Works
  <2>4. ~Asleep
    BY <1>1 DEF WorkStep, Retry, HandlerReturns, Asleep
  <2> QED  BY <1>0, <1>a, <2>2, <2>3, <2>4 DEF Pending
<1>2. ASSUME NEW m \in Message, Enqueue(m) PROVE NothingForgotten'
  <2>1. CASE Accept(m)
    <3>1. Waiting \cup running \cup {m} \subseteq Waiting' \cup running'
      BY <2>1, AcceptForgetsNothing
    <3>2. UNCHANGED <<carry, loaded, boot>> /\ (boot = "booting" => BootTraffic)
      BY <1>2 DEF Enqueue, Refuse
    <3>3. Pending' \subseteq Pending \cup {m}
      BY <2>1 DEF Accept, Pending, TypeOK
    <3>4. AwaitsRestore \subseteq AwaitsRestore'
      <4>1. boot = "booting" => AwaitsRestore = {}
        <5>1. boot = "booting" => restarts = 0
          BY <3>2 DEF KeepsQueues, TypeOK
        <5> QED  BY <1>0, <5>1 DEF BootInv, AwaitsRestore, Empty
      <4> QED  BY <3>2, <4>1 DEF AwaitsRestore
    <3> QED  BY <1>0, <3>1, <3>2, <3>3, <3>4 DEF NothingForgotten, AwaitsRestore
  <2>2. CASE Refuse(m)
    <3>1. Pending' \subseteq Pending
      BY <2>2 DEF Refuse, Pending, TypeOK
    <3> QED  BY <1>0, <1>a, <2>2, <3>1 DEF Refuse, Waiting
  <2> QED  BY <1>2, <2>1, <2>2 DEF Enqueue
<1>3. ASSUME NEW m \in Message, HandlerSettles(m) PROVE NothingForgotten'
  <2>1. Pending' \subseteq Pending \ {m}
    BY <1>3 DEF HandlerSettles, Pending, TypeOK
  <2>2. Waiting' = Waiting /\ running' = running \ {m} /\ UNCHANGED <<loaded, carry, disk, boot>>
    BY <1>3 DEF HandlerSettles, Waiting
  <2> QED  BY <1>0, <1>a, <2>1, <2>2
<1>4. ASSUME NEW m \in Message, RestoreEntry(m) PROVE NothingForgotten'
  <2>1. loaded' = loaded \ {m} /\ boot' = boot /\ AwaitsRestore = {}
    BY <1>4 DEF RestoreEntry, AwaitsRestore
  <2>2. \/ /\ outcome' = [outcome EXCEPT ![m] = "discarded"]
           /\ UNCHANGED <<waiting, running, carry>>
        \/ carry' = carry \cup {m} /\ UNCHANGED <<waiting, running, outcome>>
        \/ Accept(m) /\ UNCHANGED carry
    BY <1>4 DEF RestoreEntry
  <2>3. Pending' \subseteq Waiting' \cup running' \cup loaded' \cup carry' \cup AwaitsRestore
    <3>1. CASE outcome' = [outcome EXCEPT ![m] = "discarded"] /\ UNCHANGED <<waiting, running, carry>>
      <4>1. Pending' \subseteq Pending \ {m} /\ Waiting' = Waiting
        BY <3>1 DEF Pending, Waiting, TypeOK
      <4> QED  BY <1>0, <2>1, <3>1, <4>1
    <3>2. CASE carry' = carry \cup {m} /\ UNCHANGED <<waiting, running, outcome>>
      BY <1>0, <2>1, <3>2 DEF Pending, Waiting
    <3>3. CASE Accept(m) /\ UNCHANGED carry
      <4>1. Waiting \cup running \cup {m} \subseteq Waiting' \cup running'
        BY <3>3, AcceptForgetsNothing
      <4>2. Pending' \subseteq Pending \cup {m}
        BY <3>3 DEF Accept, Pending, TypeOK
      <4> QED  BY <1>0, <2>1, <3>3, <4>1, <4>2
    <3> QED  BY <2>2, <3>1, <3>2, <3>3
  <2>4. AwaitsRestore' = {}
    BY <1>4, <2>1 DEF RestoreEntry, AwaitsRestore
  <2> QED  BY <2>1, <2>3, <2>4 DEF NothingForgotten, AwaitsRestore
<1>5. ASSUME NEW s \in Session, CancelQueued(s) PROVE NothingForgotten'
  <2>1. PICK i \in DOMAIN waiting[s] :
          /\ waiting' = [waiting EXCEPT ![s] = RemoveAt(waiting[s], i)]
          /\ outcome' = [outcome EXCEPT ![waiting[s][i]] = "rejected"]
          /\ waiting[s][i] \in Owned(s)
          /\ Elems(waiting[s]) = Elems(RemoveAt(waiting[s], i)) \cup {waiting[s][i]}
    BY <1>5, CancelMoves
  <2>2. s \in Lane
    BY DEF Lane
  <2>3. Waiting \subseteq Waiting' \cup {waiting[s][i]}
    BY <2>1, <2>2, WaitingMoves, WaitingSplit
  <2>4. Pending' \subseteq Pending \ {waiting[s][i]}
    BY <2>1 DEF Pending, TypeOK, Owned
  <2> QED  BY <1>0, <1>5, <1>a, <2>3, <2>4 DEF CancelQueued
<1>6. ASSUME NEW s \in Session, ClearSession(s) PROVE NothingForgotten'
  BY <1>6 DEF ClearSession, KeepsQueues
<1>7. ASSUME NEW m \in Message, NEW t \in Text, RewriteByAck(m, t) PROVE NothingForgotten'
  BY <1>7, <1>a, <1>b DEF RewriteByAck
<1>8. CASE WriteScheduled
  <2>1. ~Asleep
    BY <1>8 DEF WriteScheduled, Asleep
  <2> QED  BY <1>8, <1>a, <1>b, <2>1 DEF WriteScheduled
<1>9. CASE Crash \/ Shutdown
  <2>1. PICK file : Restart(file)
    BY <1>9 DEF Crash, Shutdown
  <2> QED  BY <2>1 DEF Restart, NothingForgotten, Pending
<1>10. CASE BeginRestore
  <2>1. disk' = disk /\ boot' # "booting" /\ UNCHANGED <<waiting, running, outcome, carry>>
    BY <1>10 DEF BeginRestore
  <2>2. loaded \cup AwaitsRestore \subseteq loaded'
    BY <1>0, <1>10 DEF BeginRestore, AwaitsRestore, BootInv
  <2> QED  BY <1>0, <2>1, <2>2 DEF NothingForgotten, Pending, Waiting
<1>11. CASE EndRestore
  <2>1. /\ AwaitsRestore = {} /\ boot' # "booting"
        /\ UNCHANGED <<waiting, running, outcome, loaded, carry>>
    BY <1>11 DEF EndRestore, AwaitsRestore
  <2> QED  BY <1>b, <2>1 DEF NothingForgotten
<1>12. CASE UNCHANGED vars \/ \E s \in Session : Retry(s) /\ s \in processing
  <2>1. UNCHANGED <<waiting, running, outcome, loaded, carry, disk, boot>>
    BY <1>12 DEF vars, Retry
  <2> QED  BY <1>a, <1>b, <2>1
<1> QED
  BY <1>1, <1>2, <1>3, <1>4, <1>5, <1>6, <1>7, <1>8, <1>9, <1>10, <1>11, <1>12,
     OtherSteps

\* NothingForgotten, when no session is cleared and either nothing arrives before
\* the restore or the process never restarts: a message whose sender waits is in a
\* lane, in the handler, or kept for the restore, also when writes fail.
THEOREM NotForgotten ==
  ASSUME "clearSession" \notin Withdrawals, BootTraffic => MaxRestarts = 0
  PROVE  Spec => []NothingForgotten
<1>1. KeepsQueues
  BY DEF KeepsQueues
<1>2. Init => ForgetInv
  <2> SUFFICES ASSUME Init PROVE ForgetInv
    OBVIOUS
  <2>1. Pending = {}
    BY DEF Init, Pending
  <2> QED  BY <2>1, InitBoot DEF Init, ForgetInv, NothingForgotten
<1>3. TypeOK /\ ForgetInv /\ [Next]_vars => ForgetInv'
  BY <1>1, NextBoot, NextAttached, NextForgets DEF ForgetInv, KeepsQueues
<1>4. ForgetInv => NothingForgotten
  BY DEF ForgetInv
<1> QED  BY <1>2, <1>3, <1>4, TypeCorrect, PTL DEF Spec

-----------------------------------------------------------------------------
(* Start hooks.  A call at the gate has peeked the head it will hand over,    *)
(* unless clearSession has taken the queue from under it; then it hands over  *)
(* nothing.                                                                   *)

GateHead(h) ==
  \/ LaneOf[h] \in detached
  \/ waiting[LaneOf[h]] # <<>> /\ Head(waiting[LaneOf[h]]) = h

HookInv ==
  /\ LaneInv
  /\ HookBeforeHandler
  /\ \A h \in gate : GateHead(h)

\* A step on a lane with nobody at its gate, or nobody any longer.
LEMMA GateMoves ==
  ASSUME HookInv, NEW l \in Lane, NEW w, waiting' = [waiting EXCEPT ![l] = w],
         NEW g \in SUBSET gate, \A h \in g : LaneOf[h] # l, detached \ {l} \subseteq detached',
         \/ gate' = g
         \/ w # <<>> /\ LaneOf[Head(w)] = l /\ gate' = g \cup {Head(w)}
  PROVE  \A h \in gate' : GateHead(h)'
<1> SUFFICES ASSUME NEW h \in gate' PROVE GateHead(h)'
  OBVIOUS
<1>1. waiting'[l] = w /\ \A k \in Lane \ {l} : waiting'[k] = waiting[k]
  BY DEF HookInv, LaneInv, TypeOK
<1>2. CASE h \in g
  <2>1. LaneOf[h] \in Lane \ {l}
    BY <1>2 DEF HookInv, LaneInv, TypeOK, Lane
  <2> QED  BY <1>1, <1>2, <2>1 DEF HookInv, GateHead
<1>3. CASE h \notin g
  BY <1>1, <1>3 DEF GateHead
<1> QED  BY <1>2, <1>3

\* A call on a lane with nobody at its gate.
LEMMA ProcessHook ==
  ASSUME HookInv, NEW l \in Lane, NEW w \in Seq(Owned(l)), NEW fresh, NEW timers,
         ProcessLane(l, w, fresh, timers),
         \A h \in gate : LaneOf[h] # l, detached' = detached
  PROVE  HookBeforeHandler' /\ \A h \in gate' : GateHead(h)'
<1>1. CASE /\ Yields(l, w) /\ consumed' = consumed
           /\ \/ gate' = gate
              \/ w # <<>> /\ gate' = gate \cup {Head(w)}
  <2>1. w # <<>> => LaneOf[Head(w)] = l
    BY HeadTailOK DEF Owned
  <2>2. waiting' = [waiting EXCEPT ![l] = w]
    BY <1>1 DEF Yields
  <2>3. \A h \in gate' : GateHead(h)'
    BY <1>1, <2>1, <2>2, GateMoves
  <2> QED  BY <1>1, <2>3 DEF Yields, HookInv, HookBeforeHandler
<1>2. CASE /\ Hands(l, w) /\ consumed' = consumed \cup ({Head(w)} \cap Hooked)
           /\ gate' = gate
  <2>1. waiting' = [waiting EXCEPT ![l] = Tail(w)] /\ running' = running \cup {Head(w)}
    BY <1>2 DEF Hands
  <2>2. \A h \in gate' : GateHead(h)'
    BY <1>2, <2>1, GateMoves
  <2> QED  BY <1>2, <2>1, <2>2 DEF HookInv, HookBeforeHandler
<1> QED  BY <1>1, <1>2, ProcessMoves

LEMMA AcceptHook ==
  ASSUME HookInv, NEW m \in Message, Accept(m)
  PROVE  HookBeforeHandler' /\ \A h \in gate' : GateHead(h)'
<1> DEFINE l == LaneOf[m]
           w == Append(waiting[l], m)
<1>1. l \in Lane /\ waiting[l] \in Seq(Owned(l)) /\ m \in Owned(l)
  BY QueueAssumption DEF HookInv, LaneInv, QueueAssumption, TypeOK, Owned
<1>2. /\ w \in Seq(Owned(l)) /\ w # <<>>
      /\ waiting[l] # <<>> => Head(w) = Head(waiting[l])
  BY <1>1, AppendProperties, HeadTailAppend
<1>3. detached' = detached
  BY DEF Accept
<1>4. CASE l \in processing
  <2>1. /\ waiting' = [waiting EXCEPT ![l] = w]
        /\ UNCHANGED <<gate, running, consumed>>
    BY <1>4 DEF Accept
  <2>2. waiting'[l] = w /\ \A k \in Lane \ {l} : waiting'[k] = waiting[k]
    BY <1>1, <2>1 DEF HookInv, LaneInv, TypeOK
  <2>3. \A h \in gate : LaneOf[h] \in Lane
    BY DEF HookInv, LaneInv, TypeOK, Lane
  <2> HIDE DEF l, w
  <2> QED  BY <1>2, <1>3, <2>1, <2>2, <2>3 DEF HookInv, HookBeforeHandler, GateHead
<1>5. CASE l \notin processing
  <2>1. ProcessLane(l, w, TRUE, retry) /\ \A h \in gate : LaneOf[h] # l
    BY <1>5 DEF Accept, HookInv, LaneInv, Reserved
  <2> HIDE DEF l, w
  <2> QED  BY <1>1, <1>2, <1>3, <2>1, ProcessHook
<1> QED  BY <1>4, <1>5

LEMMA WorkHook ==
  ASSUME HookInv, WorkStep
  PROVE  HookBeforeHandler' /\ \A h \in gate' : GateHead(h)'
<1>0. TypeOK /\ \A l \in Lane : waiting[l] \in Seq(Owned(l))
  BY DEF HookInv, LaneInv, TypeOK
<1>1. ASSUME NEW s \in Session, Retry(s), s \notin processing
      PROVE  HookBeforeHandler' /\ \A h \in gate' : GateHead(h)'
  <2>1. /\ ProcessLane(s, waiting[s], TRUE, retry \ {s}) /\ detached' = detached
        /\ s \in Lane /\ \A h \in gate : LaneOf[h] # s
    BY <1>1 DEF Retry, HookInv, LaneInv, Reserved, Lane
  <2> QED  BY <1>0, <2>1, ProcessHook
<1>2. ASSUME NEW m \in Message, HandlerReturns(m)
      PROVE  HookBeforeHandler' /\ \A h \in gate' : GateHead(h)'
  <2>1. /\ ProcessLane(LaneOf[m], waiting[LaneOf[m]], m \notin Prompt, retry)
        /\ detached' = detached /\ m \in returned
    BY <1>2 DEF HandlerReturns
  <2>2. LaneOf[m] \in Lane /\ \A h \in gate : LaneOf[h] # LaneOf[m]
    BY <2>1, QueueAssumption DEF QueueAssumption, HookInv, LaneInv, OneAtATime
  <2> QED  BY <1>0, <2>1, <2>2, ProcessHook
<1>3. ASSUME NEW h \in gate, ProbeBusy(h) \/ ProbeIdle(h)
      PROVE  HookBeforeHandler' /\ \A x \in gate' : GateHead(x)'
  <2> DEFINE l == LaneOf[h]
             g == gate \ {h}
             held == IF l \in detached THEN <<>> ELSE waiting[l]
  <2>1. l \in Lane /\ g \in SUBSET gate /\ \A x \in g : LaneOf[x] # l
    BY DEF HookInv, LaneInv, OneAtATime, TypeOK, Lane
  <2>2. gate' = g /\ detached \ {l} \subseteq detached'
    BY <1>3 DEF ProbeBusy, ProbeIdle
  <2>3. \/ Yields(l, waiting[l]) /\ consumed \subseteq consumed'
        \/ Yields(l, <<>>) /\ consumed \subseteq consumed'
        \/ Hands(l, held) /\ consumed' = consumed \cup ({h} \cap Hooked)
    <3>1. CASE ProbeBusy(h)
      BY <3>1 DEF ProbeBusy, Leave, Yields
    <3>2. CASE ProbeIdle(h)
      <4>1. HookRefuses(l, h, waiting[l], retry) \/ HookAllows(l, h, held, retry)
        BY <3>2 DEF ProbeIdle
      <4> HIDE DEF l, held
      <4> QED  BY <4>1, HookMoves
    <3> QED  BY <1>3, <3>1, <3>2
  <2>4. held # <<>> => Head(held) = h
    BY DEF HookInv, GateHead
  <2>5. \E w : waiting' = [waiting EXCEPT ![l] = w]
    BY <2>3 DEF Yields, Hands
  <2>6. HookBeforeHandler'
    <3>1. \/ running' = running /\ consumed \subseteq consumed'
          \/ running' = running \cup {h} /\ consumed' = consumed \cup ({h} \cap Hooked)
      <4> HIDE DEF l, held
      <4> QED  BY <2>3, <2>4 DEF Yields, Hands
    <3> QED  BY <3>1 DEF HookInv, HookBeforeHandler
  <2>7. \A x \in gate' : GateHead(x)'
    <3> HIDE DEF l, g
    <3> QED  BY <2>1, <2>2, <2>5, GateMoves
  <2> QED  BY <2>6, <2>7
<1> QED  BY <1>1, <1>2, <1>3 DEF WorkStep

LEMMA NextHook ==
  ASSUME "cancel" \notin Withdrawals, HookInv, [Next]_vars
  PROVE  HookBeforeHandler' /\ \A h \in gate' : GateHead(h)'
<1> DEFINE Goal == HookBeforeHandler' /\ \A h \in gate' : GateHead(h)'
<1> USE DEF bootVars, diskVars, laneVars
<1>a. ASSUME UNCHANGED <<waiting, gate, detached, consumed>>, running' \subseteq running
      PROVE  Goal
  BY <1>a DEF HookInv, HookBeforeHandler, GateHead
<1>1. CASE WorkStep
  BY <1>1, WorkHook
<1>2. ASSUME NEW m \in Message, Enqueue(m) PROVE Goal
  BY <1>2, <1>a, AcceptHook DEF Enqueue, Refuse
<1>3. ASSUME NEW m \in Message, HandlerSettles(m) PROVE Goal
  BY <1>3, <1>a DEF HandlerSettles
<1>4. ASSUME NEW m \in Message, RestoreEntry(m) PROVE Goal
  BY <1>4, <1>a, AcceptHook DEF RestoreEntry
<1>5. ASSUME NEW s \in Session, CancelQueued(s) PROVE Goal
  BY <1>5 DEF CancelQueued
<1>6. ASSUME NEW s \in Session, ClearSession(s) PROVE Goal
  <2>1. /\ waiting' = [waiting EXCEPT ![s] = <<>>]
        /\ detached' = IF \E h \in gate : LaneOf[h] = s THEN detached \cup {s} ELSE detached
        /\ UNCHANGED <<gate, running, consumed>>
    BY <1>6 DEF ClearSession
  <2>2. \A k \in Lane \ {s} : waiting'[k] = waiting[k]
    BY <2>1 DEF HookInv, LaneInv, TypeOK
  <2>3. \A h \in gate : LaneOf[h] \in Lane
    BY DEF HookInv, LaneInv, TypeOK, Lane
  <2> QED  BY <2>1, <2>2, <2>3 DEF HookInv, HookBeforeHandler, GateHead
<1>7. ASSUME NEW m \in Message, NEW t \in Text, RewriteByAck(m, t) PROVE Goal
  BY <1>7, <1>a DEF RewriteByAck
<1>8. CASE WriteScheduled \/ BeginRestore \/ EndRestore
  BY <1>8, <1>a DEF WriteScheduled, BeginRestore, EndRestore
<1>9. CASE Crash \/ Shutdown
  BY <1>9 DEF Crash, Shutdown, Restart, HookBeforeHandler
<1>10. CASE UNCHANGED vars \/ \E s \in Session : Retry(s) /\ s \in processing
  BY <1>10, <1>a DEF vars, Retry
<1> QED
  BY <1>1, <1>2, <1>3, <1>4, <1>5, <1>6, <1>7, <1>8, <1>9, <1>10, OtherSteps

\* HookBeforeHandler, when no single message is cancelled: the message a call
\* hands over after its idle gate is the one whose start hook it has called,
\* also when its session is cleared and refilled while it waits.
THEOREM HookFirst ==
  ASSUME "cancel" \notin Withdrawals
  PROVE  Spec => []HookBeforeHandler
<1>1. Init => HookInv
  BY InitLane DEF Init, HookInv, HookBeforeHandler
<1>2. HookInv /\ [Next]_vars => HookInv'
  BY NextHook, NextLane DEF HookInv
<1>3. HookInv => HookBeforeHandler
  BY DEF HookInv
<1> QED  BY <1>1, <1>2, <1>3, PTL DEF Spec

-----------------------------------------------------------------------------
(* What the senders have been told, place by place. *)

OrderInv ==
  /\ LaneInv /\ OnceInv
  /\ detached = {}
  /\ \A m \in Waiting \cup running : outcome[m] = "pending"
  /\ \A m \in running \cup returned : handled[m] # 0
  /\ \A m \in disk.backlog \cup loaded : outcome[m] \in {"pending", "rejected", "discarded"}
  /\ \A m \in carry : outcome[m] \in {"pending", "rejected"}

\* The parts of it that are about answers and about the history.
OutcomeOK ==
  /\ \A m \in Waiting \cup running : outcome[m] = "pending"
  /\ \A m \in disk.backlog \cup loaded : outcome[m] \in {"pending", "rejected", "discarded"}
  /\ \A m \in carry : outcome[m] \in {"pending", "rejected"}

HandledOK == \A m \in running \cup returned : handled[m] # 0

LEMMA MovesPlaces ==
  ASSUME TypeOK, BootInv, NEW l \in Lane, NEW w \in Seq(Owned(l)),
         \/ waiting' = [waiting EXCEPT ![l] = w] /\ UNCHANGED <<running, handled, disk>>
         \/ Yields(l, w)
         \/ Hands(l, w)
  PROVE  /\ Waiting' \cup running' \subseteq Waiting \cup running \cup Elems(w)
         /\ disk'.backlog \subseteq disk.backlog \cup Waiting' \cup carry
         /\ \A x \in running' : x \in running \/ handled'[x] # 0
         /\ \A x \in Message : handled[x] # 0 => handled'[x] # 0
<1>0. Others(l) \subseteq Waiting
  BY WaitingSplit
<1>1. CASE waiting' = [waiting EXCEPT ![l] = w] /\ UNCHANGED <<running, handled, disk>>
  BY <1>0, <1>1, WaitingMoves
<1>2. CASE Yields(l, w)
  BY <1>1, <1>2 DEF Yields
<1>3. CASE Hands(l, w)
  <2>1. Waiting' = Elems(Tail(w)) \cup Others(l)
    BY <1>3, WaitingMoves DEF Hands
  <2>2. /\ Elems(w) = {Head(w)} \cup Elems(Tail(w)) /\ running' = running \cup {Head(w)}
        /\ handled' = [handled EXCEPT ![Head(w)] = @ + 1] /\ Head(w) \in Message
    BY <1>3, ElemsTail, HeadTailOK DEF Hands, Owned
  <2>3. disk'.backlog \subseteq disk.backlog \cup Waiting' \cup carry
    BY <1>3, WriteIsWritten, SnapshotNext DEF Hands, Written
  <2>4. handled'[Head(w)] = handled[Head(w)] + 1 /\ handled[Head(w)] \in Nat
    BY <2>2 DEF TypeOK
  <2>5. \A x \in Message \ {Head(w)} : handled'[x] = handled[x]
    BY <2>2 DEF TypeOK
  <2>6. handled'[Head(w)] # 0
    BY <2>4
  <2> QED  BY <1>0, <2>1, <2>2, <2>3, <2>5, <2>6
<1> QED  BY <1>1, <1>2, <1>3

LEMMA AcceptPlaces ==
  ASSUME TypeOK, BootInv, NEW m \in Message, Accept(m)
  PROVE  /\ Waiting' \cup running' \subseteq Waiting \cup running \cup {m}
         /\ disk'.backlog \subseteq disk.backlog \cup Waiting' \cup carry
         /\ \A x \in running' : x \in running \/ handled'[x] # 0
         /\ \A x \in Message : handled[x] # 0 => handled'[x] # 0
         /\ outcome' = [outcome EXCEPT ![m] = "pending"] /\ returned' = returned
<1> DEFINE l == LaneOf[m]
           w == Append(waiting[l], m)
<1>1. l \in Lane /\ waiting[l] \in Seq(Owned(l)) /\ m \in Owned(l)
  BY QueueAssumption DEF QueueAssumption, TypeOK, Owned
<1>2. w \in Seq(Owned(l)) /\ Elems(w) = Elems(waiting[l]) \cup {m}
  BY <1>1, AppendProperties, ElemsAppend
<1>3. \/ waiting' = [waiting EXCEPT ![l] = w] /\ UNCHANGED <<running, handled, disk>>
      \/ Yields(l, w)
      \/ Hands(l, w)
  BY AcceptMoves
<1>4. Elems(waiting[l]) \subseteq Waiting
  BY <1>1, WaitingSplit
<1>5. outcome' = [outcome EXCEPT ![m] = "pending"] /\ returned' = returned
  BY DEF Accept
<1> HIDE DEF l, w
<1>6. /\ Waiting' \cup running' \subseteq Waiting \cup running \cup Elems(w)
      /\ disk'.backlog \subseteq disk.backlog \cup Waiting' \cup carry
      /\ \A x \in running' : x \in running \/ handled'[x] # 0
      /\ \A x \in Message : handled[x] # 0 => handled'[x] # 0
  BY <1>1, <1>2, <1>3, MovesPlaces
<1> QED  BY <1>2, <1>4, <1>5, <1>6

\* Adding m, whose sender is told to wait.
LEMMA AcceptOutcome ==
  ASSUME TypeOK, TypeOK', BootInv, OutcomeOK, HandledOK, NEW m \in Message, Accept(m),
         loaded' \subseteq loaded, carry' = carry
  PROVE  OutcomeOK' /\ HandledOK'
<1>1. /\ Waiting' \cup running' \subseteq Waiting \cup running \cup {m}
      /\ disk'.backlog \subseteq disk.backlog \cup Waiting' \cup carry
      /\ \A x \in running' : x \in running \/ handled'[x] # 0
      /\ \A x \in Message : handled[x] # 0 => handled'[x] # 0
      /\ outcome' = [outcome EXCEPT ![m] = "pending"] /\ returned' = returned
  BY AcceptPlaces
<1>2. outcome'[m] = "pending" /\ \A x \in Message \ {m} : outcome'[x] = outcome[x]
  BY <1>1 DEF TypeOK
<1>3. Waiting' \subseteq Message /\ Waiting \cup running \cup returned \subseteq Message
  BY PlacesAreMessages, AcceptPlaces DEF TypeOK, Places
<1>4. \A x \in Waiting' \cup running' : outcome'[x] = "pending"
  BY <1>1, <1>2, <1>3 DEF OutcomeOK
<1>5. /\ \A x \in disk'.backlog \cup loaded' : outcome'[x] \in {"pending", "rejected", "discarded"}
      /\ \A x \in carry' : outcome'[x] \in {"pending", "rejected"}
  BY <1>1, <1>2, <1>3, <1>4, PlacesAreMessages DEF OutcomeOK, TypeOK
<1>6. HandledOK'
  BY <1>1, <1>3 DEF HandledOK
<1> QED  BY <1>4, <1>5, <1>6 DEF OutcomeOK

LEMMA NextOutcome ==
  ASSUME ~WriteFaults, "clearSession" \notin Withdrawals, OrderInv, [Next]_vars
  PROVE  OutcomeOK' /\ HandledOK'
<1> DEFINE Goal == OutcomeOK' /\ HandledOK'
<1> USE DEF bootVars, diskVars, laneVars
<1>0. /\ TypeOK /\ TypeOK' /\ BootInv /\ OutcomeOK /\ HandledOK
      /\ Places \subseteq Message /\ running \cup returned \subseteq Message
      /\ \A l \in Lane : waiting[l] \in Seq(Owned(l))
  BY NextType, QueueAssumption, PlacesAreMessages
  DEF OrderInv, LaneInv, OnceInv, OutcomeOK, HandledOK, TypeOK
\* Steps that move nothing.
<1>a. ASSUME UNCHANGED <<waiting, running, returned, handled, outcome>>,
             disk'.backlog \subseteq disk.backlog \cup Waiting \cup carry,
             loaded' \subseteq loaded \cup disk.backlog, carry' \subseteq carry
      PROVE  Goal
  <2>1. Waiting' = Waiting
    BY <1>a DEF Waiting
  <2> QED  BY <1>0, <1>a, <2>1 DEF OutcomeOK, HandledOK
<1>1. CASE WorkStep
  <2>1. PICK l \in Lane : Works(l, waiting[l])
    BY <1>0, <1>1, WorkMoves DEF OrderInv
  <2>2. /\ Waiting' \cup running' \subseteq Waiting \cup running
        /\ disk'.backlog \subseteq disk.backlog \cup Waiting' \cup carry
        /\ \A x \in running' : x \in running \/ handled'[x] # 0
        /\ \A x \in Message : handled[x] # 0 => handled'[x] # 0
    <3>1. Yields(l, waiting[l]) \/ Hands(l, waiting[l])
      BY <2>1 DEF Works
    <3>2. Elems(waiting[l]) \subseteq Waiting
      BY <1>0, WaitingSplit
    <3> QED  BY <1>0, <3>1, <3>2, MovesPlaces
  <2>3. UNCHANGED <<outcome, loaded, carry>> /\ returned' \subseteq returned
    <3>1. returned' \subseteq returned
      BY <1>1 DEF WorkStep, Retry, ProbeBusy, ProbeIdle, HandlerReturns
    <3> QED  BY <2>1, <3>1 DEF Works
  <2>4. OutcomeOK'
    BY <1>0, <2>2, <2>3 DEF OutcomeOK
  <2>5. HandledOK'
    BY <1>0, <2>2, <2>3 DEF HandledOK
  <2> QED  BY <2>4, <2>5
<1>2. ASSUME NEW m \in Message, Enqueue(m) PROVE Goal
  <2>1. CASE Accept(m)
    <3>1. UNCHANGED <<carry, loaded>>
      BY <1>2 DEF Enqueue, Refuse
    <3> QED  BY <1>0, <2>1, <3>1, AcceptOutcome
  <2>2. CASE Refuse(m)
    <3>1. /\ UNCHANGED <<waiting, running, returned, handled, disk, loaded, carry>>
          /\ \A x \in Message \ {m} : outcome'[x] = outcome[x]
      BY <1>0, <2>2 DEF Refuse, TypeOK
    <3>2. m \notin Places /\ m \notin running
      BY <1>2 DEF Enqueue, OrderInv, OnceInv
    <3>3. Waiting' = Waiting
      BY <3>1 DEF Waiting
    <3> QED  BY <1>0, <3>1, <3>2, <3>3 DEF OutcomeOK, HandledOK, Places
  <2> QED  BY <1>2, <2>1, <2>2 DEF Enqueue
<1>3. ASSUME NEW m \in Message, HandlerSettles(m) PROVE Goal
  <2>1. /\ m \in running /\ running' = running \ {m} /\ returned' = returned \cup {m}
        /\ UNCHANGED <<waiting, handled, disk, loaded, carry>>
        /\ \A x \in Message \ {m} : outcome'[x] = outcome[x]
    BY <1>0, <1>3 DEF HandlerSettles, TypeOK
  <2>2. handled[m] # 0 /\ m \notin Places
    BY <2>1 DEF OrderInv, OnceInv
  <2>3. Waiting' = Waiting
    BY <2>1 DEF Waiting
  <2> QED  BY <1>0, <2>1, <2>2, <2>3 DEF OutcomeOK, HandledOK, Places
<1>4. ASSUME NEW m \in Message, RestoreEntry(m) PROVE Goal
  <2>1. m \in loaded /\ loaded' = loaded \ {m}
    BY <1>4 DEF RestoreEntry
  <2>2. CASE Accept(m) /\ UNCHANGED carry
    BY <1>0, <2>1, <2>2, AcceptOutcome
  <2>3. CASE /\ outcome' = [outcome EXCEPT ![m] = "discarded"]
             /\ UNCHANGED <<waiting, running, returned, handled, disk, carry>>
    <3>1. m \notin Waiting /\ m \notin carry /\ m \notin running /\ m \in Message
      BY <1>0, <2>1 DEF OrderInv, OnceInv, Places
    <3>2. outcome'[m] = "discarded" /\ \A x \in Message \ {m} : outcome'[x] = outcome[x]
      BY <1>0, <2>3, <3>1 DEF TypeOK
    <3>3. Waiting' = Waiting
      BY <2>3 DEF Waiting
    <3> QED  BY <1>0, <2>1, <2>3, <3>1, <3>2, <3>3 DEF OutcomeOK, HandledOK, Places
  <2>4. CASE /\ outcome[m] # "discarded" /\ carry' = carry \cup {m}
             /\ UNCHANGED <<waiting, running, returned, handled, outcome, disk>>
    <3>1. Waiting' = Waiting
      BY <2>4 DEF Waiting
    <3> QED  BY <1>0, <2>1, <2>4, <3>1 DEF OutcomeOK, HandledOK
  <2> QED  BY <1>4, <2>2, <2>3, <2>4 DEF RestoreEntry
<1>5. ASSUME NEW s \in Session, CancelQueued(s) PROVE Goal
  <2>1. PICK i \in DOMAIN waiting[s] :
          /\ s \in Lane
          /\ waiting' = [waiting EXCEPT ![s] = RemoveAt(waiting[s], i)]
          /\ outcome' = [outcome EXCEPT ![waiting[s][i]] = "rejected"]
          /\ waiting[s][i] \in Owned(s)
          /\ Elems(waiting[s]) = Elems(RemoveAt(waiting[s], i)) \cup {waiting[s][i]}
          /\ waiting[s][i] \notin Elems(RemoveAt(waiting[s], i))
    BY <1>0, <1>5, CancelMoves DEF OrderInv, OnceInv
  <2> DEFINE m == waiting[s][i]
  <2>2. m \in Waiting /\ m \in Message /\ LaneOf[m] = s
    BY <1>0, <2>1, WaitingSplit DEF Owned
  <2>3. Waiting' \subseteq Waiting \ {m}
    <3>1. Waiting' = Elems(RemoveAt(waiting[s], i)) \cup Others(s)
      BY <1>0, <2>1, WaitingMoves
    <3>2. Waiting = Elems(waiting[s]) \cup Others(s) /\ m \notin Others(s)
      BY <1>0, <2>1, <2>2, WaitingSplit
    <3> QED  BY <2>1, <3>1, <3>2
  <2>4. m \notin running
    BY <2>2 DEF OrderInv, OnceInv, Places
  <2>5. outcome'[m] = "rejected" /\ \A x \in Message \ {m} : outcome'[x] = outcome[x]
    BY <1>0, <2>1, <2>2 DEF TypeOK
  <2>6. UNCHANGED <<running, returned, handled, disk, loaded, carry>>
    BY <1>5 DEF CancelQueued
  <2> HIDE DEF m
  <2>7. OutcomeOK'
    BY <1>0, <2>3, <2>4, <2>5, <2>6 DEF OutcomeOK, Places
  <2>8. HandledOK'
    BY <1>0, <2>6 DEF HandledOK
  <2> QED  BY <2>7, <2>8
<1>6. ASSUME NEW s \in Session, ClearSession(s) PROVE Goal
  BY <1>6 DEF ClearSession
<1>7. ASSUME NEW m \in Message, NEW t \in Text, RewriteByAck(m, t) PROVE Goal
  BY <1>7, <1>a DEF RewriteByAck
<1>8. CASE WriteScheduled
  <2>1. disk'.backlog \subseteq Waiting \cup carry
    BY <1>0, <1>8, WriteIsWritten, SnapshotIs DEF WriteScheduled
  <2> QED  BY <1>8, <1>a, <2>1 DEF WriteScheduled
<1>9. CASE Crash \/ Shutdown
  <2>1. PICK file : Restart(file) /\ (file = disk \/ file = Snapshot(waiting, current))
    BY <1>9 DEF Crash, Shutdown
  <2>2. file.backlog \subseteq disk.backlog \cup Waiting \cup carry
    BY <1>0, <2>1, SnapshotIs
  <2>3. Waiting' = {}
    BY <2>1, RestartActive
  <2>4. /\ running' = {} /\ returned' = {} /\ loaded' = {} /\ carry' = {} /\ disk' = file
        /\ \A x \in Message : x \in file.backlog => outcome'[x] = outcome[x]
    BY <2>1 DEF Restart
  <2>5. \A x \in file.backlog : x \in Message /\ outcome[x] \in {"pending", "rejected", "discarded"}
    BY <1>0, <2>2 DEF OutcomeOK, Places
  <2> QED  BY <2>3, <2>4, <2>5 DEF OutcomeOK, HandledOK
<1>10. CASE BeginRestore \/ EndRestore
  <2>1. /\ UNCHANGED <<waiting, running, returned, handled, outcome, disk, carry>>
        /\ loaded' = loaded \/ loaded' = disk.backlog
    BY <1>10 DEF BeginRestore, EndRestore
  <2> QED  BY <1>a, <2>1
<1>11. CASE UNCHANGED vars \/ \E s \in Session : Retry(s) /\ s \in processing
  <2>1. UNCHANGED <<waiting, running, returned, handled, outcome, disk, loaded, carry>>
    BY <1>11 DEF vars, Retry
  <2> QED  BY <1>a, <2>1
<1> QED
  BY <1>1, <1>2, <1>3, <1>4, <1>5, <1>6, <1>7, <1>8, <1>9, <1>10, <1>11, OtherSteps

LEMMA NextOrder ==
  ASSUME ~WriteFaults, "clearSession" \notin Withdrawals, OrderInv, [Next]_vars
  PROVE  OrderInv'
<1>1. TypeOK
  BY DEF OrderInv, LaneInv
<1> QED
  BY <1>1, NextOutcome, NextLane, NextOnce, NextAttached
  DEF OrderInv, OutcomeOK, HandledOK

-----------------------------------------------------------------------------
(* The queue implements the mailbox.  A lane's line is the message in its     *)
(* handler followed by the ones that wait; each step of the queue is one step *)
(* of the mailbox or none.                                                    *)

LEMMA SingletonConcat ==
  ASSUME NEW S, NEW x \in S, NEW w \in Seq(S)
  PROVE  /\ <<x>> \o w \in Seq(S) /\ <<x>> \o w # <<>>
         /\ Len(<<x>> \o w) = Len(w) + 1
         /\ Head(<<x>> \o w) = x /\ Tail(<<x>> \o w) = w
         /\ \A i \in 1 .. Len(w) : (<<x>> \o w)[i + 1] = w[i]
         /\ (<<x>> \o w)[1] = x
<1> DEFINE s == <<x>>
           c == s \o w
<1>1. s \in Seq(S) /\ Len(s) = 1 /\ s[1] = x
  OBVIOUS
<1>2. Len(w) \in Nat
  BY LenProperties
<1> HIDE DEF s
<1>3. /\ c \in Seq(S) /\ Len(c) = 1 + Len(w)
      /\ \A i \in 1 .. 1 + Len(w) : c[i] = IF i <= 1 THEN s[i] ELSE w[i - 1]
  <2>1. /\ c \in Seq(S) /\ Len(c) = Len(s) + Len(w)
        /\ \A i \in 1 .. Len(s) + Len(w) :
             c[i] = IF i <= Len(s) THEN s[i] ELSE w[i - Len(s)]
    BY <1>1, ConcatProperties
  <2> HIDE DEF c
  <2> QED  BY <1>1, <2>1
<1> HIDE DEF c
<1>4. c # <<>>
  BY <1>2, <1>3, EmptySeq
<1>5. c[1] = x /\ \A i \in 1 .. Len(w) : c[i + 1] = w[i]
  <2>1. c[1] = x
    BY <1>1, <1>2, <1>3
  <2>2. ASSUME NEW i \in 1 .. Len(w) PROVE c[i + 1] = w[i]
    <3>1. i + 1 \in 1 .. 1 + Len(w) /\ ~(i + 1 <= 1) /\ (i + 1) - 1 = i
      BY <1>2
    <3> QED  BY <1>3, <3>1
  <2> QED  BY <2>1, <2>2
<1>6. Tail(c) = w
  <2>1. /\ Tail(c) \in Seq(S) /\ Len(Tail(c)) = Len(w)
        /\ \A i \in 1 .. Len(Tail(c)) : Tail(c)[i] = c[i + 1]
    BY <1>2, <1>3, <1>4, HeadTailProperties
  <2>2. \A i \in 1 .. Len(Tail(c)) : Tail(c)[i] = w[i]
    BY <1>5, <2>1
  <2> QED  BY <2>1, <2>2, SeqEqual
<1>7. Head(c) = c[1]
  BY <1>3, <1>4
<1> QED  BY <1>2, <1>3, <1>4, <1>5, <1>6, <1>7 DEF c, s

LEMMA HeadTailConcat ==
  ASSUME NEW S, NEW w \in Seq(S), w # <<>>
  PROVE  <<Head(w)>> \o Tail(w) = w
<1> DEFINE c == <<Head(w)>> \o Tail(w)
<1>1. /\ Head(w) \in S /\ Tail(w) \in Seq(S) /\ Len(Tail(w)) = Len(w) - 1
      /\ \A i \in 1 .. Len(Tail(w)) : Tail(w)[i] = w[i + 1]
      /\ Len(w) \in Nat /\ Head(w) = w[1]
  BY HeadTailProperties, LenProperties
<1>2. /\ c \in Seq(S) /\ Len(c) = Len(Tail(w)) + 1 /\ c[1] = Head(w)
      /\ \A i \in 1 .. Len(Tail(w)) : c[i + 1] = Tail(w)[i]
  BY <1>1, SingletonConcat
<1> HIDE DEF c
<1>3. Len(c) = Len(w)
  BY <1>1, <1>2
<1>4. ASSUME NEW i \in 1 .. Len(c) PROVE c[i] = w[i]
  <2>1. CASE i = 1
    BY <1>1, <1>2, <2>1
  <2>2. CASE i # 1
    <3>1. i - 1 \in 1 .. Len(Tail(w)) /\ (i - 1) + 1 = i
      BY <1>1, <1>3, <2>2
    <3> QED  BY <1>1, <1>2, <3>1
  <2> QED  BY <2>1, <2>2
<1> QED  BY <1>2, <1>3, <1>4, SeqEqual DEF c

LEMMA ConcatAppend ==
  ASSUME NEW S, NEW x \in S, NEW w \in Seq(S), NEW m \in S
  PROVE  <<x>> \o Append(w, m) = Append(<<x>> \o w, m)
<1>1. <<x>> \in Seq(S) /\ <<m>> \in Seq(S)
  OBVIOUS
<1>2. <<x>> \o w \in Seq(S)
  BY SingletonConcat
<1>3. Append(w, m) = w \o <<m>> /\ Append(<<x>> \o w, m) = (<<x>> \o w) \o <<m>>
  BY <1>2, AppendIsConcat
<1>4. (<<x>> \o w) \o <<m>> = <<x>> \o (w \o <<m>>)
  BY <1>1, ConcatAssociative
<1> QED  BY <1>3, <1>4

\* y leaves s, which becomes t.
LeavesFrom(y, s, t) == \E j \in DOMAIN s : s[j] = y /\ t = RemoveAt(s, j)

LEMMA ConcatRemoveAt ==
  ASSUME NEW S, NEW x \in S, NEW w \in Seq(S), NEW i \in DOMAIN w
  PROVE  LeavesFrom(w[i], <<x>> \o w, <<x>> \o RemoveAt(w, i))
<1> DEFINE c == <<x>> \o w
           r == RemoveAt(w, i)
           a == RemoveAt(c, i + 1)
           b == <<x>> \o r
           n == Len(w) - 1
<1>1. /\ Len(w) \in Nat /\ DOMAIN w = 1 .. Len(w) /\ i \in 1 .. Len(w)
      /\ r \in Seq(S) /\ n = Len(w) - 1 /\ n \in Nat /\ Len(r) = n
      /\ \A j \in 1 .. n : r[j] = IF j < i THEN w[j] ELSE w[j + 1]
  <2>1. Len(w) \in Nat /\ DOMAIN w = 1 .. Len(w)
    BY LenProperties
  <2>2. /\ r \in Seq(S) /\ Len(r) = Len(w) - 1
        /\ \A j \in 1 .. Len(w) - 1 : r[j] = IF j < i THEN w[j] ELSE w[j + 1]
    BY RemoveAtOK
  <2> HIDE DEF r
  <2>3. Len(r) \in Nat
    BY <2>2, LenProperties
  <2> QED  BY <2>1, <2>2, <2>3
<1> HIDE DEF r, n
<1>2. /\ c \in Seq(S) /\ Len(c) = Len(w) + 1 /\ c[1] = x
      /\ \A j \in 1 .. Len(w) : c[j + 1] = w[j]
  BY SingletonConcat
<1>3. /\ b \in Seq(S) /\ Len(b) = n + 1 /\ b[1] = x
      /\ \A j \in 1 .. n : b[j + 1] = r[j]
  <2>1. /\ b \in Seq(S) /\ Len(b) = Len(r) + 1 /\ b[1] = x
        /\ \A j \in 1 .. Len(r) : b[j + 1] = r[j]
    <3>1. r \in Seq(S)
      BY <1>1
    <3> QED  BY <3>1, SingletonConcat
  <2> QED  BY <1>1, <2>1
<1> HIDE DEF c, b
<1>4. i + 1 \in DOMAIN c /\ c[i + 1] = w[i]
  BY <1>1, <1>2, LenProperties
<1>5. /\ a \in Seq(S) /\ Len(a) = Len(w)
      /\ \A j \in 1 .. Len(w) : a[j] = IF j < i + 1 THEN c[j] ELSE c[j + 1]
  <2>1. /\ a \in Seq(S) /\ Len(a) = Len(c) - 1
        /\ \A j \in 1 .. Len(c) - 1 : a[j] = IF j < i + 1 THEN c[j] ELSE c[j + 1]
    BY <1>2, <1>4, RemoveAtOK
  <2>2. Len(c) - 1 = Len(w)
    BY <1>1, <1>2
  <2> QED  BY <2>1, <2>2
<1> HIDE DEF a
<1>6. Len(a) = Len(b)
  BY <1>1, <1>3, <1>5
<1>7. ASSUME NEW j \in 1 .. Len(a) PROVE a[j] = b[j]
  <2>1. CASE j = 1
    BY <1>1, <1>2, <1>3, <1>5, <2>1
  <2>2. CASE j # 1
    <3> DEFINE k == j - 1
    <3>1. k \in 1 .. n /\ k + 1 = j /\ j \in 1 .. Len(w) /\ k \in 1 .. Len(w)
      BY <1>1, <1>5, <2>2
    <3>2. b[j] = IF k < i THEN w[k] ELSE w[k + 1]
      BY <1>1, <1>3, <3>1
    <3>3. a[j] = IF j < i + 1 THEN c[j] ELSE c[j + 1]
      BY <1>5, <3>1
    <3>4. c[j] = w[k] /\ c[j + 1] = w[k + 1] /\ (j < i + 1 <=> k < i)
      BY <1>1, <1>2, <3>1
    <3> QED  BY <3>1, <3>2, <3>3, <3>4
  <2> QED  BY <2>1, <2>2
<1>8. a = b
  BY <1>3, <1>5, <1>6, <1>7, SeqEqual
<1> QED  BY <1>4, <1>8 DEF a, b, c, r, LeavesFrom

LEMMA ElemsConcat ==
  ASSUME NEW S, NEW x \in S, NEW w \in Seq(S)
  PROVE  Elems(<<x>> \o w) = {x} \cup Elems(w)
<1> DEFINE c == <<x>> \o w
<1>1. c \in Seq(S) /\ c # <<>> /\ Head(c) = x /\ Tail(c) = w
  BY SingletonConcat
<1> HIDE DEF c
<1>2. Elems(c) = {Head(c)} \cup Elems(Tail(c))
  BY <1>1, ElemsTail
<1> QED  BY <1>1, <1>2 DEF c

\* The line of a lane with no message in its handler, and with one.
LEMMA LineFree ==
  ASSUME NEW r, NEW w, NEW l, \A x \in r : LaneOf[x] # l
  PROVE  LineOf(r, w, l) = w
  BY DEF LineOf

Alone(r, l, x) == \A y : y \in r /\ LaneOf[y] = l <=> y = x

LEMMA LineServing ==
  ASSUME NEW r, NEW w, NEW l, NEW x,
         Alone(r, l, x)
  PROVE  LineOf(r, w, l) = <<x>> \o w
<1>1. {m \in r : LaneOf[m] = l} = {x}
  BY DEF Alone
<1>2. First({x}) = x
  BY DEF First
<1> QED  BY <1>1, <1>2 DEF LineOf

\* The same queue and the same messages of the lane in handlers: the same line.
LEMMA LineSame ==
  ASSUME NEW r, NEW q, NEW w, NEW l,
         \A x : (x \in r /\ LaneOf[x] = l) <=> (x \in q /\ LaneOf[x] = l)
  PROVE  LineOf(r, w, l) = LineOf(q, w, l)
<1>1. {m \in r : LaneOf[m] = l} = {m \in q : LaneOf[m] = l}
  OBVIOUS
<1> QED  BY <1>1 DEF LineOf

\* The head of a free lane is handed over: the lines stay as they are.
LEMMA HandOver ==
  ASSUME NEW r \in SUBSET Message, NEW l \in Lane, NEW w \in Seq(Owned(l)), w # <<>>,
         \A x \in r : LaneOf[x] # l
  PROVE  /\ LineOf(r \cup {Head(w)}, Tail(w), l) = w
         /\ \A k \in Lane \ {l} : \A v : LineOf(r \cup {Head(w)}, v, k) = LineOf(r, v, k)
<1> DEFINE h == Head(w)
           q == r \cup {h}
<1>1. h \in Owned(l) /\ LaneOf[h] = l
  BY HeadTailOK DEF Owned
<1> HIDE DEF h
<1>2. LineOf(q, Tail(w), l) = w
  <2>1. Alone(q, l, h)
    BY <1>1 DEF Alone
  <2> HIDE DEF q
  <2>2. LineOf(q, Tail(w), l) = <<h>> \o Tail(w)
    BY <2>1, LineServing
  <2> QED  BY <2>2, HeadTailConcat DEF h
<1>3. ASSUME NEW k \in Lane \ {l}, NEW v PROVE LineOf(q, v, k) = LineOf(r, v, k)
  <2>1. \A x : (x \in q /\ LaneOf[x] = k) <=> (x \in r /\ LaneOf[x] = k)
    BY <1>1
  <2> HIDE DEF q
  <2> QED  BY <2>1, LineSame
<1> QED  BY <1>2, <1>3 DEF q, h

\* A message that joins the queue joins the line; one that leaves the queue
\* leaves the line; and the line holds what is in service and what waits.
LEMMA LineChanges ==
  ASSUME NEW r \in SUBSET Message, NEW l \in Lane, NEW w \in Seq(Message),
         \A x, y \in r : LaneOf[x] = LaneOf[y] => x = y
  PROVE  /\ \A m \in Message : LineOf(r, Append(w, m), l) = Append(LineOf(r, w, l), m)
         /\ \A i \in DOMAIN w :
              LeavesFrom(w[i], LineOf(r, w, l), LineOf(r, RemoveAt(w, i), l))
         /\ Elems(LineOf(r, w, l)) \subseteq r \cup Elems(w)
<1>1. CASE \A x \in r : LaneOf[x] # l
  <2>1. \A v : LineOf(r, v, l) = v
    BY <1>1, LineFree
  <2> QED  BY <2>1 DEF LeavesFrom
<1>2. ASSUME NEW x \in r, LaneOf[x] = l
      PROVE  /\ \A m \in Message : LineOf(r, Append(w, m), l) = Append(LineOf(r, w, l), m)
             /\ \A i \in DOMAIN w :
                  LeavesFrom(w[i], LineOf(r, w, l), LineOf(r, RemoveAt(w, i), l))
             /\ Elems(LineOf(r, w, l)) \subseteq r \cup Elems(w)
  <2>1. Alone(r, l, x)
    BY <1>2 DEF Alone
  <2>2. ASSUME NEW v PROVE LineOf(r, v, l) = <<x>> \o v
    BY <2>1, LineServing
  <2>3. x \in Message
    OBVIOUS
  <2>4. ASSUME NEW m \in Message
        PROVE  LineOf(r, Append(w, m), l) = Append(LineOf(r, w, l), m)
    <3>1. <<x>> \o Append(w, m) = Append(<<x>> \o w, m)
      BY <2>3, ConcatAppend
    <3> QED  BY <2>2, <3>1
  <2>5. ASSUME NEW i \in DOMAIN w
        PROVE  LeavesFrom(w[i], LineOf(r, w, l), LineOf(r, RemoveAt(w, i), l))
    <3>1. LeavesFrom(w[i], <<x>> \o w, <<x>> \o RemoveAt(w, i))
      BY <2>3, ConcatRemoveAt
    <3>2. LineOf(r, w, l) = <<x>> \o w /\ LineOf(r, RemoveAt(w, i), l) = <<x>> \o RemoveAt(w, i)
      BY <2>2
    <3> QED  BY <3>1, <3>2
  <2>6. Elems(LineOf(r, w, l)) \subseteq r \cup Elems(w)
    <3>1. Elems(<<x>> \o w) = {x} \cup Elems(w)
      BY <2>3, ElemsConcat
    <3> QED  BY <2>2, <3>1
  <2> QED  BY <2>4, <2>5, <2>6
<1> QED  BY <1>1, <1>2

-----------------------------------------------------------------------------
(* The queue implements the mailbox: each of its steps is one step of the     *)
(* mailbox or none.                                                           *)

LEMMA LinesAre ==
  ASSUME OrderInv
  PROVE  /\ Lines \in [Lane -> Seq(Message) \cup {Lines[l] : l \in Lane}]
         /\ \A l \in Lane :
              /\ Lines[l] = LineOf(running, waiting[l], l)
              /\ waiting[l] \in Seq(Owned(l)) /\ waiting[l] \in Seq(Message)
         /\ running \in SUBSET Message
         /\ \A x, y \in running : LaneOf[x] = LaneOf[y] => x = y
         /\ \A m \in Message : m \notin Served <=> handled[m] = 0
         /\ \A m \in Message : m \notin Waiting \cup running => ~Mailbox!InLine(m)
<1>0. TypeOK /\ OneAtATime
  BY DEF OrderInv, LaneInv
<1>1. /\ \A l \in Lane : waiting[l] \in Seq(Owned(l)) /\ waiting[l] \in Seq(Message)
      /\ running \in SUBSET Message
      /\ \A x, y \in running : LaneOf[x] = LaneOf[y] => x = y
  BY <1>0 DEF TypeOK, OneAtATime
<1>2. \A m \in Message : m \notin Served <=> handled[m] = 0
  BY <1>0 DEF TypeOK, Served
<1>3. \A l \in Lane : Lines[l] = LineOf(running, waiting[l], l)
  BY DEF Lines
<1>4. ASSUME NEW m \in Message, m \notin Waiting \cup running PROVE ~Mailbox!InLine(m)
  <2>1. LaneOf[m] \in Lane
    BY QueueAssumption DEF QueueAssumption
  <2>2. Elems(LineOf(running, waiting[LaneOf[m]], LaneOf[m])) \subseteq running \cup Elems(waiting[LaneOf[m]])
    BY <1>1, <2>1, LineChanges
  <2>3. m \notin Elems(Lines[LaneOf[m]])
    BY <1>0, <1>3, <1>4, <2>1, <2>2, WaitingSplit
  <2> QED  BY <2>3 DEF Mailbox!InLine, Elems
<1> QED  BY <1>1, <1>2, <1>3, <1>4 DEF Lines

LEMMA SameMailbox ==
  ASSUME UNCHANGED <<waiting, running, handled, outcome>>
  PROVE  UNCHANGED Mailbox!mailbox
  BY DEF Mailbox!mailbox, Lines, Served, Answers

\* A lane's queue becomes w, and no message is handed over.
LEMMA PutQueue ==
  ASSUME OrderInv, NEW l \in Lane, NEW w,
         waiting' = [waiting EXCEPT ![l] = w], UNCHANGED <<running, handled>>
  PROVE  /\ Lines' = [Lines EXCEPT ![l] = LineOf(running, w, l)]
         /\ Served' = Served
<1>1. waiting'[l] = w /\ \A k \in Lane \ {l} : waiting'[k] = waiting[k]
  BY DEF OrderInv, LaneInv, TypeOK
<1>2. \A k \in Lane : Lines'[k] = IF k = l THEN LineOf(running, w, l) ELSE Lines[k]
  BY <1>1 DEF Lines
<1> QED  BY <1>2 DEF Lines, Served

\* A lane's queue becomes w, whose head is handed over.
LEMMA HandedOver ==
  ASSUME OrderInv, OneAtATime', NEW l \in Lane, NEW w \in Seq(Owned(l)), Hands(l, w),
         handled[Head(w)] = 0
  PROVE  /\ Lines[l] = waiting[l]
         /\ Lines' = [Lines EXCEPT ![l] = w]
         /\ Head(w) \notin Served /\ Served' = Served \cup {Head(w)}
<1> DEFINE h == Head(w)
           t == Tail(w)
<1>0. TypeOK
  BY DEF OrderInv, LaneInv
<1>1. /\ waiting' = [waiting EXCEPT ![l] = t] /\ running' = running \cup {h}
      /\ handled' = [handled EXCEPT ![h] = @ + 1] /\ h \in Message /\ LaneOf[h] = l
      /\ w # <<>> /\ handled[h] = 0
  BY HeadTailOK DEF Hands, Owned
<1>2. \A x \in running : LaneOf[x] # l
  <2> SUFFICES ASSUME NEW x \in running, LaneOf[x] = l PROVE FALSE
    OBVIOUS
  <2>1. x = h
    BY <1>1 DEF OneAtATime
  <2> QED  BY <1>1, <2>1 DEF OrderInv
<1>3. /\ LineOf(running \cup {h}, t, l) = w
      /\ \A k \in Lane \ {l} : \A v : LineOf(running \cup {h}, v, k) = LineOf(running, v, k)
  <2>1. running \in SUBSET Message /\ w # <<>>
    BY <1>0 DEF TypeOK, Hands
  <2> QED  BY <1>2, <2>1, HandOver
<1>4. Lines[l] = waiting[l]
  BY <1>2, LinesAre, LineFree
<1> HIDE DEF h, t
<1>5. waiting'[l] = t /\ \A k \in Lane \ {l} : waiting'[k] = waiting[k]
  BY <1>0, <1>1 DEF TypeOK
<1>6. \A k \in Lane : Lines'[k] = IF k = l THEN w ELSE Lines[k]
  <2>1. ASSUME NEW k \in Lane \ {l} PROVE Lines'[k] = Lines[k]
    <3>1. Lines'[k] = LineOf(running \cup {h}, waiting[k], k)
      BY <1>1, <1>5 DEF Lines
    <3>2. Lines[k] = LineOf(running, waiting[k], k)
      BY DEF Lines
    <3> QED  BY <1>3, <3>1, <3>2
  <2>2. Lines'[l] = w
    BY <1>1, <1>3, <1>5 DEF Lines
  <2> QED  BY <2>1, <2>2
<1>7. Lines' = [Lines EXCEPT ![l] = w]
  BY <1>6 DEF Lines
<1>8. h \notin Served /\ Served' = Served \cup {h}
  BY <1>0, <1>1 DEF TypeOK, Served
<1> QED  BY <1>4, <1>7, <1>8 DEF h

LEMMA AnswersTo ==
  ASSUME OrderInv, NEW m \in Message, NEW v, outcome' = [outcome EXCEPT ![m] = v]
  PROVE  Answers' = [Answers EXCEPT ![m] = IF v \in {"duplicate", "full"} THEN "refused" ELSE v]
  BY DEF OrderInv, LaneInv, TypeOK, Answers

\* A message accepted from its sender or from the backlog joins its line.
LEMMA Joins ==
  ASSUME OrderInv, OneAtATime', NEW m \in Message, Accept(m),
         handled[m] = 0, m \notin Waiting
  PROVE  Mailbox!Join(m)
<1> DEFINE l == LaneOf[m]
           w == Append(waiting[l], m)
<1>0. TypeOK /\ l \in Lane /\ waiting[l] \in Seq(Owned(l)) /\ m \in Owned(l)
  BY QueueAssumption DEF OrderInv, LaneInv, TypeOK, QueueAssumption, Owned
<1>1. w \in Seq(Owned(l)) /\ Elems(w) = Elems(waiting[l]) \cup {m} /\ w # <<>>
  BY <1>0, AppendProperties, ElemsAppend
<1>2. LineOf(running, w, l) = Append(Lines[l], m)
  <2>1. /\ running \in SUBSET Message /\ waiting[l] \in Seq(Message)
        /\ \A x, y \in running : LaneOf[x] = LaneOf[y] => x = y
        /\ Lines[l] = LineOf(running, waiting[l], l)
    BY <1>0, LinesAre
  <2> HIDE DEF l
  <2> DEFINE q == waiting[l]
  <2> HIDE DEF q
  <2>2. \A x \in Message : LineOf(running, Append(q, x), l) = Append(LineOf(running, q, l), x)
    <3>1. q \in Seq(Message) /\ l \in Lane
      BY <1>0, <2>1 DEF q
    <3> QED  BY <2>1, <3>1, LineChanges
  <2> QED  BY <2>1, <2>2 DEF q
<1>3. Answers' = [Answers EXCEPT ![m] = "pending"]
  <2>1. outcome' = [outcome EXCEPT ![m] = "pending"]
    BY DEF Accept
  <2> QED  BY <2>1, AnswersTo
<1>4. ~Mailbox!InLine(m) /\ m \notin Served
  <2>1. m \notin running
    BY DEF OrderInv
  <2> QED  BY <2>1, LinesAre
<1>5. \/ waiting' = [waiting EXCEPT ![l] = w] /\ UNCHANGED <<running, handled>>
      \/ Hands(l, w)
  BY AcceptMoves DEF Yields
<1> HIDE DEF w
<1>6. CASE waiting' = [waiting EXCEPT ![l] = w] /\ UNCHANGED <<running, handled>>
  <2>1. Lines' = [Lines EXCEPT ![l] = LineOf(running, w, l)] /\ Served' = Served
    BY <1>0, <1>6, PutQueue
  <2>2. Lines' = [Lines EXCEPT ![l] = Append(Lines[l], m)]
    BY <1>2, <2>1
  <2> QED  BY <1>3, <1>4, <2>1, <2>2 DEF Mailbox!Join
<1>7. CASE Hands(l, w)
  <2>1. handled[Head(w)] = 0
    <3>1. Head(w) \in Elems(w)
      BY <1>1, ElemsTail
    <3>2. \A x \in Elems(waiting[l]) : x \in Message /\ x \in Places
      BY <1>0, WaitingSplit DEF Places
    <3> QED  BY <1>1, <3>1, <3>2 DEF OrderInv, OnceInv
  <2>2. /\ Lines[l] = waiting[l]
        /\ Lines' = [Lines EXCEPT ![l] = w]
        /\ Head(w) \notin Served /\ Served' = Served \cup {Head(w)}
    BY <1>0, <1>1, <1>7, <2>1, HandedOver
  <2>3. w = Append(Lines[l], m)
    BY <2>2 DEF w
  <2> QED  BY <1>3, <1>4, <2>2, <2>3 DEF Mailbox!Join
<1> QED  BY <1>5, <1>6, <1>7

LEMMA WorkServes ==
  ASSUME OrderInv, OneAtATime', WorkStep
  PROVE  [Mailbox!Next]_(Mailbox!mailbox)
<1>0. TypeOK /\ detached = {}
  BY DEF OrderInv, LaneInv
<1>1. PICK l \in Lane : Works(l, waiting[l])
  BY <1>0, WorkMoves
<1> DEFINE w == waiting[l]
<1>2. w \in Seq(Owned(l)) /\ outcome' = outcome /\ (Yields(l, w) \/ Hands(l, w))
  BY <1>0, <1>1 DEF Works, TypeOK
<1>3. CASE Yields(l, w)
  <2>1. waiting' = waiting /\ UNCHANGED <<running, handled>>
    BY <1>0, <1>3 DEF Yields, TypeOK
  <2> QED  BY <1>2, <2>1, SameMailbox
<1>4. CASE Hands(l, w)
  <2>1. w # <<>> /\ handled[Head(w)] = 0
    <3>1. w # <<>> /\ Head(w) \in Elems(w)
      BY <1>2, <1>4, ElemsTail DEF Hands
    <3>2. \A x \in Elems(w) : x \in Message /\ x \in Places
      BY <1>0, WaitingSplit DEF Places
    <3> QED  BY <3>1, <3>2 DEF OrderInv, OnceInv
  <2>2. /\ Lines[l] = w
        /\ Lines' = [Lines EXCEPT ![l] = w]
        /\ Head(w) \notin Served /\ Served' = Served \cup {Head(w)}
    BY <1>2, <1>4, <2>1, HandedOver
  <2> HIDE DEF w
  <2>3. Lines' = Lines
    BY <2>2 DEF Lines
  <2>4. Answers' = Answers
    BY <1>2 DEF Answers
  <2>5. Mailbox!Serve(l)
    BY <2>1, <2>2, <2>3, <2>4 DEF Mailbox!Serve
  <2> QED  BY <2>5 DEF Mailbox!Next
<1> QED  BY <1>2, <1>3, <1>4

LEMMA EnqueueServes ==
  ASSUME OrderInv, OneAtATime', NEW m \in Message, Enqueue(m)
  PROVE  Mailbox!Next
<1>1. handled[m] = 0 /\ m \notin Waiting /\ outcome[m] = "new" /\ Answers[m] = "new"
  BY DEF Enqueue, OrderInv, OnceInv, Places, Answers
<1>2. CASE Accept(m)
  <2>1. Mailbox!Join(m)
    BY <1>1, <1>2, Joins
  <2> QED  BY <1>1, <2>1 DEF Mailbox!Accept, Mailbox!Next
<1>3. CASE Refuse(m)
  <2>1. PICK v \in {"duplicate", "full"} : outcome' = [outcome EXCEPT ![m] = v]
    BY <1>3 DEF Refuse
  <2>2. Answers' = [Answers EXCEPT ![m] = "refused"]
    BY <2>1, AnswersTo
  <2>3. UNCHANGED <<Lines, Served>>
    BY <1>3 DEF Refuse, laneVars, Lines, Served
  <2>4. Mailbox!Refuse(m)
    BY <1>1, <2>2, <2>3 DEF Mailbox!Refuse
  <2> QED  BY <2>4 DEF Mailbox!Next
<1> QED  BY <1>2, <1>3 DEF Enqueue

LEMMA SettleServes ==
  ASSUME OrderInv, NEW m \in Message, HandlerSettles(m)
  PROVE  Mailbox!Next
<1> DEFINE l == LaneOf[m]
           w == waiting[l]
<1>1. /\ m \in running /\ running' = running \ {m}
      /\ UNCHANGED <<waiting, handled>>
      /\ l \in Lane /\ w \in Seq(Message)
      /\ \A x, y \in running : LaneOf[x] = LaneOf[y] => x = y
  BY LinesAre, QueueAssumption DEF HandlerSettles, QueueAssumption
<1>2. PICK v \in {"resolved", "rejected"} : outcome' = [outcome EXCEPT ![m] = v]
  BY DEF HandlerSettles
<1>3. Lines[l] = <<m>> \o w
  <2>1. Alone(running, l, m)
    BY <1>1 DEF Alone
  <2>2. LineOf(running, w, l) = <<m>> \o w
    BY <2>1, LineServing
  <2> QED  BY <1>1, <2>2, LinesAre
<1>4. Lines[l] # <<>> /\ Head(Lines[l]) = m /\ Tail(Lines[l]) = w
  BY <1>1, <1>3, SingletonConcat
<1>5. Lines' = [Lines EXCEPT ![l] = w]
  <2>1. Lines'[l] = w
    <3>1. \A x \in running' : LaneOf[x] # l
      BY <1>1
    <3>2. LineOf(running', w, l) = w
      BY <3>1, LineFree
    <3> QED  BY <1>1, <3>2 DEF Lines
  <2>2. ASSUME NEW k \in Lane \ {l} PROVE Lines'[k] = Lines[k]
    <3>1. \A x : (x \in running' /\ LaneOf[x] = k) <=> (x \in running /\ LaneOf[x] = k)
      BY <1>1
    <3>2. LineOf(running', waiting[k], k) = LineOf(running, waiting[k], k)
      BY <3>1, LineSame
    <3> QED  BY <1>1, <3>2 DEF Lines
  <2> QED  BY <2>1, <2>2 DEF Lines
<1>6. Answers' = [Answers EXCEPT ![m] = v]
  BY <1>2, AnswersTo
<1>7. m \in Served /\ Served' = Served
  <2>1. handled[m] # 0
    BY <1>1 DEF OrderInv
  <2> QED  BY <1>1, <2>1, LinesAre DEF Served
<1> HIDE DEF l, w
<1>8. Mailbox!Settle(l)
  BY <1>4, <1>5, <1>6, <1>7 DEF Mailbox!Settle
<1> QED  BY <1>1, <1>8 DEF Mailbox!Next

LEMMA CancelServes ==
  ASSUME OrderInv, NEW s \in Session, CancelQueued(s)
  PROVE  Mailbox!Next
<1>0. TypeOK
  BY DEF OrderInv, LaneInv
<1>1. PICK i \in DOMAIN waiting[s] :
        /\ s \in Lane
        /\ waiting' = [waiting EXCEPT ![s] = RemoveAt(waiting[s], i)]
        /\ outcome' = [outcome EXCEPT ![waiting[s][i]] = "rejected"]
        /\ waiting[s][i] \in Owned(s)
        /\ Elems(waiting[s]) = Elems(RemoveAt(waiting[s], i)) \cup {waiting[s][i]}
  BY <1>0, CancelMoves
<1> DEFINE w == waiting[s]
           m == w[i]
           v == RemoveAt(w, i)
<1>2. m \in Message /\ m \in Places /\ handled[m] = 0
  <2>1. m \in Message /\ m \in Places
    BY <1>0, <1>1, WaitingSplit DEF Owned, Places
  <2> QED  BY <2>1 DEF OrderInv, OnceInv
<1>3. LeavesFrom(m, Lines[s], LineOf(running, v, s))
  <2>1. /\ running \in SUBSET Message /\ w \in Seq(Message) /\ s \in Lane
        /\ \A x, y \in running : LaneOf[x] = LaneOf[y] => x = y
        /\ Lines[s] = LineOf(running, w, s)
    BY <1>1, LinesAre
  <2> HIDE DEF w
  <2>2. \A j \in DOMAIN w : LeavesFrom(w[j], LineOf(running, w, s), LineOf(running, RemoveAt(w, j), s))
    BY <2>1, LineChanges
  <2>3. i \in DOMAIN w
    BY DEF w
  <2> QED  BY <2>1, <2>2, <2>3
<1>4. UNCHANGED <<running, handled>>
  BY DEF CancelQueued
<1>5. Answers' = [Answers EXCEPT ![m] = "rejected"]
  BY <1>1, <1>2, AnswersTo
<1>6. Lines' = [Lines EXCEPT ![s] = LineOf(running, v, s)] /\ Served' = Served
  BY <1>1, <1>4, PutQueue
<1>7. m \notin Served
  BY <1>2, LinesAre
<1> HIDE DEF w, m, v
<1>8. PICK j \in DOMAIN Lines[s] :
        Lines[s][j] = m /\ LineOf(running, v, s) = RemoveAt(Lines[s], j)
  BY <1>3 DEF LeavesFrom
<1>9. Mailbox!Withdraw(s)
  <2>1. /\ Lines[s][j] \notin Served
        /\ Answers' = [Answers EXCEPT ![Lines[s][j]] = "rejected"]
        /\ Lines' = [Lines EXCEPT ![s] = RemoveAt(Lines[s], j)]
        /\ Served' = Served
    BY <1>5, <1>6, <1>7, <1>8
  <2>2. RemoveAt(Lines[s], j) = Mailbox!RemoveAt(Lines[s], j)
    BY DEF RemoveAt, Mailbox!RemoveAt
  <2> QED  BY <2>1, <2>2, Zenon DEF Mailbox!Withdraw
<1> QED  BY <1>1, <1>9 DEF Mailbox!Next

LEMMA RestoreServes ==
  ASSUME OrderInv, OneAtATime', NEW m \in Message, RestoreEntry(m)
  PROVE  [Mailbox!Next]_(Mailbox!mailbox)
<1>1. /\ m \in loaded /\ handled[m] = 0 /\ m \notin Waiting /\ m \notin running
      /\ outcome[m] \in {"pending", "rejected", "discarded"}
      /\ Answers[m] = outcome[m]
  BY DEF RestoreEntry, OrderInv, OnceInv, Places, Answers
<1>2. ~Mailbox!InLine(m) /\ m \notin Served
  BY <1>1, LinesAre
<1>3. CASE outcome[m] # "discarded" /\ Accept(m)
  <2>1. Mailbox!Join(m)
    BY <1>1, <1>3, Joins
  <2>2. Mailbox!Readmit(m)
    BY <1>1, <1>2, <1>3, <2>1 DEF Mailbox!Readmit, Mailbox!Survived
  <2> QED  BY <2>2 DEF Mailbox!Next
<1>4. CASE UNCHANGED <<laneVars, outcome>>
  BY <1>4, SameMailbox DEF laneVars
<1>5. CASE UNCHANGED laneVars /\ outcome' = [outcome EXCEPT ![m] = "discarded"]
  <2>1. CASE outcome[m] = "discarded"
    <3>1. outcome' = outcome
      BY <1>5, <2>1 DEF OrderInv, LaneInv, TypeOK
    <3> QED  BY <1>5, <3>1, SameMailbox DEF laneVars
  <2>2. CASE outcome[m] # "discarded"
    <3>1. Answers' = [Answers EXCEPT ![m] = "discarded"]
      BY <1>5, AnswersTo
    <3>2. UNCHANGED <<Lines, Served>>
      BY <1>5 DEF laneVars, Lines, Served
    <3>3. Mailbox!Discard(m)
      BY <1>1, <1>2, <2>2, <3>1, <3>2 DEF Mailbox!Discard, Mailbox!Survived
    <3> QED  BY <3>3 DEF Mailbox!Next
  <2> QED  BY <2>1, <2>2
<1> QED  BY <1>3, <1>4, <1>5 DEF RestoreEntry

LEMMA RestartServes ==
  ASSUME OrderInv, NEW file, Restart(file),
         file = disk \/ file = Snapshot(waiting, current)
  PROVE  Mailbox!Next
<1> DEFINE kept == {m \in Message : outcome[m] = "pending" /\ m \in file.backlog}
<1>1. file.backlog \subseteq Places
  BY SnapshotIs DEF OrderInv, LaneInv, OnceInv, Places
<1>2. kept \in SUBSET {m \in Message : Answers[m] = "pending" /\ m \notin Served}
  <2>1. ASSUME NEW m \in kept PROVE m \in Message /\ Answers[m] = "pending" /\ m \notin Served
    <3>1. m \in Message /\ handled[m] = 0
      BY <1>1 DEF OrderInv, OnceInv
    <3> QED  BY <3>1, LinesAre DEF Answers
  <2> QED  BY <2>1
<1>3. Answers' = [m \in Message |->
                    IF Answers[m] = "pending" /\ m \notin kept THEN "gone" ELSE Answers[m]]
  <2>1. \A m \in Message :
          Answers'[m] = IF Answers[m] = "pending" /\ m \notin kept THEN "gone" ELSE Answers[m]
    BY DEF Restart, Answers
  <2> QED  BY <2>1 DEF Answers
<1>4. Lines' = [l \in Lane |-> <<>>] /\ Served' = Served
  <2>1. running' = {} /\ handled' = handled /\ \A l \in Lane : waiting'[l] = <<>>
    BY DEF Restart
  <2>2. \A l \in Lane : LineOf({}, <<>>, l) = <<>>
    BY LineFree
  <2> QED  BY <2>1, <2>2 DEF Lines, Served
<1> HIDE DEF kept
<1>5. Mailbox!Restart
  BY <1>2, <1>3, <1>4 DEF Mailbox!Restart
<1> QED  BY <1>5 DEF Mailbox!Next

LEMMA NextServes ==
  ASSUME "clearSession" \notin Withdrawals, OrderInv, OneAtATime', [Next]_vars
  PROVE  [Mailbox!Next]_(Mailbox!mailbox)
<1> USE DEF bootVars, diskVars, laneVars
<1>1. CASE WorkStep
  BY <1>1, WorkServes
<1>2. ASSUME NEW m \in Message, Enqueue(m) \/ HandlerSettles(m) \/ RestoreEntry(m)
      PROVE  [Mailbox!Next]_(Mailbox!mailbox)
  BY <1>2, EnqueueServes, SettleServes, RestoreServes
<1>3. ASSUME NEW s \in Session, CancelQueued(s) \/ ClearSession(s)
      PROVE  [Mailbox!Next]_(Mailbox!mailbox)
  BY <1>3, CancelServes DEF ClearSession
<1>4. CASE Crash \/ Shutdown
  <2>1. PICK file : Restart(file) /\ (file = disk \/ file = Snapshot(waiting, current))
    BY <1>4 DEF Crash, Shutdown
  <2> QED  BY <2>1, RestartServes
<1>5. CASE \/ \E m \in Message, t \in Text : RewriteByAck(m, t)
           \/ WriteScheduled \/ BeginRestore \/ EndRestore
           \/ UNCHANGED vars \/ \E s \in Session : Retry(s) /\ s \in processing
  <2>1. UNCHANGED <<waiting, running, handled, outcome>>
    BY <1>5 DEF RewriteByAck, WriteScheduled, BeginRestore, EndRestore, Retry, vars
  <2> QED  BY <2>1, SameMailbox
<1> QED  BY <1>1, <1>2, <1>3, <1>4, <1>5, OtherSteps

LEMMA InitServes == Init => Mailbox!Init
<1> SUFFICES ASSUME Init PROVE Mailbox!Init
  OBVIOUS
<1>1. \A l \in Lane : LineOf({}, <<>>, l) = <<>>
  BY LineFree
<1> QED  BY <1>1 DEF Init, Mailbox!Init, Lines, Served, Answers

\* ServesInOrder, when no write of pending.json fails and nobody clears a
\* session: the queue, with its gates, hooks, slots, timers, cancellations, files
\* and restarts, is a line of messages per lane, served one by one in order.
THEOREM ImplementsMailbox ==
  ASSUME ~WriteFaults, "clearSession" \notin Withdrawals
  PROVE  Spec => ServesInOrder
<1>1. Init => OrderInv
  <2> SUFFICES ASSUME Init PROVE OrderInv
    OBVIOUS
  <2>1. Waiting = {}
    BY ElemsEmpty DEF Init, Waiting
  <2> QED  BY <2>1, InitLane, InitOnce DEF Init, OrderInv
<1>2. OrderInv /\ [Next]_vars => OrderInv'
  BY NextOrder
<1>3. OrderInv /\ [Next]_vars => [Mailbox!Next]_(Mailbox!mailbox)
  <2> SUFFICES ASSUME OrderInv, [Next]_vars PROVE [Mailbox!Next]_(Mailbox!mailbox)
    OBVIOUS
  <2>1. OneAtATime'
    BY NextLane DEF OrderInv, LaneInv
  <2> QED  BY <2>1, NextServes
<1>4. Spec => [][Mailbox!Next]_(Mailbox!mailbox)
  BY <1>1, <1>2, <1>3, PTL DEF Spec
<1> QED  BY <1>4, InitServes, PTL DEF Spec, ServesInOrder, Mailbox!Spec
=============================================================================
