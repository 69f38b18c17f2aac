---------------------------- MODULE MessageQueue ----------------------------
(***************************************************************************)
(* The per-session message queue of src/core/command/queue.ts and the      *)
(* restore loop of queue-restore.ts.                                       *)
(*                                                                         *)
(* Every message waits in a lane: the FIFO of its project session or the   *)
(* global FIFO.  One processSession call at a time works on a session. It  *)
(* may first await the idle gate of the agent's pane, then calls the start *)
(* hook of the head it has peeked, dequeues, and awaits the handler that   *)
(* types the message into the pane.  Durable control messages are mirrored *)
(* to pending.json on the next tick and read back after a restart.         *)
(*                                                                         *)
(* JavaScript runs each callback to completion, so one action stands for   *)
(* one synchronous run: from the event that starts it to its first await.  *)
(***************************************************************************)
EXTENDS Integers, Sequences, FiniteSets, SequencesExt

CONSTANTS
  Message,        \* messages; each is enqueued at most once by its sender
  Session,        \* project sessions, one lane each
  Global,         \* the lane of messages without a session
  Chat, Text,     \* what deduplication compares
  None,           \* no message
  LaneOf,         \* [Message -> lane]
  ChatOf,         \* [Message -> Chat]
  Text0,          \* [Message -> Text]: the text a message is enqueued with
  Prompt,         \* messages with action "text", typed into the agent
  Hooked,         \* messages that carry a start hook
  Durable,        \* control messages that are not ephemeral
  Restorable,     \* durable prompts the restore callback can rebuild
  MaxSize,        \* capacity of each lane
  MaxConcurrent,  \* sessions processed at once
  Withdrawals,    \* which removals the chat and control surfaces use
  MaxRestarts,    \* bound on crashes and shutdowns
  BootTraffic,    \* messages may arrive before the backlog is restored
  WriteFaults     \* a write of pending.json may fail

Lane == Session \cup {Global}

ASSUME QueueAssumption ==
  /\ Global \notin Session
  /\ None \notin Message
  /\ LaneOf \in [Message -> Lane]
  /\ ChatOf \in [Message -> Chat]
  /\ Text0 \in [Message -> Text]
  /\ Prompt \subseteq Message
  /\ Hooked \subseteq {m \in Prompt : LaneOf[m] \in Session}
  /\ Durable \subseteq Message
  /\ Restorable \subseteq {m \in Durable \cap Prompt : LaneOf[m] \in Session}
  /\ MaxSize \in Nat \ {0}
  /\ MaxConcurrent \in Nat \ {0}
  /\ MaxRestarts \in Nat
  /\ Withdrawals \subseteq {"cancel", "clearSession"}
  /\ BootTraffic \in BOOLEAN
  /\ WriteFaults \in BOOLEAN

ASSUME FiniteAssumption == IsFiniteSet(Session)

VARIABLES
  waiting,     \* sessionQueues and globalQueue: [Lane -> Seq(Message)]
  processing,  \* processingSessions and processingGlobal: lanes in use
  gate,        \* heads peeked by a call that awaits the idle gate
  detached,    \* gated sessions whose queue object has left sessionQueues
  running,     \* messages whose handler is executing
  returned,    \* messages their handler has settled, lane not yet released
  current,     \* currentSessionMessage and currentGlobalMessage
  retry,       \* sessions with a pending setTimeout(processSession)
  consumed,    \* messages whose start hook has let them start
  text,        \* [Message -> Text], rewritten by a reply to an ack
  outcome,     \* what each message's sender has been told
  handled,     \* history: how often a message reached its handler
  scheduled,   \* persistScheduled: a write is due on the next tick
  disk,        \* pending.json: its backlog and its dispatched entries
  carry,       \* persistedCarryover
  loaded,      \* entries of pending.json the restore loop has yet to visit
  boot,        \* "booting", then "restoring" the backlog, then "up"
  restarts     \* restarts so far

laneVars == <<waiting, processing, gate, detached, running, returned, current,
              retry, consumed, handled>>
bootVars == <<carry, loaded, boot, restarts>>
diskVars == <<scheduled, disk, bootVars>>
vars == <<laneVars, text, outcome, diskVars>>

Outcome == {"new", "pending", "resolved", "rejected", "duplicate", "full",
            "gone", "discarded"}

Elems(s) == {s[i] : i \in DOMAIN s}
Waiting == UNION {Elems(waiting[l]) : l \in Lane}
Pending == {m \in Message : outcome[m] = "pending"}

Init ==
  /\ waiting = [l \in Lane |-> <<>>]
  /\ processing = {} /\ gate = {} /\ detached = {}
  /\ running = {} /\ returned = {}
  /\ current = [l \in Lane |-> None]
  /\ retry = {} /\ consumed = {}
  /\ text = Text0
  /\ outcome = [m \in Message |-> "new"]
  /\ handled = [m \in Message |-> 0]
  /\ scheduled = FALSE
  /\ disk = [backlog |-> {}, dispatched |-> {}]
  /\ carry = {} /\ loaded = {}
  /\ boot = "booting"
  /\ restarts = 0

\* The restore loop is synchronous: nothing else runs until it ends.
Live == boot # "restoring"

-----------------------------------------------------------------------------
(* pending.json *)

\* Faulty variant: messages in flight are not told apart from waiting ones.
SnapshotUnflagged(w, cur) ==
  [backlog |-> Durable \cap ({cur[l] : l \in Lane} \cup UNION {Elems(w[l]) : l \in Lane}),
   dispatched |-> {}]

\* What writePersistedNow collects: durable messages that wait (w), those in
\* flight (cur) marked dispatched, and the carryover that is not live again.
\* The carryover is in force once the restore loop has ended.  Restoring visits
\* entries in any order: the order of the file is abstracted.
Snapshot(w, cur) ==
  LET flying == {cur[l] : l \in Lane} \cap Durable
      queued == Durable \cap UNION {Elems(w[l]) : l \in Lane}
      kept   == IF boot = "up" THEN carry ELSE {}
  IN  [backlog |-> queued \cup (kept \ flying), dispatched |-> flying]

\* A write that fails is logged and forgotten: the old file stays.
WritePersistedNow(w, cur) ==
  \/ disk' = Snapshot(w, cur)
  \/ WriteFaults /\ UNCHANGED disk

\* The write persist() has put off to the next tick.
WriteScheduled ==
  /\ Live /\ scheduled
  /\ scheduled' = FALSE
  /\ WritePersistedNow(waiting, current)
  /\ UNCHANGED <<laneVars, text, outcome, bootVars>>

-----------------------------------------------------------------------------
(* Working on a lane.  w is the lane's queue in the map, timers the retry    *)
(* timers of the step that calls; both already include what that step did.   *)

\* The call ends and leaves the lane free.
Leave(l, w, timers) ==
  /\ waiting' = [waiting EXCEPT ![l] = w]
  /\ processing' = processing \ {l}
  /\ current' = [current EXCEPT ![l] = None]
  /\ retry' = timers
  /\ UNCHANGED <<running, handled, disk>>

\* Dequeue from held and hand the message to the handler, once the file says
\* that it has been dispatched.
Dispatch(l, held, timers) ==
  LET m == Head(held) IN
  /\ waiting' = [waiting EXCEPT ![l] = Tail(held)]
  /\ processing' = processing \cup {l}
  /\ current' = [current EXCEPT ![l] = m]
  /\ running' = running \cup {m}
  /\ handled' = [handled EXCEPT ![m] = @ + 1]
  /\ retry' = timers
  /\ WritePersistedNow(waiting', current')

\* Faulty variants: no timer is set; the head goes to the back of the lane; the
\* hook's answer is ignored.
HookRefusesNoTimer(l, h, w, timers) ==
  h \in Hooked /\ Leave(l, w, timers) /\ UNCHANGED consumed
HookRefusesRotates(l, h, w, timers) ==
  h \in Hooked /\ Leave(l, Append(Tail(w), h), timers \cup {l}) /\ UNCHANGED consumed
HookRefusesIgnored(l, h, w, timers) ==
  h \in Hooked /\ w # <<>> /\ Dispatch(l, w, timers) /\ UNCHANGED consumed

\* The start hook of h refuses: h stays queued and a timer tries again.
HookRefuses(l, h, w, timers) ==
  /\ h \in Hooked
  /\ Leave(l, w, timers \cup {l})
  /\ UNCHANGED consumed

\* The start hook of h allows, and the call dequeues from the queue object it
\* holds.  An empty object makes it delete the lane's entry of the map.
HookAllows(l, h, held, timers) ==
  /\ consumed' = consumed \cup ({h} \cap Hooked)
  /\ IF held = <<>> THEN Leave(l, <<>>, timers) ELSE Dispatch(l, held, timers)

\* Faulty variant: one slot too many.
SlotsTakenOffByOne(l) ==
  l # Global /\ Cardinality((processing \ {l}) \cap Session) > MaxConcurrent

\* Other sessions hold every slot.  The global lane needs none.
SlotsTaken(l) ==
  l # Global /\ Cardinality((processing \ {l}) \cap Session) >= MaxConcurrent

Gated(l, w, fresh) == fresh /\ l # Global /\ Head(w) \in Prompt

\* Faulty variant: the slot is reserved after the idle gate has answered.
AwaitGateUnreserved(l, w, timers) ==
  /\ Leave(l, w, timers)
  /\ gate' = gate \cup {Head(w)}
  /\ UNCHANGED consumed

\* Reserve the lane and await the idle gate; the head stays queued.
AwaitGate(l, w, timers) ==
  /\ waiting' = [waiting EXCEPT ![l] = w]
  /\ processing' = processing \cup {l}
  /\ current' = [current EXCEPT ![l] = None]
  /\ gate' = gate \cup {Head(w)}
  /\ retry' = timers
  /\ UNCHANGED <<running, consumed, handled, disk>>

\* processSession, or the loop of processGlobal, from a point where the lane
\* is free to its first await.  fresh: consult the idle gate, not a streak.
ProcessLane(l, w, fresh, timers) ==
  \/ /\ SlotsTaken(l)
     /\ Leave(l, w, timers \cup {l})
     /\ UNCHANGED <<gate, consumed>>
  \/ /\ ~SlotsTaken(l) /\ w = <<>>
     /\ Leave(l, <<>>, timers)
     /\ UNCHANGED <<gate, consumed>>
  \/ /\ ~SlotsTaken(l) /\ w # <<>> /\ Gated(l, w, fresh)
     /\ AwaitGate(l, w, timers)
  \/ /\ ~SlotsTaken(l) /\ w # <<>> /\ ~Gated(l, w, fresh)
     /\ \/ HookRefuses(l, Head(w), w, timers)
        \/ HookAllows(l, Head(w), w, timers)
     /\ UNCHANGED gate

\* A deferred processSession call fires.
Retry(s) ==
  /\ Live /\ s \in retry
  /\ IF s \in processing
       THEN /\ retry' = retry \ {s}
            /\ UNCHANGED <<waiting, processing, gate, running, current,
                           consumed, handled, disk>>
       ELSE ProcessLane(s, waiting[s], TRUE, retry \ {s})
  /\ UNCHANGED <<detached, returned, text, outcome, scheduled, bootVars>>

\* The idle gate of h's session reports a busy agent: hold and look again.
ProbeBusy(h) ==
  LET s == LaneOf[h] IN
  /\ Live /\ h \in gate
  /\ Leave(s, waiting[s], retry \cup {s})
  /\ gate' = gate \ {h}
  /\ detached' = detached \ {s}
  /\ UNCHANGED <<returned, consumed, text, outcome, scheduled, bootVars>>

\* It reports an idle agent.  The call goes on with the head it peeked and the
\* queue object it looked up before the await: if clearSession has taken that
\* object out of the map it is empty, whatever the map holds by now.
ProbeIdle(h) ==
  LET s    == LaneOf[h]
      held == IF s \in detached THEN <<>> ELSE waiting[s]
  IN
  /\ Live /\ h \in gate
  /\ \/ HookRefuses(s, h, waiting[s], retry)
     \/ HookAllows(s, h, held, retry)
  /\ gate' = gate \ {h}
  /\ detached' = detached \ {s}
  /\ UNCHANGED <<returned, text, outcome, scheduled, bootVars>>

\* The handler's one-shot finale, or runHandler's reject when it throws.
HandlerSettles(m) ==
  /\ Live /\ m \in running
  /\ \E v \in {"resolved", "rejected"} : outcome' = [outcome EXCEPT ![m] = v]
  /\ running' = running \ {m}
  /\ returned' = returned \cup {m}
  /\ UNCHANGED <<waiting, processing, gate, detached, current, retry, consumed,
                 handled, text, diskVars>>

\* The awaiting call resumes: release the lane, persist and go on.  A streak
\* after a prompt skips the idle gate; processGlobal persists when it drains.
HandlerReturns(m) ==
  LET l == LaneOf[m] IN
  /\ Live /\ m \in returned
  /\ returned' = returned \ {m}
  /\ scheduled' = (scheduled \/ l # Global \/ waiting[l] = <<>>)
  /\ ProcessLane(l, waiting[l], m \notin Prompt, retry)
  /\ UNCHANGED <<detached, text, outcome, bootVars>>

-----------------------------------------------------------------------------
(* Operations of the surfaces *)

\* Faulty variant: prompts in flight are not looked at.
HasDuplicateTextWaiting(c, t) ==
  \E m \in Prompt \cap Waiting : ChatOf[m] = c /\ text[m] = t

\* A prompt of chat c with text t waits or is in flight.
HasDuplicateText(c, t) ==
  \E m \in Prompt \cap (Waiting \cup {current[l] : l \in Lane}) :
    ChatOf[m] = c /\ text[m] = t

Duplicate(m) == m \in Prompt /\ HasDuplicateText(ChatOf[m], text[m])
Full(l) == Len(waiting[l]) >= MaxSize

\* Put m in its lane and start work on the lane unless it is in use.
Accept(m) ==
  LET l == LaneOf[m]
      w == Append(waiting[l], m)
  IN
  /\ ~Duplicate(m) /\ ~Full(l)
  /\ outcome' = [outcome EXCEPT ![m] = "pending"]
  /\ scheduled' = TRUE
  /\ IF l \in processing
       THEN /\ waiting' = [waiting EXCEPT ![l] = w]
            /\ UNCHANGED <<processing, gate, running, current, retry, consumed,
                           handled, disk>>
       ELSE ProcessLane(l, w, TRUE, retry)
  /\ UNCHANGED <<detached, returned, text>>

\* Told "duplicate" or false: the message is dropped and never settled.
Refuse(m) ==
  /\ \/ Duplicate(m) /\ outcome' = [outcome EXCEPT ![m] = "duplicate"]
     \/ ~Duplicate(m) /\ Full(LaneOf[m]) /\ outcome' = [outcome EXCEPT ![m] = "full"]
  /\ UNCHANGED <<laneVars, text, diskVars>>

\* The control server listens before the backlog is restored; its messages
\* are ephemeral.
Enqueue(m) ==
  /\ outcome[m] = "new"
  /\ boot = "up" \/ (boot = "booting" /\ BootTraffic /\ m \notin Durable)
  /\ \/ Accept(m) /\ UNCHANGED bootVars
     \/ Refuse(m)

\* cancelQueued: one message that still waits, never the one in flight.
CancelQueued(s) ==
  /\ Live /\ "cancel" \in Withdrawals
  /\ \E i \in DOMAIN waiting[s] :
       /\ waiting' = [waiting EXCEPT ![s] = RemoveAt(@, i)]
       /\ outcome' = [outcome EXCEPT ![waiting[s][i]] = "rejected"]
  /\ scheduled' = TRUE
  /\ UNCHANGED <<processing, gate, detached, running, returned, current, retry,
                 consumed, handled, text, disk, bootVars>>

\* clearSession: reject what waits and drop the queue object.  A call that
\* awaits the idle gate keeps its reference to the dropped object.
ClearSession(s) ==
  /\ Live /\ "clearSession" \in Withdrawals
  /\ waiting[s] # <<>> \/ s \in processing
  /\ outcome' = [m \in Message |->
                   IF m \in Elems(waiting[s]) THEN "rejected" ELSE outcome[m]]
  /\ waiting' = [waiting EXCEPT ![s] = <<>>]
  /\ detached' = IF \E h \in gate : LaneOf[h] = s
                   THEN detached \cup {s} ELSE detached
  /\ current' = [current EXCEPT ![s] = None]
  /\ scheduled' = TRUE
  /\ UNCHANGED <<processing, gate, running, returned, retry, consumed, handled,
                 text, disk, bootVars>>

\* rewriteByAck: a reply to the ack of a chat message that still waits.
RewriteByAck(m, t) ==
  /\ Live
  /\ m \in Elems(waiting[LaneOf[m]]) \ Durable
  /\ LaneOf[m] # Global
  /\ m \in Prompt => ~HasDuplicateText(ChatOf[m], t)
  /\ text' = [text EXCEPT ![m] = t]
  /\ scheduled' = TRUE
  /\ UNCHANGED <<laneVars, outcome, disk, bootVars>>

-----------------------------------------------------------------------------
(* Restarts *)

\* The process is replaced.  file is what pending.json holds when it dies; a
\* sender whose message is not in its backlog hears no more of it.
Restart(file) ==
  /\ restarts < MaxRestarts
  /\ restarts' = restarts + 1
  /\ disk' = file
  /\ outcome' = [m \in Message |->
                   IF outcome[m] = "pending" /\ m \notin file.backlog
                     THEN "gone" ELSE outcome[m]]
  /\ waiting' = [l \in Lane |-> <<>>]
  /\ current' = [l \in Lane |-> None]
  /\ processing' = {} /\ gate' = {} /\ detached' = {}
  /\ running' = {} /\ returned' = {} /\ retry' = {} /\ consumed' = {}
  /\ scheduled' = FALSE
  /\ carry' = {} /\ loaded' = {}
  /\ boot' = "booting"
  /\ UNCHANGED <<text, handled>>

Crash == Restart(disk)

\* A graceful shutdown first flushes the write that is due.
Shutdown ==
  /\ Live
  /\ Restart(IF scheduled THEN Snapshot(waiting, current) ELSE disk)

\* restorePersistedChannel: dispatched entries are skipped; with no entry at
\* all it returns early.
BeginRestore ==
  /\ boot = "booting"
  /\ IF disk.backlog \cup disk.dispatched = {}
       THEN boot' = "up" /\ UNCHANGED loaded
       ELSE boot' = "restoring" /\ loaded' = disk.backlog
  /\ UNCHANGED <<laneVars, text, outcome, scheduled, disk, carry, restarts>>

\* One turn of the loop: an entry whose work has settled is discarded, and stays
\* settled if the process dies before the file is rewritten; one that cannot be
\* rebuilt or enqueued is carried over, the others are queued.
RestoreEntry(m) ==
  /\ boot = "restoring" /\ m \in loaded
  /\ loaded' = loaded \ {m}
  /\ \/ /\ m \in Restorable
        /\ outcome' = [outcome EXCEPT ![m] = "discarded"]
        /\ UNCHANGED <<laneVars, text, scheduled, disk, carry>>
     \/ /\ outcome[m] # "discarded"
        /\ \/ /\ carry' = carry \cup {m}
              /\ UNCHANGED <<laneVars, text, outcome, scheduled, disk>>
           \/ m \in Restorable /\ Accept(m) /\ UNCHANGED carry
  /\ UNCHANGED <<boot, restarts>>

\* Faulty variants: the carryover is not kept; no write is scheduled.
EndRestoreDropsCarry ==
  /\ boot = "restoring" /\ loaded = {}
  /\ boot' = "up" /\ carry' = {} /\ scheduled' = TRUE
  /\ UNCHANGED <<laneVars, text, outcome, disk, loaded, restarts>>
EndRestoreUnsaved ==
  /\ boot = "restoring" /\ loaded = {}
  /\ boot' = "up"
  /\ UNCHANGED <<laneVars, text, outcome, scheduled, disk, carry, loaded, restarts>>

\* keepPersistedCarryover.
EndRestore ==
  /\ boot = "restoring" /\ loaded = {}
  /\ boot' = "up"
  /\ scheduled' = TRUE
  /\ UNCHANGED <<laneVars, text, outcome, disk, carry, loaded, restarts>>

-----------------------------------------------------------------------------
Next ==
  \/ \E m \in Message : Enqueue(m)
  \/ \E s \in Session : Retry(s) \/ CancelQueued(s) \/ ClearSession(s)
  \/ \E h \in gate : ProbeBusy(h) \/ ProbeIdle(h)
  \/ \E m \in Message : HandlerSettles(m) \/ HandlerReturns(m)
  \/ \E m \in Message, t \in Text : RewriteByAck(m, t)
  \/ WriteScheduled
  \/ Crash \/ Shutdown
  \/ BeginRestore \/ EndRestore
  \/ \E m \in Message : RestoreEntry(m)

Spec == Init /\ [][Next]_vars

\* Timers fire and awaited calls resume; a handler is bounded by its maximal
\* wait.  A session that keeps asking for a slot finds one free at some point:
\* it asks every second, and a held session leaves its slot for 1.5 s.  The
\* agent is idle, and the hook allows, at one of the probes that recur forever.
Fairness ==
  /\ WF_vars(WriteScheduled) /\ WF_vars(BeginRestore) /\ WF_vars(EndRestore)
  /\ \A m \in Message :
       /\ WF_vars(RestoreEntry(m))
       /\ WF_vars(HandlerSettles(m)) /\ WF_vars(HandlerReturns(m))
       /\ WF_vars(ProbeBusy(m) \/ ProbeIdle(m))
       /\ SF_vars(ProbeIdle(m) /\ (m \in Hooked => m \in consumed'))
  /\ \A s \in Session : SF_vars(Retry(s) /\ ~SlotsTaken(s))

FairSpec == Spec /\ Fairness

-----------------------------------------------------------------------------
(* Properties *)

Owned(l) == {m \in Message : LaneOf[m] = l}

\* Every variable keeps to the values its counterpart in the code can have; a
\* message waits in its own lane only, and only sessions have a gate or timers.
TypeOK ==
  /\ waiting \in [Lane -> Seq(Message)]
  /\ \A l \in Lane : waiting[l] \in Seq(Owned(l))
  /\ processing \subseteq Lane
  /\ gate \subseteq {m \in Message : LaneOf[m] \in Session}
  /\ detached \subseteq Session
  /\ running \subseteq Message /\ returned \subseteq Message
  /\ current \in [Lane -> Message \cup {None}]
  /\ retry \subseteq Session
  /\ consumed \subseteq Message
  /\ text \in [Message -> Text]
  /\ outcome \in [Message -> Outcome]
  /\ handled \in [Message -> Nat]
  /\ scheduled \in BOOLEAN
  /\ disk \in [backlog : SUBSET Message, dispatched : SUBSET Message]
  /\ carry \subseteq Message /\ loaded \subseteq Message
  /\ boot \in {"booting", "restoring", "up"}
  /\ restarts \in 0 .. MaxRestarts

\* Two messages are never worked on in one lane: neither awaited twice at the
\* idle gate, nor typed while another call is at the gate or in the handler.
\* This is what the processingSessions guard is for, across its awaits.
OneAtATime ==
  /\ \A x, y \in gate \cup running \cup returned :
       LaneOf[x] = LaneOf[y] => x = y
  /\ gate \cap (running \cup returned) = {}
  /\ running \cap returned = {}

\* Never more sessions are worked on than maxConcurrentSessions, although the
\* limit is read before and the slot taken after other calls' awaits.
ConcurrencyLimit ==
  Cardinality({LaneOf[m] : m \in gate \cup running \cup returned} \cap Session)
    <= MaxConcurrent

\* A lane that holds messages is being worked on or has a timer that will:
\* no early return of processSession strands the rest of its queue.
NoLostWakeup ==
  \A l \in Lane \ processing : waiting[l] # <<>> => l \in retry

\* Two prompts of one chat with the same text are never both waiting or in
\* flight, also after replies have rewritten queued prompts and after the
\* backlog has been restored: else the agent is sent the same prompt twice.
NoDuplicateWaiting ==
  \A x, y \in Prompt \cap (Waiting \cup {current[l] : l \in Lane}) :
    ChatOf[x] = ChatOf[y] /\ text[x] = text[y] => x = y

\* A message whose sender still waits for an answer is somewhere it can be
\* answered from: in a lane, in the handler, or in the backlog that a restart
\* has yet to restore or that has been carried over.
NothingForgotten ==
  Pending \subseteq Waiting \cup running \cup loaded \cup carry
                    \cup (IF boot = "booting" THEN disk.backlog ELSE {})

\* Typing into a pane cannot be undone: whatever the moment of a crash, a
\* message is handed to the handler at most once over all restarts.
AtMostOnceHandled == \A m \in Message : handled[m] <= 1

\* When no write is due, pending.json holds exactly the backlog, the messages
\* in flight and the carryover: every change of them has scheduled a write.
DiskInSync == boot = "up" /\ ~scheduled => disk = Snapshot(waiting, current)

\* A message with a start hook is in the handler only if its own hook has let
\* it start.
HookBeforeHandler == running \cap Hooked \subseteq consumed

\* Every accepted message is answered in the end, whatever waits before it in
\* its lane, whichever sessions compete for the slots, and across restarts; or it
\* could not be rebuilt and is kept in the file for the next start.
EveryMessageSettles ==
  \A m \in Message : (outcome[m] = "pending") ~> (outcome[m] # "pending" \/ m \in carry)

=============================================================================
