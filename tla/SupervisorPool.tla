--------------------------- MODULE SupervisorPool ---------------------------
(***************************************************************************)
(* The pool of supervisor sessions and the work orders that run in them:   *)
(* the leases of src/core/loop/supervisor-pool.ts, the registry of         *)
(* supervisor-state.ts, their reconciliation (the first loop of            *)
(* reconcileLoopSupervisorWorkOrders and                                   *)
(* supervisor-resource-reconciliation.ts), and their users: the main tick, *)
(* the drain of the reviews, delegations and restored prompts.             *)
(*                                                                         *)
(* Orders, leases and summaries are files; calls and reservations die with *)
(* the process; sessions work on in tmux.  What a delegation does after a  *)
(* crash is the subject of DelegationJournal and one action here.          *)
(***************************************************************************)
EXTENDS Naturals, FiniteSets

CONSTANTS Orders,       \* work orders
          Kind,         \* [Orders -> Kinds]
          Sessions,     \* supervisor sessions
          None,         \* no order, no session
          Revisions,    \* may the gate of a reconciled order ask for a revision?
          Overlap,      \* may a pass meet an order in the short stages of its
                        \* call in which no prompt of it is queued?
          MaxTroubles   \* bound on restarts, repeated launches, timeouts,
                        \* failed preparations and revisions, together

Dispatchers == {"job", "review"}
Kinds == Dispatchers \cup {"delegation"}

ASSUME PoolAssumption ==
  /\ IsFiniteSet(Orders) /\ IsFiniteSet(Sessions)
  /\ None \notin Orders \cup Sessions
  /\ Kind \in [Orders -> Kinds]
  /\ Revisions \in BOOLEAN /\ Overlap \in BOOLEAN /\ MaxTroubles \in Nat

VARIABLES order,    \* [Orders -> its state file]
          summary,  \* orders with a valid final summary
          lease,    \* [Sessions -> the lease of the session]
          lane,     \* [Sessions -> orders whose prompts are queued]
          held,     \* sessions whose turn the queue waits for
          work,     \* [Sessions -> the order its agent works on]
          call,     \* [Orders -> where the call that waits for it is]
          disp,     \* the main tick's and the drain's dispatches
          recon,    \* the reconciliation
          troubles

vars == <<order, summary, lease, lane, held, work, call, disp, recon, troubles>>

Open     == {"dispatching", "queued", "in-flight", "needs-revision"}
Terminal == {"completed", "failed"}

\* age 1: untouched for five minutes, 2: for twelve hours.  gated: the system
\* gate's artifact exists.
Ages    == 0..2
NoOrder == [st |-> "none", at |-> None, age |-> 0, gated |-> FALSE]
States  == {NoOrder} \cup [st: Open \cup Terminal, at: Sessions, age: Ages, gated: BOOLEAN]

Unleased == [of |-> None, st |-> "none"]
Leases   == {Unleased} \cup [of: Orders, st: {"active", "retained", "expired"}]

Stages == {"none", "start", "ensure", "queued", "turn", "poll", "gate", "settle",
           "restored", "restored turn"}

Dispatch0 == [at |-> "idle", reserved |-> {}, idle |-> {}, due |-> {}]
NoOrders  == [w \in Orders |-> NoOrder]
NoPass    == [at |-> "idle", boot |-> FALSE, todo |-> {}, busy |-> {}, rec |-> NoOrders, of |-> None]

Init == /\ order = NoOrders
        /\ summary = {}
        /\ lease = [s \in Sessions |-> Unleased]
        /\ lane = [s \in Sessions |-> {}]
        /\ held = {}
        /\ work = [s \in Sessions |-> None]
        /\ call = [w \in Orders |-> "none"]
        /\ disp = [d \in Dispatchers |-> Dispatch0]
        /\ recon = NoPass
        /\ troubles = 0

-----------------------------------------------------------------------------
(* Leases *)

\* pruneExpiredRetainedLeases, with every lease taken or given back.
Pruned == [s \in Sessions |-> IF lease[s].st = "expired" THEN Unleased ELSE lease[s]]

Leasable(w, s) == lease[s].st = "active" => lease[s].of = w

\* leaseLoopSupervisorWorker: the only lease of w, and of s.
Leased(w, s) == [t \in Sessions |-> IF t = s THEN [of |-> w, st |-> "active"]
                                    ELSE IF lease[t].of = w THEN Unleased
                                    ELSE Pruned[t]]

\* releaseLoopSupervisorWorker, by work order.
Released(w, success) ==
  [s \in Sessions |-> IF Pruned[s].of # w THEN Pruned[s]
                      ELSE IF success THEN Unleased
                      ELSE [of |-> w, st |-> "retained"]]

Holds(w) == \E s \in Sessions : lease[s] = [of |-> w, st |-> "active"]

Expire(s) ==
  /\ lease[s].st = "retained"
  /\ lease' = [lease EXCEPT ![s].st = "expired"]
  /\ UNCHANGED <<order, summary, lane, held, work, call, disp, recon, troubles>>

-----------------------------------------------------------------------------
(* The registry *)

Legacy(w) == Kind[w] # "delegation"

\* canProgress, of an order that is not terminal.
Unfinished(w) ==
  order[w].st \in Open /\ (Legacy(w) => w \notin summary /\ order[w].age < 2)

\* readActiveLoopSupervisorResources.
ActiveSessions == {order[w].at : w \in {v \in Orders : Unfinished(v)}}
                  \cup {s \in Sessions : lease[s].st = "active"}

State(st, s, gated) == [st |-> st, at |-> s, age |-> 0, gated |-> gated]

\* writeLoopSupervisorWorkOrderState, without and with the system gate's artifact.
Written(w, st, s) == [order EXCEPT ![w] = State(st, s, @.gated)]
Verified(w, st, s) == [order EXCEPT ![w] = State(st, s, TRUE)]

\* Nothing awaits between these stages and the next.
Synchronous == recon.at \in {"orders", "probe"} \/ \E w \in Orders : call[w] \in {"gate", "settle"}

\* Starting an agent, polling and settling take less than five minutes, a call
\* less than twelve hours; a pass goes by the time at which it began.
Age(w) ==
  /\ Legacy(w) /\ order[w].st \in Open /\ recon.at = "idle"
  /\ \/ order[w].age = 0 /\ call[w] \in {"none", "queued", "turn", "restored", "restored turn"}
     \/ order[w].age = 1 /\ call[w] \in {"none", "restored", "restored turn"}
  /\ order' = [order EXCEPT ![w].age = @ + 1]
  /\ UNCHANGED <<summary, lease, lane, held, work, call, disp, recon, troubles>>

-----------------------------------------------------------------------------
(* The main tick and the drain *)

\* What a dispatcher may find due: new occurrences, and failed ones once more.
\* A pass of the reconciliation is shorter than a retry's delay unless it awaits
\* a revision.
Startable(d) ==
  {w \in Orders : /\ Kind[w] = d /\ call[w] = "none"
                  /\ \/ order[w].st = "none"
                     \/ order[w].st = "failed" /\ (recon.at = "idle" \/ Revisions)}

\* Sessions that nothing durable occupies are reserved in memory.
Reserve(d) ==
  \E due \in SUBSET Startable(d) :
    LET again == Cardinality({w \in due : order[w].st = "failed"})
        idle == Sessions \ (ActiveSessions \cup disp["job"].reserved \cup disp["review"].reserved)
    IN /\ disp[d].at = "idle" /\ ~recon.boot
       /\ d = "job" => recon.at = "idle"
       /\ due # {} /\ idle # {} /\ troubles + again <= MaxTroubles
       /\ troubles' = troubles + again
       /\ disp' = [disp EXCEPT ![d] = [at |-> "wait", reserved |-> idle, idle |-> {}, due |-> due]]
       /\ UNCHANGED <<order, summary, lease, lane, held, work, call, recon>>

HasQueuedWork(s) == lane[s] # {} \/ s \in held

Available(s) == ~HasQueuedWork(s) /\ work[s] = None

\* isSupervisorSessionAvailable, of every reserved session.
Probe(d) ==
  /\ disp[d].at = "wait"
  /\ LET idle == {s \in disp[d].reserved : Available(s)}
     IN disp' = [disp EXCEPT ![d] = IF idle = {} THEN Dispatch0
                                    ELSE [@ EXCEPT !.at = "run", !.idle = idle]]
  /\ UNCHANGED <<order, summary, lease, lane, held, work, call, recon, troubles>>

\* Calls that the dispatcher d awaits.
Awaited(d) == {w \in Orders : /\ Kind[w] = d
                              /\ call[w] \notin {"none", "restored", "restored turn"}
                              /\ ~(recon.at = "revise" /\ recon.of = w)}

\* The assignments of a batch: as many orders as there are sessions for them.
Batches(d) ==
  {f \in UNION {[W -> disp[d].idle] : W \in SUBSET disp[d].due} :
     /\ \A v, w \in DOMAIN f : f[v] = f[w] => v = w
     /\ DOMAIN f = disp[d].due \/ Cardinality(DOMAIN f) = Cardinality(disp[d].idle)}

\* A batch up to its first await: artifacts of an earlier run go, the worktree is
\* prepared, the worker leased and the order written, leased or not.
BatchOf(d, f, prepared) ==
  LET failures == Cardinality(DOMAIN f \ prepared)
      ok == {w \in prepared : Leasable(w, f[w])}
  IN /\ disp[d].at = "run" /\ Awaited(d) = {} /\ DOMAIN f # {}
     /\ troubles + failures <= MaxTroubles
     /\ troubles' = troubles + failures
     /\ order' = [w \in Orders |-> IF w \notin DOMAIN f THEN order[w]
                                   ELSE State("dispatching", f[w], FALSE)]
     /\ summary' = summary \ DOMAIN f
     /\ lease' = [s \in Sessions |->
                    IF \E w \in ok : f[w] = s
                    THEN [of |-> CHOOSE w \in ok : f[w] = s, st |-> "active"]
                    ELSE IF lease[s].of \in ok THEN Unleased
                    ELSE IF prepared # {} THEN Pruned[s] ELSE lease[s]]
     /\ call' = [w \in Orders |-> IF w \in ok THEN "ensure"
                                  ELSE IF w \in DOMAIN f THEN "poll" ELSE call[w]]
     /\ disp' = [disp EXCEPT ![d].due = @ \ DOMAIN f]
     /\ UNCHANGED <<lane, held, work, recon>>

Batch(d) == \E f \in Batches(d) : \E prepared \in SUBSET DOMAIN f : BatchOf(d, f, prepared)

\* finally: the reservations end.
EndDispatch(d) ==
  /\ disp[d].at = "run" /\ Awaited(d) = {} /\ disp[d].due = {}
  /\ disp' = [disp EXCEPT ![d] = Dispatch0]
  /\ UNCHANGED <<order, summary, lease, lane, held, work, call, recon, troubles>>

-----------------------------------------------------------------------------
(* Delegations *)

StartDelegation(w) ==
  /\ ~Legacy(w) /\ order[w].st = "none" /\ call[w] = "none" /\ ~recon.boot
  /\ call' = [call EXCEPT ![w] = "start"]
  /\ UNCHANGED <<order, summary, lease, lane, held, work, disp, recon, troubles>>

\* reserveFirstAvailableSupervisor, after the await of a session's start: it does
\* not know of the reservations.  Without a free session the prompt is queued and
\* leased when it is consumed.
Delegate(w) ==
  /\ call[w] = "start"
  /\ \E s \in Sessions :
       \/ /\ Leasable(w, s)
          /\ lease' = Leased(w, s) /\ order' = Written(w, "dispatching", s)
       \/ /\ \A t \in Sessions : ~Leasable(w, t)
          /\ lease' = Pruned /\ order' = Written(w, "queued", s)
  /\ call' = [call EXCEPT ![w] = "ensure"]
  /\ UNCHANGED <<summary, lane, held, work, disp, recon, troubles>>

\* A delegation that lost its call: the boot's and the journal's reconciliation.
RecoverDelegation(w) ==
  /\ ~Legacy(w) /\ order[w].st \in Open /\ call[w] = "none" /\ ~recon.boot
  /\ \A s \in Sessions : work[s] # w
  /\ order' = Written(w, "failed", order[w].at)
  /\ lease' = Released(w, FALSE)
  /\ UNCHANGED <<summary, lane, held, work, call, disp, recon, troubles>>

-----------------------------------------------------------------------------
(* A call *)

\* enqueueLoopAgentPromptToSession, once the session has been ensured: the lease
\* is taken again, or later, and the prompt is queued unless its text is being
\* worked on.
Enqueue(w) ==
  LET s == order[w].at
      leasable == ~Legacy(w) \/ Leasable(w, s)
  IN /\ call[w] = "ensure"
     /\ lease' = IF ~Legacy(w) THEN lease
                 ELSE IF leasable THEN Leased(w, s) ELSE Pruned
     /\ \/ /\ leasable
           /\ lane' = [lane EXCEPT ![s] = @ \cup {w}]
           /\ order' = Written(w, "queued", s)
           /\ call' = [call EXCEPT ![w] = "queued"]
        \/ /\ ~leasable \/ \E t \in held : work[t] = w
           /\ call' = [call EXCEPT ![w] = "poll"]
           /\ UNCHANGED <<order, lane>>
     /\ UNCHANGED <<summary, held, work, disp, recon, troubles>>

\* The session cannot be ensured.
CannotEnsure(w) ==
  /\ call[w] = "ensure" /\ troubles < MaxTroubles
  /\ troubles' = troubles + 1
  /\ call' = [call EXCEPT ![w] = "poll"]
  /\ UNCHANGED <<order, summary, lease, lane, held, work, disp, recon>>

\* releaseFailureLease: only a delegation's dispatch has taken the lease.
ReleasedByDispatch(w) == IF Legacy(w) THEN lease ELSE Released(w, FALSE)

\* The started hook of the next prompt, the session being idle.  The order of the
\* prompts, which MessageQueue models, makes no difference here.  Until the boot's
\* pass has ended, the prompts saved are not in the queue.
Consume(s) ==
  \E w \in lane[s] :
     /\ s \notin held /\ work[s] = None /\ (recon.boot => call[w] = "queued")
     /\ ~Legacy(w) => Leasable(w, s)
     /\ lease' = IF Legacy(w) THEN lease ELSE Leased(w, s)
     /\ lane' = [lane EXCEPT ![s] = @ \ {w}]
     /\ held' = held \cup {s}
     /\ work' = [work EXCEPT ![s] = w]
     /\ order' = Written(w, "in-flight", s)
     /\ call' = [call EXCEPT ![w] = IF @ = "queued" THEN "turn" ELSE "restored turn"]
     /\ UNCHANGED <<summary, disp, recon, troubles>>

WriteSummary(w) ==
  /\ w \notin summary /\ \E s \in Sessions : work[s] = w
  /\ call[w] = "poll" => Overlap
  /\ summary' = summary \cup {w}
  /\ UNCHANGED <<order, lease, lane, held, work, call, disp, recon, troubles>>

\* The turn that the queue waits for is the one the call waits for.
Awaits(s, stage) == s \in held /\ call[work[s]] = stage /\ order[work[s]].at = s

\* The agent has ended its turn; the queue may take it for a failure.  A restored
\* prompt's result is written without gate and without its lease.
EndTurn(s) ==
  LET w == work[s] IN
  /\ w # None
  /\ work' = [work EXCEPT ![s] = None]
  /\ held' = held \ {s}
  /\ \/ /\ Awaits(s, "turn") /\ w \in summary
        /\ call' = [call EXCEPT ![w] = "gate"]
        /\ UNCHANGED <<order, lease>>
     \/ /\ Awaits(s, "turn") /\ w \notin summary
        /\ call' = [call EXCEPT ![w] = "poll"]
        /\ lease' \in {lease, ReleasedByDispatch(w)}
        /\ UNCHANGED order
     \/ /\ Awaits(s, "restored turn")
        /\ call' = [call EXCEPT ![w] = "none"]
        /\ \E st \in Terminal : /\ st = "completed" => w \in summary
                                /\ order' = Written(w, st, s)
        /\ UNCHANGED lease
     \/ /\ ~Awaits(s, "turn") /\ ~Awaits(s, "restored turn")
        /\ UNCHANGED <<call, order, lease>>
  /\ UNCHANGED <<summary, lane, disp, recon, troubles>>

\* A prompt that is not consumed in time is taken out of the queue.
Unconsumed(w) ==
  /\ call[w] = "queued"
  /\ lane' = [lane EXCEPT ![order[w].at] = @ \ {w}]
  /\ call' = [call EXCEPT ![w] = "poll"]
  /\ lease' = ReleasedByDispatch(w)
  /\ UNCHANGED <<order, summary, held, work, disp, recon, troubles>>

\* dispatch-timeout: the turn goes on.
Timeout(w) ==
  /\ call[w] = "turn" /\ troubles < MaxTroubles
  /\ troubles' = troubles + 1
  /\ call' = [call EXCEPT ![w] = "poll"]
  /\ UNCHANGED <<order, summary, lease, lane, held, work, disp, recon>>

\* recoverInvalidOutputFromFinalSummaryAsync has waited for the summary.
EndPoll(w) ==
  /\ call[w] = "poll"
  /\ call' = [call EXCEPT ![w] = "gate"]
  /\ UNCHANGED <<order, summary, lease, lane, held, work, disp, recon, troubles>>

\* The system gate accepts or fails the result, or asks for a revision.
Gate(w) ==
  /\ call[w] = "gate"
  /\ \/ \E st \in Terminal :
          /\ st = "completed" => w \in summary
          /\ order' = Verified(w, st, order[w].at)
          /\ call' = [call EXCEPT ![w] = "settle"]
          /\ troubles' = troubles
     \/ /\ w \in summary /\ troubles < MaxTroubles
        /\ troubles' = troubles + 1
        /\ order' = Written(w, "needs-revision", order[w].at)
        /\ call' = [call EXCEPT ![w] = "ensure"]
  /\ UNCHANGED <<summary, lease, lane, held, work, disp, recon>>

\* settleLoopSupervisorWorkerLease; a worktree that cannot be removed is retained.
Settle(w) ==
  /\ call[w] = "settle"
  /\ \E success \in BOOLEAN : /\ success => order[w].st = "completed"
                              /\ lease' = Released(w, success)
  /\ call' = [call EXCEPT ![w] = "none"]
  /\ UNCHANGED <<order, summary, lane, held, work, disp, recon, troubles>>

-----------------------------------------------------------------------------
(* Reconciliation *)

\* While the main tick dispatches, a pass is the Runtime Guardian's, which neither
\* probes nor revises.
Ticks == disp["job"].at = "idle"

\* What one pass reads at its start, in the order it likes.
Pass(boot) ==
  [at |-> "orders", boot |-> boot, busy |-> {}, rec |-> order, of |-> None,
   todo |-> {w \in Orders :
               /\ Legacy(w)
               /\ \/ order[w].st \in Open
                  \/ order[w].st = "failed" /\ ~order[w].gated /\ w \in summary}]

BeginPass ==
  /\ recon.at = "idle"
  /\ recon' = Pass(FALSE)
  /\ UNCHANGED <<order, summary, lease, lane, held, work, call, disp, troubles>>

\* Faulty variant: the prompts in the queue are not looked at.
BusyUnseen(w) == FALSE

\* supervisorSessionBusy, of the session the pass has read.
Busy(w) == \/ ~recon.boot /\ HasQueuedWork(recon.rec[w].at)
           \/ ~Overlap /\ call[w] \in {"ensure", "poll"}

Stale(w) == recon.rec[w].st = "dispatching" /\ recon.rec[w].age = 1

\* An order of the pass: left to its owner, settled by its summary or as a
\* dispatch that never was, or given a revision.
ReconcileOrder(w) ==
  /\ recon.at = "orders" /\ w \in recon.todo
  /\ LET rest == [recon EXCEPT !.todo = @ \ {w}]
         s == recon.rec[w].at
     IN \/ /\ Busy(w)
           /\ recon' = [rest EXCEPT !.busy = @ \cup {w}]
           /\ UNCHANGED <<order, lease, call, troubles>>
        \/ /\ ~Busy(w) /\ (w \in summary \/ Stale(w))
           /\ \E st \in Terminal :
                /\ st = "completed" => w \in summary
                /\ order' = Verified(w, st, s)
                /\ lease' = Released(w, st = "completed")
           /\ recon' = rest
           /\ UNCHANGED <<call, troubles>>
        \/ /\ ~Busy(w) /\ w \in summary /\ call[w] = "none"
           /\ Revisions /\ Ticks /\ troubles < MaxTroubles
           /\ troubles' = troubles + 1
           /\ order' = Written(w, "needs-revision", s)
           /\ call' = [call EXCEPT ![w] = "ensure"]
           /\ recon' = [rest EXCEPT !.at = "revise", !.of = w]
           /\ UNCHANGED lease
        \/ /\ ~Busy(w) /\ w \notin summary /\ ~Stale(w)
           /\ recon' = rest
           /\ UNCHANGED <<order, lease, call, troubles>>
  /\ UNCHANGED <<summary, lane, held, work, disp>>

Revised ==
  /\ recon.at = "revise" /\ call[recon.of] = "none"
  /\ recon' = [recon EXCEPT !.at = "orders", !.of = None]
  /\ UNCHANGED <<order, summary, lease, lane, held, work, call, disp, troubles>>

\* Faulty variant: only the leases of failed orders are given back.
SettledFailuresOnly(w) == order[w].st = "failed"

\* listTerminalLoopSupervisorWorkOrders.
Settled(w) == order[w].st \in Terminal

\* Active leases of terminal orders are settled; then the orders are read again
\* whose workers are to be probed.
SettleTerminalLeases ==
  /\ recon.at = "orders" /\ recon.todo = {}
  /\ lease' = [s \in Sessions |->
                 LET w == lease[s].of IN
                 IF lease[s].st = "active" /\ w \notin recon.busy /\ Settled(w)
                 THEN IF order[w].st = "completed" THEN Unleased
                      ELSE [of |-> w, st |-> "retained"]
                 ELSE lease[s]]
  /\ recon' = [recon EXCEPT !.at = "probe", !.rec = order,
                 !.todo = {w \in Orders :
                             /\ Ticks /\ Legacy(w) /\ w \notin recon.busy /\ Unfinished(w)
                             /\ order[w].st # "needs-revision" /\ order[w].age = 1
                             /\ Holds(w)}]
  /\ UNCHANGED <<order, summary, lane, held, work, call, disp, troubles>>

\* workerSessionOwnsActiveTurn is awaited of an order without summary.
BeginProbe(w) ==
  /\ recon.at = "probe" /\ w \in recon.todo
  /\ recon' = IF w \in summary THEN [recon EXCEPT !.todo = @ \ {w}]
              ELSE [recon EXCEPT !.at = "probing", !.todo = @ \ {w}, !.of = w]
  /\ UNCHANGED <<order, summary, lease, lane, held, work, call, disp, troubles>>

\* Settled by what was read before the await.
EndProbe ==
  LET w == recon.of
      s == recon.rec[w].at
  IN /\ recon.at = "probing"
     /\ IF work[s] # None THEN UNCHANGED <<order, lease>>
        ELSE /\ order' = Written(w, "failed", s)
             /\ lease' = Released(w, FALSE)
     /\ recon' = [recon EXCEPT !.at = "probe", !.of = None]
     /\ UNCHANGED <<summary, lane, held, work, call, disp, troubles>>

\* Faulty variant: orders are abandoned only if no lease names them.
AbandonedUnleased == {w \in Orders : /\ Legacy(w) /\ w \notin recon.busy /\ w \notin summary
                                     /\ order[w].st \in Open /\ order[w].age = 2
                                     /\ \A s \in Sessions : lease[s].of # w}

\* reconcileAbandonedLoopSupervisorWorkOrders.
Abandoned == {w \in Orders : /\ Legacy(w) /\ w \notin recon.busy /\ w \notin summary
                             /\ order[w].st \in Open /\ order[w].age = 2}

\* restoredLoopSupervisorMessage: the prompts saved, without those of finished work.
Restored(s) == lane[s] \ summary

\* The end of a pass; after the boot's, the prompts saved are queued again.
EndPass ==
  /\ recon.at = "probe" /\ recon.todo = {}
  /\ order' = [w \in Orders |-> IF w \in Abandoned
                                THEN State("failed", order[w].at, order[w].gated) ELSE order[w]]
  /\ lease' = [s \in Sessions |-> IF lease[s].of \in Abandoned
                                  THEN [lease[s] EXCEPT !.st = "retained"] ELSE lease[s]]
  /\ recon' = NoPass
  /\ IF recon.boot
     THEN /\ lane' = [s \in Sessions |-> Restored(s)]
          /\ call' = [w \in Orders |-> IF \E s \in Sessions : w \in Restored(s)
                                       THEN "restored" ELSE call[w]]
     ELSE UNCHANGED <<lane, call>>
  /\ UNCHANGED <<summary, held, work, disp, troubles>>

\* The process ends and is started again: what the queue had not begun is in its
\* file, and the boot reconciles before it is restored.
Restart ==
  /\ troubles < MaxTroubles
  /\ troubles' = troubles + 1
  /\ lane' = [s \in Sessions |-> {w \in lane[s] : Legacy(w)}]
  /\ held' = {}
  /\ call' = [w \in Orders |-> "none"]
  /\ disp' = [d \in Dispatchers |-> Dispatch0]
  /\ recon' = Pass(TRUE)
  /\ UNCHANGED <<order, summary, lease, work>>

-----------------------------------------------------------------------------

Calls(w) == EndPoll(w) \/ Enqueue(w) \/ Delegate(w) \/ Unconsumed(w)

\* What ends of itself: calls, turns and dispatches; time goes on.
Work == \/ /\ ~Synchronous
           /\ \/ \E s \in Sessions : Consume(s) \/ EndTurn(s)
              \/ \E d \in Dispatchers : Batch(d) \/ EndDispatch(d)
              \/ \E w \in Orders : Age(w) \/ RecoverDelegation(w) \/ Calls(w)
        \/ \E w \in Orders : Gate(w) \/ Settle(w)

Probing == ~Synchronous /\ \E d \in Dispatchers : Probe(d)

\* The passes of the reconciliation.
Passing == \/ ~Synchronous /\ (BeginPass \/ Revised \/ EndProbe)
           \/ \E w \in Orders : ReconcileOrder(w) \/ BeginProbe(w)
           \/ SettleTerminalLeases \/ EndPass

\* What need not happen.
Chance == \/ /\ ~Synchronous
             /\ \/ \E s \in Sessions : Expire(s)
                \/ \E d \in Dispatchers : Reserve(d)
                \/ \E w \in Orders : \/ StartDelegation(w) \/ CannotEnsure(w)
                                     \/ WriteSummary(w) \/ Timeout(w)
          \/ Restart

Next == Work \/ Probing \/ Passing \/ Chance

Spec == Init /\ [][Next]_vars

\* Work and probes go on although passes interrupt them, and passes go on.
FairSpec == Spec /\ SF_vars(Work) /\ SF_vars(Probing) /\ WF_vars(Passing)

-----------------------------------------------------------------------------
(* Properties *)

TypeOK ==
  /\ order \in [Orders -> States]
  /\ summary \subseteq Orders
  /\ lease \in [Sessions -> Leases]
  /\ lane \in [Sessions -> SUBSET Orders]
  /\ held \subseteq Sessions
  /\ work \in [Sessions -> Orders \cup {None}]
  /\ call \in [Orders -> Stages]
  /\ disp \in [Dispatchers -> [at: {"idle", "wait", "run"}, reserved: SUBSET Sessions,
                               idle: SUBSET Sessions, due: SUBSET Orders]]
  /\ recon \in [at: {"idle", "orders", "revise", "probe", "probing"}, boot: BOOLEAN,
                todo: SUBSET Orders, busy: SUBSET Orders, rec: [Orders -> States],
                of: Orders \cup {None}]
  /\ troubles \in 0..MaxTroubles

Queued(w) == call[w] = "queued" /\ Legacy(w)

\* While a call waits for its worker, the worker is leased to its order: no
\* dispatcher, delegation or reconciliation has taken or released the lease.
CallHoldsLease ==
  \A w \in Orders : Queued(w) \/ call[w] = "turn"
                    => lease[order[w].at] = [of |-> w, st |-> "active"]

\* An accepted work order stays accepted until its occurrence is dispatched anew:
\* reconciliation does not "overwrite the terminal state" (service.ts:2428-2430).
CompletedStands ==
  [][\A w \in Orders : order[w].st = "completed"
                        => order'[w].st \in {"completed", "dispatching"}]_vars

\* Every work order comes to its end, whatever crashed meanwhile.
OrderSettles == \A w \in Orders : order[w].st \in Open ~> order[w].st \in Terminal

\* Every worker is given back.
LeaseReturned ==
  \A s \in Sessions : lease[s].st = "active" ~> lease[s].st # "active"
=============================================================================
