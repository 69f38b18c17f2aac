------------------------ MODULE RepositoryReviewQueue ------------------------
(***************************************************************************)
(* The durable queue of repository reviews and its only consumer:          *)
(* RepositoryReviewQueue (src/core/loop/repository-review-queue.ts) and,   *)
(* of src/core/loop/service.ts, the review tick, the drain of the queue,   *)
(* its two reconciliations and the reconciler of work orders.              *)
(*                                                                         *)
(* Queue, work orders, worker leases and ledger are files; the drain dies  *)
(* with its process; the worker of a review works on in tmux.  A time in   *)
(* the future is a level: 1 is at most the fifteen minutes after which a   *)
(* capacity deferral counts as stale, 2 is later.  All reviews have the    *)
(* same priority, and a review is its scheduled time.                      *)
(*                                                                         *)
(* A work order stays in the registry until it is settled, but is listed   *)
(* as unfinished only until its worker has written a valid final summary,  *)
(* or it is 12 hours old, or 5 minutes old with an invalid summary: the    *)
(* orders of reviews have no journal of delegation.  Reviews work in       *)
(* isolated worktrees, so that a lease does not name the repository.       *)
(***************************************************************************)
EXTENDS Naturals, FiniteSets

CONSTANTS Reviews,      \* occurrences of repository reviews, by scheduled time
          RepoOf,       \* [Reviews -> the repository reviewed]
          Sessions,     \* number of supervisor sessions
          MaxAttempts,  \* REPOSITORY_REVIEW_MAX_ATTEMPTS
          MaxTroubles   \* bound on the restarts, refusals of the admission,
                        \* dispatches that time out or throw, and queue leases
                        \* that outlive their 24 hours, together

ASSUME ReviewAssumption ==
  /\ Reviews \subseteq Nat /\ IsFiniteSet(Reviews)
  /\ DOMAIN RepoOf = Reviews
  /\ Sessions \in Nat \ {0} /\ MaxAttempts \in Nat \ {0}
  /\ MaxTroubles \in Nat

VARIABLES item,     \* the queue: status, attempt, time left, error, owner, ...
          order,    \* [Reviews -> its work order: none, listed as unfinished
                    \* ("open"), not listed for its summary ("reported") or its
                    \* age ("old"), or settled with a result]
          leased,   \* reviews whose work order has its active worker lease
          turn,     \* reviews a worker works on
          stray,    \* reviews a worker works on after its dispatch timed out, or
                    \* another was launched beside it
          ledger,   \* [Reviews -> its record in the task ledger]
          call,     \* [Reviews -> the drain's call for it]
          drain,    \* where the drain is, what it found due and active
          troubles

vars == <<item, order, leased, turn, stray, ledger, call, drain, troubles>>

Waiting  == {"pending", "retry-wait"}
Terminal == {"completed", "blocked", "manual-review", "dead-letter"}
Status   == {"absent", "running"} \cup Waiting \cup Terminal

\* A work order in the registry that is not settled, listed or not.
Unsettled == {"open", "reported", "old"}

\* What became of a work order.
Results == {"completed", "blocked", "failed"}

\* "capacity" is a deferral for an exhausted capacity, "blocked result" and
\* "failed result" are written for a terminal work order.
Errors == {"capacity", "other", "blocked result", "failed result"}

\* The process that wrote a lease: this one, this one with the lease's 24 hours
\* gone, or one that exited.
Owners == {"none", "live", "late", "dead"}

Attempts == 0..MaxAttempts
Waits    == 0..2

Items == [st: Status, attempt: Attempts, wait: Waits, err: Errors,
          owner: Owners, migrated: BOOLEAN]

Absent == [st |-> "absent", attempt |-> 0, wait |-> 0, err |-> "other",
           owner |-> "none", migrated |-> FALSE]

NotDraining == [at |-> "idle", due |-> {}, active |-> {}]

Init == /\ item = [r \in Reviews |-> Absent]
        /\ order = [r \in Reviews |-> "none"]
        /\ leased = {} /\ turn = {} /\ stray = {}
        /\ ledger = [r \in Reviews |-> "open"]
        /\ call = [r \in Reviews |-> "none"]
        /\ drain = NotDraining
        /\ troubles = 0

-----------------------------------------------------------------------------
(* The operations of the queue on one item *)

\* Nothing reads the error, the time or the owner of a terminal item.
Close(i, st) ==
  [i EXCEPT !.st = st, !.wait = 0, !.err = "other", !.owner = "none"]

Exhausted(i) == i.attempt >= MaxAttempts

Delay(attempt) == IF attempt <= 1 THEN 1 ELSE 2

RetryWait(i, wait, err) ==
  IF Exhausted(i) THEN Close(i, "dead-letter")
  ELSE [i EXCEPT !.st = "retry-wait", !.wait = wait, !.err = err,
                 !.owner = "none"]

Lapsed(i) == i.st = "running" /\ i.owner \in {"late", "dead"}

\* deadLetterExhausted and reclaimExpiredLeases: before every lease and list.
Swept(i) ==
  IF Exhausted(i) /\ (i.st \in Waiting \/ Lapsed(i)) THEN Close(i, "dead-letter")
  ELSE IF Lapsed(i)
  THEN [i EXCEPT !.st = "pending", !.wait = 0, !.owner = "none"]
  ELSE i

\* list: reopenStaleCapacityExhaustedDeferrals first.
Listed(i) ==
  IF i.st \in Waiting /\ ~Exhausted(i) /\ i.wait = 2 /\ i.err = "capacity"
  THEN [i EXCEPT !.wait = 0, !.err = "other"]
  ELSE Swept(i)

\* lease of a due item, and markRunning right after it.  The error it keeps is
\* read by nobody until it is written again.
Taken(i) == [i EXCEPT !.st = "running", !.attempt = i.attempt + 1,
                      !.err = "other", !.owner = "live"]

Due(i) == i.st \in Waiting /\ i.wait = 0

Owned(i) == i.st = "running" /\ i.owner \in {"live", "late"}

\* Faulty variant: a late result is taken from whoever brings it.
ReportedByAnyone(i, st) ==
  IF st \in Terminal THEN Close(i, st) ELSE RetryWait(i, Delay(i.attempt), "other")

\* complete, manualReview, retry and fail: by the owner only.
Reported(i, st) ==
  IF ~Owned(i) THEN i
  ELSE IF st \in Terminal THEN Close(i, st) ELSE RetryWait(i, Delay(i.attempt), "other")

ResultError(result) == IF result = "blocked" THEN "blocked result" ELSE "failed result"

\* Faulty variant: the same terminal work order puts its item back at each drain.
RetryOccurrenceAlways(i, result, wait) ==
  IF i.st \in Terminal \cup {"absent"} THEN i
  ELSE RetryWait(i, wait, ResultError(result))

\* retryOccurrence: whoever owns the item.
RetryOccurrence(i, result, wait) ==
  IF i.st \in Terminal \cup {"absent"}
     \/ (i.st = "retry-wait" /\ i.err = ResultError(result) /\ ~Exhausted(i))
  THEN i
  ELSE RetryWait(i, wait, ResultError(result))

CompleteOccurrence(i, st) == IF i.st \in Terminal \cup {"absent"} THEN i ELSE Close(i, st)

\* reopenTerminal.
Reopened(i) == [i EXCEPT !.st = "retry-wait", !.attempt = 0, !.wait = 0,
                         !.err = "other", !.migrated = TRUE]

-----------------------------------------------------------------------------
(* The reconciliations at the head of a drain, on one item *)

Adoptable(r) == order[r] = "open" /\ r \in leased

\* reconcileRepositoryReviewQueueWorkOrders, unfinished work orders: the item of
\* one that holds its worker lease is taken, at the price of an attempt, unless
\* this process has it already.  Taking one sweeps the whole queue.
Adopted(r) ==
  LET swept == Swept(item[r]) IN
  IF \A s \in Reviews : Adoptable(s) => Owned(item[s]) THEN item[r]
  ELSE IF Adoptable(r) /\ Due(swept) THEN Taken(swept) ELSE swept

\* canRecoverTerminal: once, and not beside a newer review of the repository.
Recoverable ==
  {r \in Reviews :
     /\ order[r] \in Results \ {"completed"}
     /\ Listed(Adopted(r)).st \in {"manual-review", "dead-letter"}
     /\ ~item[r].migrated
     /\ \A s \in Reviews : RepoOf[s] = RepoOf[r] /\ s > r
                           => Listed(Adopted(s)).st \in Terminal \cup {"absent"}}

\* The same, terminal work orders: an item at a dead end whose pull requests are
\* open still is reopened, one whose pull requests are closed is completed, and
\* then the result is passed on.
Resettled(r, i, reopen, close) ==
  IF order[r] \notin Results THEN i
  ELSE IF order[r] = "completed" THEN CompleteOccurrence(i, "completed")
  ELSE IF r \in close THEN [Close(i, "completed") EXCEPT !.migrated = TRUE]
  ELSE RetryOccurrence(IF r \in reopen THEN Reopened(i) ELSE i,
                       order[r], Delay(i.attempt))

\* reconcileRepositoryReviewQueueLedgerClosures.
ClosedByLedger(r, i) ==
  IF ledger[r] = "success" THEN CompleteOccurrence(i, "completed")
  ELSE IF ledger[r] = "blocked" THEN CompleteOccurrence(i, "blocked")
  ELSE i

-----------------------------------------------------------------------------
(* The review tick *)

Idle == drain.at = "idle"

\* A tick whose scheduler finds the occurrence due.  The drain follows.
Enqueue(r) ==
  /\ Idle /\ item[r] = Absent
  /\ item' = [item EXCEPT ![r].st = "pending"]
  /\ UNCHANGED <<order, leased, turn, stray, ledger, call, drain, troubles>>

Deferrals == [wait: {1, 2}, err: {"capacity", "other"}]

Deferred(i, deferral) == [i EXCEPT !.wait = deferral.wait, !.err = deferral.err]

\* A tick whose admission is refused for all: no drain, and every item is put
\* off that would be due earlier; within a level either may be earlier.
DeferAll ==
  \E deferral \in Deferrals :
    LET level(w) == {r \in Reviews : Listed(item[r]).st \in Waiting
                                     /\ Listed(item[r]).wait = w}
        earlier == UNION {level(w) : w \in 0 .. deferral.wait - 1}
    IN \E same \in SUBSET level(deferral.wait) :
      /\ Idle /\ troubles < MaxTroubles
      /\ item' = [r \in Reviews |-> IF r \in earlier \cup same
                                    THEN Deferred(Listed(item[r]), deferral)
                                    ELSE Listed(item[r])]
      /\ item' # item
      /\ troubles' = troubles + 1
      /\ UNCHANGED <<order, leased, turn, stray, ledger, call, drain>>

\* Faulty variant: a repository counts as busy by its item, not by its work order.
ActiveByItem == {RepoOf[r] : r \in {s \in Reviews : item[s].st = "running"}}

\* Repositories of the work orders that are listed as unfinished.
ActiveRepositories == {RepoOf[r] : r \in {s \in Reviews : order[s] = "open"}}

\* drainRepositoryReviewQueue up to its await for available sessions.  What it
\* finds due by its own clock, read at the tick's start, excludes what its
\* listings reclaim or reopen at the later Date.now().
StartDrain ==
  \E reopen \in SUBSET Recoverable : \E close \in SUBSET (Recoverable \ reopen) :
    /\ Idle
    /\ item' = [r \in Reviews |->
                  ClosedByLedger(r, Resettled(r, Listed(Adopted(r)), reopen, close))]
    /\ drain' = [at |-> "wait",
                 due |-> {r \in Reviews : Due(Adopted(r))},
                 active |-> ActiveRepositories]
    /\ UNCHANGED <<order, leased, turn, stray, ledger, call, troubles>>

\* Sessions neither reserved by the registry or a lease nor found at work.
Occupied == Cardinality(turn) + Cardinality(stray)
            + Cardinality({r \in Reviews \ turn : order[r] = "open" \/ r \in leased})
Free == IF Sessions > Occupied THEN Sessions - Occupied ELSE 0

Ready == {r \in drain.due : Due(item[r])}

\* No session is available, or nothing is ready or free of conflicts.
NothingToRun ==
  /\ drain.at = "wait"
  /\ item' = [r \in Reviews |-> Listed(item[r])]
  /\ drain' = NotDraining
  /\ UNCHANGED <<order, leased, turn, stray, ledger, call, troubles>>

Oldest(n) == {r \in Ready : Cardinality({s \in Ready : s < r}) < n}

\* listReady for as many sessions as are available, then the conflict planner.
Selected(n) == {r \in Oldest(n) :
                  /\ RepoOf[r] \notin drain.active
                  /\ \A s \in Oldest(n) : s < r => RepoOf[s] # RepoOf[r]}

\* For each review selected either a lease (its call begins) or, when the
\* admission refuses it, deferReady.
RunBatch ==
  \E n \in 1..Free : \E refused \in SUBSET Selected(n), deferral \in Deferrals :
    /\ drain.at = "wait" /\ Selected(n) # {}
    /\ refused = {} => deferral = [wait |-> 1, err |-> "other"]
    /\ refused # {} => troubles < MaxTroubles
    /\ troubles' = troubles + (IF refused = {} THEN 0 ELSE 1)
    /\ item' = [r \in Reviews |->
                  IF r \in refused THEN Deferred(item[r], deferral)
                  ELSE IF r \in Selected(n) THEN Taken(item[r]) ELSE Listed(item[r])]
    /\ call' = [r \in Reviews |->
                  IF r \in Selected(n) \ refused THEN "admit" ELSE call[r]]
    /\ drain' = IF Selected(n) = refused THEN NotDraining ELSE [NotDraining EXCEPT !.at = "run"]
    /\ UNCHANGED <<order, leased, turn, stray, ledger>>

\* The drain ends with its last call.
AfterCall(r) == drain' = IF \A s \in Reviews \ {r} : call[s] = "none"
                         THEN NotDraining ELSE drain

\* Faulty variant: the refused call forgets its item.
RefuseCallForgets(r) ==
  /\ call[r] = "admit" /\ troubles < MaxTroubles
  /\ troubles' = troubles + 1
  /\ call' = [call EXCEPT ![r] = "none"]
  /\ AfterCall(r)
  /\ UNCHANGED <<item, order, leased, turn, stray, ledger>>

\* The admission, asked once more, refuses: retry.
RefuseCall(r) ==
  /\ call[r] = "admit" /\ troubles < MaxTroubles
  /\ troubles' = troubles + 1
  /\ item' = [item EXCEPT ![r] = IF Owned(@) THEN RetryWait(@, 1, "other") ELSE @]
  /\ call' = [call EXCEPT ![r] = "none"]
  /\ AfterCall(r)
  /\ UNCHANGED <<order, leased, turn, stray, ledger>>

\* runSupervisedDue: the ledger, the worker lease and the work order, whose old
\* summary is removed.  Without its lease, or without a worktree, the order fails
\* at once.  A worker that went on under the old order has another one beside it,
\* or is forgotten.
Dispatch(r) ==
  /\ call[r] = "admit"
  /\ ledger' = [ledger EXCEPT ![r] = IF @ \in {"success", "blocked"}
                                     THEN @ ELSE "open"]
  /\ order' = [order EXCEPT ![r] = "open"]
  /\ \/ /\ leased' = leased \cup {r} /\ turn' = turn \cup {r}
     \/ /\ leased' = leased \ {r} /\ turn' = turn \ {r}
  /\ stray' = stray \cup ({r} \cap turn)
  /\ call' = [call EXCEPT ![r] = "turn"]
  /\ UNCHANGED <<item, drain, troubles>>

\* A worker writes its final summary, and may go on.  A stray writes to the same
\* file as the worker launched after it.
Summarize(r) ==
  /\ r \in turn \cup stray /\ order[r] \in {"open", "old"}
  /\ order' = [order EXCEPT ![r] = "reported"]
  /\ UNCHANGED <<item, leased, turn, stray, ledger, call, drain, troubles>>

\* Twelve hours, or five minutes with an invalid summary.
Age(r) ==
  /\ order[r] = "open" /\ call[r] = "none"
  /\ order' = [order EXCEPT ![r] = "old"]
  /\ UNCHANGED <<item, leased, turn, stray, ledger, call, drain, troubles>>

EndTurn(r) ==
  /\ \/ /\ r \in turn /\ turn' = turn \ {r} /\ stray' = stray
     \/ /\ r \in stray /\ stray' = stray \ {r} /\ turn' = turn
  /\ UNCHANGED <<item, order, leased, ledger, call, drain, troubles>>

\* The record of a run that ends: a blocked result closes its repair.
Recorded(result) == IF result = "completed" THEN "success"
                    ELSE IF result = "blocked" THEN "blocked" ELSE "failed"

SettleOrder(r, result) ==
  /\ order' = [order EXCEPT ![r] = result]
  /\ leased' = leased \ {r}
  /\ ledger' = [ledger EXCEPT ![r] = Recorded(result)]

\* The call's run ends: report, state, lease and ledger; its worker session is
\* cleaned up before the drain hears of it.  The per-PR decisions behind a
\* blocked result ask for another review or for a human.
Settle(r) ==
  \E result \in Results, decided \in {"report", "report manual"} :
    /\ call[r] = "turn" /\ r \notin turn
    /\ r \notin leased => result = "failed"
    /\ decided = "report manual" => result = "blocked"
    /\ SettleOrder(r, result)
    /\ call' = [call EXCEPT ![r] = decided]
    /\ UNCHANGED <<item, turn, stray, drain, troubles>>

\* dispatch-timeout: the run is given up, the worker is not stopped.
Timeout(r) ==
  /\ call[r] = "turn" /\ r \in turn /\ r \notin stray
  /\ troubles < MaxTroubles
  /\ troubles' = troubles + 1
  /\ SettleOrder(r, "failed")
  /\ turn' = turn \ {r} /\ stray' = stray \cup {r}
  /\ call' = [call EXCEPT ![r] = "report"]
  /\ UNCHANGED <<item, drain>>

\* The drain hears of the result.
Report(r) ==
  /\ call[r] \in {"report", "report manual"}
  /\ item' = [item EXCEPT ![r] =
                Reported(@, IF call[r] = "report manual" THEN "manual-review"
                            ELSE IF order[r] = "completed" THEN "completed" ELSE "retry-wait")]
  /\ call' = [call EXCEPT ![r] = "none"]
  /\ AfterCall(r)
  /\ UNCHANGED <<order, leased, turn, stray, ledger, troubles>>

\* The run throws: the item is retried, the work order stays as it is.
Throw(r) ==
  /\ call[r] = "turn" /\ troubles < MaxTroubles
  /\ troubles' = troubles + 1
  /\ item' = [item EXCEPT ![r] = Reported(@, "retry-wait")]
  /\ call' = [call EXCEPT ![r] = "none"]
  /\ AfterCall(r)
  /\ UNCHANGED <<order, leased, turn, stray, ledger>>

-----------------------------------------------------------------------------
(* Others *)

\* reconcileLoopSupervisorWorkOrders and reconcileTerminalSupervisorResources, for
\* an order that no call of this process waits for: by its summary, though the
\* worker may still go on; as abandoned by its age; or as timed out, when it is
\* listed and its worker stopped.
Recover(r) ==
  \E result \in Results :
    /\ call[r] = "none"
    /\ \/ order[r] = "reported"
       \/ order[r] = "old" /\ result = "failed"
       \/ order[r] = "open" /\ r \notin turn /\ result = "failed"
    /\ SettleOrder(r, result)
    /\ UNCHANGED <<item, turn, stray, call, drain, troubles>>

\* The repair of a failed run succeeds, which counts as its success.
Repair(r) ==
  /\ ledger[r] = "failed"
  /\ ledger' = [ledger EXCEPT ![r] = "success"]
  /\ UNCHANGED <<item, order, leased, turn, stray, call, drain, troubles>>

\* The dashboard or a delegation lists the queue.
Overview ==
  /\ item' = [r \in Reviews |-> Listed(item[r])] /\ item' # item
  /\ UNCHANGED <<order, leased, turn, stray, ledger, call, drain, troubles>>

Elapse(r) ==
  /\ item[r].st \in Waiting /\ item[r].wait > 0
  /\ item' = [item EXCEPT ![r].wait = @ - 1]
  /\ UNCHANGED <<order, leased, turn, stray, ledger, call, drain, troubles>>

\* A queue lease outlives its 24 hours: the host may have slept.
Overdue(r) ==
  /\ item[r].st = "running" /\ item[r].owner = "live" /\ troubles < MaxTroubles
  /\ troubles' = troubles + 1
  /\ item' = [item EXCEPT ![r].owner = "late"]
  /\ UNCHANGED <<order, leased, turn, stray, ledger, call, drain>>

Restart ==
  /\ troubles < MaxTroubles
  /\ troubles' = troubles + 1
  /\ item' = [r \in Reviews |->
                IF item[r].owner = "none" THEN item[r] ELSE [item[r] EXCEPT !.owner = "dead"]]
  /\ call' = [r \in Reviews |-> "none"]
  /\ drain' = NotDraining
  /\ UNCHANGED <<order, leased, turn, stray, ledger>>

Next == \/ \E r \in Reviews :
             \/ Enqueue(r) \/ RefuseCall(r) \/ Dispatch(r) \/ EndTurn(r)
             \/ Settle(r) \/ Timeout(r) \/ Report(r) \/ Throw(r)
             \/ Summarize(r) \/ Age(r) \/ Recover(r) \/ Repair(r) \/ Elapse(r) \/ Overdue(r)
        \/ DeferAll \/ StartDrain \/ NothingToRun \/ RunBatch
        \/ Overview \/ Restart

Spec == Init /\ [][Next]_vars

Proceed(r) == Elapse(r) \/ EndTurn(r) \/ Dispatch(r) \/ Settle(r) \/ Report(r) \/ Recover(r)

\* Ticks are timers, turns and calls end, sessions become available again and
\* again, and the boot and every main tick reconcile the work orders.
FairSpec ==
  /\ Spec
  /\ WF_vars(StartDrain) /\ SF_vars(RunBatch) /\ WF_vars(NothingToRun)
  /\ \A r \in Reviews : WF_vars(Proceed(r))

-----------------------------------------------------------------------------
(* Properties *)

TypeOK == /\ item \in [Reviews -> Items]
          /\ order \in [Reviews -> {"none"} \cup Unsettled \cup Results]
          /\ leased \subseteq Reviews /\ turn \subseteq Reviews /\ stray \subseteq Reviews
          /\ ledger \in [Reviews -> {"open", "failed", "success", "blocked"}]
          /\ call \in [Reviews -> {"none", "admit", "turn", "report", "report manual"}]
          /\ drain \in [at: {"idle", "wait", "run"}, due: SUBSET Reviews,
                       active: SUBSET {RepoOf[r] : r \in Reviews}]
          /\ troubles \in 0..MaxTroubles

\* A review is not launched again while the work order of an earlier launch is
\* listed as unfinished, not after a restart, an exception or a lease that outlived
\* its time: the order is adopted or settled first (service.ts:1344-1400).
LaunchedOverNothing ==
  [][\A r \in Reviews : call[r] = "admit" /\ call'[r] = "turn"
                        => order[r] # "open"]_vars

\* The same for every order that is not settled: no launch removes the summary of
\* a worker before anybody has read it.
SummaryIsRead ==
  [][\A r \in Reviews : call[r] = "admit" /\ call'[r] = "turn"
                        => order[r] \notin Unsettled]_vars

\* What may become of an item: a completed or blocked one stays as it is, and one
\* at another dead end changes once at most.
Stands(i, j) ==
  /\ i.st \in {"completed", "blocked"} => j = i
  /\ i.st \in {"manual-review", "dead-letter"} /\ j # i => ~i.migrated /\ j.migrated
  /\ i.migrated => j.migrated

\* A decision stands: no late result, listing, reconciliation or restart
\* reopens a completed or blocked review, and a manual or dead-lettered one is
\* reopened at most once (canRecoverTerminal).
DecisionsStand == [][\A r \in Reviews : Stands(item[r], item'[r])]_vars

\* A running item has someone who will move it: the drain's call for it, or a
\* work order.
NoStrandedReview ==
  \A r \in Reviews : Owned(item[r]) => call[r] # "none" \/ order[r] # "none"

\* Workers whose order is listed: neither reported, nor given up for its age.
Reviewing == {r \in turn : order[r] = "open"}

\* No two workers that have not reported review one repository: the conflict
\* planner judges by what the drain read before it awaited the sessions
\* (service.ts:1350-1400).
OneReviewPerRepository ==
  \A r, s \in Reviewing : RepoOf[r] = RepoOf[s] => r = s

\* Every enqueued review is settled.
ReviewSettles ==
  \A r \in Reviews : item[r].st # "absent" ~> item[r].st \in Terminal

\* Two workers never process one occurrence (docs/superpowers/specs/
\* 2026-08-07-repository-pr-auto-resolution-design.md:53).
OneWorker == turn \cap stray = {}

\* A review whose decisions ask for a retry is retried: no item that waits for
\* its retry is closed as blocked (the same document, lines 45-47).
RetryIsRetried ==
  [][\A r \in Reviews : item[r].st = "retry-wait" => item'[r].st # "blocked"]_vars
=============================================================================
