---------------------------- MODULE LoopSchedule ----------------------------
(***************************************************************************)
(* When a scheduled job of the loop runs: the scheduler of                 *)
(* src/core/loop/scheduler.ts with its checkpoint, the execution windows   *)
(* of src/core/automation/occurrence-window.ts, and their users in         *)
(* src/core/loop/service.ts: the tick, the run it awaits, the restored     *)
(* prompts and the reconciliation that settles what a crash has left.      *)
(*                                                                         *)
(* One job.  Checkpoint, windows, orders, summaries, ledger and saved      *)
(* prompts are files; the tick dies with the process.  Sessions and leases *)
(* are the subject of SupervisorPool; quiet hours, owner, capacity and     *)
(* resources are one gate here.                                            *)
(***************************************************************************)
EXTENDS Naturals

CONSTANTS Times,        \* when the job's cron fires
          Horizon,      \* end of the clock
          Window,       \* largest offset; 0: no jitter, and no windows are kept
          Lookback,     \* how far back a job that never fired is looked for
          First,        \* checkpoint at the start: 0, or Never
          Never,        \* no checkpoint
          None,         \* no time
          MaxTroubles   \* bound on restarts, closings of the gate, retries and
                        \* removals of the job from the configuration, together

ASSUME ScheduleAssumption ==
  /\ Horizon \in Nat /\ Window \in Nat /\ Lookback \in Nat /\ MaxTroubles \in Nat
  /\ Times \subseteq 1..Horizon
  /\ Never \notin Nat /\ None \notin Nat
  /\ First \in {0, Never}

VARIABLES now,
          lastFired,    \* loop_lastfired.json: the checkpoint
          occ,          \* occurrences.json: the window of each time
          order,        \* the work order of each time
          summary,      \* times whose order has a valid final summary
          ledger,       \* the task ledger
          prompt,       \* prompts in the control queue that no call awaits
          run,          \* the tick
          open,         \* would autonomous work be admitted?
          troubles

vars == <<now, lastFired, occ, order, summary, ledger, prompt, run, open, troubles>>

\* loose: failed, and still recoverable by a late summary.
OrderStates == {"none", "open", "completed", "failed", "loose"}
Closed      == {"settled", "superseded"}
Windows     == [st: {"none", "planned", "admitted"} \cup Closed, nb: Nat]
Stages      == {"idle", "boot", "chosen", "running", "system", "cleanup", "retry"}

Idle == [at |-> "idle", t |-> None, prev |-> Never]
Boot == [Idle EXCEPT !.at = "boot"]

Init == /\ now = 0
        /\ lastFired = First
        /\ occ = [t \in Times |-> [st |-> "none", nb |-> 0]]
        /\ order = [t \in Times |-> "none"]
        /\ summary = {}
        /\ ledger = [t \in Times |-> "none"]
        /\ prompt = [t \in Times |-> "none"]
        /\ run = Idle
        /\ open = TRUE
        /\ troubles = 0

Trouble == troubles < MaxTroubles /\ troubles' = troubles + 1

-----------------------------------------------------------------------------
(* The scheduler *)

\* What scheduledFire looks through, from the checkpoint or, without one, over a
\* bounded time back.
Missed == {t \in Times : /\ t <= now
                         /\ IF lastFired = Never THEN now < t + Lookback + Window
                                                 ELSE lastFired < t}

\* It keeps the last one.
Latest(t) == t \in Missed /\ \A u \in Missed : u <= t

\* Faulty variant: an offset is drawn whenever the window is still planned.
Redrawn(t) ==
  IF Window = 0 \/ occ[t].st \notin {"none", "planned"} THEN {occ}
  ELSE {[u \in Times |-> IF u = t THEN [st |-> "planned", nb |-> t + d]
                         ELSE IF u < t /\ occ[u].st = "planned"
                              THEN [occ[u] EXCEPT !.st = "superseded"] ELSE occ[u]] :
          d \in 0..Window}

\* plan: a new window draws its offset and supersedes the older ones planned.
Plans(t) ==
  IF Window = 0 \/ occ[t].st # "none" THEN {occ}
  ELSE {[u \in Times |-> IF u = t THEN [st |-> "planned", nb |-> t + d]
                         ELSE IF u < t /\ occ[u].st = "planned"
                              THEN [occ[u] EXCEPT !.st = "superseded"] ELSE occ[u]] :
          d \in 0..Window}

\* setStatus.
Status(t, st) ==
  [occ EXCEPT ![t].st = IF @ \in {"none", "superseded"} THEN @ ELSE st]

\* Whoever runs the scheduler plans: a tick that then defers the job, the tick of
\* the reviews, the command line.
Look ==
  /\ \E t \in Times : Latest(t) /\ occ' \in Plans(t)
  /\ UNCHANGED <<now, lastFired, order, summary, ledger, prompt, run, open, troubles>>

\* Faulty variant: only the gate and the clock are asked.
AdmittedByGate(t, o) == open /\ (o[t].st # "none" => o[t].nb <= now)

\* Faulty variant: a window is admitted once only.
AdmittedOnce(t, o) ==
  open /\ o[t].st \in {"none", "planned"} /\ (o[t].st # "none" => o[t].nb <= now)

\* decide, of the windows o.
Admitted(t, o) ==
  open /\ o[t].st \notin Closed /\ (o[t].st # "none" => o[t].nb <= now)

-----------------------------------------------------------------------------
(* The tick *)

\* Up to its first await, the probe of the sessions; orders that are open hold the
\* project.
Choose(t) ==
  /\ run.at = "idle" /\ Latest(t)
  /\ \A u \in Times : order[u] # "open"
  /\ \E o \in Plans(t) : Admitted(t, o) /\ occ' = o
  /\ run' = [at |-> "chosen", t |-> t, prev |-> lastFired]
  /\ UNCHANGED <<now, lastFired, order, summary, ledger, prompt, open, troubles>>

\* Faulty variant: what is deferred counts as fired.
DeferConsuming(t) ==
  /\ ~Admitted(t, occ)
  /\ lastFired' = t
  /\ UNCHANGED <<occ, order, summary, ledger, open, troubles>>

\* admit decides again after the await.
Defer(t) ==
  /\ ~Admitted(t, occ)
  /\ UNCHANGED <<lastFired, occ, order, summary, ledger, open, troubles>>

\* skipDueTarget: a harness run selected with it covers the job.
Skip(t) ==
  /\ lastFired' = t
  /\ ledger' = [ledger EXCEPT ![t] = "done"]
  /\ UNCHANGED <<occ, order, summary, open, troubles>>

\* The assessment before the dispatch finds nothing to do, or blocks.
Refuse(t) ==
  /\ Admitted(t, occ)
  /\ lastFired' = t
  /\ ledger' = [ledger EXCEPT ![t] = "done"]
  /\ occ' = Status(t, "settled")
  /\ UNCHANGED <<order, summary, open, troubles>>

\* revalidate: the gate has closed while the worktree was prepared.
Recant(t) ==
  /\ Admitted(t, occ) /\ Trouble
  /\ open' = FALSE
  /\ occ' = Status(t, "admitted")
  /\ UNCHANGED <<lastFired, order, summary, ledger>>

\* The occurrence chosen is not run.
Pass ==
  /\ run.at = "chosen"
  /\ Defer(run.t) \/ Skip(run.t) \/ Refuse(run.t) \/ Recant(run.t)
  /\ run' = Idle
  /\ UNCHANGED <<now, prompt>>

\* beginLedger, clearLoopRunTerminalArtifacts, and the order; a job whose runner is
\* not an agent has none.
Launch ==
  /\ run.at = "chosen" /\ Admitted(run.t, occ)
  /\ occ' = Status(run.t, "admitted")
  /\ ledger' = [ledger EXCEPT ![run.t] = "running"]
  /\ \/ /\ order' = [order EXCEPT ![run.t] = "open"]
        /\ summary' = summary \ {run.t}
        /\ run' = [run EXCEPT !.at = "running"]
     \/ /\ run' = [run EXCEPT !.at = "system"]
        /\ UNCHANGED <<order, summary>>
  /\ UNCHANGED <<now, lastFired, prompt, open, troubles>>

\* The result, after the dispatch, its revisions and the system gate: the order is
\* written, then a session may have to be ended.
Finish ==
  /\ run.at = "running"
  /\ \/ /\ \E st \in {"completed", "failed"} : order' = [order EXCEPT ![run.t] = st]
        /\ run' = [run EXCEPT !.at = "cleanup"]
        /\ UNCHANGED troubles
     \/ /\ Trouble
        /\ order' = [order EXCEPT ![run.t] = "failed"]
        /\ run' = [run EXCEPT !.at = "retry"]
  /\ UNCHANGED <<now, lastFired, occ, summary, ledger, prompt, open>>

\* A result that stands: the checkpoint moves, and the window is settled.
Consume ==
  /\ run.at \in {"cleanup", "system"}
  /\ lastFired' = run.t
  /\ occ' = Status(run.t, "settled")
  /\ UNCHANGED troubles

\* A result to be retried: restoreLastFired, and the window stays admitted.
Keep ==
  \/ /\ run.at = "retry"
     /\ lastFired' = IF lastFired = run.t THEN run.prev ELSE lastFired
     /\ UNCHANGED <<occ, troubles>>
  \/ /\ run.at = "system" /\ Trouble
     /\ UNCHANGED <<lastFired, occ>>

EndRun ==
  /\ Consume \/ Keep
  /\ ledger' = [ledger EXCEPT ![run.t] = "done"]
  /\ run' = Idle
  /\ UNCHANGED <<now, order, summary, prompt, open>>

-----------------------------------------------------------------------------
(* Workers and restored prompts *)

\* A worker writes its summary whether or not someone waits for it.
WriteSummary(t) ==
  /\ order[t] \notin {"none", "completed"} /\ t \notin summary
  /\ summary' = summary \cup {t}
  /\ UNCHANGED <<now, lastFired, occ, order, ledger, prompt, run, open, troubles>>

\* started, of a restored prompt: whatever has become of its order.
BeginRestored(t) ==
  /\ prompt[t] = "saved" /\ run.at # "boot"
  /\ prompt' = [prompt EXCEPT ![t] = "held"]
  /\ order' = [order EXCEPT ![t] = "open"]
  /\ UNCHANGED <<now, lastFired, occ, summary, ledger, run, open, troubles>>

\* writeRestoredSupervisorReport: no gate, no checkpoint, no ledger.
EndRestored(t) ==
  /\ prompt[t] = "held"
  /\ prompt' = [prompt EXCEPT ![t] = "none"]
  /\ \E st \in {"completed", "failed", "loose"} : order' = [order EXCEPT ![t] = st]
  /\ UNCHANGED <<now, lastFired, occ, summary, ledger, run, open, troubles>>

-----------------------------------------------------------------------------
(* Reconciliation, by the boot, a tick or the Runtime Guardian *)

\* supervisorSessionBusy, which the boot does not ask.
Busy(t) == \/ run.at = "running" /\ run.t = t
           \/ run.at # "boot" /\ prompt[t] # "none"

\* settleSupervisorWorkOrderOutcome, with advanceScheduler.
SettleOrder(t, st) ==
  /\ order' = [order EXCEPT ![t] = st]
  /\ ledger' = [ledger EXCEPT ![t] = "done"]
  /\ lastFired' = t

\* By its summary, or by the revision the gate asks for, which may have to be
\* repeated.
Recover(t) ==
  /\ ~Busy(t) /\ t \in summary /\ order[t] \in {"open", "loose"}
  /\ \/ \E st \in {"completed", "failed"} : SettleOrder(t, st) /\ UNCHANGED troubles
     \/ /\ Trouble
        /\ order' = [order EXCEPT ![t] = "failed"]
        /\ ledger' = [ledger EXCEPT ![t] = "done"]
        /\ UNCHANGED lastFired
  /\ UNCHANGED <<now, occ, summary, prompt, run, open>>

\* A dispatch that never was, a worker without turn, or twelve hours of silence.
Abandon(t) ==
  /\ ~Busy(t) /\ t \notin summary /\ order[t] = "open"
  /\ \E st \in {"failed", "loose"} : SettleOrder(t, st)
  /\ UNCHANGED <<now, occ, summary, prompt, run, open, troubles>>

-----------------------------------------------------------------------------
(* The windows, and the world *)

\* reconcileActiveScheduledKeys: the configuration, read again, lacks the job.
Unschedule ==
  /\ Trouble
  /\ occ' = [t \in Times |-> IF occ[t].st \in {"planned", "admitted"}
                             THEN [occ[t] EXCEPT !.st = "settled"] ELSE occ[t]]
  /\ UNCHANGED <<now, lastFired, order, summary, ledger, prompt, run, open>>

\* reconcileFromLedger: the record's repair has ended.
SettleFromLedger(t) ==
  /\ ledger[t] = "done" /\ occ[t].st \in {"planned", "admitted"}
  /\ occ' = [occ EXCEPT ![t].st = "settled"]
  /\ UNCHANGED <<now, lastFired, order, summary, ledger, prompt, run, open, troubles>>

Advance ==
  /\ now < Horizon
  /\ now' = now + 1
  /\ UNCHANGED <<lastFired, occ, order, summary, ledger, prompt, run, open, troubles>>

\* Quiet hours, the owner's activity, capacity, resources, and busy sessions.
Close ==
  /\ open /\ Trouble
  /\ open' = FALSE
  /\ UNCHANGED <<now, lastFired, occ, order, summary, ledger, prompt, run>>

Reopen ==
  /\ ~open
  /\ open' = TRUE
  /\ UNCHANGED <<now, lastFired, occ, order, summary, ledger, prompt, run, troubles>>

\* The process ends; a prompt not yet consumed is in the queue's file.
Restart ==
  /\ Trouble
  /\ run' = Boot
  /\ \E kept \in SUBSET {run.t} :
       prompt' = [t \in Times |-> IF t \in kept /\ run.at = "running" THEN "saved"
                                  ELSE IF prompt[t] = "held" THEN "none" ELSE prompt[t]]
  /\ UNCHANGED <<now, lastFired, occ, order, summary, ledger, open>>

\* The queue is restored without the prompts of finished work.
EndBoot ==
  /\ run.at = "boot"
  /\ run' = Idle
  /\ prompt' = [t \in Times |-> IF t \in summary THEN "none" ELSE prompt[t]]
  /\ UNCHANGED <<now, lastFired, occ, order, summary, ledger, open, troubles>>

-----------------------------------------------------------------------------

Ticks      == \E t \in Times : Choose(t)
Running    == Pass \/ Launch \/ Finish \/ EndRun \/ EndBoot
Restoring  == \E t \in Times : BeginRestored(t) \/ EndRestored(t)
Reconciles == \E t \in Times : Recover(t) \/ Abandon(t)

Chance == \/ Look \/ Unschedule \/ Close \/ Restart
          \/ \E t \in Times : WriteSummary(t) \/ SettleFromLedger(t)

Next == Ticks \/ Running \/ Restoring \/ Reconciles \/ Advance \/ Reopen \/ Chance

Spec == Init /\ [][Next]_vars

\* The timers go on, what has been begun ends, and the gate opens again.
FairSpec == /\ Spec
            /\ WF_vars(Ticks) /\ WF_vars(Running) /\ WF_vars(Restoring)
            /\ WF_vars(Reconciles) /\ WF_vars(Advance) /\ WF_vars(Reopen)

-----------------------------------------------------------------------------
(* Properties *)

TypeOK ==
  /\ now \in 0..Horizon
  /\ lastFired \in Times \cup {First}
  /\ occ \in [Times -> Windows]
  /\ order \in [Times -> OrderStates]
  /\ summary \subseteq Times
  /\ ledger \in [Times -> {"none", "running", "done"}]
  /\ prompt \in [Times -> {"none", "saved", "held"}]
  /\ run \in [at: Stages, t: Times \cup {None}, prev: Times \cup {First, Never}]
  /\ open \in BOOLEAN
  /\ troubles \in 0..MaxTroubles

Newest(t) == t <= now /\ \A u \in Times : u <= now => u <= t

\* A deferral does not consume the schedule: while the gate is closed, the newest
\* time that is due and has no record stays due, until it gets one or a newer time
\* comes (docs/automation-alignment.md:824-827, docs/manual.md:874-876).
DeferredStaysDue ==
  [][\A t \in Times :
        ~open /\ Newest(t) /\ t \in Missed /\ ledger[t] = "none"
          => ledger'[t] # "none" \/ ~Newest(t)' \/ (t \in Missed)']_vars

Launched(t) == run.at = "chosen" /\ run.t = t /\ run'.at \in {"running", "system"}

\* Missed times coalesce to the latest: no run begins for a time older than one
\* already handled, nor for one whose window is closed, however the checkpoint has
\* moved between the tick's looking and its running.
RunsTheNewest ==
  [][\A t \in Times : Launched(t) =>
        /\ occ[t].st \notin Closed
        /\ \A u \in Times : ledger[u] # "none" => u <= t]_vars

\* A window is drawn once and outlives restarts; once closed it stays closed.
DecidedOnce ==
  [][\A t \in Times : /\ occ[t].st # "none" => occ'[t].nb = occ[t].nb
                      /\ occ[t].st \in Closed => occ'[t] = occ[t]]_vars

\* Every time of the job is handled in the end, or replaced by a newer one that is:
\* the checkpoint reaches it, or the window of one of them is settled.
DueIsHandled ==
  \A t \in Times :
    (now >= t) ~> (\/ lastFired # Never /\ lastFired >= t
                   \/ \E u \in Times : u >= t /\ occ[u].st = "settled")

\* Accepted work is not done again.
CompletedStands ==
  [][\A t \in Times : order[t] = "completed" => order'[t] = "completed"]_vars

\* The checkpoint only advances (docs/intelligent-automation.md:116-118).
CheckpointAdvances == [][lastFired # Never => lastFired' >= lastFired]_vars
=============================================================================
