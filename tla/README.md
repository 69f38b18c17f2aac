# A TLA+ verification of tmux-claude-bot

tmux-claude-bot drives coding agents (Claude Code, Codex) that run in tmux
sessions, from chats (Telegram, Lark), from a local command line and on its own
initiative: *Loop Engineering* gives supervised work orders to agents at due
times, and *delegations* hand longer tasks to them. One Node.js process serves
at a time; its state lives in memory, in JSON files under the state directory,
and in the tmux sessions, which outlive it.

This directory holds TLA+ modules that model the parts of the program where its
correctness is decided by interleavings, crashes and timers, configurations that
model-check them with TLC, and theorems about them whose proofs TLAPS checks.
Paths in this file are relative to the repository's root; most of them start
with `src/core`, and `queue.ts:480` means line 480 of the file named before.
`PROJECT.json` maps every definition that models code to the lines it models.

1. [Inventory](#1-inventory) of the system and of what makes it hard
2. [Modules](#2-modules) and how they correspond to the code
3. [Runs](#3-runs): what is checked, within which bounds and fairness
4. [Proofs](#4-proofs): what is proved, from which assumptions, along which argument
5. [Findings](#5-findings): where the code and its documentation disagree
6. [Limits](#6-limits): what is only checked, what is abstracted, what is left out
7. [Plan](#7-plan) for the parts still to be modelled

## 1. Inventory

A callback of Node.js runs to completion: between two `await`s nothing else of
the same process happens. Hazards lie therefore (a) at awaits, where state read
before is used after, (b) between the file operations of *several* processes
(two bots, the command line tool, helper scripts), and (c) in crashes, which
keep files and tmux sessions and lose memory.

### The core

**Message queue** (`src/core/command/queue.ts`, `queue-restore.ts`,
`queue-message.ts`; `src/shared/utils/queue.ts`).
*State*: one FIFO per project session and a global one, the sets of sessions in
progress, the message in flight per lane, retry timers, the mirror
`pending.json` with a write due on the next tick, the carryover of entries that
could not be restored.
*Operations*: `enqueue`, `processSession`/`processGlobal`, the idle gate, the
start hook, the handler, `cancelQueued`, `clearSession`, `setQueueAck` and
`rewriteByAck`, `persist`/`flushPending`, restore and carryover.
*Interactions*: chat adapters, control server, Loop Engineering and delegations
enqueue; the handler types into tmux; the start hook of a supervised prompt
claims its delegation attempt.
*Hard*: every use of state across the awaits of gate and handler; timers that
must not strand a lane; crashes between dequeue, write and handler; messages
that arrive before the backlog has been restored.
*Correct means*: a lane is worked on by one call at a time, within the limit of
concurrent sessions; no lane is stranded; every accepted message is answered and
none is typed twice; messages of a session are served in order; no prompt is
queued twice; the file follows the memory.

**Delegation journal** (`src/core/loop/delegation-attempt.ts`, with its callers
`agent-queue.ts`, `supervisor-work-restore.ts`, `delegation-recovery.ts`).
*State*: write-once files per work order: the chain `first.json`,
`<attempt>/next.json` and the events `prepared`, `started`, `settled`.
*Operations*: prepare, claim, settle, settle an expired attempt.
*Interactions*: live dispatch, restored queue messages and the reconciliation
timer, in this process and in its successor.
*Hard*: several callers between each other's reads and publications; a crash
after any file; a deadline beside a late answer.
*Correct means*: one open attempt per work order; an attempt is run at most
once; only a run attempt succeeds; a settlement is final; attempts do get settled.

**Autonomous capacity** (`src/core/automation/{coordinator,capacity,
capacity-store,admission}.ts`, used by `src/core/loop/service.ts` and
`src/core/autopilot/delegated-task.ts`).
*State*: per agent, the last observation of its usage limits and the leases of
heavy work, in a file; the operations that hold leases, in memory; unfinished
work orders, in a registry file; their workers, in tmux.
*Operations*: observe, admit, acquire, settle, reconcile the leases at boot and
in every tick.
*Hard*: two ticks, the operator and a repair ask for one agent; leases survive
a crash, operations do not, workers do.
*Correct means*: background work is serialized per agent; an unfinished order
keeps its lease, which the code looks for by the agent and the key it derives from
the order; a lease nobody uses is given back.

**Single-instance lock** (`src/core/infra/instance-lock.ts`, `src/index.ts`).
*State*: a file that names the serving bot's pid. *Operations*: acquire
(exclusive create, read, probe of the pid, removal of a stale file, second
attempt) and release. *Hard*: other starters between any two operations, recycled
pids, crashes, and `ps`, by which a bot is told from other programs and which may
fail. *Correct means*: one bot serves; a stale file never keeps it down.

**JSON map store** (`src/core/infra/json-map-store.ts`,
`src/shared/utils/atomic-write.ts`), the base of most other persistent state.
*State*: the file, a lock file, per process a cache keyed by the file's identity.
*Operations*: get, set, update, delete. *Hard*: other processes between any two
file operations; a lock whose owner died; a read that fails. *Correct means*: no
process's change is lost, no cache lies, an orphaned lock goes away.

**Repository review queue** (`src/core/loop/repository-review-queue.ts`, consumed
by `src/core/loop/service.ts`).
*State*: an item per due review with status, attempts, next attempt, lease; beside
it the work order of its launch, the lease of its worker and its record in the
task ledger, each in a file of its own.
*Operations*: enqueue, lease, defer, report, sweep of exhausted and lapsed items,
re-opening; the drain that launches reviews, and at its head two reconciliations,
from the work orders and from the ledger.
*Hard*: four records that are written one after the other and reconciled from each
other; workers that go on after a restart, an exception or a timeout; five places
that compare the attempt with its limit.
*Correct means*: a repository is not reviewed twice at a time; a review is not
launched over an unfinished one; a decision stands; every review is settled.

**Supervisor worker pool** (`src/core/loop/supervisor-pool.ts`,
`supervisor-state.ts`, `supervisor-active-resources.ts`,
`supervisor-resource-reconciliation.ts`, `supervised-runner.ts`, `service.ts`).
*State*: leases of worker sessions (active, retained), the state of each work
order and its final summary, in files; reservations and calls, in memory; agents,
in tmux.
*Operations*: reserve, lease, run, revise, settle and release; the passes that
reconcile orders with leases, at boot, in each tick and for the Runtime Guardian.
*Hard*: passes read a registry, await probes and revisions, and settle from what
they read; delegations do not know of reservations; prompts restored after a
crash run without a call that waits for them.
*Correct means*: a call keeps its worker; an accepted order stays accepted; every
order ends; every worker is given back.

**Loop scheduler and occurrences** (`src/core/loop/scheduler.ts`,
`schedule-jitter.ts`, `supervisor-dispatch-plan.ts`, the ticks of `service.ts`;
`src/core/automation/occurrence-window.ts`, `admission.ts`).
*State*: per job the time last fired (the checkpoint, `loop_lastfired.json`); per
due time its window, with an offset drawn at random and a status
(`occurrences.json`), its work order, its record in the task ledger, perhaps a
prompt saved with the queue; the tick in progress, in memory.
*Operations*: look for the latest time missed, plan its window, decide, run,
consume or keep the checkpoint; settle orders by late summaries; settle windows
from the ledger and from the configuration.
*Hard*: the time is chosen before the awaits of the sessions and run after them;
what each way out of a tick does to checkpoint, record and window; three tickers
and the command line plan windows of the same job; crashes between order, record
and checkpoint; late summaries of older orders.
*Correct means*: a deferral loses no time; missed times coalesce to the latest; a
window is drawn once and closed for good; every time is handled in the end.

**Power manager** (`src/core/power/power-manager.ts`, `protected-work.ts`,
`src/core/platform/keep-awake.ts`).
*State*: the `caffeinate` child that keeps the host awake, the reconciliation in
flight, the timer. *Operations*: start, reconcile (policy, durable work, one probe
per session, wake event), acquire, release, fail awake, stop. *Hard*: a pass awaits
one session after the other while work moves from place to place; the child dies or
never starts, and says so by an event; the manager is stopped in the middle of a
pass. *Correct means*: the host does not sleep over work, nor stay awake without.

### Parts that are not modelled, or only where they meet the others

| Part | State | Operations | What makes it hard | What would make it correct |
|---|---|---|---|---|
| Supervised runner and settlement (`loop/supervised-runner.ts`, `supervisor-outcome-settlement.ts`, `run.ts`) | the revisions and gates of one work order | plan, execute, review, settle | its control is part of `SupervisorPool`; what a gate examines (branches, pull requests, checks) is left open there | an order is accepted only after its gates |
| Execution worktrees (`loop/execution-worktree.ts`) | git worktrees and branches | prepare, clean up | one git command of several failing | no worktree of a live order is removed |
| Remote branch maintenance (`loop/remote-branch-reconciliation.ts`) | none of its own | git and GitHub commands per branch | — (each is idempotent) | — |
| Message dispatch and agent readiness (`command/dispatch.ts`, `enqueue.ts`, `agent-ready.ts`) | none of its own | route a message, await readiness, type | the session may change during the wait | a message is typed into the session it was meant for |
| Runners and pane polling (`agents/runner-base.ts`, `pane-poll.ts`, `session/tmux.ts`) | quiet-pane counters, total timeout | poll, decide done | a late burst of output against the quiet time | a turn ends once, within its total timeout |
| Takeover of desktop agents (`agents/takeover*.ts`) | the process taken over | stop, resume in tmux | the other process ends or writes meanwhile | a conversation is never open twice |
| Resource guardian (`resource-guardian/*.ts`) | samples, pressure state, repairs | sample, classify, start repair | hysteresis at thresholds; repairs beside repairs | states do not flap; one repair per incident |
| Runtime guardian (`runtime-guardian/*.ts`) | findings handled, repair records in the repair queue | inspect run artifacts, reconcile repairs with orders, ledger and artifacts, admit and dispatch repairs | ticks without an in-flight guard; a repair's lease (30 minutes) is shorter than its work order may run | one open repair per finding, bounded attempts |
| Task ledger, repairs, project recovery (`tasks/*.ts`) | repairs with attempts and back-off | create, attempt, settle | duplicate detection, identifiers from time | one open repair per cause |
| Notifications (`notifications/*.ts`) | delivered events | deliver, monitor long tasks | a crash between delivery and record | an event is reported once |
| Recovery, reaper, boot sweep (`recovery/*.ts`) | which sessions run | recover, reap idle sessions, mark running | a decision taken before an await is carried out after it | a session in use is not killed |
| Chat adapters (`src/adapters/telegram`, `lark`) | menus, acks | translate, enqueue, cancel, clear | — (the environment of the queue) | — |
| Control server, CLI, TUI, MCP (`src/adapters/control`, `src/cli`, `src/tui`, `src/mcp`) | none | request and response | listens before the backlog is restored | — |
| Projects and prompt library (`projects/*.ts`, `prompts`, `promptlib`) | records in JSON map stores | edit | — | — |
| Loop configuration, work orders, summaries; automation events and probes; translation, voice, transcripts; views, localization, settings | none over time | validate, format, append, parse | — | — |

"—": no behaviour over time that a model would add something to. Paths in the
table are under `src/core` unless they start with `src/`.

### How the parts meet

```
 chats, CLI, control ──▶ MessageQueue ──handler──▶ agent in tmux
                            ▲   │ started hook
 loop ticks, delegations ───┘   └──────────▶ DelegationJournal ◀── reconciliation
   │    │
   │    ├── when, and until when ──▶ LoopSchedule ◀── late summaries, ledger
   │    ├── admit / settle ──▶ CapacityLeases ── file ──▶ JsonMapStore
   │    └── reserve / lease / run / settle ──▶ SupervisorPool ◀── passes
   └── review tick, drain ──▶ RepositoryReviewQueue ── work orders, leases ──┘
 InstanceLock: which process does all this
 HostPower: looks at queue, agents, orders and leases before the host may sleep
```

`src/index.ts` boots in this order: instance lock, wiring, control server, sweep
and reaper, Loop Engineering (which reconciles the work orders, restores the
backlog of the queue and reconciles the capacity leases, `service.ts:2041-2077`),
delegations, the operator's session, and last the channels: Lark, then Telegram,
and with it the power manager and the guardians. The control server therefore
serves while the backlog is not yet restored: `MessageQueue` has a constant for
that (`BootTraffic`).
The start hook binds queue and journal: what the queue may do to it (skip it, as
`QueueStaleHook.cfg` shows) is a constant of the journal (`HookSkipped`), and
with it the journal's safety is proved. `SupervisorPool` and `RepositoryReviewQueue`
share work orders and worker leases: the former has what the calls and the passes
do to them, the latter what the review's own records make of their outcome.
`LoopSchedule` sees the same orders over time: what they do to the checkpoint and
the windows, which decide whether an occurrence is dispatched at all and again. Its
gate (`open`) stands for the admission of which `CapacityLeases` has the part that
keeps state.

### Hazards

`PROJECT.json` lists each hazard at its line, with the properties that cover it
or the reason why none does yet. The list is what the properties below are
chosen for, and where the plan of section 7 comes from.

## 2. Modules

| Module | What it is |
|---|---|
| `MessageQueue` | the queue, its file and restarts |
| `SessionMailbox` | what the queue promises to senders, abstractly |
| `MessageQueueRefinement` | the mapping of the first to the second |
| `DelegationJournal` | the journal of one work order and its callers |
| `ExclusiveAttempts` | what the journal promises to a work order, abstractly |
| `DelegationJournalRefinement` | the mapping of the first to the second |
| `InstanceLock` | the single-instance lock |
| `CapacityLeases` | capacity leases with the ticks and delegations that use them |
| `JsonMapStore` | the file store with its lock and caches |
| `RepositoryReviewQueue` | the review queue, its drain, and the records it is reconciled with |
| `SupervisorPool` | worker leases and work orders, their dispatchers, and the passes that reconcile them |
| `LoopSchedule` | when a scheduled job runs: checkpoint, windows, the tick, restored prompts, reconciliation |
| `HostPower` | whether the host may sleep: the power manager, its probe, the `caffeinate` child |
| `MC…` | model values and constant functions for TLC |
| `…Proofs` | theorems, checked by TLAPS |

In every module a definition whose comment begins with "Faulty variant" is not
part of the specification: it is the definition after it with a plausible bug,
and `PROJECT.json` ("mutants") names the property that TLC finds violated when
the bug is put in. Histories (`handled`, `claims`, `done`) record what happened
for the properties; no guard reads them, except that `done` is also the value
the next change of a process writes, and bounds the number of changes.

### MessageQueue

One action is one synchronous run of the event loop: from the event that starts
it to its first `await`.

| Code | Model |
|---|---|
| `sessionQueues`, `globalQueue` | `waiting` |
| `processingSessions`, `processingGlobal` | `processing` |
| a call suspended in `gate(...)` | its peeked head in `gate`; if `clearSession` has meanwhile dropped the queue object it holds, the session is in `detached` |
| a call suspended in the handler | its message in `running`, after the handler has settled in `returned` |
| `currentSessionMessage`, `currentGlobalMessage` | `current` |
| `setTimeout(processSession)` | `retry` |
| the answers of start hooks | `consumed` |
| `persistScheduled`, `pending.json`, `persistedCarryover` | `scheduled`, `disk`, `carry` |
| the loop of `restorePersistedChannel` | `boot`, `loaded` |
| the promise of each sender | `outcome` |

`ProcessLane` is the body of `processSession` (and of a turn of `processGlobal`)
up to the next await: no free slot, empty queue, idle gate, hook that refuses,
hook that allows. It is part of the actions that run into it: `Enqueue`, `Retry`,
`HandlerReturns`; `ProbeIdle` and `ProbeBusy` are its continuations after the
gate. `Dispatch` writes the file synchronously before the handler starts, as the
code does (`writePersistedNow`); all other changes schedule a write.

Abstracted: texts and chats are members of small sets, the order of entries in
`pending.json` is not kept, acks are not told apart (`RewriteByAck` stands for
`setQueueAck` followed by the reply that quotes the ack), the hook's own call of
`cancelQueued` is the environment's `CancelQueued`. A message is enqueued once by
its sender; which messages are durable, hooked or restorable is constant, with
the implications of the code as assumptions (a hook belongs to a supervised
prompt of a session, only such prompts are rebuilt). Left out: `clear()`, which
only tests call, and the branch for a missing handler, which `bootstrap.ts` sets
before anything is enqueued.

### SessionMailbox and MessageQueueRefinement

A line per lane; the oldest is served, answered and leaves; unserved messages may
be withdrawn; after a restart those kept may join again. A lane's line is the
message in the handler followed by those that wait; served messages are those
that ever reached a handler. Gates, hooks, timers, slots and file writes are
stuttering steps of the mailbox.

### DelegationJournal

One action is one publication of a file, or the reads that precede it. Callers
are the live dispatch, messages rebuilt from the persisted queue and the
reconciliation, in one process or several; `job[c]` is what caller `c` is in the
middle of. `writeOnce` writes a temporary file and links it to its name, which
fails if the name exists: the two steps are apart only for `first.json`
(`StageOwner`, `LinkOwner`), the one directory in which a left-over temporary
file makes readers refuse (`debris`, `RootLittered`). `Readable`, `Vacant`,
`IsPrepared`, `IsStarted` and `IsSettled` say what `readOwnership` and
`readDelegationAttempt` make of the files. `Fence` is the publication of
`cancelledBeforeStart`, which competes with `LinkStarted` for the same name.

Abstracted: the reads of one call are one step (files are write-once, a torn
read over several files is not modelled); `mkdir` and `prepared.json` are one
step, because readers see no difference between them; attempt ids are fresh;
contents other than owner, claim and result are left out, and so are I/O errors
and the legacy directories without a chain.

### ExclusiveAttempts and DelegationJournalRefinement

An attempt is new, reserved, running or ended, and only one is open at a time.
The mapping reads the status of an attempt off its files: linked, claimed,
settled. A cancelled start already counts as the failure it will be settled with.

### InstanceLock

One action is one file operation or one probe. A process is one life of the bot:
launched once, dead once. `written` separates the exclusive create from the
write of the payload; `Holder` is what `readHolder` returns. `Stranger` lets
other programs take and leave pids. `Recheck` is the second read in
`removeIfHolder`, `Remove` the deletion by name that follows. The constant
`Overlap` says whether a bot may be launched while another is acquiring.

`Probe` is as loose as the code's test. It looks for the project's name in the
command line of the pid (`ShowsMarker`), which the project's CLI, TUI or MCP server
carry as well: they are the strangers in `kin`. With `PsFails`, a `ps` that fails or
takes longer than 15 seconds makes any pid count as stale, that of a serving bot too.

### CapacityLeases

The record of the agent that runs the supervisor. One action is one synchronous
stretch: `StartSupervised` is admission, lease, assessment, revalidation and the
registration of the order, because no await lies between them; a delegation has
one there, and is two actions. The main tick is `BeginTick`, `Recover` (settling
orders whose operation is gone), `EndRecovery` (reconciliation of leases), the due
jobs, `EndTick`. `phase` is the operation in memory and dies with the process;
`registered` and `lease` are files and stay.

Abstracted: quiet hours, owner activity and the Resource Guardian may refuse an
admission and change nothing then, which is a stutter; occurrences and their
deferral are left to a module of their own; an observation is chosen by the
environment, whatever probe or limit message it came from; a lease's 24 hours
pass only for work that no longer uses it, as orders time out much earlier.
`InUse` reproduces how the code looks for the leases of unfinished orders, which is
not how it took them. Loop Engineering takes all leases in the record of the
supervisor's agent, but looks for each in the record of the agent its order names
(`AgentOf`: that of the project, repository or workspace); and a workspace's lease is
taken under another key than it is looked for. `Traceable` names the orders for
which both agree. `Unlist` takes an order off the registry's list when its worker has
written the final summary, or it is 12 hours old, before anybody has settled it.

### JsonMapStore

One action is one file operation of `withWriteLock`, `read` or `write`. Each
process changes an entry of its own, so the map shows whose changes it holds.
The identity of the file (mtime, size, inode) is a version number that every
rename changes. `ReadFaults` and `Suspends` turn two environments on: a stat or
read that fails, and a live process held up for more than 30 seconds inside its
critical section. A corrupt file is not modelled: a read that fails stands for it.

### RepositoryReviewQueue

One action is one synchronous stretch of the tick, the drain or a call of it.

| Code | Model |
|---|---|
| the items of the queue's file | `item`: status, attempts, time left, why it waits, who leased it |
| the work order of the review's launch (listed as unfinished, reported, old, or settled), its worker's lease | `order`, `leased` |
| its record in the task ledger | `ledger` |
| workers in tmux: the one launched last, and one before it or given up by a timeout | `turn`, `stray` |
| `drainRepositoryReviewQueue` between its awaits | `drain`: what it found due and active before |
| a run of `runSupervisedDue` | `call` |

Operations of the queue are operators on one item (`Swept`, `Listed`, `Taken`,
`Reported`, `RetryOccurrence`, ...), and every action applies them in the order
of the code: `StartDrain` is the adoption by unfinished work orders, the listing,
the resettlement by terminal ones and the closure by the ledger, because nothing
awaits between them. Times are levels: 0 is due, 1 is at most the 15 minutes after
which a capacity deferral counts as stale, 2 is later; `Elapse` takes them down.
A process that exits leaves its items' leases `dead`; a lease may outlive its 24
hours (`Overdue`) because a host may sleep.

An order that is not settled is listed as unfinished, and so keeps its repository
active and its item adopted, only while its `order` is "open". `Summarize` (the
worker writes its final summary, and may go on) and `Age` (12 hours, or 5 minutes
with an invalid summary) take it off the list; `Recover` settles it later, by the
summary or as abandoned. In between, a restart lets `Dispatch` launch the review
over it, which removes the summary nobody has read.

Abstracted: all reviews have one priority, as their only producer gives them one;
a review is its scheduled time; two workers before the last count as one `stray`;
which pull requests are open is a choice; the reconciler of work orders is one
action (`Recover`), its awaits being the subject of `SupervisorPool`. Left out:
`migrateLegacyBlocked`.

### SupervisorPool

One action is one synchronous stretch between awaits.

| Code | Model |
|---|---|
| work-order state files (state, session, age, gate artifact) | `order` |
| final summaries | `summary` |
| the pool's leases | `lease`: active, retained, expired |
| prompts queued per session, the session whose turn the queue awaits | `lane`, `held` |
| what the agent in tmux works on | `work` |
| `runSupervisedDue`, a delegation's dispatch, a restored prompt | `call`: the stage it awaits in |
| reservations and batches of the main tick and of the review drain | `disp` |
| `reconcileLoopSupervisorWorkOrders` with the registry it has read | `recon` |

`recon.rec` is the registry as it was read; a pass settles from it after its
awaits, as the code does. `Synchronous` keeps other actions from the stretches in
which the code awaits nothing. `Restart` drops calls, reservations and batches,
keeps files and agents, and begins the boot's pass, after which the saved prompts
are queued again. Two constants open environments that the passing run leaves out:
`Revisions`, in which a pass awaits a revision, and `Overlap`, in which it meets a
call in the two seconds of the poll for a late summary or in the start of an
agent.

Abstracted: the order of prompts in a lane (`MessageQueue` has it); a delegation's
recovery, one action here, is the subject of `DelegationJournal`; the gate's
verdict is free, except that nothing is accepted without a summary. An order is
not launched again while a restored prompt of it waits.

### LoopSchedule

One job with the times at which its cron fires. One action is one synchronous
stretch between awaits.

| Code | Model |
|---|---|
| `loop_lastfired.json` | `lastFired`; `Never` before the first |
| `occurrences.json` (status, `notBefore`) | `occ` |
| work-order states, final summaries, the task ledger | `order`, `summary`, `ledger` |
| a prompt restored with the queue, in the queue or with its worker | `prompt`: saved, held |
| the tick of `runLoopSupervisorDueJobs`: the stage it awaits in, the time it has chosen, the checkpoint it has read | `run` |
| quiet hours, owner, capacity, resources, busy sessions | `open` |

`Missed` and `Latest` are `scheduledFire`, `Plans` is `plan` and `Status`
`setStatus` of the window store, `Admitted` is `decide`. `Choose` is the tick up to
its first await; `Pass` has the ways out of it before anything is launched, each
with its own effect on checkpoint, record and window: deferred again, covered by
another run, refused by the assessment, or recanted because the gate has closed
while the worktree was prepared. `Launch`, `Finish` and `EndRun` are a run, which
consumes the time or puts the checkpoint back (`restoreLastFired`). `Look` plans
windows beside it: a tick that defers the job, the tick of the reviews, the command
line. `Recover` and `Abandon` are what the reconciliation does to orders,
`SettleFromLedger` and `Unschedule` what it does to windows. Jobs whose runner is
not an agent (`system`) have a record but no order.

Abstracted: what another job of the planner does to this one is `Skip` or `Defer`;
an offset is any in `0..Window`; the boot's pass and the tick's are the same
actions, except that the boot asks nobody whether a session is busy.

### HostPower

One action is one synchronous stretch between awaits.

| Code | Model |
|---|---|
| `policy.mode`, `decideHostPowerPhase` | `mode`, `quiet` (`AwakePhase`) |
| the child of `createKeepAwakeController` | `child`: starting until it runs |
| `inFlight` and the stage it awaits in | `pass`: the sessions left to inspect, whether one was busy; the notification of a failure |
| what `inspectProtectedHostWork` finds | `place`: the queue, an order, a lease, a session |
| `spawn`, the probe, `pmset -g sched` failing | `broken` |

`Reconcile` is `reconcileOnce` up to its first await: what is durable (queue, orders,
leases) is read at once, the sessions are inspected after it (`Inspect`), and the
answer of the last one ends the pass (`Acquire`, `Decide`). `Rejects` is the `catch`,
which does not ask whether the manager was stopped. `Acquire` succeeds when `spawn`
returns; `Ends` is the child's `error` or `exit`. Where work goes (`Arrives`,
`Proceeds`, `Finishes`), the clock and the faults are the environment.

Abstracted: the inspection of a session is exact at its moment; the phases of the
clock are before and after the wake time. Left out: the power source, typed events
and the suppression of repeated notifications; other platforms; a crash of the
process, with which `caffeinate -w` ends.

## 3. Runs

`tlc -config <cfg> <module>`; modules are the `MC` modules, which `JsonMapStore`,
`LoopSchedule` and `HostPower` do not need. "States" are distinct states. Deadlock
checking is off where the system runs out of things to do in the bounded instance
(all messages answered, all attempts used, all processes dead) or where only new
work would follow (`pool`, `power`); it is on for `capacity`, `store` and
`review`, whose timers go on for ever.

### Runs that pass

| Run | Question | Instance | States |
|---|---|---|---|
| `queue_lanes` | Are lanes serial and never stranded, and prompts unique, while messages arrive, are cancelled, cleared and rewritten? | two sessions, one slot, four messages: two prompts of one chat in one session, a hooked prompt in the other, a bot-level message; writes may fail | 150 000 |
| `queue_restart` | Is nothing lost, typed twice, typed before its hook or reordered by crashes and shutdowns, and is every message answered or carried over? | two sessions that share a slot; a control verb and a supervisor prompt in one, a supervisor prompt in the other; two restarts; nothing is withdrawn | 18 000 |
| `journal` | Do racing callers and a crash leave one open attempt, one claim, one final settlement, and do attempts get settled? | two callers, three attempts, one crash | 223 000 |
| `lock_sequential` | Does one bot serve, and does no stale file keep it down? | four lives of the bot, one launched after the other, three pids that other programs use as well, with or without the project's name; `ps` answers | 311 000 |
| `capacity` | Do orders keep their leases, does nothing start beside a lasting one, are unused ones freed? | a project's job, one of the system, two reviews, of which one names another agent, two delegations; one crash | 133 000 |
| `store` | Is no change lost, no cache stale, no orphaned lock left? | two processes, two changes each, one crash | 8 000 |
| `review` | Is a repository reviewed by one worker at a time, does a decision stand, and is every review settled? | two reviews of one repository, two sessions, two attempts; one restart, refusal, timeout, exception or overdue lease; summaries and age at any time | 158 000 |
| `schedule` | Does no deferral lose a time, do missed times coalesce, do windows stand, and is every time handled? | three times with offsets of 0 or 1, one trouble (a restart, a closing of the gate, a retry, a removal from the configuration) | 266 000 |
| `power` | Is the host kept awake while it must be, released once it may be, and no standing work overlooked? | two tasks, two sessions, modes `scheduled` and `off`; clock, tasks and faults are free | 53 000 |
| `pool` | Do calls keep their workers and accepted orders their state, and do orders end and workers come back? | a job, a review and a delegation for one session; one restart, relaunch, timeout, failed preparation or revision | 95 000 |

`TypeOK` of each module is proved (section 4), and so are `SettlementIsFinal`,
`SettledBeforeSuccessor` and `SuccessWasClaimed` of the journal, which the refinement
in `journal` implies: an attempt is reserved only when none is open, and only a
running one succeeds.

Why the bounds are enough to show something. *Queue*: a lane's discipline is
about the call in progress, the one that comes beside it and what waits; two
sessions and one slot make them compete, `MaxSize = 2` makes lanes full, and a
third message arrives while the first is at the gate. Two restarts let
an entry be restored, persisted again and restored again. *Journal*: three
attempts are needed for a caller that has read the first one's settlement to
link its successor late, behind another successor; the callers are a claimant and
its rival, or one of them and the reconciliation. *Lock*: four lives let one crash, one recycle
its pid, one find the stale file twice. *Capacity*: one work of each kind but a
workspace's job, whose lease is lost like that of the review that names another agent;
two delegations because a repair may start neither beside the operator's nor beside
jobs. *Store*: a holder and a waiter, of whom one dies. *Review*: two reviews of
one repository, of which the conflict planner must hold one back, also while the order
of the other is off the list or settled; two attempts, so that a failure is
retried and a second one is a dead end. *Pool*: one order of each kind of user,
all of whom want the same session; with two sessions, an order moves from one to
the other. *Schedule*: with three times a newer one comes while an older is
chosen, run or settled late, and one after that looks back at both; times lie two
units apart and an offset is at most one, so that a window may be waited for
before the next time comes; the clock stops one unit after the last. *Power*: one
session is inspected while the other is still awaited, and one task stands while
the other comes, moves and ends; nothing else is bounded. The theorems of section
4 show the safety properties for any number.

What the properties say stands in the comment before each. Some remarks:

- `NoLostWakeup` is the safety half of `EveryMessageSettles`: a lane with
  messages has a running call or a timer. It is the invariant that makes the
  liveness plausible, and it is proved.
- `ServesInOrder` is a refinement, not an order of arrival: it also says that
  a message served once is not served again after any restart, and that only
  unserved ones are withdrawn.
- `AtMostOnceHandled` and `DiskInSync` are checked without write faults. With
  them a failed write and a crash replay a message; the code logs such a failure
  and goes on.
- `QuietMeansVacant`, `EveryAttemptSettles` exempt crashes: after one between
  fence and settlement the journal refuses by design until an operator looks.
  The second part of `EveryAttemptSettles`, of started attempts, exempts nothing.
- `EveryMessageSettles` counts a message as settled when it is carried over: it could
  not be rebuilt at this start and is kept in the file for the next.
- `StaysAwake` and `SleepsWhenDrained` speak of what lasts: an assertion may be missing
  for a while, after a failure or because a pass begun in quiet hours releases after
  their end, and the next pass acquires it again.
- `KeepsStandingWork` speaks of tasks that were there when the pass began to look. One
  that arrives during the pass may be overlooked by it.
- `StartsBesideNoJob` is what remains true of the documented serialization:
  works whose lease lasts (jobs of projects and reviews that name the supervisor's
  agent, until they have reported; jobs without order) are never joined by background
  or repair work, of whatever agent. Without that restriction it is `StartsAlone`,
  which `CapacityWindow.cfg`, `CapacityAgent.cfg` and `CapacityWorkspace.cfg` refute.
- `OneReviewPerRepository` counts workers whose order is listed as unfinished, as
  `LaunchedOverNothing` speaks of listed orders. A worker that goes on after its
  summary or its 12 hours is not counted, nor one given up by a timeout:
  `ReviewReported.cfg`, `ReviewOverlap.cfg`.
- `DecisionsStand` lets an item at a dead end be reopened once, which the code
  records (`migrated`), and is otherwise final.
- `CompletedStands` allows `dispatching` after `completed`: an occurrence found
  due before its order was accepted may be dispatched anew by a later batch.
- `CallHoldsLease` leaves out delegations that wait in the queue, which lease a
  worker only when they are consumed, and restored prompts, which run without.
- `DeferredStaysDue` speaks of the newest time that is due and has no record. An
  older one is replaced by it, as documented; one with a record is being run, or
  its order will settle the checkpoint.
- `RunsTheNewest` lets a time be run again that is the newest one handled: a retry,
  or a crash before the checkpoint. What it excludes is a step back.
- `DueIsHandled` does not say that a run succeeds: refusals and failures handle a
  time, and so does the settlement of its window from the ledger.
- `RefusedOnlyBesideAnother` counts a bot that winds down as another: launchd
  restarts the refused one. It exempts a recycled pid whose command line carries the
  project's name: such a program keeps the bot down for as long as it runs.
- `OnlyClaimantSettles` looks at the call that makes the settling step: it is for that
  attempt, with that result, and has claimed it or settles by the deadline.

### Fairness

*Queue* (`FairSpec`). Weak fairness of the write on the next tick, of the restore
loop, of the handler (bounded by `maxWaitDoneTotal`) and of the resumption of
calls: the event loop and its timers do this. Strong fairness of a retry when a
slot is free: a deferred session asks again every second, and a held session
leaves its slot for 1.5 seconds, so it does not miss every gap. Strong fairness
of a probe that finds the agent idle and whose hook allows is an assumption on
the environment: an agent does end its turn at some probe. Without it a message
waits for ever, rightly.

*Journal*. A call that has begun runs on (it is synchronous); a turn is bounded
by `maxWaitDoneTotal` and a live dispatch by its consumption timer
(`agent-queue.ts:465-485`); reconciliation is periodic and the deadline of an
attempt is persisted. Nothing is assumed about restored messages. The constant
`HookSkipped` is `FALSE` here: a message run without its hook leaves its attempt
prepared, without anybody to settle it (see `QueueStaleHook.cfg`).

*Capacity*. Operations are bounded by timeouts, and the end of a tick arms the
next. Nothing is assumed about observations, arrivals or the 24-hour expiry.

*Review*. The tick is a timer, so drains start and a drain that finds nothing ends
(weak fairness); sessions become available again and again, so a batch is run
(strong fairness); calls, turns and waiting times end, and boot and main tick
reconcile the work orders (weak fairness, per review). Nothing is assumed about
the successful end of anything.

*Pool*. What ends of itself (calls, turns, polls, dispatches, ages) goes on
although passes interrupt it (strong fairness of `Work` and `Probing`), and
passes, which a timer starts, go on (weak fairness of `Passing`). Nothing is
assumed about new work, summaries, expiry, timeouts or failures.

*Schedule*. The tick is a timer and ends (`Ticks`, `Running`), prompts restored are
consumed and end (`Restoring`), the reconciliation is part of every tick
(`Reconciles`), the clock goes on, and the gate opens again: quiet hours end and
usage limits are reset (all weak fairness). Nothing is assumed about summaries,
settlements from the ledger, or what else plans windows. That the gate opens again
is no promise that it is open when the tick looks; in the instance it closes once.

*Power*. The timer fires, commands and notifications return, and a child that was
spawned starts or fails (weak fairness of each). Nothing is assumed about the clock,
tasks, faults and `stop()`: the properties say under which lasting conditions they hold.

*Store*. Operations are synchronous and end, the clock goes on, and the bot's
timers mutate stores again and again, so somebody who gave up on the lock asks
once more (strong fairness of beginning a mutation).

### Runs that find a violation

`review_retry_lost` and `schedule_never_fired` each check one property that the
documentation states and TLC refutes; see section 5.

The configurations beside them show counterexamples to properties in environments
that the passing runs leave out; they are not part of the list of runs:

- `PowerAlways.cfg` (`AlwaysHolds`): in mode `always` the manager acquires the assertion
  once and sets no timer (`power/power-manager.ts:188-194`); when `caffeinate` ends, its
  handler only forgets it (`platform/keep-awake.ts:55-61`), and the host is without
  assertion for ever, against `docs/agent-maintenance-guidelines.md:76-77`.
- `PowerUnreported.cfg` (`FailureReported`): a `caffeinate` that cannot be executed fails
  by an event after `acquire()` has returned true (`platform/keep-awake.ts:62-64`); every
  pass spawns it again and none notifies, against the notification governance of
  2026-08-13, lines 31-32.
- `PowerStop.cfg` (`StopReleases`): a probe that rejects after `stop()` makes `failAwake`
  acquire the assertion again (`power/power-manager.ts:173-175`; the other way out of that
  await checks for it, line 146).
- `QueueOrphan.cfg` (`NothingForgotten`): a session is cleared while its head awaits
  the idle gate, then given a new message; the resuming call deletes the new queue
  object from the map (`command/queue.ts:505`), and the message is never answered.
- `PoolDouble.cfg` (`CompletedStands`): a pass awaits the revision of one order, the
  review's call beside it completes, and the pass settles that order from what it had
  read: from completed to failed (`loop/service.ts:2409`), against the comment at
  `service.ts:2428-2430`.
- `ScheduleRerun.cfg` (`CompletedStands`): an order is completed and the bot dies
  before the checkpoint is set, or a restored prompt completes it, which sets none;
  the next tick dispatches the accepted work again.
- `ScheduleRegress.cfg` (`CheckpointAdvances`): the late summary of an older order
  sets the checkpoint back behind a newer time that has run, against
  `docs/intelligent-automation.md:116-118`. The newer time's closed window keeps it
  from running again, as `RunsTheNewest` says; without offsets there is no window, and
  it may.
- `QueueStaleHook.cfg` (`HookBeforeHandler`): a head is cancelled while it awaits
  the gate; its hook is called nevertheless, and the next message is typed
  without its own (`command/queue.ts:492`).
- `LockRace.cfg` (`AtMostOneServing`): of two bots launched at once over a stale
  file, the loser returns from `acquireInstanceLock` without lock and without
  error, against `instance-lock.ts:111`, and both serve.
- `LockProbe.cfg` (`AtMostOneServing`): `ps` fails about the bot that serves, whose
  lock is then taken (`instance-lock.ts:76-78`); the comment there prefers this to a
  bot that stays down, though a second one was to be excluded.
- `CapacityWindow.cfg` (`StartsAlone`): a delegation that awaits its supervisor
  loses its lease to the main tick, which then starts a background job beside it,
  against `docs/automation-alignment.md:217-219`.
- `ReviewOverlap.cfg` (`OneWorker`): after a dispatch timed out the review is
  launched again while its first worker goes on (`loop/agent-queue.ts:356`),
  against the design of 2026-08-07 (section 5), lines 54-56.
- `ReviewReported.cfg` (`SummaryIsRead`): a worker reports while its bot restarts; its
  order is listed no more, so the swept item is not adopted and the review is launched
  over it, which removes the summary (`loop/supervisor-state.ts:284-293`).
- `QueueBootWipe.cfg` (`NothingForgotten`): a message accepted before the
  restore causes a write of `pending.json` without the backlog; a crash before
  the restore then loses the backlog.
- `CapacityAgent.cfg` (`StartsAlone`): the lease of a review whose repository has
  another agent than the supervisor is dropped by the next main tick, which then starts
  a job beside it (`loop/service.ts:201` against 605, 2096).
- `CapacityWorkspace.cfg` (`StartsAlone`): the worker of a workspace's job
  outlives a crash, its lease does not, because of the key mismatch.
- `StoreSteal.cfg` (`NoLostUpdate`): of two processes that wait for the lock of
  a dead one, the second removes the lock the first has just created.
- `StoreReadFault.cfg` (`NoLostUpdate`): a read that fails before anything was
  cached is served as an empty map, which a mutation then writes.

## 4. Proofs

`tlapm <module>` checks each module from nothing. What each theorem states for
every value of the constants, under the assumptions named in the modules
(`QueueAssumption`, `FiniteAssumption`, `JournalAssumption`, `LockAssumption`,
`CapacityAssumption`, `StoreAssumption`, `ReviewAssumption`, `PoolAssumption`,
`ScheduleAssumption`; TLC evaluates them in every run):

| Module | Theorem | States | Beyond the module's assumptions |
|---|---|---|---|
| `MessageQueueProofs` | `TypeCorrect`, `Serial`, `Wakeup`, `Limit`, `NoDuplicates` | `TypeOK`, `OneAtATime`, `NoLostWakeup`, `ConcurrencyLimit`, `NoDuplicateWaiting` | — |
| | `AtMostOnce` | `AtMostOnceHandled` | `~WriteFaults` |
| | `InSync` | `DiskInSync` | `~WriteFaults`, no `clearSession` |
| | `NotForgotten` | `NothingForgotten` | no `clearSession`; no `BootTraffic` if there are restarts |
| | `HookFirst` | `HookBeforeHandler` | no `cancel` |
| | `ImplementsMailbox` | `ServesInOrder`, the refinement | `~WriteFaults`, no `clearSession` |
| `DelegationJournalProofs` | `TypeCorrect`, `OneOpenAttempt`, `ClaimedOnce`, `SuccessIsEarned`, `SettledForGood`, `SettledByClaimant` | `TypeOK`, `SettledBeforeSuccessor`, `SuccessWasClaimed` and the action properties of `journal` | — |
| | `VacantAtRest` | `QuietMeansVacant` | `~HookSkipped` |
| | `ImplementsExclusiveAttempts` | `RunsOneAttemptAtATime`, the refinement | — |
| `InstanceLockProofs` | `StartSucceeds`, `RefusalIsEarned` | `NoFailedStart`, `RefusedOnlyBesideAnother` | `~Overlap` |
| | `OneServer` | `AtMostOneServing` | `~Overlap`, `~PsFails` |
| `CapacityLeasesProofs` | `OrdersKeepLeases`, `NothingJoinsAJob` | `OrderHoldsLease`, `StartsBesideNoJob` | — |
| | `WorkStartsAlone` | `StartsAlone` | only jobs of the system, and jobs of projects and reviews that name the supervisor's agent |
| `JsonMapStoreProofs` | `NothingOverwritten` | `NoLostUpdate` | `Calm`, `~ReadFaults` |
| | `CachesTellTheTruth` | `CacheHonest` | `Calm` |
| `RepositoryReviewQueueProofs` | `TypeCorrect`, `OneReviewAtATime`, `NothingRelaunched`, `NothingUndone`, `NothingStranded` | `TypeOK` and the safety properties of `review` | — |
| `SupervisorPoolProofs` | `TypeCorrect` | `TypeOK` | — |
| | `LeaseHeld`, `CompletedStays` | `CallHoldsLease`, `CompletedStands` | `~Revisions`, `~Overlap` |
| `LoopScheduleProofs` | `TypeCorrect`, `NewestRuns`, `WindowsStand` | `TypeOK`, `RunsTheNewest`, `DecidedOnce` | — |
| | `DeferralKeepsDue` | `DeferredStaysDue` | `First # Never` |

`~WriteFaults`: no write of `pending.json` fails (a failure is only logged, and the
file keeps what it held, perhaps a message that has since been handed over). No
`clearSession`, no `cancel`: of the ways to withdraw messages (`Withdrawals`), nobody
clears a whole session, or cancels a single message. `BootTraffic`: messages are
accepted before the backlog is restored. `~HookSkipped`: every supervised message
passes through its hook, as in the run `journal`. `~Overlap`: no bot is launched while
another acquires the lock (launchd starts one at a time); `~PsFails`: `ps` answers
about a running program; of the pool, no pass meets a
call between its prompts. `Calm`: no process is held up inside a mutation, and either
none dies at all or at most two share the store (as in the run `store`).
`~Revisions`: no pass awaits a revision. `First # Never`: the job has a checkpoint at
the start.

These are not convenience: `QueueOrphan.cfg` and `QueueBootWipe.cfg` (`NotForgotten`),
`QueueStaleHook.cfg` (`HookFirst`; also how a hook is skipped), `LockRace.cfg` and
`LockProbe.cfg` (`OneServer`), `CapacityAgent.cfg`, `CapacityWorkspace.cfg` and
`CapacityWindow.cfg` (`WorkStartsAlone`), `StoreSteal.cfg` (three processes) and `StoreReadFault.cfg`
(`NothingOverwritten`), `PoolDouble.cfg` (`CompletedStays`) and the run
`schedule_never_fired` (`DeferralKeepsDue`) show counterexamples without them. Of
the mailbox, clearing a session withdraws several messages at once and may leave a
queue object that no map names, for which the abstract step has no counterpart.

The arguments.

*Message queue.* `OneAtATime` is not inductive: it says nothing of the guard
that keeps a second call out. `LaneInv` adds that whoever is at the gate or in
the handler has reserved its lane (`Reserved`), and that reserved sessions do
not exceed the limit, from which `ConcurrencyLimit` follows because the lanes
of those at work are among them. `NoLostWakeup` is part of the same invariant,
as releasing a lane must leave a timer behind. Every action runs into
`ProcessLane`; the lemmas `HookEffect` and `ProcessEffect` reduce it to three
outcomes (the lane is freed, a message is in the handler, the head is at the
gate), `DisciplineKept` and `SlotCount` show that each keeps the invariant, and
`NextLane` goes through the actions.

For what a lane holds, two outcomes are enough: it hands the head over or it does
not (`Hands`, `Yields`). The other theorems rest on them, each with an invariant of
its own that TLC checked on the instances of the runs first.

- `NoDuplicates`: the property is inductive once "waiting or in flight" is one set
  (`Active`), to which handing over adds nobody; what enters from outside has been
  compared with it.
- `BootInv`, shared by the rest: file, backlog and carryover name durable messages
  only, and before the restore no durable message is at work; without `BootTraffic`
  nothing is at work at all (`Asleep`).
- `AtMostOnce`: `OnceInv` says that a lane has no message twice, that lanes, backlog
  and carryover share none, and that a message handed over is in none of these places
  nor in the file's backlog. The last holds because the file is written before the
  handler starts; with a failed write it does not.
- `InSync`: `current` names the message in the handler or one whose call has not
  cleaned up yet (`CurrentInv`), so whatever changes the snapshot goes through an
  action that writes or schedules.
- `NotForgotten`: `ForgetInv` adds to the property that every lane with messages is
  in the map (`detached = {}`) and, of a booting process, that it is asleep or has an
  empty file, so that no write before the restore can lose a backlog.
- `HookFirst`: whoever is at the gate is still the head of its lane, or its lane has
  been detached (`GateHead`), so the message handed over after the gate is the one
  whose hook was called.
- `ImplementsMailbox`: lemmas about `LineOf` say how a line changes when a message is
  appended, removed, handed over or answered; `OrderInv` adds to `OnceInv` that what
  waits or is worked on has no answer yet, and that what the file keeps has none that
  a restart would contradict. Each action is then one action of the mailbox or leaves
  line, served and answers alone; a restart rejects or keeps what waited, and
  `Restore` lets the kept ones join again.

*Delegation journal.* `JournalInv` says that the ownership chain starts at
`First` and has one end (`ChainInv`), that the event files of an attempt appear
in order (`EventOrder`), and that a call between its reads and its publication
still knows what it read (`CallInv`): the slot it chose is settled for good, the
attempt it holds is prepared, a claimant's attempt is claimed. The last is what
a write-once file gives, and what makes the reads before and the `link` after
them as good as one step. The refinement follows from it action by action: only
`LinkOwner`, `LinkStarted`, `Fence` and `PublishSettled` change the status of an
attempt, each as one action of the abstract specification. `VacantAtRest` needs what
no property of a single attempt says: `QuietInv` adds that the chain has an end
(`HasEnd`), and that while nobody has crashed every attempt not settled is minded by a
call in a stage whose checks will pass (`Minds`). A call drops the attempt it holds
only when a check fails, and for a minded attempt none does, because it is the
current one (`UnsettledIsCurrent`). When all calls are idle nothing is minded, so all
is settled and the end of the chain is vacant.

*Instance lock.* `StartInv` holds whatever `ps` answers: one process acquires at a
time (`OneAcquirer`), and in the second attempt there is no file (`RetryInv`). From it
follow `StartSucceeds` and `RefusalIsEarned`: whoever has the pid in the file beside
the acquirer is past its own acquisition or a program with the marker. `LockInv` adds
that a serving process owns the file and has written it (`FileInv`); that what an
acquiring process has read is still there or gone, and that once it has judged the
file stale nobody serves (`SeenInv`), for which `ps` must have told the truth. Without
`~Overlap` that part fails at the second acquirer.

*Capacity leases.* `LeaseInv` adds to `OrderHoldsLease` which operations have
registered orders (`Shape`), and that a job without order runs inside a tick,
beside which no reconciliation happens (`SystemHolds`). `AdmittedAlone` says
that a serialized admission found no lease but its own; so whatever holds a
lease does not get company. What loses its lease while under way (workspace jobs,
orders that name another agent, delegations) is exactly what the theorems leave out.

*Store.* `StoreInv`: whoever is between the creation and the removal of the
lock file owns the one that is there, and only the lock of a dead process is old or
about to be removed by somebody who waits (`Exclusive`); no cache names a version that
does not exist yet (`Identities`); a mutation that is about to write works on
what the file holds (`Current`). Of two processes of which one is dead, the other
alone can be about to remove the lock (`OneRemover`); a third is what breaks it.
`CacheHonest` itself is the remaining part: a
map may be cached for an older identity than its own, which is harmless, because
that identity never comes back.

*Review queue.* Every operation of the queue keeps an item good (`GoodItems`: one
that waits has an attempt left, only a running one is owned), keeps what is
decided (`Stands`) and makes nobody an owner; the lemmas `...Keeps` show it one
operation at a time, `Stands` is transitive, and so `ItemStep` covers every action
that strings them together. This gives `TypeCorrect`, whose bound on the attempts
is not inductive without the first part, and `NothingUndone`. `CallsInv` says that
between the drain's reading and the end of its calls nobody else lists a work
order: what it found active still is a superset of what is, and a review selected
conflicts with no listed order. Summaries and age only take orders off the list
(`UnlistingCalls`), so the invariant speaks of listed orders and never of workers.
From it follow `OneReviewAtATime` and `NothingRelaunched`, for listed orders.
`NothingStranded` needs an owner to appear only with a call or a work order.

*Supervisor pool.* `PoolInv`: until the boot's pass ends nothing is dispatched
(`BootInv`); what a dispatcher has found due has neither a call nor an unfinished
order (`DueInv`); a queued prompt is of its order's session, and a call waits for
it or it was restored (`LaneInv`); a call in a stage finds order, lane and agent
as that stage left them (`CallInv`); an accepted order has its summary
(`SummaryInv`); and what a pass has read of an order it is still to settle is what
its file holds, unless the order is busy (`PassInv`). The last is what makes
settling from an old record right, and what a revision's await breaks. `PoolStep`
shows the invariant and `Stands` for each action by a lemma of its own;
`OthersKeep` reduces most of them to the one order they touch.

*Scheduler*. `RunsTheNewest` compares a run with the records of all times, while the
tick compared its choice with the checkpoint only, and that before an await.
`IInv` bridges the two: a record belongs to a time that has come (`Recorded`); an
order or a prompt has a record (`Begun`), so that what the reconciliation settles is
recorded already; the checkpoint, and the one a retry puts back, stand at recorded
times (`Checkpoints`); and no time newer than the one the tick has chosen is recorded
until it is run (`Chosen`), because only the tick makes records and a chosen time was
the newest that had come. `DeferralKeepsDue` follows from it: what moves the checkpoint
past the newest time must be settled at a recorded one, and that is none beyond it;
with a checkpoint at the start there is always one, so the bounded look back never
applies.

## 5. Findings

| Run | What the run shows | Source |
|---|---|---|
| `review_retry_lost` | A review whose decisions ask for a retry is put off, and closed as blocked by the next drain, from the record of its own run: the retry never happens. | `loop/service.ts:1137` |
| `schedule_never_fired` | A job that has never fired comes due while autonomous work is not admitted; once the gate has been closed for longer than the scheduler looks back (ten minutes and the largest offset), the time is due no more, without a run or a record. A job whose time lies in the quiet hours never fires. | `loop/scheduler.ts:82` |

The quoted documentation is in `PROJECT.json`.

## 6. Limits

**Only model-checked**: all liveness (`EveryMessageSettles`,
`EveryAttemptSettles`, `StrandedLeaseFreed`,
`OrphanedLockFreed`, `ReviewSettles`, `OrderSettles`, `LeaseReturned`,
`DueIsHandled`, `StaysAwake`, `SleepsWhenDrained`), which the prover does not reach;
`HostPower`'s `KeepsStandingWork`, the one safety property without a theorem. Where a
theorem has a condition, the behaviour beyond it is model-checked at most, or refuted
by the configurations above.

**Not modelled within the modelled parts**: half-written `pending.json` (it is
written in place); failures of a claim other than a lost race; torn reads of
the journal; the permanent refusal of a restored message whose attempt was
settled, which the queue's fairness excludes; two processes that change one
capacity record (its read happens outside the store's lock); what a bot does
between releasing its lock and exiting; corrupt store files and their backups.

*Review queue*: `migrateLegacyBlocked` (records of older versions), unequal
priorities, which nothing in the code asks for; the revisions of a review, during which
its order, whose old summary is still there, is not listed either; a worktree of a
review that is the repository itself, which its lease would then name.

*Capacity*: the records of agents other than the supervisor's, in which no lease of
Loop Engineering is ever taken.

*Supervisor pool*: passes that meet a call in its poll or while its agent is
started (`Overlap`), two passes at a time; an order launched again while a prompt
of its earlier launch, restored after a crash, still waits or runs; the
interruption of agents whose delegation has expired; the status `cancelled`;
leases of worktrees that have vanished; the worktrees and tmux sessions that
retained workers keep. Leasing prunes an expired lease without ending its tmux
session, against `docs/intelligent-automation.md:671-673`: the model prunes as the
code does, but no property speaks of the sessions.

*Scheduler*: other jobs and the planner's order among them; the removal of windows
after 7 and 30 days; the jobs of reviews, which `RepositoryReviewQueue` has; the
notification that the run of an opportunity job awaits between checkpoint and
settlement of the window (`EndRun` is one step).

Some of what the modules show is worth knowing although no document of the
repository speaks against it: prompts of jobs restored after a crash run without
lease, gate or settlement of a lease, and turn an order already failed back to
in-flight; a review adopted after a crash pays an attempt for it; `reopenTerminal`
asks for an immediate retry that `retryOccurrence` puts off in the same drain; a
crash between the settlement of a review and its report loses a decision for a
human.

**Not modelled at all**: the parts in the table of section 1. Some would gain
nothing (views, texts, adapters, validation, formatting); the others are the plan.

## 7. Plan

Done, in this order: the message queue with its abstract mailbox; the delegation
journal with its abstract specification, both with their first proofs; instance
lock; capacity leases; store; repository review queue; supervisor worker pool with
the control of the supervised runner; loop scheduler and occurrences; power manager.
All but the last have proofs, except what section 6 lists.

Next, most important first:

1. `Delegation`: message queue and journal composed, with the hook as the claim.
   Abstract specification: a supervised prompt is run at most once, and its work
   order learns of it. Hazard: the restored prompt that blocks its lane.
2. `ScheduledWork`: `LoopSchedule` over the calls and passes of `SupervisorPool`,
   several jobs. Abstract specification: each occurrence is run once or replaced.
3. `RetainedWorkers`: worktrees and tmux sessions of retained leases, over
   `SupervisorPool`: evidence is kept until its time is over and then goes.
4. Capacity records over `JsonMapStore`: two processes, reads outside the lock.
5. `RepairQueue` (`tasks/repair-coordinator.ts`, `automation/recovery-admission.ts`, the
   dispatch of the daily audit, the Runtime Guardian): one open repair per cause, and a
   budget of attempts that every way back into the queue charges.
6. `PressurePolicy`: hysteresis, as pure operators checked against a reference.
7. `SettledLater`: other small components in which a decision is taken before an await
   and carried out after it (idle reaper, boot sweep).
8. Execution worktrees, pane polling, takeover.

Bounds: two or three processes, workers or works each, one crash; liveness on the
smallest instance in which two of them compete. Proofs still wanted: `CallHoldsLease` with
`Revisions` or `Overlap` (TLC finds it to hold with either, for two orders on one
session, and to fail with both, so `PoolInv` needs a form that does without the
settling pass), and `KeepsStandingWork`.
New modules keep to what makes the present ones provable: constants with named
assumptions, one action per operation, no recursive operators.
