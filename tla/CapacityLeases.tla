--------------------------- MODULE CapacityLeases ---------------------------
(***************************************************************************)
(* The capacity leases that serialize autonomous heavy work of one agent:  *)
(* AutonomousWorkCoordinator and AgentCapacityStore (src/core/automation), *)
(* the Loop Engineering ticks that use and reconcile them                  *)
(* (src/core/loop/service.ts) and active delegation                        *)
(* (src/core/autopilot/delegated-task.ts).                                 *)
(*                                                                         *)
(* The leases, the registry of work orders and the last observed usage are *)
(* files; the operations that run under a lease live in the process and    *)
(* die with it, while the worker of a registered order works on in tmux.   *)
(* An operation takes its lease, and a Loop Engineering one also registers *)
(* its work order, without an await in between; a delegation awaits a free *)
(* supervisor first.                                                       *)
(*                                                                         *)
(* Every agent has a capacity record of its own; this is the record of the *)
(* agent that runs the supervisor.  Loop Engineering takes all its leases  *)
(* there, but reconciles them by the agent its order names, which is that  *)
(* of the project, repository or workspace.  A delegation uses the record  *)
(* of its order's agent throughout; those of other agents do not appear.   *)
(***************************************************************************)
EXTENDS Naturals, FiniteSets

CONSTANTS Work,      \* units of heavy work: one intent id, one lease id each
          KindOf,    \* [Work -> Kind]
          TriggerOf, \* [Work -> Trigger]
          AgentOf,   \* [Work -> agent its work order names]
          SupervisorAgent, \* the agent of the supervisor, and of this record
          MaxCrashes \* bound on the crashes explored

Kind == {"project",     \* a project's supervised job, run by the main tick
         "workspace",   \* a workspace's supervised job, run by the main tick
         "system",      \* a job without work order, run by the main tick
         "review",      \* a repository review, run by the review tick
         "delegate"}    \* an active delegation

Trigger == {"background", "resource-repair", "operator"}

ASSUME CapacityAssumption ==
  /\ KindOf \in [Work -> Kind]
  /\ TriggerOf \in [Work -> Trigger]
  /\ \A w \in Work : IF KindOf[w] = "delegate" THEN AgentOf[w] = SupervisorAgent
                                               ELSE TriggerOf[w] = "background"
  /\ IsFiniteSet(Work)
  /\ MaxCrashes \in Nat

VARIABLES phase,      \* [Work -> the operation in this process]
          registered, \* work orders that the registry lists as unfinished
          lease,      \* unexpired leases of the record
          usage,      \* state of the last capacity observation
          cooling,    \* lastAutonomousStartAt is less than 30 minutes ago
          tick,       \* the main tick
          crashes

vars == <<phase, registered, lease, usage, cooling, tick, crashes>>

Usage == {"available", "constrained", "exhausted", "unknown"}

Init == /\ phase = [w \in Work |-> "idle"]
        /\ registered = {} /\ lease = {}
        /\ usage = "unknown"   \* ensureUnknown
        /\ cooling = FALSE
        /\ tick = "booting"
        /\ crashes = 0

OnMainTick(w) == KindOf[w] \in {"project", "workspace", "system"}

-----------------------------------------------------------------------------
(* Admission *)

\* shouldSerializeAutonomousHeavyWork
Serialized(trigger) == trigger \in {"background", "resource-repair"}

\* Faulty variant: only unknown capacity looks at the other leases.
CapacityAdmitsStacked(trigger, others, cooled) ==
  /\ usage # "exhausted"
  /\ \/ trigger = "operator"
     \/ usage = "available"
     \/ usage = "unknown" /\ trigger # "resource-repair" /\ others = 0 /\ cooled

\* decideCapacityAdmission, then serialization.  Quiet hours, the owner's
\* activity and the Resource Guardian may refuse besides: then nothing happens.
CapacityAdmits(trigger, others, cooled) ==
  /\ usage # "exhausted"
  /\ \/ trigger = "operator"
     \/ usage = "available"
     \/ usage = "unknown" /\ trigger # "resource-repair" /\ others = 0 /\ cooled
  /\ Serialized(trigger) => others = 0

\* admit: a lease this work already has does not stand in its own way.
Admits(w, trigger) ==
  CapacityAdmits(trigger, Cardinality(lease \ {w}), w \in lease \/ ~cooling)

Acquire(w) == lease' = lease \cup {w} /\ cooling' = TRUE
Enter(w, stage) == phase' = [phase EXCEPT ![w] = stage]

\* A main-tick or review-tick job may start here and now.
Due(w) ==
  /\ phase[w] = "idle" /\ w \notin registered
  /\ \/ OnMainTick(w) /\ tick = "running"
     \/ KindOf[w] = "review" /\ tick # "booting"

\* execute and runSupervisedDue up to its first await: admission, lease,
\* assessment, revalidation, and the work order in state "dispatching".
StartSupervised(w) ==
  /\ KindOf[w] \in {"project", "workspace", "review"}
  /\ Due(w) /\ Admits(w, TriggerOf[w])
  /\ Acquire(w)
  /\ registered' = registered \cup {w}
  /\ Enter(w, "working")
  /\ UNCHANGED <<usage, tick, crashes>>

\* The assessment finds nothing to do, or revalidation defers: settled at once.
SkipSupervised(w) ==
  /\ KindOf[w] \in {"project", "workspace", "review"}
  /\ Due(w) /\ Admits(w, TriggerOf[w])
  /\ cooling' = TRUE
  /\ lease' = lease \ {w}
  /\ UNCHANGED <<phase, registered, usage, tick, crashes>>

\* runSystemDue has no work order.
StartSystem(w) ==
  /\ KindOf[w] = "system"
  /\ Due(w) /\ Admits(w, TriggerOf[w])
  /\ Acquire(w)
  /\ Enter(w, "working")
  /\ UNCHANGED <<registered, usage, tick, crashes>>

\* startActiveDelegatedTask takes the lease, then awaits a supervisor session ...
AdmitDelegate(w) ==
  /\ KindOf[w] = "delegate"
  /\ phase[w] = "idle" /\ w \notin registered
  /\ Admits(w, TriggerOf[w])
  /\ Acquire(w)
  /\ Enter(w, "reserving")
  /\ UNCHANGED <<registered, usage, tick, crashes>>

\* ... then registers the work order and hands the lease over, ...
LaunchDelegate(w) ==
  /\ phase[w] = "reserving"
  /\ registered' = registered \cup {w}
  /\ Enter(w, "working")
  /\ UNCHANGED <<lease, usage, cooling, tick, crashes>>

\* ... or finds none and settles.
AbortDelegate(w) ==
  /\ phase[w] = "reserving"
  /\ lease' = lease \ {w}
  /\ Enter(w, "idle")
  /\ UNCHANGED <<registered, usage, cooling, tick, crashes>>

\* launchActiveDelegatedTask after a restart, with trigger "reconcile".
ResumeDelegate(w) ==
  /\ KindOf[w] = "delegate"
  /\ phase[w] = "idle" /\ w \in registered
  /\ tick # "booting"
  /\ Admits(w, "reconcile")
  /\ Acquire(w)
  /\ Enter(w, "working")
  /\ UNCHANGED <<registered, usage, tick, crashes>>

-----------------------------------------------------------------------------
(* The end of an operation *)

\* The worker writes its valid final summary, or the order is 12 hours old: the
\* registry lists it no more, though it is not terminal and its operation may be
\* about to ask the worker for a revision.  Orders of delegations have a journal
\* and stay listed.
Unlist(w) ==
  /\ w \in registered /\ KindOf[w] # "delegate"
  /\ registered' = registered \ {w}
  /\ UNCHANGED <<phase, lease, usage, cooling, tick, crashes>>

\* The result is in: the work order becomes terminal before the awaits
\* (cleanup, notification) that precede settle.
FinishOrder(w) ==
  /\ phase[w] = "working" /\ KindOf[w] # "system"
  /\ registered' = registered \ {w}
  /\ Enter(w, "closing")
  /\ UNCHANGED <<lease, usage, cooling, tick, crashes>>

\* settle, in the `finally` of execute or of the delegation.
Settle(w) ==
  /\ \/ phase[w] = "closing"
     \/ phase[w] = "working" /\ KindOf[w] = "system"
  /\ lease' = lease \ {w}
  /\ Enter(w, "idle")
  /\ UNCHANGED <<registered, usage, cooling, tick, crashes>>

-----------------------------------------------------------------------------
(* The main tick *)

\* Faulty variant: only the operations of this process keep a lease.
InUseHere(w) == phase[w] # "idle"

\* Faulty variant: leases are left to their 24-hour expiry.
InUseAlways(w) == TRUE

\* The leases of unfinished work orders, as far as they are looked for where
\* they were taken: under the agent that the order names, which may not be the
\* supervisor's, and for a workspace, whose lease is taken under the job key
\* "workspace:<id>:<kind>", under "<id>" and "<id>:<kind>".
InUse(w) == /\ w \in registered
            /\ AgentOf[w] = SupervisorAgent
            /\ KindOf[w] # "workspace"

ReconcileLeases == lease' = {w \in lease : InUse(w)}

BeginTick ==
  /\ tick = "off" /\ tick' = "recovering"
  /\ UNCHANGED <<phase, registered, lease, usage, cooling, crashes>>

\* reconcileLoopSupervisorWorkOrders settles an order whose operation is gone.
Recover(w) ==
  /\ tick \in {"booting", "recovering"}
  /\ phase[w] = "idle" /\ w \in registered
  /\ registered' = registered \ {w}
  /\ UNCHANGED <<phase, lease, usage, cooling, tick, crashes>>

\* Between recovery and the due jobs of a tick, and once during boot.
EndRecovery ==
  /\ \/ tick = "booting" /\ tick' = "off"
     \/ tick = "recovering" /\ tick' = "running"
  /\ ReconcileLeases
  /\ UNCHANGED <<phase, registered, usage, cooling, crashes>>

EndTick ==
  /\ tick = "running" /\ tick' = "off"
  /\ \A w \in Work : OnMainTick(w) => phase[w] = "idle"
  /\ UNCHANGED <<phase, registered, lease, usage, cooling, crashes>>

-----------------------------------------------------------------------------
(* The environment *)

\* A probe, a limit message in an agent's output, or a reset that has passed.
Observe(state) ==
  /\ usage' = state /\ state # usage
  /\ UNCHANGED <<phase, registered, lease, cooling, tick, crashes>>

CoolDown ==
  /\ cooling /\ cooling' = FALSE
  /\ UNCHANGED <<phase, registered, lease, usage, tick, crashes>>

\* The 24 hours of a lease are over; work orders time out long before.
Expire(w) ==
  /\ w \in lease /\ w \notin registered /\ phase[w] = "idle"
  /\ lease' = lease \ {w}
  /\ UNCHANGED <<phase, registered, usage, cooling, tick, crashes>>

Crash ==
  /\ crashes < MaxCrashes /\ crashes' = crashes + 1
  /\ phase' = [w \in Work |-> "idle"]
  /\ tick' = "booting"
  /\ UNCHANGED <<registered, lease, usage, cooling>>

Finish(w) == FinishOrder(w) \/ Settle(w) \/ LaunchDelegate(w) \/ AbortDelegate(w)

Next ==
  \/ \E w \in Work :
       \/ StartSupervised(w) \/ SkipSupervised(w) \/ StartSystem(w)
       \/ AdmitDelegate(w) \/ ResumeDelegate(w)
       \/ Finish(w)
       \/ Unlist(w) \/ Recover(w) \/ Expire(w)
  \/ BeginTick \/ EndRecovery \/ EndTick
  \/ \E state \in Usage : Observe(state)
  \/ CoolDown \/ Crash

Spec == Init /\ [][Next]_vars

\* Operations are bounded by timeouts, the main tick is a timer that a finished
\* tick rearms.
Fairness == /\ \A w \in Work : WF_vars(Finish(w))
            /\ WF_vars(BeginTick) /\ WF_vars(EndRecovery) /\ WF_vars(EndTick)
FairSpec == Spec /\ Fairness

-----------------------------------------------------------------------------
(* Properties *)

TypeOK == /\ phase \in [Work -> {"idle", "reserving", "working", "closing"}]
          /\ registered \subseteq Work
          /\ lease \subseteq Work
          /\ usage \in Usage
          /\ cooling \in BOOLEAN
          /\ tick \in {"booting", "off", "recovering", "running"}
          /\ crashes \in 0..MaxCrashes

\* The work is being prepared, or its worker has not reported yet.
UnderWay(w) == \/ w \in registered
               \/ phase[w] = "reserving"
               \/ phase[w] = "working" /\ KindOf[w] = "system"

\* Background and repair work starts only when no other heavy work of the agent
\* is under way, in this process or in a worker that outlived a crash
\* (docs/automation-alignment.md:217-221).
StartsAlone ==
  [][\A w \in Work :
       ~UnderWay(w) /\ UnderWay(w)' /\ Serialized(TriggerOf[w])
       => \A v \in Work \ {w} : ~UnderWay(v)]_vars

\* Orders whose lease is looked for under the agent and the key it was taken with.
Traceable(w) ==
  KindOf[w] \in {"project", "review"} /\ AgentOf[w] = SupervisorAgent

\* The same as far as the leases last: background and repair work, a delegation
\* included, never starts beside a project's job or a review that names the
\* supervisor's agent, or beside a job without work order, in this process or in
\* a worker that outlived a crash.
StartsBesideNoJob ==
  [][\A w \in Work :
       ~UnderWay(w) /\ UnderWay(w)' /\ Serialized(TriggerOf[w])
       => \A v \in Work \ {w} :
            Traceable(v) \/ KindOf[v] = "system" => ~UnderWay(v)]_vars

\* An unfinished project or review order that names the supervisor's agent keeps
\* its lease through crashes and restarts, until its worker has reported, or its
\* own operation or recovery has closed it (service.ts:169-213).
OrderHoldsLease ==
  \A w \in registered : Traceable(w) => w \in lease

\* A lease that nothing uses any more is given back by the ticks, not only by
\* its 24-hour expiry.
StrandedLeaseFreed ==
  \A w \in Work : (w \in lease) ~> (w \notin lease \/ UnderWay(w))
=============================================================================
