------------------------ MODULE CapacityLeasesProofs ------------------------
(***************************************************************************)
(* What CapacityLeases guarantees for any set of work: an unfinished       *)
(* project or review order that names the supervisor's agent keeps its     *)
(* lease whatever else runs, so nothing starts beside it; where all orders *)
(* are of this sort, work starts alone.  CapacityAgent.cfg,                *)
(* CapacityWorkspace.cfg and CapacityWindow.cfg refute the latter for an   *)
(* order of another agent, a workspace's job and a delegation.             *)
(***************************************************************************)
EXTENDS CapacityLeases, FiniteSetTheorems, TLAPS

\* Which operations exist for which work, and when its order is registered.
Shape ==
  \A w \in Work :
    /\ phase[w] = "reserving" => KindOf[w] = "delegate"
    /\ phase[w] = "closing" => w \notin registered
    /\ KindOf[w] = "system" => w \notin registered

\* A job without work order holds its lease as long as it runs, inside one tick,
\* so that no reconciliation of leases happens beside it.
SystemHolds ==
  \A w \in Work : phase[w] = "working" /\ KindOf[w] = "system"
                  => w \in lease /\ tick = "running"

LeaseInv == TypeOK /\ Shape /\ OrderHoldsLease /\ SystemHolds

-----------------------------------------------------------------------------
(* Background and repair work is admitted only without a lease of others. *)
LEMMA AdmittedAlone ==
  ASSUME TypeOK, NEW w \in Work, NEW trigger \in Trigger, Admits(w, trigger), Serialized(trigger)
  PROVE  lease \subseteq {w}
<1>1. Cardinality(lease \ {w}) = 0
  BY DEF Admits, CapacityAdmits
<1>2. IsFiniteSet(lease \ {w})
  BY CapacityAssumption, FS_Subset DEF TypeOK
<1>3. lease \ {w} = {}
  BY <1>1, <1>2, FS_EmptySet
<1> QED BY <1>3

\* Nothing is registered, held or running at first.
LEMMA LeaseInvInit == Init => LeaseInv
<1> SUFFICES ASSUME Init PROVE LeaseInv
  OBVIOUS
<1>1. TypeOK
  <2>1. crashes \in 0..MaxCrashes
    BY CapacityAssumption DEF Init
  <2>2. registered \subseteq Work /\ lease \subseteq Work
    BY DEF Init
  <2>3. usage \in Usage /\ cooling \in BOOLEAN
    BY DEF Init, Usage
  <2>4. phase \in [Work -> {"idle", "reserving", "working", "closing"}]
    BY DEF Init
  <2> QED BY <2>1, <2>2, <2>3, <2>4 DEF Init, TypeOK
<1>2. OrderHoldsLease
  BY DEF Init, OrderHoldsLease
<1>3. Shape /\ SystemHolds
  BY DEF Init, Shape, SystemHolds
<1> QED BY <1>1, <1>2, <1>3 DEF LeaseInv

\* Every step keeps the leases of the work that needs them.
LEMMA LeaseInvStep == ASSUME LeaseInv, [Next]_vars PROVE LeaseInv'
<1> USE CapacityAssumption DEF LeaseInv
<1>1. ASSUME NEW w \in Work, StartSupervised(w) PROVE LeaseInv'
  BY <1>1 DEF StartSupervised, Due, Acquire, Enter, OnMainTick, TypeOK, Shape, OrderHoldsLease, Traceable, SystemHolds
<1>2. ASSUME NEW w \in Work, SkipSupervised(w) PROVE LeaseInv'
  BY <1>2 DEF SkipSupervised, Due, TypeOK, Shape, OrderHoldsLease, Traceable, SystemHolds
<1>3. ASSUME NEW w \in Work, StartSystem(w) PROVE LeaseInv'
  BY <1>3 DEF StartSystem, Due, Acquire, Enter, OnMainTick, TypeOK, Shape, OrderHoldsLease, Traceable, SystemHolds
<1>4. ASSUME NEW w \in Work, AdmitDelegate(w) PROVE LeaseInv'
  BY <1>4 DEF AdmitDelegate, Acquire, Enter, TypeOK, Shape, OrderHoldsLease, Traceable, SystemHolds
<1>5. ASSUME NEW w \in Work, ResumeDelegate(w) PROVE LeaseInv'
  BY <1>5 DEF ResumeDelegate, Acquire, Enter, TypeOK, Shape, OrderHoldsLease, Traceable, SystemHolds
<1>6. ASSUME NEW w \in Work, FinishOrder(w) PROVE LeaseInv'
  BY <1>6 DEF FinishOrder, Enter, TypeOK, Shape, OrderHoldsLease, Traceable, SystemHolds
<1>7. ASSUME NEW w \in Work, Settle(w) PROVE LeaseInv'
  BY <1>7 DEF Settle, Enter, TypeOK, Shape, OrderHoldsLease, Traceable, SystemHolds
<1>8. ASSUME NEW w \in Work, LaunchDelegate(w) PROVE LeaseInv'
  BY <1>8 DEF LaunchDelegate, Enter, TypeOK, Shape, OrderHoldsLease, Traceable, SystemHolds
<1>9. ASSUME NEW w \in Work, AbortDelegate(w) PROVE LeaseInv'
  BY <1>9 DEF AbortDelegate, Enter, TypeOK, Shape, OrderHoldsLease, Traceable, SystemHolds
<1>10. ASSUME NEW w \in Work, Recover(w) PROVE LeaseInv'
  BY <1>10 DEF Recover, TypeOK, Shape, OrderHoldsLease, Traceable, SystemHolds
<1>11. ASSUME NEW w \in Work, Unlist(w) PROVE LeaseInv'
  BY <1>11 DEF Unlist, TypeOK, Shape, OrderHoldsLease, Traceable, SystemHolds
<1>12. ASSUME NEW w \in Work, Expire(w) PROVE LeaseInv'
  BY <1>12 DEF Expire, TypeOK, Shape, OrderHoldsLease, Traceable, SystemHolds
<1>13. ASSUME BeginTick PROVE LeaseInv'
  BY <1>13 DEF BeginTick, TypeOK, Shape, OrderHoldsLease, Traceable, SystemHolds
<1>14. ASSUME EndRecovery PROVE LeaseInv'
  BY <1>14 DEF EndRecovery, ReconcileLeases, InUse, TypeOK, Shape, OrderHoldsLease, Traceable, SystemHolds
<1>15. ASSUME EndTick PROVE LeaseInv'
  BY <1>15 DEF EndTick, OnMainTick, TypeOK, Shape, OrderHoldsLease, Traceable, SystemHolds
<1>16. ASSUME NEW state \in Usage, Observe(state) PROVE LeaseInv'
  BY <1>16 DEF Observe, TypeOK, Shape, OrderHoldsLease, Traceable, SystemHolds
<1>17. ASSUME CoolDown PROVE LeaseInv'
  BY <1>17 DEF CoolDown, TypeOK, Shape, OrderHoldsLease, Traceable, SystemHolds
<1>18. ASSUME Crash PROVE LeaseInv'
  BY <1>18 DEF Crash, TypeOK, Shape, OrderHoldsLease, Traceable, SystemHolds
<1>19. CASE UNCHANGED vars
  BY <1>19 DEF vars, TypeOK, Shape, OrderHoldsLease, Traceable, SystemHolds
<1> QED
  BY <1>1, <1>2, <1>3, <1>4, <1>5, <1>6, <1>7, <1>8, <1>9, <1>10, <1>11, <1>12,
     <1>13, <1>14, <1>15, <1>16, <1>17, <1>18, <1>19 DEF Next, Finish

\* The inductive invariant of the leases.
THEOREM LeaseInvariant == Spec => []LeaseInv
  BY LeaseInvInit, LeaseInvStep, PTL DEF Spec

\* A listed project or review order that names the supervisor's agent keeps its
\* lease (reconcileAutonomousCapacityLeases).
THEOREM OrdersKeepLeases == Spec => []OrderHoldsLease
<1>1. LeaseInv => OrderHoldsLease
  BY DEF LeaseInv
<1> QED BY <1>1, LeaseInvariant, PTL

\* Background and repair work starts only when no job that keeps its lease is
\* under way (AutonomousWorkCoordinator.execute, admitAutomationWork).
THEOREM NothingJoinsAJob == Spec => StartsBesideNoJob
<1> DEFINE Alone == \A w \in Work :
       ~UnderWay(w) /\ UnderWay(w)' /\ Serialized(TriggerOf[w])
       => \A v \in Work \ {w} :
            Traceable(v) \/ KindOf[v] = "system" => ~UnderWay(v)
<1>1. ASSUME LeaseInv, [Next]_vars PROVE [Alone]_vars
  <2> SUFFICES ASSUME NEW w \in Work, ~UnderWay(w), UnderWay(w)', Serialized(TriggerOf[w]),
                      NEW v \in Work \ {w}, UnderWay(v),
                      Traceable(v) \/ KindOf[v] = "system"
               PROVE  FALSE
    OBVIOUS
  <2> USE CapacityAssumption, <1>1 DEF LeaseInv
  <2>1. v \in lease
    BY DEF UnderWay, Traceable, Shape, OrderHoldsLease, SystemHolds
  <2>2. PICK u \in Work : StartSupervised(u) \/ StartSystem(u) \/ AdmitDelegate(u)
    BY DEF UnderWay, TypeOK, Shape, Next, Finish, vars, SkipSupervised, ResumeDelegate,
       FinishOrder, Settle, LaunchDelegate, AbortDelegate, Unlist, Recover, Expire, BeginTick,
       EndRecovery, EndTick, Observe, CoolDown, Crash, Enter
  <2>3. u = w
    BY <2>2 DEF UnderWay, TypeOK, StartSupervised, StartSystem, AdmitDelegate, Enter
  <2>4. Admits(w, TriggerOf[w]) /\ TriggerOf[w] \in Trigger
    BY <2>2, <2>3 DEF StartSupervised, StartSystem, AdmitDelegate
  <2>5. lease \subseteq {w}
    BY <2>4, AdmittedAlone
  <2> QED BY <2>1, <2>5
<1> QED BY <1>1, LeaseInvariant, PTL DEF Spec, StartsBesideNoJob

\* Where every order names the supervisor's agent, and there are neither workspace
\* jobs nor delegations, work starts only when no other is under way.
THEOREM WorkStartsAlone ==
  ASSUME \A w \in Work : Traceable(w) \/ KindOf[w] = "system"
  PROVE  Spec => StartsAlone
<1>1. (\A w \in Work : ~UnderWay(w) /\ UnderWay(w)' /\ Serialized(TriggerOf[w])
        => \A v \in Work \ {w} :
             Traceable(v) \/ KindOf[v] = "system" => ~UnderWay(v))
      => (\A w \in Work : ~UnderWay(w) /\ UnderWay(w)' /\ Serialized(TriggerOf[w])
           => \A v \in Work \ {w} : ~UnderWay(v))
  OBVIOUS
<1> QED BY <1>1, NothingJoinsAJob, PTL DEF StartsAlone, StartsBesideNoJob
=============================================================================
