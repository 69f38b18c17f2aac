------------------------- MODULE DelegationJournal -------------------------
(***************************************************************************)
(* The append-only journal of the attempts to delegate ONE work order      *)
(* (src/core/loop/delegation-attempt.ts) and the callers that use it:      *)
(* the live dispatch (agent-queue.ts), messages rebuilt from the persisted *)
(* queue (supervisor-work-restore.ts) and the reconciliation that settles  *)
(* an attempt past its deadline (delegation-recovery.ts).                  *)
(*                                                                         *)
(* The journal is a set of write-once files shared by processes:           *)
(*   link[First], link[a]   first.json and <a>/next.json, naming the owner *)
(*   prepared, started, settled   the three event files of an attempt      *)
(*   debris                 a temporary file a crash left beside first.json*)
(* A call reads the journal, then publishes at most two files; another     *)
(* process may act, and the caller may crash, between any two of those     *)
(* steps.  Callers of one process are serialized by its event loop, so the *)
(* interleavings here include all that it can produce.                     *)
(***************************************************************************)
EXTENDS Naturals, FiniteSets

CONSTANTS Caller,      \* processes and reconstructed messages using the journal
          Attempt,     \* attempt ids: fresh message ids, never reused
          First, None,
          HookSkipped, \* the queue may run a message without its `started`
                       \* hook, as MessageQueue's run QueueStaleHook shows
          MaxCrashes   \* bound on the crashes explored

ASSUME JournalAssumption ==
  /\ First \notin Attempt /\ None \notin Attempt /\ First # None
  /\ HookSkipped \in BOOLEAN /\ MaxCrashes \in Nat

VARIABLES link,      \* [Slot -> Attempt or None]: the ownership chain
          prepared,  \* attempts whose directory and prepared.json exist
          started,   \* [Attempt -> none | claimed | cancelled]: started.json
          settled,   \* [Attempt -> none | success | failure | timeout]
          debris,    \* a temporary file outlived its writer beside first.json
          job,       \* [Caller -> the call it is in the middle of]
          claims,    \* history: how many claims of an attempt returned true
          crashes

vars == <<link, prepared, started, settled, debris, job, claims, crashes>>

Slot == Attempt \cup {First}

Stages == {"idle", "reserving", "linking", "preparing", "queued", "claiming",
           "owner", "fencing", "settling"}

Job == [at : Stages, attempt : Attempt \cup {None}, slot : Slot \cup {None},
        restored : BOOLEAN, mine : BOOLEAN,
        result : {"none", "success", "failure", "timeout"}]

\* A call that has not been granted the execution of its attempt.
Call(stage, a, slot, restored, result) ==
  [at |-> stage, attempt |-> a, slot |-> slot, restored |-> restored,
   mine |-> FALSE, result |-> result]

Idle == Call("idle", None, None, FALSE, "none")

Init == /\ link = [s \in Slot |-> None]
        /\ prepared = {}
        /\ started = [a \in Attempt |-> "none"]
        /\ settled = [a \in Attempt |-> "none"]
        /\ debris = FALSE
        /\ job = [c \in Caller |-> Idle]
        /\ claims = [a \in Attempt |-> 0]
        /\ crashes = 0

-----------------------------------------------------------------------------
(* Reading the journal *)

Linked == {link[s] : s \in Slot} \ {None}

\* readDelegationAttempt: the phase the event files of a stand for.  Every
\* other combination is "invalid": no prepared.json, a cancelled start that was
\* not settled, a success without a start.
IsPrepared(a) ==
  a \in prepared /\ started[a] = "none" /\ settled[a] = "none"
IsStarted(a) ==
  a \in prepared /\ started[a] = "claimed" /\ settled[a] = "none"
IsSettled(a) ==
  /\ a \in prepared /\ settled[a] # "none"
  /\ settled[a] = "success" => started[a] = "claimed"

\* Somebody's unpublished first.json lies in the journal's root directory.
RootLittered ==
  debris \/ \E c \in Caller : job[c].at = "linking" /\ job[c].slot = First

\* readOwnership returns instead of throwing.
Readable ==
  /\ link[First] = None => ~RootLittered
  /\ \A a \in Linked :
       IsSettled(a) \/ (link[a] = None /\ (IsPrepared(a) \/ IsStarted(a)))

Current(a) == a \in Linked /\ link[a] = None

\* No attempt holds the work order and `slot` is where the next one links.
Vacant(slot) ==
  /\ Readable
  /\ IF slot = First THEN link[First] = None
     ELSE Current(slot) /\ IsSettled(slot)

OwnsCurrentAttempt(a) == Readable /\ Current(a)

Enter(c, stage) == job' = [job EXCEPT ![c].at = stage]
Drop(c) == job' = [job EXCEPT ![c] = Idle]

-----------------------------------------------------------------------------
(* prepareDelegationAttempt *)

\* The reads.  A caller that finds the work order held throws: no step at all.
Prepare(c, a, slot) ==
  /\ job[c].at = "idle"
  /\ a \notin Linked /\ \A d \in Caller : job[d].attempt # a
  /\ Vacant(slot)
  /\ job' = [job EXCEPT ![c] = Call("reserving", a, slot, FALSE, "none")]
  /\ UNCHANGED <<link, prepared, started, settled, debris, claims, crashes>>

\* writeOnce writes its temporary file ...
StageOwner(c) ==
  /\ job[c].at = "reserving"
  /\ Enter(c, "linking")
  /\ UNCHANGED <<link, prepared, started, settled, debris, claims, crashes>>

\* Faulty variant: the owner record is renamed over an existing one.
LinkOwnerReplacing(c) ==
  /\ job[c].at = "linking"
  /\ link' = [link EXCEPT ![job[c].slot] = job[c].attempt]
  /\ Enter(c, "preparing")
  /\ UNCHANGED <<prepared, started, settled, debris, claims, crashes>>

\* ... and links it to the slot's name, which fails when the name exists.
LinkOwner(c) ==
  /\ job[c].at = "linking"
  /\ IF link[job[c].slot] = None
     THEN /\ link' = [link EXCEPT ![job[c].slot] = job[c].attempt]
          /\ Enter(c, "preparing")
     ELSE UNCHANGED link /\ Drop(c)
  /\ UNCHANGED <<prepared, started, settled, debris, claims, crashes>>

\* mkdir and prepared.json: readers see no difference before the second.
PublishPrepared(c) ==
  /\ job[c].at = "preparing"
  /\ prepared' = prepared \cup {job[c].attempt}
  /\ Enter(c, "queued")
  /\ UNCHANGED <<link, started, settled, debris, claims, crashes>>

\* restoredLoopSupervisorMessage: a persisted message of a prepared attempt.
Restore(c, a) ==
  /\ job[c].at = "idle"
  /\ IsPrepared(a)
  /\ job' = [job EXCEPT ![c] = Call("queued", a, None, TRUE, "none")]
  /\ UNCHANGED <<link, prepared, started, settled, debris, claims, crashes>>

-----------------------------------------------------------------------------
(* claimDelegationAttempt, from the queue's `started` hook *)

\* The message of a live dispatch whose claim fails disowns the attempt and
\* leaves; a restored one only answers false and stays in the queue.
LoseClaim(c) == IF job[c].restored THEN Enter(c, "queued") ELSE Drop(c)

\* ownsExecution (`consumed` in the live dispatch) is set: the turn may run.
BecomeOwner(c) == job' = [job EXCEPT ![c].at = "owner", ![c].mine = TRUE]

BeginClaim(c) ==
  /\ job[c].at = "queued"
  /\ IF IsPrepared(job[c].attempt) /\ OwnsCurrentAttempt(job[c].attempt)
     THEN Enter(c, "claiming")
     ELSE LoseClaim(c)
  /\ UNCHANGED <<link, prepared, started, settled, debris, claims, crashes>>

\* Faulty variant: started.json replaced instead of published once.
LinkStartedReplacing(c) ==
  LET a == job[c].attempt IN
  /\ job[c].at = "claiming"
  /\ started' = [started EXCEPT ![a] = "claimed"]
  /\ claims' = [claims EXCEPT ![a] = @ + 1]
  /\ BecomeOwner(c)
  /\ UNCHANGED <<link, prepared, settled, debris, crashes>>

LinkStarted(c) ==
  LET a == job[c].attempt IN
  /\ job[c].at = "claiming"
  /\ IF started[a] = "none"
     THEN /\ started' = [started EXCEPT ![a] = "claimed"]
          /\ claims' = [claims EXCEPT ![a] = @ + 1]
          /\ BecomeOwner(c)
     ELSE UNCHANGED <<started, claims>> /\ LoseClaim(c)
  /\ UNCHANGED <<link, prepared, settled, debris, crashes>>

-----------------------------------------------------------------------------
(* settleDelegationAttempt *)

\* Faulty variant: any caller may settle a started attempt.
MaySettleUnowned(c) ==
  OwnsCurrentAttempt(job[c].attempt) /\ IsStarted(job[c].attempt)

\* The checks.  A failure before the start must first win started.json; a
\* success before it is an error; once started, only its claimant may settle.
MayFence(c, result) ==
  /\ OwnsCurrentAttempt(job[c].attempt) /\ IsPrepared(job[c].attempt)
  /\ result = "failure"

MaySettle(c) ==
  /\ OwnsCurrentAttempt(job[c].attempt) /\ IsStarted(job[c].attempt)
  /\ job[c].mine

Publishing(c, stage, result) ==
  job' = [job EXCEPT ![c].at = stage, ![c].result = result]

\* The queue resolves or rejects the message: its turn ended, or it was
\* cancelled, refused, overdue.  Only a message handled without its hook can
\* resolve although it never claimed.
BeginSettle(c, result) ==
  /\ job[c].at \in {"queued", "owner"}
  /\ result = "success" => job[c].mine \/ HookSkipped
  /\ \/ MayFence(c, result) /\ Publishing(c, "fencing", result)
     \/ MaySettle(c) /\ Publishing(c, "settling", result)
     \/ ~MayFence(c, result) /\ ~MaySettle(c) /\ Drop(c)
  /\ UNCHANGED <<link, prepared, started, settled, debris, claims, crashes>>

\* Faulty variant: the fence is published and taken for the settlement.
FenceOnly(c) ==
  LET a == job[c].attempt IN
  /\ job[c].at = "fencing"
  /\ Drop(c)
  /\ IF started[a] = "none"
     THEN started' = [started EXCEPT ![a] = "cancelled"]
     ELSE UNCHANGED started
  /\ UNCHANGED <<link, prepared, settled, debris, claims, crashes>>

\* cancelledBeforeStart competes with the claim for started.json.
Fence(c) ==
  LET a == job[c].attempt IN
  /\ job[c].at = "fencing"
  /\ IF started[a] = "none"
     THEN started' = [started EXCEPT ![a] = "cancelled"] /\ Enter(c, "settling")
     ELSE UNCHANGED started /\ Drop(c)
  /\ UNCHANGED <<link, prepared, settled, debris, claims, crashes>>

PublishSettled(c) ==
  LET a == job[c].attempt IN
  /\ job[c].at = "settling"
  /\ settled' = IF settled[a] = "none"
                THEN [settled EXCEPT ![a] = job[c].result] ELSE settled
  /\ Drop(c)
  /\ UNCHANGED <<link, prepared, started, debris, claims, crashes>>

\* Faulty variant: reconciliation settles without ownsExecution.
ExpireUnowned(c, a) ==
  /\ job[c].at = "idle"
  /\ OwnsCurrentAttempt(a) /\ IsStarted(a)
  /\ UNCHANGED vars

\* settleExpiredStartedDelegationAttempt: the persisted deadline of the
\* current, started attempt has passed; its claimant may still be running.
Expire(c, a) ==
  /\ job[c].at = "idle"
  /\ OwnsCurrentAttempt(a) /\ IsStarted(a)
  /\ job' = [job EXCEPT ![c] = Call("settling", a, None, FALSE, "timeout")]
  /\ UNCHANGED <<link, prepared, started, settled, debris, claims, crashes>>

-----------------------------------------------------------------------------
\* A process dies; what it had published stays.
Crash(c) ==
  /\ crashes < MaxCrashes
  /\ job[c].at # "idle"
  /\ crashes' = crashes + 1
  /\ debris' = (debris \/ (job[c].at = "linking" /\ job[c].slot = First))
  /\ Drop(c)
  /\ UNCHANGED <<link, prepared, started, settled, claims>>

\* The steps a call takes once it has begun.
Continue(c) ==
  \/ StageOwner(c) \/ LinkOwner(c) \/ PublishPrepared(c)
  \/ LinkStarted(c) \/ Fence(c) \/ PublishSettled(c)

Settle(c) == \E result \in {"success", "failure"} : BeginSettle(c, result)

Next == \E c \in Caller :
  \/ \E a \in Attempt, slot \in Slot : Prepare(c, a, slot)
  \/ \E a \in Attempt : Restore(c, a) \/ Expire(c, a)
  \/ BeginClaim(c)
  \/ Settle(c)
  \/ Continue(c)
  \/ Crash(c)

Spec == Init /\ [][Next]_vars

\* Fairness, from the code's own timers.  A call that has begun runs on.  A turn
\* is bounded (maxWaitDoneTotal) and so is a live dispatch's wait for its turn
\* (the consumption timer): both end in resolve or reject.  Reconciliation is
\* periodic and each attempt has a persisted deadline.
TurnEnds(c) == (job[c].at = "owner" \/ ~job[c].restored) /\ Settle(c)

Fairness == \A c \in Caller : /\ WF_vars(Continue(c))
                              /\ WF_vars(TurnEnds(c))
                              /\ \A a \in Attempt : WF_vars(Expire(c, a))
FairSpec == Spec /\ Fairness

-----------------------------------------------------------------------------
(* Properties *)

\* The files and the calls in progress have the shapes above.
TypeOK == /\ link \in [Slot -> Attempt \cup {None}]
          /\ prepared \subseteq Attempt
          /\ started \in [Attempt -> {"none", "claimed", "cancelled"}]
          /\ settled \in [Attempt -> {"none", "success", "failure", "timeout"}]
          /\ debris \in BOOLEAN
          /\ job \in [Caller -> Job]
          /\ \A c \in Caller : job[c].at # "idle" => job[c].attempt \in Attempt
          /\ claims \in [Attempt -> Nat]
          /\ crashes \in 0..MaxCrashes

\* Whatever callers race and wherever they crash, an attempt gets a successor
\* only after its own settlement was published, so at most one attempt of the
\* work order is ever open (delegation-attempt.ts, readOwnership).
SettledBeforeSuccessor ==
  \A a \in Attempt : link[a] # None => settled[a] # "none"

\* An attempt is claimed once in its life: its prompt is not run again by a
\* second process, by a restored copy of its message, or after a restart; and
\* an attempt cancelled before its start is never run at all.
ClaimedAtMostOnce ==
  \A a \in Attempt : claims[a] <= IF started[a] = "claimed" THEN 1 ELSE 0

\* A recorded success belongs to an attempt somebody was allowed to run.
SuccessWasClaimed ==
  \A a \in Attempt : settled[a] = "success" => claims[a] = 1

\* The step that settles a started attempt is one of the call whose claim
\* started it, and records the outcome of its turn; or it is the deadline's.  A
\* copy of the message or a second process never settles it, the claimant being
\* alive or not (delegation-attempt.ts, ownsExecution).
OnlyClaimantSettles ==
  [][\A a \in Attempt :
       started[a] = "claimed" /\ settled[a] = "none" /\ settled'[a] # "none"
       => \E c \in Caller :
            /\ job[c].attempt = a /\ job[c].result = settled'[a] /\ job'[c] # job[c]
            /\ job[c].mine \/ settled'[a] = "timeout"]_vars

\* A settlement is frozen: neither a late turn nor the deadline replaces it.
SettlementIsFinal ==
  [][\A a \in Attempt : settled[a] # "none" => settled'[a] = settled[a]]_vars

\* As long as nobody crashes, a journal at rest never needs reconciliation:
\* every attempt in it is settled and the next one can be reserved.
QuietMeansVacant ==
  crashes = 0 /\ (\A c \in Caller : job[c] = Idle)
    => \E slot \in Slot : Vacant(slot)

\* Every reserved attempt is settled, unless its caller crashes; once started it is
\* settled even when its claimant crashes.
EveryAttemptSettles ==
  /\ \A a \in Attempt : (a \in Linked) ~> (settled[a] # "none" \/ crashes > 0)
  /\ \A a \in Attempt : (started[a] = "claimed") ~> (settled[a] # "none")
=============================================================================
