---------------------- MODULE DelegationJournalProofs ----------------------
(***************************************************************************)
(* What holds of the attempt journal for any number of callers, attempts   *)
(* and crashes, and that it implements ExclusiveAttempts.                  *)
(***************************************************************************)
EXTENDS DelegationJournalRefinement, TLAPS

(* What the helpers do to the calls in progress *)

LEMMA IdleOK == /\ Idle \in Job
                /\ Idle.at = "idle" /\ Idle.attempt = None /\ Idle.mine = FALSE
  BY DEF Idle, Call, Job, Stages

\* Moving a call to another stage changes nothing else of it.
LEMMA EnterOK ==
  ASSUME job \in [Caller -> Job], NEW c \in Caller, NEW stage \in Stages,
         Enter(c, stage)
  PROVE  /\ job' \in [Caller -> Job]
         /\ \A d \in Caller \ {c} : job'[d] = job[d]
         /\ job'[c].at = stage /\ job'[c].attempt = job[c].attempt
         /\ job'[c].slot = job[c].slot /\ job'[c].mine = job[c].mine
         /\ job'[c].result = job[c].result
  BY DEF Enter, Job

LEMMA OwnerOK ==
  ASSUME job \in [Caller -> Job], NEW c \in Caller, BecomeOwner(c)
  PROVE  /\ job' \in [Caller -> Job]
         /\ \A d \in Caller \ {c} : job'[d] = job[d]
         /\ job'[c].at = "owner" /\ job'[c].attempt = job[c].attempt
         /\ job'[c].mine
  BY DEF BecomeOwner, Job, Stages

LEMMA PublishingOK ==
  ASSUME job \in [Caller -> Job], NEW c \in Caller, NEW stage \in Stages,
         NEW result \in {"success", "failure"}, Publishing(c, stage, result)
  PROVE  /\ job' \in [Caller -> Job]
         /\ \A d \in Caller \ {c} : job'[d] = job[d]
         /\ job'[c].at = stage /\ job'[c].attempt = job[c].attempt
         /\ job'[c].mine = job[c].mine /\ job'[c].result = result
  BY DEF Publishing, Job

LEMMA DropOK ==
  ASSUME job \in [Caller -> Job], NEW c \in Caller, Drop(c)
  PROVE  /\ job' \in [Caller -> Job]
         /\ \A d \in Caller \ {c} : job'[d] = job[d]
         /\ job'[c] = Idle
  BY IdleOK DEF Drop

LEMMA LoseClaimOK ==
  ASSUME job \in [Caller -> Job], NEW c \in Caller, LoseClaim(c)
  PROVE  /\ job' \in [Caller -> Job]
         /\ \A d \in Caller \ {c} : job'[d] = job[d]
         /\ \/ job'[c] = Idle
            \/ /\ job'[c].at = "queued" /\ job'[c].attempt = job[c].attempt
               /\ job'[c].mine = job[c].mine
  BY EnterOK, DropOK DEF LoseClaim, Stages

\* Publishing an owner record adds exactly that attempt to the chain.
LEMMA LinkedGrows ==
  ASSUME link \in [Slot -> Attempt \cup {None}], NEW s \in Slot,
         link[s] = None, NEW a \in Attempt, link' = [link EXCEPT ![s] = a]
  PROVE  Linked' = Linked \cup {a}
  BY JournalAssumption DEF Linked

-----------------------------------------------------------------------------
(* Type correctness *)

LEMMA TypeInit == Init => TypeOK
<1>. SUFFICES ASSUME Init PROVE TypeOK
  OBVIOUS
<1>1. job \in [Caller -> Job] /\ \A c \in Caller : job[c].at = "idle"
  BY IdleOK DEF Init
<1>2. crashes \in 0..MaxCrashes
  BY JournalAssumption DEF Init
<1>3. debris \in BOOLEAN
  BY DEF Init
<1>. QED  BY <1>1, <1>2, <1>3 DEF Init, TypeOK

LEMMA TypeStep == TypeOK /\ [Next]_vars => TypeOK'
<1> SUFFICES ASSUME TypeOK, [Next]_vars PROVE TypeOK'
  OBVIOUS
<1>1. ASSUME NEW c \in Caller, NEW a \in Attempt, NEW slot \in Slot,
             Prepare(c, a, slot)
      PROVE TypeOK'
  <2>. DEFINE k == Call("reserving", a, slot, FALSE, "none")
  <2>1. k \in Job /\ k.attempt = a
    BY DEF Call, Job, Stages
  <2>2. job' = [job EXCEPT ![c] = k]
    BY <1>1 DEF Prepare
  <2>. HIDE DEF k
  <2>. QED  BY <1>1, <2>1, <2>2 DEF Prepare, TypeOK
<1>2. ASSUME NEW c \in Caller, NEW a \in Attempt, Restore(c, a)
      PROVE TypeOK'
  <2>. DEFINE k == Call("queued", a, None, TRUE, "none")
  <2>1. k \in Job /\ k.attempt = a
    BY DEF Call, Job, Stages
  <2>2. job' = [job EXCEPT ![c] = k]
    BY <1>2 DEF Restore
  <2>. HIDE DEF k
  <2>. QED  BY <1>2, <2>1, <2>2 DEF Restore, TypeOK
<1>3. ASSUME NEW c \in Caller, NEW a \in Attempt, Expire(c, a)
      PROVE TypeOK'
  <2>. DEFINE k == Call("settling", a, None, FALSE, "timeout")
  <2>1. k \in Job /\ k.attempt = a
    BY DEF Call, Job, Stages
  <2>2. job' = [job EXCEPT ![c] = k]
    BY <1>3 DEF Expire
  <2>. HIDE DEF k
  <2>. QED  BY <1>3, <2>1, <2>2 DEF Expire, TypeOK
<1>4. ASSUME NEW c \in Caller, BeginClaim(c) PROVE TypeOK'
  BY <1>4, EnterOK, LoseClaimOK, IdleOK DEF BeginClaim, TypeOK, Stages
<1>5. ASSUME NEW c \in Caller, Settle(c) PROVE TypeOK'
  <2>. PICK result \in {"success", "failure"} : BeginSettle(c, result)
    BY <1>5 DEF Settle
  <2>. QED  BY PublishingOK, DropOK, IdleOK DEF BeginSettle, TypeOK, Stages
<1>6. ASSUME NEW c \in Caller, StageOwner(c) PROVE TypeOK'
  BY <1>6, EnterOK DEF StageOwner, TypeOK, Stages
<1>7. ASSUME NEW c \in Caller, LinkOwner(c) PROVE TypeOK'
  <2>1. job' \in [Caller -> Job]
    BY <1>7, EnterOK, DropOK DEF LinkOwner, TypeOK, Stages
  <2>2. job[c].attempt \in Attempt \cup {None}
    BY DEF TypeOK, Job
  <2>3. \A d \in Caller : job'[d].at # "idle" => job'[d].attempt \in Attempt
    BY <1>7, EnterOK, DropOK, IdleOK DEF LinkOwner, TypeOK, Stages
  <2>. QED  BY <1>7, <2>1, <2>2, <2>3 DEF LinkOwner, TypeOK
<1>8. ASSUME NEW c \in Caller, PublishPrepared(c)
      PROVE TypeOK'
  BY <1>8, EnterOK DEF PublishPrepared, TypeOK, Stages
<1>9. ASSUME NEW c \in Caller, LinkStarted(c) PROVE TypeOK'
  <2>1. job' \in [Caller -> Job] /\ claims' \in [Attempt -> Nat]
    BY <1>9, OwnerOK, LoseClaimOK DEF LinkStarted, TypeOK
  <2>2. \A d \in Caller : job'[d].at # "idle" => job'[d].attempt \in Attempt
    BY <1>9, OwnerOK, LoseClaimOK, IdleOK DEF LinkStarted, TypeOK
  <2>. QED  BY <1>9, <2>1, <2>2 DEF LinkStarted, TypeOK
<1>10. ASSUME NEW c \in Caller, Fence(c) PROVE TypeOK'
  <2>1. job' \in [Caller -> Job]
    BY <1>10, EnterOK, DropOK DEF Fence, TypeOK, Stages
  <2>2. \A d \in Caller : job'[d].at # "idle" => job'[d].attempt \in Attempt
    BY <1>10, EnterOK, DropOK, IdleOK DEF Fence, TypeOK, Stages
  <2>. QED  BY <1>10, <2>1, <2>2 DEF Fence, TypeOK
<1>11. ASSUME NEW c \in Caller, PublishSettled(c) PROVE TypeOK'
  <2>1. job[c].result \in {"none", "success", "failure", "timeout"}
    BY DEF TypeOK, Job
  <2>. QED  BY <1>11, <2>1, DropOK, IdleOK DEF PublishSettled, TypeOK
<1>12. ASSUME NEW c \in Caller, Crash(c) PROVE TypeOK'
  <2>1. debris' \in BOOLEAN
    BY <1>12 DEF Crash, TypeOK
  <2>2. crashes' \in 0..MaxCrashes
    BY <1>12, JournalAssumption DEF Crash, TypeOK
  <2>. QED  BY <1>12, <2>1, <2>2, DropOK, IdleOK DEF Crash, TypeOK
<1>13. CASE UNCHANGED vars
  BY <1>13 DEF vars, TypeOK
<1>. QED
  BY <1>1, <1>2, <1>3, <1>4, <1>5, <1>6, <1>7, <1>8, <1>9, <1>10, <1>11,
     <1>12, <1>13 DEF Next, Continue

\* The journal's files and calls always have the shapes TypeOK states.
THEOREM TypeCorrect == Spec => []TypeOK
  BY TypeInit, TypeStep, PTL DEF Spec

-----------------------------------------------------------------------------
(***************************************************************************)
(* The inductive invariant.  The chain starts at First and has one end;    *)
(* an attempt's event files appear in order; and a call in progress still  *)
(* knows what it read, because the files it read are never replaced.       *)
(***************************************************************************)
OneEnd == \A a, b \in Linked : link[a] = None /\ link[b] = None => a = b

FromFirst == link[First] = None => Linked = {}

SuccessorsInChain == \A a \in Attempt : link[a] # None => a \in Linked

EventOrder ==
  \A a \in Attempt :
    /\ a \in prepared => a \in Linked
    /\ started[a] # "none" => a \in prepared
    /\ settled[a] # "none" => started[a] # "none"
    /\ settled[a] \in {"success", "timeout"} => started[a] = "claimed"
    /\ claims[a] = IF started[a] = "claimed" THEN 1 ELSE 0

\* A caller about to link an owner record: the attempt is its own, and every
\* attempt up to the slot it chose stays settled.
ReservingOK(c) ==
  job[c].at \in {"reserving", "linking"} =>
    /\ job[c].attempt \in Attempt \ Linked
    /\ job[c].slot \in Slot
    /\ job[c].slot # First =>
         job[c].slot \in Linked /\ settled[job[c].slot] # "none"
    /\ \A d \in Caller \ {c} : job[d].attempt # job[c].attempt

\* A caller holding an attempt, and what it may still publish about it.
HoldingOK(c) ==
  /\ job[c].at = "preparing" => job[c].attempt \in Linked
  /\ job[c].at \in {"queued", "claiming", "owner", "fencing", "settling"}
       => job[c].attempt \in prepared
  /\ job[c].mine => job[c].at # "idle" /\ started[job[c].attempt] = "claimed"
  /\ job[c].at = "owner" => job[c].mine
  /\ job[c].at = "fencing" => job[c].result = "failure"
  /\ job[c].at = "settling" =>
       /\ job[c].result # "none"
       /\ \/ started[job[c].attempt] = "claimed"
             /\ (job[c].mine \/ job[c].result = "timeout")
          \/ started[job[c].attempt] = "cancelled" /\ job[c].result = "failure"

ChainInv == OneEnd /\ FromFirst /\ SuccessorsInChain /\ SettledBeforeSuccessor
CallInv == \A c \in Caller : ReservingOK(c) /\ HoldingOK(c)

JournalInv == TypeOK /\ ChainInv /\ EventOrder /\ CallInv

-----------------------------------------------------------------------------
(* The initial state and the frame of a step *)

LEMMA InvInit == Init => JournalInv
<1>. SUFFICES ASSUME Init PROVE JournalInv
  OBVIOUS
<1>1. TypeOK
  BY TypeInit
<1>2. Linked = {}
  BY DEF Init, Linked
<1>3. ChainInv
  BY <1>2, JournalAssumption
  DEF Init, ChainInv, OneEnd, FromFirst, SuccessorsInChain,
      SettledBeforeSuccessor, Slot
<1>4. EventOrder
  BY DEF Init, EventOrder
<1>5. CallInv
  BY IdleOK DEF Init, CallInv, ReservingOK, HoldingOK
<1>. QED  BY <1>1, <1>3, <1>4, <1>5 DEF JournalInv

\* The callers that do not act keep their part of the invariant, as long as
\* files are only added and nobody takes the attempt they are reserving.
LEMMA OthersOK ==
  ASSUME CallInv, NEW c \in Caller,
         \A d \in Caller \ {c} : job'[d] = job[d],
         Linked \subseteq Linked', prepared \subseteq prepared',
         \A a \in Attempt : started[a] # "none" => started'[a] = started[a],
         \A a \in Attempt : settled[a] # "none" => settled'[a] # "none",
         \A d \in Caller \ {c} :
            job[d].at \in {"reserving", "linking"} =>
              job[d].attempt \notin Linked' /\ job'[c].attempt # job[d].attempt,
         \A d \in Caller : job[d].at # "idle" => job[d].attempt \in Attempt,
         First \notin Linked, Linked \subseteq Attempt
  PROVE  \A d \in Caller \ {c} : ReservingOK(d)' /\ HoldingOK(d)'
<1>. SUFFICES ASSUME NEW d \in Caller \ {c}
     PROVE ReservingOK(d)' /\ HoldingOK(d)'
  OBVIOUS
<1>0. ReservingOK(d) /\ HoldingOK(d) /\ job'[d] = job[d]
  BY DEF CallInv
<1>1. ReservingOK(d)'
  BY <1>0 DEF ReservingOK, Slot
<1>2. HoldingOK(d)'
  BY <1>0 DEF HoldingOK
<1>. QED  BY <1>1, <1>2

LEMMA LinkedAttempts == TypeOK => Linked \subseteq Attempt /\ First \notin Linked
  BY JournalAssumption DEF TypeOK, Linked

\* A step that writes no file: only the acting call has to be checked.
LEMMA ReadOnlyStep ==
  ASSUME JournalInv, NEW c \in Caller, TypeOK',
         UNCHANGED <<link, prepared, started, settled, claims>>,
         \A d \in Caller \ {c} : job'[d] = job[d],
         \A d \in Caller \ {c} :
            job[d].at \in {"reserving", "linking"} =>
              job'[c].attempt # job[d].attempt,
         ReservingOK(c)', HoldingOK(c)'
  PROVE  JournalInv'
<1>1. Linked' = Linked
  BY DEF Linked
<1>2. ChainInv'
  BY <1>1 DEF JournalInv, ChainInv, OneEnd, FromFirst, SuccessorsInChain,
              SettledBeforeSuccessor
<1>3. EventOrder'
  BY <1>1 DEF JournalInv, EventOrder
<1>4. \A d \in Caller \ {c} :
         job[d].at \in {"reserving", "linking"} => job[d].attempt \notin Linked
  BY DEF JournalInv, CallInv, ReservingOK
<1>5. \A d \in Caller \ {c} : ReservingOK(d)' /\ HoldingOK(d)'
  BY <1>1, <1>4, OthersOK, LinkedAttempts DEF JournalInv, TypeOK
<1>. QED  BY <1>2, <1>3, <1>5 DEF JournalInv, CallInv

-----------------------------------------------------------------------------
(* The steps that only read *)

LEMMA PrepareStep ==
  ASSUME JournalInv, TypeOK', NEW c \in Caller, NEW a \in Attempt,
         NEW slot \in Slot, Prepare(c, a, slot)
  PROVE  JournalInv'
<1>. DEFINE k == Call("reserving", a, slot, FALSE, "none")
<1>1. k.at = "reserving" /\ k.attempt = a /\ k.slot = slot /\ k.mine = FALSE
  BY DEF Call
<1>2. job' = [job EXCEPT ![c] = k]
  BY DEF Prepare
<1>. HIDE DEF k
<1>3. job'[c] = k /\ \A d \in Caller \ {c} : job'[d] = job[d]
  BY <1>2 DEF JournalInv, TypeOK
<1>4. \A d \in Caller : job[d].attempt # a
  BY DEF Prepare
<1>5. Linked' = Linked /\ settled' = settled
  BY DEF Linked, Prepare
<1>6. slot # First => slot \in Linked /\ settled[slot] # "none"
  BY DEF Prepare, Vacant, Current, IsSettled
<1>7. ReservingOK(c)'
  <2>1. a \in Attempt \ Linked'
    BY <1>5 DEF Prepare
  <2>2. \A d \in Caller \ {c} : job'[d].attempt # job'[c].attempt
    BY <1>1, <1>3, <1>4
  <2>3. slot # First => slot \in Linked' /\ settled'[slot] # "none"
    BY <1>5, <1>6
  <2>. QED  BY <1>1, <1>3, <2>1, <2>2, <2>3 DEF ReservingOK
<1>8. HoldingOK(c)'
  BY <1>1, <1>3 DEF HoldingOK
<1>. QED  BY <1>1, <1>3, <1>4, <1>7, <1>8, ReadOnlyStep DEF Prepare

\* A caller taking up an attempt that is already in the chain takes nobody's
\* reservation.
LEMMA InChainNotReserved ==
  ASSUME JournalInv, NEW a \in Linked, NEW d \in Caller,
         job[d].at \in {"reserving", "linking"}
  PROVE  job[d].attempt # a
  BY DEF JournalInv, CallInv, ReservingOK

LEMMA RestoreStep ==
  ASSUME JournalInv, TypeOK', NEW c \in Caller, NEW a \in Attempt, Restore(c, a)
  PROVE  JournalInv'
<1>. DEFINE k == Call("queued", a, None, TRUE, "none")
<1>1. k.at = "queued" /\ k.attempt = a /\ k.mine = FALSE
  BY DEF Call
<1>2. job' = [job EXCEPT ![c] = k]
  BY DEF Restore
<1>. HIDE DEF k
<1>3. job'[c] = k /\ \A d \in Caller \ {c} : job'[d] = job[d]
  BY <1>2 DEF JournalInv, TypeOK
<1>4. a \in prepared /\ prepared' = prepared
  BY DEF Restore, IsPrepared
<1>5. a \in Linked
  BY <1>4 DEF JournalInv, EventOrder
<1>6. ReservingOK(c)' /\ HoldingOK(c)'
  BY <1>1, <1>3, <1>4 DEF ReservingOK, HoldingOK
<1>. QED
  BY <1>1, <1>3, <1>5, <1>6, InChainNotReserved, ReadOnlyStep DEF Restore

LEMMA ExpireStep ==
  ASSUME JournalInv, TypeOK', NEW c \in Caller, NEW a \in Attempt, Expire(c, a)
  PROVE  JournalInv'
<1>. DEFINE k == Call("settling", a, None, FALSE, "timeout")
<1>1. /\ k.at = "settling" /\ k.attempt = a /\ k.mine = FALSE
      /\ k.result = "timeout"
  BY DEF Call
<1>2. job' = [job EXCEPT ![c] = k]
  BY DEF Expire
<1>. HIDE DEF k
<1>3. job'[c] = k /\ \A d \in Caller \ {c} : job'[d] = job[d]
  BY <1>2 DEF JournalInv, TypeOK
<1>4. /\ a \in prepared /\ started[a] = "claimed"
      /\ prepared' = prepared /\ started' = started
  BY DEF Expire, IsStarted
<1>5. a \in Linked
  BY <1>4 DEF JournalInv, EventOrder
<1>6. ReservingOK(c)' /\ HoldingOK(c)'
  BY <1>1, <1>3, <1>4 DEF ReservingOK, HoldingOK
<1>. QED
  BY <1>1, <1>3, <1>5, <1>6, InChainNotReserved, ReadOnlyStep DEF Expire

\* A caller that goes back to idle holds nothing.
LEMMA IdleHoldsNothing ==
  ASSUME NEW c \in Caller, job'[c] = Idle
  PROVE  ReservingOK(c)' /\ HoldingOK(c)' /\ job'[c].attempt = None
  BY IdleOK DEF ReservingOK, HoldingOK

\* Only a real attempt is ever reserved.
LEMMA ReservedIsAttempt ==
  ASSUME JournalInv, NEW d \in Caller, job[d].at \in {"reserving", "linking"}
  PROVE  job[d].attempt # None
  BY JournalAssumption DEF JournalInv, TypeOK

\* A caller that holds an attempt keeps it, or drops it, without disturbing
\* the reservations of the others.
LEMMA KeepsItsAttempt ==
  ASSUME JournalInv, NEW c \in Caller, job'[c].attempt \in {job[c].attempt, None}
  PROVE  \A d \in Caller \ {c} : job[d].at \in {"reserving", "linking"} =>
                                   job'[c].attempt # job[d].attempt
  BY ReservedIsAttempt DEF JournalInv, CallInv, ReservingOK

LEMMA StageOwnerStep ==
  ASSUME JournalInv, TypeOK', NEW c \in Caller, StageOwner(c)
  PROVE  JournalInv'
<1>1. /\ \A d \in Caller \ {c} : job'[d] = job[d]
      /\ job'[c].at = "linking" /\ job'[c].attempt = job[c].attempt
      /\ job'[c].slot = job[c].slot /\ job'[c].mine = job[c].mine
  BY EnterOK DEF StageOwner, JournalInv, TypeOK, Stages
<1>2. Linked' = Linked /\ settled' = settled /\ started' = started
  BY DEF Linked, StageOwner
<1>3. ReservingOK(c) /\ HoldingOK(c) /\ job[c].at = "reserving"
  BY DEF JournalInv, CallInv, StageOwner
<1>4. ReservingOK(c)'
  BY <1>1, <1>2, <1>3 DEF ReservingOK
<1>5. HoldingOK(c)'
  BY <1>1, <1>2, <1>3 DEF HoldingOK
<1>. QED
  BY <1>1, <1>4, <1>5, KeepsItsAttempt, ReadOnlyStep DEF StageOwner

LEMMA BeginClaimStep ==
  ASSUME JournalInv, TypeOK', NEW c \in Caller, BeginClaim(c)
  PROVE  JournalInv'
<1>1. /\ \A d \in Caller \ {c} : job'[d] = job[d]
      /\ \/ job'[c] = Idle
         \/ /\ job'[c].at \in {"queued", "claiming"}
            /\ job'[c].attempt = job[c].attempt /\ job'[c].mine = job[c].mine
  BY EnterOK, LoseClaimOK DEF BeginClaim, JournalInv, TypeOK, Stages
<1>2. prepared' = prepared /\ started' = started
  BY DEF BeginClaim
<1>3. HoldingOK(c) /\ job[c].at = "queued"
  BY DEF JournalInv, CallInv, BeginClaim
<1>4. ReservingOK(c)' /\ HoldingOK(c)' /\ job'[c].attempt \in {job[c].attempt, None}
  <2>1. CASE job'[c] = Idle
    BY <2>1, IdleHoldsNothing
  <2>2. CASE job'[c] # Idle
    BY <1>1, <1>2, <1>3, <2>2 DEF ReservingOK, HoldingOK
  <2>. QED  BY <2>1, <2>2
<1>. QED
  BY <1>1, <1>4, KeepsItsAttempt, ReadOnlyStep DEF BeginClaim

LEMMA SettleStep ==
  ASSUME JournalInv, TypeOK', NEW c \in Caller, Settle(c)
  PROVE  JournalInv'
<1>. PICK result \in {"success", "failure"} : BeginSettle(c, result)
  BY DEF Settle
<1>1. HoldingOK(c) /\ job[c].at \in {"queued", "owner"} /\ job \in [Caller -> Job]
  BY DEF JournalInv, CallInv, BeginSettle, TypeOK
<1>2. prepared' = prepared /\ started' = started
  BY DEF BeginSettle
<1>3. CASE MayFence(c, result) /\ Publishing(c, "fencing", result)
  <2>1. /\ \A d \in Caller \ {c} : job'[d] = job[d]
        /\ job'[c].at = "fencing" /\ job'[c].attempt = job[c].attempt
        /\ job'[c].mine = job[c].mine /\ job'[c].result = "failure"
    BY <1>1, <1>3, PublishingOK DEF MayFence, Stages
  <2>2. ReservingOK(c)' /\ HoldingOK(c)'
    BY <1>1, <1>2, <2>1 DEF ReservingOK, HoldingOK
  <2>. QED  BY <2>1, <2>2, KeepsItsAttempt, ReadOnlyStep DEF BeginSettle
<1>4. CASE MaySettle(c) /\ Publishing(c, "settling", result)
  <2>1. /\ \A d \in Caller \ {c} : job'[d] = job[d]
        /\ job'[c].at = "settling" /\ job'[c].attempt = job[c].attempt
        /\ job'[c].mine = job[c].mine /\ job'[c].result = result
    BY <1>1, <1>4, PublishingOK DEF Stages
  <2>2. job[c].mine /\ started[job[c].attempt] = "claimed"
    BY <1>4 DEF MaySettle, IsStarted
  <2>3. ReservingOK(c)' /\ HoldingOK(c)'
    BY <1>1, <1>2, <2>1, <2>2 DEF ReservingOK, HoldingOK
  <2>. QED  BY <2>1, <2>3, KeepsItsAttempt, ReadOnlyStep DEF BeginSettle
<1>5. CASE Drop(c)
  <2>1. job'[c] = Idle /\ \A d \in Caller \ {c} : job'[d] = job[d]
    BY <1>1, <1>5, DropOK
  <2>. QED
    BY <2>1, IdleHoldsNothing, KeepsItsAttempt, ReadOnlyStep DEF BeginSettle
<1>. QED  BY <1>3, <1>4, <1>5 DEF BeginSettle

LEMMA CrashStep ==
  ASSUME JournalInv, TypeOK', NEW c \in Caller, Crash(c)
  PROVE  JournalInv'
<1>1. job'[c] = Idle /\ \A d \in Caller \ {c} : job'[d] = job[d]
  BY DropOK DEF Crash, JournalInv, TypeOK
<1>. QED
  BY <1>1, IdleHoldsNothing, KeepsItsAttempt, ReadOnlyStep DEF Crash

-----------------------------------------------------------------------------
(* The steps that publish a file *)

\* The heart of the argument: when the link succeeds, the slot was the only
\* end of the chain, so every attempt already in the chain is settled.
LEMMA LinkedAllSettled ==
  ASSUME JournalInv, NEW c \in Caller, job[c].at = "linking",
         link[job[c].slot] = None, NEW b \in Linked
  PROVE  settled[b] # "none"
<1>1. /\ ReservingOK(c) /\ OneEnd /\ FromFirst /\ SettledBeforeSuccessor
      /\ b \in Attempt
  BY LinkedAttempts DEF JournalInv, CallInv, ChainInv
<1>2. job[c].slot # First
  BY <1>1 DEF FromFirst
<1>3. job[c].slot \in Linked /\ settled[job[c].slot] # "none"
  BY <1>1, <1>2 DEF ReservingOK
<1>. QED
  BY <1>1, <1>3 DEF OneEnd, SettledBeforeSuccessor

LEMMA LinkOwnerStep ==
  ASSUME JournalInv, TypeOK', NEW c \in Caller, LinkOwner(c)
  PROVE  JournalInv'
<1>. DEFINE a == job[c].attempt
            s == job[c].slot
<1>0. /\ ReservingOK(c) /\ HoldingOK(c) /\ job[c].at = "linking"
      /\ a \in Attempt \ Linked /\ s \in Slot
      /\ s # First => s \in Linked /\ settled[s] # "none"
      /\ \A d \in Caller \ {c} : job[d].attempt # a
      /\ job \in [Caller -> Job] /\ link \in [Slot -> Attempt \cup {None}]
  BY DEF JournalInv, CallInv, LinkOwner, TypeOK, ReservingOK
<1>1. CASE link[s] = None
  <2>1. /\ link' = [link EXCEPT ![s] = a]
        /\ UNCHANGED <<prepared, started, settled, claims>>
        /\ \A d \in Caller \ {c} : job'[d] = job[d]
        /\ job'[c].at = "preparing" /\ job'[c].attempt = a
        /\ job'[c].mine = job[c].mine
    BY <1>0, <1>1, EnterOK DEF LinkOwner, Stages
  <2>2. Linked' = Linked \cup {a}
    BY <1>0, <1>1, <2>1, LinkedGrows
  <2>3. Linked \subseteq Attempt /\ First \notin Linked
    BY LinkedAttempts DEF JournalInv
  <2>4. link'[s] = a /\ \A x \in Slot \ {s} : link'[x] = link[x]
    BY <1>0, <2>1
  <2>5. link'[First] # None
    BY <1>0, <1>1, <2>3, <2>4, JournalAssumption
    DEF JournalInv, ChainInv, FromFirst, Slot
  <2>6. \A x \in Linked : link'[x] # None
    <3>. SUFFICES ASSUME NEW x \in Linked, link'[x] = None PROVE FALSE
      OBVIOUS
    <3>1. x # s /\ link[x] = None
      BY <1>0, <2>3, <2>4, JournalAssumption DEF Slot
    <3>2. s # First
      BY <1>1 DEF JournalInv, ChainInv, FromFirst
    <3>. QED  BY <1>0, <1>1, <3>1, <3>2 DEF JournalInv, ChainInv, OneEnd
  <2>7. \A x \in Attempt : link'[x] # None => x \in Linked /\ settled[x] # "none"
    BY <1>0, <2>3, <2>4, JournalAssumption
    DEF JournalInv, ChainInv, SuccessorsInChain, SettledBeforeSuccessor, Slot
  <2>8. ChainInv'
    BY <2>1, <2>2, <2>5, <2>6, <2>7
    DEF ChainInv, OneEnd, FromFirst, SuccessorsInChain, SettledBeforeSuccessor
  <2>9. EventOrder'
    BY <2>1, <2>2 DEF JournalInv, EventOrder
  <2>10. ReservingOK(c)' /\ HoldingOK(c)'
    BY <1>0, <2>1, <2>2 DEF ReservingOK, HoldingOK
  <2>11. \A d \in Caller \ {c} : ReservingOK(d)' /\ HoldingOK(d)'
    <3>1. \A d \in Caller \ {c} :
            job[d].at \in {"reserving", "linking"} =>
              job[d].attempt \notin Linked' /\ job'[c].attempt # job[d].attempt
      BY <1>0, <2>1, <2>2 DEF JournalInv, CallInv, ReservingOK
    <3>. QED
      BY <2>1, <2>2, <2>3, <3>1, OthersOK DEF JournalInv, TypeOK
  <2>. QED  BY <2>8, <2>9, <2>10, <2>11 DEF JournalInv, CallInv
<1>2. CASE link[s] # None
  <2>1. /\ job'[c] = Idle /\ \A d \in Caller \ {c} : job'[d] = job[d]
        /\ UNCHANGED <<link, prepared, started, settled, claims>>
    BY <1>0, <1>2, DropOK DEF LinkOwner
  <2>. QED
    BY <2>1, IdleHoldsNothing, KeepsItsAttempt, ReadOnlyStep
<1>. QED  BY <1>1, <1>2

LEMMA PublishPreparedStep ==
  ASSUME JournalInv, TypeOK', NEW c \in Caller, PublishPrepared(c)
  PROVE  JournalInv'
<1>1. /\ \A d \in Caller \ {c} : job'[d] = job[d]
      /\ job'[c].at = "queued" /\ job'[c].attempt = job[c].attempt
      /\ job'[c].mine = job[c].mine
  BY EnterOK DEF PublishPrepared, JournalInv, TypeOK, Stages
<1>2. /\ Linked' = Linked /\ prepared' = prepared \cup {job[c].attempt}
      /\ UNCHANGED <<link, started, settled, claims>>
  BY DEF Linked, PublishPrepared
<1>3. HoldingOK(c) /\ job[c].at = "preparing" /\ job[c].attempt \in Linked
  BY DEF JournalInv, CallInv, PublishPrepared, HoldingOK
<1>4. ChainInv'
  BY <1>2 DEF JournalInv, ChainInv, OneEnd, FromFirst, SuccessorsInChain,
              SettledBeforeSuccessor
<1>5. EventOrder'
  BY <1>2, <1>3 DEF JournalInv, EventOrder
<1>6. ReservingOK(c)' /\ HoldingOK(c)'
  BY <1>1, <1>2, <1>3 DEF ReservingOK, HoldingOK
<1>7. \A d \in Caller \ {c} :
        job[d].at \in {"reserving", "linking"} =>
          job[d].attempt \notin Linked' /\ job'[c].attempt # job[d].attempt
  BY <1>1, <1>2, <1>3 DEF JournalInv, CallInv, ReservingOK
<1>8. \A d \in Caller \ {c} : ReservingOK(d)' /\ HoldingOK(d)'
  BY <1>1, <1>2, <1>7, OthersOK, LinkedAttempts DEF JournalInv, TypeOK
<1>. QED  BY <1>4, <1>5, <1>6, <1>8 DEF JournalInv, CallInv

\* Publishing an event of the caller's own attempt leaves the chain alone.
LEMMA EventStep ==
  ASSUME JournalInv, TypeOK', NEW c \in Caller,
         UNCHANGED <<link, prepared>>,
         \A d \in Caller \ {c} : job'[d] = job[d],
         job'[c].attempt \in {job[c].attempt, None},
         \A b \in Attempt : started[b] # "none" => started'[b] = started[b],
         \A b \in Attempt : settled[b] # "none" => settled'[b] # "none",
         EventOrder', ReservingOK(c)', HoldingOK(c)'
  PROVE  JournalInv'
<1>1. Linked' = Linked
  BY DEF Linked
<1>2. ChainInv'
  BY <1>1 DEF JournalInv, ChainInv, OneEnd, FromFirst, SuccessorsInChain,
              SettledBeforeSuccessor
<1>3. \A d \in Caller \ {c} :
        job[d].at \in {"reserving", "linking"} =>
          job[d].attempt \notin Linked' /\ job'[c].attempt # job[d].attempt
  BY <1>1, KeepsItsAttempt DEF JournalInv, CallInv, ReservingOK
<1>4. \A d \in Caller \ {c} : ReservingOK(d)' /\ HoldingOK(d)'
  BY <1>1, <1>3, OthersOK, LinkedAttempts DEF JournalInv, TypeOK
<1>. QED  BY <1>2, <1>4 DEF JournalInv, CallInv

LEMMA LinkStartedStep ==
  ASSUME JournalInv, TypeOK', NEW c \in Caller, LinkStarted(c)
  PROVE  JournalInv'
<1>. DEFINE a == job[c].attempt
<1>0. /\ HoldingOK(c) /\ job[c].at = "claiming" /\ a \in prepared
      /\ a \in Attempt /\ job \in [Caller -> Job] /\ TypeOK /\ EventOrder
  BY DEF JournalInv, CallInv, LinkStarted, TypeOK, HoldingOK
<1>1. CASE started[a] = "none"
  <2>1. /\ started' = [started EXCEPT ![a] = "claimed"]
        /\ claims' = [claims EXCEPT ![a] = @ + 1]
        /\ UNCHANGED <<link, prepared, settled>>
        /\ \A d \in Caller \ {c} : job'[d] = job[d]
        /\ job'[c].at = "owner" /\ job'[c].attempt = a /\ job'[c].mine
    BY <1>0, <1>1, OwnerOK DEF LinkStarted
  <2>2. started'[a] = "claimed" /\ \A b \in Attempt \ {a} : started'[b] = started[b]
    BY <1>0, <2>1 DEF TypeOK
  <2>3. claims'[a] = 1 /\ \A b \in Attempt \ {a} : claims'[b] = claims[b]
    BY <1>0, <1>1, <2>1 DEF TypeOK, EventOrder
  <2>4. Linked' = Linked
    BY <2>1 DEF Linked
  <2>5. EventOrder'
    BY <1>0, <2>1, <2>2, <2>3, <2>4 DEF EventOrder
  <2>6. ReservingOK(c)' /\ HoldingOK(c)'
    BY <1>0, <2>1, <2>2 DEF ReservingOK, HoldingOK
  <2>. QED  BY <1>0, <1>1, <2>1, <2>2, <2>5, <2>6, EventStep
<1>2. CASE started[a] # "none"
  <2>1. /\ UNCHANGED <<link, prepared, started, settled, claims>>
        /\ \A d \in Caller \ {c} : job'[d] = job[d]
        /\ \/ job'[c] = Idle
           \/ /\ job'[c].at = "queued" /\ job'[c].attempt = a
              /\ job'[c].mine = job[c].mine
    BY <1>0, <1>2, LoseClaimOK DEF LinkStarted
  <2>2. ReservingOK(c)' /\ HoldingOK(c)' /\ job'[c].attempt \in {a, None}
    <3>1. CASE job'[c] = Idle
      BY <3>1, IdleHoldsNothing
    <3>2. CASE job'[c] # Idle
      BY <1>0, <2>1, <3>2 DEF ReservingOK, HoldingOK
    <3>. QED  BY <3>1, <3>2
  <2>. QED  BY <2>1, <2>2, KeepsItsAttempt, ReadOnlyStep
<1>. QED  BY <1>1, <1>2

LEMMA FenceStep ==
  ASSUME JournalInv, TypeOK', NEW c \in Caller, Fence(c)
  PROVE  JournalInv'
<1>. DEFINE a == job[c].attempt
<1>0. /\ HoldingOK(c) /\ job[c].at = "fencing" /\ a \in prepared
      /\ job[c].result = "failure"
      /\ a \in Attempt /\ job \in [Caller -> Job] /\ TypeOK /\ EventOrder
  BY DEF JournalInv, CallInv, Fence, TypeOK, HoldingOK
<1>1. CASE started[a] = "none"
  <2>1. /\ started' = [started EXCEPT ![a] = "cancelled"]
        /\ UNCHANGED <<link, prepared, settled, claims>>
        /\ \A d \in Caller \ {c} : job'[d] = job[d]
        /\ job'[c].at = "settling" /\ job'[c].attempt = a
        /\ job'[c].mine = job[c].mine /\ job'[c].result = "failure"
    BY <1>0, <1>1, EnterOK DEF Fence, Stages
  <2>2. started'[a] = "cancelled" /\ \A b \in Attempt \ {a} : started'[b] = started[b]
    BY <1>0, <2>1 DEF TypeOK
  <2>3. Linked' = Linked
    BY <2>1 DEF Linked
  <2>4. EventOrder'
    BY <1>0, <1>1, <2>1, <2>2, <2>3 DEF EventOrder
  <2>5. ~job[c].mine
    BY <1>0, <1>1 DEF HoldingOK
  <2>6. ReservingOK(c)' /\ HoldingOK(c)'
    BY <1>0, <2>1, <2>2, <2>5 DEF ReservingOK, HoldingOK
  <2>. QED  BY <1>0, <1>1, <2>1, <2>2, <2>4, <2>6, EventStep
<1>2. CASE started[a] # "none"
  <2>1. /\ job'[c] = Idle /\ \A d \in Caller \ {c} : job'[d] = job[d]
        /\ UNCHANGED <<link, prepared, started, settled, claims>>
    BY <1>0, <1>2, DropOK DEF Fence
  <2>. QED
    BY <2>1, IdleHoldsNothing, KeepsItsAttempt, ReadOnlyStep
<1>. QED  BY <1>1, <1>2

LEMMA PublishSettledStep ==
  ASSUME JournalInv, TypeOK', NEW c \in Caller, PublishSettled(c)
  PROVE  JournalInv'
<1>. DEFINE a == job[c].attempt
<1>0. /\ HoldingOK(c) /\ job[c].at = "settling" /\ a \in prepared
      /\ a \in Attempt /\ job \in [Caller -> Job] /\ TypeOK /\ EventOrder
  BY DEF JournalInv, CallInv, PublishSettled, TypeOK, HoldingOK
<1>1. /\ job'[c] = Idle /\ \A d \in Caller \ {c} : job'[d] = job[d]
      /\ UNCHANGED <<link, prepared, started, claims>>
  BY <1>0, DropOK DEF PublishSettled
<1>2. Linked' = Linked
  BY <1>1 DEF Linked
<1>3. /\ \A b \in Attempt \ {a} : settled'[b] = settled[b]
      /\ settled[a] # "none" => settled'[a] = settled[a]
      /\ settled[a] = "none" => settled'[a] = job[c].result
  BY <1>0 DEF PublishSettled, TypeOK
<1>4. /\ job[c].result # "none"
      /\ \/ started[a] = "claimed"
         \/ started[a] = "cancelled" /\ job[c].result = "failure"
  BY <1>0 DEF HoldingOK
<1>5. EventOrder'
  BY <1>0, <1>1, <1>2, <1>3, <1>4 DEF EventOrder
<1>. QED
  BY <1>0, <1>1, <1>3, <1>5, IdleHoldsNothing, EventStep

-----------------------------------------------------------------------------
(* The theorems *)

LEMMA InvStep == JournalInv /\ [Next]_vars => JournalInv'
<1>. SUFFICES ASSUME JournalInv, [Next]_vars PROVE JournalInv'
  OBVIOUS
<1>0. TypeOK'
  BY TypeStep DEF JournalInv
<1>1. ASSUME NEW c \in Caller, NEW a \in Attempt, NEW slot \in Slot,
             Prepare(c, a, slot)
      PROVE JournalInv'
  BY <1>0, <1>1, PrepareStep
<1>2. ASSUME NEW c \in Caller, NEW a \in Attempt, Restore(c, a) \/ Expire(c, a)
      PROVE JournalInv'
  BY <1>0, <1>2, RestoreStep, ExpireStep
<1>3. ASSUME NEW c \in Caller, BeginClaim(c) \/ Settle(c) \/ Crash(c)
      PROVE JournalInv'
  BY <1>0, <1>3, BeginClaimStep, SettleStep, CrashStep
<1>4. ASSUME NEW c \in Caller, Continue(c)
      PROVE JournalInv'
  BY <1>0, <1>4, StageOwnerStep, LinkOwnerStep, PublishPreparedStep,
     LinkStartedStep, FenceStep, PublishSettledStep DEF Continue
<1>5. CASE UNCHANGED vars
  <2>1. Linked' = Linked
    BY <1>5 DEF vars, Linked
  <2>. QED
    BY <1>0, <1>5, <2>1 DEF vars, JournalInv, ChainInv, OneEnd, FromFirst,
       SuccessorsInChain, SettledBeforeSuccessor, EventOrder, CallInv,
       ReservingOK, HoldingOK
<1>. QED
  BY <1>1, <1>2, <1>3, <1>4, <1>5 DEF Next

\* The inductive invariant holds in every reachable state.
THEOREM JournalInvariant == Spec => []JournalInv
  BY InvInit, InvStep, PTL DEF Spec

\* An attempt gets a successor only after it was settled, for any number of
\* racing callers and crashes.
THEOREM OneOpenAttempt == Spec => []SettledBeforeSuccessor
<1>1. JournalInv => SettledBeforeSuccessor
  BY DEF JournalInv, ChainInv
<1>. QED  BY <1>1, JournalInvariant, PTL

\* No attempt is ever claimed twice, nor claimed after it was cancelled.
THEOREM ClaimedOnce == Spec => []ClaimedAtMostOnce
<1>1. JournalInv => ClaimedAtMostOnce
  BY DEF JournalInv, EventOrder, ClaimedAtMostOnce
<1>. QED  BY <1>1, JournalInvariant, PTL

\* A recorded success was earned by the one claimant of its attempt.
THEOREM SuccessIsEarned == Spec => []SuccessWasClaimed
<1>1. JournalInv => SuccessWasClaimed
  BY DEF JournalInv, EventOrder, SuccessWasClaimed
<1>. QED  BY <1>1, JournalInvariant, PTL

\* A step that changes settled.json is a PublishSettled of that attempt.
LEMMA OnlyPublishSettled ==
  ASSUME TypeOK, [Next]_vars, NEW a \in Attempt, settled'[a] # settled[a]
  PROVE  \E c \in Caller : PublishSettled(c) /\ job[c].attempt = a
<1>1. PICK c \in Caller : PublishSettled(c)
  BY DEF Next, Continue, vars, Prepare, Restore, Expire, BeginClaim, Settle,
         BeginSettle, StageOwner, LinkOwner, PublishPrepared, LinkStarted,
         Fence, Crash
<1>. QED  BY <1>1 DEF PublishSettled, TypeOK

\* A settlement is never replaced.
THEOREM SettledForGood == Spec => SettlementIsFinal
<1>1. JournalInv /\ [Next]_vars
        => [\A a \in Attempt : settled[a] # "none" => settled'[a] = settled[a]]_vars
  <2>. SUFFICES ASSUME JournalInv, [Next]_vars, NEW a \in Attempt,
                       settled[a] # "none", settled'[a] # settled[a]
                PROVE  FALSE
    OBVIOUS
  <2>1. PICK c \in Caller : PublishSettled(c)
    BY OnlyPublishSettled DEF JournalInv
  <2>. QED  BY <2>1 DEF PublishSettled
<1>. QED  BY <1>1, JournalInvariant, PTL DEF Spec, SettlementIsFinal

\* The call that settles a claimed attempt is its claimant's or the deadline's.
THEOREM SettledByClaimant == Spec => OnlyClaimantSettles
<1>. DEFINE Settles(c, a) ==
              /\ job[c].attempt = a /\ job[c].result = settled'[a] /\ job'[c] # job[c]
              /\ job[c].mine \/ settled'[a] = "timeout"
            A == \A a \in Attempt :
                   started[a] = "claimed" /\ settled[a] = "none" /\ settled'[a] # "none"
                   => \E c \in Caller : Settles(c, a)
<1>1. JournalInv /\ [Next]_vars => [A]_vars
  <2>. SUFFICES ASSUME JournalInv, [Next]_vars, NEW a \in Attempt,
                       started[a] = "claimed", settled[a] = "none", settled'[a] # "none"
                PROVE  \E c \in Caller : Settles(c, a)
    OBVIOUS
  <2>1. PICK c \in Caller : PublishSettled(c) /\ job[c].attempt = a
    BY OnlyPublishSettled DEF JournalInv
  <2>2. settled'[a] = job[c].result /\ job[c].at = "settling"
    BY <2>1 DEF PublishSettled, JournalInv, TypeOK
  <2>3. job[c].mine \/ settled'[a] = "timeout"
    BY <2>1, <2>2 DEF JournalInv, CallInv, HoldingOK
  <2>4. job'[c].at = "idle"
    BY <2>1 DEF PublishSettled, Drop, Idle, Call, JournalInv, TypeOK
  <2>. QED  BY <2>1, <2>2, <2>3, <2>4
<1>. QED  BY <1>1, JournalInvariant, PTL DEF Spec, OnlyClaimantSettles

-----------------------------------------------------------------------------
(* The journal implements ExclusiveAttempts *)

\* A step that leaves the chain and the events alone changes no status.
LEMMA SameStatus ==
  ASSUME UNCHANGED <<link, started, settled>>
  PROVE  UNCHANGED LedgerStatus
  BY DEF LedgerStatus, StatusOf, Linked

LEMMA RefinedInit == Init => Ledger!Init
<1>. SUFFICES ASSUME Init PROVE Ledger!Init
  OBVIOUS
<1>1. Linked = {}
  BY DEF Init, Linked
<1>. QED  BY <1>1 DEF Ledger!Init, LedgerStatus, StatusOf

\* Linking an owner record opens the attempt while no other is open.
LEMMA RefinedLinkOwner ==
  ASSUME JournalInv, NEW c \in Caller, LinkOwner(c)
  PROVE  [Ledger!Next]_LedgerStatus
<1>. DEFINE a == job[c].attempt
            s == job[c].slot
<1>0. /\ job[c].at = "linking" /\ a \in Attempt \ Linked /\ s \in Slot
      /\ TypeOK /\ EventOrder
  BY DEF JournalInv, CallInv, LinkOwner, ReservingOK
<1>1. CASE link[s] = None
  <2>1. /\ link' = [link EXCEPT ![s] = a] /\ UNCHANGED <<started, settled>>
    BY <1>1 DEF LinkOwner
  <2>2. Linked' = Linked \cup {a}
    BY <1>0, <1>1, <2>1, LinkedGrows DEF TypeOK
  <2>3. started[a] = "none" /\ settled[a] = "none"
    BY <1>0 DEF EventOrder
  <2>4. \A b \in Linked : settled[b] \in {"success", "failure", "timeout"}
    BY <1>0, <1>1, LinkedAllSettled, LinkedAttempts DEF TypeOK
  <2>5. StatusOf(a) = "new" /\ \A b \in Attempt : ~Ledger!Open(b)
    BY <1>0, <2>4 DEF StatusOf, Ledger!Open, LedgerStatus
  <2>6. LedgerStatus' = [LedgerStatus EXCEPT ![a] = "reserved"]
    BY <1>0, <2>1, <2>2, <2>3 DEF LedgerStatus, StatusOf
  <2>7. Ledger!Reserve(a)
    BY <1>0, <2>5, <2>6 DEF Ledger!Reserve, LedgerStatus
  <2>. QED  BY <1>0, <2>7 DEF Ledger!Next
<1>2. CASE link[s] # None
  BY <1>2, SameStatus DEF LinkOwner
<1>. QED  BY <1>1, <1>2

\* Winning started.json runs the attempt; a failed link changes nothing.
LEMMA RefinedLinkStarted ==
  ASSUME JournalInv, NEW c \in Caller, LinkStarted(c)
  PROVE  [Ledger!Next]_LedgerStatus
<1>. DEFINE a == job[c].attempt
<1>0. /\ a \in Attempt /\ a \in Linked /\ TypeOK /\ EventOrder
  BY DEF JournalInv, CallInv, LinkStarted, TypeOK, HoldingOK, EventOrder
<1>1. CASE started[a] = "none"
  <2>1. /\ started' = [started EXCEPT ![a] = "claimed"]
        /\ Linked' = Linked /\ settled' = settled
    BY <1>1 DEF LinkStarted, Linked
  <2>2. settled[a] = "none"
    BY <1>0, <1>1 DEF EventOrder
  <2>3. StatusOf(a) = "reserved"
    BY <1>0, <1>1, <2>2 DEF StatusOf
  <2>4. LedgerStatus' = [LedgerStatus EXCEPT ![a] = "running"]
    BY <1>0, <2>1, <2>2 DEF LedgerStatus, StatusOf, TypeOK
  <2>5. Ledger!Run(a)
    BY <1>0, <2>3, <2>4 DEF Ledger!Run, LedgerStatus
  <2>. QED  BY <1>0, <2>5 DEF Ledger!Next
<1>2. CASE started[a] # "none"
  BY <1>2, SameStatus DEF LinkStarted
<1>. QED  BY <1>1, <1>2

\* The fence alone is invisible: the attempt stays reserved until settled.
LEMMA RefinedFence ==
  ASSUME JournalInv, NEW c \in Caller, Fence(c)
  PROVE  UNCHANGED LedgerStatus
<1>. DEFINE a == job[c].attempt
<1>0. a \in Attempt /\ TypeOK
  BY DEF JournalInv, CallInv, Fence, TypeOK
<1>1. Linked' = Linked /\ settled' = settled
  BY DEF Fence, Linked
<1>2. \A b \in Attempt : (started'[b] = "claimed") = (started[b] = "claimed")
  BY <1>0 DEF Fence, TypeOK
<1>. QED  BY <1>1, <1>2 DEF LedgerStatus, StatusOf

\* The settlement ends a running attempt or refuses one that never ran.
LEMMA RefinedPublishSettled ==
  ASSUME JournalInv, NEW c \in Caller, PublishSettled(c)
  PROVE  [Ledger!Next]_LedgerStatus
<1>. DEFINE a == job[c].attempt
            r == job[c].result
<1>0. /\ a \in Attempt /\ a \in Linked /\ TypeOK
      /\ HoldingOK(c) /\ job[c].at = "settling"
  BY DEF JournalInv, CallInv, PublishSettled, TypeOK, HoldingOK, EventOrder
<1>1. CASE settled[a] = "none"
  <2>1. /\ settled' = [settled EXCEPT ![a] = r]
        /\ Linked' = Linked /\ started' = started
    BY <1>1 DEF PublishSettled, Linked
  <2>2. r \in {"success", "failure", "timeout"}
    BY <1>0 DEF HoldingOK, TypeOK, Job
  <2>3. LedgerStatus' = [LedgerStatus EXCEPT ![a] = r]
    BY <1>0, <2>1, <2>2 DEF LedgerStatus, StatusOf, TypeOK
  <2>4. CASE started[a] = "claimed"
    <3>1. Ledger!End(a, r)
      BY <1>0, <1>1, <2>3, <2>4 DEF Ledger!End, LedgerStatus, StatusOf
    <3>. QED  BY <1>0, <2>2, <3>1 DEF Ledger!Next, Ledger!Results
  <2>5. CASE started[a] # "claimed"
    <3>1. r = "failure"
      BY <1>0, <2>5 DEF HoldingOK
    <3>2. Ledger!Refuse(a)
      BY <1>0, <1>1, <2>3, <2>5, <3>1 DEF Ledger!Refuse, LedgerStatus, StatusOf
    <3>. QED  BY <1>0, <3>2 DEF Ledger!Next
  <2>. QED  BY <2>4, <2>5
<1>2. CASE settled[a] # "none"
  BY <1>2, SameStatus DEF PublishSettled
<1>. QED  BY <1>1, <1>2

LEMMA RefinedStep == JournalInv /\ [Next]_vars => [Ledger!Next]_LedgerStatus
<1>. SUFFICES ASSUME JournalInv, [Next]_vars
     PROVE [Ledger!Next]_LedgerStatus
  OBVIOUS
<1>1. ASSUME NEW c \in Caller,
             LinkOwner(c) \/ LinkStarted(c) \/ PublishSettled(c) \/ Fence(c)
      PROVE [Ledger!Next]_LedgerStatus
  BY <1>1, RefinedLinkOwner, RefinedLinkStarted, RefinedPublishSettled, RefinedFence
<1>2. CASE UNCHANGED <<link, started, settled>>
  BY <1>2, SameStatus
<1>. QED
  BY <1>1, <1>2 DEF Next, Continue, vars, Prepare, Restore, Expire, BeginClaim,
     Settle, BeginSettle, StageOwner, PublishPrepared, Crash

\* The files, with callers racing over them and crashing between them, behave
\* as one exclusive sequence of attempts.
THEOREM ImplementsExclusiveAttempts == Spec => RunsOneAttemptAtATime
<1>1. Spec => [][Ledger!Next]_LedgerStatus
  BY RefinedStep, JournalInvariant, PTL DEF Spec
<1>. QED
  BY <1>1, RefinedInit, PTL DEF Spec, RunsOneAttemptAtATime, Ledger!Spec

-----------------------------------------------------------------------------
(***************************************************************************)
(* A journal at rest.  The chain always has an end, and while nobody has   *)
(* crashed each unsettled attempt has a caller that minds it: the live     *)
(* dispatch until someone wins started.json, then the winner, or whoever   *)
(* is about to publish the settlement.  A caller that minds an attempt     *)
(* finds the journal readable and the attempt current, so its checks pass  *)
(* and it hands the attempt to a later stage and never drops it.           *)
(***************************************************************************)
HasEnd == \E t \in Slot : link[t] = None /\ (t = First \/ t \in Linked)

Minds(c, a) ==
  /\ job[c].attempt = a
  /\ \/ /\ started[a] = "none" /\ ~job[c].restored
        /\ job[c].at \in {"preparing", "queued", "claiming", "fencing"}
     \/ started[a] = "claimed" /\ job[c].at \in {"owner", "settling"}
     \/ started[a] = "cancelled" /\ job[c].at = "settling"

Minded == \A a \in Linked : settled[a] = "none" => \E c \in Caller : Minds(c, a)

Fresh(c) == job[c].at \in {"reserving", "linking", "preparing"} => ~job[c].restored

QuietInv ==
  /\ HasEnd /\ \A c \in Caller : Fresh(c)
  /\ crashes = 0 => ~debris /\ Minded

\* Whose message a call works for does not change while it lasts.
LEMMA SameMessage ==
  ASSUME job \in [Caller -> Job], NEW c \in Caller
  PROVE  /\ \A stage \in Stages : Enter(c, stage) => job'[c].restored = job[c].restored
         /\ \A stage \in Stages, result \in {"success", "failure"} :
              Publishing(c, stage, result) => job'[c].restored = job[c].restored
  BY DEF Enter, Publishing, Job

\* An unsettled attempt whose files are in order is the current one.
LEMMA UnsettledIsCurrent ==
  ASSUME JournalInv, NEW a \in Linked, settled[a] = "none",
         IsPrepared(a) \/ IsStarted(a)
  PROVE  OwnsCurrentAttempt(a)
<1>0. Linked \subseteq Attempt /\ EventOrder /\ ChainInv
  BY LinkedAttempts DEF JournalInv
<1>1. link[a] = None /\ link[First] # None
  BY <1>0 DEF ChainInv, SettledBeforeSuccessor, FromFirst
<1>2. ASSUME NEW b \in Linked, b # a PROVE IsSettled(b)
  <2>1. settled[b] # "none"
    BY <1>0, <1>1, <1>2 DEF ChainInv, OneEnd, SettledBeforeSuccessor
  <2> QED  BY <1>0, <2>1 DEF EventOrder, IsSettled
<1>. QED  BY <1>1, <1>2 DEF OwnsCurrentAttempt, Readable, Current

\* A step in which c keeps minding what it minds, or settles it.
LEMMA MindedKept ==
  ASSUME Minded, NEW c \in Caller,
         \A d \in Caller \ {c} : job'[d] = job[d],
         Linked' = Linked, started' = started,
         \A a \in Linked : settled[a] # "none" => settled'[a] # "none",
         \A a \in Linked : settled[a] = "none" /\ Minds(c, a) =>
           Minds(c, a)' \/ settled'[a] # "none"
  PROVE  Minded'
<1>1. \A d \in Caller \ {c}, a \in Linked : Minds(d, a) => Minds(d, a)'
  BY DEF Minds
<1>. QED  BY <1>1 DEF Minded

\* A step in which c publishes started.json of the attempt it works on.
LEMMA MindedByWinner ==
  ASSUME Minded, NEW c \in Caller, NEW v,
         started \in [Attempt -> {"none", "claimed", "cancelled"}], Linked \subseteq Attempt,
         \A d \in Caller \ {c} : job'[d] = job[d],
         Linked' = Linked, settled' = settled,
         started' = [started EXCEPT ![job[c].attempt] = v],
         job'[c].attempt = job[c].attempt, Minds(c, job[c].attempt)'
  PROVE  Minded'
<1>. SUFFICES ASSUME NEW b \in Linked, settled[b] = "none"
              PROVE  \E d \in Caller : Minds(d, b)'
  BY DEF Minded
<1>1. CASE b = job[c].attempt
  BY <1>1 DEF Minds
<1>2. CASE b # job[c].attempt
  <2>1. PICK d \in Caller : Minds(d, b)
    BY DEF Minded
  <2>2. d # c /\ started'[b] = started[b]
    BY <1>2, <2>1 DEF Minds
  <2>. QED  BY <2>1, <2>2 DEF Minds
<1>. QED  BY <1>1, <1>2

LEMMA QuietInit == Init => QuietInv
<1>. SUFFICES ASSUME Init PROVE QuietInv
  OBVIOUS
<1>1. Linked = {} /\ First \in Slot
  BY DEF Init, Linked, Slot
<1>. QED  BY <1>1, IdleOK DEF Init, QuietInv, HasEnd, Fresh, Minded

\* What is left to check of a step that leaves the chain alone.
LEMMA QuietKept ==
  ASSUME QuietInv, NEW c \in Caller, link' = link,
         \A d \in Caller \ {c} : job'[d] = job[d],
         Fresh(c)',
         UNCHANGED <<crashes, debris>>,
         crashes = 0 => Minded'
  PROVE  QuietInv'
<1>1. Linked' = Linked
  BY DEF Linked
<1>. QED  BY <1>1 DEF QuietInv, HasEnd, Fresh

LEMMA QuietStep ==
  ASSUME ~HookSkipped, JournalInv, QuietInv, NEW c \in Caller,
         \/ \E a \in Attempt, slot \in Slot : Prepare(c, a, slot)
         \/ \E a \in Attempt : Restore(c, a) \/ Expire(c, a)
         \/ BeginClaim(c) \/ Settle(c) \/ Continue(c) \/ Crash(c)
  PROVE  QuietInv'
<1>. DEFINE at == job[c].at
            a == job[c].attempt
<1>0. /\ TypeOK /\ job \in [Caller -> Job] /\ EventOrder /\ ChainInv
      /\ Linked \subseteq Attempt /\ First \notin Linked
      /\ ReservingOK(c) /\ HoldingOK(c) /\ Fresh(c)
      /\ crashes = 0 => Minded
      /\ prepared \subseteq Linked
      /\ started \in [Attempt -> {"none", "claimed", "cancelled"}]
  BY LinkedAttempts DEF JournalInv, CallInv, QuietInv, TypeOK, EventOrder
\* Whoever minds an attempt in the queue or at its work is entitled to go on.
<1>a. ASSUME NEW b \in Linked, settled[b] = "none", Minds(c, b), at \in {"queued", "owner"}
      PROVE  /\ b = a /\ OwnsCurrentAttempt(a)
             /\ \/ at = "queued" /\ IsPrepared(a) /\ ~job[c].mine
                \/ at = "owner" /\ IsStarted(a) /\ job[c].mine
  <2>1. b = a /\ a \in prepared
    BY <1>0, <1>a DEF Minds, HoldingOK
  <2>2. \/ at = "queued" /\ IsPrepared(a) /\ ~job[c].mine
        \/ at = "owner" /\ IsStarted(a) /\ job[c].mine
    BY <1>0, <1>a, <2>1 DEF Minds, HoldingOK, IsPrepared, IsStarted
  <2>3. a \in Linked /\ settled[a] = "none"
    BY <1>a, <2>1
  <2>. HIDE DEF at, a
  <2>. QED  BY <2>1, <2>2, <2>3, UnsettledIsCurrent
\* A call that minds nothing may end or begin.
<1>b. ASSUME \A d \in Caller \ {c} : job'[d] = job[d],
             UNCHANGED <<link, started, settled, debris, crashes>>,
             at \in {"idle", "reserving", "linking"} \/ \A b \in Linked : settled[b] = "none" => ~Minds(c, b),
             Fresh(c)'
      PROVE  QuietInv'
  <2>1. \A b \in Linked : settled[b] = "none" => ~Minds(c, b)
    BY <1>b DEF Minds
  <2>2. Linked' = Linked
    BY <1>b DEF Linked
  <2>3. crashes = 0 => Minded'
    BY <1>0, <1>b, <2>1, <2>2, MindedKept
  <2>. QED  BY <1>b, <2>3, QuietKept
<1>1. ASSUME NEW b \in Attempt, NEW slot \in Slot, Prepare(c, b, slot) PROVE QuietInv'
  <2>1. /\ \A d \in Caller \ {c} : job'[d] = job[d]
        /\ job'[c].restored = FALSE /\ at = "idle"
        /\ UNCHANGED <<link, started, settled, debris, crashes>>
    BY <1>0, <1>1 DEF Prepare, Call
  <2>. QED  BY <1>b, <2>1 DEF Fresh
<1>2. ASSUME NEW b \in Attempt, Restore(c, b) \/ Expire(c, b) PROVE QuietInv'
  <2>1. /\ \A d \in Caller \ {c} : job'[d] = job[d]
        /\ job'[c].at \in {"queued", "settling"} /\ at = "idle"
        /\ UNCHANGED <<link, started, settled, debris, crashes>>
    BY <1>0, <1>2 DEF Restore, Expire, Call
  <2>. QED  BY <1>b, <2>1 DEF Fresh
<1>3. CASE BeginClaim(c)
  <2>1. at = "queued" /\ UNCHANGED <<link, started, settled, debris, crashes>>
    BY <1>3 DEF BeginClaim
  <2>2. Linked' = Linked
    BY <2>1 DEF Linked
  <2>3. CASE Enter(c, "claiming")
    <3>1. /\ \A d \in Caller \ {c} : job'[d] = job[d]
          /\ job'[c].at = "claiming" /\ job'[c].attempt = a
          /\ job'[c].restored = job[c].restored
      BY <1>0, <2>3, EnterOK, SameMessage DEF Stages
    <3>2. \A b \in Linked : Minds(c, b) => Minds(c, b)'
      BY <2>1, <3>1 DEF Minds
    <3>3. crashes = 0 => Minded'
      BY <1>0, <2>1, <2>2, <3>1, <3>2, MindedKept
    <3>. QED  BY <2>1, <3>1, <3>3, QuietKept DEF Fresh
  <2>4. CASE LoseClaim(c) /\ ~(IsPrepared(a) /\ OwnsCurrentAttempt(a))
    <3>1. /\ \A d \in Caller \ {c} : job'[d] = job[d]
          /\ job'[c].at \in {"idle", "queued"}
      BY <1>0, <2>4, LoseClaimOK, IdleOK
    <3>2. \A b \in Linked : settled[b] = "none" => ~Minds(c, b)
      BY <1>a, <2>1, <2>4
    <3>. QED  BY <1>b, <2>1, <3>1, <3>2 DEF Fresh
  <2>. QED  BY <1>3, <2>3, <2>4 DEF BeginClaim
<1>4. CASE Settle(c)
  <2>1. PICK result \in {"success", "failure"} : BeginSettle(c, result)
    BY <1>4 DEF Settle
  <2>2. /\ at \in {"queued", "owner"} /\ UNCHANGED <<link, started, settled, debris, crashes>>
        /\ result = "success" => job[c].mine
    BY <2>1 DEF BeginSettle
  <2>3. Linked' = Linked
    BY <2>2 DEF Linked
  <2>4. ASSUME NEW stage \in {"fencing", "settling"}, Publishing(c, stage, result),
               \/ stage = "fencing" /\ MayFence(c, result)
               \/ stage = "settling" /\ MaySettle(c)
        PROVE  QuietInv'
    <3>1. /\ \A d \in Caller \ {c} : job'[d] = job[d]
          /\ job'[c].at = stage /\ job'[c].attempt = a
          /\ job'[c].restored = job[c].restored
      BY <1>0, <2>4, PublishingOK, SameMessage DEF Stages
    <3>2. \/ stage = "fencing" /\ started[a] = "none"
          \/ stage = "settling" /\ started[a] = "claimed"
      BY <2>4 DEF MayFence, MaySettle, IsPrepared, IsStarted
    <3>3. \A b \in Linked : Minds(c, b) => Minds(c, b)'
      BY <2>2, <3>1, <3>2 DEF Minds
    <3>4. crashes = 0 => Minded'
      BY <1>0, <2>2, <2>3, <3>1, <3>3, MindedKept
    <3>. QED  BY <2>2, <2>4, <3>1, <3>4, QuietKept DEF Fresh
  <2>5. CASE ~MayFence(c, result) /\ ~MaySettle(c) /\ Drop(c)
    <3>1. job'[c] = Idle /\ \A d \in Caller \ {c} : job'[d] = job[d]
      BY <1>0, <2>5, DropOK
    <3>2. \A b \in Linked : settled[b] = "none" => ~Minds(c, b)
      BY <1>a, <2>2, <2>5 DEF MayFence, MaySettle
    <3>. QED  BY <1>b, <2>2, <3>1, <3>2, IdleOK DEF Fresh
  <2>. QED  BY <2>1, <2>4, <2>5 DEF BeginSettle
<1>5. CASE StageOwner(c)
  <2>1. /\ \A d \in Caller \ {c} : job'[d] = job[d]
        /\ job'[c].restored = job[c].restored /\ at = "reserving"
        /\ UNCHANGED <<link, started, settled, debris, crashes>>
    BY <1>0, <1>5, EnterOK, SameMessage DEF StageOwner, Stages
  <2>. QED  BY <1>0, <1>b, <2>1 DEF Fresh
<1>6. CASE LinkOwner(c)
  <2>0. at = "linking" /\ a \in Attempt \ Linked
    BY <1>0, <1>6 DEF LinkOwner, ReservingOK
  <2>1. CASE link[job[c].slot] = None
    <3>1. /\ link' = [link EXCEPT ![job[c].slot] = a]
          /\ UNCHANGED <<started, settled, debris, crashes>>
          /\ \A d \in Caller \ {c} : job'[d] = job[d]
          /\ job'[c].at = "preparing" /\ job'[c].attempt = a
          /\ job'[c].restored = job[c].restored
      BY <1>0, <1>6, <2>1, EnterOK, SameMessage DEF LinkOwner, Stages
    <3>2. Linked' = Linked \cup {a}
      BY <1>0, <2>0, <2>1, <3>1, LinkedGrows DEF ReservingOK, TypeOK
    <3>3. link'[a] = None
      <4>1. link[a] = None /\ a # job[c].slot /\ a \in Slot
        BY <1>0, <2>0, JournalAssumption
        DEF ChainInv, SuccessorsInChain, ReservingOK, Slot, TypeOK
      <4>. QED  BY <1>0, <3>1, <4>1 DEF TypeOK
    <3>4. started[a] = "none" /\ ~job[c].restored
      BY <1>0, <2>0 DEF EventOrder, Fresh
    <3>5. Minded'
      <4>1. \A b \in Linked : settled[b] # "none"
        BY <2>0, <2>1, LinkedAllSettled
      <4>2. Minds(c, a)'
        BY <3>1, <3>4 DEF Minds
      <4>. QED  BY <3>1, <3>2, <4>1, <4>2 DEF Minded
    <3>6. HasEnd'
      BY <2>0, <3>2, <3>3 DEF HasEnd, Slot
    <3>. QED  BY <3>1, <3>4, <3>5, <3>6 DEF QuietInv, Fresh
  <2>2. CASE link[job[c].slot] # None
    <3>1. /\ job'[c] = Idle /\ \A d \in Caller \ {c} : job'[d] = job[d]
          /\ UNCHANGED <<link, started, settled, debris, crashes>>
      BY <1>0, <1>6, <2>2, DropOK DEF LinkOwner
    <3>. QED  BY <1>b, <2>0, <3>1, IdleOK DEF Fresh
  <2>. QED  BY <2>1, <2>2
<1>7. CASE PublishPrepared(c)
  <2>1. /\ \A d \in Caller \ {c} : job'[d] = job[d]
        /\ job'[c].at = "queued" /\ job'[c].attempt = a /\ at = "preparing"
        /\ job'[c].restored = job[c].restored
        /\ UNCHANGED <<link, started, settled, debris, crashes>>
    BY <1>0, <1>7, EnterOK, SameMessage DEF PublishPrepared, Stages
  <2>2. \A b \in Linked : Minds(c, b) => Minds(c, b)'
    BY <2>1 DEF Minds
  <2>3. Linked' = Linked
    BY <2>1 DEF Linked
  <2>4. crashes = 0 => Minded'
    BY <1>0, <2>1, <2>2, <2>3, MindedKept
  <2>. QED  BY <2>1, <2>4, QuietKept DEF Fresh
<1>8. CASE LinkStarted(c)
  <2>0. at = "claiming" /\ UNCHANGED <<link, settled, debris, crashes>>
    BY <1>8 DEF LinkStarted
  <2>1. CASE started[a] = "none"
    <3>1. /\ started' = [started EXCEPT ![a] = "claimed"]
          /\ \A d \in Caller \ {c} : job'[d] = job[d]
          /\ job'[c].at = "owner" /\ job'[c].attempt = a
      BY <1>0, <1>8, <2>1, OwnerOK DEF LinkStarted
    <3>2. Minds(c, a)'
      <4>1. a \in Attempt
        BY <1>0, <2>0 DEF TypeOK
      <4>. QED  BY <1>0, <3>1, <4>1 DEF Minds
    <3>3. Linked' = Linked
      BY <2>0 DEF Linked
    <3>4. crashes = 0 => Minded'
      BY <1>0, <2>0, <3>1, <3>2, <3>3, MindedByWinner
    <3>. QED  BY <2>0, <3>1, <3>4, QuietKept DEF Fresh
  <2>2. CASE started[a] # "none"
    <3>1. /\ started' = started /\ \A d \in Caller \ {c} : job'[d] = job[d]
          /\ job'[c].at \in {"idle", "queued"}
      BY <1>0, <1>8, <2>2, LoseClaimOK, IdleOK DEF LinkStarted
    <3>2. \A b \in Linked : ~Minds(c, b)
      BY <2>0, <2>2 DEF Minds
    <3>. QED  BY <1>b, <2>0, <3>1, <3>2 DEF Fresh
  <2>. QED  BY <2>1, <2>2
<1>9. CASE Fence(c)
  <2>0. at = "fencing" /\ UNCHANGED <<link, settled, debris, crashes>>
    BY <1>9 DEF Fence
  <2>1. CASE started[a] = "none"
    <3>1. /\ started' = [started EXCEPT ![a] = "cancelled"]
          /\ \A d \in Caller \ {c} : job'[d] = job[d]
          /\ job'[c].at = "settling" /\ job'[c].attempt = a
      BY <1>0, <1>9, <2>1, EnterOK DEF Fence, Stages
    <3>2. Minds(c, a)'
      <4>1. a \in Attempt
        BY <1>0, <2>0 DEF TypeOK
      <4>. QED  BY <1>0, <3>1, <4>1 DEF Minds
    <3>3. Linked' = Linked
      BY <2>0 DEF Linked
    <3>4. crashes = 0 => Minded'
      BY <1>0, <2>0, <3>1, <3>2, <3>3, MindedByWinner
    <3>. QED  BY <2>0, <3>1, <3>4, QuietKept DEF Fresh
  <2>2. CASE started[a] # "none"
    <3>1. /\ started' = started /\ \A d \in Caller \ {c} : job'[d] = job[d]
          /\ job'[c] = Idle
      BY <1>0, <1>9, <2>2, DropOK DEF Fence
    <3>2. \A b \in Linked : ~Minds(c, b)
      BY <2>0, <2>2 DEF Minds
    <3>. QED  BY <1>b, <2>0, <3>1, <3>2, IdleOK DEF Fresh
  <2>. QED  BY <2>1, <2>2
<1>10. CASE PublishSettled(c)
  <2>1. /\ job'[c] = Idle /\ \A d \in Caller \ {c} : job'[d] = job[d]
        /\ UNCHANGED <<link, started, debris, crashes>> /\ at = "settling"
    BY <1>0, <1>10, DropOK DEF PublishSettled
  <2>2. job[c].result # "none" /\ a \in Attempt
    BY <1>0, <2>1 DEF HoldingOK, TypeOK
  <2>3. settled'[a] # "none" /\ \A b \in Attempt : settled[b] # "none" => settled'[b] # "none"
    BY <1>0, <1>10, <2>2 DEF PublishSettled, TypeOK
  <2>4. Linked' = Linked
    BY <2>1 DEF Linked
  <2>5. \A b \in Linked : Minds(c, b) => settled'[b] # "none"
    BY <2>3 DEF Minds
  <2>6. crashes = 0 => Minded'
    BY <1>0, <2>1, <2>3, <2>4, <2>5, MindedKept
  <2>. QED  BY <2>1, <2>6, IdleOK, QuietKept DEF Fresh
<1>11. CASE Crash(c)
  <2>1. /\ job'[c] = Idle /\ \A d \in Caller \ {c} : job'[d] = job[d]
        /\ link' = link /\ crashes' = crashes + 1
    BY <1>0, <1>11, DropOK DEF Crash
  <2>2. crashes' # 0
    BY <1>0, <2>1 DEF TypeOK
  <2>3. Linked' = Linked
    BY <2>1 DEF Linked
  <2>. QED  BY <2>1, <2>2, <2>3, IdleOK DEF QuietInv, HasEnd, Fresh
<1>. QED
  BY <1>1, <1>2, <1>3, <1>4, <1>5, <1>6, <1>7, <1>8, <1>9, <1>10, <1>11 DEF Continue

\* QuietMeansVacant, when every message runs its start hook: after any
\* interleaving of callers none of which crashed, nothing is left unsettled and
\* the next attempt can be reserved; reconciliation is for crashes only.
THEOREM VacantAtRest ==
  ASSUME ~HookSkipped
  PROVE  Spec => []QuietMeansVacant
<1>1. JournalInv /\ QuietInv /\ [Next]_vars => QuietInv'
  <2>. SUFFICES ASSUME JournalInv, QuietInv, [Next]_vars PROVE QuietInv'
    OBVIOUS
  <2>1. CASE Next
    BY <2>1, QuietStep DEF Next
  <2>2. CASE UNCHANGED vars
    BY <2>2 DEF vars, QuietInv, HasEnd, Fresh, Minded, Minds, Linked
  <2>. QED  BY <2>1, <2>2
<1>2. JournalInv /\ QuietInv => QuietMeansVacant
  <2>. SUFFICES ASSUME JournalInv, QuietInv, crashes = 0, \A c \in Caller : job[c] = Idle
                PROVE  \E slot \in Slot : Vacant(slot)
    BY DEF QuietMeansVacant
  <2>1. \A a \in Linked : settled[a] # "none"
    BY IdleOK DEF QuietInv, Minded, Minds
  <2>2. \A a \in Linked : IsSettled(a)
    BY <2>1, LinkedAttempts DEF JournalInv, EventOrder, IsSettled
  <2>3. ~RootLittered
    BY IdleOK DEF QuietInv, RootLittered
  <2>4. Readable
    BY <2>2, <2>3 DEF Readable
  <2>5. PICK t \in Slot : link[t] = None /\ (t = First \/ t \in Linked)
    BY DEF QuietInv, HasEnd
  <2>6. Vacant(t)
    BY <2>2, <2>4, <2>5 DEF Vacant, Current
  <2>. QED  BY <2>6
<1>. QED
  BY <1>1, <1>2, QuietInit, JournalInvariant, PTL DEF Spec
=============================================================================
