------------------------- MODULE InstanceLockProofs -------------------------
(***************************************************************************)
(* What InstanceLock guarantees, for any number of processes and pids, when*)
(* no bot is launched while another is still acquiring the lock: whatever  *)
(* ps answers, starts succeed and refusals are earned (StartInv); and as   *)
(* long as it answers about the programs that run, one bot serves          *)
(* (LockInv).  LockRace.cfg and LockProbe.cfg refute the last without the  *)
(* one assumption or the other.                                            *)
(***************************************************************************)
EXTENDS InstanceLock, TLAPS

Holds(p) == at[p] \in {"serving", "releasing"}

\* Launches are one after the other, and live processes have their own pids.
OneAcquirer ==
  /\ \A p, q \in Process : at[p] \in Acquiring /\ at[q] \in Acquiring => p = q
  /\ \A p \in Process : Live(p) => pid[p] \in Pid
  /\ \A p, q \in Process : Live(p) /\ Live(q) /\ pid[p] = pid[q] => p = q

\* The file of a process that serves, or is about to, is its own.
FileInv ==
  /\ \A p \in Process : Holds(p) => file = p /\ p \in written
  /\ \A p \in Process : at[p] = "write" => file = p
  /\ \A p \in Process : at[p] = "off" => file # p /\ p \notin written

\* What an acquiring process has read is still there, or nothing is; once it has
\* found the file stale, nobody serves.
SeenInv ==
  /\ \A p \in Process : at[p] \in {"probe", "recheck"} => Holder \in {None, seen[p]}
  /\ \A p, q \in Process : at[p] = "probe" /\ Holds(q) => seen[p] = pid[q]
  /\ \A p, q \in Process : at[p] \in {"recheck", "remove"} => ~Holds(q)

\* The second attempt finds no file.
RetryInv ==
  /\ \A p \in Process : at[p] = "create" /\ p \in retried => file = None
  /\ \A p \in Process : at[p] \in {"off", "inspect", "probe", "recheck", "remove"}
                          => p \notin retried

StartInv == TypeOK /\ OneAcquirer /\ RetryInv /\ NoFailedStart

LockInv == StartInv /\ FileInv /\ SeenInv

-----------------------------------------------------------------------------
(* Whatever ps answers *)

\* At first no process has been launched.
LEMMA StartInvInit == Init => StartInv
  BY LockAssumption DEF Init, StartInv, TypeOK, OneAcquirer, RetryInv,
     NoFailedStart, Stage, Acquiring, Live

\* One process acquires at a time, and its second attempt finds no file.
LEMMA StartInvStep == ASSUME ~Overlap, StartInv, [Next]_vars PROVE StartInv'
<1> USE LockAssumption DEF StartInv
<1>1. ASSUME NEW p \in Process, NEW i \in Pid, Launch(p, i) PROVE StartInv'
  <2> USE <1>1 DEF Launch, Goto
  <2>1. TypeOK'
    BY DEF TypeOK, Stage, Acquiring
  <2>2. OneAcquirer'
    BY DEF TypeOK, OneAcquirer, Stage, Acquiring, Live, Free
  <2>3. RetryInv' /\ NoFailedStart'
    BY DEF TypeOK, RetryInv, NoFailedStart
  <2> QED BY <2>1, <2>2, <2>3
<1>2. ASSUME NEW p \in Process, Create(p) PROVE StartInv'
  BY <1>2 DEF Create, Goto, TypeOK, OneAcquirer, RetryInv, NoFailedStart,
     Stage, Acquiring, Live
<1>3. ASSUME NEW p \in Process, Write(p) PROVE StartInv'
  BY <1>3 DEF Write, Goto, TypeOK, OneAcquirer, RetryInv, NoFailedStart,
     Stage, Acquiring, Live
<1>4. ASSUME NEW p \in Process, Inspect(p) PROVE StartInv'
  BY <1>4 DEF Inspect, Holder, Goto, TypeOK, OneAcquirer, RetryInv, NoFailedStart,
     Stage, Acquiring, Live
<1>5. ASSUME NEW p \in Process, Probe(p) PROVE StartInv'
  BY <1>5 DEF Probe, Goto, TypeOK, OneAcquirer, RetryInv, NoFailedStart,
     Stage, Acquiring, Live
<1>6. ASSUME NEW p \in Process, Recheck(p) PROVE StartInv'
  BY <1>6 DEF Recheck, Goto, TypeOK, OneAcquirer, RetryInv, NoFailedStart,
     Stage, Acquiring, Live
<1>7. ASSUME NEW p \in Process, Remove(p) PROVE StartInv'
  BY <1>7 DEF Remove, Goto, TypeOK, OneAcquirer, RetryInv, NoFailedStart,
     Stage, Acquiring, Live
<1>8. ASSUME NEW p \in Process, Release(p) PROVE StartInv'
  BY <1>8 DEF Release, Goto, TypeOK, OneAcquirer, RetryInv, NoFailedStart,
     Stage, Acquiring, Live
<1>9. ASSUME NEW p \in Process, Unlink(p) PROVE StartInv'
  BY <1>9 DEF Unlink, Goto, TypeOK, OneAcquirer, RetryInv, NoFailedStart,
     Stage, Acquiring, Live
<1>10. ASSUME NEW p \in Process, Exit(p) PROVE StartInv'
  BY <1>10 DEF Exit, Goto, TypeOK, OneAcquirer, RetryInv, NoFailedStart,
     Stage, Acquiring, Live
<1>11. ASSUME NEW i \in Pid, Stranger(i) PROVE StartInv'
  BY <1>11 DEF Stranger, Free, TypeOK, OneAcquirer, RetryInv, NoFailedStart, Live
<1>12. CASE UNCHANGED vars
  BY <1>12 DEF vars, TypeOK, OneAcquirer, RetryInv, NoFailedStart, Live
<1> QED
  BY <1>1, <1>2, <1>3, <1>4, <1>5, <1>6, <1>7, <1>8, <1>9, <1>10, <1>11, <1>12 DEF Next

\* One process at a time is between its launch and the end of its acquisition,
\* and none gives up, whatever ps answers.
THEOREM StartInvariant == ASSUME ~Overlap PROVE Spec => []StartInv
  BY StartInvInit, StartInvStep, PTL DEF Spec

\* acquireInstanceLock never gives up after its two attempts.
THEOREM StartSucceeds == ASSUME ~Overlap PROVE Spec => []NoFailedStart
<1>1. StartInv => NoFailedStart
  BY DEF StartInv
<1> QED BY <1>1, StartInvariant, PTL

\* A refusal means that the pid in the file is that of a bot past its own
\* acquisition, or of a program with the marker: no unrelated one causes it.
THEOREM RefusalIsEarned == ASSUME ~Overlap PROVE Spec => RefusedOnlyBesideAnother
<1> DEFINE Earned == \A p \in Process : at[p] # "refused" /\ at'[p] = "refused" =>
      \/ seen[p] \in kin
      \/ \E q \in Process \ {p} : /\ pid[q] = seen[p]
                                 /\ at[q] \in {"serving", "releasing", "stopping"}
<1>1. ASSUME StartInv, [Next]_vars PROVE [Earned]_vars
  <2> SUFFICES ASSUME NEW p \in Process, at[p] # "refused", at'[p] = "refused",
                      seen[p] \notin kin
               PROVE \E q \in Process \ {p} : /\ pid[q] = seen[p]
                                               /\ at[q] \in {"serving", "releasing", "stopping"}
    OBVIOUS
  <2>1. Probe(p) /\ ShowsMarker(p)
    BY <1>1 DEF StartInv, TypeOK, Next, vars, Goto, Launch, Create, Write, Inspect, Probe,
       Recheck, Remove, Release, Unlink, Exit, Stranger
  <2>2. PICK q \in Process : Live(q) /\ pid[q] = seen[p]
    BY <2>1 DEF ShowsMarker
  <2>3. q # p
    BY <2>1, <2>2 DEF ShowsMarker
  <2>4. at[p] \in Acquiring /\ at[q] \notin Acquiring
    BY <2>1, <2>3, <1>1 DEF StartInv, OneAcquirer, Probe, Acquiring
  <2> QED BY <2>2, <2>3, <2>4, <1>1 DEF StartInv, TypeOK, Stage, Live
<1> QED BY <1>1, StartInvariant, PTL DEF Spec, RefusedOnlyBesideAnother

-----------------------------------------------------------------------------
(* As long as ps answers *)

\* At first nobody has the file.
LEMMA LockInvInit == Init => LockInv
  BY StartInvInit, LockAssumption DEF Init, LockInv, FileInv, SeenInv, Holds, Holder

\* Every step keeps the lock with its holder.
LEMMA LockInvStep == ASSUME ~Overlap, ~PsFails, LockInv, [Next]_vars PROVE LockInv'
<1> USE LockAssumption DEF LockInv
<1>0. StartInv'
  BY StartInvStep
<1>1. ASSUME NEW p \in Process, NEW i \in Pid, Launch(p, i) PROVE FileInv' /\ SeenInv'
  <2> USE <1>1 DEF Launch, Goto, StartInv
  <2>1. FileInv'
    BY DEF TypeOK, FileInv, Stage, Acquiring, Holds
  <2>2. Holder' = Holder
    BY DEF TypeOK, FileInv, Holder
  <2>3. SeenInv'
    BY <2>2 DEF TypeOK, SeenInv, Stage, Acquiring, Holds
  <2> QED BY <2>1, <2>3
<1>2. ASSUME NEW p \in Process, Create(p) PROVE FileInv' /\ SeenInv'
  BY <1>2 DEF Create, Goto, StartInv, TypeOK, OneAcquirer, RetryInv, FileInv, SeenInv,
     Stage, Acquiring, Live, Holds, Holder
<1>3. ASSUME NEW p \in Process, Write(p) PROVE FileInv' /\ SeenInv'
  BY <1>3 DEF Write, Goto, StartInv, TypeOK, OneAcquirer, RetryInv, FileInv, SeenInv,
     Stage, Acquiring, Live, Holds, Holder
<1>4. ASSUME NEW p \in Process, Inspect(p) PROVE FileInv' /\ SeenInv'
  BY <1>4 DEF Inspect, Goto, StartInv, TypeOK, OneAcquirer, RetryInv, FileInv, SeenInv,
     Stage, Acquiring, Live, Holds, Holder
<1>5. ASSUME NEW p \in Process, Probe(p) PROVE FileInv' /\ SeenInv'
  BY <1>5 DEF Probe, ShowsMarker, Goto, StartInv, TypeOK, OneAcquirer, RetryInv, FileInv, SeenInv,
     Stage, Acquiring, Live, Holds, Holder
<1>6. ASSUME NEW p \in Process, Recheck(p) PROVE FileInv' /\ SeenInv'
  BY <1>6 DEF Recheck, Goto, StartInv, TypeOK, OneAcquirer, RetryInv, FileInv, SeenInv,
     Stage, Acquiring, Live, Holds, Holder
<1>7. ASSUME NEW p \in Process, Remove(p) PROVE FileInv' /\ SeenInv'
  BY <1>7 DEF Remove, Goto, StartInv, TypeOK, OneAcquirer, RetryInv, FileInv, SeenInv,
     Stage, Acquiring, Live, Holds, Holder
<1>8. ASSUME NEW p \in Process, Release(p) PROVE FileInv' /\ SeenInv'
  BY <1>8 DEF Release, Goto, StartInv, TypeOK, OneAcquirer, RetryInv, FileInv, SeenInv,
     Stage, Acquiring, Live, Holds, Holder
<1>9. ASSUME NEW p \in Process, Unlink(p) PROVE FileInv' /\ SeenInv'
  BY <1>9 DEF Unlink, Goto, StartInv, TypeOK, OneAcquirer, RetryInv, FileInv, SeenInv,
     Stage, Acquiring, Live, Holds, Holder
<1>10. ASSUME NEW p \in Process, Exit(p) PROVE FileInv' /\ SeenInv'
  BY <1>10 DEF Exit, Goto, StartInv, TypeOK, OneAcquirer, RetryInv, FileInv, SeenInv,
     Stage, Acquiring, Live, Holds, Holder
<1>11. ASSUME NEW i \in Pid, Stranger(i) PROVE FileInv' /\ SeenInv'
  BY <1>11 DEF Stranger, FileInv, SeenInv, Holds, Holder
<1>12. ASSUME UNCHANGED vars PROVE FileInv' /\ SeenInv'
  <2>1. UNCHANGED <<at, pid, file, written, seen>>
    BY <1>12 DEF vars
  <2>2. FileInv'
    BY <2>1 DEF FileInv, Holds
  <2>3. SeenInv'
    BY <2>1 DEF SeenInv, Holds, Holder
  <2> QED BY <2>2, <2>3
<1> QED
  BY <1>0, <1>1, <1>2, <1>3, <1>4, <1>5, <1>6, <1>7, <1>8, <1>9, <1>10, <1>11, <1>12 DEF Next

\* The inductive invariant of the lock, when launches do not overlap and ps
\* answers about whatever runs.
THEOREM LockInvariant == ASSUME ~Overlap, ~PsFails PROVE Spec => []LockInv
  BY LockInvInit, LockInvStep, PTL DEF Spec

\* One process serves at a time (acquireInstanceLock, releaseInstanceLock).
THEOREM OneServer == ASSUME ~Overlap, ~PsFails PROVE Spec => []AtMostOneServing
<1>1. LockInv => AtMostOneServing
  BY DEF LockInv, FileInv, Holds, AtMostOneServing
<1> QED BY <1>1, LockInvariant, PTL
=============================================================================
