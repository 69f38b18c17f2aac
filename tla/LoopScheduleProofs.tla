------------------------- MODULE LoopScheduleProofs -------------------------
(***************************************************************************)
(* Proofs about LoopSchedule, for any times, windows, look back and        *)
(* troubles: type correctness; no run for an old or a closed time; windows *)
(* decided once; and, for a job that has a checkpoint, deferrals that do   *)
(* not consume the schedule.                                               *)
(***************************************************************************)
EXTENDS LoopSchedule, TLAPS

-----------------------------------------------------------------------------
(* The invariant *)

\* What has a record has come.
Recorded == \A u \in Times : ledger[u] # "none" => u <= now

\* What has an order or a prompt has a record.
Begun == \A u \in Times : order[u] # "none" \/ prompt[u] # "none" => ledger[u] # "none"

\* The checkpoint, and the one a retry puts back, stand at recorded times.
Checkpoints == /\ lastFired \in Times => ledger[lastFired] # "none"
               /\ run.prev \in Times => ledger[run.prev] # "none"

Dispatching == {"running", "system", "cleanup", "retry"}

\* The tick's time has come; until it is run, no newer one is recorded, whatever
\* the reconciliation does meanwhile.
Chosen ==
  /\ run.at \in Dispatching \cup {"chosen"} =>
        run.t \in Times /\ run.t <= now /\ run.prev \in Times \cup {First}
  /\ run.at \in Dispatching => ledger[run.t] # "none"
  /\ run.at = "chosen" => \A u \in Times : ledger[u] # "none" => u <= run.t

IInv == TypeOK /\ Recorded /\ Begun /\ Checkpoints /\ Chosen

-----------------------------------------------------------------------------
(* The values *)

LEMMA TimesAreNumbers == Times \subseteq Nat /\ Never \notin Times /\ None \notin Times
<1>1. \A n \in 1..Horizon : n \in Nat
  BY ScheduleAssumption
<1>2. Times \subseteq Nat
  BY <1>1, ScheduleAssumption
<1> QED BY <1>2, ScheduleAssumption

\* A newest time that has been missed has no later one behind it.
LEMMA LatestIsNewest ==
  ASSUME TypeOK, NEW t \in Times, Latest(t)
  PROVE  t <= now /\ \A u \in Times : u <= now => u <= t
<1>1. t \in Nat /\ now \in Nat /\ Window \in Nat /\ Lookback \in Nat
  BY TimesAreNumbers, ScheduleAssumption DEF TypeOK
<1>2. t \in Missed
  BY DEF Latest
<1> SUFFICES ASSUME NEW u \in Times, u <= now PROVE u <= t
  BY <1>2 DEF Missed
<1>3. u \in Nat
  BY TimesAreNumbers
<1>4. CASE u \in Missed
  BY <1>4 DEF Latest
<1>5. CASE u \notin Missed
  <2>1. CASE lastFired = Never
    BY <1>1, <1>2, <1>3, <1>5, <2>1 DEF Missed
  <2>2. CASE lastFired # Never
    <3>1. lastFired \in Nat
      BY <2>2, TimesAreNumbers, ScheduleAssumption DEF TypeOK
    <3> QED BY <1>1, <1>2, <1>3, <1>5, <2>2, <3>1 DEF Missed
  <2> QED BY <2>1, <2>2
<1> QED BY <1>4, <1>5

\* A new window replaces the older ones that are planned; the rest stay.
LEMMA PlannedWindows ==
  ASSUME TypeOK, NEW t \in Times, NEW o \in Plans(t)
  PROVE  /\ o \in [Times -> Windows]
         /\ \A u \in Times : /\ occ[u].st # "none" => o[u].nb = occ[u].nb
                             /\ occ[u].st \in Closed => o[u] = occ[u]
<1>1. occ \in [Times -> Windows] /\ "planned" \notin Closed
  BY DEF TypeOK, Closed
<1>2. CASE o = occ
  BY <1>1, <1>2
<1>3. CASE o # occ
  <2>1. PICK d \in 0..Window :
          /\ occ[t].st = "none"
          /\ o = [u \in Times |-> IF u = t THEN [st |-> "planned", nb |-> t + d]
                                  ELSE IF u < t /\ occ[u].st = "planned"
                                       THEN [occ[u] EXCEPT !.st = "superseded"] ELSE occ[u]]
    BY <1>3 DEF Plans
  <2>2. t + d \in Nat
    BY TimesAreNumbers, ScheduleAssumption
  <2>3. [st |-> "planned", nb |-> t + d] \in Windows
    BY <2>2 DEF Windows
  <2>4. \A u \in Times : /\ [occ[u] EXCEPT !.st = "superseded"] \in Windows
                         /\ [occ[u] EXCEPT !.st = "superseded"].nb = occ[u].nb
    BY <1>1 DEF Windows, Closed
  <2>5. o \in [Times -> Windows]
    BY <1>1, <2>1, <2>3, <2>4
  <2>6. "none" \notin Closed
    BY DEF Closed
  <2> QED BY <1>1, <2>1, <2>4, <2>5, <2>6
<1> QED BY <1>2, <1>3

\* setStatus closes a window or leaves it open, and reopens none that may be admitted.
LEMMA StatusWindows ==
  ASSUME TypeOK, NEW t \in Times, NEW st \in {"admitted", "settled"},
         st = "admitted" => occ[t].st \notin Closed
  PROVE  /\ Status(t, st) \in [Times -> Windows]
         /\ \A u \in Times : /\ Status(t, st)[u].nb = occ[u].nb
                             /\ occ[u].st \in Closed => Status(t, st)[u] = occ[u]
<1>1. occ \in [Times -> Windows]
  BY DEF TypeOK
<1>2. \A u \in Times : Status(t, st)[u] =
        IF u = t THEN [occ[t] EXCEPT !.st = IF occ[t].st \in {"none", "superseded"}
                                            THEN occ[t].st ELSE st] ELSE occ[u]
  BY <1>1 DEF Status
<1>3. Status(t, st)[t] \in Windows /\ Status(t, st)[t].nb = occ[t].nb
  BY <1>1, <1>2 DEF Windows, Closed
<1>4. occ[t].st \in Closed => Status(t, st)[t] = occ[t]
  BY <1>1, <1>2 DEF Windows, Closed
<1>5. Status(t, st) \in [Times -> Windows]
  BY <1>1, <1>3 DEF Status
<1> QED BY <1>2, <1>3, <1>4, <1>5

\* Whoever settles windows leaves the offset, and those that are closed.
LEMMA SettledWindows ==
  ASSUME TypeOK, Unschedule \/ \E t \in Times : SettleFromLedger(t)
  PROVE  /\ occ' \in [Times -> Windows]
         /\ \A u \in Times : /\ occ'[u].nb = occ[u].nb
                             /\ occ[u].st \in Closed => occ'[u] = occ[u]
<1>1. occ \in [Times -> Windows]
  BY DEF TypeOK
<1>2. \A u \in Times : /\ [occ[u] EXCEPT !.st = "settled"] \in Windows
                       /\ [occ[u] EXCEPT !.st = "settled"].nb = occ[u].nb
  BY <1>1 DEF Windows, Closed
<1>3. CASE Unschedule
  BY <1>1, <1>2, <1>3 DEF Unschedule, Closed
<1>4. ASSUME NEW t \in Times, SettleFromLedger(t)
      PROVE  /\ occ' \in [Times -> Windows]
             /\ \A u \in Times : /\ occ'[u].nb = occ[u].nb
                                 /\ occ[u].st \in Closed => occ'[u] = occ[u]
  BY <1>1, <1>2, <1>4 DEF SettleFromLedger, Closed
<1> QED BY <1>3, <1>4

-----------------------------------------------------------------------------
(* Initially *)

LEMMA InitInvariant == Init => IInv
<1> SUFFICES ASSUME Init PROVE IInv
  OBVIOUS
<1> USE DEF Init
<1>1. [st |-> "none", nb |-> 0] \in Windows
  BY DEF Windows
<1>2. now \in 0..Horizon /\ troubles \in 0..MaxTroubles
  BY ScheduleAssumption
<1>3. run \in [at: Stages, t: Times \cup {None}, prev: Times \cup {First, Never}]
  BY DEF Idle, Stages
<1>4. TypeOK
  BY <1>1, <1>2, <1>3 DEF TypeOK, OrderStates
<1>5. lastFired \notin Times /\ run.prev \notin Times
  BY TimesAreNumbers, ScheduleAssumption DEF Idle
<1>6. run.at = "idle"
  BY DEF Idle
<1> QED BY <1>4, <1>5, <1>6 DEF IInv, Recorded, Begun, Checkpoints, Chosen, Dispatching

-----------------------------------------------------------------------------
(* Steps of the tick *)

LEMMA ChooseStep ==
  ASSUME IInv, NEW t \in Times, Choose(t)
  PROVE  IInv'
<1> USE DEF IInv, Choose
<1>1. occ' \in [Times -> Windows]
  BY PlannedWindows
<1>2. lastFired \in Times \cup {First}
  BY DEF TypeOK
<1>3. run' \in [at: Stages, t: Times \cup {None}, prev: Times \cup {First, Never}]
  BY <1>2 DEF Stages
<1>4. TypeOK'
  BY <1>1, <1>3 DEF TypeOK
<1>5. t <= now /\ \A u \in Times : u <= now => u <= t
  BY LatestIsNewest
<1>6. Chosen'
  BY <1>2, <1>5 DEF Chosen, Dispatching, Recorded
<1>7. Recorded' /\ Begun' /\ Checkpoints'
  BY DEF Recorded, Begun, Checkpoints
<1> QED BY <1>4, <1>6, <1>7

\* A tick that passes the time over leaves a record if it moves the checkpoint.
LEMMA PassStep == ASSUME IInv, Pass PROVE IInv'
<1> DEFINE t == run.t
<1>1. /\ t \in Times /\ t <= now
  BY DEF IInv, Pass, Chosen
<1>2. /\ run' = Idle /\ now' = now /\ prompt' = prompt
      /\ order' = order /\ summary' = summary
  BY DEF Pass, Defer, Skip, Refuse, Recant
<1>3. /\ lastFired' = lastFired \/ (lastFired' = t /\ ledger'[t] # "none")
      /\ ledger' \in [Times -> {"none", "running", "done"}]
      /\ \A u \in Times : u # t => ledger'[u] = ledger[u]
      /\ \A u \in Times : ledger[u] # "none" => ledger'[u] # "none"
  BY <1>1 DEF IInv, TypeOK, Pass, Defer, Skip, Refuse, Recant
<1>4. occ' \in [Times -> Windows]
  <2>1. CASE occ' = occ
    BY <2>1 DEF IInv, TypeOK
  <2>2. CASE Refuse(t)
    BY <1>1, <2>2, StatusWindows DEF IInv, Refuse
  <2>3. CASE Recant(t)
    BY <1>1, <2>3, StatusWindows DEF IInv, Recant, Admitted
  <2> QED BY <2>1, <2>2, <2>3 DEF Pass, Defer, Skip
<1>5. troubles' \in 0..MaxTroubles /\ open' \in BOOLEAN
  <2>1. CASE troubles' = troubles /\ open' = open
    BY <2>1 DEF IInv, TypeOK
  <2>2. CASE Trouble /\ open' = FALSE
    <3>1. troubles' \in 0..MaxTroubles
      BY <2>2, ScheduleAssumption DEF IInv, TypeOK, Trouble
    <3>2. open' \in BOOLEAN
      BY <2>2
    <3> QED BY <3>1, <3>2
  <2>3. (troubles' = troubles /\ open' = open) \/ (Trouble /\ open' = FALSE)
    BY DEF Pass, Defer, Skip, Refuse, Recant
  <2> QED BY <2>1, <2>2, <2>3
<1>6. Idle.prev \notin Times /\ Idle.at = "idle"
  BY TimesAreNumbers DEF Idle
<1>7. run' \in [at: Stages, t: Times \cup {None}, prev: Times \cup {First, Never}]
  BY <1>2 DEF Idle, Stages
<1>8. TypeOK'
  BY <1>1, <1>2, <1>3, <1>4, <1>5, <1>7 DEF IInv, TypeOK
<1>9. Recorded' /\ Begun'
  BY <1>1, <1>2, <1>3 DEF IInv, Recorded, Begun
<1>10. Checkpoints' /\ Chosen'
  BY <1>2, <1>3, <1>6 DEF IInv, Checkpoints, Chosen, Dispatching
<1> QED BY <1>8, <1>9, <1>10 DEF IInv

LEMMA LaunchStep == ASSUME IInv, Launch PROVE IInv'
<1> DEFINE t == run.t
<1>1. t \in Times /\ t <= now /\ run.prev \in Times \cup {First}
  BY DEF IInv, Launch, Chosen
<1>2. occ' \in [Times -> Windows]
  BY <1>1, StatusWindows DEF IInv, Launch, Admitted
<1>3. /\ ledger' \in [Times -> {"none", "running", "done"}]
      /\ ledger'[t] = "running"
      /\ \A u \in Times : u # t => ledger'[u] = ledger[u]
  BY <1>1 DEF IInv, TypeOK, Launch
<1>4. /\ order' \in [Times -> OrderStates] /\ summary' \subseteq Times
      /\ \A u \in Times : u # t => order'[u] = order[u]
  BY <1>1 DEF IInv, TypeOK, Launch, OrderStates
<1>5. /\ run' \in [at: Stages, t: Times \cup {None}, prev: Times \cup {First, Never}]
      /\ run'.t = t /\ run'.prev = run.prev /\ run'.at # "chosen"
  BY DEF IInv, TypeOK, Launch, Stages
<1>6. UNCHANGED <<now, lastFired, prompt, open, troubles>>
  BY DEF Launch
<1>7. TypeOK'
  BY <1>2, <1>3, <1>4, <1>5, <1>6 DEF IInv, TypeOK
<1>8. Recorded' /\ Begun' /\ Checkpoints'
  BY <1>1, <1>3, <1>4, <1>5, <1>6 DEF IInv, Recorded, Begun, Checkpoints
<1>9. Chosen'
  BY <1>1, <1>3, <1>5, <1>6 DEF IInv, Chosen, Dispatching
<1> QED BY <1>7, <1>8, <1>9 DEF IInv

LEMMA FinishStep == ASSUME IInv, Finish PROVE IInv'
<1> DEFINE t == run.t
<1>1. t \in Times /\ ledger[t] # "none"
  BY DEF IInv, Finish, Chosen, Dispatching
<1>2. /\ order' \in [Times -> OrderStates]
      /\ \A u \in Times : u # t => order'[u] = order[u]
  BY <1>1 DEF IInv, TypeOK, Finish, OrderStates
<1>3. /\ run' \in [at: Stages, t: Times \cup {None}, prev: Times \cup {First, Never}]
      /\ run'.t = t /\ run'.prev = run.prev /\ run'.at # "chosen" /\ run'.at \in Dispatching
  BY DEF IInv, TypeOK, Finish, Stages, Dispatching
<1>4. troubles' \in 0..MaxTroubles
  BY ScheduleAssumption DEF IInv, TypeOK, Finish, Trouble
<1>5. UNCHANGED <<now, lastFired, occ, summary, ledger, prompt, open>>
  BY DEF Finish
<1>6. TypeOK'
  BY <1>2, <1>3, <1>4, <1>5 DEF IInv, TypeOK
<1>7. Recorded' /\ Begun' /\ Checkpoints'
  BY <1>1, <1>2, <1>3, <1>5 DEF IInv, Recorded, Begun, Checkpoints
<1>8. run.at \in Dispatching
  BY DEF Finish, Dispatching
<1>9. Chosen'
  BY <1>3, <1>5, <1>8 DEF IInv, Chosen
<1> QED BY <1>6, <1>7, <1>9 DEF IInv

\* The checkpoint moves to the time that was run, or goes back to a recorded one.
LEMMA EndRunStep == ASSUME IInv, EndRun PROVE IInv'
<1> DEFINE t == run.t
<1>1. /\ t \in Times /\ t <= now /\ run.prev \in Times \cup {First}
  BY DEF IInv, EndRun, Consume, Keep, Chosen, Dispatching
<1>2. /\ lastFired' = t \/ lastFired' = lastFired \/ lastFired' = run.prev
      /\ troubles' = troubles \/ Trouble
      /\ occ' = occ \/ occ' = Status(t, "settled")
      /\ ledger' = [ledger EXCEPT ![t] = "done"]
      /\ run' = Idle
      /\ UNCHANGED <<now, order, summary, prompt, open>>
  BY DEF EndRun, Consume, Keep
<1>3. /\ ledger' \in [Times -> {"none", "running", "done"}]
      /\ ledger'[t] = "done"
      /\ \A u \in Times : u # t => ledger'[u] = ledger[u]
  BY <1>1, <1>2 DEF IInv, TypeOK
<1>4. occ' \in [Times -> Windows]
  <2>1. CASE occ' = occ
    BY <2>1 DEF IInv, TypeOK
  <2>2. CASE occ' = Status(t, "settled")
    BY <1>1, <2>2, StatusWindows DEF IInv
  <2> QED BY <1>2, <2>1, <2>2
<1>5. troubles' \in 0..MaxTroubles
  BY <1>2, ScheduleAssumption DEF IInv, TypeOK, Trouble
<1>6. /\ run' \in [at: Stages, t: Times \cup {None}, prev: Times \cup {First, Never}]
      /\ run'.prev \notin Times /\ run'.at = "idle"
  BY <1>2, TimesAreNumbers DEF Idle, Stages
<1>7. lastFired' \in Times \cup {First}
  BY <1>1, <1>2 DEF IInv, TypeOK
<1>8. TypeOK'
  BY <1>2, <1>3, <1>4, <1>5, <1>6, <1>7 DEF IInv, TypeOK
<1>9. Recorded' /\ Begun'
  BY <1>1, <1>2, <1>3 DEF IInv, Recorded, Begun
<1>10. Checkpoints' /\ Chosen'
  BY <1>1, <1>2, <1>3, <1>6 DEF IInv, Checkpoints, Chosen, Dispatching
<1> QED BY <1>8, <1>9, <1>10 DEF IInv

-----------------------------------------------------------------------------
(* Workers, restored prompts and reconciliation *)

LEMMA RestoredStep ==
  ASSUME IInv, NEW t \in Times, BeginRestored(t) \/ EndRestored(t)
  PROVE  IInv'
<1>1. /\ order' \in [Times -> OrderStates]
      /\ prompt' \in [Times -> {"none", "saved", "held"}]
      /\ \A u \in Times : u # t => order'[u] = order[u] /\ prompt'[u] = prompt[u]
  BY DEF IInv, TypeOK, BeginRestored, EndRestored, OrderStates
<1>2. ledger[t] # "none"
  BY DEF IInv, Begun, BeginRestored, EndRestored
<1>3. UNCHANGED <<now, lastFired, occ, summary, ledger, run, open, troubles>>
  BY DEF BeginRestored, EndRestored
<1>4. TypeOK'
  BY <1>1, <1>3 DEF IInv, TypeOK
<1>5. Begun'
  BY <1>1, <1>2, <1>3 DEF IInv, Begun
<1> QED BY <1>3, <1>4, <1>5 DEF IInv, Recorded, Checkpoints, Chosen

\* What is reconciled has a record already, so no newer time gets one by it.
LEMMA ReconcileStep ==
  ASSUME IInv, NEW t \in Times, Recover(t) \/ Abandon(t)
  PROVE  IInv'
<1>1. ledger[t] # "none"
  BY DEF IInv, Begun, Recover, Abandon
<1>2. /\ \E st \in OrderStates : order' = [order EXCEPT ![t] = st]
      /\ ledger' = [ledger EXCEPT ![t] = "done"]
      /\ lastFired' = lastFired \/ lastFired' = t
      /\ troubles' = troubles \/ Trouble
      /\ UNCHANGED <<now, occ, summary, prompt, run, open>>
  BY DEF Recover, Abandon, SettleOrder, OrderStates
<1>3. /\ order' \in [Times -> OrderStates]
      /\ \A u \in Times : u # t => order'[u] = order[u]
  BY <1>2 DEF IInv, TypeOK
<1>4. /\ ledger' \in [Times -> {"none", "running", "done"}]
      /\ \A u \in Times : ledger'[u] # "none" <=> ledger[u] # "none"
  BY <1>1, <1>2 DEF IInv, TypeOK
<1>5. troubles' \in 0..MaxTroubles
  BY <1>2, ScheduleAssumption DEF IInv, TypeOK, Trouble
<1>6. TypeOK'
  BY <1>2, <1>3, <1>4, <1>5 DEF IInv, TypeOK
<1>7. Recorded' /\ Begun' /\ Checkpoints'
  BY <1>1, <1>2, <1>3, <1>4 DEF IInv, Recorded, Begun, Checkpoints
<1>8. Chosen'
  <2>1. run.at \in Dispatching \cup {"chosen"} => run.t \in Times
    BY DEF IInv, Chosen
  <2> QED BY <1>2, <1>4, <2>1 DEF IInv, Chosen, Dispatching
<1> QED BY <1>6, <1>7, <1>8 DEF IInv

-----------------------------------------------------------------------------
(* The windows, and the world *)

LEMMA WindowsStep ==
  ASSUME IInv, Look \/ Unschedule \/ \E t \in Times : SettleFromLedger(t)
  PROVE  IInv'
<1>1. occ' \in [Times -> Windows]
  BY PlannedWindows, SettledWindows DEF IInv, Look
<1>2. troubles' \in 0..MaxTroubles
  BY ScheduleAssumption DEF IInv, TypeOK, Look, Unschedule, SettleFromLedger, Trouble
<1>3. UNCHANGED <<now, lastFired, order, summary, ledger, prompt, run, open>>
  BY DEF Look, Unschedule, SettleFromLedger
<1>4. TypeOK'
  BY <1>1, <1>2, <1>3 DEF IInv, TypeOK
<1> QED BY <1>3, <1>4 DEF IInv, Recorded, Begun, Checkpoints, Chosen

LEMMA WorldStep ==
  ASSUME IInv, Advance \/ Close \/ Reopen \/ \E t \in Times : WriteSummary(t)
  PROVE  IInv'
<1>1. now' \in 0..Horizon /\ now <= now'
  BY ScheduleAssumption DEF IInv, TypeOK, Advance, Close, Reopen, WriteSummary
<1>2. troubles' \in 0..MaxTroubles /\ open' \in BOOLEAN /\ summary' \subseteq Times
  <2>1. CASE Close
    <3>1. troubles' \in 0..MaxTroubles
      BY <2>1, ScheduleAssumption DEF IInv, TypeOK, Close, Trouble
    <3>2. open' \in BOOLEAN /\ summary' \subseteq Times
      BY <2>1 DEF IInv, TypeOK, Close
    <3> QED BY <3>1, <3>2
  <2>2. CASE Advance \/ Reopen \/ \E t \in Times : WriteSummary(t)
    BY <2>2 DEF IInv, TypeOK, Advance, Reopen, WriteSummary
  <2> QED BY <2>1, <2>2
<1>3. UNCHANGED <<lastFired, occ, order, ledger, prompt, run>>
  BY DEF Advance, Close, Reopen, WriteSummary
<1>4. TypeOK'
  BY <1>1, <1>2, <1>3 DEF IInv, TypeOK
<1>5. \A u \in Times : u \in Nat
  BY TimesAreNumbers
<1>6. now \in Nat /\ now' \in Nat
  BY <1>1 DEF IInv, TypeOK
<1>7. Recorded'
  BY <1>1, <1>3, <1>5, <1>6 DEF IInv, Recorded
<1>8. Chosen'
  BY <1>1, <1>3, <1>5, <1>6 DEF IInv, Chosen
<1> QED BY <1>3, <1>4, <1>7, <1>8 DEF IInv, Begun, Checkpoints

\* A prompt is saved of a time that is running, hence recorded.
LEMMA RestartStep == ASSUME IInv, Restart PROVE IInv'
<1>1. run.at = "running" => ledger[run.t] # "none"
  BY DEF IInv, Chosen, Dispatching
<1>2. PICK kept \in SUBSET {run.t} :
        prompt' = [t \in Times |-> IF t \in kept /\ run.at = "running" THEN "saved"
                                   ELSE IF prompt[t] = "held" THEN "none" ELSE prompt[t]]
  BY DEF Restart
<1>3. /\ prompt' \in [Times -> {"none", "saved", "held"}]
      /\ \A u \in Times : prompt'[u] # "none" => prompt[u] # "none" \/ ledger[u] # "none"
  BY <1>1, <1>2 DEF IInv, TypeOK
<1>4. /\ run' \in [at: Stages, t: Times \cup {None}, prev: Times \cup {First, Never}]
      /\ run'.prev \notin Times /\ run'.at = "boot"
  BY TimesAreNumbers DEF Restart, Boot, Idle, Stages
<1>5. troubles' \in 0..MaxTroubles
  BY ScheduleAssumption DEF IInv, TypeOK, Restart, Trouble
<1>6. UNCHANGED <<now, lastFired, occ, order, summary, ledger, open>>
  BY DEF Restart
<1>7. TypeOK'
  BY <1>3, <1>4, <1>5, <1>6 DEF IInv, TypeOK
<1>8. Begun'
  BY <1>3, <1>6 DEF IInv, Begun
<1>9. Checkpoints' /\ Chosen' /\ Recorded'
  BY <1>4, <1>6 DEF IInv, Checkpoints, Chosen, Dispatching, Recorded
<1> QED BY <1>7, <1>8, <1>9 DEF IInv

LEMMA EndBootStep == ASSUME IInv, EndBoot PROVE IInv'
<1>1. /\ prompt' \in [Times -> {"none", "saved", "held"}]
      /\ \A u \in Times : prompt'[u] # "none" => prompt[u] # "none"
  BY DEF IInv, TypeOK, EndBoot
<1>2. /\ run' \in [at: Stages, t: Times \cup {None}, prev: Times \cup {First, Never}]
      /\ run'.prev \notin Times /\ run'.at = "idle"
  BY TimesAreNumbers DEF EndBoot, Idle, Stages
<1>3. UNCHANGED <<now, lastFired, occ, order, summary, ledger, open, troubles>>
  BY DEF EndBoot
<1>4. TypeOK'
  BY <1>1, <1>2, <1>3 DEF IInv, TypeOK
<1>5. Begun'
  BY <1>1, <1>3 DEF IInv, Begun
<1>6. Checkpoints' /\ Chosen' /\ Recorded'
  BY <1>2, <1>3 DEF IInv, Checkpoints, Chosen, Dispatching, Recorded
<1> QED BY <1>4, <1>5, <1>6 DEF IInv

-----------------------------------------------------------------------------
(* Every step *)

LEMMA NextInvariant == IInv /\ [Next]_vars => IInv'
<1> SUFFICES ASSUME IInv, [Next]_vars PROVE IInv'
  OBVIOUS
<1>1. CASE Ticks
  BY <1>1, ChooseStep DEF Ticks
<1>2. CASE Running
  BY <1>2, PassStep, LaunchStep, FinishStep, EndRunStep, EndBootStep DEF Running
<1>3. CASE Restoring
  BY <1>3, RestoredStep DEF Restoring
<1>4. CASE Reconciles
  BY <1>4, ReconcileStep DEF Reconciles
<1>5. CASE Advance \/ Reopen
  BY <1>5, WorldStep
<1>6. CASE Chance
  <2>1. CASE Look \/ Unschedule \/ \E t \in Times : SettleFromLedger(t)
    BY <2>1, WindowsStep
  <2>2. CASE Close \/ \E t \in Times : WriteSummary(t)
    BY <2>2, WorldStep
  <2>3. CASE Restart
    BY <2>3, RestartStep
  <2> QED BY <1>6, <2>1, <2>2, <2>3 DEF Chance
<1>7. CASE UNCHANGED vars
  BY <1>7 DEF vars, IInv, TypeOK, Recorded, Begun, Checkpoints, Chosen
<1> QED BY <1>1, <1>2, <1>3, <1>4, <1>5, <1>6, <1>7 DEF Next

-----------------------------------------------------------------------------
(* Theorems *)

\* The invariant on which the choice of a time rests: what the tick has chosen
\* stays the newest recorded time until it is run, although workers, restored
\* prompts and reconciliation move the checkpoint meanwhile.
THEOREM ScheduleInvariant == Spec => []IInv
BY InitInvariant, NextInvariant, PTL DEF Spec

\* Every file and the tick keep to their types, for any times, windows and troubles.
THEOREM TypeCorrect == Spec => []TypeOK
<1>1. IInv => TypeOK
  BY DEF IInv
<1> QED BY <1>1, ScheduleInvariant, PTL

\* Missed times coalesce to the latest: no run for an older time than a handled one,
\* nor for a closed window, for any times, troubles, and whatever the look back.
THEOREM NewestRuns == Spec => RunsTheNewest
<1>1. IInv /\ [Next]_vars =>
        [\A t \in Times : Launched(t) =>
            /\ occ[t].st \notin Closed
            /\ \A u \in Times : ledger[u] # "none" => u <= t]_vars
  <2> SUFFICES ASSUME IInv, [Next]_vars, NEW t \in Times, Launched(t)
               PROVE  /\ occ[t].st \notin Closed
                      /\ \A u \in Times : ledger[u] # "none" => u <= t
    OBVIOUS
  <2>1. run.at = "chosen" /\ run.t = t /\ run'.at \in {"running", "system"}
    BY DEF Launched
  <2>2. Launch
    <3>1. run' # run /\ run' # Idle /\ run' # Boot
      BY <2>1 DEF Idle, Boot
    <3>2. ~Ticks
      BY <2>1 DEF Ticks, Choose
    <3>3. Running => Launch
      BY <2>1, <3>1 DEF Running, Pass, Finish, EndRun, EndBoot
    <3>4. ~Restoring /\ ~Reconciles /\ ~Advance /\ ~Reopen
      BY <3>1 DEF Restoring, BeginRestored, EndRestored, Reconciles, Recover, Abandon,
                  Advance, Reopen
    <3>5. ~Chance
      BY <3>1 DEF Chance, Look, Unschedule, Close, Restart, WriteSummary, SettleFromLedger
    <3>6. vars' # vars
      BY <3>1 DEF vars
    <3> QED BY <3>2, <3>3, <3>4, <3>5, <3>6 DEF Next
  <2>3. Admitted(t, occ)
    BY <2>1, <2>2 DEF Launch
  <2> QED BY <2>1, <2>3 DEF Admitted, IInv, Chosen
<1> QED BY <1>1, ScheduleInvariant, PTL DEF Spec, RunsTheNewest

\* The step keeps the offsets drawn, and what is closed.
Decided == \A t \in Times : /\ occ[t].st # "none" => occ'[t].nb = occ[t].nb
                            /\ occ[t].st \in Closed => occ'[t] = occ[t]

LEMMA WindowsDecided == ASSUME IInv, Next PROVE Decided
<1> USE DEF Decided
<1>0. TypeOK
  BY DEF IInv
<1>1. CASE UNCHANGED occ
  BY <1>1
<1>2. ASSUME NEW t \in Times, occ' \in Plans(t) PROVE Decided
  BY <1>0, <1>2, PlannedWindows
<1>3. ASSUME NEW t \in Times, NEW st \in {"admitted", "settled"},
             st = "admitted" => occ[t].st \notin Closed, occ' = Status(t, st)
      PROVE  Decided
  BY <1>0, <1>3, StatusWindows
<1>4. CASE Unschedule \/ \E t \in Times : SettleFromLedger(t)
  BY <1>0, <1>4, SettledWindows
<1>5. CASE Ticks \/ Look
  BY <1>2, <1>5 DEF Ticks, Choose, Look
<1>6. CASE Pass \/ Launch \/ EndRun
  <2>1. run.t \in Times
    BY <1>6 DEF IInv, Chosen, Dispatching, Pass, Launch, EndRun, Consume, Keep
  <2>2. \/ UNCHANGED occ
        \/ occ' = Status(run.t, "settled")
        \/ occ' = Status(run.t, "admitted") /\ occ[run.t].st \notin Closed
    BY <1>6 DEF Pass, Defer, Skip, Refuse, Recant, Launch, EndRun, Consume, Keep, Admitted
  <2> QED BY <1>1, <1>3, <2>1, <2>2
<1>7. CASE Finish \/ EndBoot \/ Restoring \/ Reconciles
  BY <1>1, <1>7 DEF Finish, EndBoot, Restoring, BeginRestored, EndRestored, Reconciles,
                    Recover, Abandon
<1>8. CASE Advance \/ Reopen \/ Close \/ Restart \/ \E t \in Times : WriteSummary(t)
  BY <1>1, <1>8 DEF Advance, Reopen, Close, Restart, WriteSummary
<1> QED BY <1>4, <1>5, <1>6, <1>7, <1>8 DEF Next, Running, Chance

\* A window is drawn once and never reopened, for any times, windows and restarts.
THEOREM WindowsStand == Spec => DecidedOnce
<1>1. IInv /\ [Next]_vars =>
        [\A t \in Times : /\ occ[t].st # "none" => occ'[t].nb = occ[t].nb
                          /\ occ[t].st \in Closed => occ'[t] = occ[t]]_vars
  BY WindowsDecided DEF Decided
<1> QED BY <1>1, ScheduleInvariant, PTL DEF Spec, DecidedOnce

\* With a checkpoint, the newest time without record is due.
LEMMA NewestIsDue ==
  ASSUME IInv, First # Never, NEW t \in Times, Newest(t), ledger[t] = "none"
  PROVE  t \in Missed
<1>1. t \in Nat /\ t <= now /\ now \in Nat
  BY TimesAreNumbers DEF IInv, TypeOK, Newest
<1>2. CASE lastFired \in Times
  <2>1. lastFired <= now /\ lastFired # t /\ lastFired \in Nat
    BY <1>2, TimesAreNumbers DEF IInv, Checkpoints, Recorded
  <2>2. lastFired <= t
    BY <1>2, <2>1 DEF Newest
  <2>3. lastFired < t /\ lastFired # Never
    BY <1>1, <1>2, <2>1, <2>2, TimesAreNumbers
  <2> QED BY <1>1, <2>3 DEF Missed
<1>3. CASE lastFired = First
  <2>1. lastFired = 0 /\ lastFired # Never
    BY <1>3, ScheduleAssumption
  <2>2. 0 < t
    BY ScheduleAssumption
  <2> QED BY <1>1, <2>1, <2>2 DEF Missed
<1> QED BY <1>2, <1>3 DEF IInv, TypeOK

\* A job with a checkpoint loses no time by a deferral, whatever the deferral lasts;
\* without one it does: the run schedule_never_fired.
THEOREM DeferralKeepsDue == First # Never => (Spec => DeferredStaysDue)
<1> SUFFICES ASSUME First # Never PROVE Spec => DeferredStaysDue
  OBVIOUS
<1>1. IInv => \A t \in Times : Newest(t) /\ ledger[t] = "none" => t \in Missed
  BY NewestIsDue
<1>2. IInv' => (\A t \in Times : Newest(t) /\ ledger[t] = "none" => t \in Missed)'
  BY <1>1, PTL
<1>3. IInv /\ IInv' =>
        [\A t \in Times :
           ~open /\ Newest(t) /\ t \in Missed /\ ledger[t] = "none"
             => ledger'[t] # "none" \/ ~Newest(t)' \/ (t \in Missed)']_vars
  BY <1>2
<1> QED BY <1>3, ScheduleInvariant, PTL DEF DeferredStaysDue
=============================================================================
