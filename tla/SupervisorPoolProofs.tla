------------------------ MODULE SupervisorPoolProofs ------------------------
(***************************************************************************)
(* Proofs about SupervisorPool, for any orders, sessions and troubles:     *)
(* type correctness whatever the constants; while no reconciled order asks *)
(* for a revision and no pass meets an order in a short stage of its call, *)
(* calls keep their leases and accepted orders stay accepted.              *)
(***************************************************************************)
EXTENDS SupervisorPool, FiniteSetTheorems, TLAPS

-----------------------------------------------------------------------------
(* The values *)

LEMMA StateTyped ==
  ASSUME NEW st \in Open \cup Terminal, NEW s \in Sessions, NEW gated \in BOOLEAN
  PROVE  State(st, s, gated) \in States
BY DEF State, States, Ages

\* An order that was dispatched has a session.
LEMMA Dispatched ==
  ASSUME NEW o \in States, o.st # "none"
  PROVE  /\ o.at \in Sessions /\ o.gated \in BOOLEAN /\ o.age \in Ages
         /\ o.st \in Open \cup Terminal
BY DEF States, NoOrder

LEMMA OpenDispatched == "none" \notin Open /\ "none" \notin Terminal
BY DEF Open, Terminal

LEMMA StateFields ==
  ASSUME NEW st, NEW s, NEW gated
  PROVE  /\ State(st, s, gated).st = st /\ State(st, s, gated).at = s
         /\ State(st, s, gated).age = 0
BY DEF State

LEMMA WrittenTyped ==
  ASSUME order \in [Orders -> States], NEW w \in Orders,
         NEW st \in Open \cup Terminal, NEW s \in Sessions
  PROVE  Verified(w, st, s) \in [Orders -> States] /\ Written(w, st, s) \in [Orders -> States]
<1>1. order[w].gated \in BOOLEAN
  <2>1. order[w] \in States
    OBVIOUS
  <2>2. CASE order[w] = NoOrder
    BY <2>2 DEF NoOrder
  <2>3. CASE order[w] # NoOrder
    BY <2>1, <2>3 DEF States
  <2> QED BY <2>2, <2>3
<1>2. State(st, s, TRUE) \in States /\ State(st, s, order[w].gated) \in States
  BY <1>1, StateTyped
<1> QED BY <1>2 DEF Written, Verified

\* What is written of one order, and of no other.
LEMMA WrittenFields ==
  ASSUME order \in [Orders -> States], NEW w \in Orders, NEW st, NEW s, NEW v \in Orders
  PROVE  /\ v = w => /\ Written(w, st, s)[v] = State(st, s, order[w].gated)
                     /\ Verified(w, st, s)[v] = State(st, s, TRUE)
         /\ v # w => Written(w, st, s)[v] = order[v] /\ Verified(w, st, s)[v] = order[v]
BY DEF Written, Verified

\* No order is undone.
LEMMA WrittenStays ==
  ASSUME order \in [Orders -> States], NEW w \in Orders,
         NEW st \in Open \cup Terminal, NEW s
  PROVE  /\ \A v \in Orders : order[v].st # "none" \/ v = w => Written(w, st, s)[v].st # "none"
         /\ \A v \in Orders : order[v].st # "none" \/ v = w => Verified(w, st, s)[v].st # "none"
<1> SUFFICES ASSUME NEW v \in Orders, order[v].st # "none" \/ v = w
             PROVE  Written(w, st, s)[v].st # "none" /\ Verified(w, st, s)[v].st # "none"
  OBVIOUS
<1>1. st # "none"
  BY OpenDispatched
<1>2. \A gated : State(st, s, gated).st # "none"
  BY <1>1 DEF State
<1> QED BY <1>2 DEF Written, Verified

LEMMA LeaseTyped ==
  ASSUME lease \in [Sessions -> Leases], NEW s \in Sessions
  PROVE  lease[s].st # "none" => lease[s].of \in Orders
BY DEF Leases, Unleased

LEMMA PrunedTyped ==
  ASSUME lease \in [Sessions -> Leases]
  PROVE  Pruned \in [Sessions -> Leases]
BY DEF Pruned, Leases

LEMMA LeasedTyped ==
  ASSUME lease \in [Sessions -> Leases], NEW w \in Orders, NEW s
  PROVE  Leased(w, s) \in [Sessions -> Leases]
<1>1. [of |-> w, st |-> "active"] \in Leases /\ Unleased \in Leases
  BY DEF Leases
<1> QED BY <1>1, PrunedTyped DEF Leased

LEMMA ReleasedTyped ==
  ASSUME lease \in [Sessions -> Leases], NEW w \in Orders
  PROVE  /\ \A success : Released(w, success) \in [Sessions -> Leases]
         /\ Released(w, FALSE) \in [Sessions -> Leases]
         /\ ReleasedByDispatch(w) \in [Sessions -> Leases]
<1>1. [of |-> w, st |-> "retained"] \in Leases /\ Unleased \in Leases
  BY DEF Leases
<1>2. \A success : Released(w, success) \in [Sessions -> Leases]
  BY <1>1, PrunedTyped DEF Released
<1>3. Released(w, FALSE) \in [Sessions -> Leases]
  BY <1>1, PrunedTyped DEF Released
<1> QED BY <1>2, <1>3 DEF ReleasedByDispatch

-----------------------------------------------------------------------------
(* Type correctness *)

\* The stages of a call that waits for a dispatched order.
Live == {"ensure", "queued", "turn", "poll", "gate"}

\* Of the orders that a call or the reconciliation reads, each was dispatched.
ReadInv ==
  /\ \A w \in Orders : call[w] \in Live => order[w].st # "none"
  /\ \A w \in recon.todo : recon.rec[w].st # "none"
  /\ recon.of # None => recon.rec[recon.of].st # "none"
  /\ recon.at = "probing" => recon.of # None
  /\ recon.of # None => recon.at \in {"revise", "probing"}

TypeInv == TypeOK /\ ReadInv

LEMMA InitTyped == Init => TypeInv
<1> SUFFICES ASSUME Init PROVE TypeInv
  OBVIOUS
<1> USE DEF Init
<1>1. NoOrders \in [Orders -> States]
  BY DEF NoOrders, States
<1>2. Unleased \in Leases
  BY DEF Leases
<1>3. troubles \in 0..MaxTroubles
  BY PoolAssumption
<1>4. disp \in [Dispatchers -> [at: {"idle", "wait", "run"}, reserved: SUBSET Sessions,
                                idle: SUBSET Sessions, due: SUBSET Orders]]
  BY DEF Dispatch0
<1>5. recon \in [at: {"idle", "orders", "revise", "probe", "probing"}, boot: BOOLEAN,
                 todo: SUBSET Orders, busy: SUBSET Orders, rec: [Orders -> States],
                 of: Orders \cup {None}]
  BY <1>1 DEF NoPass
<1>6. TypeOK
  BY <1>1, <1>2, <1>3, <1>4, <1>5 DEF TypeOK, Stages
<1>7. ReadInv
  BY DEF ReadInv, NoPass, Live
<1> QED BY <1>6, <1>7 DEF TypeInv

LEMMA RestTyped == ASSUME TypeInv, UNCHANGED vars PROVE TypeInv'
BY DEF TypeInv, TypeOK, ReadInv, vars

LEMMA ExpireTyped ==
  ASSUME TypeInv, NEW s \in Sessions, Expire(s)
  PROVE  TypeInv'
<1>1. lease' \in [Sessions -> Leases]
  <2>1. lease[s] \in Leases /\ lease[s] # Unleased
    BY DEF TypeInv, TypeOK, Expire, Unleased
  <2>2. [lease[s] EXCEPT !.st = "expired"] \in Leases
    BY <2>1 DEF Leases
  <2> QED BY <2>2 DEF TypeInv, TypeOK, Expire
<1> QED BY <1>1 DEF TypeInv, TypeOK, ReadInv, Expire


LEMMA AgeTyped ==
  ASSUME TypeInv, NEW w \in Orders, Age(w)
  PROVE  TypeInv'
<1>1. order[w] \in States /\ order[w].st # "none" /\ order[w].age \in {0, 1}
  BY OpenDispatched DEF TypeInv, TypeOK, Age
<1>2. [order[w] EXCEPT !.age = @ + 1] \in States
  BY <1>1, OpenDispatched DEF States, NoOrder, Ages
<1>3. [order[w] EXCEPT !.age = @ + 1].st = order[w].st
  BY <1>1 DEF States, NoOrder
<1>4. order' = [order EXCEPT ![w] = [order[w] EXCEPT !.age = @ + 1]]
  BY DEF Age
<1>5. order' \in [Orders -> States]
  BY <1>2, <1>4 DEF TypeInv, TypeOK
<1>6. \A v \in Orders : order'[v].st = order[v].st
  BY <1>3, <1>4 DEF TypeInv, TypeOK
<1> QED BY <1>5, <1>6 DEF TypeInv, TypeOK, ReadInv, Age


LEMMA ReserveTyped ==
  ASSUME TypeInv, NEW d \in Dispatchers, Reserve(d)
  PROVE  TypeInv'
<1> DEFINE again(due) == Cardinality({w \in due : order[w].st = "failed"})
           idle == Sessions \ (ActiveSessions \cup disp["job"].reserved \cup disp["review"].reserved)
           entry(due) == [at |-> "wait", reserved |-> idle, idle |-> {}, due |-> due]
<1>1. PICK due \in SUBSET Startable(d) :
        /\ troubles + again(due) <= MaxTroubles
        /\ troubles' = troubles + again(due)
        /\ disp' = [disp EXCEPT ![d] = entry(due)]
        /\ UNCHANGED <<order, summary, lease, lane, held, work, call, recon>>
  BY DEF Reserve
<1>2. due \subseteq Orders
  BY DEF Startable
<1>3. again(due) \in Nat
  <2>1. IsFiniteSet({w \in due : order[w].st = "failed"})
    BY <1>2, PoolAssumption, FS_Subset
  <2> QED BY <2>1, FS_CardinalityType
<1>4. troubles' \in 0..MaxTroubles
  BY <1>1, <1>3, PoolAssumption DEF TypeInv, TypeOK
<1>5. entry(due) \in [at: {"idle", "wait", "run"}, reserved: SUBSET Sessions,
                      idle: SUBSET Sessions, due: SUBSET Orders]
  BY <1>2
<1> HIDE DEF entry, again
<1> QED BY <1>1, <1>4, <1>5 DEF TypeInv, TypeOK, ReadInv


LEMMA ProbeTyped ==
  ASSUME TypeInv, NEW d \in Dispatchers, Probe(d)
  PROVE  TypeInv'
<1> DEFINE idle == {s \in disp[d].reserved : Available(s)}
<1>1. disp[d] \in [at: {"idle", "wait", "run"}, reserved: SUBSET Sessions,
                   idle: SUBSET Sessions, due: SUBSET Orders]
  BY DEF TypeInv, TypeOK
<1>2. [disp[d] EXCEPT !.at = "run", !.idle = idle]
        \in [at: {"idle", "wait", "run"}, reserved: SUBSET Sessions,
             idle: SUBSET Sessions, due: SUBSET Orders]
  BY <1>1
<1>3. Dispatch0 \in [at: {"idle", "wait", "run"}, reserved: SUBSET Sessions,
                     idle: SUBSET Sessions, due: SUBSET Orders]
  BY DEF Dispatch0
<1>4. disp' = [disp EXCEPT ![d] = IF idle = {} THEN Dispatch0
                                  ELSE [disp[d] EXCEPT !.at = "run", !.idle = idle]]
  BY DEF Probe
<1> HIDE DEF idle
<1>5. disp' \in [Dispatchers -> [at: {"idle", "wait", "run"}, reserved: SUBSET Sessions,
                                 idle: SUBSET Sessions, due: SUBSET Orders]]
  BY <1>2, <1>3, <1>4 DEF TypeInv, TypeOK
<1> QED BY <1>5 DEF TypeInv, TypeOK, ReadInv, Probe


LEMMA EndDispatchTyped ==
  ASSUME TypeInv, NEW d \in Dispatchers, EndDispatch(d)
  PROVE  TypeInv'
<1>1. Dispatch0 \in [at: {"idle", "wait", "run"}, reserved: SUBSET Sessions,
                     idle: SUBSET Sessions, due: SUBSET Orders]
  BY DEF Dispatch0
<1> QED BY <1>1 DEF TypeInv, TypeOK, ReadInv, EndDispatch


LEMMA StartDelegationTyped ==
  ASSUME TypeInv, NEW w \in Orders, StartDelegation(w)
  PROVE  TypeInv'
BY DEF TypeInv, TypeOK, ReadInv, StartDelegation, Stages, Live


LEMMA DelegateTyped ==
  ASSUME TypeInv, NEW w \in Orders, Delegate(w)
  PROVE  TypeInv'
<1>1. PICK s \in Sessions :
        /\ lease' = Leased(w, s) \/ lease' = Pruned
        /\ order' = Written(w, "dispatching", s) \/ order' = Written(w, "queued", s)
  BY DEF Delegate
<1>2. order' \in [Orders -> States] /\ lease' \in [Sessions -> Leases]
  BY <1>1, WrittenTyped, LeasedTyped, PrunedTyped DEF TypeInv, TypeOK, Open
<1>3. \A v \in Orders : order[v].st # "none" \/ v = w => order'[v].st # "none"
  <2>1. "dispatching" \in Open /\ "queued" \in Open
    BY DEF Open
  <2> QED BY <1>1, <2>1, WrittenStays DEF TypeInv, TypeOK
<1> QED BY <1>2, <1>3 DEF TypeInv, TypeOK, ReadInv, Delegate, Stages, Live


LEMMA RecoverDelegationTyped ==
  ASSUME TypeInv, NEW w \in Orders, RecoverDelegation(w)
  PROVE  TypeInv'
<1>1. order[w].at \in Sessions
  BY OpenDispatched, Dispatched DEF TypeInv, TypeOK, RecoverDelegation
<1>2. order' \in [Orders -> States] /\ lease' \in [Sessions -> Leases]
  BY <1>1, WrittenTyped, ReleasedTyped DEF TypeInv, TypeOK, Terminal, RecoverDelegation
<1>3. \A v \in Orders : order[v].st # "none" => order'[v].st # "none"
  <2>1. "failed" \in Terminal
    BY DEF Terminal
  <2> QED BY <2>1, WrittenStays DEF TypeInv, TypeOK, RecoverDelegation
<1> QED BY <1>2, <1>3 DEF TypeInv, TypeOK, ReadInv, RecoverDelegation


LEMMA EnqueueTyped ==
  ASSUME TypeInv, NEW w \in Orders, Enqueue(w)
  PROVE  TypeInv'
<1> DEFINE s == order[w].at
<1>1. s \in Sessions
  BY Dispatched DEF TypeInv, TypeOK, ReadInv, Enqueue, Live
<1>2. lease' = lease \/ lease' = Leased(w, s) \/ lease' = Pruned
  BY DEF Enqueue
<1>3. \/ /\ lane' = [lane EXCEPT ![s] = @ \cup {w}]
         /\ order' = Written(w, "queued", s)
         /\ call' = [call EXCEPT ![w] = "queued"]
      \/ /\ call' = [call EXCEPT ![w] = "poll"]
         /\ UNCHANGED <<order, lane>>
  BY DEF Enqueue
<1>4. call[w] = "ensure" /\ UNCHANGED <<summary, held, work, disp, recon, troubles>>
  BY DEF Enqueue
<1> HIDE DEF s
<1>5. order' \in [Orders -> States] /\ lease' \in [Sessions -> Leases]
  BY <1>1, <1>2, <1>3, WrittenTyped, LeasedTyped, PrunedTyped DEF TypeInv, TypeOK, Open
<1>6. \A v \in Orders : order[v].st # "none" => order'[v].st # "none"
  <2>1. "queued" \in Open
    BY DEF Open
  <2> QED BY <1>3, <2>1, WrittenStays DEF TypeInv, TypeOK
<1>7. lane' \in [Sessions -> SUBSET Orders]
  BY <1>1, <1>3 DEF TypeInv, TypeOK
<1>8. call' \in [Orders -> Stages]
  BY <1>3 DEF TypeInv, TypeOK, Stages
<1>9. \A v \in Orders : call'[v] \in Live => call[v] \in Live
  BY <1>3, <1>4 DEF TypeInv, TypeOK, Live
<1> QED BY <1>4, <1>5, <1>6, <1>7, <1>8, <1>9 DEF TypeInv, TypeOK, ReadInv

LEMMA BatchTyped ==
  ASSUME TypeInv, NEW d \in Dispatchers, Batch(d)
  PROVE  TypeInv'
<1>1. PICK f \in Batches(d) : \E prepared \in SUBSET DOMAIN f : BatchOf(d, f, prepared)
  BY DEF Batch
<1>2. PICK prepared \in SUBSET DOMAIN f : BatchOf(d, f, prepared)
  BY <1>1
<1>3. PICK W \in SUBSET disp[d].due : f \in [W -> disp[d].idle]
  BY DEF Batches
<1>4. disp[d] \in [at: {"idle", "wait", "run"}, reserved: SUBSET Sessions,
                   idle: SUBSET Sessions, due: SUBSET Orders]
  BY DEF TypeInv, TypeOK
<1>5. DOMAIN f \subseteq Orders /\ \A w \in DOMAIN f : f[w] \in Sessions
  BY <1>3, <1>4
<1> DEFINE ok == {w \in prepared : Leasable(w, f[w])}
<1>6. ok \subseteq DOMAIN f
  OBVIOUS
<1>7. order' \in [Orders -> States] /\ \A w \in Orders : order'[w].st = "none" => w \notin DOMAIN f /\ order[w].st = "none"
  <2>1. \A w \in DOMAIN f : State("dispatching", f[w], FALSE) \in States
    <3>1. "dispatching" \in Open \cup Terminal /\ FALSE \in BOOLEAN
      BY DEF Open
    <3> QED BY <1>5, <3>1, StateTyped
  <2>2. \A w \in DOMAIN f : State("dispatching", f[w], FALSE).st = "dispatching"
    BY DEF State
  <2>3. order' = [w \in Orders |-> IF w \notin DOMAIN f THEN order[w]
                                   ELSE State("dispatching", f[w], FALSE)]
    BY <1>2 DEF BatchOf
  <2> QED BY <2>1, <2>2, <2>3 DEF TypeInv, TypeOK
<1>8. lease' \in [Sessions -> Leases]
  <2>1. lease' = [s \in Sessions |->
                    IF \E w \in ok : f[w] = s
                    THEN [of |-> CHOOSE w \in ok : f[w] = s, st |-> "active"]
                    ELSE IF lease[s].of \in ok THEN Unleased
                    ELSE IF prepared # {} THEN Pruned[s] ELSE lease[s]]
    BY <1>2 DEF BatchOf
  <2>2. \A w \in Orders : [of |-> w, st |-> "active"] \in Leases
    BY DEF Leases
  <2>3. Unleased \in Leases
    BY DEF Leases
  <2>4. \A s \in Sessions : Pruned[s] \in Leases /\ lease[s] \in Leases
    BY PrunedTyped DEF TypeInv, TypeOK
  <2>5. ASSUME NEW s \in Sessions, \E w \in ok : f[w] = s
        PROVE  (CHOOSE w \in ok : f[w] = s) \in Orders
    <3>1. PICK w \in ok : f[w] = s
      BY <2>5
    <3>2. (CHOOSE v \in ok : f[v] = s) \in ok
      BY <3>1
    <3> QED BY <3>2, <1>5, <1>6
  <2> HIDE DEF ok
  <2> QED BY <2>1, <2>2, <2>3, <2>4, <2>5
<1>9. call' \in [Orders -> Stages] /\ \A w \in Orders : call'[w] # call[w] => w \in DOMAIN f
  <2>1. call' = [w \in Orders |-> IF w \in ok THEN "ensure"
                                  ELSE IF w \in DOMAIN f THEN "poll" ELSE call[w]]
    BY <1>2 DEF BatchOf
  <2> HIDE DEF ok
  <2> QED BY <1>6, <2>1 DEF TypeInv, TypeOK, Stages
<1>10. disp' \in [Dispatchers -> [at: {"idle", "wait", "run"}, reserved: SUBSET Sessions,
                                  idle: SUBSET Sessions, due: SUBSET Orders]]
  <2>1. disp' = [disp EXCEPT ![d] = [disp[d] EXCEPT !.due = disp[d].due \ DOMAIN f]]
    BY <1>2 DEF BatchOf
  <2>2. [disp[d] EXCEPT !.due = disp[d].due \ DOMAIN f]
          \in [at: {"idle", "wait", "run"}, reserved: SUBSET Sessions,
               idle: SUBSET Sessions, due: SUBSET Orders]
    BY <1>4
  <2> QED BY <2>1, <2>2 DEF TypeInv, TypeOK
<1>11. troubles' \in 0..MaxTroubles
  <2>1. IsFiniteSet(DOMAIN f \ prepared)
    BY <1>5, PoolAssumption, FS_Subset
  <2>2. Cardinality(DOMAIN f \ prepared) \in Nat
    BY <2>1, FS_CardinalityType
  <2>3. /\ troubles + Cardinality(DOMAIN f \ prepared) <= MaxTroubles
        /\ troubles' = troubles + Cardinality(DOMAIN f \ prepared)
    BY <1>2 DEF BatchOf
  <2> QED BY <2>2, <2>3, PoolAssumption DEF TypeInv, TypeOK
<1>12. /\ summary' \subseteq summary /\ UNCHANGED <<lane, held, work, recon>>
  BY <1>2 DEF BatchOf
<1>13. TypeOK'
  BY <1>7, <1>8, <1>9, <1>10, <1>11, <1>12 DEF TypeInv, TypeOK
<1>14. ReadInv'
  BY <1>7, <1>9, <1>12 DEF TypeInv, ReadInv
<1> QED BY <1>13, <1>14 DEF TypeInv


LEMMA CannotEnsureTyped ==
  ASSUME TypeInv, NEW w \in Orders, CannotEnsure(w)
  PROVE  TypeInv'
<1>1. troubles' \in 0..MaxTroubles
  BY PoolAssumption DEF TypeInv, TypeOK, CannotEnsure
<1> QED BY <1>1 DEF TypeInv, TypeOK, ReadInv, CannotEnsure, Stages, Live


LEMMA ConsumeTyped ==
  ASSUME TypeInv, NEW s \in Sessions, Consume(s)
  PROVE  TypeInv'
<1>1. PICK w \in lane[s] :
        /\ lease' = lease \/ lease' = Leased(w, s)
        /\ lane' = [lane EXCEPT ![s] = @ \ {w}]
        /\ held' = held \cup {s}
        /\ work' = [work EXCEPT ![s] = w]
        /\ order' = Written(w, "in-flight", s)
        /\ call' = [call EXCEPT ![w] = IF @ = "queued" THEN "turn" ELSE "restored turn"]
        /\ UNCHANGED <<summary, disp, recon, troubles>>
  BY DEF Consume
<1>2. w \in Orders /\ "in-flight" \in Open \cup Terminal /\ order \in [Orders -> States]
  BY DEF TypeInv, TypeOK, Open
<1>3. order' \in [Orders -> States] /\ lease' \in [Sessions -> Leases]
  <2>1. Written(w, "in-flight", s) \in [Orders -> States]
    BY <1>2, WrittenTyped
  <2>2. Leased(w, s) \in [Sessions -> Leases] /\ lease \in [Sessions -> Leases]
    BY <1>2, LeasedTyped DEF TypeInv, TypeOK
  <2> QED BY <1>1, <2>1, <2>2
<1>4. \A v \in Orders : order[v].st # "none" \/ v = w => order'[v].st # "none"
  BY <1>1, <1>2, WrittenStays
<1>5. call' \in [Orders -> Stages] /\ \A v \in Orders : v # w => call'[v] = call[v]
  BY <1>1, <1>2 DEF TypeInv, TypeOK, Stages
<1>6. lane' \in [Sessions -> SUBSET Orders] /\ held' \subseteq Sessions
  BY <1>1 DEF TypeInv, TypeOK
<1>7. work' \in [Sessions -> Orders \cup {None}]
  BY <1>1, <1>2 DEF TypeInv, TypeOK
<1> QED BY <1>1, <1>3, <1>4, <1>5, <1>6, <1>7 DEF TypeInv, TypeOK, ReadInv


LEMMA WriteSummaryTyped ==
  ASSUME TypeInv, NEW w \in Orders, WriteSummary(w)
  PROVE  TypeInv'
BY DEF TypeInv, TypeOK, ReadInv, WriteSummary


LEMMA EndTurnTyped ==
  ASSUME TypeInv, NEW s \in Sessions, EndTurn(s)
  PROVE  TypeInv'
<1> DEFINE w == work[s]
<1>1. w \in Orders
  BY DEF TypeInv, TypeOK, EndTurn
<1>2. \/ /\ call' = [call EXCEPT ![w] = "gate"] /\ call[w] = "turn" /\ UNCHANGED <<order, lease>>
      \/ /\ call' = [call EXCEPT ![w] = "poll"] /\ call[w] = "turn" /\ UNCHANGED order
         /\ lease' \in {lease, ReleasedByDispatch(w)}
      \/ /\ call' = [call EXCEPT ![w] = "none"] /\ UNCHANGED lease
         /\ \E st \in Terminal : order' = Written(w, st, s)
      \/ UNCHANGED <<call, order, lease>>
  BY DEF EndTurn, Awaits
<1>3. /\ work' = [work EXCEPT ![s] = None] /\ held' = held \ {s}
      /\ UNCHANGED <<summary, lane, disp, recon, troubles>>
  BY DEF EndTurn
<1> HIDE DEF w
<1>4. order' \in [Orders -> States] /\ lease' \in [Sessions -> Leases]
  <2>1. lease \in [Sessions -> Leases] /\ ReleasedByDispatch(w) \in [Sessions -> Leases]
    BY <1>1, ReleasedTyped DEF TypeInv, TypeOK
  <2>3. lease' = lease \/ lease' = ReleasedByDispatch(w)
    BY <1>2
  <2>2. order' \in [Orders -> States]
    BY <1>1, <1>2, WrittenTyped DEF TypeInv, TypeOK
  <2> QED BY <2>1, <2>2, <2>3
<1>5. \A v \in Orders : order[v].st # "none" => order'[v].st # "none"
  BY <1>1, <1>2, WrittenStays DEF TypeInv, TypeOK
<1>6. call' \in [Orders -> Stages]
  BY <1>1, <1>2 DEF TypeInv, TypeOK, Stages
<1>7. \A v \in Orders : call'[v] \in Live => call[v] \in Live
  BY <1>1, <1>2 DEF TypeInv, TypeOK, Live
<1>8. work' \in [Sessions -> Orders \cup {None}] /\ held' \subseteq Sessions
  BY <1>3 DEF TypeInv, TypeOK
<1> QED BY <1>3, <1>4, <1>5, <1>6, <1>7, <1>8 DEF TypeInv, TypeOK, ReadInv


LEMMA UnconsumedTyped ==
  ASSUME TypeInv, NEW w \in Orders, Unconsumed(w)
  PROVE  TypeInv'
<1>1. lease' \in [Sessions -> Leases]
  BY ReleasedTyped DEF TypeInv, TypeOK, Unconsumed
<1>2. lane' \in [Sessions -> SUBSET Orders] /\ call' \in [Orders -> Stages]
  BY DEF TypeInv, TypeOK, Unconsumed, Stages
<1> QED BY <1>1, <1>2 DEF TypeInv, TypeOK, ReadInv, Unconsumed, Live


LEMMA TimeoutTyped ==
  ASSUME TypeInv, NEW w \in Orders, Timeout(w)
  PROVE  TypeInv'
<1>1. troubles' \in 0..MaxTroubles
  BY PoolAssumption DEF TypeInv, TypeOK, Timeout
<1> QED BY <1>1 DEF TypeInv, TypeOK, ReadInv, Timeout, Stages, Live


LEMMA EndPollTyped ==
  ASSUME TypeInv, NEW w \in Orders, EndPoll(w)
  PROVE  TypeInv'
BY DEF TypeInv, TypeOK, ReadInv, EndPoll, Stages, Live


LEMMA GateTyped ==
  ASSUME TypeInv, NEW w \in Orders, Gate(w)
  PROVE  TypeInv'
<1>1. order[w].at \in Sessions
  BY Dispatched DEF TypeInv, TypeOK, ReadInv, Gate, Live
<1>2. \/ /\ \E st \in Terminal : order' = Verified(w, st, order[w].at)
         /\ call' = [call EXCEPT ![w] = "settle"] /\ troubles' = troubles
      \/ /\ troubles < MaxTroubles /\ troubles' = troubles + 1
         /\ order' = Written(w, "needs-revision", order[w].at)
         /\ call' = [call EXCEPT ![w] = "ensure"]
  BY DEF Gate
<1>3. "needs-revision" \in Open
  BY DEF Open
<1>4. order' \in [Orders -> States]
  BY <1>1, <1>2, <1>3, WrittenTyped DEF TypeInv, TypeOK
<1>5. \A v \in Orders : order[v].st # "none" \/ v = w => order'[v].st # "none"
  BY <1>2, <1>3, WrittenStays DEF TypeInv, TypeOK
<1>6. call' \in [Orders -> Stages] /\ \A v \in Orders : v # w => call'[v] = call[v]
  BY <1>2 DEF TypeInv, TypeOK, Stages
<1>7. troubles' \in 0..MaxTroubles
  BY <1>2, PoolAssumption DEF TypeInv, TypeOK
<1> QED BY <1>4, <1>5, <1>6, <1>7 DEF TypeInv, TypeOK, ReadInv, Gate


LEMMA SettleTyped ==
  ASSUME TypeInv, NEW w \in Orders, Settle(w)
  PROVE  TypeInv'
<1>1. lease' \in [Sessions -> Leases]
  <2>1. PICK success : lease' = Released(w, success)
    BY DEF Settle
  <2>2. \A x : Released(w, x) \in [Sessions -> Leases]
    BY ReleasedTyped DEF TypeInv, TypeOK
  <2> QED BY <2>1, <2>2
<1> QED BY <1>1 DEF TypeInv, TypeOK, ReadInv, Settle, Stages, Live

\* What a pass may read.
Passes == [at: {"idle", "orders", "revise", "probe", "probing"}, boot: BOOLEAN,
           todo: SUBSET Orders, busy: SUBSET Orders, rec: [Orders -> States],
           of: Orders \cup {None}]

LEMMA PassFields ==
  ASSUME NEW boot
  PROVE  /\ Pass(boot).at = "orders" /\ Pass(boot).boot = boot /\ Pass(boot).busy = {}
         /\ Pass(boot).rec = order /\ Pass(boot).of = None
         /\ Pass(boot).todo = {w \in Orders :
                                 /\ Legacy(w)
                                 /\ \/ order[w].st \in Open
                                    \/ order[w].st = "failed" /\ ~order[w].gated /\ w \in summary}
BY DEF Pass

LEMMA PassTyped ==
  ASSUME order \in [Orders -> States], NEW boot \in BOOLEAN
  PROVE  /\ Pass(boot) \in Passes
         /\ \A w \in Pass(boot).todo : order[w].st # "none"
BY OpenDispatched DEF Pass, Passes

LEMMA BeginPassTyped ==
  ASSUME TypeInv, BeginPass
  PROVE  TypeInv'
<1>1. recon' = Pass(FALSE) /\ UNCHANGED <<order, summary, lease, lane, held, work, call, disp, troubles>>
  BY DEF BeginPass
<1>2. order \in [Orders -> States]
  BY DEF TypeInv, TypeOK
<1>3. Pass(FALSE) \in Passes /\ Pass(FALSE).at = "orders" /\ Pass(FALSE).rec = order
      /\ Pass(FALSE).of = None /\ \A w \in Pass(FALSE).todo : order[w].st # "none"
  BY <1>2, OpenDispatched DEF Pass, Passes
<1> QED BY <1>1, <1>3 DEF TypeInv, TypeOK, ReadInv, Passes


LEMMA ReconcileOrderTyped ==
  ASSUME TypeInv, NEW w \in Orders, ReconcileOrder(w)
  PROVE  TypeInv'
<1> DEFINE rest == [recon EXCEPT !.todo = @ \ {w}]
           s == recon.rec[w].at
<1>1. recon \in Passes
  BY DEF TypeInv, TypeOK, Passes
<1>2. s \in Sessions
  <2>1. recon.rec[w] \in States /\ recon.rec[w].st # "none"
    BY <1>1 DEF TypeInv, ReadInv, ReconcileOrder, Passes
  <2> QED BY <2>1, Dispatched
<1>3. \/ UNCHANGED <<order, lease, call, troubles>>
      \/ /\ \E st \in Terminal : order' = Verified(w, st, s) /\ \E x : lease' = Released(w, x)
         /\ UNCHANGED <<call, troubles>>
      \/ /\ troubles < MaxTroubles /\ troubles' = troubles + 1
         /\ order' = Written(w, "needs-revision", s)
         /\ call' = [call EXCEPT ![w] = "ensure"]
         /\ UNCHANGED lease
  BY DEF ReconcileOrder
<1>4. \/ recon' = [rest EXCEPT !.busy = @ \cup {w}]
      \/ recon' = rest
      \/ recon' = [rest EXCEPT !.at = "revise", !.of = w]
  BY DEF ReconcileOrder
<1>5. w \in recon.todo /\ recon.at = "orders"
  BY DEF ReconcileOrder
<1>6. UNCHANGED <<summary, lane, held, work, disp>>
  BY DEF ReconcileOrder
<1>7. /\ recon' \in Passes /\ recon'.rec = recon.rec /\ recon'.todo \subseteq recon.todo
      /\ \/ recon'.of = recon.of /\ recon'.at = "orders"
         \/ recon'.of = w /\ recon'.at = "revise"
  <2>1. CASE recon' = [rest EXCEPT !.busy = @ \cup {w}]
    BY <1>1, <1>5, <2>1 DEF Passes
  <2>2. CASE recon' = rest
    BY <1>1, <1>5, <2>2 DEF Passes
  <2>3. CASE recon' = [rest EXCEPT !.at = "revise", !.of = w]
    BY <1>1, <1>5, <2>3 DEF Passes
  <2> QED BY <1>4, <2>1, <2>2, <2>3
<1> HIDE DEF s, rest
<1>8. order' \in [Orders -> States]
  <2>1. "needs-revision" \in Open /\ order \in [Orders -> States]
    BY DEF Open, TypeInv, TypeOK
  <2> QED BY <1>2, <1>3, <2>1, WrittenTyped
<1>9. \A v \in Orders : order[v].st # "none" \/ (v = w /\ call'[w] # call[w]) => order'[v].st # "none"
  <2>1. "needs-revision" \in Open /\ order \in [Orders -> States]
    BY DEF Open, TypeInv, TypeOK
  <2> QED BY <1>3, <2>1, WrittenStays
<1>10. lease' \in [Sessions -> Leases]
  <2>1. \A x : Released(w, x) \in [Sessions -> Leases]
    BY ReleasedTyped DEF TypeInv, TypeOK
  <2> QED BY <1>3, <2>1 DEF TypeInv, TypeOK
<1>11. call' \in [Orders -> Stages] /\ \A v \in Orders : v # w => call'[v] = call[v]
  BY <1>3 DEF TypeInv, TypeOK, Stages
<1>12. troubles' \in 0..MaxTroubles
  BY <1>3, PoolAssumption DEF TypeInv, TypeOK
<1>13. TypeOK'
  BY <1>6, <1>7, <1>8, <1>10, <1>11, <1>12 DEF TypeInv, TypeOK, Passes
<1>14. ReadInv'
  <2>1. recon.rec[w].st # "none" /\ recon.of = None
    BY <1>5 DEF TypeInv, ReadInv
  <2>2. \A v \in Orders : call'[v] \in Live => order'[v].st # "none"
    <3>1. \A v \in Orders : call[v] \in Live => order[v].st # "none"
      BY DEF TypeInv, ReadInv
    <3>2. \A v \in Orders : call'[v] \in Live /\ order[v].st = "none"
                            => v = w /\ call'[w] # call[w]
      BY <1>11, <3>1
    <3> QED BY <1>9, <3>2
  <2> QED BY <1>7, <2>1, <2>2 DEF TypeInv, ReadInv
<1> QED BY <1>13, <1>14 DEF TypeInv


LEMMA RevisedTyped ==
  ASSUME TypeInv, Revised
  PROVE  TypeInv'
BY DEF TypeInv, TypeOK, ReadInv, Revised


LEMMA SettleTerminalLeasesTyped ==
  ASSUME TypeInv, SettleTerminalLeases
  PROVE  TypeInv'
<1>1. \A s \in Sessions : lease[s] \in Leases /\ (lease[s].st = "active" => lease[s].of \in Orders)
  BY LeaseTyped DEF TypeInv, TypeOK
<1>2. Unleased \in Leases /\ \A w \in Orders : [of |-> w, st |-> "retained"] \in Leases
  BY DEF Leases
<1>3. lease' \in [Sessions -> Leases]
  BY <1>1, <1>2 DEF SettleTerminalLeases
<1>4. \E todo \in SUBSET Orders : /\ recon' = [recon EXCEPT !.at = "probe", !.rec = order, !.todo = todo]
                                  /\ \A w \in todo : order[w].st \in Open
  BY DEF SettleTerminalLeases, Unfinished
<1>5. PICK todo \in SUBSET Orders : /\ recon' = [recon EXCEPT !.at = "probe", !.rec = order, !.todo = todo]
                                    /\ \A w \in todo : order[w].st \in Open
  BY <1>4
<1>6. UNCHANGED <<order, summary, lane, held, work, call, disp, troubles>>
  BY DEF SettleTerminalLeases
<1>7. recon \in Passes /\ order \in [Orders -> States]
  BY DEF TypeInv, TypeOK, Passes
<1>8. /\ recon' \in Passes /\ recon'.rec = order /\ recon'.todo = todo /\ recon'.of = recon.of
      /\ recon'.at = "probe"
  BY <1>5, <1>7 DEF Passes
<1>9. recon.of = None
  BY DEF TypeInv, ReadInv, SettleTerminalLeases
<1> QED BY <1>3, <1>5, <1>6, <1>8, <1>9, OpenDispatched DEF TypeInv, TypeOK, ReadInv, Passes


LEMMA BeginProbeTyped ==
  ASSUME TypeInv, NEW w \in Orders, BeginProbe(w)
  PROVE  TypeInv'
<1>1. recon \in Passes
  BY DEF TypeInv, TypeOK, Passes
<1>2. /\ w \in recon.todo /\ recon.at = "probe"
      /\ \/ recon' = [recon EXCEPT !.todo = @ \ {w}]
         \/ recon' = [recon EXCEPT !.at = "probing", !.todo = @ \ {w}, !.of = w]
      /\ UNCHANGED <<order, summary, lease, lane, held, work, call, disp, troubles>>
  BY DEF BeginProbe
<1>3. w # None
  BY PoolAssumption
<1>4. /\ recon' \in Passes /\ recon'.rec = recon.rec /\ recon'.todo \subseteq recon.todo
      /\ \/ recon'.of = recon.of /\ recon'.at = "probe"
         \/ recon'.of = w /\ recon'.at = "probing"
  <2>1. CASE recon' = [recon EXCEPT !.todo = @ \ {w}]
    BY <1>1, <1>2, <2>1 DEF Passes
  <2>2. CASE recon' = [recon EXCEPT !.at = "probing", !.todo = @ \ {w}, !.of = w]
    BY <1>1, <1>2, <2>2 DEF Passes
  <2> QED BY <1>2, <2>1, <2>2
<1>5. ReadInv'
  BY <1>2, <1>3, <1>4 DEF TypeInv, ReadInv
<1>6. TypeOK'
  BY <1>2, <1>4 DEF TypeInv, TypeOK, Passes
<1> QED BY <1>5, <1>6 DEF TypeInv


LEMMA EndProbeTyped ==
  ASSUME TypeInv, EndProbe
  PROVE  TypeInv'
<1> DEFINE w == recon.of
           s == recon.rec[w].at
<1>1. w \in Orders /\ recon.rec[w] \in States /\ recon.rec[w].st # "none"
  BY DEF TypeInv, TypeOK, ReadInv, EndProbe
<1>2. s \in Sessions
  BY <1>1, Dispatched
<1>3. \/ UNCHANGED <<order, lease>>
      \/ order' = Written(w, "failed", s) /\ lease' = Released(w, FALSE)
  BY DEF EndProbe
<1>4. /\ recon' = [recon EXCEPT !.at = "probe", !.of = None]
      /\ UNCHANGED <<summary, lane, held, work, call, disp, troubles>>
  BY DEF EndProbe
<1> HIDE DEF w, s
<1>5. "failed" \in Terminal /\ order \in [Orders -> States] /\ lease \in [Sessions -> Leases]
  BY DEF Terminal, TypeInv, TypeOK
<1>6. order' \in [Orders -> States]
  <2>1. Written(w, "failed", s) \in [Orders -> States]
    BY <1>1, <1>2, <1>5, WrittenTyped
  <2> QED BY <1>3, <1>5, <2>1
<1>7. lease' \in [Sessions -> Leases]
  BY <1>1, <1>3, <1>5, ReleasedTyped
<1>8. \A v \in Orders : order[v].st # "none" => order'[v].st # "none"
  BY <1>1, <1>3, <1>5, WrittenStays
<1> QED BY <1>4, <1>6, <1>7, <1>8 DEF TypeInv, TypeOK, ReadInv


LEMMA EndPassTyped ==
  ASSUME TypeInv, EndPass
  PROVE  TypeInv'
<1>1. /\ order' = [w \in Orders |-> IF w \in Abandoned
                                     THEN State("failed", order[w].at, order[w].gated) ELSE order[w]]
      /\ lease' = [s \in Sessions |-> IF lease[s].of \in Abandoned
                                      THEN [lease[s] EXCEPT !.st = "retained"] ELSE lease[s]]
      /\ recon' = NoPass
      /\ \/ /\ lane' = [s \in Sessions |-> Restored(s)]
            /\ call' = [w \in Orders |-> IF \E s \in Sessions : w \in Restored(s)
                                         THEN "restored" ELSE call[w]]
         \/ UNCHANGED <<lane, call>>
      /\ UNCHANGED <<summary, held, work, disp, troubles>>
  BY DEF EndPass
<1>2. Abandoned \subseteq Orders /\ \A w \in Abandoned : order[w].st \in Open
  BY DEF Abandoned
<1>3. \A w \in Orders : order[w] \in States
  BY DEF TypeInv, TypeOK
<1>4. \A w \in Abandoned : State("failed", order[w].at, order[w].gated) \in States
  <2> SUFFICES ASSUME NEW w \in Abandoned PROVE State("failed", order[w].at, order[w].gated) \in States
    OBVIOUS
  <2>1. order[w].at \in Sessions /\ order[w].gated \in BOOLEAN
    BY <1>2, <1>3, Dispatched, OpenDispatched
  <2>2. "failed" \in Open \cup Terminal
    BY DEF Terminal
  <2> QED BY <2>1, <2>2, StateTyped
<1>5. order' \in [Orders -> States]
  BY <1>1, <1>3, <1>4
<1>6. \A w \in Orders : order[w].st # "none" => order'[w].st # "none"
  BY <1>1 DEF State
<1>7. lease' \in [Sessions -> Leases]
  <2>1. \A s \in Sessions : lease[s].of \in Abandoned => [lease[s] EXCEPT !.st = "retained"] \in Leases
    BY <1>2, PoolAssumption DEF TypeInv, TypeOK, Leases, Unleased
  <2> QED BY <1>1, <2>1 DEF TypeInv, TypeOK
<1>8. lane' \in [Sessions -> SUBSET Orders] /\ call' \in [Orders -> Stages]
  <2>1. \A s \in Sessions : Restored(s) \subseteq Orders
    BY DEF TypeInv, TypeOK, Restored
  <2>2. lane' \in [Sessions -> SUBSET Orders]
    BY <1>1, <2>1 DEF TypeInv, TypeOK
  <2>3. "restored" \in Stages /\ call \in [Orders -> Stages]
    BY DEF TypeInv, TypeOK, Stages
  <2>4. call' \in [Orders -> Stages]
    BY <1>1, <2>3
  <2> QED BY <2>2, <2>4
<1>9. \A w \in Orders : call'[w] \in Live => call[w] \in Live
  BY <1>1 DEF Live
<1>10. NoPass \in Passes /\ NoPass.todo = {} /\ NoPass.of = None /\ NoPass.at = "idle"
  BY DEF NoPass, NoOrders, States, Passes
<1> QED BY <1>1, <1>5, <1>6, <1>7, <1>8, <1>9, <1>10 DEF TypeInv, TypeOK, ReadInv, Passes


LEMMA RestartTyped ==
  ASSUME TypeInv, Restart
  PROVE  TypeInv'
<1>1. order \in [Orders -> States]
  BY DEF TypeInv, TypeOK
<1>2. Pass(TRUE) \in Passes /\ Pass(TRUE).at = "orders" /\ Pass(TRUE).rec = order
      /\ Pass(TRUE).of = None /\ \A w \in Pass(TRUE).todo : order[w].st # "none"
  BY <1>1, OpenDispatched DEF Pass, Passes
<1>3. recon' = Pass(TRUE)
  BY DEF Restart
<1>4. troubles' \in 0..MaxTroubles
  BY PoolAssumption DEF TypeInv, TypeOK, Restart
<1>5. disp' \in [Dispatchers -> [at: {"idle", "wait", "run"}, reserved: SUBSET Sessions,
                                 idle: SUBSET Sessions, due: SUBSET Orders]]
  BY DEF Restart, Dispatch0
<1>6. lane' \in [Sessions -> SUBSET Orders] /\ held' \subseteq Sessions /\ call' \in [Orders -> Stages]
  BY DEF TypeInv, TypeOK, Restart, Stages
<1>7. TypeOK'
  BY <1>2, <1>3, <1>4, <1>5, <1>6 DEF TypeInv, TypeOK, Restart, Passes
<1>8. ReadInv'
  BY <1>2, <1>3 DEF ReadInv, Restart, Live
<1> QED BY <1>7, <1>8 DEF TypeInv


\* Every step is one of these; but for gates, the end of a call and what a pass does at
\* once, none is taken while nothing is awaited.
LEMMA Steps ==
  ASSUME Next
  PROVE  \/ /\ ~Synchronous
            /\ \/ \E s \in Sessions : Consume(s) \/ EndTurn(s) \/ Expire(s)
               \/ \E d \in Dispatchers : Batch(d) \/ EndDispatch(d) \/ Probe(d) \/ Reserve(d)
               \/ \E w \in Orders : \/ Age(w) \/ RecoverDelegation(w) \/ EndPoll(w) \/ Enqueue(w)
                                    \/ Delegate(w) \/ Unconsumed(w) \/ StartDelegation(w)
                                    \/ CannotEnsure(w) \/ WriteSummary(w) \/ Timeout(w)
               \/ BeginPass \/ Revised \/ EndProbe
         \/ \E w \in Orders : Gate(w) \/ Settle(w) \/ ReconcileOrder(w) \/ BeginProbe(w)
         \/ SettleTerminalLeases \/ EndPass \/ Restart
BY DEF Next, Work, Probing, Passing, Chance, Calls

LEMMA TypeStep == TypeInv /\ [Next]_vars => TypeInv'
<1> SUFFICES ASSUME TypeInv, [Next]_vars PROVE TypeInv'
  OBVIOUS
<1>1. CASE UNCHANGED vars
  BY <1>1, RestTyped
<1>2. CASE Next
  BY <1>2, Steps, ConsumeTyped, EndTurnTyped, ExpireTyped, BatchTyped, EndDispatchTyped,
     ProbeTyped, ReserveTyped, AgeTyped, RecoverDelegationTyped, EndPollTyped, EnqueueTyped,
     DelegateTyped, UnconsumedTyped, StartDelegationTyped, CannotEnsureTyped, WriteSummaryTyped,
     TimeoutTyped, BeginPassTyped, RevisedTyped, EndProbeTyped, GateTyped, SettleTyped,
     ReconcileOrderTyped, BeginProbeTyped, SettleTerminalLeasesTyped, EndPassTyped, RestartTyped
<1> QED BY <1>1, <1>2

\* Every record, lease and call has its type, whatever the constants.
THEOREM TypeCorrect == Spec => []TypeOK
<1>1. TypeInv => TypeOK
  BY DEF TypeInv
<1> QED BY <1>1, InitTyped, TypeStep, PTL DEF Spec

-----------------------------------------------------------------------------
(* Calls keep their leases, accepted orders stay accepted *)

\* Before the boot's pass has ended nothing runs.
BootInv ==
  recon.boot => /\ \A w \in Orders : call[w] = "none"
                /\ \A d \in Dispatchers : disp[d] = Dispatch0
                /\ held = {}

\* What a dispatcher has found due is still to be dispatched.
DueInv ==
  \A d \in Dispatchers : \A w \in disp[d].due :
    Kind[w] = d /\ call[w] = "none" /\ order[w].st \notin Open

\* A prompt is queued for the session of its order, whose call waits for it.
LaneInv ==
  \A s \in Sessions : \A w \in lane[s] :
    order[w].at = s /\ (recon.boot \/ call[w] \in {"queued", "restored"})

OfCall(w) ==
  /\ call[w] \in Live => order[w].st \in Open /\ order[w].age # 2
  /\ call[w] = "start" => order[w].st = "none"
  /\ call[w] \in {"queued", "restored"} => w \in lane[order[w].at]
  /\ call[w] \in {"turn", "restored turn"} => order[w].at \in held /\ work[order[w].at] = w
  /\ call[w] \in {"restored", "restored turn"} => order[w].st \notin {"none", "completed"}

CallInv == \A w \in Orders : OfCall(w)

SummaryInv == \A w \in Orders : order[w].st = "completed" => w \in summary

\* What a pass knows of an order it is to settle is still so.
Unprobed(w) == recon.rec[w] = order[w] /\ Legacy(w) /\ order[w].st \in Open /\ call[w] = "none"

PassInv ==
  /\ recon.at # "revise" /\ recon.of \notin recon.todo
  /\ recon.at = "idle" => ~recon.boot
  /\ recon.at \in {"orders", "probe"} => \A w \in Orders : call[w] \notin {"gate", "settle"}
  /\ recon.at = "orders" =>
       /\ \A w \in recon.todo : /\ recon.rec[w] = order[w] /\ Legacy(w)
                                /\ order[w].st \in Open \cup {"failed"}
       /\ \A w \in Orders : Legacy(w) /\ order[w].st \in Open
                            => w \in recon.todo \cup recon.busy \/ call[w] = "none"
  /\ recon.at \in {"probe", "probing"} => \A w \in recon.todo : Unprobed(w)
  /\ recon.of # None => Unprobed(recon.of)

PoolInv == /\ BootInv /\ DueInv /\ LaneInv /\ CallInv /\ SummaryInv /\ PassInv
           /\ CallHoldsLease

\* No accepted order is reopened.
Stands == \A w \in Orders : order[w].st = "completed"
                            => order'[w].st \in {"completed", "dispatching"}

\* The reconciliation asks for no revision and keeps out of the short stages of a call.
Calm == ~Revisions /\ ~Overlap

LEMMA InitPool == Init => PoolInv
BY OpenDispatched DEF Init, PoolInv, BootInv, DueInv, LaneInv, CallInv, OfCall, SummaryInv,
   PassInv, CallHoldsLease, Queued, NoOrders, NoOrder, NoPass, Dispatch0, Live

\* What a step may write of one order.
LEMMA WrittenOne ==
  ASSUME TypeInv, NEW w \in Orders, NEW st, NEW s,
         order' = Written(w, st, s) \/ order' = Verified(w, st, s)
  PROVE  /\ order'[w].st = st /\ order'[w].at = s /\ order'[w].age = 0
         /\ \A v \in Orders : v # w => order'[v] = order[v]
<1>1. order \in [Orders -> States]
  BY DEF TypeInv, TypeOK
<1>2. order'[w] = State(st, s, TRUE) \/ order'[w] = State(st, s, order[w].gated)
  BY <1>1 DEF Written, Verified
<1>3. \A v \in Orders : v # w => order'[v] = order[v]
  BY <1>1 DEF Written, Verified
<1> QED BY <1>2, <1>3 DEF State

\* The lease of an order is not taken or given back for another.
LEMMA OthersKeep ==
  ASSUME TypeInv, NEW w \in Orders, NEW v \in Orders, v # w,
         NEW t \in Sessions, lease[t] = [of |-> v, st |-> "active"]
  PROVE  /\ Pruned[t] = lease[t]
         /\ \A success : Released(w, success)[t] = lease[t]
         /\ ReleasedByDispatch(w)[t] = lease[t]
         /\ \A s \in Sessions : Leasable(w, s) => Leased(w, s)[t] = lease[t]
<1>1. Pruned[t] = lease[t]
  BY DEF Pruned
<1>2. lease[t].of # w /\ lease[t].of = v /\ lease[t].st = "active"
  OBVIOUS
<1>3. \A success : Released(w, success)[t] = lease[t]
  BY <1>1, <1>2 DEF Released
<1>4. Released(w, FALSE)[t] = lease[t]
  BY <1>1, <1>2 DEF Released
<1>5. \A s \in Sessions : Leasable(w, s) => Leased(w, s)[t] = lease[t]
  BY <1>1, <1>2 DEF Leased, Leasable
<1> QED BY <1>1, <1>3, <1>4, <1>5 DEF ReleasedByDispatch

LEMMA OthersKeepFailed ==
  ASSUME TypeInv, NEW w \in Orders, NEW v \in Orders, v # w,
         NEW t \in Sessions, lease[t] = [of |-> v, st |-> "active"]
  PROVE  Released(w, FALSE)[t] = lease[t]
<1>1. Pruned[t] = lease[t] /\ lease[t].of # w
  BY OthersKeep
<1> QED BY <1>1 DEF Released

LEMMA LeasedHolds ==
  ASSUME NEW w, NEW s \in Sessions
  PROVE  Leased(w, s)[s] = [of |-> w, st |-> "active"]
BY DEF Leased

\* A step that changes nothing of the orders but of w.
Frame(w) == \A v \in Orders : v # w => order'[v] = order[v] /\ call'[v] = call[v]

LEMMA LeaseKept ==
  ASSUME TypeInv, PoolInv, NEW w \in Orders, Frame(w),
         \A t \in Sessions, v \in Orders :
            v # w /\ lease[t] = [of |-> v, st |-> "active"] => lease'[t] = lease[t],
         Queued(w)' \/ call'[w] = "turn" => lease'[order'[w].at] = [of |-> w, st |-> "active"]
  PROVE  CallHoldsLease'
<1> SUFFICES ASSUME NEW v \in Orders, v # w, Queued(v)' \/ call'[v] = "turn"
             PROVE  lease'[order'[v].at] = [of |-> v, st |-> "active"]
  BY DEF CallHoldsLease
<1>1. order'[v] = order[v] /\ call'[v] = call[v]
  BY DEF Frame
<1>2. (Queued(v) \/ call[v] = "turn") /\ call[v] \in Live
  BY <1>1 DEF Queued, Live
<1>3. order[v].at \in Sessions
  BY <1>2, Dispatched DEF TypeInv, TypeOK, ReadInv
<1>4. lease[order[v].at] = [of |-> v, st |-> "active"]
  BY <1>2 DEF PoolInv, CallHoldsLease
<1> QED BY <1>1, <1>3, <1>4

LEMMA DueKept ==
  ASSUME PoolInv, TypeInv, \A d \in Dispatchers : disp'[d].due \subseteq disp[d].due,
         \A v \in Orders : Legacy(v) /\ call[v] = "none" /\ order[v].st \notin Open
                           => call'[v] = "none" /\ order'[v].st \notin Open
  PROVE  DueInv'
<1>1. \A d \in Dispatchers : \A w \in disp[d].due :
        w \in Orders /\ Kind[w] = d /\ call[w] = "none" /\ order[w].st \notin Open
  BY DEF PoolInv, DueInv, TypeInv, TypeOK
<1>2. \A d \in Dispatchers : \A w \in disp[d].due : Legacy(w)
  BY <1>1 DEF Legacy, Dispatchers
<1> QED BY <1>1, <1>2 DEF DueInv

\* Between the stages of a pass that awaits nothing, orders it is to probe stay as they are.
LEMMA PassKept ==
  ASSUME PoolInv, TypeInv, ~Synchronous, UNCHANGED recon,
         \A v \in Orders : Legacy(v) /\ call[v] = "none" /\ order[v].st \in Open
                           => call'[v] = "none" /\ order'[v] = order[v]
  PROVE  PassInv'
<1>1. recon.at \notin {"orders", "probe", "revise"}
  BY DEF Synchronous, PoolInv, PassInv
<1>2. recon.todo \subseteq Orders /\ (recon.of # None => recon.of \in Orders)
  BY DEF TypeInv, TypeOK
<1>3. \A v \in Orders : Unprobed(v) => Unprobed(v)'
  BY DEF Unprobed, Legacy
<1> QED BY <1>1, <1>2, <1>3 DEF PoolInv, PassInv

LEMMA NotBoot ==
  ASSUME PoolInv
  PROVE  /\ \A w \in Orders : call[w] # "none" => ~recon.boot
         /\ \A d \in Dispatchers : disp[d].at # "idle" => ~recon.boot
         /\ \A s \in held : ~recon.boot
BY DEF PoolInv, BootInv, Dispatch0

LEMMA ExpirePool ==
  ASSUME TypeInv, PoolInv, Calm, ~Synchronous, NEW s \in Sessions, Expire(s)
  PROVE  PoolInv' /\ Stands
<1>1. CallHoldsLease'
  <2>1. \A t \in Sessions, v \in Orders : lease[t] = [of |-> v, st |-> "active"] => lease'[t] = lease[t]
    BY DEF Expire, TypeInv, TypeOK
  <2>2. \A v \in Orders : Queued(v) \/ call[v] = "turn" => order[v].at \in Sessions
    BY Dispatched DEF TypeInv, TypeOK, ReadInv, Queued, Live
  <2>3. \A v \in Orders : Queued(v) \/ call[v] = "turn" => lease'[order[v].at] = [of |-> v, st |-> "active"]
    BY <2>1, <2>2 DEF PoolInv, CallHoldsLease
  <2> QED BY <2>3 DEF CallHoldsLease, Queued, Legacy, Expire
<1>2. UNCHANGED <<order, summary, lane, held, work, call, disp, recon>>
  BY DEF Expire
<1>3. PassInv'
  BY <1>2, PassKept
<1>4. BootInv' /\ DueInv' /\ LaneInv' /\ CallInv' /\ SummaryInv'
  <2>1. BootInv'
    BY <1>2 DEF PoolInv, BootInv
  <2>2. DueInv'
    BY <1>2 DEF PoolInv, DueInv
  <2>3. LaneInv'
    BY <1>2 DEF PoolInv, LaneInv
  <2>4. CallInv'
    BY <1>2 DEF PoolInv, CallInv, OfCall, Live
  <2>5. SummaryInv'
    BY <1>2 DEF PoolInv, SummaryInv
  <2> QED BY <2>1, <2>2, <2>3, <2>4, <2>5
<1> QED BY <1>1, <1>2, <1>3, <1>4 DEF PoolInv, Stands


LEMMA AgePool ==
  ASSUME TypeInv, PoolInv, Calm, ~Synchronous, NEW w \in Orders, Age(w)
  PROVE  PoolInv' /\ Stands
<1>1. order[w] \in States /\ order[w].st \in Open /\ order[w].age \in {0, 1}
  BY DEF TypeInv, TypeOK, Age
<1>2. /\ order'[w].st = order[w].st /\ order'[w].at = order[w].at
      /\ order'[w].age = order[w].age + 1 /\ (order[w].age = 1 => call[w] \notin Live)
  <2>1. order' = [order EXCEPT ![w] = [order[w] EXCEPT !.age = @ + 1]]
    BY DEF Age
  <2>2. order'[w] = [order[w] EXCEPT !.age = @ + 1]
    BY <2>1 DEF TypeInv, TypeOK
  <2>3. order[w] \in [st: Open \cup Terminal, at: Sessions, age: Ages, gated: BOOLEAN]
    BY <1>1, OpenDispatched DEF States, NoOrder
  <2>4. order[w].age = 1 => call[w] \notin Live
    <3>1. order[w].age = 0 \/ call[w] \in {"none", "restored", "restored turn"}
      BY DEF Age
    <3>2. 0 # 1
      OBVIOUS
    <3>3. order[w].age = 1 => call[w] \in {"none", "restored", "restored turn"}
      BY <3>1, <3>2, Zenon
    <3> QED BY <3>3 DEF Live
  <2> QED BY <2>2, <2>3, <2>4
<1>3. /\ \A v \in Orders : v # w => order'[v] = order[v]
      /\ recon.at = "idle" /\ UNCHANGED <<summary, lease, lane, held, work, call, disp, recon>>
  BY DEF Age, TypeInv, TypeOK
<1>4. \A v \in Orders : order'[v].st = order[v].st /\ order'[v].at = order[v].at
  BY <1>2, <1>3
<1>5. BootInv' /\ DueInv' /\ LaneInv' /\ SummaryInv'
  <2>1. BootInv'
    BY <1>3, <1>4 DEF PoolInv, BootInv, TypeInv, TypeOK
  <2>2. DueInv'
    BY <1>3, <1>4 DEF PoolInv, DueInv, TypeInv, TypeOK
  <2>3. LaneInv'
    BY <1>3, <1>4 DEF PoolInv, LaneInv, TypeInv, TypeOK
  <2>4. SummaryInv'
    BY <1>3, <1>4 DEF PoolInv, SummaryInv, TypeInv, TypeOK
  <2> QED BY <2>1, <2>2, <2>3, <2>4
<1>6. CallInv'
  <2>1. OfCall(w)'
    <3>1. call[w] \in Live => order'[w].age # 2
      BY <1>1, <1>2
    <3> QED BY <1>3, <1>4, <3>1 DEF PoolInv, CallInv, OfCall
  <2>2. ASSUME NEW v \in Orders, v # w PROVE OfCall(v)'
    <3>1. OfCall(v) /\ order'[v] = order[v]
      BY <1>3, <2>2 DEF PoolInv, CallInv
    <3> QED BY <1>3, <3>1 DEF OfCall
  <2> QED BY <2>1, <2>2 DEF CallInv
<1>7. CallHoldsLease'
  BY <1>3, <1>4 DEF PoolInv, CallHoldsLease, Queued, Legacy
<1>8. PassInv'
  BY <1>3 DEF PoolInv, PassInv, TypeInv, ReadInv
<1> QED BY <1>4, <1>5, <1>6, <1>7, <1>8 DEF PoolInv, Stands


LEMMA ReservePool ==
  ASSUME TypeInv, PoolInv, Calm, ~Synchronous, NEW d \in Dispatchers, Reserve(d)
  PROVE  PoolInv' /\ Stands
<1>1. PICK due \in SUBSET Startable(d) : \E idle :
        disp' = [disp EXCEPT ![d] = [at |-> "wait", reserved |-> idle, idle |-> {}, due |-> due]]
  BY DEF Reserve
<1>2. ~recon.boot /\ UNCHANGED <<order, summary, lease, lane, held, work, call, recon>>
  BY DEF Reserve
<1>3. \A x \in Dispatchers : disp'[x].due = IF x = d THEN due ELSE disp[x].due
  BY <1>1 DEF TypeInv, TypeOK
<1>4. \A w \in due : w \in Orders /\ Kind[w] = d /\ call[w] = "none" /\ order[w].st \notin Open
  BY <1>1 DEF Startable, Open
<1>5. DueInv'
  BY <1>2, <1>3, <1>4 DEF PoolInv, DueInv
<1>6. PassInv'
  BY <1>2, PassKept
<1>7. BootInv' /\ LaneInv' /\ CallInv' /\ SummaryInv' /\ CallHoldsLease'
  <2>1. BootInv'
    BY <1>2 DEF PoolInv, BootInv
  <2>2. LaneInv'
    BY <1>2 DEF PoolInv, LaneInv
  <2>3. CallInv'
    BY <1>2 DEF PoolInv, CallInv, OfCall, Live
  <2>4. SummaryInv'
    BY <1>2 DEF PoolInv, SummaryInv
  <2>5. CallHoldsLease'
    BY <1>2 DEF PoolInv, CallHoldsLease, Queued, Legacy
  <2> QED BY <2>1, <2>2, <2>3, <2>4, <2>5
<1> QED BY <1>2, <1>5, <1>6, <1>7 DEF PoolInv, Stands


LEMMA ProbePool ==
  ASSUME TypeInv, PoolInv, Calm, ~Synchronous, NEW d \in Dispatchers, Probe(d)
  PROVE  PoolInv' /\ Stands
<1>1. disp[d].at # "idle" /\ UNCHANGED <<order, summary, lease, lane, held, work, call, recon>>
  BY DEF Probe
<1>2. ~recon.boot
  BY <1>1, NotBoot
<1>3. \A x \in Dispatchers : disp'[x].due \subseteq disp[x].due
  BY DEF Probe, Dispatch0, TypeInv, TypeOK
<1>4. DueInv' /\ PassInv'
  BY <1>1, <1>3, DueKept, PassKept
<1>5. BootInv' /\ LaneInv' /\ CallInv' /\ SummaryInv' /\ CallHoldsLease'
  <2>1. BootInv'
    BY <1>1, <1>2 DEF PoolInv, BootInv
  <2>2. LaneInv'
    BY <1>1, <1>2 DEF PoolInv, LaneInv
  <2>3. CallInv'
    BY <1>1, <1>2 DEF PoolInv, CallInv, OfCall, Live
  <2>4. SummaryInv'
    BY <1>1, <1>2 DEF PoolInv, SummaryInv
  <2>5. CallHoldsLease'
    BY <1>1, <1>2 DEF PoolInv, CallHoldsLease, Queued, Legacy
  <2> QED BY <2>1, <2>2, <2>3, <2>4, <2>5
<1> QED BY <1>1, <1>4, <1>5 DEF PoolInv, Stands


LEMMA EndDispatchPool ==
  ASSUME TypeInv, PoolInv, Calm, ~Synchronous, NEW d \in Dispatchers, EndDispatch(d)
  PROVE  PoolInv' /\ Stands
<1>1. disp[d].at # "idle" /\ UNCHANGED <<order, summary, lease, lane, held, work, call, recon>>
  BY DEF EndDispatch
<1>2. ~recon.boot
  BY <1>1, NotBoot
<1>3. \A x \in Dispatchers : disp'[x].due \subseteq disp[x].due
  BY DEF EndDispatch, Dispatch0, TypeInv, TypeOK
<1>4. DueInv' /\ PassInv'
  BY <1>1, <1>3, DueKept, PassKept
<1>5. BootInv' /\ LaneInv' /\ CallInv' /\ SummaryInv' /\ CallHoldsLease'
  <2>1. BootInv'
    BY <1>1, <1>2 DEF PoolInv, BootInv
  <2>2. LaneInv'
    BY <1>1, <1>2 DEF PoolInv, LaneInv
  <2>3. CallInv'
    BY <1>1, <1>2 DEF PoolInv, CallInv, OfCall, Live
  <2>4. SummaryInv'
    BY <1>1, <1>2 DEF PoolInv, SummaryInv
  <2>5. CallHoldsLease'
    BY <1>1, <1>2 DEF PoolInv, CallHoldsLease, Queued, Legacy
  <2> QED BY <2>1, <2>2, <2>3, <2>4, <2>5
<1> QED BY <1>1, <1>4, <1>5 DEF PoolInv, Stands


LEMMA WriteSummaryPool ==
  ASSUME TypeInv, PoolInv, Calm, ~Synchronous, NEW w \in Orders, WriteSummary(w)
  PROVE  PoolInv' /\ Stands
<1>1. summary \subseteq summary' /\ UNCHANGED <<order, lease, lane, held, work, call, disp, recon>>
  BY DEF WriteSummary
<1>2. PassInv'
  BY <1>1, PassKept
<1>3. BootInv' /\ DueInv' /\ LaneInv' /\ CallInv' /\ SummaryInv' /\ CallHoldsLease'
  <2>1. BootInv'
    BY <1>1 DEF PoolInv, BootInv
  <2>2. DueInv'
    BY <1>1 DEF PoolInv, DueInv
  <2>3. LaneInv'
    BY <1>1 DEF PoolInv, LaneInv
  <2>4. CallInv'
    BY <1>1 DEF PoolInv, CallInv, OfCall, Live
  <2>5. SummaryInv'
    BY <1>1 DEF PoolInv, SummaryInv
  <2>6. CallHoldsLease'
    BY <1>1 DEF PoolInv, CallHoldsLease, Queued, Legacy
  <2> QED BY <2>1, <2>2, <2>3, <2>4, <2>5, <2>6
<1> QED BY <1>1, <1>2, <1>3 DEF PoolInv, Stands


LEMMA StartDelegationPool ==
  ASSUME TypeInv, PoolInv, Calm, ~Synchronous, NEW w \in Orders, StartDelegation(w)
  PROVE  PoolInv' /\ Stands
<1>1. /\ ~Legacy(w) /\ order[w].st = "none" /\ call[w] = "none" /\ ~recon.boot
      /\ call'[w] = "start" /\ \A v \in Orders : v # w => call'[v] = call[v]
      /\ UNCHANGED <<order, summary, lease, lane, held, work, disp, recon>>
  BY DEF StartDelegation, TypeInv, TypeOK
<1>2. DueInv' /\ PassInv'
  BY <1>1, DueKept, PassKept
<1>3. \A s \in Sessions : w \notin lane[s]
  BY <1>1 DEF PoolInv, LaneInv
<1>4. LaneInv'
  BY <1>1, <1>3 DEF PoolInv, LaneInv, TypeInv, TypeOK
<1>5. BootInv' /\ CallInv' /\ SummaryInv' /\ CallHoldsLease'
  <2>1. BootInv'
    BY <1>1 DEF PoolInv, BootInv
  <2>2. CallInv'
    BY <1>1 DEF PoolInv, CallInv, OfCall, Live
  <2>3. SummaryInv'
    BY <1>1 DEF PoolInv, SummaryInv
  <2>4. CallHoldsLease'
    BY <1>1 DEF PoolInv, CallHoldsLease, Queued, Legacy
  <2> QED BY <2>1, <2>2, <2>3, <2>4
<1> QED BY <1>1, <1>2, <1>4, <1>5 DEF PoolInv, Stands


LEMMA CannotEnsurePool ==
  ASSUME TypeInv, PoolInv, Calm, ~Synchronous, NEW w \in Orders, CannotEnsure(w)
  PROVE  PoolInv' /\ Stands
<1>1. /\ call[w] = "ensure" /\ call'[w] = "poll" /\ \A v \in Orders : v # w => call'[v] = call[v]
      /\ UNCHANGED <<order, summary, lease, lane, held, work, disp, recon>>
  BY DEF CannotEnsure, TypeInv, TypeOK
<1>2. DueInv' /\ PassInv' /\ ~recon.boot
  BY <1>1, DueKept, PassKept, NotBoot
<1>3. \A s \in Sessions : w \notin lane[s]
  BY <1>1, <1>2 DEF PoolInv, LaneInv
<1>4. LaneInv'
  BY <1>1, <1>3 DEF PoolInv, LaneInv, TypeInv, TypeOK
<1>5. BootInv' /\ CallInv' /\ SummaryInv' /\ CallHoldsLease'
  <2>1. BootInv'
    BY <1>1, <1>2 DEF PoolInv, BootInv
  <2>2. CallInv'
    BY <1>1, <1>2 DEF PoolInv, CallInv, OfCall, Live
  <2>3. SummaryInv'
    BY <1>1, <1>2 DEF PoolInv, SummaryInv
  <2>4. CallHoldsLease'
    BY <1>1, <1>2 DEF PoolInv, CallHoldsLease, Queued, Legacy
  <2> QED BY <2>1, <2>2, <2>3, <2>4
<1> QED BY <1>1, <1>2, <1>4, <1>5 DEF PoolInv, Stands


LEMMA TimeoutPool ==
  ASSUME TypeInv, PoolInv, Calm, ~Synchronous, NEW w \in Orders, Timeout(w)
  PROVE  PoolInv' /\ Stands
<1>1. /\ call[w] = "turn" /\ call'[w] = "poll" /\ \A v \in Orders : v # w => call'[v] = call[v]
      /\ UNCHANGED <<order, summary, lease, lane, held, work, disp, recon>>
  BY DEF Timeout, TypeInv, TypeOK
<1>2. DueInv' /\ PassInv' /\ ~recon.boot
  BY <1>1, DueKept, PassKept, NotBoot
<1>3. \A s \in Sessions : w \notin lane[s]
  BY <1>1, <1>2 DEF PoolInv, LaneInv
<1>4. LaneInv'
  BY <1>1, <1>3 DEF PoolInv, LaneInv, TypeInv, TypeOK
<1>5. BootInv' /\ CallInv' /\ SummaryInv' /\ CallHoldsLease'
  <2>1. BootInv'
    BY <1>1, <1>2 DEF PoolInv, BootInv
  <2>2. CallInv'
    BY <1>1, <1>2 DEF PoolInv, CallInv, OfCall, Live
  <2>3. SummaryInv'
    BY <1>1, <1>2 DEF PoolInv, SummaryInv
  <2>4. CallHoldsLease'
    BY <1>1, <1>2 DEF PoolInv, CallHoldsLease, Queued, Legacy
  <2> QED BY <2>1, <2>2, <2>3, <2>4
<1> QED BY <1>1, <1>2, <1>4, <1>5 DEF PoolInv, Stands


LEMMA EndPollPool ==
  ASSUME TypeInv, PoolInv, Calm, ~Synchronous, NEW w \in Orders, EndPoll(w)
  PROVE  PoolInv' /\ Stands
<1>1. /\ call[w] = "poll" /\ call'[w] = "gate" /\ \A v \in Orders : v # w => call'[v] = call[v]
      /\ UNCHANGED <<order, summary, lease, lane, held, work, disp, recon>>
  BY DEF EndPoll, TypeInv, TypeOK
<1>2. DueInv' /\ PassInv' /\ ~recon.boot
  BY <1>1, DueKept, PassKept, NotBoot
<1>3. \A s \in Sessions : w \notin lane[s]
  BY <1>1, <1>2 DEF PoolInv, LaneInv
<1>4. LaneInv'
  BY <1>1, <1>3 DEF PoolInv, LaneInv, TypeInv, TypeOK
<1>5. BootInv' /\ CallInv' /\ SummaryInv' /\ CallHoldsLease'
  <2>1. BootInv'
    BY <1>1, <1>2 DEF PoolInv, BootInv
  <2>2. CallInv'
    BY <1>1, <1>2 DEF PoolInv, CallInv, OfCall, Live
  <2>3. SummaryInv'
    BY <1>1, <1>2 DEF PoolInv, SummaryInv
  <2>4. CallHoldsLease'
    BY <1>1, <1>2 DEF PoolInv, CallHoldsLease, Queued, Legacy
  <2> QED BY <2>1, <2>2, <2>3, <2>4
<1> QED BY <1>1, <1>2, <1>4, <1>5 DEF PoolInv, Stands

\* What a step of one order leaves to be shown of it.
LEMMA OneOrder ==
  ASSUME TypeInv, PoolInv, NEW w \in Orders, Frame(w), ~recon'.boot, ~recon.boot,
         UNCHANGED summary,
         \A s \in Sessions : \A v \in lane'[s] : v = w \/ v \in lane[s],
         \A s \in Sessions : w \in lane'[s] => order'[w].at = s /\ call'[w] \in {"queued", "restored"},
         \A s \in Sessions : \A v \in lane[s] : v = w \/ v \in lane'[s],
         order'[w].st = "completed" => w \in summary
  PROVE  /\ BootInv' /\ LaneInv' /\ SummaryInv'
         /\ UNCHANGED <<held, work>> => \A v \in Orders : v # w => OfCall(v)'
<1>1. LaneInv'
  <2> SUFFICES ASSUME NEW s \in Sessions, NEW v \in lane'[s]
               PROVE  order'[v].at = s /\ call'[v] \in {"queued", "restored"}
    BY DEF LaneInv
  <2>1. CASE v = w
    BY <2>1
  <2>2. CASE v # w
    <3>1. v \in lane[s] /\ v \in Orders
      BY <2>2 DEF TypeInv, TypeOK
    <3>2. order[v].at = s /\ call[v] \in {"queued", "restored"}
      BY <3>1 DEF PoolInv, LaneInv
    <3> QED BY <2>2, <3>1, <3>2 DEF Frame
  <2> QED BY <2>1, <2>2
<1>2. SummaryInv'
  BY DEF PoolInv, SummaryInv, Frame
<1>3. ASSUME UNCHANGED <<held, work>>, NEW v \in Orders, v # w PROVE OfCall(v)'
  <2>1. OfCall(v) /\ order'[v] = order[v] /\ call'[v] = call[v]
    BY <1>3 DEF PoolInv, CallInv, Frame
  <2>2. call[v] \in {"queued", "restored"} => v \in lane'[order'[v].at]
    <3> SUFFICES ASSUME call[v] \in {"queued", "restored"} PROVE v \in lane'[order'[v].at]
      OBVIOUS
    <3>1. v \in lane[order[v].at]
      BY <2>1 DEF OfCall
    <3>2. order[v].at \in Sessions
      <4>1. order[v].st # "none"
        BY <2>1, OpenDispatched DEF OfCall, Live
      <4> QED BY <4>1, Dispatched DEF TypeInv, TypeOK
    <3> QED BY <1>3, <2>1, <3>1, <3>2
  <2> QED BY <1>3, <2>1, <2>2 DEF OfCall
<1> QED BY <1>1, <1>2, <1>3 DEF BootInv

LEMMA DelegatePool ==
  ASSUME TypeInv, PoolInv, Calm, ~Synchronous, NEW w \in Orders, Delegate(w)
  PROVE  PoolInv' /\ Stands
<1>1. PICK s \in Sessions :
        /\ \/ Leasable(w, s) /\ lease' = Leased(w, s) /\ order' = Written(w, "dispatching", s)
           \/ lease' = Pruned /\ order' = Written(w, "queued", s)
  BY DEF Delegate
<1>2. /\ call[w] = "start" /\ call'[w] = "ensure" /\ \A v \in Orders : v # w => call'[v] = call[v]
      /\ UNCHANGED <<summary, lane, held, work, disp, recon>>
  BY DEF Delegate, TypeInv, TypeOK
<1>3. /\ order'[w].st \in {"dispatching", "queued"} /\ order'[w].age = 0
      /\ \A v \in Orders : v # w => order'[v] = order[v]
  BY <1>1, WrittenOne
<1>4. Frame(w) /\ ~recon.boot /\ order[w].st = "none"
  BY <1>2, <1>3, NotBoot DEF Frame, PoolInv, CallInv, OfCall
<1>5. DueInv' /\ PassInv'
  BY <1>2, <1>3, DueKept, PassKept
<1>6. \A t \in Sessions : w \notin lane[t]
  BY <1>2, <1>4 DEF PoolInv, LaneInv
<1>7. BootInv' /\ LaneInv' /\ SummaryInv' /\ \A v \in Orders : v # w => OfCall(v)'
  BY <1>2, <1>3, <1>4, <1>6, OneOrder
<1>8. OfCall(w)'
  BY <1>2, <1>3 DEF OfCall, Open
<1>9. CallHoldsLease'
  <2>1. \A t \in Sessions, v \in Orders :
          v # w /\ lease[t] = [of |-> v, st |-> "active"] => lease'[t] = lease[t]
    BY <1>1, OthersKeep
  <2>2. ~(Queued(w)' \/ call'[w] = "turn")
    BY <1>2 DEF Queued
  <2> QED BY <1>4, <2>1, <2>2, LeaseKept
<1>10. Stands
  BY <1>3, <1>4 DEF Stands
<1> QED BY <1>5, <1>7, <1>8, <1>9, <1>10 DEF PoolInv, CallInv


LEMMA RecoverDelegationPool ==
  ASSUME TypeInv, PoolInv, Calm, ~Synchronous, NEW w \in Orders, RecoverDelegation(w)
  PROVE  PoolInv' /\ Stands
<1>1. /\ ~Legacy(w) /\ order[w].st \in Open /\ call[w] = "none" /\ ~recon.boot
      /\ order' = Written(w, "failed", order[w].at) /\ lease' = Released(w, FALSE)
      /\ UNCHANGED <<summary, lane, held, work, call, disp, recon>>
  BY DEF RecoverDelegation
<1>2. order'[w].st = "failed" /\ \A v \in Orders : v # w => order'[v] = order[v]
  BY <1>1, WrittenOne
<1>3. Frame(w) /\ order[w].st # "completed"
  BY <1>1, <1>2 DEF Frame, Open
<1>4. DueInv' /\ PassInv'
  BY <1>1, <1>2, DueKept, PassKept
<1>5. \A t \in Sessions : w \notin lane[t]
  BY <1>1 DEF PoolInv, LaneInv
<1>6. BootInv' /\ LaneInv' /\ SummaryInv' /\ \A v \in Orders : v # w => OfCall(v)'
  BY <1>1, <1>2, <1>3, <1>5, OneOrder
<1>7. OfCall(w)'
  BY <1>1 DEF OfCall, Live
<1>8. CallHoldsLease'
  <2>1. \A t \in Sessions, v \in Orders :
          v # w /\ lease[t] = [of |-> v, st |-> "active"] => Released(w, FALSE)[t] = lease[t]
    BY OthersKeepFailed
  <2>2. ~(Queued(w)' \/ call'[w] = "turn")
    BY <1>1 DEF Queued
  <2> QED BY <1>1, <1>3, <2>1, <2>2, LeaseKept
<1>9. Stands
  BY <1>2, <1>3 DEF Stands
<1> QED BY <1>4, <1>6, <1>7, <1>8, <1>9 DEF PoolInv, CallInv


LEMMA EnqueuePool ==
  ASSUME TypeInv, PoolInv, Calm, ~Synchronous, NEW w \in Orders, Enqueue(w)
  PROVE  PoolInv' /\ Stands
<1> DEFINE s == order[w].at
<1>1. call[w] = "ensure" /\ UNCHANGED <<summary, held, work, disp, recon>>
  BY DEF Enqueue
<1>2. ~recon.boot /\ OfCall(w) /\ call[w] \in Live
  BY <1>1, NotBoot DEF PoolInv, CallInv, Live
<1>3. s \in Sessions /\ order[w].st \in Open
  BY <1>2, Dispatched DEF TypeInv, TypeOK, ReadInv, OfCall
<1>4. \/ /\ lane' = [lane EXCEPT ![s] = @ \cup {w}]
         /\ order' = Written(w, "queued", s)
         /\ call' = [call EXCEPT ![w] = "queued"]
         /\ Legacy(w) => lease' = Leased(w, s)
      \/ /\ call' = [call EXCEPT ![w] = "poll"] /\ UNCHANGED <<order, lane>>
  BY DEF Enqueue
<1>5. lease' = lease \/ lease' = Pruned \/ (Leasable(w, s) /\ lease' = Leased(w, s))
  BY DEF Enqueue
<1> HIDE DEF s
<1>6. /\ \A v \in Orders : v # w => order'[v] = order[v]
      /\ \/ order'[w].st = "queued" /\ order'[w].at = s /\ order'[w].age = 0
         \/ order'[w] = order[w] /\ call'[w] = "poll" /\ lane' = lane
  <2>1. CASE order' = Written(w, "queued", s)
    BY <2>1, WrittenOne
  <2>2. CASE order' # Written(w, "queued", s)
    BY <1>4, <2>2 DEF TypeInv, TypeOK
  <2> QED BY <2>1, <2>2
<1>7. call'[w] \in {"queued", "poll"} /\ \A v \in Orders : v # w => call'[v] = call[v]
  BY <1>4 DEF TypeInv, TypeOK
<1>8. Frame(w)
  BY <1>6, <1>7 DEF Frame
<1>9. DueInv' /\ PassInv'
  BY <1>1, <1>6, <1>7, DueKept, PassKept
<1>10. \A t \in Sessions : w \notin lane[t]
  BY <1>1, <1>2 DEF PoolInv, LaneInv
<1>11. \A t \in Sessions : lane'[t] = lane[t] \/ (t = s /\ lane'[t] = lane[t] \cup {w} /\ call'[w] = "queued")
  BY <1>4 DEF TypeInv, TypeOK
<1>12. call'[w] = "queued" => /\ order'[w].st = "queued" /\ order'[w].at = s /\ order'[w].age = 0
                             /\ w \in lane'[s] /\ (Legacy(w) => lease' = Leased(w, s))
  BY <1>3, <1>4, <1>6 DEF TypeInv, TypeOK
<1>13. BootInv' /\ LaneInv' /\ SummaryInv' /\ \A v \in Orders : v # w => OfCall(v)'
  <2>1. order'[w].st # "completed"
    BY <1>3, <1>6 DEF Open
  <2>2. \A t \in Sessions : w \in lane'[t] => order'[w].at = t /\ call'[w] \in {"queued", "restored"}
    BY <1>10, <1>11, <1>12
  <2>3. \A t \in Sessions : \A v \in lane'[t] : v = w \/ v \in lane[t]
    BY <1>11
  <2>4. \A t \in Sessions : \A v \in lane[t] : v = w \/ v \in lane'[t]
    BY <1>11
  <2> QED BY <1>1, <1>2, <1>8, <2>1, <2>2, <2>3, <2>4, OneOrder
<1>14. OfCall(w)'
  <2>1. CASE call'[w] = "queued"
    BY <1>3, <1>12, <2>1 DEF OfCall, Open
  <2>2. CASE call'[w] = "poll"
    <3>1. order'[w].st \in Open /\ order'[w].age # 2
      <4>1. order[w].st \in Open /\ order[w].age # 2
        BY <1>2 DEF OfCall
      <4>2. "queued" \in Open /\ 0 # 2
        BY DEF Open
      <4> QED BY <1>6, <4>1, <4>2
    <3> QED BY <2>2, <3>1 DEF OfCall
  <2> QED BY <1>7, <2>1, <2>2
<1>15. CallHoldsLease'
  <2>1. \A t \in Sessions, v \in Orders :
          v # w /\ lease[t] = [of |-> v, st |-> "active"] => lease'[t] = lease[t]
    BY <1>3, <1>5, OthersKeep
  <2>2. Queued(w)' \/ call'[w] = "turn" => lease'[order'[w].at] = [of |-> w, st |-> "active"]
    BY <1>3, <1>7, <1>12, LeasedHolds DEF Queued, Legacy
  <2> QED BY <1>8, <2>1, <2>2, LeaseKept
<1>16. Stands
  BY <1>3, <1>6, <1>8 DEF Stands, Frame, Open
<1> QED BY <1>9, <1>13, <1>14, <1>15, <1>16 DEF PoolInv, CallInv


LEMMA UnconsumedPool ==
  ASSUME TypeInv, PoolInv, Calm, ~Synchronous, NEW w \in Orders, Unconsumed(w)
  PROVE  PoolInv' /\ Stands
<1>1. /\ call[w] = "queued" /\ call'[w] = "poll" /\ \A v \in Orders : v # w => call'[v] = call[v]
      /\ lane' = [lane EXCEPT ![order[w].at] = @ \ {w}]
      /\ lease' = ReleasedByDispatch(w)
      /\ UNCHANGED <<order, summary, held, work, disp, recon>>
  BY DEF Unconsumed, TypeInv, TypeOK
<1>2. Frame(w) /\ ~recon.boot /\ OfCall(w)
  BY <1>1, NotBoot DEF Frame, PoolInv, CallInv
<1>3. DueInv' /\ PassInv'
  BY <1>1, DueKept, PassKept
<1>4. order[w].st \in Open /\ order[w].at \in Sessions
  BY <1>1, <1>2, Dispatched DEF OfCall, Live, TypeInv, TypeOK, ReadInv
<1>5. \A t \in Sessions : lane'[t] = lane[t] \ {w}
  BY <1>1, <1>4 DEF PoolInv, LaneInv, TypeInv, TypeOK
<1>6. BootInv' /\ LaneInv' /\ SummaryInv' /\ \A v \in Orders : v # w => OfCall(v)'
  <2>1. order'[w].st # "completed"
    BY <1>1, <1>4 DEF Open
  <2> QED BY <1>1, <1>2, <1>5, <2>1, OneOrder
<1>7. OfCall(w)'
  BY <1>1, <1>2 DEF OfCall, Live
<1>8. CallHoldsLease'
  <2>1. \A t \in Sessions, v \in Orders :
          v # w /\ lease[t] = [of |-> v, st |-> "active"] => lease'[t] = lease[t]
    BY <1>1, OthersKeep
  <2>2. ~(Queued(w)' \/ call'[w] = "turn")
    BY <1>1 DEF Queued
  <2> QED BY <1>2, <2>1, <2>2, LeaseKept
<1> QED BY <1>1, <1>3, <1>6, <1>7, <1>8 DEF PoolInv, CallInv, Stands

LEMMA ConsumePool ==
  ASSUME TypeInv, PoolInv, Calm, ~Synchronous, NEW s \in Sessions, Consume(s)
  PROVE  PoolInv' /\ Stands
<1>1. PICK w \in lane[s] :
        /\ s \notin held /\ work[s] = None /\ (recon.boot => call[w] = "queued")
        /\ ~Legacy(w) => Leasable(w, s)
        /\ lease' = IF Legacy(w) THEN lease ELSE Leased(w, s)
        /\ lane' = [lane EXCEPT ![s] = @ \ {w}]
        /\ held' = held \cup {s}
        /\ work' = [work EXCEPT ![s] = w]
        /\ order' = Written(w, "in-flight", s)
        /\ call' = [call EXCEPT ![w] = IF @ = "queued" THEN "turn" ELSE "restored turn"]
        /\ UNCHANGED <<summary, disp, recon>>
  BY DEF Consume
<1>2. w \in Orders
  BY DEF TypeInv, TypeOK
<1>2a. ~recon.boot
  BY <1>1, <1>2, NotBoot
<1>3. order[w].at = s /\ call[w] \in {"queued", "restored"} /\ OfCall(w)
  BY <1>1, <1>2, <1>2a DEF PoolInv, LaneInv, CallInv
<1>4. /\ order'[w].st = "in-flight" /\ order'[w].at = s /\ order'[w].age = 0
      /\ \A v \in Orders : v # w => order'[v] = order[v]
  BY <1>1, <1>2, WrittenOne
<1>5. /\ call'[w] = IF call[w] = "queued" THEN "turn" ELSE "restored turn"
      /\ \A v \in Orders : v # w => call'[v] = call[v]
  BY <1>1, <1>2 DEF TypeInv, TypeOK
<1>6. Frame(w) /\ order[w].st # "completed"
  BY <1>3, <1>4, <1>5 DEF Frame, OfCall, Live, Open
<1>7. DueInv' /\ PassInv'
  BY <1>1, <1>2a, <1>3, <1>4, <1>5, DueKept, PassKept
<1>8. \A t \in Sessions : /\ w \notin lane'[t]
                          /\ \A v \in Orders : v # w => (v \in lane'[t] <=> v \in lane[t])
  <2> SUFFICES ASSUME NEW t \in Sessions
               PROVE  /\ w \notin lane'[t]
                      /\ \A v \in Orders : v # w => (v \in lane'[t] <=> v \in lane[t])
    OBVIOUS
  <2>1. t # s => w \notin lane[t]
    BY <1>3 DEF PoolInv, LaneInv
  <2> QED BY <1>1, <2>1 DEF TypeInv, TypeOK
<1>9. \A t \in Sessions : lane[t] \subseteq Orders /\ lane'[t] \subseteq Orders
  BY <1>1 DEF TypeInv, TypeOK
<1>10. BootInv' /\ LaneInv' /\ SummaryInv'
  <2>1. \A t \in Sessions : \A v \in lane'[t] : v = w \/ v \in lane[t]
    BY <1>8, <1>9
  <2>2. \A t \in Sessions : \A v \in lane[t] : v = w \/ v \in lane'[t]
    BY <1>8, <1>9
  <2>3. \A t \in Sessions : w \notin lane'[t]
    BY <1>8
  <2> QED BY <1>1, <1>2, <1>2a, <1>4, <1>6, <2>1, <2>2, <2>3, OneOrder
<1>11. work'[s] = w /\ \A t \in Sessions : t # s => work'[t] = work[t]
  BY <1>1 DEF TypeInv, TypeOK
<1>12. OfCall(w)'
  <2>1. "in-flight" \in Open /\ "in-flight" \notin {"none", "completed"} /\ 0 # 2
    BY DEF Open
  <2>2. order'[w].at \in held' /\ work'[order'[w].at] = w
    BY <1>1, <1>4, <1>11
  <2>3. call'[w] \in {"turn", "restored turn"}
    BY <1>5
  <2> QED BY <1>4, <2>1, <2>2, <2>3 DEF OfCall
<1>13. ASSUME NEW v \in Orders, v # w PROVE OfCall(v)'
  <2>1. OfCall(v) /\ order'[v] = order[v] /\ call'[v] = call[v]
    BY <1>6, <1>13 DEF PoolInv, CallInv, Frame
  <2>2. call[v] \in {"queued", "turn", "restored", "restored turn"} => order[v].at \in Sessions
    <3>1. call[v] \in {"queued", "turn", "restored", "restored turn"} => order[v].st # "none"
      BY <2>1, OpenDispatched DEF OfCall, Live
    <3> QED BY <3>1, Dispatched DEF TypeInv, TypeOK
  <2>3. call[v] \in {"turn", "restored turn"} => order[v].at \in held' /\ work'[order[v].at] = v
    BY <1>1, <1>11, <2>1, <2>2 DEF OfCall
  <2>4. call[v] \in {"queued", "restored"} => v \in lane'[order[v].at]
    BY <1>8, <1>13, <2>1, <2>2 DEF OfCall
  <2> QED BY <2>1, <2>3, <2>4 DEF OfCall
<1>14. CallHoldsLease'
  <2>1. \A t \in Sessions, v \in Orders :
          v # w /\ lease[t] = [of |-> v, st |-> "active"] => lease'[t] = lease[t]
    BY <1>1, <1>2, OthersKeep
  <2>2. CASE Legacy(w) /\ call[w] = "queued"
    <3>1. lease[s] = [of |-> w, st |-> "active"]
      BY <1>2, <1>3, <2>2 DEF PoolInv, CallHoldsLease, Queued
    <3> QED BY <1>1, <1>2, <1>4, <1>6, <2>1, <2>2, <3>1, LeaseKept
  <2>3. CASE ~Legacy(w)
    <3>1. lease'[s] = [of |-> w, st |-> "active"]
      BY <1>1, <2>3, LeasedHolds
    <3> QED BY <1>2, <1>4, <1>6, <2>1, <3>1, LeaseKept
  <2>4. CASE call[w] = "restored"
    <3>1. ~(Queued(w)' \/ call'[w] = "turn")
      BY <1>5, <2>4 DEF Queued
    <3> QED BY <1>2, <1>6, <2>1, <3>1, LeaseKept
  <2> QED BY <1>3, <2>2, <2>3, <2>4
<1>15. Stands
  BY <1>4, <1>6 DEF Stands
<1> QED BY <1>7, <1>10, <1>12, <1>13, <1>14, <1>15 DEF PoolInv, CallInv


LEMMA EndTurnPool ==
  ASSUME TypeInv, PoolInv, Calm, ~Synchronous, NEW s \in Sessions, EndTurn(s)
  PROVE  PoolInv' /\ Stands
<1>0. work[s] \in Orders
  BY DEF TypeInv, TypeOK, EndTurn
<1>1. PICK w \in Orders : w = work[s]
  BY <1>0
<1>2. /\ work' = [work EXCEPT ![s] = None] /\ held' = held \ {s}
      /\ UNCHANGED <<summary, lane, disp, recon>>
  BY DEF EndTurn
<1>3. \/ /\ call' = [call EXCEPT ![w] = "gate"] /\ Awaits(s, "turn") /\ UNCHANGED <<order, lease>>
      \/ /\ call' = [call EXCEPT ![w] = "poll"] /\ Awaits(s, "turn") /\ UNCHANGED order
         /\ lease' \in {lease, ReleasedByDispatch(w)}
      \/ /\ call' = [call EXCEPT ![w] = "none"] /\ Awaits(s, "restored turn") /\ UNCHANGED lease
         /\ \E st \in Terminal : (st = "completed" => w \in summary) /\ order' = Written(w, st, s)
      \/ /\ ~Awaits(s, "turn") /\ ~Awaits(s, "restored turn") /\ UNCHANGED <<call, order, lease>>
  BY <1>1 DEF EndTurn
<1>4. \A stage : Awaits(s, stage) <=> s \in held /\ call[w] = stage /\ order[w].at = s
  BY <1>1 DEF Awaits
<1>5. \A t \in Sessions : t # s => work'[t] = work[t]
  BY <1>2 DEF TypeInv, TypeOK
<1>6. w = work[s] /\ OfCall(w)
  BY <1>1 DEF PoolInv, CallInv
\* The turns of others go on.
<1>7. ASSUME NEW v \in Orders, order'[v] = order[v], call'[v] = call[v],
             ~(v = w /\ s \in held /\ call[v] \in {"turn", "restored turn"} /\ order[v].at = s)
      PROVE  OfCall(v)'
  <2>1. OfCall(v)
    BY DEF PoolInv, CallInv
  <2>2. ASSUME call[v] \in {"turn", "restored turn"}
        PROVE  order[v].at \in held' /\ work'[order[v].at] = v
    <3>1. order[v].at \in held /\ work[order[v].at] = v
      BY <2>1, <2>2 DEF OfCall
    <3>2. order[v].at # s
      BY <1>6, <1>7, <2>2, <3>1
    <3> QED BY <1>2, <1>5, <3>1, <3>2 DEF TypeInv, TypeOK
  <2> QED BY <1>2, <1>7, <2>1, <2>2 DEF OfCall
<1>8. CASE ~Awaits(s, "turn") /\ ~Awaits(s, "restored turn")
  <2>1. UNCHANGED <<call, order, lease, summary, lane, disp, recon>>
    BY <1>2, <1>3, <1>8
  <2>2. DueInv' /\ PassInv'
    BY <2>1, DueKept, PassKept
  <2>3. CallInv'
    BY <1>4, <1>7, <1>8, <2>1 DEF CallInv
  <2>4. BootInv'
    BY <1>2, <2>1 DEF PoolInv, BootInv
  <2>5. LaneInv' /\ SummaryInv' /\ CallHoldsLease'
    BY <2>1 DEF PoolInv, LaneInv, SummaryInv, CallHoldsLease, Queued, Legacy
  <2> QED BY <2>1, <2>2, <2>3, <2>4, <2>5 DEF PoolInv, Stands
<1>9. CASE Awaits(s, "turn") \/ Awaits(s, "restored turn")
  <2>1. call[w] \in {"turn", "restored turn"} /\ order[w].at = s /\ s \in held
    BY <1>4, <1>9
  <2>2. ~recon.boot
    BY <1>1, <2>1, NotBoot
  <2>3. \A v \in Orders : v # w => order'[v] = order[v]
    <3>1. UNCHANGED order \/ \E st : order' = Written(w, st, s)
      BY <1>3, <1>9
    <3> QED BY <1>1, <3>1, WrittenOne
  <2>4. \A v \in Orders : v # w => call'[v] = call[v]
    BY <1>1, <1>3, <1>9 DEF TypeInv, TypeOK
  <2>5. Frame(w)
    BY <2>3, <2>4 DEF Frame
  <2>6. \/ call'[w] \in {"gate", "poll"} /\ call[w] = "turn" /\ order' = order
        \/ /\ call'[w] = "none" /\ call[w] = "restored turn"
           /\ order'[w].st \in Terminal /\ order'[w].at = s
           /\ order'[w].st = "completed" => w \in summary
    <3>1. CASE Awaits(s, "turn")
      <4>1. call[w] = "turn" /\ ~Awaits(s, "restored turn")
        BY <1>1, <3>1 DEF Awaits
      <4>2. order' = order /\ \E stage \in {"gate", "poll"} : call' = [call EXCEPT ![w] = stage]
        BY <1>3, <3>1, <4>1
      <4> QED BY <4>1, <4>2 DEF TypeInv, TypeOK
    <3>2. CASE Awaits(s, "restored turn")
      <4>1. PICK st \in Terminal : (st = "completed" => w \in summary) /\ order' = Written(w, st, s)
        BY <1>3, <1>4, <3>2
      <4>2. order'[w].st = st /\ order'[w].at = s
        BY <1>1, <4>1, WrittenOne
      <4>3. call'[w] = "none"
        <5>1. ~Awaits(s, "turn")
          BY <1>1, <3>2 DEF Awaits
        <5>2. call' = [call EXCEPT ![w] = "none"]
          BY <1>3, <3>2, <5>1
        <5> QED BY <5>2 DEF TypeInv, TypeOK
      <4> QED BY <1>4, <3>2, <4>1, <4>2, <4>3
    <3> QED BY <1>9, <3>1, <3>2
  <2>7. DueInv' /\ PassInv'
    <3>1. call[w] # "none"
      BY <2>1
    <3> QED BY <1>2, <2>3, <2>4, <3>1, DueKept, PassKept
  <2>8. \A t \in Sessions : w \notin lane[t]
    BY <2>1, <2>2 DEF PoolInv, LaneInv
  <2>9. order[w].st # "completed"
    BY <1>6, <2>1 DEF OfCall, Live, Open
  <2>10. BootInv' /\ LaneInv' /\ SummaryInv'
    BY <1>1, <1>2, <2>2, <2>5, <2>6, <2>8, <2>9, OneOrder
  <2>11. OfCall(w)'
    <3>1. call'[w] = "none" => OfCall(w)'
      BY DEF OfCall, Live
    <3>2. call'[w] \in {"gate", "poll"} /\ call[w] = "turn" /\ order' = order => OfCall(w)'
      BY <1>6 DEF OfCall, Live
    <3> QED BY <2>6, <3>1, <3>2
  <2>12. \A v \in Orders : v # w => OfCall(v)'
    BY <1>7, <2>3, <2>4
  <2>13. CallHoldsLease'
    <3>1. \A t \in Sessions, v \in Orders :
            v # w /\ lease[t] = [of |-> v, st |-> "active"] => lease'[t] = lease[t]
      <4>1. lease' = lease \/ lease' = ReleasedByDispatch(w)
        BY <1>3, <1>9
      <4> QED BY <4>1, OthersKeep
    <3>2. ~(Queued(w)' \/ call'[w] = "turn")
      BY <2>6 DEF Queued
    <3> QED BY <1>1, <2>5, <3>1, <3>2, LeaseKept
  <2>14. Stands
    BY <2>3, <2>9 DEF Stands
  <2> QED BY <2>7, <2>10, <2>11, <2>12, <2>13, <2>14 DEF PoolInv, CallInv
<1> QED BY <1>8, <1>9


LEMMA GatePool ==
  ASSUME TypeInv, PoolInv, Calm, NEW w \in Orders, Gate(w)
  PROVE  PoolInv' /\ Stands
<1>1. /\ call[w] = "gate" /\ UNCHANGED <<summary, lease, lane, held, work, disp, recon>>
      /\ \/ /\ \E st \in Terminal : /\ st = "completed" => w \in summary
                                    /\ order' = Verified(w, st, order[w].at)
            /\ call' = [call EXCEPT ![w] = "settle"]
         \/ /\ order' = Written(w, "needs-revision", order[w].at)
            /\ call' = [call EXCEPT ![w] = "ensure"]
  BY DEF Gate
<1>2. ~recon.boot /\ OfCall(w) /\ recon.at \notin {"orders", "probe"}
  BY <1>1, NotBoot DEF PoolInv, CallInv, PassInv
<1>3. /\ \A v \in Orders : v # w => order'[v] = order[v]
      /\ \/ /\ call'[w] = "settle" /\ (order'[w].st = "completed" => w \in summary)
         \/ call'[w] = "ensure" /\ order'[w].st = "needs-revision" /\ order'[w].age = 0
  <2>1. CASE \E st \in Terminal : /\ st = "completed" => w \in summary
                                  /\ order' = Verified(w, st, order[w].at)
                                  /\ call' = [call EXCEPT ![w] = "settle"]
    <3>1. PICK st \in Terminal : /\ st = "completed" => w \in summary
                                 /\ order' = Verified(w, st, order[w].at)
                                 /\ call' = [call EXCEPT ![w] = "settle"]
      BY <2>1
    <3>2. order'[w].st = st /\ \A v \in Orders : v # w => order'[v] = order[v]
      BY <3>1, WrittenOne
    <3> QED BY <3>1, <3>2 DEF TypeInv, TypeOK
  <2>2. CASE order' = Written(w, "needs-revision", order[w].at) /\ call' = [call EXCEPT ![w] = "ensure"]
    BY <2>2, WrittenOne DEF TypeInv, TypeOK
  <2> QED BY <1>1, <2>1, <2>2
<1>4. \A v \in Orders : v # w => call'[v] = call[v]
  BY <1>1 DEF TypeInv, TypeOK
<1>5. Frame(w) /\ order[w].st \in Open
  BY <1>1, <1>2, <1>3, <1>4 DEF Frame, OfCall, Live
<1>6. DueInv'
  BY <1>1, <1>3, <1>4, DueKept
<1>7. PassInv'
  <2>1. recon.todo \subseteq Orders /\ (recon.of # None => recon.of \in Orders)
    BY DEF TypeInv, TypeOK
  <2>2. \A v \in Orders : Unprobed(v) => Unprobed(v)'
    BY <1>1, <1>3, <1>4 DEF Unprobed, Legacy
  <2> QED BY <1>1, <1>2, <2>1, <2>2 DEF PoolInv, PassInv
<1>8. \A t \in Sessions : w \notin lane[t]
  BY <1>1, <1>2 DEF PoolInv, LaneInv
<1>9. BootInv' /\ LaneInv' /\ SummaryInv' /\ \A v \in Orders : v # w => OfCall(v)'
  BY <1>1, <1>2, <1>3, <1>5, <1>8, OneOrder
<1>10. OfCall(w)'
  <2>1. "needs-revision" \in Open /\ 0 # 2
    BY DEF Open
  <2> QED BY <1>3, <2>1 DEF OfCall, Live
<1>11. CallHoldsLease'
  <2>1. ~(Queued(w)' \/ call'[w] = "turn")
    BY <1>3 DEF Queued
  <2> QED BY <1>1, <1>5, <2>1, LeaseKept
<1>12. Stands
  BY <1>3, <1>5 DEF Stands, Open
<1> QED BY <1>6, <1>7, <1>9, <1>10, <1>11, <1>12 DEF PoolInv, CallInv


LEMMA SettlePool ==
  ASSUME TypeInv, PoolInv, Calm, NEW w \in Orders, Settle(w)
  PROVE  PoolInv' /\ Stands
<1>1. /\ call[w] = "settle" /\ call'[w] = "none" /\ \A v \in Orders : v # w => call'[v] = call[v]
      /\ \E success : lease' = Released(w, success)
      /\ UNCHANGED <<order, summary, lane, held, work, disp, recon>>
  BY DEF Settle, TypeInv, TypeOK
<1>2. ~recon.boot /\ recon.at \notin {"orders", "probe"} /\ Frame(w)
  BY <1>1, NotBoot DEF PoolInv, PassInv, Frame
<1>3. DueInv'
  BY <1>1, DueKept
<1>4. PassInv'
  <2>1. recon.todo \subseteq Orders /\ (recon.of # None => recon.of \in Orders)
    BY DEF TypeInv, TypeOK
  <2>2. \A v \in Orders : Unprobed(v) => Unprobed(v)'
    BY <1>1 DEF Unprobed, Legacy
  <2> QED BY <1>1, <1>2, <2>1, <2>2 DEF PoolInv, PassInv
<1>5. \A t \in Sessions : w \notin lane[t]
  BY <1>1, <1>2 DEF PoolInv, LaneInv
<1>6. BootInv' /\ LaneInv' /\ SummaryInv' /\ \A v \in Orders : v # w => OfCall(v)'
  <2>1. order'[w].st = "completed" => w \in summary
    BY <1>1 DEF PoolInv, SummaryInv
  <2> QED BY <1>1, <1>2, <1>5, <2>1, OneOrder
<1>7. OfCall(w)'
  BY <1>1 DEF OfCall, Live
<1>8. CallHoldsLease'
  <2>1. \A t \in Sessions, v \in Orders :
          v # w /\ lease[t] = [of |-> v, st |-> "active"] => lease'[t] = lease[t]
    BY <1>1, OthersKeep
  <2>2. ~(Queued(w)' \/ call'[w] = "turn")
    BY <1>1 DEF Queued
  <2> QED BY <1>2, <2>1, <2>2, LeaseKept
<1> QED BY <1>1, <1>3, <1>4, <1>6, <1>7, <1>8 DEF PoolInv, CallInv, Stands

LEMMA BatchPool ==
  ASSUME TypeInv, PoolInv, Calm, ~Synchronous, NEW d \in Dispatchers, Batch(d)
  PROVE  PoolInv' /\ Stands
<1>0. PICK f \in Batches(d) : \E prepared \in SUBSET DOMAIN f : BatchOf(d, f, prepared)
  BY DEF Batch
<1>1. PICK prepared \in SUBSET DOMAIN f : BatchOf(d, f, prepared)
  BY <1>0
<1> DEFINE D == DOMAIN f
           ok == {w \in prepared : Leasable(w, f[w])}
<1>2. /\ order' = [w \in Orders |-> IF w \notin D THEN order[w] ELSE State("dispatching", f[w], FALSE)]
      /\ summary' = summary \ D
      /\ lease' = [s \in Sessions |->
                     IF \E w \in ok : f[w] = s
                     THEN [of |-> CHOOSE w \in ok : f[w] = s, st |-> "active"]
                     ELSE IF lease[s].of \in ok THEN Unleased
                     ELSE IF prepared # {} THEN Pruned[s] ELSE lease[s]]
      /\ call' = [w \in Orders |-> IF w \in ok THEN "ensure" ELSE IF w \in D THEN "poll" ELSE call[w]]
      /\ disp' = [disp EXCEPT ![d].due = @ \ D]
      /\ disp[d].at = "run" /\ UNCHANGED <<lane, held, work, recon>>
  BY <1>1 DEF BatchOf
<1>3. ok \subseteq D
  OBVIOUS
<1>4. D \subseteq disp[d].due
  <2>1. PICK W \in SUBSET disp[d].due : f \in [W -> disp[d].idle]
    BY DEF Batches
  <2> QED BY <2>1
<1> HIDE DEF D, ok
<1>5. ~recon.boot
  BY <1>2, NotBoot
<1>6. \A w \in D : w \in Orders /\ Kind[w] = d /\ call[w] = "none" /\ order[w].st \notin Open
  BY <1>4 DEF PoolInv, DueInv, TypeInv, TypeOK
<1>7. \A w \in Orders : w \notin D => order'[w] = order[w] /\ call'[w] = call[w]
  BY <1>2, <1>3
<1>8. \A w \in D : /\ call'[w] \in {"ensure", "poll"}
                   /\ order'[w].st = "dispatching" /\ order'[w].age = 0
  BY <1>2, <1>6 DEF State
<1>9. DueInv'
  <2>1. \A x \in Dispatchers : disp'[x].due = IF x = d THEN disp[x].due \ D ELSE disp[x].due
    BY <1>2 DEF TypeInv, TypeOK
  <2>2. \A x \in Dispatchers : \A w \in disp[x].due :
          w \in Orders /\ Kind[w] = x /\ call[w] = "none" /\ order[w].st \notin Open
    BY DEF PoolInv, DueInv, TypeInv, TypeOK
  <2>3. \A x \in Dispatchers : \A w \in disp'[x].due : w \in disp[x].due /\ w \notin D
    <3> SUFFICES ASSUME NEW x \in Dispatchers, NEW w \in disp'[x].due
                 PROVE  w \in disp[x].due /\ w \notin D
      OBVIOUS
    <3>1. CASE x = d
      BY <2>1, <3>1
    <3>2. CASE x # d
      <4>1. w \in disp[x].due
        BY <2>1, <3>2
      <4>2. Kind[w] = x
        BY <2>2, <4>1
      <4> QED BY <1>6, <3>2, <4>1, <4>2
    <3> QED BY <3>1, <3>2
  <2> QED BY <1>7, <2>2, <2>3 DEF DueInv
<1>10. PassInv'
  <2>1. \A v \in Orders : Legacy(v) /\ call[v] = "none" /\ order[v].st \in Open
                          => call'[v] = "none" /\ order'[v] = order[v]
    BY <1>6, <1>7
  <2> QED BY <1>2, <2>1, PassKept
<1>11. LaneInv'
  <2>1. \A s \in Sessions : \A w \in lane[s] : w \in Orders /\ w \notin D
    BY <1>5, <1>6 DEF PoolInv, LaneInv, TypeInv, TypeOK
  <2> QED BY <1>2, <1>7, <2>1 DEF PoolInv, LaneInv
<1>12. CallInv'
  <2>1. ASSUME NEW w \in D PROVE OfCall(w)'
    <3>1. "dispatching" \in Open /\ 0 # 2
      BY DEF Open
    <3> QED BY <1>8, <3>1 DEF OfCall, Live
  <2>2. ASSUME NEW w \in Orders, w \notin D PROVE OfCall(w)'
    <3>1. OfCall(w) /\ order'[w] = order[w] /\ call'[w] = call[w]
      BY <1>7, <2>2 DEF PoolInv, CallInv
    <3> QED BY <1>2, <3>1 DEF OfCall
  <2> QED BY <2>1, <2>2 DEF CallInv
<1>13. SummaryInv'
  <2>1. \A w \in D : order'[w].st # "completed"
    BY <1>8
  <2> QED BY <1>2, <1>7, <2>1 DEF PoolInv, SummaryInv
<1>14. CallHoldsLease'
  <2> SUFFICES ASSUME NEW v \in Orders, Queued(v)' \/ call'[v] = "turn"
               PROVE  lease'[order'[v].at] = [of |-> v, st |-> "active"]
    BY DEF CallHoldsLease
  <2>1. v \notin D
    BY <1>8 DEF Queued
  <2>2. order'[v] = order[v] /\ call'[v] = call[v]
    BY <1>7, <2>1
  <2>3. (Queued(v) \/ call[v] = "turn") /\ call[v] \in Live
    BY <2>2 DEF Queued, Live
  <2> DEFINE s == order[v].at
  <2>4. s \in Sessions
    BY <2>3, Dispatched DEF TypeInv, TypeOK, ReadInv
  <2>5. lease[s] = [of |-> v, st |-> "active"]
    BY <2>3 DEF PoolInv, CallHoldsLease
  <2>6. ~\E w \in ok : f[w] = s
    BY <1>3, <2>1, <2>5 DEF ok, Leasable
  <2>7. lease[s].of \notin ok /\ Pruned[s] = lease[s]
    BY <1>3, <2>1, <2>4, <2>5 DEF Pruned
  <2> HIDE DEF s
  <2>8. lease'[s] = lease[s]
    BY <1>2, <2>4, <2>6, <2>7
  <2> QED BY <2>2, <2>5, <2>8 DEF s
<1>15. Stands
  BY <1>7, <1>8 DEF Stands
<1> QED BY <1>5, <1>2, <1>9, <1>10, <1>11, <1>12, <1>13, <1>14, <1>15 DEF PoolInv, BootInv


LEMMA BeginPassPool ==
  ASSUME TypeInv, PoolInv, Calm, ~Synchronous, BeginPass
  PROVE  PoolInv' /\ Stands
<1>1. UNCHANGED <<order, summary, lease, lane, held, work, call, disp, troubles>>
  BY DEF BeginPass
<1>2. /\ recon'.at = "orders" /\ recon'.boot = FALSE /\ recon'.busy = {}
      /\ recon'.rec = order /\ recon'.of = None
      /\ recon'.todo = {w \in Orders :
                          /\ Legacy(w)
                          /\ \/ order[w].st \in Open
                             \/ order[w].st = "failed" /\ ~order[w].gated /\ w \in summary}
  BY DEF BeginPass, Pass
<1>3. ~recon.boot
  BY DEF BeginPass, PoolInv, PassInv
<1>4. \A w \in Orders : call[w] \notin {"gate", "settle"}
  BY DEF Synchronous
<1>5. PassInv'
  BY <1>1, <1>2, <1>4, PoolAssumption DEF PassInv, Legacy
<1>6. BootInv' /\ LaneInv'
  BY <1>1, <1>2, <1>3 DEF PoolInv, BootInv, LaneInv
<1>7. DueInv'
  BY <1>1 DEF PoolInv, DueInv
<1>8. CallInv' /\ SummaryInv'
  BY <1>1 DEF PoolInv, CallInv, OfCall, SummaryInv, Live
<1>9. CallHoldsLease'
  BY <1>1 DEF PoolInv, CallHoldsLease, Queued, Legacy
<1> QED BY <1>1, <1>5, <1>6, <1>7, <1>8, <1>9 DEF PoolInv, Stands


LEMMA RestartPool ==
  ASSUME TypeInv, PoolInv, Calm, Restart
  PROVE  PoolInv' /\ Stands
<1>1. /\ \A s \in Sessions : lane'[s] \subseteq lane[s]
      /\ held' = {} /\ \A w \in Orders : call'[w] = "none"
      /\ disp' = [d \in Dispatchers |-> Dispatch0]
      /\ UNCHANGED <<order, summary, lease, work>>
  BY DEF Restart
<1>2. /\ recon'.at = "orders" /\ recon'.boot = TRUE /\ recon'.busy = {}
      /\ recon'.rec = order /\ recon'.of = None
      /\ recon'.todo = {w \in Orders :
                          /\ Legacy(w)
                          /\ \/ order[w].st \in Open
                             \/ order[w].st = "failed" /\ ~order[w].gated /\ w \in summary}
  BY DEF Restart, Pass
<1>3. PassInv'
  BY <1>1, <1>2, PoolAssumption DEF PassInv, Legacy
<1>4. BootInv'
  BY <1>1 DEF BootInv
<1>5. DueInv'
  BY <1>1 DEF DueInv, Dispatch0
<1>6. LaneInv'
  BY <1>1, <1>2 DEF PoolInv, LaneInv
<1>7. CallInv'
  BY <1>1 DEF CallInv, OfCall, Live
<1>8. SummaryInv' /\ CallHoldsLease'
  BY <1>1 DEF PoolInv, SummaryInv, CallHoldsLease, Queued
<1> QED BY <1>1, <1>3, <1>4, <1>5, <1>6, <1>7, <1>8 DEF PoolInv, Stands


\* What the reconciliation does by settling an order that no call waits for.
LEMMA SettledByPass ==
  ASSUME TypeInv, PoolInv, NEW w \in Orders, NEW st \in Terminal, NEW success,
         call[w] = "none", order[w].st # "completed", st = "completed" => w \in summary,
         \/ order' = Written(w, st, order[w].at) /\ lease' = Released(w, FALSE)
         \/ order' = Verified(w, st, order[w].at) /\ lease' = Released(w, success),
         recon'.boot = recon.boot, UNCHANGED <<summary, lane, held, work, call, disp>>
  PROVE  /\ BootInv' /\ DueInv' /\ LaneInv' /\ CallInv' /\ SummaryInv' /\ CallHoldsLease'
         /\ Stands
         /\ \A v \in Orders : v # w => order'[v] = order[v]
         /\ order'[w].st = st
<1>1. /\ order'[w].st = st /\ order'[w].at = order[w].at
      /\ \A v \in Orders : v # w => order'[v] = order[v]
  <2>1. order' = Written(w, st, order[w].at) \/ order' = Verified(w, st, order[w].at)
    OBVIOUS
  <2> QED BY <2>1, WrittenOne
<1>2. BootInv'
  BY DEF PoolInv, BootInv
<1>3. DueInv'
  <2>1. st \notin Open
    BY DEF Open, Terminal
  <2>2. \A v \in Orders : order[v].st \notin Open => order'[v].st \notin Open
    BY <1>1, <2>1
  <2> QED BY <2>2, DueKept
<1>4. LaneInv'
  BY <1>1 DEF PoolInv, LaneInv, TypeInv, TypeOK
<1>5. CallInv'
  <2>1. OfCall(w)'
    BY DEF OfCall, Live
  <2>2. ASSUME NEW v \in Orders, v # w PROVE OfCall(v)'
    <3>1. OfCall(v) /\ order'[v] = order[v]
      BY <1>1, <2>2 DEF PoolInv, CallInv
    <3> QED BY <3>1 DEF OfCall
  <2> QED BY <2>1, <2>2 DEF CallInv
<1>6. SummaryInv'
  BY <1>1 DEF PoolInv, SummaryInv
<1>7. CallHoldsLease'
  <2>1. \A t \in Sessions, v \in Orders :
          v # w /\ lease[t] = [of |-> v, st |-> "active"] => lease'[t] = lease[t]
    <3>1. lease' = Released(w, FALSE) \/ lease' = Released(w, success)
      OBVIOUS
    <3>2. CASE lease' = Released(w, FALSE)
      BY <3>2, OthersKeepFailed
    <3>3. CASE lease' = Released(w, success)
      BY <3>3, OthersKeep
    <3> QED BY <3>1, <3>2, <3>3
  <2>2. ~(Queued(w)' \/ call'[w] = "turn") /\ Frame(w)
    BY <1>1 DEF Queued, Frame
  <2> QED BY <2>1, <2>2, LeaseKept
<1>8. Stands
  BY <1>1 DEF Stands
<1> QED BY <1>1, <1>2, <1>3, <1>4, <1>5, <1>6, <1>7, <1>8

LEMMA ReconcileOrderPool ==
  ASSUME TypeInv, PoolInv, Calm, NEW w \in Orders, ReconcileOrder(w)
  PROVE  PoolInv' /\ Stands
<1> DEFINE rest == [recon EXCEPT !.todo = @ \ {w}]
           s == recon.rec[w].at
<1>1. /\ recon.at = "orders" /\ w \in recon.todo
      /\ UNCHANGED <<summary, lane, held, work, disp>>
  BY DEF ReconcileOrder
<1>2. \/ /\ Busy(w) /\ recon' = [rest EXCEPT !.busy = @ \cup {w}] /\ UNCHANGED <<order, lease, call>>
      \/ /\ ~Busy(w) /\ recon' = rest /\ UNCHANGED call
         /\ \E st \in Terminal : /\ st = "completed" => w \in summary
                                 /\ order' = Verified(w, st, s)
                                 /\ lease' = Released(w, st = "completed")
      \/ /\ ~Busy(w) /\ recon' = rest /\ UNCHANGED <<order, lease, call>>
  BY DEF ReconcileOrder, Calm
<1>3. /\ recon.rec[w] = order[w] /\ Legacy(w) /\ order[w].st \in Open \cup {"failed"}
      /\ OfCall(w) /\ call[w] \notin {"gate", "settle"} /\ call[w] \in Stages
  BY <1>1 DEF PoolInv, PassInv, CallInv, TypeInv, TypeOK
<1>4. \/ Busy(w) /\ recon'.busy = recon.busy \cup {w}
      \/ ~Busy(w) /\ recon'.busy = recon.busy
  BY <1>2 DEF TypeInv, TypeOK
<1>5. /\ recon'.at = "orders" /\ recon'.todo = recon.todo \ {w} /\ recon'.rec = recon.rec
      /\ recon'.of = recon.of /\ recon'.boot = recon.boot
  BY <1>1, <1>2 DEF TypeInv, TypeOK
<1> HIDE DEF rest
\* An order that is not busy has no call.
<1>6. ~Busy(w) => call[w] = "none"
  <2> SUFFICES ASSUME ~Busy(w), call[w] # "none" PROVE FALSE
    OBVIOUS
  <2>1. ~recon.boot
    BY NotBoot
  <2>2. lane[order[w].at] = {} /\ order[w].at \notin held /\ call[w] \notin {"ensure", "poll"}
    BY <1>3, <2>1 DEF Busy, HasQueuedWork, Calm
  <2>3. call[w] # "start"
    BY <1>3, OpenDispatched DEF OfCall
  <2> QED BY <1>3, <2>2, <2>3 DEF OfCall, Stages
<1>7. ASSUME UNCHANGED <<order, lease, call>> PROVE PoolInv' /\ Stands
  <2>1. PassInv'
    <3>1. \A v \in Orders : v # w \/ w \in recon'.busy \/ call[v] = "none"
      BY <1>4, <1>6
    <3>2. recon.busy \subseteq recon'.busy
      BY <1>4
    <3>3. recon'.of \notin recon'.todo
      BY <1>5 DEF PoolInv, PassInv
    <3> QED BY <1>1, <1>5, <1>7, <3>1, <3>2, <3>3 DEF PoolInv, PassInv, Legacy, Unprobed
  <2>2. BootInv' /\ LaneInv'
    BY <1>1, <1>5, <1>7 DEF PoolInv, BootInv, LaneInv
  <2>3. DueInv'
    BY <1>1, <1>7 DEF PoolInv, DueInv
  <2>4. CallInv' /\ SummaryInv'
    BY <1>1, <1>7 DEF PoolInv, CallInv, OfCall, SummaryInv, Live
  <2>5. CallHoldsLease'
    BY <1>1, <1>7 DEF PoolInv, CallHoldsLease, Queued, Legacy
  <2> QED BY <1>7, <2>1, <2>2, <2>3, <2>4, <2>5 DEF PoolInv, Stands
<1>8. ASSUME ~Busy(w), UNCHANGED call, NEW st \in Terminal, st = "completed" => w \in summary,
             order' = Verified(w, st, s), lease' = Released(w, st = "completed")
      PROVE  PoolInv' /\ Stands
  <2>1. order[w].st # "completed" /\ s = order[w].at
    BY <1>3 DEF Open
  <2>2. \E success : lease' = Released(w, success)
    BY <1>8
  <2>3. /\ BootInv' /\ DueInv' /\ LaneInv' /\ CallInv' /\ SummaryInv' /\ CallHoldsLease' /\ Stands
        /\ (\A v \in Orders : v # w => order'[v] = order[v]) /\ order'[w].st = st
    BY <1>1, <1>5, <1>6, <1>8, <2>1, <2>2, SettledByPass
  <2>4. PassInv'
    <3>1. st \notin Open
      BY DEF Open, Terminal
    <3>2. \A v \in recon'.todo : v \in Orders /\ v # w /\ v \in recon.todo
      BY <1>5 DEF TypeInv, TypeOK
    <3>3. recon'.of = None /\ recon.of = None
      BY <1>1, <1>5 DEF TypeInv, ReadInv
    <3>4. \A v \in recon'.todo : recon'.rec[v] = order'[v] /\ Legacy(v) /\ order'[v].st \in Open \cup {"failed"}
      BY <1>1, <1>5, <2>3, <3>2 DEF PoolInv, PassInv
    <3>5. \A v \in Orders : Legacy(v) /\ order'[v].st \in Open => v # w /\ order[v].st \in Open
      BY <2>3, <3>1
    <3>6. \A v \in Orders : Legacy(v) /\ order'[v].st \in Open
                            => v \in recon'.todo \cup recon'.busy \/ call'[v] = "none"
      BY <1>1, <1>4, <1>5, <1>8, <3>5 DEF PoolInv, PassInv
    <3>7. \A v \in Orders : call'[v] \notin {"gate", "settle"}
      BY <1>1, <1>8 DEF PoolInv, PassInv
    <3>8. None \notin recon'.todo
      BY <3>2, PoolAssumption
    <3> QED BY <1>5, <3>3, <3>4, <3>6, <3>7, <3>8 DEF PassInv, Legacy
  <2> QED BY <2>3, <2>4 DEF PoolInv
<1> QED BY <1>2, <1>7, <1>8

LEMMA SettleTerminalLeasesPool ==
  ASSUME TypeInv, PoolInv, Calm, SettleTerminalLeases
  PROVE  PoolInv' /\ Stands
<1>1. /\ recon.at = "orders" /\ recon.todo = {}
      /\ UNCHANGED <<order, summary, lane, held, work, call, disp, troubles>>
  BY DEF SettleTerminalLeases
<1>2. PICK todo \in SUBSET Orders :
        /\ recon' = [recon EXCEPT !.at = "probe", !.rec = order, !.todo = todo]
        /\ \A w \in todo : Legacy(w) /\ w \notin recon.busy /\ order[w].st \in Open
  BY DEF SettleTerminalLeases, Unfinished
<1>3. /\ recon'.at = "probe" /\ recon'.rec = order /\ recon'.todo = todo
      /\ recon'.of = recon.of /\ recon'.boot = recon.boot
  BY <1>2 DEF TypeInv, TypeOK
<1>4. recon.of = None
  BY <1>1 DEF TypeInv, ReadInv
<1>5. \A w \in todo : call[w] = "none"
  BY <1>1, <1>2 DEF PoolInv, PassInv
<1>6. None \notin todo
  BY PoolAssumption
<1>7. PassInv'
  <2>1. \A w \in Orders : call[w] \notin {"gate", "settle"}
    BY <1>1 DEF PoolInv, PassInv
  <2> QED BY <1>1, <1>2, <1>3, <1>4, <1>5, <1>6, <2>1 DEF PassInv, Unprobed, Legacy
<1>8. BootInv' /\ LaneInv'
  BY <1>1, <1>3 DEF PoolInv, BootInv, LaneInv
<1>9. DueInv'
  BY <1>1 DEF PoolInv, DueInv
<1>10. CallInv' /\ SummaryInv'
  BY <1>1 DEF PoolInv, CallInv, OfCall, SummaryInv, Live
<1>11. CallHoldsLease'
  <2> SUFFICES ASSUME NEW v \in Orders, Queued(v) \/ call[v] = "turn"
               PROVE  lease'[order[v].at] = [of |-> v, st |-> "active"]
    BY <1>1 DEF CallHoldsLease, Queued, Legacy
  <2>1. call[v] \in Live /\ lease[order[v].at] = [of |-> v, st |-> "active"]
    BY DEF Queued, Live, PoolInv, CallHoldsLease
  <2>2. order[v].st \in Open /\ order[v].at \in Sessions
    BY <2>1, Dispatched DEF PoolInv, CallInv, OfCall, TypeInv, TypeOK, ReadInv
  <2>3. ~Settled(v) /\ lease[order[v].at].of = v
    BY <2>1, <2>2 DEF Settled, Open, Terminal
  <2>4. lease'[order[v].at] = lease[order[v].at]
    BY <2>2, <2>3 DEF SettleTerminalLeases
  <2> QED BY <2>1, <2>4
<1> QED BY <1>1, <1>7, <1>8, <1>9, <1>10, <1>11 DEF PoolInv, Stands


LEMMA BeginProbePool ==
  ASSUME TypeInv, PoolInv, Calm, NEW w \in Orders, BeginProbe(w)
  PROVE  PoolInv' /\ Stands
<1>1. /\ recon.at = "probe" /\ w \in recon.todo
      /\ UNCHANGED <<order, summary, lease, lane, held, work, call, disp, troubles>>
      /\ \/ recon' = [recon EXCEPT !.todo = @ \ {w}]
         \/ recon' = [recon EXCEPT !.at = "probing", !.todo = @ \ {w}, !.of = w]
  BY DEF BeginProbe
<1>2. /\ recon'.todo = recon.todo \ {w} /\ recon'.rec = recon.rec /\ recon'.boot = recon.boot
      /\ \/ recon'.at = "probe" /\ recon'.of = recon.of
         \/ recon'.at = "probing" /\ recon'.of = w
  <2>1. CASE recon' = [recon EXCEPT !.todo = @ \ {w}]
    BY <1>1, <2>1 DEF TypeInv, TypeOK
  <2>2. CASE recon' = [recon EXCEPT !.at = "probing", !.todo = @ \ {w}, !.of = w]
    BY <2>2 DEF TypeInv, TypeOK
  <2> QED BY <1>1, <2>1, <2>2
<1>3. PassInv'
  <2>1. \A v \in recon.todo : Unprobed(v)
    BY <1>1 DEF PoolInv, PassInv
  <2>2. \A v : Unprobed(v) => Unprobed(v)'
    BY <1>1, <1>2 DEF Unprobed, Legacy
  <2>3. recon'.of \notin recon'.todo
    BY <1>2 DEF PoolInv, PassInv
  <2>4. recon.of # None => Unprobed(recon.of)
    BY DEF PoolInv, PassInv
  <2>5. (recon.of # None => Unprobed(recon.of))'
    <3>1. CASE recon'.of = recon.of
      BY <1>1, <1>2, <2>4, <3>1 DEF Unprobed, Legacy
    <3>2. CASE recon'.of = w
      BY <1>1, <1>2, <2>1, <3>2 DEF Unprobed, Legacy
    <3> QED BY <1>2, <3>1, <3>2
  <2>6. \A v \in Orders : call[v] \notin {"gate", "settle"}
    BY <1>1 DEF PoolInv, PassInv
  <2> QED BY <1>1, <1>2, <2>1, <2>2, <2>3, <2>5, <2>6 DEF PassInv
<1>4. BootInv' /\ LaneInv'
  BY <1>1, <1>2 DEF PoolInv, BootInv, LaneInv
<1>5. DueInv'
  BY <1>1 DEF PoolInv, DueInv
<1>6. CallInv' /\ SummaryInv'
  BY <1>1 DEF PoolInv, CallInv, OfCall, SummaryInv, Live
<1>7. CallHoldsLease'
  BY <1>1 DEF PoolInv, CallHoldsLease, Queued, Legacy
<1> QED BY <1>1, <1>3, <1>4, <1>5, <1>6, <1>7 DEF PoolInv, Stands


LEMMA EndProbePool ==
  ASSUME TypeInv, PoolInv, Calm, ~Synchronous, EndProbe
  PROVE  PoolInv' /\ Stands
<1>0. recon.of \in Orders
  BY DEF EndProbe, TypeInv, TypeOK, ReadInv
<1>1. PICK w \in Orders : w = recon.of
  BY <1>0
<1>2. /\ recon.at = "probing" /\ recon' = [recon EXCEPT !.at = "probe", !.of = None]
      /\ \/ UNCHANGED <<order, lease>>
         \/ order' = Written(w, "failed", recon.rec[w].at) /\ lease' = Released(w, FALSE)
      /\ UNCHANGED <<summary, lane, held, work, call, disp>>
  BY <1>1 DEF EndProbe
<1>3. /\ recon'.at = "probe" /\ recon'.of = None /\ recon'.todo = recon.todo
      /\ recon'.rec = recon.rec /\ recon'.boot = recon.boot
  BY <1>2 DEF TypeInv, TypeOK
<1>4. /\ recon.rec[w] = order[w] /\ call[w] = "none" /\ order[w].st \in Open /\ w \notin recon.todo
      /\ recon.todo \subseteq Orders
  BY <1>1, PoolAssumption DEF PoolInv, PassInv, Unprobed, TypeInv, TypeOK
<1>5. \A v \in Orders : call[v] \notin {"gate", "settle"}
  BY DEF Synchronous
<1>6. ASSUME \A v \in Orders : v # w => order'[v] = order[v]
      PROVE  PassInv'
  <2>1. \A v \in recon.todo : Unprobed(v) /\ v # w
    BY <1>2, <1>4 DEF PoolInv, PassInv
  <2>2. \A v \in recon'.todo : Unprobed(v)'
    BY <1>2, <1>3, <1>4, <1>6, <2>1 DEF Unprobed, Legacy
  <2>3. None \notin recon.todo
    BY <1>4, PoolAssumption
  <2> QED BY <1>2, <1>3, <1>5, <2>2, <2>3 DEF PassInv
<1>7. CASE UNCHANGED <<order, lease>>
  <2>1. PassInv'
    BY <1>6, <1>7
  <2>2. BootInv' /\ LaneInv'
    BY <1>2, <1>3, <1>7 DEF PoolInv, BootInv, LaneInv
  <2>3. DueInv'
    BY <1>2, <1>7 DEF PoolInv, DueInv
  <2>4. CallInv' /\ SummaryInv'
    BY <1>2, <1>7 DEF PoolInv, CallInv, OfCall, SummaryInv, Live
  <2>5. CallHoldsLease'
    BY <1>2, <1>7 DEF PoolInv, CallHoldsLease, Queued, Legacy
  <2> QED BY <1>7, <2>1, <2>2, <2>3, <2>4, <2>5 DEF PoolInv, Stands
<1>8. CASE order' = Written(w, "failed", order[w].at) /\ lease' = Released(w, FALSE)
  <2>1. "failed" \in Terminal /\ "failed" # "completed" /\ order[w].st # "completed"
    BY <1>4 DEF Terminal, Open
  <2>2. /\ BootInv' /\ DueInv' /\ LaneInv' /\ CallInv' /\ SummaryInv' /\ CallHoldsLease' /\ Stands
        /\ \A v \in Orders : v # w => order'[v] = order[v]
    BY <1>2, <1>3, <1>4, <1>8, <2>1, SettledByPass
  <2> QED BY <1>6, <2>2 DEF PoolInv
<1> QED BY <1>2, <1>4, <1>7, <1>8


LEMMA EndPassPool ==
  ASSUME TypeInv, PoolInv, Calm, EndPass
  PROVE  PoolInv' /\ Stands
<1>1. /\ recon.at = "probe" /\ recon' = NoPass /\ UNCHANGED <<summary, held, work, disp, troubles>>
      /\ order' = [w \in Orders |-> IF w \in Abandoned
                                    THEN State("failed", order[w].at, order[w].gated) ELSE order[w]]
      /\ lease' = [s \in Sessions |-> IF lease[s].of \in Abandoned
                                      THEN [lease[s] EXCEPT !.st = "retained"] ELSE lease[s]]
  BY DEF EndPass
<1>2. /\ recon.boot => /\ \A s \in Sessions : lane'[s] = lane[s] \ summary
                       /\ \A w \in Orders : call'[w] = IF \E s \in Sessions : w \in lane[s] \ summary
                                                       THEN "restored" ELSE call[w]
      /\ ~recon.boot => UNCHANGED <<lane, call>>
  BY DEF EndPass, Restored
<1>3. NoPass.at = "idle" /\ NoPass.boot = FALSE /\ NoPass.todo = {} /\ NoPass.of = None
  BY DEF NoPass
<1>4. \A w \in Abandoned : order[w].st \in Open /\ call[w] \notin Live
  BY DEF Abandoned, PoolInv, CallInv, OfCall
<1>5. /\ \A w \in Orders : order'[w].at = order[w].at
      /\ \A w \in Orders : w \in Abandoned => order'[w].st = "failed"
      /\ \A w \in Orders : w \notin Abandoned => order'[w] = order[w]
  BY <1>1 DEF State
<1>6. PassInv'
  BY <1>1, <1>3 DEF PassInv
<1>7. BootInv'
  BY <1>1, <1>3 DEF BootInv
<1>8. SummaryInv'
  BY <1>1, <1>5 DEF PoolInv, SummaryInv
<1>9. Stands
  BY <1>4, <1>5, OpenDispatched DEF Stands, Open
<1>10. CASE recon.boot
  <2>1. \A w \in Orders : call[w] = "none" /\ call'[w] \in {"none", "restored"}
    BY <1>2, <1>10 DEF PoolInv, BootInv
  <2>2. DueInv'
    BY <1>1, <1>10 DEF PoolInv, BootInv, DueInv, Dispatch0
  <2>3. LaneInv'
    BY <1>2, <1>5, <1>10 DEF PoolInv, LaneInv, TypeInv, TypeOK
  <2>4. CallInv'
    <3> SUFFICES ASSUME NEW w \in Orders, call'[w] = "restored" PROVE OfCall(w)'
      BY <2>1 DEF CallInv, OfCall, Live
    <3>1. PICK s \in Sessions : w \in lane[s] \ summary
      BY <1>2, <1>10, <2>1
    <3>2. order[w].at = s /\ w \in lane'[order'[w].at]
      BY <1>2, <1>5, <1>10, <3>1 DEF PoolInv, LaneInv
    <3>3. order[w].st \notin {"none", "completed"}
      <4>1. order[w].st # "completed"
        BY <3>1 DEF PoolInv, SummaryInv
      <4>2. order[w] # NoOrder
        BY <3>2, PoolAssumption DEF NoOrder
      <4>3. order[w] \in States
        BY DEF TypeInv, TypeOK
      <4> QED BY <4>1, <4>2, <4>3, OpenDispatched DEF States
    <3>4. order'[w].st \notin {"none", "completed"}
      BY <1>5, <3>3
    <3> QED BY <3>2, <3>4 DEF OfCall, Live
  <2>5. CallHoldsLease'
    BY <2>1 DEF CallHoldsLease, Queued
  <2> QED BY <1>6, <1>7, <1>8, <1>9, <2>2, <2>3, <2>4, <2>5 DEF PoolInv
<1>11. CASE ~recon.boot
  <2>1. UNCHANGED <<lane, call>>
    BY <1>2, <1>11
  <2>2. DueInv'
    <3>1. \A w \in Orders : order[w].st \notin Open => order'[w].st \notin Open
      BY <1>4, <1>5
    <3> QED BY <1>1, <2>1, <3>1, DueKept
  <2>3. LaneInv'
    BY <1>5, <1>11, <2>1 DEF PoolInv, LaneInv, TypeInv, TypeOK
  <2>4. CallInv'
    <3> SUFFICES ASSUME NEW w \in Orders PROVE OfCall(w)'
      BY DEF CallInv
    <3>1. OfCall(w) /\ order'[w].at = order[w].at
      BY <1>5 DEF PoolInv, CallInv
    <3>2. CASE w \in Abandoned
      BY <1>1, <1>4, <1>5, <2>1, <3>1, <3>2, OpenDispatched DEF OfCall
    <3>3. CASE w \notin Abandoned
      <4>1. order'[w] = order[w]
        BY <1>5, <3>3
      <4> QED BY <1>1, <2>1, <3>1, <4>1 DEF OfCall
    <3> QED BY <3>2, <3>3
  <2>5. CallHoldsLease'
    <3> SUFFICES ASSUME NEW v \in Orders, Queued(v) \/ call[v] = "turn"
                 PROVE  lease'[order'[v].at] = [of |-> v, st |-> "active"]
      BY <2>1 DEF CallHoldsLease, Queued, Legacy
    <3>1. call[v] \in Live /\ lease[order[v].at] = [of |-> v, st |-> "active"]
      BY DEF Queued, Live, PoolInv, CallHoldsLease
    <3>2. v \notin Abandoned /\ order[v].at \in Sessions
      BY <1>4, <3>1, Dispatched DEF TypeInv, TypeOK, ReadInv
    <3>3. lease[order[v].at].of = v
      BY <3>1
    <3>4. lease'[order[v].at] = lease[order[v].at]
      BY <1>1, <3>2, <3>3
    <3> QED BY <1>5, <3>1, <3>4
  <2> QED BY <1>6, <1>7, <1>8, <1>9, <2>2, <2>3, <2>4, <2>5 DEF PoolInv
<1> QED BY <1>10, <1>11


LEMMA RevisedPool ==
  ASSUME TypeInv, PoolInv, Calm, ~Synchronous, Revised
  PROVE  PoolInv' /\ Stands
BY DEF Revised, PoolInv, PassInv


LEMMA RestPool == ASSUME PoolInv, UNCHANGED vars PROVE PoolInv' /\ Stands
BY DEF vars, PoolInv, BootInv, DueInv, LaneInv, CallInv, OfCall, SummaryInv, PassInv, Unprobed,
   CallHoldsLease, Queued, Legacy, Live, Stands

LEMMA PoolStep == TypeInv /\ PoolInv /\ Calm /\ [Next]_vars => PoolInv' /\ Stands
<1> SUFFICES ASSUME TypeInv, PoolInv, Calm, [Next]_vars PROVE PoolInv' /\ Stands
  OBVIOUS
<1>1. CASE UNCHANGED vars
  BY <1>1, RestPool
<1>2. CASE Next
  BY <1>2, Steps, ConsumePool, EndTurnPool, ExpirePool, BatchPool, EndDispatchPool, ProbePool,
     ReservePool, AgePool, RecoverDelegationPool, EndPollPool, EnqueuePool, DelegatePool,
     UnconsumedPool, StartDelegationPool, CannotEnsurePool, WriteSummaryPool, TimeoutPool,
     BeginPassPool, RevisedPool, EndProbePool, GatePool, SettlePool, ReconcileOrderPool,
     BeginProbePool, SettleTerminalLeasesPool, EndPassPool, RestartPool
<1> QED BY <1>1, <1>2

THEOREM PoolInvariant ==
  ASSUME ~Revisions, ~Overlap
  PROVE  Spec => [](TypeInv /\ PoolInv)
<1>1. TypeInv /\ PoolInv /\ [Next]_vars => TypeInv' /\ PoolInv'
  BY TypeStep, PoolStep DEF Calm
<1>2. Init => TypeInv /\ PoolInv
  BY InitTyped, InitPool
<1> QED BY <1>1, <1>2, PTL DEF Spec

\* No dispatcher, delegation or reconciliation takes or releases the lease of a worker that
\* a call waits for: whatever the orders, sessions, restarts and timeouts.
THEOREM LeaseHeld ==
  ASSUME ~Revisions, ~Overlap
  PROVE  Spec => []CallHoldsLease
<1>1. PoolInv => CallHoldsLease
  BY DEF PoolInv
<1> QED BY <1>1, PoolInvariant, PTL

\* An accepted order is reopened by nothing but its own new dispatch.
THEOREM CompletedStays ==
  ASSUME ~Revisions, ~Overlap
  PROVE  Spec => CompletedStands
<1>1. TypeInv /\ PoolInv /\ [Next]_vars
      => [\A w \in Orders : order[w].st = "completed"
                            => order'[w].st \in {"completed", "dispatching"}]_vars
  BY PoolStep DEF Stands, Calm
<1> QED BY <1>1, PoolInvariant, PTL DEF Spec, CompletedStands
=============================================================================
