--------------------- MODULE RepositoryReviewQueueProofs ---------------------
(***************************************************************************)
(* Proofs about RepositoryReviewQueue, for any reviews, repositories,      *)
(* sessions, attempts and troubles.                                        *)
(***************************************************************************)
EXTENDS RepositoryReviewQueue, TLAPS

\* An item that waits has an attempt left; only a running one is owned.
GoodItems == {i \in Items : /\ i.st \in Waiting => ~Exhausted(i)
                            /\ i.st # "running" => i.owner = "none"}

\* What every operation of the queue keeps, but for a lease.
Keeps(i, j) == /\ j \in GoodItems
               /\ Stands(i, j)
               /\ Owned(j) => Owned(i)
               /\ j.migrated = i.migrated

USE DEF Items, Waiting, Terminal

-----------------------------------------------------------------------------
(* The operations on one item *)

LEMMA MaxAttemptsNat == MaxAttempts \in Nat /\ MaxAttempts > 0
BY ReviewAssumption

LEMMA Values ==
  /\ 0 \in Waits /\ 1 \in Waits /\ 2 \in Waits
  /\ "capacity" \in Errors /\ "other" \in Errors
  /\ \A result : ResultError(result) \in Errors
  /\ "none" \in Owners /\ "live" \in Owners /\ "late" \in Owners /\ "dead" \in Owners
  /\ Waiting \subseteq Status /\ Terminal \subseteq Status
  /\ "running" \in Status /\ "absent" \in Status
BY DEF Waits, Errors, Owners, Status, ResultError

LEMMA CloseKeeps ==
  ASSUME NEW i \in GoodItems, NEW st \in Terminal, i.st \notin Terminal
  PROVE  Keeps(i, Close(i, st))
<1> DEFINE j == Close(i, st)
<1>1. j \in Items
  BY Values DEF GoodItems, Close
<1>2. j.st = st /\ j.owner = "none" /\ j.migrated = i.migrated
  BY DEF GoodItems, Close
<1> HIDE DEF j
<1>3. i \in Items
  BY DEF GoodItems
<1>4. j \in GoodItems
  BY <1>1, <1>2 DEF GoodItems
<1>5. Stands(i, j)
  BY <1>2, <1>3 DEF Stands
<1>6. ~Owned(j)
  BY <1>2 DEF Owned
<1> QED BY <1>2, <1>4, <1>5, <1>6 DEF Keeps, j

LEMMA RetryWaitKeeps ==
  ASSUME NEW i \in GoodItems, NEW wait \in Waits, NEW err \in Errors,
         i.st \notin Terminal
  PROVE  Keeps(i, RetryWait(i, wait, err))
<1>1. CASE Exhausted(i)
  BY <1>1, CloseKeeps DEF RetryWait
<1>2. CASE ~Exhausted(i)
  BY <1>2, Values DEF RetryWait, GoodItems, Keeps, Stands, Owned, Exhausted
<1> QED BY <1>1, <1>2

LEMMA NotOwnedAfterRetry ==
  ASSUME NEW i \in GoodItems, NEW wait \in Waits, NEW err \in Errors
  PROVE  ~Owned(RetryWait(i, wait, err))
<1>1. Close(i, "dead-letter").st = "dead-letter"
  BY Values DEF Close, GoodItems
<1>2. [i EXCEPT !.st = "retry-wait", !.wait = wait, !.err = err, !.owner = "none"].st = "retry-wait"
  BY Values DEF GoodItems
<1> QED BY <1>1, <1>2 DEF RetryWait, Owned

LEMMA SweptKeeps ==
  ASSUME NEW i \in GoodItems
  PROVE  Keeps(i, Swept(i))
<1>1. CASE Exhausted(i) /\ (i.st \in Waiting \/ Lapsed(i))
  BY <1>1, CloseKeeps DEF Swept, Lapsed
<1>2. CASE ~(Exhausted(i) /\ (i.st \in Waiting \/ Lapsed(i))) /\ Lapsed(i)
  <2>1. ~Exhausted(i)
    BY <1>2
  <2>2. Swept(i) = [i EXCEPT !.st = "pending", !.wait = 0, !.owner = "none"]
    BY <1>2 DEF Swept
  <2> QED BY <2>1, <2>2, <1>2, Values DEF Lapsed, GoodItems, Keeps, Stands, Owned, Exhausted
<1>3. CASE ~(Exhausted(i) /\ (i.st \in Waiting \/ Lapsed(i))) /\ ~Lapsed(i)
  <2>1. Swept(i) = i
    BY <1>3 DEF Swept
  <2> QED BY <2>1 DEF GoodItems, Keeps, Stands
<1> QED BY <1>1, <1>2, <1>3

LEMMA ListedKeeps ==
  ASSUME NEW i \in GoodItems
  PROVE  Keeps(i, Listed(i))
<1>1. CASE i.st \in Waiting /\ ~Exhausted(i) /\ i.wait = 2 /\ i.err = "capacity"
  <2>1. Listed(i) = [i EXCEPT !.wait = 0, !.err = "other"]
    BY <1>1 DEF Listed
  <2> QED BY <2>1, <1>1, Values DEF GoodItems, Keeps, Stands, Owned, Exhausted
<1>2. CASE ~(i.st \in Waiting /\ ~Exhausted(i) /\ i.wait = 2 /\ i.err = "capacity")
  BY <1>2, SweptKeeps DEF Listed
<1> QED BY <1>1, <1>2

LEMMA DelayWaits == \A attempt : Delay(attempt) \in Waits
BY Values DEF Delay

LEMMA TakenKeeps ==
  ASSUME NEW i \in GoodItems, i.st \in Waiting
  PROVE  Taken(i) \in GoodItems /\ Stands(i, Taken(i)) /\ Taken(i).migrated = i.migrated
<1>1. i \in Items /\ i.attempt + 1 \in Attempts
  BY MaxAttemptsNat DEF GoodItems, Exhausted, Attempts
<1>2. Taken(i) \in Items /\ Taken(i).st = "running" /\ Taken(i).migrated = i.migrated
  BY <1>1, Values DEF Taken
<1> QED BY <1>1, <1>2 DEF GoodItems, Stands

LEMMA KeepsSame == ASSUME NEW i \in GoodItems PROVE Keeps(i, i)
BY DEF Keeps, Stands

LEMMA ReportedKeeps ==
  ASSUME NEW i \in GoodItems, NEW st
  PROVE  Keeps(i, Reported(i, st)) /\ ~Owned(Reported(i, st))
<1>1. CASE ~Owned(i)
  BY <1>1, KeepsSame DEF Reported
<1>2. CASE Owned(i) /\ st \in Terminal
  <2>1. Reported(i, st) = Close(i, st) /\ i.st \notin Terminal
    BY <1>2 DEF Reported, Owned
  <2>2. Keeps(i, Close(i, st))
    BY <1>2, <2>1, CloseKeeps
  <2>3. Close(i, st).st = st
    BY <1>2, Values DEF Close, GoodItems
  <2>4. ~Owned(Close(i, st))
    BY <1>2, <2>3 DEF Owned
  <2> QED BY <2>1, <2>2, <2>4
<1>3. CASE Owned(i) /\ st \notin Terminal
  <2>1. Reported(i, st) = RetryWait(i, Delay(i.attempt), "other") /\ i.st \notin Terminal
    BY <1>3 DEF Reported, Owned
  <2>2. Keeps(i, RetryWait(i, Delay(i.attempt), "other"))
    BY <2>1, RetryWaitKeeps, DelayWaits, Values
  <2> QED BY <2>1, <2>2, NotOwnedAfterRetry, DelayWaits, Values
<1> QED BY <1>1, <1>2, <1>3

LEMMA RetryOccurrenceKeeps ==
  ASSUME NEW i \in GoodItems, NEW result, NEW wait \in Waits
  PROVE  Keeps(i, RetryOccurrence(i, result, wait))
BY KeepsSame, RetryWaitKeeps, Values DEF RetryOccurrence

LEMMA CompleteOccurrenceKeeps ==
  ASSUME NEW i \in GoodItems, NEW st \in Terminal
  PROVE  Keeps(i, CompleteOccurrence(i, st))
BY KeepsSame, CloseKeeps DEF CompleteOccurrence

LEMMA DeferredKeeps ==
  ASSUME NEW i \in GoodItems, i.st \in Waiting, NEW deferral \in Deferrals
  PROVE  Keeps(i, Deferred(i, deferral))
<1>1. i \in Items /\ deferral.wait \in Waits /\ deferral.err \in Errors
  BY Values DEF GoodItems, Deferrals
<1>2. Deferred(i, deferral) \in Items
  BY <1>1 DEF Deferred
<1>3. /\ Deferred(i, deferral).st = i.st /\ Deferred(i, deferral).attempt = i.attempt
      /\ Deferred(i, deferral).migrated = i.migrated
      /\ Deferred(i, deferral).owner = i.owner
  BY <1>1 DEF Deferred
<1>4. ~Exhausted(i) /\ i.owner = "none"
  BY DEF GoodItems
<1>5. Deferred(i, deferral) \in GoodItems
  BY <1>2, <1>3, <1>4 DEF GoodItems, Exhausted
<1>6. Stands(i, Deferred(i, deferral))
  BY <1>1, <1>3 DEF Stands
<1>7. ~Owned(Deferred(i, deferral))
  BY <1>3 DEF Owned
<1> QED BY <1>3, <1>5, <1>6, <1>7 DEF Keeps

LEMMA StandsTransitive ==
  ASSUME NEW i \in GoodItems, NEW j \in GoodItems, NEW k \in GoodItems,
         Stands(i, j), Stands(j, k)
  PROVE  Stands(i, k)
BY DEF Stands, GoodItems

-----------------------------------------------------------------------------
(* The reconciliations on one item *)

ItemsGood == item \in [Reviews -> GoodItems]

LEMMA AdoptedKeeps ==
  ASSUME ItemsGood, NEW r \in Reviews
  PROVE  /\ Adopted(r) \in GoodItems
         /\ Stands(item[r], Adopted(r))
         /\ Adopted(r).migrated = item[r].migrated
         /\ Owned(Adopted(r)) => Owned(item[r]) \/ order[r] = "open"
         /\ Due(Adopted(r)) => ~Adoptable(r)
<1> DEFINE i == item[r]
           swept == Swept(i)
<1>1. i \in GoodItems
  BY DEF ItemsGood
<1>2. Keeps(i, swept)
  BY <1>1, SweptKeeps
<1>3. swept \in GoodItems /\ Stands(i, swept) /\ swept.migrated = i.migrated
      /\ (Owned(swept) => Owned(i))
  BY <1>2 DEF Keeps
<1>4. CASE \A s \in Reviews : Adoptable(s) => Owned(item[s])
  <2>1. Adopted(r) = i
    BY <1>4 DEF Adopted
  <2>2. Due(i) => ~Adoptable(r)
    BY <1>4 DEF Due, Owned
  <2> HIDE DEF i
  <2> QED BY <1>1, <2>1, <2>2, KeepsSame DEF Keeps, i
<1>5. CASE /\ ~ \A s \in Reviews : Adoptable(s) => Owned(item[s])
           /\ Adoptable(r) /\ Due(swept)
  <2>1. Adopted(r) = Taken(swept)
    BY <1>5 DEF Adopted
  <2>2. swept.st \in Waiting
    BY <1>5 DEF Due
  <2>3. /\ Taken(swept) \in GoodItems /\ Stands(swept, Taken(swept))
        /\ Taken(swept).migrated = swept.migrated
    BY <1>3, <2>2, TakenKeeps
  <2>4. Stands(i, Taken(swept))
    BY <1>1, <1>3, <2>3, StandsTransitive
  <2>5. Taken(swept).st = "running"
    BY <1>3, Values DEF Taken, GoodItems
  <2>6. ~Due(Taken(swept)) /\ order[r] = "open"
    BY <2>5, <1>5 DEF Due, Adoptable
  <2> HIDE DEF swept, i
  <2> QED BY <1>3, <2>1, <2>3, <2>4, <2>6 DEF i
<1>6. CASE /\ ~ \A s \in Reviews : Adoptable(s) => Owned(item[s])
           /\ ~(Adoptable(r) /\ Due(swept))
  <2>1. Adopted(r) = swept
    BY <1>6 DEF Adopted
  <2> HIDE DEF swept, i
  <2> QED BY <1>3, <1>6, <2>1 DEF i
<1> QED BY <1>4, <1>5, <1>6

LEMMA ReopenedGood ==
  ASSUME NEW i \in GoodItems, i.st \in Terminal
  PROVE  /\ Reopened(i) \in GoodItems /\ Reopened(i).migrated
         /\ Reopened(i).st = "retry-wait" /\ ~Owned(Reopened(i))
<1>1. i \in Items /\ 0 \in Attempts
  BY MaxAttemptsNat DEF GoodItems, Attempts
<1>2. Reopened(i) \in Items
  BY <1>1, Values DEF Reopened
<1>3. Reopened(i).st = "retry-wait" /\ Reopened(i).attempt = 0
      /\ Reopened(i).owner = i.owner
  BY <1>1 DEF Reopened
<1>4. Reopened(i).migrated
  BY <1>1 DEF Reopened
<1>5. ~Exhausted(Reopened(i))
  BY <1>3, MaxAttemptsNat DEF Exhausted
<1>6. i.owner = "none"
  BY DEF GoodItems
<1> QED BY <1>2, <1>3, <1>4, <1>5, <1>6 DEF GoodItems, Owned

LEMMA ResettledKeeps ==
  ASSUME NEW r \in Reviews, NEW i \in GoodItems, NEW reopen, NEW close,
         r \in reopen \cup close => i.st \in {"manual-review", "dead-letter"} /\ ~i.migrated
  PROVE  /\ Resettled(r, i, reopen, close) \in GoodItems
         /\ Stands(i, Resettled(r, i, reopen, close))
         /\ Owned(Resettled(r, i, reopen, close)) => Owned(i)
<1>1. CASE order[r] \notin Results
  <2>1. Resettled(r, i, reopen, close) = i
    BY <1>1 DEF Resettled
  <2> QED BY <2>1, KeepsSame DEF Keeps
<1>2. CASE order[r] = "completed"
  <2>1. Resettled(r, i, reopen, close) = CompleteOccurrence(i, "completed")
    BY <1>2 DEF Resettled, Results
  <2>2. Keeps(i, CompleteOccurrence(i, "completed"))
    BY CompleteOccurrenceKeeps
  <2> QED BY <2>1, <2>2 DEF Keeps
<1>3. CASE order[r] \in Results /\ order[r] # "completed" /\ r \in close
  <2> DEFINE j == [Close(i, "completed") EXCEPT !.migrated = TRUE]
  <2>1. Resettled(r, i, reopen, close) = j
    BY <1>3 DEF Resettled
  <2>2. i \in Items
    BY DEF GoodItems
  <2>3. Close(i, "completed") \in Items /\ Close(i, "completed").st = "completed"
    BY <2>2, Values DEF Close
  <2>4. j \in Items /\ j.st = "completed" /\ j.owner = "none"
    BY <2>2, <2>3, Values DEF Close
  <2>5. j.migrated
    BY <2>3
  <2> HIDE DEF j
  <2>6. j \in GoodItems /\ ~Owned(j)
    BY <2>4 DEF GoodItems, Owned
  <2>7. Stands(i, j)
    BY <2>5, <1>3 DEF Stands
  <2> QED BY <2>1, <2>6, <2>7
<1>4. CASE order[r] \in Results /\ order[r] # "completed" /\ r \notin close
  <2> DEFINE j == IF r \in reopen THEN Reopened(i) ELSE i
             k == RetryOccurrence(j, order[r], Delay(i.attempt))
  <2>1. Resettled(r, i, reopen, close) = k
    BY <1>4 DEF Resettled
  <2>2. j \in GoodItems /\ (Owned(j) => Owned(i))
    BY ReopenedGood
  <2>3. Stands(i, j)
    <3>1. CASE r \in reopen
      BY <3>1, ReopenedGood DEF Stands
    <3>2. CASE r \notin reopen
      BY <3>2 DEF Stands
    <3> QED BY <3>1, <3>2
  <2> HIDE DEF j
  <2>4. Keeps(j, k)
    BY <2>2, RetryOccurrenceKeeps, DelayWaits
  <2> HIDE DEF k
  <2>5. k \in GoodItems /\ Stands(j, k) /\ (Owned(k) => Owned(j))
    BY <2>4 DEF Keeps
  <2> QED BY <2>1, <2>2, <2>3, <2>5, StandsTransitive
<1> QED BY <1>1, <1>2, <1>3, <1>4

LEMMA ClosedByLedgerKeeps ==
  ASSUME NEW r \in Reviews, NEW i \in GoodItems
  PROVE  Keeps(i, ClosedByLedger(r, i))
BY KeepsSame, CompleteOccurrenceKeeps DEF ClosedByLedger

-----------------------------------------------------------------------------
(* Every step on every item *)

\* An item is taken only by adopting its work order or for a call of the drain.
MovesTo(r, j) == /\ j \in GoodItems
                 /\ Stands(item[r], j)
                 /\ Owned(j) => Owned(item[r]) \/ order[r] = "open" \/ call'[r] = "admit"

LEMMA KeepsMoves ==
  ASSUME NEW r \in Reviews, NEW j, Keeps(item[r], j)
  PROVE  MovesTo(r, j)
BY DEF Keeps, MovesTo

LEMMA OneItemMoves ==
  ASSUME ItemsGood, NEW r \in Reviews, NEW j, MovesTo(r, j),
         item' = [item EXCEPT ![r] = j]
  PROVE  item' \in [Reviews -> Items] /\ \A q \in Reviews : MovesTo(q, item'[q])
<1>1. item'[r] = j /\ \A q \in Reviews \ {r} : item'[q] = item[q]
  BY DEF ItemsGood
<1>2. \A q \in Reviews : MovesTo(q, item[q])
  BY KeepsSame, KeepsMoves DEF ItemsGood
<1>3. item' \in [Reviews -> GoodItems]
  BY DEF ItemsGood, MovesTo
<1> QED BY <1>1, <1>2, <1>3 DEF GoodItems

LEMMA StartDrainMoves ==
  ASSUME ItemsGood, StartDrain
  PROVE  \A q \in Reviews : MovesTo(q, item'[q])
<1>1. PICK reopen \in SUBSET Recoverable, close \in SUBSET Recoverable :
        item' = [r \in Reviews |->
                   ClosedByLedger(r, Resettled(r, Listed(Adopted(r)), reopen, close))]
  BY DEF StartDrain
<1> TAKE q \in Reviews
<1> DEFINE i == item[q]
           a == Adopted(q)
           l == Listed(a)
           e == Resettled(q, l, reopen, close)
           c == ClosedByLedger(q, e)
<1>2. item'[q] = c
  BY <1>1
<1>3. /\ i \in GoodItems /\ a \in GoodItems /\ Stands(i, a) /\ a.migrated = i.migrated
      /\ (Owned(a) => Owned(i) \/ order[q] = "open")
  BY AdoptedKeeps DEF ItemsGood
<1>4. Keeps(a, l)
  BY <1>3, ListedKeeps
<1>5. l \in GoodItems /\ Stands(a, l) /\ l.migrated = a.migrated /\ (Owned(l) => Owned(a))
  BY <1>4 DEF Keeps
<1>6. q \in reopen \cup close => l.st \in {"manual-review", "dead-letter"} /\ ~l.migrated
  <2>1. q \in Recoverable => l.st \in {"manual-review", "dead-letter"} /\ ~item[q].migrated
    BY DEF Recoverable
  <2> HIDE DEF l, a
  <2> QED BY <1>1, <1>3, <1>5, <2>1
<1> HIDE DEF l, a, i
<1>7. e \in GoodItems /\ Stands(l, e) /\ (Owned(e) => Owned(l))
  BY <1>5, <1>6, ResettledKeeps
<1> HIDE DEF e
<1>8. Keeps(e, c)
  BY <1>7, ClosedByLedgerKeeps
<1> HIDE DEF c
<1>9. c \in GoodItems /\ Stands(e, c) /\ (Owned(c) => Owned(e))
  BY <1>8 DEF Keeps
<1>10. Stands(i, c)
  BY <1>3, <1>5, <1>7, <1>9, StandsTransitive
<1> QED BY <1>2, <1>3, <1>5, <1>7, <1>9, <1>10 DEF MovesTo, i

LEMMA DeferAllMoves ==
  ASSUME ItemsGood, DeferAll
  PROVE  \A q \in Reviews : MovesTo(q, item'[q])
<1>1. PICK deferral \in Deferrals, put \in SUBSET Reviews :
        /\ item' = [r \in Reviews |-> IF r \in put THEN Deferred(Listed(item[r]), deferral)
                                      ELSE Listed(item[r])]
        /\ \A r \in put : Listed(item[r]).st \in Waiting
  <2>1. PICK deferral \in Deferrals :
          LET level(w) == {r \in Reviews : Listed(item[r]).st \in Waiting
                                           /\ Listed(item[r]).wait = w}
              earlier == UNION {level(w) : w \in 0 .. deferral.wait - 1}
          IN \E same \in SUBSET level(deferral.wait) :
               item' = [r \in Reviews |-> IF r \in earlier \cup same
                                         THEN Deferred(Listed(item[r]), deferral)
                                         ELSE Listed(item[r])]
    BY DEF DeferAll
  <2> DEFINE level(w) == {r \in Reviews : Listed(item[r]).st \in Waiting
                                          /\ Listed(item[r]).wait = w}
             earlier == UNION {level(w) : w \in 0 .. deferral.wait - 1}
  <2>2. PICK same \in SUBSET level(deferral.wait) :
          item' = [r \in Reviews |-> IF r \in earlier \cup same
                                    THEN Deferred(Listed(item[r]), deferral)
                                    ELSE Listed(item[r])]
    BY <2>1
  <2>3. earlier \cup same \in SUBSET Reviews
    BY <2>2
  <2>4. \A r \in earlier \cup same : Listed(item[r]).st \in Waiting
    BY <2>2
  <2> QED BY <2>2, <2>3, <2>4
<1> TAKE q \in Reviews
<1> DEFINE l == Listed(item[q])
<1>2. item[q] \in GoodItems
  BY DEF ItemsGood
<1>3. Keeps(item[q], l)
  BY <1>2, ListedKeeps
<1>4. CASE q \notin put
  BY <1>1, <1>3, <1>4, KeepsMoves
<1>5. CASE q \in put
  <2>1. item'[q] = Deferred(l, deferral) /\ l.st \in Waiting
    BY <1>1, <1>5
  <2> HIDE DEF l
  <2>2. l \in GoodItems /\ Stands(item[q], l) /\ (Owned(l) => Owned(item[q]))
    BY <1>3 DEF Keeps
  <2>3. Keeps(l, Deferred(l, deferral))
    BY <2>1, <2>2, DeferredKeeps
  <2>4. /\ Deferred(l, deferral) \in GoodItems /\ Stands(l, Deferred(l, deferral))
        /\ (Owned(Deferred(l, deferral)) => Owned(l))
    BY <2>3 DEF Keeps
  <2>5. Stands(item[q], Deferred(l, deferral))
    BY <1>2, <2>2, <2>4, StandsTransitive
  <2> QED BY <2>1, <2>2, <2>4, <2>5 DEF MovesTo
<1> QED BY <1>4, <1>5

LEMMA RunBatchMoves ==
  ASSUME ItemsGood, RunBatch
  PROVE  \A q \in Reviews : MovesTo(q, item'[q])
<1>1. PICK selected \in SUBSET Ready, refused \in SUBSET Ready, deferral \in Deferrals :
        /\ refused \subseteq selected
        /\ item' = [r \in Reviews |->
                     IF r \in refused THEN Deferred(item[r], deferral)
                     ELSE IF r \in selected THEN Taken(item[r]) ELSE Listed(item[r])]
        /\ call' = [r \in Reviews |->
                     IF r \in selected \ refused THEN "admit" ELSE call[r]]
  <2>1. PICK n \in 1..Free :
          \E refused \in SUBSET Selected(n), deferral \in Deferrals :
            /\ item' = [r \in Reviews |->
                          IF r \in refused THEN Deferred(item[r], deferral)
                          ELSE IF r \in Selected(n) THEN Taken(item[r]) ELSE Listed(item[r])]
            /\ call' = [r \in Reviews |->
                          IF r \in Selected(n) \ refused THEN "admit" ELSE call[r]]
    BY DEF RunBatch
  <2>2. PICK refused \in SUBSET Selected(n), deferral \in Deferrals :
          /\ item' = [r \in Reviews |->
                        IF r \in refused THEN Deferred(item[r], deferral)
                        ELSE IF r \in Selected(n) THEN Taken(item[r]) ELSE Listed(item[r])]
          /\ call' = [r \in Reviews |->
                        IF r \in Selected(n) \ refused THEN "admit" ELSE call[r]]
    BY <2>1
  <2>3. Selected(n) \in SUBSET Ready
    BY DEF Selected, Oldest
  <2>4. refused \in SUBSET Ready /\ refused \subseteq Selected(n)
    BY <2>3
  <2> QED BY <2>2, <2>3, <2>4
<1> TAKE q \in Reviews
<1>2. item[q] \in GoodItems
  BY DEF ItemsGood
<1>3. q \in selected => item[q].st \in Waiting
  BY DEF Ready, Due
<1>4. CASE q \in refused
  BY <1>1, <1>2, <1>3, <1>4, DeferredKeeps, KeepsMoves
<1>5. CASE q \in selected \ refused
  BY <1>1, <1>2, <1>3, <1>5, TakenKeeps DEF MovesTo
<1>6. CASE q \notin selected
  BY <1>1, <1>2, <1>6, ListedKeeps, KeepsMoves
<1> QED BY <1>4, <1>5, <1>6

LEMMA Unmoved ==
  ASSUME ItemsGood, item' = item
  PROVE  \A q \in Reviews : MovesTo(q, item'[q])
BY KeepsSame, KeepsMoves DEF ItemsGood

LEMMA ListedMoves ==
  ASSUME ItemsGood, item' = [r \in Reviews |-> Listed(item[r])]
  PROVE  \A q \in Reviews : MovesTo(q, item'[q])
BY ListedKeeps, KeepsMoves DEF ItemsGood

LEMMA OneReviewMoves ==
  ASSUME ItemsGood, NEW r \in Reviews,
         \/ Enqueue(r) \/ RefuseCall(r) \/ Report(r) \/ Throw(r) \/ Elapse(r) \/ Overdue(r)
  PROVE  \A q \in Reviews : MovesTo(q, item'[q])
<1> DEFINE i == item[r]
<1>1. i \in GoodItems /\ i \in Items
  BY DEF ItemsGood, GoodItems
<1>2. SUFFICES \E j : Keeps(i, j) /\ item' = [item EXCEPT ![r] = j]
  BY KeepsMoves, OneItemMoves
<1>3. CASE Enqueue(r)
  <2> DEFINE j == [i EXCEPT !.st = "pending"]
  <2>1. item' = [item EXCEPT ![r] = j] /\ i = Absent
    BY <1>3 DEF Enqueue, ItemsGood
  <2>3. i.st = "absent" /\ i.attempt = 0 /\ i.owner = "none"
    BY <2>1 DEF Absent
  <2>2. /\ j \in Items /\ j.st = "pending" /\ j.attempt = 0 /\ j.owner = "none"
        /\ j.migrated = i.migrated
    BY <1>1, <2>3, Values
  <2> HIDE DEF j, i
  <2>4. j \in GoodItems
    BY <2>2, MaxAttemptsNat DEF GoodItems, Exhausted
  <2>5. Stands(i, j)
    BY <1>1, <2>2, <2>3 DEF Stands
  <2>6. ~Owned(j)
    BY <2>2 DEF Owned
  <2> QED BY <2>1, <2>2, <2>4, <2>5, <2>6 DEF Keeps
<1>4. CASE RefuseCall(r)
  <2> DEFINE j == IF Owned(i) THEN RetryWait(i, 1, "other") ELSE i
  <2>1. item' = [item EXCEPT ![r] = j]
    BY <1>4 DEF RefuseCall, ItemsGood
  <2>2. CASE Owned(i)
    <3>1. i.st \notin Terminal
      BY <2>2 DEF Owned
    <3> QED BY <1>1, <2>1, <2>2, <3>1, RetryWaitKeeps, Values
  <2>3. CASE ~Owned(i)
    BY <1>1, <2>1, <2>3, KeepsSame
  <2> QED BY <2>2, <2>3
<1>5. CASE Report(r) \/ Throw(r)
  <2>1. PICK st : item' = [item EXCEPT ![r] = Reported(i, st)]
    BY <1>5 DEF Report, Throw, ItemsGood
  <2> QED BY <1>1, <2>1, ReportedKeeps
<1>6. CASE Elapse(r)
  <2> DEFINE j == [i EXCEPT !.wait = @ - 1]
  <2>1. item' = [item EXCEPT ![r] = j] /\ i.st \in Waiting /\ i.wait > 0
    BY <1>6 DEF Elapse, ItemsGood
  <2>2. i.wait - 1 \in Waits
    BY <1>1, <2>1 DEF Waits
  <2>3. /\ j \in Items /\ j.st = i.st /\ j.attempt = i.attempt /\ j.migrated = i.migrated
        /\ j.owner = i.owner
    BY <1>1, <2>2
  <2> HIDE DEF j, i
  <2>4. j \in GoodItems
    BY <1>1, <2>3 DEF GoodItems, Exhausted
  <2>5. Stands(i, j) /\ ~Owned(j)
    BY <1>1, <2>1, <2>3 DEF Stands, Owned
  <2> QED BY <2>1, <2>3, <2>4, <2>5 DEF Keeps
<1>7. CASE Overdue(r)
  <2> DEFINE j == [i EXCEPT !.owner = "late"]
  <2>1. item' = [item EXCEPT ![r] = j] /\ i.st = "running" /\ i.owner = "live"
    BY <1>7 DEF Overdue, ItemsGood
  <2>2. j \in Items /\ j.st = i.st /\ j.attempt = i.attempt /\ j.migrated = i.migrated
    BY <1>1, Values
  <2> HIDE DEF j, i
  <2>3. j \in GoodItems
    BY <1>1, <2>1, <2>2 DEF GoodItems, Exhausted
  <2>4. Stands(i, j) /\ Owned(i)
    BY <1>1, <2>1, <2>2 DEF Stands, Owned
  <2> QED BY <2>1, <2>2, <2>3, <2>4 DEF Keeps
<1> QED BY <1>3, <1>4, <1>5, <1>6, <1>7

LEMMA RestartMoves ==
  ASSUME ItemsGood, Restart
  PROVE  \A q \in Reviews : MovesTo(q, item'[q])
<1> TAKE q \in Reviews
<1> DEFINE i == item[q]
           j == [i EXCEPT !.owner = "dead"]
<1>1. item'[q] = IF i.owner = "none" THEN i ELSE j
  BY DEF Restart
<1>2. i \in GoodItems /\ i \in Items
  BY DEF ItemsGood, GoodItems
<1>3. j \in Items /\ j.st = i.st /\ j.attempt = i.attempt /\ j.migrated = i.migrated
      /\ j.owner = "dead"
  BY <1>2, Values
<1>4. CASE i.owner = "none"
  BY <1>1, <1>2, <1>4, KeepsSame, KeepsMoves
<1>5. CASE i.owner # "none"
  <2> HIDE DEF j, i
  <2>1. i.st = "running"
    BY <1>2, <1>5 DEF GoodItems
  <2>2. j \in GoodItems
    BY <1>2, <1>3, <2>1 DEF GoodItems, Exhausted
  <2>3. ~Owned(j) /\ Stands(i, j)
    BY <1>3, <2>1 DEF Owned, Stands
  <2>4. Keeps(i, j)
    BY <1>3, <2>2, <2>3 DEF Keeps
  <2> QED BY <1>1, <1>5, <2>4, KeepsMoves DEF i
<1> QED BY <1>4, <1>5

LEMMA ItemStep ==
  ASSUME ItemsGood, [Next]_vars
  PROVE  ItemsGood' /\ \A q \in Reviews : MovesTo(q, item'[q])
<1>1. CASE UNCHANGED item
  BY <1>1, Unmoved DEF ItemsGood
<1>2. CASE \E r \in Reviews : \/ Dispatch(r) \/ EndTurn(r) \/ Settle(r) \/ Timeout(r)
                              \/ Summarize(r) \/ Age(r) \/ Recover(r) \/ Repair(r)
  <2>1. UNCHANGED item
    BY <1>2 DEF Dispatch, EndTurn, Settle, Timeout, Summarize, Age, Recover, Repair
  <2> QED BY <1>1, <2>1
<1>3. CASE \E r \in Reviews : \/ Enqueue(r) \/ RefuseCall(r) \/ Report(r) \/ Throw(r)
                              \/ Elapse(r) \/ Overdue(r)
  <2>1. item' = [q \in Reviews |-> item'[q]]
    BY <1>3 DEF ItemsGood, Enqueue, RefuseCall, Report, Throw, Elapse, Overdue
  <2>2. \A q \in Reviews : MovesTo(q, item'[q])
    BY <1>3, OneReviewMoves
  <2> QED BY <2>1, <2>2 DEF ItemsGood, MovesTo
<1>4. CASE DeferAll \/ StartDrain \/ RunBatch \/ Restart
  <2>1. item' = [q \in Reviews |-> item'[q]]
    BY <1>4 DEF DeferAll, StartDrain, RunBatch, Restart
  <2>2. \A q \in Reviews : MovesTo(q, item'[q])
    BY <1>4, DeferAllMoves, StartDrainMoves, RunBatchMoves, RestartMoves
  <2> QED BY <2>1, <2>2 DEF ItemsGood, MovesTo
<1>5. CASE NothingToRun \/ Overview
  <2>1. item' = [q \in Reviews |-> Listed(item[q])]
    BY <1>5 DEF NothingToRun, Overview
  <2>2. \A q \in Reviews : MovesTo(q, item'[q])
    BY <2>1, ListedMoves
  <2> QED BY <2>1, <2>2 DEF ItemsGood, MovesTo
<1> QED BY <1>1, <1>2, <1>3, <1>4, <1>5 DEF Next, vars

-----------------------------------------------------------------------------
(* Types *)

\* The variables beside the queue.
OtherTypes ==
  /\ order \in [Reviews -> {"none"} \cup Unsettled \cup Results]
  /\ leased \subseteq Reviews /\ turn \subseteq Reviews /\ stray \subseteq Reviews
  /\ ledger \in [Reviews -> {"open", "failed", "success", "blocked"}]
  /\ call \in [Reviews -> {"none", "admit", "turn", "report", "report manual"}]
  /\ drain \in [at: {"idle", "wait", "run"}, due: SUBSET Reviews,
                active: SUBSET {RepoOf[r] : r \in Reviews}]
  /\ troubles \in 0..MaxTroubles

LEMMA InitTypes == Init => ItemsGood /\ OtherTypes
<1> SUFFICES ASSUME Init PROVE ItemsGood /\ OtherTypes
  OBVIOUS
<1>1. Absent \in Items
  <2>1. 0 \in Attempts
    BY MaxAttemptsNat DEF Attempts
  <2> QED BY <2>1, Values DEF Absent
<1>2. Absent.st = "absent" /\ Absent.owner = "none"
  BY DEF Absent
<1>3. ItemsGood
  BY <1>1, <1>2 DEF Init, ItemsGood, GoodItems
<1>4. drain \in [at: {"idle", "wait", "run"}, due: SUBSET Reviews,
                active: SUBSET {RepoOf[r] : r \in Reviews}]
  BY DEF Init, NotDraining
<1>5. troubles \in 0..MaxTroubles
  BY ReviewAssumption DEF Init
<1>6. /\ order \in [Reviews -> {"none"} \cup Unsettled \cup Results]
      /\ leased \subseteq Reviews /\ turn \subseteq Reviews /\ stray \subseteq Reviews
      /\ ledger \in [Reviews -> {"open", "failed", "success", "blocked"}]
      /\ call \in [Reviews -> {"none", "admit", "turn", "report", "report manual"}]
  BY DEF Init
<1> QED BY <1>3, <1>4, <1>5, <1>6 DEF OtherTypes

LEMMA TroublesStep ==
  ASSUME OtherTypes, [Next]_vars
  PROVE  troubles' \in 0..MaxTroubles
<1>1. MaxTroubles \in Nat /\ troubles \in 0..MaxTroubles
  BY ReviewAssumption DEF OtherTypes
<1>2. \/ troubles' = troubles
      \/ troubles' = troubles + 1 /\ troubles < MaxTroubles
  <2>1. CASE RunBatch
    <3>1. PICK refused : /\ refused # {} => troubles < MaxTroubles
                         /\ troubles' = troubles + (IF refused = {} THEN 0 ELSE 1)
      BY <2>1 DEF RunBatch
    <3> QED BY <1>1, <3>1
  <2>2. CASE DeferAll \/ Restart
    BY <2>2 DEF DeferAll, Restart
  <2>3. CASE \E r \in Reviews : RefuseCall(r) \/ Timeout(r) \/ Throw(r) \/ Overdue(r)
    BY <2>3 DEF RefuseCall, Timeout, Throw, Overdue
  <2>4. CASE UNCHANGED troubles
    BY <2>4
  <2> QED BY <2>1, <2>2, <2>3, <2>4 DEF Next, vars, Enqueue, Dispatch, EndTurn, Settle, Report,
         Summarize, Age, Recover, Repair, Elapse, StartDrain, NothingToRun, Overview
<1>3. \A t \in 0..MaxTroubles : t < MaxTroubles => t + 1 \in 0..MaxTroubles
  BY <1>1
<1> QED BY <1>1, <1>2, <1>3

LEMMA DrainStep ==
  ASSUME OtherTypes, [Next]_vars
  PROVE  drain' \in [at: {"idle", "wait", "run"}, due: SUBSET Reviews,
                      active: SUBSET {RepoOf[r] : r \in Reviews}]
<1> DEFINE D == [at: {"idle", "wait", "run"}, due: SUBSET Reviews,
                 active: SUBSET {RepoOf[r] : r \in Reviews}]
<1>1. NotDraining \in D /\ [NotDraining EXCEPT !.at = "run"] \in D
  BY DEF NotDraining
<1>2. CASE StartDrain
  <2>1. drain' = [at |-> "wait", due |-> {r \in Reviews : Due(Adopted(r))},
                  active |-> ActiveRepositories]
    BY <1>2 DEF StartDrain
  <2>2. /\ {r \in Reviews : Due(Adopted(r))} \in SUBSET Reviews
        /\ ActiveRepositories \in SUBSET {RepoOf[r] : r \in Reviews}
    BY DEF ActiveRepositories
  <2> QED BY <2>1, <2>2
<1>3. CASE ~StartDrain
  <2>1. drain' \in {drain, NotDraining, [NotDraining EXCEPT !.at = "run"]}
    BY <1>3 DEF Next, vars, Enqueue, RefuseCall, Dispatch, EndTurn, Settle, Timeout, Report,
       Throw, Summarize, Age, Recover, Repair, Elapse, Overdue, DeferAll, NothingToRun, RunBatch,
       AfterCall, Overview, Restart
  <2> QED BY <1>1, <2>1 DEF OtherTypes
<1> QED BY <1>2, <1>3

LEMMA OrderStep ==
  ASSUME OtherTypes, [Next]_vars
  PROVE  /\ order' \in [Reviews -> {"none"} \cup Unsettled \cup Results]
         /\ ledger' \in [Reviews -> {"open", "failed", "success", "blocked"}]
         /\ leased' \subseteq Reviews
<1>1. \A result : Recorded(result) \in {"open", "failed", "success", "blocked"}
  BY DEF Recorded
<1>2. CASE \E r \in Reviews, result \in Results : SettleOrder(r, result)
  <2>1. PICK r \in Reviews, result \in Results : SettleOrder(r, result)
    BY <1>2
  <2>2. order' = [order EXCEPT ![r] = result] /\ leased' = leased \ {r}
        /\ ledger' = [ledger EXCEPT ![r] = Recorded(result)]
    BY <2>1 DEF SettleOrder
  <2> QED BY <1>1, <2>2 DEF OtherTypes
<1>3. CASE \E r \in Reviews : Settle(r) \/ Recover(r)
  BY <1>2, <1>3 DEF Settle, Recover
<1>4. CASE \E r \in Reviews : Timeout(r)
  BY <1>2, <1>4 DEF Timeout, Results
<1>5. CASE \E r \in Reviews : Dispatch(r)
  <2>1. PICK r \in Reviews : Dispatch(r)
    BY <1>5
  <2>2. order' \in [Reviews -> {"none"} \cup Unsettled \cup Results]
    BY <2>1 DEF Dispatch, OtherTypes, Unsettled
  <2>3. ledger' \in [Reviews -> {"open", "failed", "success", "blocked"}]
    BY <2>1 DEF Dispatch, OtherTypes
  <2>4. leased' \subseteq Reviews
    BY <2>1 DEF Dispatch, OtherTypes
  <2> QED BY <2>2, <2>3, <2>4
<1>6. CASE \E r \in Reviews : Repair(r)
  BY <1>6 DEF Repair, OtherTypes
<1>7. CASE \E r \in Reviews : Summarize(r) \/ Age(r)
  BY <1>7 DEF Summarize, Age, OtherTypes, Unsettled
<1>8. CASE UNCHANGED <<order, ledger, leased>>
  BY <1>8 DEF OtherTypes
<1> QED BY <1>3, <1>4, <1>5, <1>6, <1>7, <1>8 DEF Next, vars, Enqueue, RefuseCall, EndTurn, Report,
       Throw, Elapse, Overdue, DeferAll, StartDrain, NothingToRun, RunBatch, Overview, Restart

LEMMA CallStep ==
  ASSUME OtherTypes, [Next]_vars
  PROVE  /\ call' \in [Reviews -> {"none", "admit", "turn", "report", "report manual"}]
         /\ turn' \subseteq Reviews /\ stray' \subseteq Reviews
<1>1. CASE \E r \in Reviews : \/ RefuseCall(r) \/ Dispatch(r) \/ EndTurn(r) \/ Settle(r)
                              \/ Timeout(r) \/ Report(r) \/ Throw(r)
  <2>1. PICK r \in Reviews : \/ RefuseCall(r) \/ Dispatch(r) \/ EndTurn(r) \/ Settle(r)
                            \/ Timeout(r) \/ Report(r) \/ Throw(r)
    BY <1>1
  <2>2. \/ call' = call
        \/ \E c \in {"none", "turn", "report", "report manual"} : call' = [call EXCEPT ![r] = c]
    BY <2>1 DEF RefuseCall, Dispatch, EndTurn, Settle, Timeout, Report, Throw
  <2>3. turn' \subseteq turn \cup {r} /\ stray' \subseteq stray \cup {r}
    BY <2>1 DEF RefuseCall, Dispatch, EndTurn, Settle, Timeout, Report, Throw
  <2> QED BY <2>2, <2>3 DEF OtherTypes
<1>2. CASE RunBatch \/ Restart
  BY <1>2 DEF OtherTypes, RunBatch, Restart
<1>3. CASE UNCHANGED <<call, turn, stray>>
  BY <1>3 DEF OtherTypes
<1> QED BY <1>1, <1>2, <1>3 DEF Next, vars, Enqueue, Summarize, Age, Recover, Repair, Elapse,
       Overdue, DeferAll, StartDrain, NothingToRun, Overview

\* The inductive type invariant: beside its type, every item that waits has an
\* attempt left and only a running item is owned.
THEOREM TypeInvariant == Spec => [](ItemsGood /\ OtherTypes)
<1>1. ItemsGood /\ OtherTypes /\ [Next]_vars => (ItemsGood /\ OtherTypes)'
  BY ItemStep, TroublesStep, DrainStep, OrderStep, CallStep DEF OtherTypes
<1> QED BY InitTypes, <1>1, PTL DEF Spec

\* Every variable keeps to its type, and no item is attempted more often than
\* MaxAttempts: the queue's counters and states, for any reviews and troubles.
THEOREM TypeCorrect == Spec => []TypeOK
<1>1. ItemsGood /\ OtherTypes => TypeOK
  BY DEF ItemsGood, GoodItems, OtherTypes, TypeOK
<1> QED BY <1>1, TypeInvariant, PTL

-----------------------------------------------------------------------------
(* Calls and work orders *)

\* A drain awaits its sessions only while none of its calls is under way, and no
\* order of a repository it did not find active is listed meanwhile.
Drained == /\ drain.at # "run" => \A r \in Reviews : call[r] = "none"
           /\ drain.at = "wait" => ActiveRepositories \subseteq drain.active

\* An admitted call is the only business of its repository.
Admitted == \A r, s \in Reviews :
              call[r] = "admit" /\ RepoOf[r] = RepoOf[s] => order[s] # "open"

OneCall == \A r, s \in Reviews :
             call[r] # "none" /\ call[s] # "none" /\ RepoOf[r] = RepoOf[s] => r = s

OneOrder == \A r, s \in Reviews :
              order[r] = "open" /\ order[s] = "open" /\ RepoOf[r] = RepoOf[s] => r = s

\* A call beyond its admission has a work order.
Ordered == \A r \in Reviews : call[r] \notin {"none", "admit"} => order[r] # "none"

CallsInv == Drained /\ Admitted /\ OneCall /\ OneOrder /\ Ordered

TypesInv == ItemsGood /\ OtherTypes

LEMMA InitCalls == Init => CallsInv
BY DEF Init, NotDraining, CallsInv, Drained, Admitted, OneCall, OneOrder, Ordered

LEMMA RunBatchCalls ==
  ASSUME TypesInv, CallsInv, RunBatch
  PROVE  CallsInv'
<1>1. PICK n \in 1..Free :
        \E refused \in SUBSET Selected(n) :
          /\ drain.at = "wait"
          /\ call' = [r \in Reviews |->
                        IF r \in Selected(n) \ refused THEN "admit" ELSE call[r]]
          /\ drain' = IF Selected(n) = refused THEN NotDraining
                      ELSE [NotDraining EXCEPT !.at = "run"]
          /\ UNCHANGED <<order, leased, turn, stray, ledger>>
  BY DEF RunBatch
<1>2. PICK refused \in SUBSET Selected(n) :
        /\ drain.at = "wait"
        /\ call' = [r \in Reviews |->
                      IF r \in Selected(n) \ refused THEN "admit" ELSE call[r]]
        /\ drain' = IF Selected(n) = refused THEN NotDraining
                    ELSE [NotDraining EXCEPT !.at = "run"]
        /\ UNCHANGED <<order, leased, turn, stray, ledger>>
  BY <1>1
<1>3. /\ \A r \in Reviews : call[r] = "none"
      /\ ActiveRepositories \subseteq drain.active
  BY <1>2 DEF CallsInv, Drained
<1>4. \A r \in Reviews : call'[r] \in {"none", "admit"}
  BY <1>2, <1>3
<1>5. \A r \in Reviews : call'[r] = "admit" => r \in Selected(n)
  BY <1>2, <1>3
<1>6. \A r, s \in Reviews : r \in Selected(n) /\ RepoOf[r] = RepoOf[s] => order[s] # "open"
  BY <1>3 DEF Selected, ActiveRepositories
<1>7. \A r, s \in Reviews :
        r \in Selected(n) /\ s \in Selected(n) /\ RepoOf[r] = RepoOf[s] => r = s
  BY ReviewAssumption DEF Selected
<1>8. Drained'
  <2>1. drain'.at \in {"idle", "run"}
    BY <1>2 DEF NotDraining
  <2>2. drain'.at # "run" => Selected(n) = refused
    BY <1>2 DEF NotDraining
  <2>3. Selected(n) = refused => \A r \in Reviews : call'[r] = "none"
    BY <1>2, <1>3
  <2> QED BY <2>1, <2>2, <2>3 DEF Drained
<1>9. Admitted' /\ OneCall'
  BY <1>2, <1>4, <1>5, <1>6, <1>7 DEF Admitted, OneCall
<1>10. OneOrder' /\ Ordered'
  BY <1>2, <1>4 DEF CallsInv, OneOrder, Ordered
<1> QED BY <1>8, <1>9, <1>10 DEF CallsInv

\* What an end of a call does to the drain.
LEMMA AfterCallDrained ==
  ASSUME TypesInv, CallsInv, NEW r \in Reviews, call[r] # "none",
         call' = [call EXCEPT ![r] = "none"], AfterCall(r)
  PROVE  /\ drain'.at # "wait"
         /\ drain'.at # "run" => \A s \in Reviews : call'[s] = "none"
<1>1. drain.at = "run"
  BY DEF CallsInv, Drained
<1>2. call \in [Reviews -> {"none", "admit", "turn", "report", "report manual"}]
  BY DEF TypesInv, OtherTypes
<1>3. CASE \A s \in Reviews \ {r} : call[s] = "none"
  <2>1. drain'.at = "idle"
    BY <1>3 DEF AfterCall, NotDraining
  <2> QED BY <1>2, <1>3, <2>1
<1>4. CASE ~ \A s \in Reviews \ {r} : call[s] = "none"
  <2>1. drain' = drain
    BY <1>4 DEF AfterCall
  <2> QED BY <1>1, <2>1
<1> QED BY <1>3, <1>4

LEMMA EndCalls ==
  ASSUME TypesInv, CallsInv, NEW r \in Reviews, RefuseCall(r) \/ Report(r) \/ Throw(r)
  PROVE  CallsInv'
<1>1. /\ call[r] # "none" /\ call' = [call EXCEPT ![r] = "none"] /\ AfterCall(r)
      /\ UNCHANGED order
  BY DEF RefuseCall, Report, Throw
<1>2. call \in [Reviews -> {"none", "admit", "turn", "report", "report manual"}]
  BY DEF TypesInv, OtherTypes
<1>3. \A s \in Reviews : call'[s] = IF s = r THEN "none" ELSE call[s]
  BY <1>1, <1>2
<1>4. Drained'
  BY <1>1, AfterCallDrained DEF Drained
<1>5. Admitted' /\ OneCall' /\ OneOrder' /\ Ordered'
  BY <1>1, <1>3 DEF CallsInv, Admitted, OneCall, OneOrder, Ordered
<1> QED BY <1>4, <1>5 DEF CallsInv

LEMMA DispatchCalls ==
  ASSUME TypesInv, CallsInv, NEW r \in Reviews, Dispatch(r)
  PROVE  CallsInv'
<1>1. /\ call[r] = "admit" /\ order' = [order EXCEPT ![r] = "open"]
      /\ call' = [call EXCEPT ![r] = "turn"] /\ drain' = drain
  BY DEF Dispatch
<1>2. \A s \in Reviews : /\ call'[s] = IF s = r THEN "turn" ELSE call[s]
                         /\ order'[s] = IF s = r THEN "open" ELSE order[s]
  BY <1>1 DEF TypesInv, OtherTypes
<1>3. Drained'
  <2>1. drain.at = "run"
    BY <1>1 DEF CallsInv, Drained
  <2> QED BY <1>1, <2>1 DEF Drained
<1>4. Admitted' /\ OneCall' /\ Ordered'
  BY <1>1, <1>2 DEF CallsInv, Admitted, OneCall, Ordered
<1>5. OneOrder'
  BY <1>1, <1>2 DEF CallsInv, Admitted, OneOrder
<1> QED BY <1>3, <1>4, <1>5 DEF CallsInv

\* What only takes an order off the list, and admits no call, keeps the invariant.
LEMMA UnlistingCalls ==
  ASSUME CallsInv, drain' = drain,
         \A s \in Reviews :
           /\ order'[s] = "open" => order[s] = "open"
           /\ order[s] # "none" => order'[s] # "none"
           /\ call'[s] # call[s] => /\ call[s] = "turn"
                                   /\ call'[s] \in {"report", "report manual"}
  PROVE  CallsInv'
<1>1. Drained'
  <2>1. ActiveRepositories' \subseteq ActiveRepositories
    BY DEF ActiveRepositories
  <2>2. drain.at # "run" => \A s \in Reviews : call'[s] = "none"
    BY DEF CallsInv, Drained
  <2> QED BY <2>1, <2>2 DEF CallsInv, Drained
<1>2. \A s \in Reviews :
        /\ call'[s] = "admit" => call[s] = "admit"
        /\ call'[s] # "none" => call[s] # "none"
        /\ call'[s] \notin {"none", "admit"} => call[s] \notin {"none", "admit"}
  OBVIOUS
<1>3. Admitted' /\ OneOrder'
  BY <1>2 DEF CallsInv, Admitted, OneOrder
<1>4. OneCall' /\ Ordered'
  BY <1>2 DEF CallsInv, OneCall, Ordered
<1> QED BY <1>1, <1>3, <1>4 DEF CallsInv

LEMMA SettleCalls ==
  ASSUME TypesInv, CallsInv, NEW r \in Reviews, Settle(r) \/ Timeout(r) \/ Recover(r)
  PROVE  CallsInv'
<1>1. PICK result \in Results : order' = [order EXCEPT ![r] = result]
  BY DEF Settle, Timeout, Recover, SettleOrder, Results
<1>2. /\ drain' = drain
      /\ \/ call' = call
         \/ /\ call[r] = "turn"
            /\ \/ call' = [call EXCEPT ![r] = "report"]
               \/ call' = [call EXCEPT ![r] = "report manual"]
  BY DEF Settle, Timeout, Recover
<1>3. \A s \in Reviews : /\ order'[s] = IF s = r THEN result ELSE order[s]
                         /\ call'[s] # call[s] => /\ call[s] = "turn"
                                                 /\ call'[s] \in {"report", "report manual"}
  BY <1>1, <1>2 DEF TypesInv, OtherTypes
<1>4. result \notin {"none", "open"}
  BY DEF Results
<1> QED BY <1>2, <1>3, <1>4, UnlistingCalls

\* A summary or its age takes an order off the list.
LEMMA UnlistCalls ==
  ASSUME TypesInv, CallsInv, NEW r \in Reviews, Summarize(r) \/ Age(r)
  PROVE  CallsInv'
<1>1. /\ drain' = drain /\ call' = call
      /\ \/ order' = [order EXCEPT ![r] = "reported"]
         \/ order' = [order EXCEPT ![r] = "old"]
  BY DEF Summarize, Age
<1>2. \A s \in Reviews : order'[s] = order[s] \/ order'[s] \in {"reported", "old"}
  BY <1>1 DEF TypesInv, OtherTypes
<1> QED BY <1>1, <1>2, UnlistingCalls

LEMMA StartDrainCalls ==
  ASSUME TypesInv, CallsInv, StartDrain
  PROVE  CallsInv'
<1>1. drain.at = "idle" /\ drain'.at = "wait" /\ drain'.active = ActiveRepositories
  BY DEF StartDrain, Idle
<1>2. UNCHANGED <<order, call>>
  BY DEF StartDrain
<1>3. Drained'
  BY <1>1, <1>2 DEF CallsInv, Drained, ActiveRepositories
<1> QED BY <1>2, <1>3 DEF CallsInv, Admitted, OneCall, OneOrder, Ordered

LEMMA CallsStep ==
  ASSUME TypesInv, CallsInv, [Next]_vars
  PROVE  CallsInv'
<1>1. CASE UNCHANGED <<order, call, drain>>
  BY <1>1 DEF CallsInv, Drained, Admitted, OneCall, OneOrder, Ordered, ActiveRepositories
<1>2. CASE NothingToRun \/ Restart
  <2>1. /\ drain'.at = "idle" /\ UNCHANGED order
        /\ \A r \in Reviews : call'[r] = "none"
    BY <1>2 DEF NothingToRun, Restart, NotDraining, CallsInv, Drained
  <2>2. Drained' /\ Admitted' /\ OneCall' /\ Ordered'
    BY <2>1 DEF Drained, Admitted, OneCall, Ordered
  <2>3. OneOrder'
    BY <2>1 DEF CallsInv, OneOrder
  <2> QED BY <2>2, <2>3 DEF CallsInv
<1>3. CASE \E r \in Reviews : \/ Enqueue(r) \/ EndTurn(r) \/ Repair(r) \/ Elapse(r)
                              \/ Overdue(r)
  <2>1. UNCHANGED <<order, call, drain>>
    BY <1>3 DEF Enqueue, EndTurn, Repair, Elapse, Overdue
  <2> QED BY <1>1, <2>1
<1>4. CASE DeferAll \/ Overview
  <2>1. UNCHANGED <<order, call, drain>>
    BY <1>4 DEF DeferAll, Overview
  <2> QED BY <1>1, <2>1
<1>5. CASE UNCHANGED vars
  BY <1>1, <1>5 DEF vars
<1> QED BY <1>2, <1>3, <1>4, <1>5, RunBatchCalls, EndCalls, DispatchCalls, SettleCalls,
           UnlistCalls, StartDrainCalls DEF Next

-----------------------------------------------------------------------------
(* The theorems *)

\* The inductive invariant: typed items with attempts left, at most one call and
\* one listed order for a repository, and a drain that knows every repository with
\* a listed order when it lets a call begin.  An order that is no longer listed,
\* for its worker's summary or its age, takes no part in it.
THEOREM ReviewInvariant == Spec => [](TypesInv /\ CallsInv)
<1>1. Init => TypesInv /\ CallsInv
  BY InitTypes, InitCalls DEF TypesInv
<1>2. TypesInv /\ CallsInv /\ [Next]_vars => (TypesInv /\ CallsInv)'
  BY ItemStep, TroublesStep, DrainStep, OrderStep, CallStep, CallsStep DEF TypesInv, OtherTypes
<1> QED BY <1>1, <1>2, PTL DEF Spec

\* No two workers whose orders are listed as unfinished review one repository: the
\* planner judges by what the drain read before its await, and nothing lists an
\* order of the repository in between.
THEOREM OneReviewAtATime == Spec => []OneReviewPerRepository
<1>1. TypesInv /\ CallsInv => OneReviewPerRepository
  BY DEF TypesInv, OtherTypes, CallsInv, OneOrder, OneReviewPerRepository, Reviewing
<1> QED BY <1>1, ReviewInvariant, PTL

\* A review is never launched over a work order of an earlier launch that is still
\* listed as unfinished.
THEOREM NothingRelaunched == Spec => LaunchedOverNothing
<1>1. TypesInv /\ CallsInv /\ [Next]_vars
      => [\A r \in Reviews : call[r] = "admit" /\ call'[r] = "turn" => order[r] # "open"]_vars
  BY DEF CallsInv, Admitted
<1> QED BY <1>1, ReviewInvariant, PTL DEF Spec, LaunchedOverNothing

\* Decisions stand: through every operation of the queue and both reconciliations
\* a completed or blocked review stays as it is, and another dead end is left
\* once at most.
THEOREM NothingUndone == Spec => DecisionsStand
<1>1. TypesInv /\ [Next]_vars => [\A r \in Reviews : Stands(item[r], item'[r])]_vars
  BY ItemStep DEF TypesInv, MovesTo
<1> QED BY <1>1, ReviewInvariant, PTL DEF Spec, DecisionsStand

\* The steps that take someone from an item leave it to be retried.
LEMMA NotStrandedStep ==
  ASSUME TypesInv, CallsInv, NoStrandedReview, [Next]_vars
  PROVE  NoStrandedReview'
<1> SUFFICES ASSUME NEW r \in Reviews, Owned(item'[r])
             PROVE  call'[r] # "none" \/ order'[r] # "none"
  BY DEF NoStrandedReview
<1>1. order[r] # "none" => order'[r] # "none"
  <2>1. CASE \E s \in Reviews : Settle(s) \/ Timeout(s) \/ Recover(s)
    <3>1. PICK s \in Reviews, result \in Results : order' = [order EXCEPT ![s] = result]
      BY <2>1 DEF Settle, Timeout, Recover, SettleOrder, Results
    <3> QED BY <3>1 DEF Results, TypesInv, OtherTypes
  <2>2. CASE \E s \in Reviews : Dispatch(s)
    BY <2>2 DEF Dispatch, TypesInv, OtherTypes
  <2>3. CASE \E s \in Reviews : Summarize(s) \/ Age(s)
    BY <2>3 DEF Summarize, Age, TypesInv, OtherTypes
  <2>4. CASE UNCHANGED order
    BY <2>4
  <2> QED BY <2>1, <2>2, <2>3, <2>4 DEF Next, vars, Enqueue, RefuseCall, EndTurn, Report, Throw,
         Repair, Elapse, Overdue, DeferAll, StartDrain, NothingToRun, RunBatch, Overview, Restart
<1>2. Owned(item[r]) \/ order[r] = "open" \/ call'[r] = "admit"
  BY ItemStep DEF TypesInv, MovesTo
<1>3. CASE order[r] # "none" \/ call'[r] = "admit"
  BY <1>1, <1>3
<1>4. CASE order[r] = "none" /\ call'[r] # "admit"
  <2>1. call[r] = "admit"
    BY <1>2, <1>4 DEF NoStrandedReview, CallsInv, Ordered, TypesInv, OtherTypes
  <2>2. item[r] \in GoodItems
    BY DEF TypesInv, ItemsGood
  <2>3. ~RefuseCall(r)
    <3>1. SUFFICES ASSUME RefuseCall(r) PROVE ~Owned(item'[r])
      OBVIOUS
    <3>2. item'[r] = IF Owned(item[r]) THEN RetryWait(item[r], 1, "other") ELSE item[r]
      BY <3>1 DEF RefuseCall, TypesInv, ItemsGood
    <3> QED BY <2>2, <3>2, NotOwnedAfterRetry, Values
  <2>4. ~Restart
    <3>1. SUFFICES ASSUME Restart PROVE ~Owned(item'[r])
      OBVIOUS
    <3>2. item'[r] = IF item[r].owner = "none" THEN item[r] ELSE [item[r] EXCEPT !.owner = "dead"]
      BY <3>1 DEF Restart
    <3>3. item'[r].owner \in {"none", "dead"}
      BY <2>2, <3>2 DEF GoodItems
    <3> QED BY <3>3 DEF Owned
  <2>5. CASE Dispatch(r)
    BY <2>5 DEF Dispatch, TypesInv, OtherTypes
  <2>6. CASE ~Dispatch(r)
    <3>1. call'[r] = call[r]
      <4>1. CASE \E s \in Reviews : \/ Dispatch(s) \/ RefuseCall(s) \/ Settle(s) \/ Timeout(s)
                                    \/ Report(s) \/ Throw(s)
        <5>1. CASE \E q \in Reviews \ {r} : \E c : call' = [call EXCEPT ![q] = c]
          BY <5>1 DEF TypesInv, OtherTypes
        <5>2. CASE \/ Dispatch(r) \/ RefuseCall(r) \/ Settle(r) \/ Timeout(r)
                   \/ Report(r) \/ Throw(r)
          BY <2>1, <2>3, <2>6, <5>2 DEF Settle, Timeout, Report, Throw
        <5>3. CASE \E q \in Reviews \ {r} : \/ Dispatch(q) \/ RefuseCall(q) \/ Settle(q)
                                            \/ Timeout(q) \/ Report(q) \/ Throw(q)
          BY <5>1, <5>3 DEF Dispatch, RefuseCall, Settle, Timeout, Report, Throw
        <5> QED BY <4>1, <5>2, <5>3
      <4>2. CASE RunBatch
        BY <2>1, <4>2 DEF RunBatch, CallsInv, Drained
      <4>3. CASE UNCHANGED call
        BY <4>3
      <4> QED BY <2>4, <4>1, <4>2, <4>3 DEF Next, vars, Enqueue, EndTurn, Summarize, Age,
             Recover, Repair, Elapse, Overdue, DeferAll, StartDrain, NothingToRun, Overview
    <3> QED BY <2>1, <3>1
  <2> QED BY <2>5, <2>6
<1> QED BY <1>3, <1>4

\* A running item of a live owner has the drain's call or a work order that will
\* move it: no refusal, exception or restart leaves it behind.
THEOREM NothingStranded == Spec => []NoStrandedReview
<1>1. Init => NoStrandedReview
  BY DEF Init, NoStrandedReview, Absent, Owned
<1>2. TypesInv /\ CallsInv /\ NoStrandedReview /\ [Next]_vars => NoStrandedReview'
  BY NotStrandedStep
<1> QED BY <1>1, <1>2, ReviewInvariant, PTL DEF Spec

=============================================================================
