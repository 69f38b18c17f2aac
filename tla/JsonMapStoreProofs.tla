------------------------- MODULE JsonMapStoreProofs -------------------------
(***************************************************************************)
(* What JsonMapStore guarantees for any number of changes: no cache lies,  *)
(* and no change is lost as long as no read fails.  It takes that no       *)
(* process is held up for 30 seconds inside a mutation, and that either    *)
(* none dies there or at most two share the store: then nobody but the     *)
(* one survivor waits for the lock of the dead.  Without these assumptions *)
(* StoreSteal.cfg and StoreReadFault.cfg refute it.                        *)
(***************************************************************************)
EXTENDS JsonMapStore, TLAPS

\* At most two processes share the store.
Pair == \A p, q, r \in Process : p = q \/ q = r \/ p = r

Calm == ~Suspends /\ (MaxCrashes = 0 \/ Pair)

Section == {"read", "load", "write", "stamp", "release"}

SomebodyDied == \E d \in Process : at[d] = "dead"

\* The lock is what it is meant to be: whoever is between its creation and its
\* removal created the lock file that is there, and only the lock of a dead
\* process is ever old or about to be removed by another.
Exclusive ==
  /\ \A p \in Process : at[p] \in Section => lock = p
  /\ \A p \in Process : at[p] = "remove" => lock = Orphan
  /\ aged => lock = Orphan
  /\ lock = Orphan => SomebodyDied
  /\ SomebodyDied => crashes > 0

\* No identity is known before it exists, so a rename outdates every cache.
Identities ==
  /\ \A p \in Process : cache[p].id \in Nat => cache[p].id <= version
  /\ \A p \in Process : seen[p] <= version

\* A mutation works on what the file holds.
Current ==
  /\ \A p \in Process : at[p] = "stamp" => base[p] = file
  /\ ~ReadFaults => \A p \in Process : at[p] = "write" => base[p] = file
  /\ ~ReadFaults => NoLostUpdate

StoreInv == TypeOK /\ Exclusive /\ Identities /\ Current /\ CacheHonest

-----------------------------------------------------------------------------
\* No process is in a mutation at first, and nothing is cached.
LEMMA StoreInvInit == Init => StoreInv
<1> SUFFICES ASSUME Init PROVE StoreInv
  OBVIOUS
<1> USE StoreAssumption DEF Init
<1>1. Empty \in Map
  BY DEF Empty, Map
<1>2. TypeOK
  <2>1. at \in [Process -> {"idle", "open", "judge", "remove", "look", "lookLoad",
                           "read", "load", "write", "stamp", "release", "dead"}]
    OBVIOUS
  <2>2. lock \in Process \cup {None, Orphan} /\ aged \in BOOLEAN
    OBVIOUS
  <2>3. crashes \in 0..MaxCrashes
    OBVIOUS
  <2>4. cache \in [Process -> [id : Nat \cup {None}, map : Map]]
    BY <1>1
  <2>5. file \in Map /\ version \in Nat /\ done \in Map
    BY <1>1
  <2>6. seen \in [Process -> Nat] /\ base \in [Process -> Map]
    BY <1>1
  <2> QED BY <2>1, <2>2, <2>3, <2>4, <2>5, <2>6 DEF TypeOK
<1>3. Exclusive
  BY DEF Exclusive, SomebodyDied, Section
<1>4. Identities
  <2>1. \A p \in Process : cache[p].id \notin Nat
    OBVIOUS
  <2> QED BY <2>1 DEF Identities
<1>5. Current
  <2>1. NoLostUpdate
    BY DEF NoLostUpdate
  <2> QED BY <2>1 DEF Current
<1>6. CacheHonest
  BY DEF CacheHonest
<1> QED BY <1>2, <1>3, <1>4, <1>5, <1>6 DEF StoreInv

\* Nobody dies of a step that leaves a living process alive.
LEMMA Deaths ==
  ASSUME StoreInv, NEW p \in Process, NEW stage, at' = [at EXCEPT ![p] = stage],
         at[p] # "dead", stage # "dead"
  PROVE  SomebodyDied' <=> SomebodyDied
BY DEF StoreInv, TypeOK, SomebodyDied

\* Whoever is about to remove a stale lock is the only one: its creator is dead,
\* and nobody else is left to wait for it.
LEMMA OneRemover ==
  ASSUME Calm, StoreInv, NEW p \in Process, at[p] = "remove",
         NEW q \in Process, at[q] # "dead"
  PROVE  q = p
<1> USE StoreAssumption DEF StoreInv
<1>1. PICK d \in Process : at[d] = "dead"
  BY DEF Exclusive, SomebodyDied
<1>2. Pair
  <2>1. crashes > 0 /\ crashes \in 0..MaxCrashes
    BY <1>1 DEF Exclusive, SomebodyDied, TypeOK
  <2> QED BY <2>1 DEF Calm
<1> QED BY <1>1, <1>2 DEF Pair

\* The steps before the first read touch neither the file nor a cache.
LEMMA LockSteps ==
  ASSUME Calm, StoreInv, NEW p \in Process,
         Begin(p) \/ Open(p) \/ Judge(p) \/ RemoveStale(p) \/ NoChange(p) \/ Release(p)
  PROVE  StoreInv'
<1> USE StoreAssumption DEF StoreInv
<1>1. CASE Begin(p)
  <2>1. PICK stage \in {"open", "look"} : at' = [at EXCEPT ![p] = stage]
    BY <1>1 DEF Begin, Goto
  <2>2. at[p] = "idle" /\ UNCHANGED <<lock, aged, file, version, cache, seen, base, done, crashes>>
    BY <1>1 DEF Begin
  <2>3. SomebodyDied' <=> SomebodyDied
    BY <2>1, <2>2, Deaths
  <2>4. TypeOK' /\ Exclusive'
    BY <2>1, <2>2, <2>3 DEF TypeOK, Exclusive, Section
  <2>5. Identities' /\ CacheHonest' /\ (~ReadFaults => NoLostUpdate')
    BY <2>2 DEF Identities, CacheHonest, Current, NoLostUpdate
  <2>6. Current'
    BY <2>1, <2>2, <2>5 DEF TypeOK, Current
  <2> QED BY <2>4, <2>5, <2>6
<1>2. CASE Open(p)
  <2> USE <1>2 DEF Open, Goto
  <2>1. TypeOK'
    BY DEF TypeOK
  <2>2. SomebodyDied' <=> SomebodyDied
    BY Deaths
  <2>3. Exclusive'
    BY <2>2 DEF TypeOK, Exclusive, Section
  <2>4. Identities' /\ CacheHonest' /\ (~ReadFaults => NoLostUpdate')
    BY DEF Identities, CacheHonest, Current, NoLostUpdate
  <2>5. Current'
    BY <2>4 DEF TypeOK, Current
  <2> QED BY <2>1, <2>3, <2>4, <2>5
<1>3. CASE Judge(p)
  <2>1. PICK stage \in {"remove", "open", "idle"} :
          at' = [at EXCEPT ![p] = stage] /\ (stage = "remove" => aged)
    BY <1>3 DEF Judge, Pause, Goto
  <2>2. at[p] = "judge" /\ UNCHANGED <<lock, aged, file, version, cache, seen, base, done, crashes>>
    BY <1>3 DEF Judge
  <2>3. SomebodyDied' <=> SomebodyDied
    BY <2>1, <2>2, Deaths
  <2>4. TypeOK' /\ Exclusive'
    BY <2>1, <2>2, <2>3 DEF TypeOK, Exclusive, Section
  <2>5. Identities' /\ CacheHonest' /\ (~ReadFaults => NoLostUpdate')
    BY <2>2 DEF Identities, CacheHonest, Current, NoLostUpdate
  <2>6. Current'
    BY <2>1, <2>2, <2>5 DEF TypeOK, Current
  <2> QED BY <2>4, <2>5, <2>6
<1>4. CASE RemoveStale(p)
  <2>1. PICK stage \in {"open", "idle"} : at' = [at EXCEPT ![p] = stage]
    BY <1>4 DEF RemoveStale, Pause, Goto
  <2>2. /\ at[p] = "remove" /\ lock' = None /\ aged' = FALSE
        /\ UNCHANGED <<file, version, cache, seen, base, done, crashes>>
    BY <1>4 DEF RemoveStale
  <2>3. SomebodyDied' <=> SomebodyDied
    BY <2>1, <2>2, Deaths
  <2>4. \A q \in Process \ {p} : at[q] \notin Section \cup {"remove"}
    BY <2>2, OneRemover DEF Section
  <2>5. TypeOK'
    BY <2>1, <2>2 DEF TypeOK
  <2>6. Exclusive'
    BY <2>1, <2>2, <2>3, <2>4 DEF TypeOK, Exclusive, Section
  <2>7. Identities' /\ CacheHonest' /\ (~ReadFaults => NoLostUpdate')
    BY <2>2 DEF Identities, CacheHonest, Current, NoLostUpdate
  <2>8. Current'
    BY <2>1, <2>2, <2>7 DEF TypeOK, Current
  <2> QED BY <2>5, <2>6, <2>7, <2>8
<1>5. CASE NoChange(p)
  <2>1. SomebodyDied' <=> SomebodyDied
    BY <1>5, Deaths DEF NoChange, Goto
  <2> QED
    BY <1>5, <2>1 DEF NoChange, Goto, TypeOK, Exclusive, Identities, Current, CacheHonest,
       NoLostUpdate, Section
<1>6. CASE Release(p)
  <2> USE <1>6 DEF Release, Goto
  <2>1. Empty \in Map
    BY DEF Empty, Map
  <2>2. TypeOK'
    BY <2>1 DEF TypeOK
  <2>3. \A q \in Process \ {p} : at[q] \notin Section \cup {"remove"}
    BY DEF Exclusive, Section
  <2>4. SomebodyDied' <=> SomebodyDied
    BY Deaths
  <2>5. Exclusive'
    BY <2>3, <2>4 DEF TypeOK, Exclusive, Section
  <2>6. Identities' /\ Current' /\ CacheHonest'
    BY DEF TypeOK, Identities, Current, CacheHonest, NoLostUpdate
  <2> QED BY <2>2, <2>5, <2>6
<1> QED BY <1>1, <1>2, <1>3, <1>4, <1>5, <1>6

\* A read hands a mutation the map of the file, from the cache or afresh, and
\* what it caches it caches for an identity that was that of the file.
LEMMA ReadSteps ==
  ASSUME Calm, StoreInv, NEW p \in Process, Stat(p) \/ Load(p)
  PROVE  StoreInv'
<1> USE StoreAssumption DEF StoreInv
<1>0. file \in Map /\ cache[p].map \in Map /\ seen[p] \in Nat
  BY DEF TypeOK
<1>1. CASE Stat(p)
  <2> USE <1>1 DEF Stat
  <2>1. TypeOK'
    BY <1>0 DEF Have, Goto, TypeOK
  <2>2. Exclusive'
    <3>1. SomebodyDied' <=> SomebodyDied
      BY Deaths DEF Have, Goto
    <3> QED BY <3>1 DEF Have, Goto, TypeOK, Exclusive, Section
  <2>3. Identities'
    BY DEF TypeOK, Identities
  <2>4. Current'
    BY DEF Have, Goto, TypeOK, Current, NoLostUpdate, CacheHonest
  <2>5. CacheHonest'
    BY DEF CacheHonest
  <2> QED BY <2>1, <2>2, <2>3, <2>4, <2>5
<1>2. CASE Load(p)
  <2> USE <1>2 DEF Load
  <2>1. TypeOK'
    <3>1. at' = [at EXCEPT ![p] = "idle"] \/ at' = [at EXCEPT ![p] = "write"]
      BY DEF Have, Goto
    <3>2. base' = base \/ base' = [base EXCEPT ![p] = file]
      BY DEF Have
    <3>3. cache' \in [Process -> [id : Nat \cup {None}, map : Map]]
      BY <1>0 DEF TypeOK
    <3> QED BY <1>0, <3>1, <3>2, <3>3 DEF TypeOK
  <2>2. Exclusive'
    <3>1. SomebodyDied' <=> SomebodyDied
      BY Deaths DEF Have, Goto
    <3> QED BY <3>1 DEF Have, Goto, TypeOK, Exclusive, Section
  <2>3. Identities'
    <3>1. \A q \in Process : cache'[q] = cache[q] \/ cache'[q].id = seen[p]
      BY DEF TypeOK
    <3> QED BY <1>0, <3>1 DEF Identities
  <2>4. Current'
    <3>1. \A q \in Process : base'[q] = base[q] \/ base'[q] = file
      BY DEF Have, TypeOK
    <3>2. \A q \in Process : at'[q] \in {"write", "stamp"} => at'[q] = at[q] \/ base'[q] = file
      BY <1>0 DEF Have, Goto, TypeOK
    <3> QED BY <3>1, <3>2 DEF Current, NoLostUpdate
  <2>5. CacheHonest'
    BY DEF TypeOK, CacheHonest
  <2> QED BY <2>1, <2>2, <2>3, <2>4, <2>5
<1> QED BY <1>1, <1>2

\* The rename writes the map of the file with one change more.
LEMMA RenameStep ==
  ASSUME Calm, StoreInv, NEW p \in Process, Rename(p)
  PROVE  StoreInv'
<1> USE StoreAssumption DEF StoreInv
<1> DEFINE map == [base[p] EXCEPT ![p] = done[p] + 1]
<1>1. /\ at[p] = "write" /\ file' = map /\ base' = [base EXCEPT ![p] = map]
      /\ version' = version + 1 /\ done' = [done EXCEPT ![p] = done[p] + 1]
      /\ at' = [at EXCEPT ![p] = "stamp"]
      /\ UNCHANGED <<lock, aged, cache, seen, crashes>>
  BY DEF Rename, Goto
<1>2. map \in Map /\ done' \in Map
  BY <1>1 DEF TypeOK, Map
<1>3. TypeOK'
  BY <1>1, <1>2 DEF TypeOK
<1>4. Exclusive'
  <2>1. SomebodyDied' <=> SomebodyDied
    BY <1>1, Deaths
  <2> QED BY <1>1, <2>1 DEF TypeOK, Exclusive, Section
<1>5. Identities'
  BY <1>1 DEF TypeOK, Identities
<1>6. CacheHonest'
  <2>1. \A q \in Process : cache[q].id # version + 1
    BY DEF TypeOK, Identities
  <2> QED BY <1>1, <2>1 DEF CacheHonest
<1>7. \A q \in Process \ {p} : at[q] \notin {"write", "stamp"}
  BY <1>1 DEF Exclusive, Section
<1>8. ~ReadFaults => NoLostUpdate'
  BY <1>1 DEF TypeOK, Map, Current, NoLostUpdate
<1>9. Current'
  BY <1>1, <1>7, <1>8 DEF TypeOK, Current
<1> QED BY <1>3, <1>4, <1>5, <1>6, <1>9

\* The mutation caches what it has just written, for the identity it has now.
LEMMA StampStep ==
  ASSUME Calm, StoreInv, NEW p \in Process, Stamp(p)
  PROVE  StoreInv'
<1> USE StoreAssumption DEF StoreInv
<1> USE DEF Stamp, Goto
<1>1. base[p] = file /\ file \in Map /\ version \in Nat
  BY DEF TypeOK, Current
<1>2. TypeOK'
  BY <1>1 DEF TypeOK
<1>3. Exclusive'
  <2>1. SomebodyDied' <=> SomebodyDied
    BY Deaths
  <2> QED BY <2>1 DEF TypeOK, Exclusive, Section
<1>4. Identities' /\ CacheHonest'
  BY <1>1 DEF TypeOK, Identities, CacheHonest
<1>5. Current'
  BY DEF TypeOK, Current, NoLostUpdate
<1> QED BY <1>2, <1>3, <1>4, <1>5

\* Only the lock of a dead process ages.  A process that dies changes neither the
\* file nor what others have read, and leaves its lock to be removed.
LEMMA EnvironmentSteps ==
  ASSUME Calm, StoreInv, Age \/ \E p \in Process : Crash(p)
  PROVE  StoreInv'
<1> USE StoreAssumption DEF StoreInv
<1>1. CASE Age
  <2>1. Exclusive'
    BY <1>1 DEF Age, Calm, Exclusive, SomebodyDied
  <2> QED
    BY <1>1, <2>1 DEF Age, TypeOK, Identities, Current, CacheHonest, NoLostUpdate
<1>2. ASSUME NEW p \in Process, Crash(p) PROVE StoreInv'
  <2>1. /\ at[p] # "dead" /\ at' = [at EXCEPT ![p] = "dead"]
        /\ lock' = IF lock = p THEN Orphan ELSE lock
        /\ crashes < MaxCrashes /\ crashes' = crashes + 1
        /\ UNCHANGED <<aged, file, version, cache, seen, base, done>>
    BY <1>2 DEF Crash, Goto
  <2>2. TypeOK'
    BY <2>1 DEF TypeOK
  <2>3. SomebodyDied' /\ crashes' > 0
    BY <2>1 DEF TypeOK, SomebodyDied
  <2>4. Exclusive'
    BY <2>1, <2>3 DEF TypeOK, Exclusive, Section
  <2>5. Identities' /\ CacheHonest' /\ (~ReadFaults => NoLostUpdate')
    BY <2>1 DEF Identities, CacheHonest, Current, NoLostUpdate
  <2>6. Current'
    BY <2>1, <2>5 DEF TypeOK, Current
  <2> QED BY <2>2, <2>4, <2>5, <2>6
<1> QED BY <1>1, <1>2

\* Every step keeps the lock with the mutation that runs.
LEMMA StoreInvStep == ASSUME Calm, StoreInv, [Next]_vars PROVE StoreInv'
<1>1. ASSUME NEW p \in Process, Begin(p) \/ Continue(p) PROVE StoreInv'
  BY <1>1, LockSteps, ReadSteps, RenameStep, StampStep DEF Continue
<1>2. ASSUME NEW p \in Process, Crash(p) PROVE StoreInv'
  BY <1>2, EnvironmentSteps
<1>3. ASSUME Age PROVE StoreInv'
  BY <1>3, EnvironmentSteps
<1>4. ASSUME UNCHANGED vars PROVE StoreInv'
  BY <1>4 DEF vars, StoreInv, TypeOK, Exclusive, SomebodyDied, Identities, Current, CacheHonest, NoLostUpdate
<1> QED BY <1>1, <1>2, <1>3, <1>4 DEF Next

-----------------------------------------------------------------------------
\* A mutation owns the lock file from its read to its release, and works on what
\* the file holds (withWriteLock, read, write).
THEOREM StoreInvariant == ASSUME Calm PROVE Spec => []StoreInv
<1>1. Init => StoreInv
  BY StoreInvInit
<1>2. StoreInv /\ [Next]_vars => StoreInv'
  BY StoreInvStep
<1> QED BY <1>1, <1>2, PTL DEF Spec

\* Concurrent processes do not overwrite each other's entries, however many they
\* are if none dies, and whatever one of two leaves behind when it dies, as long
\* as reads succeed (json-map-store.ts:52-54).
THEOREM NothingOverwritten == ASSUME Calm, ~ReadFaults PROVE Spec => []NoLostUpdate
<1>1. StoreInv => NoLostUpdate
  BY DEF StoreInv, Current
<1> QED BY <1>1, StoreInvariant, PTL

\* A process that serves a cached map serves what the file holds, also where
\* reads have failed (json-map-store.ts:30-36).
THEOREM CachesTellTheTruth == ASSUME Calm PROVE Spec => []CacheHonest
<1>1. StoreInv => CacheHonest
  BY DEF StoreInv
<1> QED BY <1>1, StoreInvariant, PTL
=============================================================================
