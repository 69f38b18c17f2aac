---------------------------- MODULE JsonMapStore ----------------------------
(***************************************************************************)
(* The persistent map of src/core/infra/json-map-store.ts: one JSON file,  *)
(* shared by the bot, the command line tool and helper scripts, each with  *)
(* its own cache.  A mutation holds <file>.lock from before its read until *)
(* after its atomic write; a reader takes no lock.  A lock whose file is   *)
(* older than 30 seconds is removed by whoever waits for it.               *)
(*                                                                         *)
(* A process runs its own operations one at a time (they are synchronous); *)
(* between any two file operations of one process others may act.  Each    *)
(* process changes an entry of its own, from one value to the next, so the *)
(* map shows whose changes it holds.                                       *)
(***************************************************************************)
EXTENDS Naturals

CONSTANTS Process,    \* processes that open the store
          None,       \* no lock file, nothing cached
          Orphan,     \* a lock file whose creator died
          MaxChanges, \* bound on the changes of one process
          MaxCrashes, \* bound on the crashes explored
          ReadFaults, \* a stat or read of the file may fail
          Suspends    \* a process may be held up for 30 seconds

ASSUME StoreAssumption ==
  /\ None \notin Process \cup Nat /\ Orphan \notin Process \cup {None}
  /\ MaxChanges \in Nat /\ MaxCrashes \in Nat
  /\ ReadFaults \in BOOLEAN /\ Suspends \in BOOLEAN

VARIABLES at,      \* [Process -> where its code is]
          lock,    \* creator of the present lock file
          aged,    \* the lock file is older than 30 seconds
          file,    \* the map in the file: [Process -> Nat]
          version, \* identity of the file (mtime, size, inode)
          cache,   \* [Process -> the map it cached, and for which identity]
          seen,    \* [Process -> identity its read has statted]
          base,    \* [Process -> map that its mutation works on]
          done,    \* history: how many changes each process has written
          crashes

vars == <<at, lock, aged, file, version, cache, seen, base, done, crashes>>

Map == [Process -> Nat]
Empty == [p \in Process |-> 0]

Init == /\ at = [p \in Process |-> "idle"]
        /\ lock = None /\ aged = FALSE
        /\ file = Empty /\ version = 0
        /\ cache = [p \in Process |-> [id |-> None, map |-> Empty]]
        /\ seen = [p \in Process |-> 0]
        /\ base = [p \in Process |-> Empty]
        /\ done = Empty
        /\ crashes = 0

Goto(p, stage) == at' = [at EXCEPT ![p] = stage]

-----------------------------------------------------------------------------
(* withWriteLock, as far as the lock *)

\* set, update or delete begins; so does a get, which needs no lock.
Begin(p) ==
  /\ at[p] = "idle"
  /\ Goto(p, "open") \/ Goto(p, "look")
  /\ UNCHANGED <<lock, aged, file, version, cache, seen, base, done, crashes>>

\* Faulty variant: the lock file is opened without O_EXCL.
OpenShared(p) ==
  /\ at[p] = "open"
  /\ lock' = p /\ aged' = FALSE /\ Goto(p, "read")
  /\ UNCHANGED <<file, version, cache, seen, base, done, crashes>>

\* openSync(lock, "wx").
Open(p) ==
  /\ at[p] = "open"
  /\ IF lock = None
     THEN lock' = p /\ aged' = FALSE /\ Goto(p, "read")
     ELSE UNCHANGED <<lock, aged>> /\ Goto(p, "judge")
  /\ UNCHANGED <<file, version, cache, seen, base, done, crashes>>

\* Sleep and try again, or throw after ten seconds.
Pause(p) == Goto(p, "open") \/ Goto(p, "idle")

\* Faulty variants: a lock is removed whatever its age, or never.
JudgeImpatient(p) ==
  /\ at[p] = "judge"
  /\ IF lock # None THEN Goto(p, "remove") ELSE Pause(p)
  /\ UNCHANGED <<lock, aged, file, version, cache, seen, base, done, crashes>>
JudgeNever(p) ==
  /\ at[p] = "judge"
  /\ Pause(p)
  /\ UNCHANGED <<lock, aged, file, version, cache, seen, base, done, crashes>>

\* The age of the lock file, if it is still there.
Judge(p) ==
  /\ at[p] = "judge"
  /\ IF lock # None /\ aged THEN Goto(p, "remove") ELSE Pause(p)
  /\ UNCHANGED <<lock, aged, file, version, cache, seen, base, done, crashes>>

\* unlinkSync(lock): whatever lock file is there by now.
RemoveStale(p) ==
  /\ at[p] = "remove"
  /\ lock' = None /\ aged' = FALSE
  /\ Pause(p)
  /\ UNCHANGED <<file, version, cache, seen, base, done, crashes>>

-----------------------------------------------------------------------------
(* read *)

\* A get, "look" and "lookLoad", ends where a mutation goes on to write.
Have(p, map) ==
  IF at[p] \in {"look", "lookLoad"}
  THEN Goto(p, "idle") /\ UNCHANGED base
  ELSE Goto(p, "write") /\ base' = [base EXCEPT ![p] = map]

\* The stat: an unchanged identity is served from the cache; a read that fails
\* is served the last good map, which is empty in a process that has none.
Stat(p) ==
  /\ at[p] \in {"read", "look"}
  /\ \/ cache[p].id = version /\ Have(p, cache[p].map) /\ UNCHANGED seen
     \/ /\ cache[p].id # version
        /\ seen' = [seen EXCEPT ![p] = version]
        /\ Goto(p, IF at[p] = "read" THEN "load" ELSE "lookLoad")
        /\ UNCHANGED base
     \/ ReadFaults /\ Have(p, cache[p].map) /\ UNCHANGED seen
  /\ UNCHANGED <<lock, aged, file, version, cache, done, crashes>>

\* The content, which may be newer than the identity statted before.
Load(p) ==
  /\ at[p] \in {"load", "lookLoad"}
  /\ cache' = [cache EXCEPT ![p] = [id |-> seen[p], map |-> file]]
  /\ Have(p, file)
  /\ UNCHANGED <<lock, aged, file, version, seen, done, crashes>>

-----------------------------------------------------------------------------
(* write, and the end of withWriteLock *)

\* writeFileAtomicSync: the new map replaces the file by a rename.
Rename(p) ==
  LET map == [base[p] EXCEPT ![p] = done[p] + 1] IN
  /\ at[p] = "write" /\ done[p] < MaxChanges
  /\ file' = map /\ base' = [base EXCEPT ![p] = map]
  /\ version' = version + 1
  /\ done' = [done EXCEPT ![p] = @ + 1]
  /\ Goto(p, "stamp")
  /\ UNCHANGED <<lock, aged, cache, seen, crashes>>

\* update without a change, delete of a missing entry.
NoChange(p) ==
  /\ at[p] = "write"
  /\ Goto(p, "release")
  /\ UNCHANGED <<lock, aged, file, version, cache, seen, base, done, crashes>>

\* Faulty variant: the new identity is put on the map cached before.
StampOldMap(p) ==
  /\ at[p] = "stamp"
  /\ cache' = [cache EXCEPT ![p].id = version]
  /\ Goto(p, "release")
  /\ UNCHANGED <<lock, aged, file, version, seen, base, done, crashes>>

\* Stat what is there now and cache the map just written for it.
Stamp(p) ==
  /\ at[p] = "stamp"
  /\ cache' = [cache EXCEPT ![p] = [id |-> version, map |-> base[p]]]
  /\ Goto(p, "release")
  /\ UNCHANGED <<lock, aged, file, version, seen, base, done, crashes>>

\* The `finally`: unlink the lock file, whoever created it.
Release(p) ==
  /\ at[p] = "release"
  /\ lock' = None /\ aged' = FALSE
  /\ base' = [base EXCEPT ![p] = Empty]
  /\ Goto(p, "idle")
  /\ UNCHANGED <<file, version, cache, seen, done, crashes>>

-----------------------------------------------------------------------------
(* The environment *)

\* A live process holds a lock for milliseconds, unless it is suspended.
Age ==
  /\ lock = Orphan \/ (Suspends /\ lock # None)
  /\ ~aged /\ aged' = TRUE
  /\ UNCHANGED <<at, lock, file, version, cache, seen, base, done, crashes>>

Crash(p) ==
  /\ crashes < MaxCrashes /\ crashes' = crashes + 1
  /\ at[p] # "dead" /\ Goto(p, "dead")
  /\ lock' = IF lock = p THEN Orphan ELSE lock
  /\ UNCHANGED <<aged, file, version, cache, seen, base, done>>

Continue(p) == \/ Open(p) \/ Judge(p) \/ RemoveStale(p)
               \/ Stat(p) \/ Load(p)
               \/ Rename(p) \/ NoChange(p) \/ Stamp(p) \/ Release(p)

Next == \/ \E p \in Process : Begin(p) \/ Continue(p) \/ Crash(p)
        \/ Age

Spec == Init /\ [][Next]_vars

\* Operations are synchronous, clocks advance, and the bot's timers mutate its
\* stores again and again, also after an operation that has given up.
Fairness == /\ WF_vars(Age)
            /\ \A p \in Process : /\ WF_vars(Continue(p))
                                  /\ SF_vars(Begin(p) /\ at'[p] = "open")
FairSpec == Spec /\ Fairness

-----------------------------------------------------------------------------
(* Properties *)

TypeOK ==
  /\ at \in [Process -> {"idle", "open", "judge", "remove", "look", "lookLoad",
                         "read", "load", "write", "stamp", "release", "dead"}]
  /\ lock \in Process \cup {None, Orphan}
  /\ aged \in BOOLEAN
  /\ file \in Map /\ version \in Nat
  /\ cache \in [Process -> [id : Nat \cup {None}, map : Map]]
  /\ seen \in [Process -> Nat]
  /\ base \in [Process -> Map]
  /\ done \in Map
  /\ crashes \in 0..MaxCrashes

\* Concurrent processes do not overwrite each other's entries: the file holds
\* the latest change of every process (json-map-store.ts:52-54).
NoLostUpdate == \A p \in Process : file[p] = done[p]

\* A cached map is served only while it is what the file holds, so the writes
\* of other processes are picked up (json-map-store.ts:30-36).
CacheHonest == \A p \in Process : cache[p].id = version => cache[p].map = file

\* A process that dies inside a mutation does not block the others for good.
OrphanedLockFreed == (lock = Orphan) ~> (lock # Orphan \/ \A p \in Process : at[p] = "dead")
=============================================================================
