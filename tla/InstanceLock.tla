---------------------------- MODULE InstanceLock ----------------------------
(***************************************************************************)
(* The single-instance lock of src/core/infra/instance-lock.ts: a file in  *)
(* the state directory naming the pid of the bot that serves.              *)
(*                                                                         *)
(* A process is one life of the bot: it is launched once, by launchd or by *)
(* hand.  Between any two of its file operations other processes may run,  *)
(* start or die, and a pid that is free again may be given to a bot or to  *)
(* an unrelated program.  Creating the file and writing its content are    *)
(* two system calls (writeFileSync opens with O_EXCL, then writes): until  *)
(* the second, the file is empty and its holder unreadable.                *)
(*                                                                         *)
(* What the file says is believed as far as ps confirms it.  ps shows the  *)
(* command line of a pid; one that carries the project's name counts as a  *)
(* bot, though it may be the project's CLI, TUI or MCP server, and a ps    *)
(* that fails or takes longer than 15 s makes any pid count as none.       *)
(***************************************************************************)
EXTENDS FiniteSets, Naturals

CONSTANTS Process,  \* lives of the bot, one launch each
          Pid,      \* the pids the operating system hands out
          None,     \* no file, no readable holder
          Overlap,  \* a bot may be launched while another is acquiring
          PsFails   \* ps may fail, or time out, about a running program

ASSUME LockAssumption ==
  /\ None \notin Process /\ None \notin Pid
  /\ Overlap \in BOOLEAN /\ PsFails \in BOOLEAN

VARIABLES at,       \* [Process -> where its code is]
          pid,      \* [Process -> pid it was launched with]
          file,     \* the process that created the present file, or None
          written,  \* processes whose payload reached the file they created
          seen,     \* [Process -> holder returned by its first readHolder]
          retried,  \* processes in the second iteration of acquireInstanceLock
          stranger, \* pids of running programs that are not the bot
          kin       \* those of them whose command line names the project

vars == <<at, pid, file, written, seen, retried, stranger, kin>>

Acquiring == {"create", "write", "inspect", "probe", "recheck", "remove"}
Stage == Acquiring \cup {"off", "serving", "releasing", "stopping",
                         "refused", "failed", "dead"}

Init == /\ at = [p \in Process |-> "off"]
        /\ pid = [p \in Process |-> None]
        /\ file = None
        /\ written = {}
        /\ seen = [p \in Process |-> None]
        /\ retried = {}
        /\ stranger = {}
        /\ kin = {}

Live(p) == at[p] \notin {"off", "refused", "failed", "dead"}
Free(i) == i \notin stranger /\ \A p \in Process : Live(p) => pid[p] # i

\* readHolder: undefined for a missing file and for one not written yet.
Holder == IF file \in written THEN pid[file] ELSE None

\* The pid in the file is another one, and its command line has the marker.
ShowsMarker(p) ==
  /\ seen[p] \notin {None, pid[p]}
  /\ seen[p] \in kin \/ \E q \in Process : Live(q) /\ pid[q] = seen[p]

-----------------------------------------------------------------------------
Goto(p, stage) == at' = [at EXCEPT ![p] = stage]

Launch(p, i) ==
  /\ at[p] = "off" /\ Free(i)
  /\ Overlap \/ \A q \in Process : at[q] \notin Acquiring
  /\ pid' = [pid EXCEPT ![p] = i]
  /\ Goto(p, "create")
  /\ UNCHANGED <<file, written, seen, retried, stranger, kin>>

\* Faulty variant: tryCreate without O_EXCL.
CreateTruncating(p) ==
  /\ at[p] = "create"
  /\ file' = p /\ Goto(p, "write")
  /\ UNCHANGED <<pid, written, seen, retried, stranger, kin>>

\* tryCreate, up to the exclusive open ...
Create(p) ==
  /\ at[p] = "create"
  /\ \/ file = None /\ file' = p /\ Goto(p, "write")
     \/ file # None /\ UNCHANGED file /\ Goto(p, "inspect")
  /\ UNCHANGED <<pid, written, seen, retried, stranger, kin>>

\* ... and the write, into the file it opened even if that was removed.
Write(p) ==
  /\ at[p] = "write"
  /\ written' = written \cup {p}
  /\ Goto(p, "serving")
  /\ UNCHANGED <<pid, file, seen, retried, stranger, kin>>

Inspect(p) ==
  /\ at[p] = "inspect"
  /\ seen' = [seen EXCEPT ![p] = Holder]
  /\ Goto(p, "probe")
  /\ UNCHANGED <<pid, file, written, retried, stranger, kin>>

\* Faulty variant: liveness alone makes a holder a conflict.
ProbeLivenessOnly(p) ==
  /\ at[p] = "probe"
  /\ IF seen[p] \notin {None, pid[p]} /\ ~Free(seen[p])
     THEN Goto(p, "refused") ELSE Goto(p, "recheck")
  /\ UNCHANGED <<pid, file, written, seen, retried, stranger, kin>>

\* isAlive and isBotProcess.  InstanceLockHeldError for a pid with the marker;
\* anything else is stale, and so is everything that ps fails about.
Probe(p) ==
  /\ at[p] = "probe"
  /\ \/ ShowsMarker(p) /\ Goto(p, "refused")
     \/ (ShowsMarker(p) => PsFails) /\ Goto(p, "recheck")
  /\ UNCHANGED <<pid, file, written, seen, retried, stranger, kin>>

\* removeIfHolder reads again.  When somebody else holds the file by now,
\* acquireInstanceLock returns, and its caller goes on to serve.
Recheck(p) ==
  /\ at[p] = "recheck"
  /\ IF Holder \notin {None, seen[p]} THEN Goto(p, "serving") ELSE Goto(p, "remove")
  /\ UNCHANGED <<pid, file, written, seen, retried, stranger, kin>>

\* Faulty variant: a single attempt.
RemoveOnce(p) ==
  /\ at[p] = "remove"
  /\ file' = None
  /\ Goto(p, "failed")
  /\ UNCHANGED <<pid, written, seen, retried, stranger, kin>>

\* The removal, of whatever file is there now; then the second attempt, if any.
Remove(p) ==
  /\ at[p] = "remove"
  /\ file' = None
  /\ retried' = retried \cup {p}
  /\ Goto(p, IF p \in retried THEN "failed" ELSE "create")
  /\ UNCHANGED <<pid, written, seen, stranger, kin>>

\* releaseInstanceLock on SIGINT or SIGTERM: reads, removes its own file only.
\* The process lives on while it winds down.
Release(p) ==
  /\ at[p] = "serving"
  /\ Goto(p, IF Holder = pid[p] THEN "releasing" ELSE "stopping")
  /\ UNCHANGED <<pid, file, written, seen, retried, stranger, kin>>

Unlink(p) ==
  /\ at[p] = "releasing"
  /\ file' = None
  /\ Goto(p, "stopping")
  /\ UNCHANGED <<pid, written, seen, retried, stranger, kin>>

\* The process ends: in order, or anywhere in a crash.  Its file stays.
Exit(p) ==
  /\ Live(p)
  /\ Goto(p, "dead")
  /\ UNCHANGED <<pid, file, written, seen, retried, stranger, kin>>

\* Another program starts, perhaps with a dead bot's pid, or ends.
Stranger(i) ==
  /\ \/ Free(i) /\ stranger' = stranger \cup {i} /\ kin' \in {kin, kin \cup {i}}
     \/ i \in stranger /\ stranger' = stranger \ {i} /\ kin' = kin \ {i}
  /\ UNCHANGED <<at, pid, file, written, seen, retried>>

Next ==
  \/ \E p \in Process :
       \/ \E i \in Pid : Launch(p, i)
       \/ Create(p) \/ Write(p) \/ Inspect(p) \/ Probe(p) \/ Recheck(p)
       \/ Remove(p) \/ Release(p) \/ Unlink(p) \/ Exit(p)
  \/ \E i \in Pid : Stranger(i)

Spec == Init /\ [][Next]_vars

-----------------------------------------------------------------------------
(* Properties *)

TypeOK == /\ at \in [Process -> Stage]
          /\ pid \in [Process -> Pid \cup {None}]
          /\ file \in Process \cup {None}
          /\ written \subseteq Process
          /\ seen \in [Process -> Pid \cup {None}]
          /\ retried \subseteq Process
          /\ stranger \subseteq Pid /\ kin \subseteq stranger

\* Two bots never poll the same chats: across restarts, crashes and recycled
\* pids, one process serves at a time (instance-lock.ts:5-20).  With Overlap or
\* with PsFails it does not hold.
AtMostOneServing ==
  \A p, q \in Process : at[p] = "serving" /\ at[q] = "serving" => p = q

\* What refuses a bot has the pid in the file and the project's name in its
\* command line: a bot that serves or winds down, never one that is starting, or
\* the CLI, TUI or MCP server with a recycled pid.  A stale file whose pid an
\* unrelated program has now never keeps the service down
\* (instance-lock.ts:12-20, the launchd KeepAlive trap).
RefusedOnlyBesideAnother ==
  [][\A p \in Process : at[p] # "refused" /\ at'[p] = "refused" =>
       \/ seen[p] \in kin
       \/ \E q \in Process \ {p} : /\ pid[q] = seen[p]
                                  /\ at[q] \in {"serving", "releasing", "stopping"}]_vars

\* Two attempts are enough: acquireInstanceLock does not give up on a lock that
\* nobody is contending for (instance-lock.ts:115,133).
NoFailedStart == \A p \in Process : at[p] # "failed"
=============================================================================
