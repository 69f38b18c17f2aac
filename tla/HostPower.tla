----------------------------- MODULE HostPower -----------------------------
(***************************************************************************)
(* Whether the host may sleep: the host-power manager of                   *)
(* src/core/power/power-manager.ts with its probe of protected work        *)
(* (protected-work.ts), and the controller of the caffeinate child         *)
(* (src/core/platform/keep-awake.ts).                                      *)
(*                                                                         *)
(* One process on macOS.  Clock, tasks and faults belong to the            *)
(* environment; a task is work the bot must not sleep over, wherever the   *)
(* probe finds it.  The typed events, the suppression of repeated          *)
(* notifications and the power source (battery only changes what is        *)
(* reported) are left out.                                                 *)
(***************************************************************************)
CONSTANTS Task,      \* pieces of work
          Agent,     \* sessions with an agent
          Modes      \* configured modes to consider

ASSUME PowerAssumption ==
  /\ Modes \subseteq {"off", "always", "scheduled"}
  /\ Agent \cap {"none", "queue", "order", "lease"} = {}

VARIABLES mode,      \* TCB_KEEP_AWAKE_MODE, read at the start
          quiet,     \* is it before the wake time in the quiet hours?
          place,     \* where each task is found: queue, order, lease, an agent
          child,     \* caffeinate: none, starting or up
          pass,      \* the reconciliation in flight
          standing,  \* tasks that have been there since its probe began
          started, stopped,
          reported,  \* has a failed acquisition been notified?
          broken     \* what fails at present: caffeinate, probe, wake event

clock == <<mode, quiet>>
life  == <<started, stopped>>
vars  == <<mode, quiet, place, child, pass, standing, started, stopped, reported, broken>>

Durable == {"queue", "order", "lease"}
Places  == {"none"} \cup Durable \cup Agent
Faults  == {"caffeinate", "probe", "wake"}

\* left: sessions whose activity is still awaited; busy: did one answer busy?
Idle      == [at |-> "idle", left |-> {}, busy |-> FALSE]
Probing   == [at |-> "probing", left |-> Agent, busy |-> FALSE]
Notifying == [Idle EXCEPT !.at = "notifying"]

Working(t) == place[t] # "none"

Init == /\ mode \in Modes
        /\ quiet \in BOOLEAN
        /\ place = [t \in Task |-> "none"]
        /\ child = "none"
        /\ pass = Idle
        /\ standing = {}
        /\ started = FALSE /\ stopped = FALSE
        /\ reported = FALSE
        /\ broken = {}

-----------------------------------------------------------------------------
(* The controller *)

\* spawn may throw; a program that cannot be executed fails later, by an event.
Spawned     == child' = IF child = "none" THEN "starting" ELSE child
SpawnThrows == child = "none" /\ "caffeinate" \in broken /\ child' = child

Release == child' = "none"

Up == /\ child = "starting" /\ child' = "up"
      /\ UNCHANGED <<clock, place, pass, standing, life, reported, broken>>

\* The error and exit handlers forget the child, whether it never ran or was ended.
Ends == /\ child # "none" /\ "caffeinate" \in broken
        /\ child' = "none"
        /\ UNCHANGED <<clock, place, pass, standing, life, reported, broken>>

-----------------------------------------------------------------------------
(* The reconciliation *)

Acquire ==
  \/ Spawned /\ pass' = Idle /\ UNCHANGED reported
  \/ SpawnThrows /\ pass' = Notifying /\ reported' = TRUE

\* Faulty variant: the owner is warned, and the host may sleep.
FailAwakeWarning == child' = child /\ pass' = Notifying /\ UNCHANGED reported

FailAwake ==
  /\ pass' = Notifying
  /\ \/ Spawned /\ UNCHANGED reported
     \/ SpawnThrows /\ reported' = TRUE

AwakePhase == mode = "always" \/ ~quiet

\* Faulty variant: an order that waits for its worker's lease is overlooked.
DurableLeased == \E t \in Task : place[t] \in {"queue", "lease"}

DurableWork == \E t \in Task : place[t] \in Durable

\* reconcileOnce as far as its first await.
Reconcile ==
  /\ pass = Idle
  /\ \/ mode = "off" /\ Release /\ UNCHANGED <<pass, standing, reported>>
     \/ mode # "off" /\ AwakePhase /\ Acquire /\ UNCHANGED standing
     \/ /\ mode = "scheduled" /\ quiet
        /\ \/ "probe" \in broken /\ FailAwake /\ UNCHANGED standing
           \/ "probe" \notin broken /\ DurableWork /\ Acquire /\ UNCHANGED standing
           \/ /\ "probe" \notin broken /\ ~DurableWork
              /\ pass' = Probing
              /\ standing' = {t \in Task : Working(t)}
              /\ UNCHANGED <<child, reported>>

Start == /\ ~started
         /\ started' = TRUE
         /\ Reconcile
         /\ UNCHANGED <<clock, place, stopped, broken>>

\* Only the scheduled mode polls.
Tick == /\ started /\ ~stopped
        /\ mode = "scheduled"
        /\ Reconcile
        /\ UNCHANGED <<clock, place, life, broken>>

\* Faulty variant: the assertion is left to the next pass.
DecideLater == IF "wake" \in broken THEN FailAwake ELSE pass' = Idle /\ UNCHANGED <<child, reported>>

\* Nothing is protected: the wake event is inspected, then sleep is allowed.
Decide ==
  IF "wake" \in broken THEN FailAwake
  ELSE Release /\ pass' = Idle /\ UNCHANGED reported

\* The answer for one session; the last one ends the await of all of them.
Inspect(a) ==
  LET busy == pass.busy \/ \E t \in Task : place[t] = a
  IN  /\ pass.at = "probing" /\ a \in pass.left
      /\ "probe" \notin broken
      /\ IF pass.left # {a}
         THEN /\ pass' = [pass EXCEPT !.left = @ \ {a}, !.busy = busy]
              /\ UNCHANGED <<child, reported, standing>>
         ELSE /\ standing' = {}
              /\ IF stopped THEN pass' = Idle /\ UNCHANGED <<child, reported>>
                 ELSE IF busy THEN Acquire ELSE Decide
      /\ UNCHANGED <<clock, place, life, broken>>

\* A rejected probe, whoever has stopped the manager since.
Rejects == /\ pass.at = "probing" /\ "probe" \in broken
           /\ standing' = {}
           /\ FailAwake
           /\ UNCHANGED <<clock, place, life, broken>>

\* The notification gateway has answered, with or without success.
Notified == /\ pass.at = "notifying" /\ pass' = Idle
            /\ UNCHANGED <<clock, place, child, standing, life, reported, broken>>

Stop == /\ started /\ ~stopped
        /\ stopped' = TRUE
        /\ Release
        /\ UNCHANGED <<clock, place, pass, standing, started, reported, broken>>

-----------------------------------------------------------------------------
(* The environment *)

\* Quiet hours begin, or the wake time comes.
Clock == /\ quiet' = ~quiet
         /\ UNCHANGED <<mode, place, child, pass, standing, life, reported, broken>>

Moved(t, p) == /\ place' = [place EXCEPT ![t] = p]
               /\ UNCHANGED <<clock, child, pass, life, reported, broken>>

Arrives(t) == /\ ~Working(t)
              /\ \E p \in {"queue", "order"} : Moved(t, p)
              /\ UNCHANGED standing

\* A handler returns while its agent works on; an order ends before its lease.
Proceeds(t) == /\ \/ place[t] = "queue" /\ \E a \in Agent : Moved(t, a)
                  \/ place[t] = "order" /\ Moved(t, "lease")
               /\ UNCHANGED standing

Finishes(t) == Working(t) /\ Moved(t, "none") /\ standing' = standing \ {t}

Breaks == /\ \E f \in Faults \ broken : broken' = broken \cup {f}
          /\ UNCHANGED <<clock, place, child, pass, standing, life, reported>>

Mends == /\ \E f \in broken : broken' = broken \ {f}
         /\ UNCHANGED <<clock, place, child, pass, standing, life, reported>>

Environment == \/ Clock \/ Breaks \/ Mends
               \/ \E t \in Task : Arrives(t) \/ Proceeds(t) \/ Finishes(t)

Next == \/ Start \/ Tick \/ Stop
        \/ \E a \in Agent : Inspect(a)
        \/ Rejects \/ Notified
        \/ Up \/ Ends
        \/ Environment

Spec == Init /\ [][Next]_vars

\* The timer fires, commands and notifications return, a spawned child starts or
\* fails.  Nothing is assumed of the clock, of tasks, of faults and of Stop.
FairSpec == /\ Spec
            /\ WF_vars(Start) /\ WF_vars(Tick)
            /\ WF_vars(Rejects \/ \E a \in Agent : Inspect(a))
            /\ WF_vars(Notified)
            /\ WF_vars(Up \/ Ends)
-----------------------------------------------------------------------------
(* Properties *)

TypeOK ==
  /\ mode \in Modes /\ quiet \in BOOLEAN
  /\ place \in [Task -> Places]
  /\ child \in {"none", "starting", "up"}
  /\ pass \in [at: {"idle", "probing", "notifying"}, left: SUBSET Agent, busy: BOOLEAN]
  /\ standing \in SUBSET Task
  /\ started \in BOOLEAN /\ stopped \in BOOLEAN /\ reported \in BOOLEAN
  /\ broken \in SUBSET Faults

Running == started /\ ~stopped
Awake   == child = "up"

\* In scheduled mode the host is kept awake, whatever passes were in flight and
\* whatever caffeinate has suffered before, as long as the service window lasts, a
\* task lasts, the wake event cannot be verified, or the probe cannot be read
\* (docs/agent-maintenance-guidelines.md:77-80, "fails awake").
StaysAwake ==
  /\ <>[](Running /\ mode = "scheduled" /\ "caffeinate" \notin broken)
  /\ \/ <>[](~quiet)
     \/ \E t \in Task : <>[]Working(t)
     \/ <>[]("wake" \in broken)
     \/ <>[]("probe" \in broken)
  => <>[]Awake

\* In quiet hours, with all work drained and the wake event verified, the assertion
\* is released and stays so (docs/manual.md:172-174).
SleepsWhenDrained ==
  <>[](/\ Running /\ mode = "scheduled" /\ quiet
       /\ \A t \in Task : ~Working(t)
       /\ broken \cap {"wake", "probe"} = {})
  => <>[](child = "none")

Releases == child # "none" /\ child' = "none" /\ pass.at = "probing" /\ pass' = Idle

\* A pass that allows sleep has overlooked no task that was there all the time it
\* was looking, although tasks move between the places it looks at, one after the
\* other.
KeepsStandingWork == [][Releases => standing = {}]_vars

\* always "holds caffeinate -s on AC power" (docs/agent-maintenance-guidelines.md:76).
AlwaysHolds ==
  <>[](Running /\ mode = "always" /\ "caffeinate" \notin broken) => <>[]Awake

\* A "keep-awake acquisition failure" is actionable
\* (docs/superpowers/specs/2026-08-13-notification-governance-design.md:31): if
\* caffeinate never comes up, the owner is told.
FailureReported ==
  <>[](Running /\ ~quiet /\ ~Awake /\ "caffeinate" \in broken) => <>reported

\* The manager stops its timer "with the assertion"
\* (tests/core/power-manager.test.ts:207): nothing holds it afterwards.
StopReleases == stopped => child = "none"
=============================================================================
