-------------------- MODULE DelegationJournalRefinement --------------------
(* The journal's files, read as the status of each attempt. *)
EXTENDS DelegationJournal

StatusOf(a) ==
  IF a \notin Linked THEN "new"
  ELSE IF settled[a] # "none" THEN settled[a]
  ELSE IF started[a] = "claimed" THEN "running" ELSE "reserved"

LedgerStatus == [a \in Attempt |-> StatusOf(a)]

Ledger == INSTANCE ExclusiveAttempts WITH status <- LedgerStatus

\* Callers racing over the files, and crashing between two of them, behave as
\* one exclusive sequence of attempts, each of them run at most once.
RunsOneAttemptAtATime == Ledger!Spec
=============================================================================
