------------------------ MODULE MCDelegationJournal ------------------------
(* DelegationJournal for TLC: callers and attempts are interchangeable. *)
EXTENDS DelegationJournalRefinement, TLC

Symmetry == Permutations(Caller) \cup Permutations(Attempt)
=============================================================================
