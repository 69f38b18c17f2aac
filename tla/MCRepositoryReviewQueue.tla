---------------------- MODULE MCRepositoryReviewQueue ----------------------
(* RepositoryReviewQueue for TLC: all reviews of one repository, or each of *)
(* its own. *)
EXTENDS RepositoryReviewQueue

OneRepository == [r \in Reviews |-> "repository"]
OwnRepository == [r \in Reviews |-> r]
=============================================================================
