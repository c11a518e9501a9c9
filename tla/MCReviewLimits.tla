--------------------------- MODULE MCReviewLimits ---------------------------
(* A handful of requests against small limits, for TLC. *)
EXTENDS ReviewLimits, TLC

Symmetry == Permutations(Requests)
=============================================================================
