-------------------------- MODULE MCLecturerReview --------------------------
(* Review links of a small semester, for TLC. *)
EXTENDS LecturerReview, TLC

CommentSymmetry == Permutations(Comments)
=============================================================================
