----------------------- MODULE MCDraftsAndOperations -----------------------
(* The drafts of a semester and its optimization, for TLC: each is         *)
(* explored while the other has not begun.  To an operation, what planners *)
(* do with drafts is ChangeInputs; to a draft, what an operation saves is  *)
(* Regenerate.                                                             *)
EXTENDS MCDraftSchedule, MCOptimizationOperations

TeachingInit == Init /\ DraftInit

OneAfterTheOther ==
  \/ Next /\ DraftInit /\ UNCHANGED draftVars
  \/ DraftNext /\ Init /\ UNCHANGED vars

TeachingSpec ==
  TeachingInit /\ [][OneAfterTheOther]_<<vars, draftVars>> /\ Fairness
=============================================================================
