---------------------- MODULE MCOptimizationOperations ----------------------
(* Any optimization of a semester, for TLC: others meet it only through the *)
(* planning data (ChangeInputs) and the registry lock, which delays.        *)
EXTENDS OptimizationOperations, TLC
=============================================================================
