------------------------- MODULE MCEvaluationQueue -------------------------
(***************************************************************************)
(* EvaluationQueue for TLC.  Server processes are interchangeable: their   *)
(* names only occur in worker ids and as indices.                          *)
(***************************************************************************)
EXTENDS EvaluationQueue, TLC

ServerSymmetry == Permutations(Servers)
=============================================================================
