-------------------------------- MODULE Sums --------------------------------
(***************************************************************************)
(* Totals that a loop adds up: the points of an evaluation                 *)
(* (NormalizeLegacyEvaluation) and the weights of a detection's chunks     *)
(* (validateLocalDetection).                                               *)
(***************************************************************************)
EXTENDS Naturals, Sequences

\* What the loop holds after i of the numbers.
RunningSum(numbers) ==
  LET sum[i \in 0..Len(numbers)] == IF i = 0 THEN 0 ELSE sum[i - 1] + numbers[i]
  IN sum

SumOf(numbers) == RunningSum(numbers)[Len(numbers)]
=============================================================================
