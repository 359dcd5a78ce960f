------------------------------ MODULE MCAnalytics -------------------------------
(* Instances of Analytics for model checking.                                  *)
EXTENDS Analytics, TLC

CONSTANTS w1, w2

WorkerSymmetry == Permutations(Workers)
=================================================================================
