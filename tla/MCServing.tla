----------------------------- MODULE MCServing ------------------------------
(* Serving with interchangeable requests.                                  *)
EXTENDS ServingInduction, TLC

Symmetry == Permutations(Request)
=============================================================================
