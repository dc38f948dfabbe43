------------------------------ MODULE MCBoard ------------------------------
(* Board with model values for members and requests.                       *)
EXTENDS BoardRefinement, BoardInduction, TLC

(* Members and requests are interchangeable: not used for liveness.        *)
Symmetry == Permutations(Member) \cup Permutations(Request)

=============================================================================
