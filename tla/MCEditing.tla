----------------------------- MODULE MCEditing -----------------------------
(* Editing with model values for members, requests and texts.              *)
EXTENDS EditingInduction, TLC

(* All four sets are interchangeable: used in the safety run only.         *)
Symmetry == Permutations(Member) \cup Permutations(Request)
              \cup Permutations(Subject) \cup Permutations(Body)

=============================================================================
