--------------------------- MODULE MCResponseStore ---------------------------
(* Replicas are interchangeable. *)
EXTENDS ResponseStore, TLC

CONSTANTS r1, r2

OnePod == {r1}
TwoPods == {r1, r2}
PodSymmetry == Permutations(TwoPods)
===============================================================================
