--------------------------- MODULE MCCoverageSystem ---------------------------
(* Two models and two jobs; a job's files make one chunk or two. *)
EXTENDS CoverageSystem

CONSTANTS m1, m2

TwoModels == {m1, m2}
===============================================================================
