---------------------------- MODULE MCBuildSystem ----------------------------
(* Two shells and two workers.  RequestsSettle rules out symmetry. *)
EXTENDS BuildSystem

CONSTANTS b1, b2, w1, w2

TwoBuilders == {b1, b2}
TwoWorkers == {w1, w2}
AllVersions == 0..MaxRuns
===============================================================================
