----------------------------- MODULE MCDlqHandler -----------------------------
(* An instance of DlqHandler for TLC: two messages. *)
EXTENDS DlqHandler

CONSTANTS m1, m2
TwoMsgs == {m1, m2}
===============================================================================
