---------------------------- MODULE MCEmbedFanout ----------------------------
(* Instances of EmbedFanout for TLC: two searches with request ids of their   *)
(* own, or one alone.                                                         *)
EXTENDS EmbedFanout, TLC

CONSTANTS s1, s2

OneSearcher == {s1}
TwoSearchers == {s1, s2}

Solo == s1 :> "r1"
Strangers == s1 :> "r1" @@ s2 :> "r2"

SoloTwo == s1 :> 2
TwoAndOne == s1 :> 2 @@ s2 :> 1
===============================================================================
