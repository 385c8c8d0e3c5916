---------------------------- MODULE MCGfunCache ----------------------------
(* Instances of GfunCache for TLC.                                         *)
EXTENDS GfunCache

CONSTANTS t1, t2, g1, g2, k1, k2, k3, k4

OneThread == {t1}
TwoThreads == {t1, t2}
None == {}
OneGf == {g1}
TwoGfs == {g1, g2}
TwoKeys == {k1, k2}
ThreeKeys == {k1, k2, k3}
FourKeys == {k1, k2, k3, k4}
LongKey == {k4}

(* k1 and k3 are keys of g1, k2 and k4 of g2.                              *)
KeyGf == [k \in Key |-> IF k \in {k2, k4} THEN g2 ELSE g1]
SameRecord == [k \in Key |-> 0]
TwoHashes == [k \in Key |-> IF k = k2 THEN 1 ELSE 0]
=============================================================================
