-------------------------- MODULE MCThreadInterrupt --------------------------
(* Instances of ThreadInterrupt for TLC.                                   *)
EXTENDS ThreadInterrupt, TLC

CONSTANTS t1, c1, c2, c3

OneTarget == {t1}
TwoCalls == {c1, c2}
ThreeCalls == {c1, c2, c3}
None == {}

Sym3 == Permutations(ThreeCalls)
==============================================================================
