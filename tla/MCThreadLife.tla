---------------------------- MODULE MCThreadLife ----------------------------
(* Instances of ThreadLife for TLC.                                        *)
EXTENDS ThreadLife, TLC

CONSTANTS a, b, c1, c2, c3, f, g

OneObj == {a}
TwoObjs == {a, b}
TwoCallers == {c1, c2}
ThreeCallers == {c1, c2, c3}
OneFun == {f}
TwoFuns == {f, g}

Sym == Permutations(TwoCallers) \union Permutations(TwoFuns)
=============================================================================
