---------------------------- MODULE MCImportPool ----------------------------
(* Instances of ImportPool for TLC.                                        *)
EXTENDS ImportPool, TLC

CONSTANTS f1, f2, f3

TwoForeign == {f1, f2}
ThreeForeign == {f1, f2, f3}
OneKnown == {f3}
NoneKnown == {}

Sym == Permutations(TwoForeign)
=============================================================================
