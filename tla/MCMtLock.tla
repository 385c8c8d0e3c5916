------------------------------ MODULE MCMtLock ------------------------------
(* Instances of MtLock for TLC.                                            *)
EXTENDS MtLock, TLC

CONSTANTS t1, t2, t3

TwoThreads == {t1, t2}
ThreeThreads == {t1, t2, t3}

OnlyRecursive == {"recursive"}

None == {}
OnlyThird == {t3}

Sym2 == Permutations(TwoThreads)
Sym3 == Permutations(ThreeThreads)
=============================================================================
