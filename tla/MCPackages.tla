----------------------------- MODULE MCPackages -----------------------------
(* Instances of Packages for TLC.                                          *)
EXTENDS Packages

CONSTANTS t1, t2, a, b, c, s1, s2, n1

TwoThreads == {t1, t2}
ThreePackages == {a, b, c}
TwoSymbols == {s1, s2}
OneName == {n1}
SameName == [s \in Symbol |-> n1]
OneExported == {<<a, s1>>}
(* c uses a and b, which export, and has its own symbols.                  *)
Fork == {<<a, c>>, <<b, c>>}
(* What is taken back; c from itself; and a, which does not use c, from c, *)
(* the other way round.                                                    *)
TakenBack == {<<a, c>>, <<c, c>>, <<c, a>>}
Divided == [t \in Thread |-> [p \in Package |->
  IF t = t1 THEN CASE p = a -> {"export"}
                   [] p = b -> {"intern"}
                   [] p = c -> {"unintern", "import", "shadowing-import", "shadow", "use"}
            ELSE CASE p = a -> {"unexport", "unuse"}
                   [] p = b -> {"export"}
                   [] p = c -> {"intern", "use", "unuse"}]]
=============================================================================
