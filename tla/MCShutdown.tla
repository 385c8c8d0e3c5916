----------------------------- MODULE MCShutdown -----------------------------
(* Instances of Shutdown for TLC.                                          *)
EXTENDS Shutdown

CONSTANTS w1, w2, i, s, d, c1, c2

OneWorker == {w1}
TwoWorkers == {w1, w2}
OneCode == {c1}
TwoCodes == {c1, c2}
None == {}
MayRefuse == {w1, i}
InitialCleansUp == {<<i, TRUE>>}
=============================================================================
