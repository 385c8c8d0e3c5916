-------------------------- MODULE ImportPoolProofs --------------------------
(***************************************************************************)
(* Proofs about ImportPool, for any number of foreign pthreads and thread  *)
(* objects.                                                                *)
(***************************************************************************)
EXTENDS ImportPool, TLAPS

(* The state after the boot satisfies the invariant.                       *)
LEMMA PoolInit == Init => PoolInv
<1> SUFFICES ASSUME Init PROVE PoolInv
  OBVIOUS
<1>1. TypeOK /\ RefillTokens
  BY PoolAssumption DEF Init, TypeOK, RefillTokens, Env
<1>2. EnvExclusive /\ NoEnvLost
  BY DEF Init, EnvExclusive, NoEnvLost, Holding
<1>3. LockIsWaiter /\ ImportKind /\ ListedIsInLisp /\ StoppedIdents
  BY PoolAssumption DEF Init, LockIsWaiter, ImportKind, ListedIsInLisp,
     StoppedIdents
<1> QED  BY <1>1, <1>2, <1>3 DEF PoolInv

(* Every step of the filler and of the foreign pthreads keeps it.          *)
LEMMA PoolStep == PoolInv /\ [Next]_vars => PoolInv'
<1> SUFFICES ASSUME PoolInv, [Next]_vars PROVE PoolInv'
  OBVIOUS
<1>0. /\ TypeOK /\ EnvExclusive /\ NoEnvLost /\ RefillTokens
      /\ LockIsWaiter /\ ImportKind /\ ListedIsInLisp /\ StoppedIdents
  BY DEF PoolInv
<1> USE PoolAssumption DEF others
<1>a. \A f \in Foreign : at[f] \in Holding => env[f] \in Env
  BY <1>0 DEF TypeOK, EnvExclusive, Env
<1>1. CASE FillerWait
  <2>1. TypeOK'
    BY <1>0, <1>1 DEF FillerWait, TypeOK, Holding, Env
  <2>2. EnvExclusive'
    BY <1>0, <1>1 DEF FillerWait, EnvExclusive, Holding, TypeOK
  <2>3. NoEnvLost'
    BY <1>0, <1>1 DEF FillerWait, NoEnvLost, Holding, TypeOK
  <2>4. RefillTokens'
    BY <1>0, <1>1 DEF FillerWait, RefillTokens, TypeOK
  <2>5. LockIsWaiter'
    BY <1>0, <1>1 DEF FillerWait, LockIsWaiter, TypeOK
  <2>6. ImportKind'
    BY <1>0, <1>1 DEF FillerWait, ImportKind, TypeOK
  <2>7. ListedIsInLisp'
    BY <1>0, <1>1 DEF FillerWait, ListedIsInLisp, TypeOK
  <2>8. StoppedIdents'
    BY <1>0, <1>1 DEF FillerWait, StoppedIdents
  <2> QED  BY <2>1, <2>2, <2>3, <2>4, <2>5, <2>6, <2>7, <2>8 DEF PoolInv
<1>2. CASE Fill
  <2>1. TypeOK'
    BY <1>0, <1>2 DEF Fill, TypeOK, Holding, Env
  <2>2. EnvExclusive'
    BY <1>0, <1>2 DEF Fill, EnvExclusive, Holding, TypeOK
  <2>3. NoEnvLost'
    BY <1>0, <1>2 DEF Fill, NoEnvLost, Holding, TypeOK
  <2>4. RefillTokens'
    BY <1>0, <1>2 DEF Fill, RefillTokens, TypeOK
  <2>5. LockIsWaiter'
    BY <1>0, <1>2 DEF Fill, LockIsWaiter, TypeOK
  <2>6. ImportKind'
    BY <1>0, <1>2 DEF Fill, ImportKind, TypeOK
  <2>7. ListedIsInLisp'
    BY <1>0, <1>2 DEF Fill, ListedIsInLisp, TypeOK
  <2>8. StoppedIdents'
    BY <1>0, <1>2 DEF Fill, StoppedIdents
  <2> QED  BY <2>1, <2>2, <2>3, <2>4, <2>5, <2>6, <2>7, <2>8 DEF PoolInv
<1>3. CASE FillerPost
  <2>1. TypeOK'
    BY <1>0, <1>3 DEF FillerPost, TypeOK, Holding, Env
  <2>2. EnvExclusive'
    BY <1>0, <1>3 DEF FillerPost, EnvExclusive, Holding, TypeOK
  <2>3. NoEnvLost'
    BY <1>0, <1>3 DEF FillerPost, NoEnvLost, Holding, TypeOK
  <2>4. RefillTokens'
    BY <1>0, <1>3 DEF FillerPost, RefillTokens, TypeOK
  <2>5. LockIsWaiter'
    BY <1>0, <1>3 DEF FillerPost, LockIsWaiter, TypeOK
  <2>6. ImportKind'
    BY <1>0, <1>3 DEF FillerPost, ImportKind, TypeOK
  <2>7. ListedIsInLisp'
    BY <1>0, <1>3 DEF FillerPost, ListedIsInLisp, TypeOK
  <2>8. StoppedIdents'
    BY <1>0, <1>3 DEF FillerPost, StoppedIdents
  <2> QED  BY <2>1, <2>2, <2>3, <2>4, <2>5, <2>6, <2>7, <2>8 DEF PoolInv
<1>4. ASSUME NEW f \in Foreign, Import(f) PROVE PoolInv'
  <2>1. TypeOK'
    BY <1>0, <1>a, <1>4 DEF Import, Goto, TypeOK, Holding, Env
  <2>2. EnvExclusive'
    BY <1>0, <1>4 DEF Import, Goto, EnvExclusive, Holding, TypeOK
  <2>3. NoEnvLost'
    BY <1>0, <1>4 DEF Import, Goto, NoEnvLost, Holding, TypeOK
  <2>4. RefillTokens'
    BY <1>0, <1>4 DEF Import, Goto, RefillTokens, TypeOK
  <2>5. LockIsWaiter'
    BY <1>0, <1>4 DEF Import, Goto, LockIsWaiter, TypeOK
  <2>6. ImportKind'
    BY <1>0, <1>a, <1>4 DEF Import, Goto, ImportKind, TypeOK
  <2>7. ListedIsInLisp'
    BY <1>0, <1>4 DEF Import, Goto, ListedIsInLisp, TypeOK
  <2>8. StoppedIdents'
    BY <1>0, <1>4 DEF Import, Goto, StoppedIdents, TypeOK
  <2> QED  BY <2>1, <2>2, <2>3, <2>4, <2>5, <2>6, <2>7, <2>8 DEF PoolInv
<1>5. ASSUME NEW f \in Foreign, PopTake(f) PROVE PoolInv'
  <2>1. TypeOK'
    BY <1>0, <1>a, <1>5 DEF PopTake, Goto, TypeOK, Holding, Env
  <2>2. EnvExclusive'
    BY <1>0, <1>5 DEF PopTake, Goto, EnvExclusive, Holding, TypeOK
  <2>3. NoEnvLost'
    BY <1>0, <1>5 DEF PopTake, Goto, NoEnvLost, Holding, TypeOK
  <2>4. RefillTokens'
    BY <1>0, <1>5 DEF PopTake, Goto, RefillTokens, TypeOK
  <2>5. LockIsWaiter'
    BY <1>0, <1>5 DEF PopTake, Goto, LockIsWaiter, TypeOK
  <2>6. ImportKind'
    BY <1>0, <1>a, <1>5 DEF PopTake, Goto, ImportKind, TypeOK, EnvExclusive,
       Holding
  <2>7. ListedIsInLisp'
    BY <1>0, <1>5 DEF PopTake, Goto, ListedIsInLisp, TypeOK
  <2>8. StoppedIdents'
    BY <1>0, <1>5 DEF PopTake, Goto, StoppedIdents, TypeOK
  <2> QED  BY <2>1, <2>2, <2>3, <2>4, <2>5, <2>6, <2>7, <2>8 DEF PoolInv
<1>6. ASSUME NEW f \in Foreign, PopEmpty(f) PROVE PoolInv'
  <2>1. TypeOK'
    BY <1>0, <1>a, <1>6 DEF PopEmpty, Goto, TypeOK, Holding, Env
  <2>2. EnvExclusive'
    BY <1>0, <1>6 DEF PopEmpty, Goto, EnvExclusive, Holding, TypeOK
  <2>3. NoEnvLost'
    BY <1>0, <1>6 DEF PopEmpty, Goto, NoEnvLost, Holding, TypeOK
  <2>4. RefillTokens'
    BY <1>0, <1>6 DEF PopEmpty, Goto, RefillTokens, TypeOK
  <2>5. LockIsWaiter'
    BY <1>0, <1>6 DEF PopEmpty, Goto, LockIsWaiter, TypeOK
  <2>6. ImportKind'
    BY <1>0, <1>a, <1>6 DEF PopEmpty, Goto, ImportKind, TypeOK
  <2>7. ListedIsInLisp'
    BY <1>0, <1>6 DEF PopEmpty, Goto, ListedIsInLisp, TypeOK
  <2>8. StoppedIdents'
    BY <1>0, <1>6 DEF PopEmpty, Goto, StoppedIdents, TypeOK
  <2> QED  BY <2>1, <2>2, <2>3, <2>4, <2>5, <2>6, <2>7, <2>8 DEF PoolInv
<1>7. ASSUME NEW f \in Foreign, PopRefilled(f) PROVE PoolInv'
  <2>0. at[f] = "waiting" /\ lock = f /\ pool = {}
    BY <1>0, <1>7 DEF PopRefilled, LockIsWaiter
  <2>a. /\ full' \in Nat /\ lock' = NIL
        /\ at' = [at EXCEPT ![f] = "out"]
        /\ UNCHANGED <<pool, made, empty, filler, env, must, ident, result,
                       threads, gc, leaked, stopped, joined>>
    BY <1>0, <1>7, <2>0 DEF PopRefilled, Goto, TypeOK
  <2>1. TypeOK'
    BY <1>0, <2>0, <2>a, <1>7 DEF TypeOK, Holding, Env
  <2>2. EnvExclusive'
    BY <1>0, <2>0, <2>a, <1>7 DEF EnvExclusive, Holding, TypeOK
  <2>3. NoEnvLost'
    BY <1>0, <2>0, <2>a, <1>7 DEF NoEnvLost, Holding, TypeOK
  <2>4. RefillTokens'
    BY <1>0, <1>7 DEF PopRefilled, Goto, RefillTokens, TypeOK, LockIsWaiter
  <2>5. LockIsWaiter'
    BY <1>0, <2>0, <2>a, <1>7 DEF LockIsWaiter, TypeOK
  <2>6. ImportKind'
    BY <1>0, <2>0, <2>a, <1>7 DEF ImportKind, TypeOK
  <2>7. ListedIsInLisp'
    BY <1>0, <2>0, <2>a, <1>7 DEF ListedIsInLisp, TypeOK
  <2>8. StoppedIdents'
    BY <1>0, <2>0, <2>a, <1>7 DEF StoppedIdents, TypeOK
  <2> QED  BY <2>1, <2>2, <2>3, <2>4, <2>5, <2>6, <2>7, <2>8 DEF PoolInv
<1>8. ASSUME NEW f \in Foreign, NoStackBase(f) PROVE PoolInv'
  <2>1. TypeOK'
    BY <1>0, <1>a, <1>8 DEF NoStackBase, Goto, TypeOK, Holding, Env
  <2>2. EnvExclusive'
    BY <1>0, <1>8 DEF NoStackBase, Goto, EnvExclusive, Holding, TypeOK
  <2>3. NoEnvLost'
    BY <1>0, <1>8 DEF NoStackBase, Goto, NoEnvLost, Holding, TypeOK
  <2>4. RefillTokens'
    BY <1>0, <1>8 DEF NoStackBase, Goto, RefillTokens, TypeOK
  <2>5. LockIsWaiter'
    BY <1>0, <1>8 DEF NoStackBase, Goto, LockIsWaiter, TypeOK
  <2>6. ImportKind'
    BY <1>0, <1>a, <1>8 DEF NoStackBase, Goto, ImportKind, TypeOK
  <2>7. ListedIsInLisp'
    BY <1>0, <1>8 DEF NoStackBase, Goto, ListedIsInLisp, TypeOK
  <2>8. StoppedIdents'
    BY <1>0, <1>8 DEF NoStackBase, Goto, StoppedIdents, TypeOK
  <2> QED  BY <2>1, <2>2, <2>3, <2>4, <2>5, <2>6, <2>7, <2>8 DEF PoolInv
<1>9. ASSUME NEW f \in Foreign, GcRegister(f) PROVE PoolInv'
  <2>1. TypeOK'
    BY <1>0, <1>a, <1>9 DEF GcRegister, Goto, TypeOK, Holding, Env
  <2>2. EnvExclusive'
    BY <1>0, <1>9 DEF GcRegister, Goto, EnvExclusive, Holding, TypeOK
  <2>3. NoEnvLost'
    BY <1>0, <1>9 DEF GcRegister, Goto, NoEnvLost, Holding, TypeOK
  <2>4. RefillTokens'
    BY <1>0, <1>9 DEF GcRegister, Goto, RefillTokens, TypeOK
  <2>5. LockIsWaiter'
    BY <1>0, <1>9 DEF GcRegister, Goto, LockIsWaiter, TypeOK
  <2>6. ImportKind'
    BY <1>0, <1>a, <1>9 DEF GcRegister, Goto, ImportKind, TypeOK, EnvExclusive,
       Holding
  <2>7. ListedIsInLisp'
    BY <1>0, <1>9 DEF GcRegister, Goto, ListedIsInLisp, TypeOK
  <2>8. StoppedIdents'
    BY <1>0, <1>9 DEF GcRegister, Goto, StoppedIdents, TypeOK
  <2> QED  BY <2>1, <2>2, <2>3, <2>4, <2>5, <2>6, <2>7, <2>8 DEF PoolInv
<1>10. ASSUME NEW f \in Foreign, RegisterActive(f) PROVE PoolInv'
  <2>1. TypeOK'
    BY <1>0, <1>a, <1>10 DEF RegisterActive, Goto, TypeOK, Holding, Env
  <2>2. EnvExclusive'
    BY <1>0, <1>10 DEF RegisterActive, Goto, EnvExclusive, Holding, TypeOK
  <2>3. NoEnvLost'
    BY <1>0, <1>10 DEF RegisterActive, Goto, NoEnvLost, Holding, TypeOK
  <2>4. RefillTokens'
    BY <1>0, <1>10 DEF RegisterActive, Goto, RefillTokens, TypeOK
  <2>5. LockIsWaiter'
    BY <1>0, <1>10 DEF RegisterActive, Goto, LockIsWaiter, TypeOK
  <2>6. ImportKind'
    BY <1>0, <1>a, <1>10 DEF RegisterActive, Goto, ImportKind, TypeOK
  <2>7. ListedIsInLisp'
    BY <1>0, <1>10 DEF RegisterActive, Goto, ListedIsInLisp, TypeOK
  <2>8. StoppedIdents'
    BY <1>0, <1>10 DEF RegisterActive, Goto, StoppedIdents, TypeOK
  <2> QED  BY <2>1, <2>2, <2>3, <2>4, <2>5, <2>6, <2>7, <2>8 DEF PoolInv
<1>11. ASSUME NEW f \in Foreign, Release(f) PROVE PoolInv'
  <2>1. TypeOK'
    BY <1>0, <1>a, <1>11 DEF Release, Goto, TypeOK, Holding, Env
  <2>2. EnvExclusive'
    BY <1>0, <1>11 DEF Release, Goto, EnvExclusive, Holding, TypeOK
  <2>3. NoEnvLost'
    BY <1>0, <1>11 DEF Release, Goto, NoEnvLost, Holding, TypeOK
  <2>4. RefillTokens'
    BY <1>0, <1>11 DEF Release, Goto, RefillTokens, TypeOK
  <2>5. LockIsWaiter'
    BY <1>0, <1>11 DEF Release, Goto, LockIsWaiter, TypeOK
  <2>6. ImportKind'
    BY <1>0, <1>a, <1>11 DEF Release, Goto, ImportKind, TypeOK, EnvExclusive,
       Holding
  <2>7. ListedIsInLisp'
    BY <1>0, <1>11 DEF Release, Goto, ListedIsInLisp, TypeOK, ImportKind,
       EnvExclusive, Holding
  <2>8. StoppedIdents'
    BY <1>0, <1>11 DEF Release, Goto, StoppedIdents, TypeOK
  <2> QED  BY <2>1, <2>2, <2>3, <2>4, <2>5, <2>6, <2>7, <2>8 DEF PoolInv
<1>12. ASSUME NEW f \in Foreign, PushBack(f) PROVE PoolInv'
  <2>1. TypeOK'
    BY <1>0, <1>a, <1>12 DEF PushBack, Goto, TypeOK, Holding, Env
  <2>2. EnvExclusive'
    BY <1>0, <1>12 DEF PushBack, Goto, EnvExclusive, Holding, TypeOK
  <2>3. NoEnvLost'
    BY <1>0, <1>12 DEF PushBack, Goto, NoEnvLost, Holding, TypeOK
  <2>4. RefillTokens'
    BY <1>0, <1>12 DEF PushBack, Goto, RefillTokens, TypeOK
  <2>5. LockIsWaiter'
    BY <1>0, <1>12 DEF PushBack, Goto, LockIsWaiter, TypeOK
  <2>6. ImportKind'
    BY <1>0, <1>a, <1>12 DEF PushBack, Goto, ImportKind, TypeOK
  <2>7. ListedIsInLisp'
    BY <1>0, <1>12 DEF PushBack, Goto, ListedIsInLisp, TypeOK
  <2>8. StoppedIdents'
    BY <1>0, <1>12 DEF PushBack, Goto, StoppedIdents, TypeOK
  <2> QED  BY <2>1, <2>2, <2>3, <2>4, <2>5, <2>6, <2>7, <2>8 DEF PoolInv
<1>13. ASSUME NEW f \in Foreign, Unregister(f) PROVE PoolInv'
  <2>1. TypeOK'
    BY <1>0, <1>a, <1>13 DEF Unregister, Goto, TypeOK, Holding, Env
  <2>2. EnvExclusive'
    BY <1>0, <1>13 DEF Unregister, Goto, EnvExclusive, Holding, TypeOK
  <2>3. NoEnvLost'
    BY <1>0, <1>13 DEF Unregister, Goto, NoEnvLost, Holding, TypeOK
  <2>4. RefillTokens'
    BY <1>0, <1>13 DEF Unregister, Goto, RefillTokens, TypeOK
  <2>5. LockIsWaiter'
    BY <1>0, <1>13 DEF Unregister, Goto, LockIsWaiter, TypeOK
  <2>6. ImportKind'
    BY <1>0, <1>a, <1>13 DEF Unregister, Goto, ImportKind, TypeOK
  <2>7. ListedIsInLisp'
    BY <1>0, <1>13 DEF Unregister, Goto, ListedIsInLisp, TypeOK
  <2>8. StoppedIdents'
    BY <1>0, <1>13 DEF Unregister, Goto, StoppedIdents, TypeOK
  <2> QED  BY <2>1, <2>2, <2>3, <2>4, <2>5, <2>6, <2>7, <2>8 DEF PoolInv
<1>14. ASSUME NEW f \in Foreign, Interrupted(f) PROVE PoolInv'
  <2>1. TypeOK'
    BY <1>0, <1>a, <1>14 DEF Interrupted, Goto, TypeOK, Holding, Env
  <2>2. EnvExclusive'
    BY <1>0, <1>a, <1>14 DEF Interrupted, Goto, EnvExclusive, Holding, TypeOK
  <2>3. NoEnvLost'
    BY <1>0, <1>a, <1>14 DEF Interrupted, Goto, NoEnvLost, Holding, TypeOK
  <2>4. RefillTokens'
    BY <1>0, <1>a, <1>14 DEF Interrupted, Goto, RefillTokens, TypeOK
  <2>5. LockIsWaiter'
    BY <1>0, <1>a, <1>14 DEF Interrupted, Goto, LockIsWaiter, TypeOK
  <2>6. ImportKind'
    BY <1>0, <1>a, <1>14 DEF Interrupted, Goto, ImportKind, TypeOK, EnvExclusive,
       Holding
  <2>7. ListedIsInLisp'
    BY <1>0, <1>a, <1>14 DEF Interrupted, Goto, ListedIsInLisp, TypeOK
  <2>8. StoppedIdents'
    BY <1>0, <1>a, <1>14 DEF Interrupted, Goto, StoppedIdents, TypeOK, EnvExclusive,
       Holding
  <2> QED  BY <2>1, <2>2, <2>3, <2>4, <2>5, <2>6, <2>7, <2>8 DEF PoolInv
<1>15. ASSUME NEW f \in Foreign, Resumed(f) PROVE PoolInv'
  <2>1. TypeOK'
    BY <1>0, <1>a, <1>15 DEF Resumed, Goto, TypeOK, Holding, Env
  <2>2. EnvExclusive'
    BY <1>0, <1>a, <1>15 DEF Resumed, Goto, EnvExclusive, Holding, TypeOK
  <2>3. NoEnvLost'
    BY <1>0, <1>a, <1>15 DEF Resumed, Goto, NoEnvLost, Holding, TypeOK
  <2>4. RefillTokens'
    BY <1>0, <1>a, <1>15 DEF Resumed, Goto, RefillTokens, TypeOK
  <2>5. LockIsWaiter'
    BY <1>0, <1>a, <1>15 DEF Resumed, Goto, LockIsWaiter, TypeOK
  <2>6. ImportKind'
    BY <1>0, <1>a, <1>15 DEF Resumed, Goto, ImportKind, TypeOK, EnvExclusive,
       Holding
  <2>7. ListedIsInLisp'
    BY <1>0, <1>a, <1>15 DEF Resumed, Goto, ListedIsInLisp, TypeOK
  <2>8. StoppedIdents'
    BY <1>0, <1>a, <1>15 DEF Resumed, Goto, StoppedIdents, TypeOK, EnvExclusive,
       Holding
  <2> QED  BY <2>1, <2>2, <2>3, <2>4, <2>5, <2>6, <2>7, <2>8 DEF PoolInv
<1>16. ASSUME NEW f \in Foreign, Reaped(f) PROVE PoolInv'
  <2>1. TypeOK'
    BY <1>0, <1>a, <1>16 DEF Reaped, TypeOK, Holding, Env
  <2>2. EnvExclusive'
    BY <1>0, <1>a, <1>16 DEF Reaped, EnvExclusive, Holding, TypeOK
  <2>3. NoEnvLost'
    BY <1>0, <1>a, <1>16 DEF Reaped, NoEnvLost, Holding, TypeOK
  <2>4. RefillTokens'
    BY <1>0, <1>a, <1>16 DEF Reaped, RefillTokens, TypeOK
  <2>5. LockIsWaiter'
    BY <1>0, <1>a, <1>16 DEF Reaped, LockIsWaiter, TypeOK
  <2>6. ImportKind'
    BY <1>0, <1>a, <1>16 DEF Reaped, ImportKind, TypeOK, EnvExclusive,
       Holding
  <2>7. ListedIsInLisp'
    BY <1>0, <1>a, <1>16 DEF Reaped, ListedIsInLisp, TypeOK
  <2>8. StoppedIdents'
    BY <1>0, <1>a, <1>16 DEF Reaped, StoppedIdents, TypeOK, EnvExclusive,
       Holding
  <2> QED  BY <2>1, <2>2, <2>3, <2>4, <2>5, <2>6, <2>7, <2>8 DEF PoolInv
<1>17. CASE Unlisted
  <2>1. TypeOK'
    BY <1>0, <1>17 DEF Unlisted, TypeOK
  <2>2. /\ EnvExclusive' /\ NoEnvLost' /\ RefillTokens'
        /\ LockIsWaiter' /\ ImportKind' /\ ListedIsInLisp' /\ StoppedIdents'
    BY <1>0, <1>17 DEF Unlisted, EnvExclusive, NoEnvLost, RefillTokens,
       LockIsWaiter, ImportKind, ListedIsInLisp, StoppedIdents
  <2> QED  BY <2>1, <2>2 DEF PoolInv
<1>18. CASE UNCHANGED vars
  BY <1>0, <1>18 DEF vars, PoolInv, TypeOK, EnvExclusive, NoEnvLost,
     RefillTokens, LockIsWaiter, ImportKind, ListedIsInLisp, StoppedIdents
<1> QED
  BY <1>1, <1>2, <1>3, <1>4, <1>5, <1>6, <1>7, <1>8, <1>9, <1>10, <1>11, <1>12,
     <1>13, <1>14, <1>15, <1>16, <1>17, <1>18 DEF Next, ForeignStep

(* The invariant holds in every reachable state.                           *)
THEOREM PoolInvariant == Spec => []PoolInv
BY PoolInit, PoolStep, PTL DEF Spec

(* A thread object belongs to one foreign pthread or to the pool, from the *)
(* pop to the push back.                                                   *)
THEOREM EnvHasOneUser == Spec => []EnvExclusive
<1>1. PoolInv => EnvExclusive
  BY DEF PoolInv
<1> QED  BY <1>1, PoolInvariant, PTL

(* No thread object is lost on the way, but for want of a stack base.      *)
THEOREM EnvsAreAccountedFor == Spec => []NoEnvLost
<1>1. PoolInv => NoEnvLost
  BY DEF PoolInv
<1> QED  BY <1>1, PoolInvariant, PTL

(* Each request to the filler is answered once, so the answer to the       *)
(* initial fill-up waits in `full' for the first one who finds no object.  *)
THEOREM RefillTokensConserved == Spec => []RefillTokens
<1>1. PoolInv => RefillTokens
  BY DEF PoolInv
<1> QED  BY <1>1, PoolInvariant, PTL

(* The list knows every pthread that runs Lisp code, stopped by an         *)
(* interrupt or not, and forgets it when it leaves, so that its next import*)
(* is not refused as a second one; a new pthread is refused only for the   *)
(* ident of a Lisp thread that was reaped and not yet taken off the list.  *)
THEOREM ReleaseForgets == Spec => []KnownInLisp
<1>1. ASSUME PoolInv PROVE KnownInLisp
  <2>1. /\ TypeOK /\ ListedIsInLisp /\ ImportKind /\ StoppedIdents
        /\ \A e \in threads : e \in Env
    BY <1>1 DEF PoolInv, TypeOK
  <2>2. ASSUME NEW f \in Foreign, at[f] \in {"lisp", "stopped"} PROVE Known(f)
    BY <2>1, <2>2 DEF Known, ListedIsInLisp, ImportKind
  <2>3. ASSUME NEW f \in Foreign, at[f] = "out", NEW e \in threads,
               ident[e] = f \/ stopped[e] = f
        PROVE  FALSE
    <3>1. PICK g \in Foreign : at[g] \in {"lisp", "stopped"} /\ env[g] = e
      BY <2>1 DEF ListedIsInLisp
    <3>2. stopped[e] # f
      BY <2>1, <2>3 DEF StoppedIdents
    <3>3. ident[e] = g \/ ident[e] = Interrupt
      BY <2>1, <3>1 DEF ImportKind
    <3> QED  BY <2>3, <3>1, <3>2, <3>3, PoolAssumption
  <2> QED  BY <2>2, <2>3 DEF KnownInLisp, Known
<1> QED  BY <1>1, PoolInvariant, PTL

(* The collector knows a pthread out of Lisp only if it did before.        *)
THEOREM CollectorForgets == Spec => []GcBalanced
<1>1. PoolInv => GcBalanced
  BY DEF PoolInv, GcBalanced, ImportKind
<1> QED  BY <1>1, PoolInvariant, PTL
=============================================================================
