---------------------------- MODULE MtLockProofs ----------------------------
(* Theorems about MT:LOCK, for any set of threads, any mix of mutex kinds   *)
(* and any nesting depth.                                                   *)
EXTENDS MtLock, FiniteSums, TLAPS

LEMMA TypeInit == Init => TypeOK
  BY LockAssumption DEF Init, TypeOK, Locations, Pthread

LEMMA TypeStep == TypeOK /\ [Next]_vars => TypeOK'
<1> SUFFICES ASSUME TypeOK, [Next]_vars PROVE TypeOK'
  OBVIOUS
<1> USE LockAssumption DEF TypeOK, Locations
<1>1. ASSUME NEW p \in Pthread, PthreadStep(p) PROVE TypeOK'
  <2> p[1] \in Thread /\ p \in Pthread /\ p # NIL
    BY DEF Pthread
  <2>1. CASE GetLockHeld(p)
    BY <2>1 DEF GetLockHeld
  <2>2. CASE GetLockTry(p)
    BY <2>2 DEF GetLockTry, OsLock
  <2>3. CASE GetLock(p)
    BY <2>3 DEF GetLock
  <2>4. CASE OsAcquired(p)
    BY <2>4 DEF OsAcquired, OsLock
  <2>5. CASE OsRefused(p)
    BY <2>5 DEF OsRefused
  <2>6. CASE RecordHolder(p) \/ RestoreHolder(p)
    BY <2>6 DEF RecordHolder, RestoreHolder, Lisp
  <2>15. CASE CountLock(p)
    BY <2>15 DEF CountLock
  <2>7. CASE GiveupLock(p)
    BY <2>7 DEF GiveupLock
  <2>16. CASE ClearHolder(p)
    BY <2>16 DEF ClearHolder
  <2>8. CASE OsReleased(p)
    BY <2>8 DEF OsReleased, OsUnlock
  <2>9. CASE OsNotOwner(p)
    BY <2>9 DEF OsNotOwner, Lisp
  <2>10. CASE ConditionWait(p)
    BY <2>10 DEF ConditionWait, OsUnlock
  <2>11. CASE ConditionSignal(p)
    BY <2>11 DEF ConditionSignal
  <2>12. CASE ConditionTimeout(p)
    BY <2>12 DEF ConditionTimeout
  <2>13. CASE OsReacquired(p)
    BY <2>13 DEF OsReacquired, OsLock
  <2>14. CASE ConditionReturn(p)
    BY <2>14 DEF ConditionReturn, Lisp
  <2> QED
    BY <1>1, <2>1, <2>2, <2>3, <2>4, <2>5, <2>6, <2>7, <2>8, <2>9, <2>10,
       <2>11, <2>12, <2>13, <2>14, <2>15, <2>16 DEF PthreadStep
<1>2. CASE ConditionBroadcast
  BY <1>2 DEF ConditionBroadcast
<1>3. ASSUME NEW t \in Thread, Interrupt(t) PROVE TypeOK'
  BY <1>3 DEF Interrupt
<1>4. ASSUME NEW t \in Thread, EndInterrupt(t) PROVE TypeOK'
  BY <1>4 DEF EndInterrupt
<1>5. CASE UNCHANGED vars
  BY <1>5 DEF vars
<1> QED
  BY <1>1, <1>2, <1>3, <1>4, <1>5 DEF Next

(* The fields keep their types through every operation, and the OS mutex   *)
(* is owned exactly when it is counted.                                    *)
THEOREM LockTypeCorrect == Spec => []TypeOK
  BY TypeInit, TypeStep, PTL DEF Spec
-----------------------------------------------------------------------------
(* Mutual exclusion with no interrupt function running, condition waits    *)
(* (timed or not) included.  lock.holder plays no part: what makes it true *)
(* is that each pthread's progress accounts for its share of the OS mutex. *)

LEMMA AccountingInit == Init => OsAccounting
  BY LockAssumption DEF Init, OsAccounting, OsHeld, Pthread

(* A step that moves only pthread p, and takes the mutex neither from nor  *)
(* to anyone else, keeps the accounts if it keeps those of p.              *)
LEMMA OneMoves ==
  ASSUME TypeOK, OsAccounting, NEW p \in Pthread,
         \A q \in Pthread \ {p} : pc'[q] = pc[q] /\ depth'[q] = depth[q],
         osOwner \in {NIL, p}, osOwner' \in {NIL, p},
         OsHeld(p)' = IF osOwner' = p THEN osCount' ELSE 0,
         pc'[p] \in {"waiting", "waking", "woken"} => depth'[p] > 0
  PROVE  OsAccounting'
<1> SUFFICES ASSUME NEW q \in Pthread, q # p
             PROVE  /\ OsHeld(q)' = IF osOwner' = q THEN osCount' ELSE 0
                    /\ pc'[q] \in {"waiting", "waking", "woken"} => depth'[q] > 0
  BY DEF OsAccounting
<1>1. OsHeld(q)' = OsHeld(q)
  BY DEF OsHeld
<1>2. osOwner # q /\ osOwner' # q
  BY LockAssumption DEF Pthread
<1> QED
  BY <1>1, <1>2 DEF OsAccounting

LEMMA AccountingStep ==
  ASSUME MaxInterrupts = 0
  PROVE  TypeOK /\ OsAccounting /\ [Next]_vars => OsAccounting'
<1> SUFFICES ASSUME TypeOK, OsAccounting, [Next]_vars PROVE OsAccounting'
  OBVIOUS
<1>0. \A t \in Thread : intr[t] = 0
  BY MaxInterrupts = 0 DEF TypeOK
<1>1. ASSUME NEW p \in Pthread, PthreadStep(p) PROVE OsAccounting'
  <2>a. p # NIL /\ p[1] \in Thread /\ p[2] = 0
    BY LockAssumption, MaxInterrupts = 0 DEF Pthread
  <2>b. depth[p] \in Nat /\ pc \in [Pthread -> Locations]
        /\ depth \in [Pthread -> Nat] /\ osCount \in Nat
        /\ (osOwner = NIL <=> osCount = 0)
    BY DEF TypeOK
  <2>c. /\ OsHeld(p) = IF osOwner = p THEN osCount ELSE 0
        /\ pc[p] \in {"waiting", "waking", "woken"} => depth[p] > 0
    BY DEF OsAccounting
  <2>1. CASE GetLockHeld(p)
    BY <1>0, <2>a, <2>1 DEF GetLockHeld, HeldByInterrupted, Lisp
  <2>2. CASE GetLockTry(p)
    BY <2>a, <2>b, <2>c, <2>2, OneMoves
       DEF GetLockTry, ClientGets, CanCall, OsFree, OsLock, OsHeld
  <2>3. CASE GetLock(p)
    BY <2>b, <2>c, <2>3 DEF GetLock, ClientGets, CanCall, OsAccounting, OsHeld
  <2>4. CASE OsAcquired(p)
    BY <2>a, <2>b, <2>c, <2>4, OneMoves DEF OsAcquired, OsFree, OsLock, OsHeld
  <2>5. CASE OsRefused(p)
    BY <2>b, <2>c, <2>5 DEF OsRefused, OsAccounting, OsHeld
  <2>6. CASE RecordHolder(p)
    BY <2>b, <2>c, <2>6 DEF RecordHolder, OsAccounting, OsHeld
  <2>15. CASE CountLock(p)
    BY <2>b, <2>c, <2>15 DEF CountLock, OsAccounting, OsHeld
  <2>7. CASE GiveupLock(p)
    <3>1. depth[p] > 0
      BY LockAssumption, <2>a, <2>7 DEF GiveupLock, ClientGivesUp, Level
    <3>2. pc[p] = "idle" /\ pc'[p] \in {"clearing", "unlocking"}
          /\ (\A q \in Pthread \ {p} : pc'[q] = pc[q])
          /\ depth' = [depth EXCEPT ![p] = @ - 1]
          /\ UNCHANGED <<osOwner, osCount>>
      BY <2>b, <2>7, <3>1 DEF GiveupLock, ClientGivesUp, CanCall
    <3>3. OsHeld(p) = depth[p] /\ OsHeld(p)' = depth[p]
      BY <2>b, <3>1, <3>2 DEF OsHeld
    <3>4. osOwner = p
      BY <2>c, <3>1, <3>3
    <3> QED
      BY <2>b, <2>c, <3>2, <3>3, <3>4, OneMoves
  <2>16. CASE ClearHolder(p)
    BY <2>b, <2>c, <2>16 DEF ClearHolder, OsAccounting, OsHeld
  <2>17. CASE RestoreHolder(p)
    BY <2>b, <2>c, <2>17 DEF RestoreHolder, OsAccounting, OsHeld
  <2>8. CASE OsReleased(p)
    BY <2>a, <2>b, <2>c, <2>8, OneMoves DEF OsReleased, OsUnlock, OsHeld
  <2>9. CASE OsNotOwner(p)
    <3>1. OsHeld(p) = 0
      BY <2>c, <2>9 DEF OsNotOwner
    <3>2. OsHeld(p) = depth[p] + 1
      BY <2>b, <2>9 DEF OsNotOwner, OsHeld
    <3> QED
      BY <2>b, <3>1, <3>2
  <2>10. CASE ConditionWait(p)
    BY <2>a, <2>b, <2>c, <2>10, OneMoves
       DEF ConditionWait, CanCall, OsUnlock, OsHeld
  <2>11. CASE ConditionSignal(p)
    BY <2>b, <2>c, <2>11 DEF ConditionSignal, OsAccounting, OsHeld
  <2>12. CASE ConditionTimeout(p)
    BY <2>b, <2>c, <2>12 DEF ConditionTimeout, OsAccounting, OsHeld
  <2>13. CASE OsReacquired(p)
    BY <2>a, <2>b, <2>c, <2>13, OneMoves DEF OsReacquired, OsFree, OsLock, OsHeld
  <2>14. CASE ConditionReturn(p)
    BY <2>b, <2>c, <2>14 DEF ConditionReturn, OsAccounting, OsHeld
  <2> QED
    BY <1>1, <2>1, <2>2, <2>3, <2>4, <2>5, <2>6, <2>7, <2>8, <2>9, <2>10,
       <2>11, <2>12, <2>13, <2>14, <2>15, <2>16, <2>17 DEF PthreadStep
<1>2. CASE ConditionBroadcast
  BY <1>2 DEF ConditionBroadcast, TypeOK, OsAccounting, OsHeld
<1>3. ASSUME NEW t \in Thread, Interrupt(t) \/ EndInterrupt(t)
      PROVE OsAccounting'
  BY <1>3 DEF Interrupt, EndInterrupt, OsAccounting, OsHeld
<1>4. CASE UNCHANGED vars
  BY <1>4 DEF vars, OsAccounting, OsHeld
<1> QED
  BY <1>1, <1>2, <1>3, <1>4 DEF Next

LEMMA AccountingExcludes == TypeOK /\ OsAccounting => MutualExclusion
<1> SUFFICES ASSUME TypeOK, OsAccounting, NEW p \in Pthread, NEW q \in Pthread,
                    Inside(p), Inside(q)
             PROVE  p = q
  BY DEF MutualExclusion
<1>1. osOwner = p /\ osOwner = q
  BY DEF TypeOK, OsAccounting, OsHeld, Inside
<1> QED
  BY <1>1

(* In a program that never interrupts its threads, the OS mutex is owned   *)
(* once for every get-lock in effect, by the pthread that called it, also  *)
(* while others wait on a condition, are woken or time out.                *)
THEOREM MutexIsAccountedFor ==
  ASSUME MaxInterrupts = 0
  PROVE  Spec => []OsAccounting
<1>1. TypeOK /\ OsAccounting /\ [Next]_vars => OsAccounting'
  BY MaxInterrupts = 0, AccountingStep
<1> QED
  BY <1>1, LockTypeCorrect, AccountingInit, PTL DEF Spec

(* Then two threads are never inside the same lock, whatever its kind and  *)
(* however it is used with condition variables.                            *)
THEOREM LockExcludesWithoutInterrupts ==
  ASSUME MaxInterrupts = 0
  PROVE  Spec => []MutualExclusion
<1> QED
  BY MutexIsAccountedFor, LockTypeCorrect, AccountingExcludes, PTL
-----------------------------------------------------------------------------
(* The lock under interrupts.                                              *)

LEMMA PthreadIs ==
  ASSUME NEW p \in Pthread
  PROVE  /\ p = <<Lisp(p), Level(p)>> /\ p # NIL
         /\ Lisp(p) \in Thread /\ Lisp(p) # NIL
         /\ Level(p) \in 0 .. MaxInterrupts
  BY LockAssumption DEF Pthread, Lisp, Level

LEMMA InterruptInit == Init => InterruptInv
<1> SUFFICES ASSUME Init PROVE InterruptInv
  OBVIOUS
<1>1. TypeOK
  BY TypeInit
<1>2. Stacked /\ OwnerAccounts /\ RestsOnOwner /\ WaitsForOthers
  BY PthreadIs, LockAssumption
     DEF Init, Stacked, OwnerAccounts, RestsOnOwner, WaitsForOthers
<1>3. HolderIsOwner /\ CounterIsSum
  BY PthreadIs, LockAssumption DEF Init, HolderIsOwner, CounterIsSum, Uncounted, Unheld
<1> QED  BY <1>1, <1>2, <1>3 DEF InterruptInv

(* At the top level n there are now x calls in effect.  The counter has    *)
(* counted those of every level from b, the level of the owner, up to n.   *)
LEMMA SumMoves ==
  ASSUME NEW n \in 0 .. MaxInterrupts, NEW b \in 0 .. n,
         NEW calls \in [0 .. MaxInterrupts -> Nat], NEW total \in Int,
         IsSum(total, calls, b, n), NEW x \in Nat
  PROVE  /\ IsSum(total - calls[n] + x, [calls EXCEPT ![n] = x], b, n)
         /\ b = n => total = calls[n]
         /\ b < n => calls[n] + calls[b] <= total
<1>0. MaxInterrupts \in Nat
  BY LockAssumption
<1>1. PICK upto \in [0 .. MaxInterrupts + 1 -> 0 .. total] :
        Sums(upto, calls, n, total) /\ upto[b] = 0
  BY DEF IsSum
<1> DEFINE sum == total - calls[n] + x
           new == [i \in 0 .. MaxInterrupts + 1 |->
                     IF i > n THEN sum ELSE upto[i]]
           more == [calls EXCEPT ![n] = x]
<1>2. \A i \in 0 .. MaxInterrupts + 1 : upto[i] \in Nat
  BY <1>0
<1>3. total = upto[n] + calls[n] /\ sum = upto[n] + x
  BY <1>0, <1>1 DEF Sums
<1>4. \A i \in 0 .. MaxInterrupts + 1 : i <= n => upto[i] <= upto[n]
  BY <1>0, <1>1 DEF Sums
<1> HIDE DEF sum
<1>5. new \in [0 .. MaxInterrupts + 1 -> 0 .. sum]
  BY <1>0, <1>2, <1>3, <1>4
<1>6. ASSUME NEW i \in 0 .. MaxInterrupts
      PROVE  new[i + 1] = new[i] + more[i]
  <2>1. upto[i + 1] = upto[i] + calls[i]
    BY <1>0, <1>1 DEF Sums
  <2>2. CASE i < n
    BY <1>0, <2>1, <2>2
  <2>3. CASE i = n
    BY <1>0, <1>2, <1>3, <2>3
  <2>4. CASE i > n
    <3>1. calls[i] = 0
      <4>1. upto[i] = total /\ upto[i + 1] = total
        <5>1. i + 1 \in 0 .. MaxInterrupts + 1 /\ i + 1 > n
              /\ i \in 0 .. MaxInterrupts + 1
          BY <1>0, <2>4
        <5> QED  BY <1>1, <2>4, <5>1 DEF Sums
      <4>2. calls[i] \in Nat
        OBVIOUS
      <4> QED  BY <2>1, <4>1, <4>2
    <3> QED  BY <1>0, <1>2, <1>3, <2>4, <3>1
  <2> QED  BY <2>2, <2>3, <2>4
<1>7. ASSUME NEW i \in 0 .. MaxInterrupts + 1, NEW j \in 0 .. MaxInterrupts + 1,
             i <= j
      PROVE  new[i] <= new[j]
  <2>1. upto[i] <= upto[j] /\ upto[i] \in Nat /\ upto[n] \in Nat
        /\ (i <= n => upto[i] <= upto[n])
    BY <1>0, <1>1, <1>2, <1>4, <1>7 DEF Sums
  <2>2. upto[n] <= sum /\ sum \in Nat
    BY <1>3, <2>1
  <2>3. CASE j > n
    BY <2>1, <2>2, <2>3
  <2>4. CASE j <= n
    BY <1>0, <1>7, <2>1, <2>4
  <2> QED  BY <1>0, <2>3, <2>4
<1>8. \A i \in 0 .. MaxInterrupts + 1 : i > n => new[i] = sum
  OBVIOUS
<1>9. new[b] = 0
  BY <1>0, <1>1
<1> HIDE DEF new, more
<1>10. Sums(new, more, n, sum)
  BY <1>6, <1>7, <1>8 DEF Sums
<1>11. IsSum(sum, more, b, n)
  BY <1>5, <1>9, <1>10 DEF IsSum
<1>12. b = n => total = calls[n]
  BY <1>1, <1>3
<1>13. ASSUME b < n PROVE calls[n] + calls[b] <= total
  <2>1. upto[b + 1] = upto[b] + calls[b] /\ upto[b + 1] <= upto[n]
    <3>1. /\ b + 1 \in 0 .. MaxInterrupts + 1 /\ b + 1 <= n
          /\ b \in 0 .. MaxInterrupts /\ n \in 0 .. MaxInterrupts + 1
      BY <1>0, <1>13
    <3> QED  BY <1>1, <3>1 DEF Sums
  <2>2. /\ calls[b] \in Nat /\ calls[n] \in Nat
        /\ upto[n] \in Nat /\ upto[b + 1] \in Nat
    BY <1>0, <1>2
  <2>3. upto[b + 1] = calls[b]
    BY <1>1, <2>1, <2>2
  <2>4. calls[b] <= upto[n]
    BY <2>1, <2>2, <2>3
  <2> QED  BY <1>3, <2>2, <2>4
<1> QED
  BY <1>11, <1>12, <1>13 DEF more, sum

(* No call is in effect.                                                   *)
LEMMA SumOfNone ==
  ASSUME NEW n \in 0 .. MaxInterrupts, NEW b \in 0 .. n,
         NEW calls, \A i \in 0 .. MaxInterrupts : calls[i] = 0
  PROVE  IsSum(0, calls, b, n)
<1> DEFINE none == [i \in 0 .. MaxInterrupts + 1 |-> 0]
<1>1. none \in [0 .. MaxInterrupts + 1 -> 0 .. 0]
  OBVIOUS
<1>2. Sums(none, calls, n, 0) /\ none[b] = 0
  BY LockAssumption DEF Sums
<1> QED  BY <1>1, <1>2 DEF IsSum

(* An interrupt begins, or ends with no call of its own left.              *)
LEMMA SumRises ==
  ASSUME NEW n \in 0 .. MaxInterrupts, NEW m \in 0 .. MaxInterrupts,
         NEW b \in 0 .. MaxInterrupts,
         NEW calls \in [0 .. MaxInterrupts -> Nat], NEW total \in Int,
         IsSum(total, calls, b, n), m = n + 1 \/ (n = m + 1 /\ calls[n] = 0)
  PROVE  IsSum(total, calls, b, m)
<1>0. MaxInterrupts \in Nat
  BY LockAssumption
<1>1. PICK upto \in [0 .. MaxInterrupts + 1 -> 0 .. total] :
        Sums(upto, calls, n, total) /\ upto[b] = 0
  BY DEF IsSum
<1>2. ASSUME NEW i \in 0 .. MaxInterrupts + 1, i > m PROVE upto[i] = total
  <2>1. CASE i > n
    BY <1>0, <1>1, <2>1 DEF Sums
  <2>2. CASE i = n /\ calls[n] = 0
    <3>1. upto[n + 1] = upto[n] + calls[n] /\ upto[n + 1] = total
      BY <1>0, <1>1 DEF Sums
    <3>2. upto[n] \in 0 .. total
      BY <1>0
    <3> QED  BY <2>2, <3>1, <3>2
  <2> QED  BY <1>0, <1>2, <2>1, <2>2
<1>3. Sums(upto, calls, m, total)
  BY <1>1, <1>2 DEF Sums
<1> QED  BY <1>1, <1>3 DEF IsSum

(* Entering or leaving the blocking call without the mutex.                *)
LEMMA WaitingKeeps ==
  ASSUME InterruptInv, TypeOK', NEW p \in Pthread, Running(p),
         NEW x \in {"idle", "locking"}, pc[p] \in {"idle", "locking"},
         pc' = [pc EXCEPT ![p] = x],
         x = "locking" /\ Level(p) > 0 =>
           osOwner # p /\ (kind = "recursive" => holder # Lisp(p)),
         UNCHANGED <<kind, osOwner, osCount, holder, counter, intr, depth>>
  PROVE  InterruptInv'
<1>0. TypeOK /\ Stacked /\ OwnerAccounts /\ RestsOnOwner /\ HolderIsOwner
      /\ CounterIsSum /\ WaitsForOthers
  BY DEF InterruptInv
<1>1. pc \in [Pthread -> Locations] /\ intr[Lisp(p)] \in 0 .. MaxInterrupts
      /\ Level(p) \in Nat
  BY <1>0, PthreadIs DEF TypeOK
<1>2. Stacked' /\ WaitsForOthers'
  BY <1>0, <1>1, PthreadIs DEF Stacked, WaitsForOthers, Running
<1>3. ASSUME NEW q \in Pthread, NEW y \in Between PROVE pc'[q] = y <=> pc[q] = y
  BY <1>1 DEF Between
<1>4. \A q \in Pthread : /\ pc'[q] \in Between <=> pc[q] \in Between
                         /\ Uncounted(q)' = Uncounted(q) /\ Unheld(q)' = Unheld(q)
  BY <1>3 DEF Uncounted, Unheld, Between
<1>5. OwnerAccounts'
  <2>1. osOwner = p /\ pc'[p] = "locking" => Level(p) = 0
    BY <1>1
  <2>2. \A q \in Pthread : q # p => pc'[q] = pc[q]
    BY <1>1
  <2> QED  BY <1>0, <1>3, <1>4, <2>1, <2>2 DEF OwnerAccounts, Between
<1>6. RestsOnOwner'
  BY <1>0, <1>3 DEF RestsOnOwner, Between, TypeOK
<1>7. HolderIsOwner'
  BY <1>0, <1>3, <1>4 DEF HolderIsOwner, Between
<1>8. CounterIsSum'
  BY <1>0, <1>4 DEF CounterIsSum, Calls
<1> QED  BY <1>2, <1>5, <1>6, <1>7, <1>8 DEF InterruptInv

(* The mutex is taken: a free one, or a recursive one taken again.         *)
LEMMA TakingKeeps ==
  ASSUME InterruptInv, TypeOK', NEW p \in Pthread, Running(p),
         pc[p] \in {"idle", "locking"}, OsFree(p), OsLock(p),
         osOwner = p => Level(p) = 0,
         pc' = [pc EXCEPT ![p] = "locked"],
         UNCHANGED <<kind, holder, counter, intr, depth>>
  PROVE  InterruptInv'
<1>a. TypeOK /\ Stacked /\ OwnerAccounts /\ RestsOnOwner /\ HolderIsOwner
      /\ CounterIsSum /\ WaitsForOthers
  BY DEF InterruptInv
<1>0. /\ pc \in [Pthread -> Locations] /\ intr[Lisp(p)] \in 0 .. MaxInterrupts
      /\ depth \in [Pthread -> Nat] /\ osCount \in Nat /\ counter \in Int
      /\ osOwner = NIL => osCount = 0
      /\ MaxInterrupts \in Nat
  BY <1>a, PthreadIs, LockAssumption DEF TypeOK
<1>1. Stacked' /\ WaitsForOthers'
  BY <1>a, <1>0, PthreadIs DEF Stacked, WaitsForOthers, Running, Between
<1>2. CASE osOwner = NIL
  <2>1. \A q \in Pthread : depth[q] = 0 /\ pc[q] \notin Between
    BY <1>a, <1>0, <1>2, PthreadIs DEF RestsOnOwner, OwnerAccounts, Between
  <2>2. osOwner' = p /\ osCount' = 1 /\ holder' = NIL
    BY <1>a, <1>0, <1>2 DEF OsLock, HolderIsOwner
  <2>3. OwnerAccounts' /\ RestsOnOwner' /\ HolderIsOwner'
    BY <1>0, <2>1, <2>2, PthreadIs
       DEF OwnerAccounts, RestsOnOwner, HolderIsOwner, Uncounted, Unheld, Between
  <2>4. CounterIsSum'
    <3>1. counter = 0
      BY <1>a, <1>2 DEF CounterIsSum
    <3>2. \A i \in 0 .. MaxInterrupts : Calls(Lisp(p))'[i] = 0
      BY <2>1, PthreadIs DEF Pthread, Calls
    <3>3. IsSum(0, Calls(Lisp(p))', Level(p), intr'[Lisp(p)])
      BY <1>0, <3>2, SumOfNone, PthreadIs DEF Running
    <3> QED
      BY <2>1, <2>2, <3>1, <3>3, PthreadIs DEF CounterIsSum
  <2> QED  BY <1>1, <2>3, <2>4 DEF InterruptInv
<1>3. CASE osOwner = p
  <2>1. kind = "recursive" /\ osOwner' = p /\ osCount' = osCount + 1 /\ Level(p) = 0
    BY <1>3, PthreadIs DEF OsFree, OsLock
  <2>2. osCount = depth[p] /\ depth[p] > 0
    BY <1>a, <1>0, <1>3, PthreadIs DEF OwnerAccounts, Between, TypeOK
  <2>3. \A q \in Pthread : q # p => pc'[q] = pc[q]
    BY <1>0
  <2>4. OwnerAccounts'
    BY <1>a, <1>0, <1>3, <2>1, <2>2, <2>3 DEF OwnerAccounts, Between
  <2>5. RestsOnOwner' /\ HolderIsOwner'
    BY <1>a, <1>0, <1>3, <2>1, <2>2, <2>3, PthreadIs
       DEF RestsOnOwner, HolderIsOwner, Uncounted, Unheld
  <2>6. CounterIsSum'
    BY <1>a, <1>3, <2>1 DEF CounterIsSum, Calls
  <2> QED  BY <1>1, <2>4, <2>5, <2>6 DEF InterruptInv
<1> QED
  BY <1>2, <1>3 DEF OsFree

(* What the invariant says of a Lisp thread that is the holder.            *)
LEMMA HolderFacts ==
  ASSUME InterruptInv, NEW p \in Pthread, Running(p), holder = Lisp(p)
  PROVE  /\ osOwner \in Pthread
         /\ depth[osOwner] > 0 \/ pc[osOwner] \in {"counting", "clearing"}
         /\ Lisp(osOwner) = Lisp(p) /\ Level(osOwner) \in 0 .. Level(p)
         /\ osOwner # p => Level(osOwner) < Level(p)
<1>1. osOwner \in Pthread \union {NIL} /\ depth \in [Pthread -> Nat]
  BY DEF InterruptInv, TypeOK
<1>2. osOwner \in Pthread /\ Lisp(osOwner) = Lisp(p)
      /\ (depth[osOwner] > 0 \/ pc[osOwner] \in {"counting", "clearing"})
  BY <1>1, PthreadIs DEF InterruptInv, HolderIsOwner
<1>3. Level(osOwner) <= Level(p)
  BY <1>1, <1>2, PthreadIs DEF InterruptInv, Stacked, Running, TypeOK
<1>4. osOwner # p => Level(osOwner) # Level(p)
  BY <1>2, PthreadIs
<1> QED  BY <1>2, <1>3, <1>4, PthreadIs

(* The counter of a recursive lock follows the calls of the running        *)
(* pthread of thread t, at level n, where the owner is at level b.         *)
LEMMA CounterMoves ==
  ASSUME TypeOK, CounterIsSum, kind = "recursive",
         NEW t \in Thread, NEW n \in 0 .. MaxInterrupts, NEW b \in 0 .. n,
         n = intr[t], osOwner = <<t, b>>, NEW x \in Nat,
         depth' = [depth EXCEPT ![<<t, n>>] = x], UNCHANGED <<kind, osOwner, intr>>
  PROVE  /\ counter' = counter - depth[<<t, n>>] + x => CounterIsSum'
         /\ b = n => counter = depth[<<t, n>>]
         /\ b < n => depth[<<t, n>>] + depth[<<t, b>>] <= counter
<1>1. /\ MaxInterrupts \in Nat /\ counter \in Int
      /\ \A i \in 0 .. MaxInterrupts : <<t, i>> \in Pthread
      /\ depth \in [Pthread -> Nat]
  BY LockAssumption DEF TypeOK, Pthread
<1>2. <<t, n>> \in Pthread /\ <<t, b>> \in Pthread /\ <<t, b>> # NIL
      /\ b \in 0 .. MaxInterrupts
      /\ Lisp(<<t, b>>) = t /\ Level(<<t, b>>) = b
  BY <1>1, PthreadIs DEF Lisp, Level
<1>3. IsSum(counter, Calls(t), b, n)
  BY <1>2 DEF CounterIsSum
<1>4. PICK calls \in [0 .. MaxInterrupts -> Nat] : calls = Calls(t)
  BY <1>1 DEF Calls
<1>5. calls[n] = depth[<<t, n>>] /\ calls[b] = depth[<<t, b>>]
  BY <1>2, <1>4 DEF Calls
<1>6. Calls(t)' = [calls EXCEPT ![n] = x]
  BY <1>1, <1>2, <1>4 DEF Calls
<1>7. /\ IsSum(counter - calls[n] + x, [calls EXCEPT ![n] = x], b, n)
      /\ b = n => counter = calls[n]
      /\ b < n => calls[n] + calls[b] <= counter
  <2>1. IsSum(counter, calls, b, n)
    BY <1>3, <1>4
  <2>2. counter \in Int
    BY <1>1
  <2>3. IsSum(counter - calls[n] + x, [calls EXCEPT ![n] = x], b, n)
    BY <2>1, <2>2, SumMoves
  <2>4. b = n => counter = calls[n]
    BY <2>1, <2>2, SumMoves
  <2>5. b < n => calls[n] + calls[b] <= counter
    BY <2>1, <2>2, SumMoves
  <2> QED  BY <2>3, <2>4, <2>5
<1>8. ASSUME counter' = counter - depth[<<t, n>>] + x PROVE CounterIsSum'
  <2>1. IsSum(counter', Calls(t)', b, intr'[t])
    BY <1>5, <1>6, <1>7, <1>8
  <2>2. \A p \in Pthread : osOwner' = p => Lisp(p) = t /\ Level(p) = b
    BY <1>2
  <2> QED
    BY <1>2, <2>1, <2>2 DEF CounterIsSum
<1> QED  BY <1>5, <1>7, <1>8

(* The same, in terms of the pthreads.                                     *)
LEMMA CounterFollows ==
  ASSUME TypeOK, CounterIsSum, kind = "recursive", NEW p \in Pthread, Running(p),
         NEW o \in Pthread, o = osOwner, Lisp(o) = Lisp(p), Level(o) <= Level(p),
         NEW x \in Nat, depth' = [depth EXCEPT ![p] = x],
         UNCHANGED <<kind, osOwner, intr>>
  PROVE  /\ counter' = counter - depth[p] + x => CounterIsSum'
         /\ o = p => counter = depth[p]
         /\ o # p => depth[p] + depth[o] <= counter
<1>1. PICK t \in Thread, n \in 0 .. MaxInterrupts :
        p = <<t, n>> /\ Lisp(p) = t /\ Level(p) = n
  BY PthreadIs
<1>2. PICK b \in 0 .. n : o = <<t, b>> /\ Level(o) = b
  BY <1>1, PthreadIs
<1>3. n = intr[t] /\ osOwner = <<t, b>> /\ depth' = [depth EXCEPT ![<<t, n>>] = x]
  BY <1>1, <1>2 DEF Running
<1>4. /\ counter' = counter - depth[<<t, n>>] + x => CounterIsSum'
      /\ b = n => counter = depth[<<t, n>>]
      /\ b < n => depth[<<t, n>>] + depth[<<t, b>>] <= counter
  BY <1>3, CounterMoves
<1> QED  BY <1>1, <1>2, <1>4

LEMMA HeldKeeps ==
  ASSUME NestInInterrupt = FALSE, InterruptInv, TypeOK', NEW p \in Pthread,
         GetLockHeld(p)
  PROVE  InterruptInv'
<1>0. TypeOK /\ Stacked /\ OwnerAccounts /\ RestsOnOwner /\ HolderIsOwner
      /\ CounterIsSum /\ WaitsForOthers
  BY DEF InterruptInv
<1>1. /\ Running(p) /\ pc[p] = "idle" /\ kind = "recursive" /\ holder = Lisp(p)
      /\ Level(p) # 0 /\ osOwner # p
  BY PthreadIs DEF GetLockHeld, ClientGets, CanCall, HeldByInterrupted, Running
<1>2. /\ osOwner \in Pthread
      /\ depth[osOwner] > 0 \/ pc[osOwner] \in {"counting", "clearing"}
      /\ Lisp(osOwner) = Lisp(p) /\ Level(osOwner) \in 0 .. Level(p)
      /\ Level(osOwner) < Level(p)
  BY <1>1, HolderFacts
<1>3. /\ depth \in [Pthread -> Nat] /\ counter \in Int
      /\ depth' = [depth EXCEPT ![p] = depth[p] + 1] /\ counter' = counter + 1
      /\ UNCHANGED <<kind, osOwner, osCount, holder, intr, pc>>
  BY <1>0 DEF GetLockHeld, TypeOK
<1>4. Stacked' /\ OwnerAccounts' /\ WaitsForOthers'
  BY <1>0, <1>1, <1>3, PthreadIs
     DEF Stacked, OwnerAccounts, WaitsForOthers, Running
<1>5. RestsOnOwner'
  BY <1>0, <1>1, <1>2, <1>3, PthreadIs DEF RestsOnOwner
<1>7. HolderIsOwner'
  BY <1>0, <1>1, <1>2, <1>3, PthreadIs DEF HolderIsOwner, Uncounted, Unheld
<1>6. CounterIsSum'
  <2>1. PICK x \in Nat : x = depth[p] + 1
    BY <1>3
  <2>2. counter' = counter - depth[p] + x /\ depth' = [depth EXCEPT ![p] = x]
    BY <1>3, <2>1
  <2>3. Level(osOwner) <= Level(p)
    BY <1>2, PthreadIs
  <2> QED
    BY <1>0, <1>1, <1>2, <1>3, <2>2, <2>3, CounterFollows
<1> QED  BY <1>4, <1>5, <1>6, <1>7 DEF InterruptInv

(* The first assignment of get-lock.                                       *)
LEMMA RecordKeeps ==
  ASSUME InterruptInv, TypeOK', NEW p \in Pthread, RecordHolder(p)
  PROVE  InterruptInv'
<1>0. TypeOK /\ Stacked /\ OwnerAccounts /\ RestsOnOwner /\ HolderIsOwner
      /\ CounterIsSum /\ WaitsForOthers
  BY DEF InterruptInv
<1>1. /\ depth \in [Pthread -> Nat] /\ counter \in Int
      /\ pc \in [Pthread -> Locations] /\ osCount \in Nat
      /\ intr[Lisp(p)] \in 0 .. MaxInterrupts
  BY <1>0, PthreadIs DEF TypeOK
<1>2. /\ Running(p) /\ pc[p] = "locked" /\ osOwner = p
      /\ holder' = Lisp(p) /\ pc' = [pc EXCEPT ![p] = "counting"]
      /\ UNCHANGED <<kind, osOwner, osCount, counter, depth, intr>>
  BY <1>0 DEF RecordHolder, OwnerAccounts
<1>3. \A q \in Pthread : q # p => pc'[q] = pc[q]
  BY <1>1, <1>2
<1>4. Stacked' /\ OwnerAccounts'
  BY <1>0, <1>1, <1>2, <1>3, PthreadIs DEF Stacked, OwnerAccounts, Running, Between
<1>5. WaitsForOthers'
  <2>1. ASSUME NEW q \in Pthread, pc'[q] = "locking", Lisp(q) \in Shielded
        PROVE  Lisp(q) # Lisp(p)
    <3>1. q # p /\ pc[q] = "locking"
      BY <1>1, <1>2, <2>1
    <3>2. intr[Lisp(q)] \in 0 .. MaxInterrupts
      BY <1>0, PthreadIs DEF TypeOK
    <3>3. Level(q) = intr[Lisp(q)]
      BY <1>0, <2>1, <3>1, <3>2, PthreadIs DEF Stacked
    <3> QED  BY <1>2, <3>1, <3>3, PthreadIs DEF Running
  <2> QED  BY <1>2, <2>1 DEF WaitsForOthers
<1>7. RestsOnOwner'
  BY <1>0, <1>1, <1>2, <1>3, PthreadIs DEF RestsOnOwner
<1>6. \A q \in Pthread : Uncounted(q)' = Uncounted(q) /\ Unheld(q)' = Unheld(q)
  BY <1>1, <1>2, <1>3 DEF Uncounted, Unheld
<1>8. HolderIsOwner'
  <2>1. pc'[p] = "counting" /\ p # NIL
    BY <1>1, <1>2, PthreadIs
  <2> QED  BY <1>0, <1>2, <1>6, <2>1 DEF HolderIsOwner
<1>9. CounterIsSum'
  BY <1>0, <1>2, <1>6 DEF CounterIsSum, Calls
<1> QED  BY <1>4, <1>5, <1>7, <1>8, <1>9 DEF InterruptInv

(* The second one.                                                         *)
LEMMA CountKeeps ==
  ASSUME InterruptInv, TypeOK', NEW p \in Pthread, CountLock(p)
  PROVE  InterruptInv'
<1>0. TypeOK /\ Stacked /\ OwnerAccounts /\ RestsOnOwner /\ HolderIsOwner
      /\ CounterIsSum /\ WaitsForOthers
  BY DEF InterruptInv
<1>1. /\ depth \in [Pthread -> Nat] /\ counter \in Int
      /\ pc \in [Pthread -> Locations] /\ osCount \in Nat
      /\ intr[Lisp(p)] \in 0 .. MaxInterrupts
  BY <1>0, PthreadIs DEF TypeOK
<1>2. /\ Running(p) /\ pc[p] = "counting" /\ osOwner = p
      /\ counter' = counter + 1
      /\ depth' = [depth EXCEPT ![p] = depth[p] + 1]
      /\ pc' = [pc EXCEPT ![p] = "idle"]
      /\ UNCHANGED <<kind, osOwner, osCount, holder, intr>>
  BY <1>0 DEF CountLock, OwnerAccounts
<1>3. osCount = depth[p] + 1 /\ (kind # "recursive" => depth[p] = 0)
  BY <1>0, <1>1, <1>2 DEF OwnerAccounts, Between
<1>4. \A q \in Pthread : q # p => pc'[q] = pc[q] /\ depth'[q] = depth[q]
  BY <1>1, <1>2
<1>5. Stacked' /\ OwnerAccounts' /\ WaitsForOthers'
  BY <1>0, <1>1, <1>2, <1>3, <1>4, PthreadIs
     DEF Stacked, OwnerAccounts, WaitsForOthers, Running, Between
<1>6. \A q \in Pthread : Uncounted(q)' = Uncounted(q) /\ Unheld(q)' = Unheld(q)
  BY <1>1, <1>2, <1>4 DEF Uncounted, Unheld
<1>7. \A q \in Pthread : q # p => depth[q] = 0 /\ pc[q] \notin {"clearing", "unlocking", "restoring"}
  BY <1>0, <1>1, <1>2, PthreadIs DEF RestsOnOwner, Stacked, Running
<1>8. RestsOnOwner'
  BY <1>1, <1>2, <1>4, <1>7 DEF RestsOnOwner
<1>9. HolderIsOwner'
  <2>1. depth'[p] > 0 /\ pc'[p] = "idle" /\ p # NIL
    BY <1>1, <1>2, PthreadIs
  <2> QED  BY <1>0, <1>2, <1>6, <2>1 DEF HolderIsOwner
<1>10. CounterIsSum'
  <2>1. CASE kind # "recursive"
    <3>1. counter = 0 /\ depth'[p] = 1
      BY <1>0, <1>1, <1>2, <1>3, <2>1 DEF CounterIsSum
    <3>2. \A q \in Pthread : ~Uncounted(q)'
      BY <1>2, <1>6, <1>7 DEF Uncounted
    <3>3. p # NIL
      BY PthreadIs
    <3> QED  BY <1>2, <2>1, <3>1, <3>2, <3>3 DEF CounterIsSum
  <2>2. CASE kind = "recursive"
    <3>1. PICK x \in Nat : x = depth[p] + 1
      BY <1>1
    <3>2. counter' = counter - depth[p] + x /\ depth' = [depth EXCEPT ![p] = x]
      BY <1>1, <1>2, <3>1
    <3>3. Level(p) <= Level(p)
      BY PthreadIs
    <3> QED
      BY <1>0, <1>2, <2>2, <3>2, <3>3, CounterFollows
  <2> QED  BY <2>1, <2>2
<1> QED  BY <1>5, <1>8, <1>9, <1>10 DEF InterruptInv

LEMMA ReleasedKeeps ==
  ASSUME InterruptInv, TypeOK', NEW p \in Pthread, OsReleased(p)
  PROVE  InterruptInv'
<1>0. TypeOK /\ Stacked /\ OwnerAccounts /\ RestsOnOwner /\ HolderIsOwner
      /\ CounterIsSum /\ WaitsForOthers
  BY DEF InterruptInv
<1>1. /\ depth \in [Pthread -> Nat] /\ counter \in Int
      /\ pc \in [Pthread -> Locations] /\ osCount \in Nat
      /\ intr[Lisp(p)] \in 0 .. MaxInterrupts
  BY <1>0, PthreadIs DEF TypeOK
<1>2. /\ Running(p) /\ pc[p] = "unlocking" /\ osOwner = p
      /\ osCount' = osCount - 1 /\ pc' = [pc EXCEPT ![p] = "idle"]
      /\ osOwner' = IF osCount = 1 THEN NIL ELSE p
      /\ UNCHANGED <<kind, holder, counter, intr, depth>>
  BY DEF OsReleased, OsUnlock
<1>3. osCount = depth[p] + 1 /\ (kind # "recursive" => depth[p] = 0)
      /\ (Level(p) > 0 => depth[p] = 0)
  BY <1>0, <1>1, <1>2 DEF OwnerAccounts, Between
<1>4. Stacked' /\ WaitsForOthers'
  BY <1>0, <1>1, <1>2, PthreadIs DEF Stacked, Running, WaitsForOthers
<1>7. \A q \in Pthread : q # p => depth[q] = 0 /\ pc[q] \notin Between /\ pc'[q] = pc[q]
  BY <1>0, <1>1, <1>2, PthreadIs DEF RestsOnOwner, OwnerAccounts, Stacked, Running, Between
<1>5. CASE depth[p] = 0
  <2>1. osOwner' = NIL /\ \A q \in Pthread : osOwner' # q
    BY <1>2, <1>3, <1>5, PthreadIs
  <2>2. \A q \in Pthread : depth[q] = 0 /\ pc'[q] \notin Between
    BY <1>1, <1>2, <1>5, <1>7 DEF Between
  <2>3. holder = NIL
    BY <1>0, <1>2, <1>5 DEF HolderIsOwner
  <2>4. OwnerAccounts' /\ RestsOnOwner' /\ HolderIsOwner'
    BY <1>1, <1>2, <2>1, <2>2, <2>3
       DEF OwnerAccounts, RestsOnOwner, HolderIsOwner, Uncounted, Unheld, Between
  <2>5. counter = 0
    <3>1. CASE kind # "recursive"
      BY <1>0, <1>2, <1>5, <3>1 DEF CounterIsSum
    <3>2. CASE kind = "recursive"
      <4>1. /\ IsSum(counter, Calls(Lisp(p)), Level(p), Level(p))
            /\ Calls(Lisp(p)) \in [0 .. MaxInterrupts -> Nat]
            /\ Calls(Lisp(p))[Level(p)] = depth[p]
            /\ Level(p) \in 0 .. MaxInterrupts /\ Level(p) \in 0 .. Level(p)
        BY <1>0, <1>1, <1>2, <3>2, PthreadIs
           DEF CounterIsSum, Calls, Running, Pthread
      <4>2. 0 \in Nat /\ counter \in Int
        BY <1>1
      <4>3. counter = Calls(Lisp(p))[Level(p)]
        BY <4>1, <4>2, SumMoves
      <4> QED  BY <1>5, <4>1, <4>3
    <3> QED  BY <3>1, <3>2
  <2>6. CounterIsSum'
    BY <1>2, <2>1, <2>3, <2>5 DEF CounterIsSum
  <2> QED  BY <1>4, <2>4, <2>6 DEF InterruptInv
<1>6. CASE depth[p] # 0
  <2>1. osOwner' = p /\ kind = "recursive" /\ Level(p) = 0 /\ osCount' = depth[p]
        /\ depth[p] > 0
    BY <1>1, <1>2, <1>3, <1>6, PthreadIs
  <2>2. pc'[p] = "idle"
    BY <1>1, <1>2
  <2>3. OwnerAccounts' /\ RestsOnOwner'
    BY <1>0, <1>1, <1>2, <1>7, <2>1, <2>2 DEF OwnerAccounts, RestsOnOwner, Between
  <2>4. HolderIsOwner'
    BY <1>0, <1>1, <1>2, <2>1, <2>2 DEF HolderIsOwner, Uncounted, Unheld
  <2>5. CounterIsSum'
    BY <1>0, <1>2, <2>1 DEF CounterIsSum, Calls
  <2> QED  BY <1>4, <2>3, <2>4, <2>5 DEF InterruptInv
<1> QED  BY <1>5, <1>6

LEMMA GiveupKeeps ==
  ASSUME InterruptInv, TypeOK', NEW p \in Pthread, GiveupLock(p)
  PROVE  InterruptInv'
<1>0. TypeOK /\ Stacked /\ OwnerAccounts /\ RestsOnOwner /\ HolderIsOwner
      /\ CounterIsSum /\ WaitsForOthers
  BY DEF InterruptInv
<1>1. /\ depth \in [Pthread -> Nat] /\ counter \in Int
      /\ pc \in [Pthread -> Locations] /\ osCount \in Nat
      /\ intr[Lisp(p)] \in 0 .. MaxInterrupts
  BY <1>0, PthreadIs DEF TypeOK
<1>2. /\ Running(p) /\ pc[p] = "idle" /\ holder = Lisp(p)
      /\ counter' = counter - 1
      /\ depth' = [depth EXCEPT ![p] = IF depth[p] > 0 THEN depth[p] - 1 ELSE depth[p]]
      /\ pc' = [pc EXCEPT ![p] = IF counter = 1 THEN "clearing" ELSE "unlocking"]
      /\ UNCHANGED <<kind, osOwner, osCount, holder, intr>>
      /\ depth[p] > 0 \/ kind = "errorcheck"
  BY <1>1 DEF GiveupLock, ClientGivesUp, CanCall
<1>3. PICK o \in Pthread : /\ o = osOwner /\ Lisp(o) = Lisp(p)
                           /\ depth[o] > 0 \/ pc[o] \in {"counting", "clearing"}
                           /\ Level(o) <= Level(p)
                           /\ o # p => Level(o) < Level(p)
  BY <1>2, HolderFacts, PthreadIs
<1>4. p # NIL /\ pc'[p] \in {"clearing", "unlocking"}
      /\ \A q \in Pthread : q # p => pc'[q] = pc[q] /\ depth'[q] = depth[q]
  BY <1>1, <1>2, PthreadIs
<1>5. WaitsForOthers'
  BY <1>0, <1>1, <1>2, PthreadIs DEF WaitsForOthers
<1>6. Stacked'
  BY <1>0, <1>1, <1>2, <1>4, PthreadIs DEF Stacked, Running, Between
<1>7. CASE o = p
  <2>1. depth[p] > 0 /\ depth' = [depth EXCEPT ![p] = depth[p] - 1]
        /\ osCount = depth[p]
    BY <1>0, <1>1, <1>2, <1>3, <1>7 DEF OwnerAccounts, Between
  <2>7. \A q \in Pthread : q # p => depth[q] = 0 /\ pc[q] \notin {"clearing", "unlocking", "restoring"}
    BY <1>0, <1>1, <1>2, <1>3, <1>7, PthreadIs DEF RestsOnOwner, Stacked, Running
  <2>9. \A q \in Pthread : ~Uncounted(q) /\ ~Unheld(q) /\ ~Uncounted(q)' /\ ~Unheld(q)'
    BY <1>2, <1>3, <1>4, <1>7, <2>7 DEF Uncounted, Unheld
  <2>2. kind # "recursive" => counter = 1 /\ depth[p] = 1
    BY <1>0, <1>2, <1>3, <1>7, <2>1, <2>9 DEF CounterIsSum, OwnerAccounts
  <2>3. PICK x \in Nat : x = depth[p] - 1
    BY <1>1, <2>1
  <2>4. kind = "recursive" => counter = depth[p] /\ CounterIsSum'
    <3>1. counter' = counter - depth[p] + x /\ depth' = [depth EXCEPT ![p] = x]
      BY <1>1, <1>2, <2>1, <2>3
    <3>2. kind = "recursive" => counter = depth[p]
      BY <1>0, <1>2, <1>3, <1>7, <3>1, CounterFollows
    <3>3. kind = "recursive" => CounterIsSum'
      BY <1>0, <1>2, <1>3, <1>7, <3>1, CounterFollows
    <3> QED  BY <3>2, <3>3
  <2>5. CounterIsSum'
    <3>1. ASSUME kind # "recursive" PROVE counter' = 0 /\ depth'[p] = 0
      BY <1>1, <1>2, <2>1, <2>2, <3>1
    <3> QED  BY <1>2, <1>3, <1>4, <1>7, <2>4, <3>1 DEF CounterIsSum
  <2>6. /\ depth'[p] = depth[p] - 1
        /\ pc'[p] = IF depth[p] = 1 THEN "clearing" ELSE "unlocking"
    BY <1>1, <1>2, <2>1, <2>2, <2>4
  <2>8. OwnerAccounts' /\ RestsOnOwner'
    BY <1>0, <1>1, <1>2, <1>3, <1>4, <1>7, <2>1, <2>6, <2>7
       DEF RestsOnOwner, OwnerAccounts, Between
  <2>10. HolderIsOwner'
    BY <1>1, <1>2, <1>3, <1>4, <1>7, <2>1, <2>6, <2>9 DEF HolderIsOwner
  <2> QED  BY <1>5, <1>6, <2>5, <2>8, <2>10 DEF InterruptInv
<1>8. CASE o # p /\ kind = "recursive"
  <2>1. depth[p] > 0 /\ depth' = [depth EXCEPT ![p] = depth[p] - 1]
    BY <1>2, <1>8
  <2>2. PICK x \in Nat : x = depth[p] - 1
    BY <1>1, <2>1
  <2>3. counter' = counter - depth[p] + x /\ depth' = [depth EXCEPT ![p] = x]
    BY <1>1, <1>2, <2>1, <2>2
  <2>4. CounterIsSum'
    BY <1>0, <1>2, <1>3, <1>8, <2>3, CounterFollows
  <2>5. depth[p] + depth[o] <= counter
    BY <1>0, <1>2, <1>3, <1>8, <2>3, CounterFollows
  <2>6. pc'[p] = "clearing" => depth[o] = 0
    BY <1>1, <1>2, <1>3, <2>1, <2>5
  <2>7. OwnerAccounts'
    BY <1>0, <1>1, <1>2, <1>3, <1>4, <1>8, <2>1 DEF OwnerAccounts
  <2>9. RestsOnOwner'
    BY <1>0, <1>1, <1>2, <1>3, <1>4, <1>8, <2>1, <2>6 DEF RestsOnOwner
  <2>8. HolderIsOwner'
    BY <1>0, <1>1, <1>2, <1>3, <1>4, <1>8, <2>1 DEF HolderIsOwner, Uncounted, Unheld
  <2> QED  BY <1>5, <1>6, <2>4, <2>7, <2>8, <2>9 DEF InterruptInv
<1>9. CASE o # p /\ kind # "recursive"
  <2>1. depth[p] = 0 /\ depth' = depth /\ kind = "errorcheck"
    BY <1>0, <1>1, <1>2, <1>3, <1>9, PthreadIs DEF RestsOnOwner
  <2>a. /\ \A i \in 0 .. MaxInterrupts :
             i < Level(p) => pc[<<Lisp(p), i>>] \notin {"clearing", "unlocking", "restoring"}
        /\ \E i \in 0 .. MaxInterrupts : i < Level(p) /\ depth[<<Lisp(p), i>>] > 0
    BY <2>1 DEF GiveupLock, ClientGivesUp
  <2>b. depth[o] > 0
    <3>1. PICK i \in 0 .. MaxInterrupts : depth[<<Lisp(p), i>>] > 0
      BY <2>a
    <3>2. <<Lisp(p), i>> \in Pthread
      BY PthreadIs DEF Pthread
    <3> QED  BY <1>0, <1>3, <2>1, <3>1, <3>2 DEF RestsOnOwner
  <2>c. ASSUME NEW q \in Pthread, q # o
        PROVE  pc[q] \notin {"clearing", "unlocking", "restoring"}
    <3> SUFFICES ASSUME pc[q] \in {"clearing", "unlocking", "restoring"} PROVE FALSE
      OBVIOUS
    <3>1. Lisp(q) = Lisp(p)
      BY <1>0, <1>3, <2>c DEF RestsOnOwner
    <3>2. q = <<Lisp(p), Level(q)>> /\ Level(q) \in 0 .. MaxInterrupts
      BY <3>1, PthreadIs
    <3>3. Level(q) >= Level(p)
      BY <2>a, <3>2, PthreadIs
    <3>4. Level(q) <= Level(p)
      BY <1>0, <1>1, <1>2, <3>1, <3>2, PthreadIs DEF Stacked, Running
    <3>5. q = p
      BY <3>2, <3>3, <3>4, PthreadIs
    <3> QED  BY <1>2, <3>5
  <2>d. counter = 1 /\ counter' = 0 /\ pc'[p] = "clearing"
    BY <1>0, <1>1, <1>2, <1>3, <1>9, <2>b, <2>c DEF CounterIsSum, Uncounted
  <2>4. /\ Uncounted(p)' /\ ~Unheld(p)'
        /\ \A q \in Pthread : q # p => ~Uncounted(q)' /\ ~Unheld(q)'
    BY <1>2, <1>3, <1>4, <1>9, <2>c, <2>d DEF Uncounted, Unheld
  <2>2. CounterIsSum'
    BY <1>2, <1>3, <1>4, <1>9, <2>4, <2>d, PthreadIs DEF CounterIsSum
  <2>3. OwnerAccounts' /\ RestsOnOwner'
    BY <1>0, <1>1, <1>2, <1>3, <1>4, <1>9, <2>1, <2>b, <2>c, PthreadIs
       DEF OwnerAccounts, RestsOnOwner
  <2>5. HolderIsOwner'
    BY <1>2, <1>3, <2>1, <2>4, <2>b, PthreadIs DEF HolderIsOwner
  <2> QED  BY <1>5, <1>6, <2>2, <2>3, <2>5 DEF InterruptInv
<1> QED  BY <1>7, <1>8, <1>9

LEMMA ClearKeeps ==
  ASSUME InterruptInv, TypeOK', NEW p \in Pthread, ClearHolder(p)
  PROVE  InterruptInv'
<1>0. TypeOK /\ Stacked /\ OwnerAccounts /\ RestsOnOwner /\ HolderIsOwner
      /\ CounterIsSum /\ WaitsForOthers
  BY DEF InterruptInv
<1>1. /\ depth \in [Pthread -> Nat] /\ osCount \in Nat
      /\ pc \in [Pthread -> Locations] /\ intr[Lisp(p)] \in 0 .. MaxInterrupts
  BY <1>0, PthreadIs DEF TypeOK
<1>2. /\ Running(p) /\ pc[p] = "clearing" /\ holder' = NIL
      /\ pc'[p] = "unlocking" /\ \A q \in Pthread : q # p => pc'[q] = pc[q]
      /\ UNCHANGED <<kind, osOwner, osCount, counter, intr, depth>>
  BY <1>1 DEF ClearHolder
<1>3. PICK o \in Pthread : /\ o = osOwner /\ Lisp(o) = Lisp(p)
                           /\ o # p => Level(o) < Level(p)
  BY <1>0, <1>2 DEF RestsOnOwner, TypeOK
<1>4. \A q \in Pthread : q # p => pc[q] \notin {"clearing", "unlocking", "restoring"}
                                  \/ (Level(q) < Level(p) /\ Lisp(q) = Lisp(p))
  BY <1>0, <1>1, <1>2, <1>3, PthreadIs DEF RestsOnOwner, Stacked, Running
<1>5. Stacked' /\ WaitsForOthers'
  BY <1>0, <1>1, <1>2, PthreadIs DEF Stacked, WaitsForOthers, Running, Between
<1>6. OwnerAccounts'
  BY <1>0, <1>1, <1>2 DEF OwnerAccounts, Between
<1>7. RestsOnOwner'
  <2>1. o # p => pc'[o] = pc[o]
    BY <1>2
  <2>2. o = p => \A q \in Pthread : q # p => depth[q] = 0
                                      /\ pc[q] \notin {"clearing", "unlocking", "restoring"}
    BY <1>0, <1>1, <1>2, <1>3, PthreadIs DEF RestsOnOwner, Stacked, Running
  <2>3. CASE o = p
    BY <1>2, <1>3, <2>2, <2>3 DEF RestsOnOwner
  <2>4. CASE o # p
    BY <1>0, <1>2, <1>3, <2>1, <2>4 DEF RestsOnOwner
  <2> QED  BY <2>3, <2>4
<1>8. CounterIsSum'
  <2>1. \A q \in Pthread : Uncounted(q)' = Uncounted(q)
    BY <1>2 DEF Uncounted
  <2> QED  BY <1>0, <1>2, <2>1 DEF CounterIsSum, Calls
<1>9. HolderIsOwner'
  <2>1. \A q \in Pthread : (Uncounted(q) \/ Unheld(q))' = (Uncounted(q) \/ Unheld(q))
    BY <1>2 DEF Uncounted, Unheld
  <2>2. ASSUME Lisp(o) \in Shielded, depth[o] > 0 \/ pc'[o] \in {"counting", "clearing"},
               \A q \in Pthread : ~Unheld(q)'
        PROVE  FALSE
    <3>1. CASE o = p
      BY <1>0, <1>2, <1>3, <2>2, <3>1 DEF OwnerAccounts
    <3>2. CASE o # p
      <4>1. Unheld(p)' \/ kind = "recursive"
        BY <1>2, <1>3, <3>2 DEF Unheld
      <4>2. kind = "recursive" /\ depth[o] = 0
        BY <1>0, <1>2, <1>3, <2>2, <3>2, <4>1 DEF RestsOnOwner
      <4>3. Level(o) < intr[Lisp(o)]
        BY <1>2, <1>3, <3>2 DEF Running
      <4>4. pc[o] = "idle" /\ pc'[o] = pc[o]
        BY <1>0, <1>2, <1>3, <2>2, <3>2, <4>3 DEF Stacked
      <4> QED  BY <2>2, <4>2, <4>4
    <3> QED  BY <3>1, <3>2
  <2> QED  BY <1>0, <1>2, <1>3, <2>1, <2>2, PthreadIs DEF HolderIsOwner
<1> QED  BY <1>5, <1>6, <1>7, <1>8, <1>9 DEF InterruptInv

LEMMA NotOwnerKeeps ==
  ASSUME InterruptInv, TypeOK', NEW p \in Pthread, OsNotOwner(p)
  PROVE  InterruptInv'
<1>0. TypeOK /\ Stacked /\ OwnerAccounts /\ RestsOnOwner /\ HolderIsOwner
      /\ CounterIsSum /\ WaitsForOthers
  BY DEF InterruptInv
<1>1. /\ depth \in [Pthread -> Nat] /\ counter \in Int
      /\ pc \in [Pthread -> Locations] /\ intr[Lisp(p)] \in 0 .. MaxInterrupts
  BY <1>0, PthreadIs DEF TypeOK
<1>2. /\ Running(p) /\ pc[p] = "unlocking" /\ osOwner # p
      /\ pc' = [pc EXCEPT ![p] = pc'[p]]
      /\ UNCHANGED <<kind, osOwner, osCount, holder, intr, depth>>
  BY <1>1 DEF OsNotOwner
<1>3. PICK o \in Pthread : /\ o = osOwner /\ o # p
                           /\ Lisp(o) = Lisp(p) /\ Level(o) < Level(p)
                           /\ \/ kind = "recursive"
                              \/ kind = "errorcheck" /\ depth[p] = 0 /\ depth[o] > 0
  BY <1>0, <1>2 DEF RestsOnOwner, TypeOK
<1>4. intr[Lisp(p)] # 0
  BY <1>2, <1>3, PthreadIs DEF Running
<1>5. pc'[p] = (IF kind = "recursive" THEN "idle" ELSE "restoring")
      /\ counter' = (IF kind = "recursive" THEN counter ELSE counter + 1)
      /\ \A q \in Pthread : q # p => pc'[q] = pc[q]
  BY <1>1, <1>4 DEF OsNotOwner
<1>6. Stacked' /\ OwnerAccounts' /\ WaitsForOthers'
  BY <1>0, <1>1, <1>2, <1>3, <1>5, PthreadIs
     DEF Stacked, OwnerAccounts, WaitsForOthers, Running, Between
<1>7. RestsOnOwner'
  BY <1>0, <1>1, <1>2, <1>3, <1>5 DEF RestsOnOwner
<1>8. \A q \in Pthread : Unheld(q)' = Unheld(q)
  BY <1>2, <1>5 DEF Unheld
<1>9. HolderIsOwner'
  <2>1. \A q \in Pthread : (Uncounted(q) \/ Unheld(q))' => (Uncounted(q) \/ Unheld(q))
    BY <1>2, <1>5 DEF Uncounted, Unheld
  <2> QED  BY <1>0, <1>2, <1>3, <1>5, <1>8, <2>1 DEF HolderIsOwner
<1>10. CASE kind = "recursive"
  <2>1. CounterIsSum'
    BY <1>0, <1>2, <1>3, <1>5, <1>10 DEF CounterIsSum, Calls
  <2> QED  BY <1>6, <1>7, <1>9, <2>1 DEF InterruptInv
<1>11. CASE kind # "recursive"
  <2>1. Uncounted(p) /\ \A q \in Pthread : ~Uncounted(q)'
    BY <1>0, <1>1, <1>2, <1>5, <1>11 DEF HolderIsOwner, Uncounted, Unheld
  <2>2. counter = 0 /\ counter' = 1
    BY <1>0, <1>3, <1>5, <1>11, <2>1 DEF CounterIsSum
  <2>3. CounterIsSum'
    BY <1>2, <1>3, <1>11, <2>1, <2>2, PthreadIs DEF CounterIsSum
  <2> QED  BY <1>6, <1>7, <1>9, <2>3 DEF InterruptInv
<1> QED  BY <1>10, <1>11

LEMMA RestoreKeeps ==
  ASSUME InterruptInv, TypeOK', NEW p \in Pthread, RestoreHolder(p)
  PROVE  InterruptInv'
<1>0. TypeOK /\ Stacked /\ OwnerAccounts /\ RestsOnOwner /\ HolderIsOwner
      /\ CounterIsSum /\ WaitsForOthers
  BY DEF InterruptInv
<1>1. /\ depth \in [Pthread -> Nat] /\ pc \in [Pthread -> Locations]
      /\ intr[Lisp(p)] \in 0 .. MaxInterrupts
  BY <1>0, PthreadIs DEF TypeOK
<1>2. /\ Running(p) /\ pc[p] = "restoring" /\ osOwner # p /\ holder' = Lisp(p)
      /\ pc'[p] = "idle" /\ \A q \in Pthread : q # p => pc'[q] = pc[q]
      /\ UNCHANGED <<kind, osOwner, osCount, counter, intr, depth>>
  BY <1>0, <1>1 DEF RestoreHolder, OwnerAccounts
<1>3. PICK o \in Pthread : /\ o = osOwner /\ o # p /\ Lisp(o) = Lisp(p)
                           /\ Level(o) < Level(p) /\ depth[o] > 0
                           /\ kind # "recursive" /\ depth[p] = 0
  BY <1>0, <1>2 DEF RestsOnOwner, TypeOK
<1>4. Stacked' /\ OwnerAccounts' /\ WaitsForOthers'
  BY <1>0, <1>1, <1>2, <1>3, PthreadIs
     DEF Stacked, OwnerAccounts, WaitsForOthers, Running, Between
<1>5. RestsOnOwner'
  BY <1>0, <1>2, <1>3 DEF RestsOnOwner
<1>6. \A q \in Pthread : Uncounted(q)' = Uncounted(q)
  BY <1>2 DEF Uncounted
<1>7. CounterIsSum'
  BY <1>0, <1>2, <1>3, <1>6 DEF CounterIsSum
<1>8. \A q \in Pthread : Unheld(q)' => Unheld(q)
  BY <1>2 DEF Unheld
<1>9. HolderIsOwner'
  BY <1>0, <1>2, <1>3, <1>6, <1>8, PthreadIs DEF HolderIsOwner
<1> QED  BY <1>4, <1>5, <1>7, <1>9 DEF InterruptInv

(* An interrupt pushes a pthread, or pops one that has no call in effect.  *)
LEMMA LevelKeeps ==
  ASSUME InterruptInv, TypeOK', NEW t \in Thread, Interrupt(t) \/ EndInterrupt(t)
  PROVE  InterruptInv'
<1>0. TypeOK /\ Stacked /\ OwnerAccounts /\ RestsOnOwner /\ HolderIsOwner
      /\ CounterIsSum /\ WaitsForOthers
  BY DEF InterruptInv
<1>1. /\ intr \in [Thread -> 0 .. MaxInterrupts] /\ MaxInterrupts \in Nat
      /\ depth \in [Pthread -> Nat] /\ counter \in Int
      /\ UNCHANGED <<kind, osOwner, osCount, holder, counter, pc, depth>>
  BY <1>0, LockAssumption DEF TypeOK, Interrupt, EndInterrupt
<1>2. PICK n \in 0 .. MaxInterrupts : n = intr[t]
  BY <1>1
<1>3. PICK m \in 0 .. MaxInterrupts :
        /\ intr' = [intr EXCEPT ![t] = m]
        /\ \/ m = n + 1 /\ pc[<<t, n>>] \in Interruptible(t)
           \/ n = m + 1 /\ depth[<<t, n>>] = 0 /\ pc[<<t, n>>] = "idle"
  <2>1. CASE Interrupt(t)
    <3>1. n + 1 \in 0 .. MaxInterrupts /\ intr' = [intr EXCEPT ![t] = n + 1]
          /\ pc[<<t, n>>] \in Interruptible(t)
      BY <1>1, <1>2, <2>1 DEF Interrupt, Current
    <3> QED  BY <3>1
  <2>2. CASE EndInterrupt(t)
    <3>1. n - 1 \in 0 .. MaxInterrupts /\ intr' = [intr EXCEPT ![t] = n - 1]
          /\ pc[<<t, n>>] = "idle" /\ depth[<<t, n>>] = 0 /\ n = (n - 1) + 1
      BY <1>1, <1>2, <2>2 DEF EndInterrupt, Current
    <3> QED  BY <3>1
  <2> QED  BY <2>1, <2>2
<1>4. OwnerAccounts' /\ RestsOnOwner' /\ HolderIsOwner' /\ WaitsForOthers'
  BY <1>0, <1>1
     DEF OwnerAccounts, RestsOnOwner, HolderIsOwner, WaitsForOthers, Uncounted, Unheld
<1>5. Stacked'
  <2> SUFFICES ASSUME NEW p \in Pthread
               PROVE  /\ Level(p) > intr'[Lisp(p)] => pc[p] = "idle" /\ depth[p] = 0
                      /\ Level(p) < intr'[Lisp(p)] /\ Lisp(p) \in Shielded
                           => pc[p] = "idle"
    BY <1>0, <1>1 DEF Stacked
  <2>1. /\ pc[p] \in {"idle", "locking"} \union Between
        /\ Level(p) > intr[Lisp(p)] => pc[p] = "idle" /\ depth[p] = 0
        /\ Level(p) < intr[Lisp(p)] /\ Lisp(p) \in Shielded => pc[p] = "idle"
    BY <1>0 DEF Stacked
  <2>2. p = <<Lisp(p), Level(p)>> /\ Lisp(p) \in Thread /\ Level(p) \in 0 .. MaxInterrupts
    BY PthreadIs
  <2>3. CASE Lisp(p) # t
    BY <1>1, <1>3, <2>1, <2>2, <2>3
  <2>4. CASE Lisp(p) = t
    <3>1. intr'[t] = m /\ intr[t] = n
      BY <1>1, <1>2, <1>3
    <3>2. CASE Level(p) = n
      BY <1>1, <1>3, <2>1, <2>2, <2>4, <3>1, <3>2 DEF Interruptible, Shielded, Between
    <3>3. CASE Level(p) # n
      BY <1>1, <1>3, <2>1, <2>2, <2>4, <3>1, <3>3
    <3> QED  BY <3>2, <3>3
  <2> QED  BY <2>3, <2>4
<1>6. ASSUME NEW p \in Pthread, kind = "recursive", osOwner = p
      PROVE  IsSum(counter', Calls(Lisp(p))', Level(p), intr'[Lisp(p)])
  <2>1. IsSum(counter, Calls(Lisp(p)), Level(p), intr[Lisp(p)])
        /\ Calls(Lisp(p))' = Calls(Lisp(p)) /\ counter' = counter
    BY <1>0, <1>1, <1>6 DEF CounterIsSum, Calls
  <2>2. CASE Lisp(p) # t
    BY <1>1, <1>3, <2>1, <2>2, PthreadIs
  <2>3. CASE Lisp(p) = t
    <3>1. PICK calls \in [0 .. MaxInterrupts -> Nat] : calls = Calls(Lisp(p))
      BY <1>1, PthreadIs DEF Calls, Pthread
    <3>2. PICK b \in 0 .. MaxInterrupts : b = Level(p)
      BY PthreadIs
    <3>3. m = n + 1 \/ (n = m + 1 /\ calls[n] = 0)
      BY <1>3, <2>3, <3>1 DEF Calls
    <3>4. IsSum(counter, calls, b, n)
      BY <1>2, <2>1, <2>3, <3>1, <3>2
    <3>5. IsSum(counter, calls, b, m)
      BY <1>1, <3>3, <3>4, SumRises
    <3> QED  BY <1>1, <1>3, <2>1, <2>3, <3>1, <3>2, <3>5
  <2> QED  BY <2>2, <2>3
<1>7. CounterIsSum'
  BY <1>0, <1>1, <1>6 DEF CounterIsSum, Uncounted
<1> QED  BY <1>4, <1>5, <1>7 DEF InterruptInv

LEMMA InterruptStep ==
  ASSUME Conditions = FALSE, NestInInterrupt = FALSE
  PROVE  InterruptInv /\ [Next]_vars => InterruptInv'
<1> SUFFICES ASSUME InterruptInv, [Next]_vars PROVE InterruptInv'
  OBVIOUS
<1>0. TypeOK /\ Stacked /\ OwnerAccounts /\ HolderIsOwner /\ WaitsForOthers
  BY DEF InterruptInv
<1>1. TypeOK'
  BY <1>0, TypeStep
<1>2. ASSUME NEW p \in Pthread, PthreadStep(p) PROVE InterruptInv'
  <2>0. Level(p) \in 0 .. MaxInterrupts /\ intr[Lisp(p)] \in 0 .. MaxInterrupts
        /\ depth[p] \in Nat /\ p # NIL
    BY <1>0, PthreadIs DEF TypeOK
  <2>1. CASE GetLockHeld(p)
    BY <1>1, <2>1, NestInInterrupt = FALSE, HeldKeeps
  <2>2. CASE GetLockTry(p)
    <3>1. /\ Running(p) /\ pc[p] = "idle" /\ OsFree(p) /\ OsLock(p)
          /\ osOwner = p => Level(p) = 0
          /\ pc' = [pc EXCEPT ![p] = "locked"]
          /\ UNCHANGED <<kind, holder, counter, intr, depth>>
      BY <2>0, <2>2, NestInInterrupt = FALSE DEF GetLockTry, ClientGets, CanCall
    <3> QED  BY <1>1, <3>1, TakingKeeps
  <2>3. CASE GetLock(p)
    <3>1. /\ Running(p) /\ pc[p] = "idle" /\ pc' = [pc EXCEPT ![p] = "locking"]
          /\ UNCHANGED <<kind, osOwner, osCount, holder, counter, intr, depth>>
          /\ Level(p) > 0 =>
               osOwner # p /\ (kind = "recursive" => holder # Lisp(p))
      BY <2>0, <2>3, NestInInterrupt = FALSE
         DEF GetLock, ClientGets, CanCall, HeldByInterrupted, Running
    <3> QED  BY <1>1, <3>1, WaitingKeeps
  <2>4. CASE OsAcquired(p)
    <3>1. /\ Running(p) /\ pc[p] = "locking" /\ OsFree(p) /\ OsLock(p)
          /\ pc' = [pc EXCEPT ![p] = "locked"]
          /\ UNCHANGED <<kind, holder, counter, intr, depth>>
      BY <2>4 DEF OsAcquired
    <3>2. osOwner = p => Level(p) = 0
      BY <1>0, <3>1 DEF OwnerAccounts
    <3> QED  BY <1>1, <3>1, <3>2, TakingKeeps
  <2>5. CASE OsRefused(p)
    <3>1. /\ Running(p) /\ pc[p] = "locking" /\ pc' = [pc EXCEPT ![p] = "idle"]
          /\ UNCHANGED <<kind, osOwner, osCount, holder, counter, intr, depth>>
      BY <2>5 DEF OsRefused
    <3> QED  BY <1>1, <3>1, WaitingKeeps
  <2>6. CASE RecordHolder(p)
    BY <1>1, <2>6, RecordKeeps
  <2>12. CASE CountLock(p)
    BY <1>1, <2>12, CountKeeps
  <2>13. CASE ClearHolder(p)
    BY <1>1, <2>13, ClearKeeps
  <2>14. CASE RestoreHolder(p)
    BY <1>1, <2>14, RestoreKeeps
  <2>7. CASE GiveupLock(p)
    BY <1>1, <2>7, GiveupKeeps
  <2>8. CASE OsReleased(p)
    BY <1>1, <2>8, ReleasedKeeps
  <2>9. CASE OsNotOwner(p)
    BY <1>1, <2>9, NotOwnerKeeps
  <2>10. ~ConditionWait(p)
    BY Conditions = FALSE DEF ConditionWait
  <2>11. ~ConditionSignal(p) /\ ~ConditionTimeout(p) /\ ~OsReacquired(p)
         /\ ~ConditionReturn(p)
    BY <1>0 DEF Stacked, Between, ConditionSignal, ConditionTimeout, OsReacquired,
       ConditionReturn
  <2> QED
    BY <1>2, <2>1, <2>2, <2>3, <2>4, <2>5, <2>6, <2>7, <2>8, <2>9, <2>10, <2>11,
       <2>12, <2>13, <2>14 DEF PthreadStep
<1>3. ~ConditionBroadcast
  BY <1>0 DEF Stacked, Between, ConditionBroadcast
<1>4. ASSUME NEW t \in Thread, Interrupt(t) \/ EndInterrupt(t) PROVE InterruptInv'
  BY <1>1, <1>4, LevelKeeps
<1>5. CASE UNCHANGED vars
  BY <1>1, <1>5 DEF vars, InterruptInv, Stacked, OwnerAccounts, RestsOnOwner,
     HolderIsOwner, CounterIsSum, WaitsForOthers, Uncounted, Unheld, Calls
<1> QED  BY <1>2, <1>3, <1>4, <1>5 DEF Next

(* Interrupts at any instruction the code leaves open to them, nested to   *)
(* any depth: the two records of the lock, the OS mutex and the Lisp       *)
(* fields, stay in the relation InterruptInv describes.  In particular the *)
(* counter is at every step the number of get-lock calls in effect.        *)
THEOREM LockUnderInterrupts ==
  ASSUME Conditions = FALSE, NestInInterrupt = FALSE
  PROVE  Spec => []InterruptInv
<1>1. InterruptInv /\ [Next]_vars => InterruptInv'
  BY InterruptStep, Conditions = FALSE, NestInInterrupt = FALSE
<1> QED  BY <1>1, InterruptInit, PTL DEF Spec

(* Two Lisp threads are never inside the lock together, though an          *)
(* interrupt function enters a recursive lock past the OS mutex.           *)
THEOREM LockExcludesUnderInterrupts ==
  ASSUME Conditions = FALSE, NestInInterrupt = FALSE
  PROVE  Spec => []MutualExclusion
<1>1. InterruptInv => MutualExclusion
  <2> SUFFICES ASSUME InterruptInv, NEW p \in Pthread, NEW q \in Pthread,
                      depth[p] > 0, depth[q] > 0
               PROVE  Lisp(p) = Lisp(q)
    BY DEF MutualExclusion, Inside
  <2> QED  BY DEF InterruptInv, RestsOnOwner
<1> QED  BY <1>1, LockUnderInterrupts, PTL

(* giveup-lock never refuses a thread that is inside the lock, if the      *)
(* thread uses with-lock and no forced interrupt gets past it.             *)
THEOREM OwnersCanGiveUp ==
  ASSUME Conditions = FALSE, NestInInterrupt = FALSE
  PROVE  Spec => []OwnerCanGiveUp
<1>1. InterruptInv => OwnerCanGiveUp
  <2> SUFFICES ASSUME InterruptInv, NEW p \in Pthread, Lisp(p) \in Shielded,
                      Running(p), pc[p] = "idle", depth[p] > 0
               PROVE  holder = Lisp(p)
    BY DEF OwnerCanGiveUp
  <2>0. TypeOK /\ Stacked /\ OwnerAccounts /\ RestsOnOwner /\ HolderIsOwner
    BY DEF InterruptInv
  <2>1. PICK o \in Pthread : /\ o = osOwner /\ Lisp(o) = Lisp(p)
                             /\ o # p => Level(o) < Level(p)
                             /\ depth[o] > 0 \/ pc[o] \in {"counting", "clearing"}
    BY <2>0 DEF RestsOnOwner, TypeOK
  <2>2. ASSUME NEW q \in Pthread, Unheld(q) PROVE FALSE
    <3>1. Lisp(q) = Lisp(p) /\ pc[q] # "idle"
      BY <2>0, <2>1, <2>2 DEF RestsOnOwner, Unheld
    <3>2. Level(q) = intr[Lisp(p)]
      <4>1. intr[Lisp(q)] \in Nat /\ Level(q) \in Nat
        BY <2>0, PthreadIs DEF TypeOK
      <4> QED  BY <2>0, <3>1, <4>1 DEF Stacked
    <3>3. q = p
      BY <3>1, <3>2, PthreadIs DEF Running
    <3> QED  BY <3>1, <3>3
  <2> QED  BY <2>0, <2>1, <2>2 DEF HolderIsOwner
<1> QED  BY <1>1, LockUnderInterrupts, PTL

(* lock.holder never names a thread that has none of the lock: the holder  *)
(* that giveup-lock reports, and that a recursive get-lock trusts instead  *)
(* of the OS, has a get-lock in effect, or is between the two assignments  *)
(* that record or erase one.                                               *)
THEOREM HoldersHold ==
  ASSUME Conditions = FALSE, NestInInterrupt = FALSE
  PROVE  Spec => []HolderHoldsLock
<1>1. InterruptInv => HolderHoldsLock
  <2> SUFFICES ASSUME InterruptInv, holder # NIL
               PROVE  \E i \in 0 .. MaxInterrupts :
                        \/ depth[<<holder, i>>] > 0
                        \/ pc[<<holder, i>>] \in {"counting", "clearing"}
    BY DEF HolderHoldsLock
  <2>1. osOwner \in Pthread /\ holder = Lisp(osOwner)
        /\ (depth[osOwner] > 0 \/ pc[osOwner] \in {"counting", "clearing"})
    BY DEF InterruptInv, TypeOK, HolderIsOwner
  <2>2. osOwner = <<holder, Level(osOwner)>> /\ Level(osOwner) \in 0 .. MaxInterrupts
    BY <2>1, PthreadIs
  <2> QED  BY <2>1, <2>2
<1> QED  BY <1>1, LockUnderInterrupts, PTL

(* An interrupt function of a thread that uses with-lock never blocks on a *)
(* recursive lock its own suspended pthread owns, which would deadlock the *)
(* thread with itself, if no interrupt of the thread was forced.           *)
THEOREM InterruptsDoNotSelfBlock ==
  ASSUME Conditions = FALSE, NestInInterrupt = FALSE
  PROVE  Spec => []InterruptNeverSelfBlocks
<1>1. InterruptInv => InterruptNeverSelfBlocks
  <2> SUFFICES ASSUME InterruptInv, NEW t \in Shielded,
                      NEW i \in 0 .. MaxInterrupts, NEW j \in 0 .. MaxInterrupts,
                      kind = "recursive", j < i, osOwner = <<t, j>>,
                      pc[<<t, i>>] = "locking"
               PROVE  FALSE
    BY DEF InterruptNeverSelfBlocks
  <2>0. TypeOK /\ Stacked /\ OwnerAccounts /\ HolderIsOwner /\ WaitsForOthers
    BY DEF InterruptInv
  <2>1. /\ t \in Thread /\ MaxInterrupts \in Nat
        /\ <<t, i>> \in Pthread /\ <<t, j>> \in Pthread
        /\ Lisp(<<t, i>>) = t /\ Level(<<t, i>>) = i
        /\ Lisp(<<t, j>>) = t /\ Level(<<t, j>>) = j
    BY LockAssumption DEF Pthread, Lisp, Level, Shielded
  <2>2. intr[t] \in 0 .. MaxInterrupts /\ depth[<<t, j>>] \in Nat
    BY <2>0, <2>1 DEF TypeOK
  <2>3. intr[t] = i
    BY <2>0, <2>1, <2>2 DEF Stacked
  <2>4. pc[<<t, j>>] = "idle"
    BY <2>0, <2>1, <2>3 DEF Stacked
  <2>5. osCount = depth[<<t, j>>] /\ osCount # 0
    <3>1. osCount = depth[<<t, j>>] + 0
      BY <2>0, <2>1, <2>4 DEF OwnerAccounts, Between
    <3>2. osOwner # NIL
      BY <2>1, LockAssumption DEF Pthread
    <3> QED  BY <2>0, <2>2, <3>1, <3>2 DEF TypeOK
  <2>6. holder = t
    BY <2>0, <2>1, <2>2, <2>5 DEF HolderIsOwner, Unheld
  <2> QED  BY <2>0, <2>1, <2>6 DEF WaitsForOthers
<1> QED  BY <1>1, LockUnderInterrupts, PTL
-----------------------------------------------------------------------------
(* lock.counter as a sum over all the pthreads of all the threads.         *)

Counted == counter = Total(depth, Pthread)

(* A finite set of threads has a finite set of pthreads.                   *)
LEMMA FinitePthreads ==
  ASSUME IsFiniteSet(Thread)
  PROVE  IsFiniteSet(Pthread)
<1>1. IsFiniteSet(0 .. MaxInterrupts)
  BY LockAssumption, FS_Interval
<1> QED  BY <1>1, FS_Product DEF Pthread

(* A get-lock or a giveup-lock is counted.                                 *)
LEMMA CountedMoves ==
  ASSUME IsFiniteSet(Thread), TypeOK, Counted, NEW p \in Pthread, NEW x \in Nat,
         depth' = [depth EXCEPT ![p] = x], counter' = counter - depth[p] + x
  PROVE  Counted'
<1>1. /\ \A q \in Pthread : depth[q] \in Nat
      /\ depth'[p] = x /\ \A q \in Pthread : q # p => depth'[q] = depth[q]
  BY DEF TypeOK
<1>2. PICK h : h = depth'
  OBVIOUS
<1>3. /\ IsFiniteSet(Pthread)
      /\ h[p] \in Nat /\ \A q \in Pthread : q # p => h[q] = depth[q]
  BY <1>1, <1>2, FinitePthreads
<1>4. Total(h, Pthread) = Total(depth, Pthread) - depth[p] + h[p]
  BY <1>1, <1>3, TotalMoves
<1> QED  BY <1>1, <1>2, <1>4 DEF Counted

(* Every step keeps the count, if a giveup-lock takes back a call of its   *)
(* own pthread and the undo of a refused one changes nothing.              *)
LEMMA CountedStep ==
  ASSUME IsFiniteSet(Thread), TypeOK, Counted, [Next]_vars,
         \A p \in Pthread : GiveupLock(p) => depth[p] > 0,
         \A p \in Pthread : OsNotOwner(p) => counter' = counter
  PROVE  Counted'
<1>0. depth \in [Pthread -> Nat] /\ counter \in Int
  BY DEF TypeOK
<1>1. CASE UNCHANGED <<depth, counter>>
  BY <1>1 DEF Counted
<1>2. ASSUME NEW p \in Pthread, GetLockHeld(p) \/ CountLock(p) PROVE Counted'
  <2>1. /\ depth' = [depth EXCEPT ![p] = depth[p] + 1] /\ depth[p] + 1 \in Nat
        /\ counter' = counter - depth[p] + (depth[p] + 1)
    BY <1>0, <1>2 DEF GetLockHeld, CountLock
  <2> QED  BY <2>1, CountedMoves
<1>3. ASSUME NEW p \in Pthread, GiveupLock(p) PROVE Counted'
  <2>1. depth[p] \in Nat /\ depth[p] > 0
    BY <1>0, <1>3
  <2>2. depth' = [depth EXCEPT ![p] = depth[p] - 1] /\ counter' = counter - 1
    BY <1>3, <2>1 DEF GiveupLock
  <2>3. depth[p] - 1 \in Nat /\ counter' = counter - depth[p] + (depth[p] - 1)
    BY <1>0, <2>1, <2>2
  <2> QED  BY <2>2, <2>3, CountedMoves
<1>4. ASSUME NEW p \in Pthread, PthreadStep(p) PROVE Counted'
  <2>1. \/ GetLockHeld(p) \/ CountLock(p) \/ GiveupLock(p)
        \/ UNCHANGED <<depth, counter>>
    BY <1>4 DEF PthreadStep, GetLockTry, GetLock, OsAcquired, OsRefused, RecordHolder,
       ClearHolder, OsReleased, OsNotOwner, RestoreHolder,
       ConditionWait, ConditionSignal, ConditionTimeout, OsReacquired, ConditionReturn
  <2> QED  BY <1>1, <1>2, <1>3, <2>1
<1>5. ASSUME \/ ConditionBroadcast
             \/ \E t \in Thread : Interrupt(t) \/ EndInterrupt(t)
             \/ UNCHANGED vars
      PROVE  Counted'
  BY <1>1, <1>5 DEF ConditionBroadcast, Interrupt, EndInterrupt, vars
<1> QED  BY <1>4, <1>5 DEF Next

(* At first nobody has called.                                             *)
LEMMA CountedInit ==
  ASSUME IsFiniteSet(Thread), Init
  PROVE  Counted
<1>1. counter = 0 /\ \A p \in Pthread : depth[p] = 0
  BY DEF Init
<1> QED  BY <1>1, FinitePthreads, TotalOfNone DEF Counted

(* The sum is the one that the property states.                            *)
LEMMA CountedMatches == Counted => CounterMatchesDepth
  BY DEF Counted, CounterMatchesDepth, Total

(* In a program that never interrupts its threads lock.counter counts the  *)
(* get-lock calls in effect at every step, the calls of threads that are   *)
(* parked in condition-wait included, however the waits end.               *)
THEOREM CounterCountsWaiters ==
  ASSUME MaxInterrupts = 0, IsFiniteSet(Thread)
  PROVE  Spec => []CounterMatchesDepth
<1>1. TypeOK /\ OsAccounting /\ Counted /\ [Next]_vars => Counted'
  <2> SUFFICES ASSUME TypeOK, OsAccounting, Counted, [Next]_vars PROVE Counted'
    OBVIOUS
  <2>1. ASSUME NEW p \in Pthread, GiveupLock(p) PROVE depth[p] > 0
    BY <2>1, MaxInterrupts = 0, PthreadIs DEF GiveupLock, ClientGivesUp
  <2>2. ASSUME NEW p \in Pthread, OsNotOwner(p) PROVE FALSE
    <3>1. OsHeld(p) = 0
      BY <2>2 DEF OsNotOwner, OsAccounting
    <3>2. depth[p] \in Nat /\ OsHeld(p) = depth[p] + 1
      BY <2>2 DEF OsNotOwner, OsHeld, TypeOK
    <3> QED  BY <3>1, <3>2
  <2> QED  BY <2>1, <2>2, CountedStep, IsFiniteSet(Thread)
<1>2. Init => Counted
  BY CountedInit, IsFiniteSet(Thread)
<1>3. Spec => []OsAccounting
  BY MutexIsAccountedFor, MaxInterrupts = 0
<1> QED  BY <1>1, <1>2, <1>3, LockTypeCorrect, CountedMatches, PTL DEF Spec

(* With interrupts, outside of giveup-lock, whose side effects come before *)
(* the OS has agreed, lock.counter is the number of get-lock calls in      *)
(* effect on all the pthreads: an interrupt function that enters a         *)
(* recursive lock past the OS mutex, or that is refused by an errorcheck   *)
(* one, leaves it right.                                                   *)
THEOREM CounterCountsCalls ==
  ASSUME Conditions = FALSE, NestInInterrupt = FALSE, IsFiniteSet(Thread)
  PROVE  Spec => []CounterMatchesDepth
<1> DEFINE R == kind = "recursive" => Counted
<1>1. InterruptInv /\ R /\ [Next]_vars => R'
  <2> SUFFICES ASSUME InterruptInv, R, [Next]_vars, kind' = "recursive" PROVE Counted'
    OBVIOUS
  <2>0. TypeOK /\ RestsOnOwner
    BY DEF InterruptInv
  <2>1. kind = "recursive"
    BY DEF Next, PthreadStep, GetLockHeld, GetLockTry, GetLock, OsAcquired, OsRefused,
       RecordHolder, CountLock, GiveupLock, ClearHolder, OsReleased, OsNotOwner,
       RestoreHolder, ConditionWait, ConditionSignal,
       ConditionTimeout, OsReacquired, ConditionReturn, ConditionBroadcast, Interrupt,
       EndInterrupt, vars
  <2>2. ASSUME NEW p \in Pthread, GiveupLock(p) PROVE depth[p] > 0
    BY <2>1, <2>2 DEF GiveupLock, ClientGivesUp
  <2>3. ASSUME NEW p \in Pthread, OsNotOwner(p) PROVE counter' = counter
    <3>1. osOwner \in Pthread /\ Level(osOwner) < Level(p)
      BY <2>0, <2>3 DEF OsNotOwner, RestsOnOwner, TypeOK
    <3>2. Level(osOwner) \in Nat /\ Level(p) \in Nat /\ Level(p) = intr[Lisp(p)]
      BY <2>3, <3>1, PthreadIs DEF OsNotOwner, Running
    <3> QED  BY <2>1, <2>3, <3>1, <3>2 DEF OsNotOwner
  <2> QED  BY <2>0, <2>1, <2>2, <2>3, CountedStep, IsFiniteSet(Thread)
<1>2. Init => R
  BY CountedInit, IsFiniteSet(Thread)
<1>3. InterruptInv /\ R => CounterMatchesDepth
  <2> SUFFICES ASSUME InterruptInv, R, kind # "recursive",
                      \A p \in Pthread : pc[p] \notin {"clearing", "unlocking"}
               PROVE  Counted
    BY CountedMatches DEF CounterMatchesDepth
  <2>0. TypeOK /\ OwnerAccounts /\ RestsOnOwner /\ HolderIsOwner /\ CounterIsSum
    BY DEF InterruptInv
  <2>2. \A q \in Pthread : osOwner # q => depth[q] = 0
    BY <2>0 DEF RestsOnOwner, TypeOK
  <2>3. CASE osOwner = NIL
    <3>1. \A q \in Pthread : depth[q] = 0
      BY <2>2, <2>3, PthreadIs
    <3>2. counter = 0
      BY <2>0, <2>3 DEF CounterIsSum
    <3> QED  BY <3>1, <3>2, FinitePthreads, TotalOfNone, IsFiniteSet(Thread) DEF Counted
  <2>4. CASE osOwner # NIL
    <3>1. PICK o \in Pthread : o = osOwner
      BY <2>0, <2>4 DEF TypeOK
    <3>2. depth[o] \in Nat /\ depth[o] \in {0, 1}
      BY <2>0, <3>1 DEF OwnerAccounts, TypeOK
    <3>4. counter = depth[o]
      BY <2>0, <3>1, <3>2 DEF CounterIsSum, Uncounted
    <3>5. Total(depth, Pthread) = depth[o]
      <4>1. \A q \in Pthread : q # o => depth[q] = 0
        BY <2>2, <3>1
      <4> QED  BY <3>2, <4>1, FinitePthreads, TotalOfOne, IsFiniteSet(Thread)
    <3> QED  BY <3>4, <3>5 DEF Counted
  <2> QED  BY <2>3, <2>4
<1>4. Spec => []InterruptInv
  BY LockUnderInterrupts, Conditions = FALSE, NestInInterrupt = FALSE
<1> HIDE DEF R
<1> QED  BY <1>1, <1>2, <1>3, <1>4, PTL DEF Spec
=============================================================================
