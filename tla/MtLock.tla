------------------------------- MODULE MtLock -------------------------------
(***************************************************************************)
(* MT:LOCK objects and condition variables of the pthreads build           *)
(* (src/src/c/threads.c, "LOCKS or MUTEX" and condition variables).        *)
(*                                                                         *)
(* A lock is two records kept side by side: the OS mutex, whose owner is a *)
(* pthread, and the Lisp fields holder and counter, whose owner is a Lisp  *)
(* thread.  They can disagree, because a Lisp thread that has been         *)
(* interrupted runs on another pthread: mt:interrupt-thread suspends the   *)
(* pthread of the target and runs the function on a fresh pthread that     *)
(* uses the same env, hence the same own_thread.  The pthread <<t, i>> is  *)
(* the one that runs for Lisp thread t while i interrupts are on its stack *)
(* (thread.interrupt_count = i); all the lower ones are suspended.         *)
(***************************************************************************)
EXTENDS Integers, FiniteSetsExt

CONSTANTS
  Thread,          \* Lisp threads sharing the lock
  NIL,             \* mk_cl_Cnil, or "no pthread" for the OS mutex
  Kinds,           \* mutex attributes the lock may be created with
  MaxDepth,        \* bound: nested get-lock calls of one pthread
  MaxInterrupts,   \* bound: interrupts on the stack of one Lisp thread
  WithLock,        \* the threads that always go through the with-lock macro
  Forced,          \* the threads interrupted with :force, or killed
  NestInInterrupt, \* TRUE: an interrupt function may nest its own get-lock
  Conditions,      \* TRUE: the lock is used with a condition variable
  TimedConditions  \* TRUE: some condition-wait calls have a timeout

AllKinds == {"errorcheck", "normal", "recursive"}

ASSUME LockAssumption ==
  /\ Kinds \subseteq AllKinds
  /\ MaxDepth \in Nat \ {0}
  /\ MaxInterrupts \in Nat
  /\ NIL \notin Thread
  /\ NIL \notin (Thread \X (0 .. MaxInterrupts))
  /\ WithLock \subseteq Thread /\ Forced \subseteq Thread
  /\ NestInInterrupt \in BOOLEAN
  /\ Conditions \in BOOLEAN /\ TimedConditions \in BOOLEAN

Pthread == Thread \X (0 .. MaxInterrupts)

VARIABLES
  kind,     \* attribute of the OS mutex (lock.recursive = (kind = "recursive"))
  osOwner,  \* pthread owning the OS mutex, or NIL
  osCount,  \* how often it owns it
  holder,   \* lock.holder
  counter,  \* lock.counter
  intr,     \* thread.interrupt_count of every Lisp thread
  pc,       \* where each pthread is in get-lock, giveup-lock, condition-wait
  timed,    \* the call in progress has a deadline
  expired,  \* pthread_cond_timedwait is returning ETIMEDOUT
  depth     \* ghost: successful get-lock calls not yet matched by giveup-lock

vars == <<kind, osOwner, osCount, holder, counter, intr, pc, timed, expired,
          depth>>

Locations == {"idle",      \* outside the lock operations
              "locking",   \* in pthread_mutex_lock or _timedlock
              "locked",    \* it returned 0, holder not yet set
              "counting",  \* holder set, counter not yet incremented
              "clearing",  \* counter decremented to 0, holder not yet cleared
              "unlocking", \* holder and counter updated, unlock not called
              "restoring", \* EPERM: counter undone, holder not yet
              "waiting",   \* in pthread_cond_[timed]wait, mutex released
              "waking",    \* signalled or timed out, mutex not reacquired
              "woken"}     \* the wait returned, holder not yet set

Lisp(p) == p[1]
Level(p) == p[2]

(* The pthread on which Lisp thread t now executes.                        *)
Current(t) == <<t, intr[t]>>

Running(p) == Level(p) = intr[Lisp(p)]

(***************************************************************************)
(* The OS mutex.                                                           *)
(***************************************************************************)
OsFree(p) == osOwner = NIL \/ (kind = "recursive" /\ osOwner = p)

OsLock(p) == osOwner' = p /\ osCount' = osCount + 1

OsUnlock(p) ==
  /\ osCount' = osCount - 1
  /\ osOwner' = IF osCount = 1 THEN NIL ELSE osOwner

(* mk_mt_make_lock, once for the lock under study.                         *)
Init ==
  /\ kind \in Kinds
  /\ osOwner = NIL /\ osCount = 0
  /\ holder = NIL /\ counter = 0
  /\ intr = [t \in Thread |-> 0]
  /\ pc = [p \in Pthread |-> "idle"]
  /\ timed = [p \in Pthread |-> FALSE]
  /\ expired = [p \in Pthread |-> FALSE]
  /\ depth = [p \in Pthread |-> 0]
----------------------------------------------------------------------------
(***************************************************************************)
(* get-lock                                                                *)
(***************************************************************************)
CanCall(p) == Running(p) /\ pc[p] = "idle"

(* Mutant: the early return does not ask who holds the lock.               *)
HeldByInterrupted_Anyone(p) ==
  kind = "recursive" /\ holder # NIL /\ intr[Lisp(p)] # 0

(* Mutant: no early return at all.                                         *)
HeldByInterrupted_Never(p) == FALSE

(* "already held recursive lock in an interrupted thread"                  *)
HeldByInterrupted(p) ==
  /\ kind = "recursive"
  /\ holder = Lisp(p)
  /\ intr[Lisp(p)] # 0

(* What clients do: bounded nesting, and an interrupt function that already*)
(* owns the mutex itself asks for it again only if NestInInterrupt.        *)
ClientGets(p) ==
  /\ CanCall(p)
  /\ depth[p] < MaxDepth
  /\ (Level(p) > 0 /\ osOwner = p) => NestInInterrupt

(* The early return of get-lock: only the Lisp counter moves.              *)
GetLockHeld(p) ==
  /\ ClientGets(p)
  /\ HeldByInterrupted(p)
  /\ counter' = counter + 1
  /\ depth' = [depth EXCEPT ![p] = @ + 1]
  /\ UNCHANGED <<kind, osOwner, osCount, holder, intr, pc, timed, expired>>

(* timeout nil or 0: trylock; EBUSY returns nil and changes nothing.       *)
GetLockTry(p) ==
  /\ ClientGets(p)
  /\ ~HeldByInterrupted(p)
  /\ OsFree(p)
  /\ OsLock(p)
  /\ pc' = [pc EXCEPT ![p] = "locked"]
  /\ UNCHANGED <<kind, holder, counter, intr, timed, expired, depth>>

(* timeout t or a positive number: enter the blocking OS call.             *)
GetLock(p) ==
  /\ ClientGets(p)
  /\ ~HeldByInterrupted(p)
  /\ pc' = [pc EXCEPT ![p] = "locking"]
  /\ \E deadline \in BOOLEAN : timed' = [timed EXCEPT ![p] = deadline]
  /\ UNCHANGED <<kind, osOwner, osCount, holder, counter, intr, expired, depth>>

OsAcquired(p) ==
  /\ Running(p)
  /\ pc[p] = "locking"
  /\ OsFree(p)
  /\ OsLock(p)
  /\ pc' = [pc EXCEPT ![p] = "locked"]
  /\ timed' = [timed EXCEPT ![p] = FALSE]
  /\ UNCHANGED <<kind, holder, counter, intr, expired, depth>>

(* Mutant: ETIMEDOUT is taken for success.                                 *)
OsRefused_GoesOn(p) ==
  /\ Running(p)
  /\ pc[p] = "locking"
  /\ timed[p]
  /\ pc' = [pc EXCEPT ![p] = "locked"]
  /\ timed' = [timed EXCEPT ![p] = FALSE]
  /\ UNCHANGED <<kind, osOwner, osCount, holder, counter, intr, expired, depth>>

(* ETIMEDOUT returns nil; EDEADLK, on an errorcheck mutex, is an error.    *)
OsRefused(p) ==
  /\ Running(p)
  /\ pc[p] = "locking"
  /\ \/ timed[p]
     \/ kind = "errorcheck" /\ osOwner = p
  /\ pc' = [pc EXCEPT ![p] = "idle"]
  /\ timed' = [timed EXCEPT ![p] = FALSE]
  /\ UNCHANGED <<kind, osOwner, osCount, holder, counter, intr, expired, depth>>

(* case 0 of the final switch: two assignments, in this order.             *)
RecordHolder(p) ==
  /\ Running(p)
  /\ pc[p] = "locked"
  /\ holder' = Lisp(p)
  /\ pc' = [pc EXCEPT ![p] = "counting"]
  /\ UNCHANGED <<kind, osOwner, osCount, counter, intr, timed, expired, depth>>

CountLock(p) ==
  /\ Running(p)
  /\ pc[p] = "counting"
  /\ counter' = counter + 1
  /\ depth' = [depth EXCEPT ![p] = @ + 1]
  /\ pc' = [pc EXCEPT ![p] = "idle"]
  /\ UNCHANGED <<kind, osOwner, osCount, holder, intr, timed, expired>>
----------------------------------------------------------------------------
(***************************************************************************)
(* giveup-lock.  A caller that is not the holder gets an error and nothing *)
(* changes.                                                                *)
(***************************************************************************)

(* What clients do: release what they got; on an errorcheck mutex, whose   *)
(* unlock is checked by the OS, an interrupt function may also try to      *)
(* release what the thread it interrupts got, though not in the middle of  *)
(* another such attempt.                                                   *)
ClientGivesUp(p) ==
  /\ CanCall(p)
  /\ \/ depth[p] > 0
     \/ /\ kind = "errorcheck"
        /\ \E i \in 0 .. MaxInterrupts :
             i < Level(p) /\ depth[<<Lisp(p), i>>] > 0
        /\ \A i \in 0 .. MaxInterrupts :
             i < Level(p) => pc[<<Lisp(p), i>>] \notin {"clearing", "unlocking", "restoring"}

(* Mutant: the holder is forgotten at the first giveup-lock.               *)
GiveupLock_ForgetsNesting(p) ==
  /\ ClientGivesUp(p)
  /\ holder = Lisp(p)
  /\ counter' = counter - 1
  /\ depth' = [depth EXCEPT ![p] = IF @ > 0 THEN @ - 1 ELSE @]
  /\ pc' = [pc EXCEPT ![p] = "clearing"]
  /\ UNCHANGED <<kind, osOwner, osCount, holder, intr, timed, expired>>

(* "anticipated release side-effects"                                      *)
GiveupLock(p) ==
  /\ ClientGivesUp(p)
  /\ holder = Lisp(p)
  /\ counter' = counter - 1
  /\ depth' = [depth EXCEPT ![p] = IF @ > 0 THEN @ - 1 ELSE @]
  /\ pc' = [pc EXCEPT ![p] = IF counter = 1 THEN "clearing" ELSE "unlocking"]
  /\ UNCHANGED <<kind, osOwner, osCount, holder, intr, timed, expired>>

(* Mutant: the holder is not reset by the last giveup-lock.                *)
ClearHolder_KeepsHolder(p) ==
  /\ Running(p)
  /\ pc[p] = "clearing"
  /\ pc' = [pc EXCEPT ![p] = "unlocking"]
  /\ UNCHANGED <<kind, osOwner, osCount, holder, counter, intr, timed, expired,
                 depth>>

ClearHolder(p) ==
  /\ Running(p)
  /\ pc[p] = "clearing"
  /\ holder' = NIL
  /\ pc' = [pc EXCEPT ![p] = "unlocking"]
  /\ UNCHANGED <<kind, osOwner, osCount, counter, intr, timed, expired, depth>>

(* pthread_mutex_unlock returned 0.                                        *)
OsReleased(p) ==
  /\ Running(p)
  /\ pc[p] = "unlocking"
  /\ osOwner = p
  /\ OsUnlock(p)
  /\ pc' = [pc EXCEPT ![p] = "idle"]
  /\ UNCHANGED <<kind, holder, counter, intr, timed, expired, depth>>

(* Mutant: the error path does not undo the anticipated release.           *)
OsNotOwner_NoUndo(p) ==
  /\ Running(p)
  /\ pc[p] = "unlocking"
  /\ osOwner # p
  /\ pc' = [pc EXCEPT ![p] = "idle"]
  /\ UNCHANGED <<kind, osOwner, osCount, holder, counter, intr, timed, expired,
                 depth>>

(* EPERM: forgiven in an interrupted thread that holds a recursive lock,   *)
(* otherwise "undo anticipated release side-effects" and signal an error.  *)
OsNotOwner(p) ==
  /\ Running(p)
  /\ pc[p] = "unlocking"
  /\ osOwner # p
  /\ IF kind = "recursive" /\ intr[Lisp(p)] # 0
       THEN UNCHANGED counter /\ pc' = [pc EXCEPT ![p] = "idle"]
       ELSE counter' = counter + 1 /\ pc' = [pc EXCEPT ![p] = "restoring"]
  /\ UNCHANGED <<kind, osOwner, osCount, holder, intr, timed, expired, depth>>

RestoreHolder(p) ==
  /\ Running(p)
  /\ pc[p] = "restoring"
  /\ holder' = Lisp(p)
  /\ pc' = [pc EXCEPT ![p] = "idle"]
  /\ UNCHANGED <<kind, osOwner, osCount, counter, intr, timed, expired, depth>>
----------------------------------------------------------------------------
(***************************************************************************)
(* condition-wait, condition-signal, condition-broadcast, on one condition *)
(* variable used with this lock.  EPERM (the mutex is not the caller's) is *)
(* an error and changes nothing.                                           *)
(***************************************************************************)
ConditionWait(p) ==
  /\ Conditions
  /\ CanCall(p)
  /\ depth[p] > 0
  /\ osOwner = p
  /\ OsUnlock(p)
  /\ pc' = [pc EXCEPT ![p] = "waiting"]
  /\ \E deadline \in BOOLEAN :
       /\ deadline => TimedConditions
       /\ timed' = [timed EXCEPT ![p] = deadline]
  /\ UNCHANGED <<kind, holder, counter, intr, expired, depth>>

(* A signal wakes some waiter (POSIX: at least one; a wait may also wake   *)
(* spuriously, and mt:interrupt-thread broadcasts to wake its target).     *)
ConditionSignal(p) ==
  /\ pc[p] = "waiting"
  /\ pc' = [pc EXCEPT ![p] = "waking"]
  /\ timed' = [timed EXCEPT ![p] = FALSE]
  /\ UNCHANGED <<kind, osOwner, osCount, holder, counter, intr, expired, depth>>

ConditionBroadcast ==
  /\ \E p \in Pthread : pc[p] = "waiting"
  /\ pc' = [p \in Pthread |-> IF pc[p] = "waiting" THEN "waking" ELSE pc[p]]
  /\ timed' = [p \in Pthread |-> timed[p] /\ pc[p] # "waiting"]
  /\ UNCHANGED <<kind, osOwner, osCount, holder, counter, intr, expired, depth>>

ConditionTimeout(p) ==
  /\ pc[p] = "waiting"
  /\ timed[p]
  /\ pc' = [pc EXCEPT ![p] = "waking"]
  /\ timed' = [timed EXCEPT ![p] = FALSE]
  /\ expired' = [expired EXCEPT ![p] = TRUE]
  /\ UNCHANGED <<kind, osOwner, osCount, holder, counter, intr, depth>>

(* pthread_cond_[timed]wait returns with the mutex, whatever its result.   *)
OsReacquired(p) ==
  /\ pc[p] = "waking"
  /\ OsFree(p)
  /\ OsLock(p)
  /\ pc' = [pc EXCEPT ![p] = "woken"]
  /\ UNCHANGED <<kind, holder, counter, intr, timed, expired, depth>>

(* rc = 0 sets the holder; ETIMEDOUT returns nil without doing so.         *)
ConditionReturn(p) ==
  /\ Running(p)
  /\ pc[p] = "woken"
  /\ holder' = IF expired[p] THEN holder ELSE Lisp(p)
  /\ pc' = [pc EXCEPT ![p] = "idle"]
  /\ expired' = [expired EXCEPT ![p] = FALSE]
  /\ UNCHANGED <<kind, osOwner, osCount, counter, intr, timed, depth>>
----------------------------------------------------------------------------
(***************************************************************************)
(* mt:interrupt-thread, seen from the lock.  The OS calls run under        *)
(* MKCL_LIBC_NO_INTR; what is left are the instructions around them, which *)
(* with-lock also covers with without-interrupts (src/src/lsp/mp.lsp), but *)
(* nothing covers the return of condition-wait.  A forced interrupt passes *)
(* both covers, and also finds its target inside the blocking OS call.     *)
(* The functions return: one that unwinds the thread is not in this module.*)
(***************************************************************************)
Shielded == WithLock \ Forced

Between == {"locked", "counting", "clearing", "unlocking", "restoring"}

Interruptible(t) ==
  {"idle", "woken"}
    \union (IF t \in Shielded THEN {} ELSE Between)
    \union (IF t \in Forced THEN {"locking"} ELSE {})

Interrupt(t) ==
  /\ intr[t] < MaxInterrupts
  /\ pc[Current(t)] \in Interruptible(t)
  /\ intr' = [intr EXCEPT ![t] = @ + 1]
  /\ UNCHANGED <<kind, osOwner, osCount, holder, counter, pc, timed, expired,
                 depth>>

(* The interrupt function returns, having given up what it got.            *)
EndInterrupt(t) ==
  /\ intr[t] > 0
  /\ pc[Current(t)] = "idle"
  /\ depth[Current(t)] = 0
  /\ intr' = [intr EXCEPT ![t] = @ - 1]
  /\ UNCHANGED <<kind, osOwner, osCount, holder, counter, pc, timed, expired,
                 depth>>
----------------------------------------------------------------------------
PthreadStep(p) ==
  \/ GetLockHeld(p)
  \/ GetLockTry(p)
  \/ GetLock(p)
  \/ OsAcquired(p)
  \/ OsRefused(p)
  \/ RecordHolder(p)
  \/ CountLock(p)
  \/ GiveupLock(p)
  \/ ClearHolder(p)
  \/ OsReleased(p)
  \/ OsNotOwner(p)
  \/ RestoreHolder(p)
  \/ ConditionWait(p)
  \/ ConditionSignal(p)
  \/ ConditionTimeout(p)
  \/ OsReacquired(p)
  \/ ConditionReturn(p)

Next ==
  \/ \E p \in Pthread : PthreadStep(p)
  \/ ConditionBroadcast
  \/ \E t \in Thread : Interrupt(t) \/ EndInterrupt(t)

Spec == Init /\ [][Next]_vars
----------------------------------------------------------------------------
TypeOK ==
  /\ kind \in Kinds
  /\ osOwner \in Pthread \union {NIL}
  /\ osCount \in Nat
  /\ osOwner = NIL <=> osCount = 0
  /\ holder \in Thread \union {NIL}
  /\ counter \in Int
  /\ intr \in [Thread -> 0 .. MaxInterrupts]
  /\ pc \in [Pthread -> Locations]
  /\ timed \in [Pthread -> BOOLEAN]
  /\ expired \in [Pthread -> BOOLEAN]
  /\ depth \in [Pthread -> Nat]

(* How often the OS mutex should be pthread p's, judging by where p is.     *)
OsHeld(p) ==
  depth[p] + (IF pc[p] \in {"locked", "counting", "clearing", "unlocking"} THEN 1 ELSE 0)
           - (IF pc[p] \in {"waiting", "waking"} THEN 1 ELSE 0)

(* Without interrupts, the OS mutex is owned by the pthread that got the   *)
(* lock, once for every get-lock in effect, and by no other; whoever waits *)
(* on the condition or is waking from it did get the lock.                 *)
OsAccounting ==
  \A p \in Pthread :
    /\ OsHeld(p) = IF osOwner = p THEN osCount ELSE 0
    /\ pc[p] \in {"waiting", "waking", "woken"} => depth[p] > 0

(* A pthread is inside the lock from the return of get-lock to the call of *)
(* giveup-lock, except while condition-wait has released the mutex.        *)
Inside(p) == depth[p] > 0 /\ pc[p] \notin {"waiting", "waking"}

(* What a lock is for: two Lisp threads are never inside it together,      *)
(* whatever its kind, interrupted or not, through every condition-wait.    *)
MutualExclusion ==
  \A p, q \in Pthread : Inside(p) /\ Inside(q) => Lisp(p) = Lisp(q)

(* A thread that uses with-lock, and is not interrupted by force, can give *)
(* up the lock it is inside: the ownership test of giveup-lock             *)
(* (lock.holder) never refuses a thread the mutex belongs to.  Others may  *)
(* lose the holder field to an interrupt function that gets and gives up   *)
(* the lock between the two assignments of get-lock.                       *)
OwnerCanGiveUp ==
  \A p \in Pthread :
    Lisp(p) \in Shielded /\ Running(p) /\ pc[p] = "idle" /\ depth[p] > 0
      => holder = Lisp(p)

(* "thread holding the lock or NIL" (mkcl/object.h): lock.holder never     *)
(* names a thread that has none of the lock, and is not just getting or    *)
(* giving it up.                                                           *)
HolderHoldsLock ==
  holder # NIL =>
    \E i \in 0 .. MaxInterrupts :
      LET p == <<holder, i>> IN depth[p] > 0 \/ pc[p] \in {"counting", "clearing"}

(* lock.counter counts every get-lock that is not yet given up, those of   *)
(* threads parked in condition-wait included: condition-wait releases the  *)
(* mutex without touching the counter, and reacquires it the same way.     *)
CounterMatchesDepth ==
  (\A p \in Pthread : pc[p] \notin {"clearing", "unlocking"})
    => counter = MapThenSumSet(LAMBDA p : depth[p], Pthread)

(* For a thread that uses with-lock, and is not interrupted by force, a    *)
(* recursive lock that it holds is available to its interrupt functions,   *)
(* whatever other threads do: they never wait for a pthread that is        *)
(* suspended until they return.                                            *)
InterruptNeverSelfBlocks ==
  \A t \in Shielded, i, j \in 0 .. MaxInterrupts :
    kind = "recursive" /\ j < i /\ osOwner = <<t, j>>
      => pc[<<t, i>>] # "locking"
----------------------------------------------------------------------------
(***************************************************************************)
(* What makes these true when there are interrupts, but no condition wait  *)
(* and no get-lock nested by an interrupt function that owns the mutex.    *)
(* The pthreads of a Lisp thread are a stack: those above the running one  *)
(* are gone, those below it are suspended, those of a shielded thread      *)
(* outside the lock operations.                                            *)
(***************************************************************************)
Stacked ==
  \A p \in Pthread :
    /\ pc[p] \in {"idle", "locking"} \union Between
    /\ Level(p) > intr[Lisp(p)] => pc[p] = "idle" /\ depth[p] = 0
    /\ Level(p) < intr[Lisp(p)] /\ Lisp(p) \in Shielded => pc[p] = "idle"

(* The owner of the mutex owns it once for each get-lock in effect; only a *)
(* pthread that runs no interrupt function owns a recursive one repeatedly.*)
OwnerAccounts ==
  \A p \in Pthread :
    /\ osOwner = p =>
         /\ osCount = depth[p] + (IF pc[p] \in Between THEN 1 ELSE 0)
         /\ kind # "recursive" \/ Level(p) > 0 => osCount = 1
         /\ pc[p] = "clearing" => depth[p] = 0
         /\ pc[p] # "restoring"
         /\ pc[p] = "locking" => Level(p) = 0
    /\ pc[p] \in {"locked", "counting"} => osOwner = p

(* Any other pthread that has got the lock, or that is giving it up, runs  *)
(* above the owner, which waits for it to return, with the lock or between *)
(* the two assignments that record it: on a recursive lock, or in an       *)
(* attempt that an errorcheck mutex refuses.                               *)
RestsOnOwner ==
  \A p \in Pthread :
    (depth[p] > 0 \/ pc[p] \in {"clearing", "unlocking", "restoring"}) /\ osOwner # p =>
      /\ osOwner # NIL
      /\ Lisp(osOwner) = Lisp(p) /\ Level(osOwner) < Level(p)
      /\ depth[osOwner] > 0
           \/ (kind = "recursive" /\ pc[osOwner] \in {"counting", "clearing"})
      /\ kind = "recursive" /\ pc[p] = "clearing" => depth[osOwner] = 0
      /\ \/ kind = "recursive" /\ pc[p] # "restoring"
         \/ kind = "errorcheck" /\ depth[p] = 0

(* giveup-lock is about to be refused by the OS: it has taken the call off *)
(* the counter, the holder off the lock.                                   *)
Uncounted(p) ==
  kind # "recursive" /\ osOwner # p /\ pc[p] \in {"clearing", "unlocking"}
Unheld(p) ==
  kind # "recursive" /\ osOwner # p /\ pc[p] \in {"unlocking", "restoring"}

(* The holder field names the owner, or nobody: nobody before get-lock has *)
(* set it and after giveup-lock has cleared it, and for a shielded thread  *)
(* at no other time.                                                       *)
HolderIsOwner ==
  /\ \A p, q \in Pthread :
       (Uncounted(p) \/ Unheld(p)) /\ (Uncounted(q) \/ Unheld(q)) => p = q
  /\ osOwner = NIL => holder = NIL
  /\ \A p \in Pthread : osOwner = p =>
       /\ holder \in {Lisp(p), NIL}
       /\ depth[p] = 0 /\ pc[p] \notin {"counting", "clearing"} => holder = NIL
       /\ /\ Lisp(p) \in Shielded
          /\ depth[p] > 0 \/ pc[p] \in {"counting", "clearing"}
          /\ \A q \in Pthread : ~Unheld(q)
          => holder = Lisp(p)

(* lock.counter counts the get-lock calls in effect of all the pthreads of *)
(* the thread that owns the mutex, from the level of the owner to the top: *)
(* upto[i] are those of the levels below i.                                *)
Sums(upto, calls, top, total) ==
  /\ \A i \in 0 .. MaxInterrupts : upto[i + 1] = upto[i] + calls[i]
  /\ \A i, j \in 0 .. MaxInterrupts + 1 : i <= j => upto[i] <= upto[j]
  /\ \A i \in 0 .. MaxInterrupts + 1 : i > top => upto[i] = total

IsSum(total, calls, bottom, top) ==
  \E upto \in [0 .. MaxInterrupts + 1 -> 0 .. total] :
    Sums(upto, calls, top, total) /\ upto[bottom] = 0

Calls(t) == [i \in 0 .. MaxInterrupts |-> depth[<<t, i>>]]

CounterIsSum ==
  /\ osOwner = NIL => counter = 0
  /\ \A p \in Pthread : osOwner = p =>
       IF kind = "recursive"
         THEN IsSum(counter, Calls(Lisp(p)), Level(p), intr[Lisp(p)])
         ELSE counter = IF depth[p] > 0 /\ \A q \in Pthread : ~Uncounted(q) THEN 1 ELSE 0

(* An interrupt function of a shielded thread waits for a recursive lock   *)
(* only if its own thread does not hold it.                                *)
WaitsForOthers ==
  \A p \in Pthread :
    kind = "recursive" /\ pc[p] = "locking" /\ Level(p) > 0 /\ Lisp(p) \in Shielded
      => holder # Lisp(p)

InterruptInv ==
  /\ TypeOK /\ Stacked /\ OwnerAccounts /\ RestsOnOwner /\ HolderIsOwner
  /\ CounterIsSum /\ WaitsForOthers
=============================================================================
