----------------------------- MODULE ImportPool -----------------------------
(***************************************************************************)
(* Foreign pthreads that enter Lisp through a callback                     *)
(* (src/src/c/threads.c, src/src/c/arch/ffi_x86_64.c).  Each borrows a     *)
(* thread object, with its env, from mkcl_core.imported_thread_pool and    *)
(* gives it back when the callback returns.  A filler daemon adds a batch  *)
(* of fresh ones each time it is asked through the semaphore `empty', and  *)
(* answers through `full'.                                                 *)
(*                                                                         *)
(* Every access to the pool is made with its mutex held.  The mutex is kept*)
(* over several steps only by an importer that waits for `full', so `lock' *)
(* names that importer and the other critical sections are single steps.   *)
(***************************************************************************)
EXTENDS Integers

CONSTANTS
  Foreign,    \* pthreads that are not made by Lisp
  GcThreads,  \* those of them that the collector already knows
  Batch,      \* thread objects made by one fill (5 in the code)
  MaxEnv,     \* bound: thread objects made
  NIL,
  Interrupt   \* the pthread that runs the function of an interrupt

ASSUME PoolAssumption ==
  /\ Batch \in Nat \ {0} /\ MaxEnv \in Nat
  /\ GcThreads \subseteq Foreign
  /\ NIL \notin Foreign \union (1 .. MaxEnv)
  /\ Interrupt \notin Foreign \union {NIL}

Env == 1 .. MaxEnv

VARIABLES
  pool,     \* mkcl_core.imported_thread_pool
  made,     \* thread objects made so far
  lock,     \* the importer that waits for `full' with the mutex held, or NIL
  empty,    \* semaphore mkcl_imported_thread_pool_empty
  full,     \* semaphore mkcl_imported_thread_pool_full
  filler,   \* where the filler daemon is
  at,       \* where each foreign pthread is
  env,      \* the thread object it works with
  must,     \* must_unregister of mkcl_release_current_thread
  ident,    \* thread.thread
  stopped,  \* the foreign pthread in thread.interrupted_threads
  result,   \* thread.result_value
  threads,  \* mkcl_core.threads
  joined,   \* the idents of listed Lisp threads whose pthread was reaped
  gc,       \* the foreign pthreads that the collector knows
  leaked    \* ghost: thread objects dropped on the way

vars == <<pool, made, lock, empty, full, filler, at, env, must, ident, stopped,
          result, threads, joined, gc, leaked>>

(* mkcl_init_threads has made the semaphores, started the filler daemon    *)
(* and triggered the initial fill-up.                                      *)
Init ==
  /\ pool = {} /\ made = 0 /\ lock = NIL
  /\ empty = 1 /\ full = 0 /\ filler = "asleep"
  /\ at = [f \in Foreign |-> "out"]
  /\ env = [f \in Foreign |-> NIL]
  /\ must = [f \in Foreign |-> FALSE]
  /\ ident = [e \in Env |-> NIL] /\ stopped = [e \in Env |-> NIL]
  /\ result = [e \in Env |-> "none"]
  /\ threads = {} /\ joined = {} /\ gc = GcThreads /\ leaked = {}

(* Changed only by the steps of other parts that are given below.          *)
others == <<stopped, joined>>

Goto(f, place) == at' = [at EXCEPT ![f] = place]
----------------------------------------------------------------------------
(***************************************************************************)
(* imported_thread_pool_filler                                             *)
(***************************************************************************)
FillerWait ==
  /\ filler = "asleep" /\ empty > 0
  /\ empty' = empty - 1
  /\ filler' = "filling"
  /\ UNCHANGED <<pool, made, lock, full, at, env, must, ident, result, threads,
                 gc, leaked, others>>

(* fill_imported_thread_pool                                               *)
Fill ==
  /\ filler = "filling" /\ lock = NIL
  /\ made + Batch <= MaxEnv
  /\ pool' = pool \union (made + 1 .. made + Batch)
  /\ made' = made + Batch
  /\ filler' = "filled"
  /\ UNCHANGED <<lock, empty, full, at, env, must, ident, result, threads, gc,
                 leaked, others>>

FillerPost ==
  /\ filler = "filled"
  /\ full' = full + 1
  /\ filler' = "asleep"
  /\ UNCHANGED <<pool, made, lock, empty, at, env, must, ident, result, threads,
                 gc, leaked, others>>
----------------------------------------------------------------------------
(***************************************************************************)
(* mkcl_import_current_thread.  The walk over the list of threads, without *)
(* its lock, reads one version of the list: no cell of it is ever changed. *)
(* It looks at the ident of each thread and at those of the pthreads that  *)
(* its interrupts have stopped.  A pthread that is found is refused        *)
(* (EEXIST); the callback then uses the env the pthread already has.       *)
(***************************************************************************)
Known(f) ==
  \/ f \in joined
  \/ \E e \in threads : ident[e] = f \/ stopped[e] = f

Import(f) ==
  /\ at[f] = "out"
  /\ ~Known(f)
  /\ Goto(f, "popping")
  /\ UNCHANGED <<pool, made, lock, empty, full, filler, env, must, ident, result,
                 threads, gc, leaked, others>>

(* Mutant: the object is not unlinked from the pool.                       *)
PopTake_Peek(f) ==
  /\ at[f] = "popping" /\ lock = NIL
  /\ \E e \in pool : /\ env' = [env EXCEPT ![f] = e]
                     /\ result' = [result EXCEPT ![e] = "none"]
  /\ Goto(f, "assigned")
  /\ UNCHANGED <<pool, made, lock, empty, full, filler, must, ident, threads, gc,
                 leaked, others>>

(* pop_from_imported_thread_pool and assign_imported_thread: the order of  *)
(* the objects in the pool is of no consequence.                           *)
PopTake(f) ==
  /\ at[f] = "popping" /\ lock = NIL
  /\ \E e \in pool : /\ pool' = pool \ {e}
                     /\ env' = [env EXCEPT ![f] = e]
                     /\ result' = [result EXCEPT ![e] = "none"]
  /\ Goto(f, "assigned")
  /\ UNCHANGED <<made, lock, empty, full, filler, must, ident, threads, gc, leaked, others>>

(* Mutant: the filler is not asked.                                        *)
PopEmpty_NoPost(f) ==
  /\ at[f] = "popping" /\ lock = NIL
  /\ pool = {}
  /\ lock' = f
  /\ Goto(f, "waiting")
  /\ UNCHANGED <<pool, made, empty, full, filler, env, must, ident, result,
                 threads, gc, leaked, others>>

(* The pool is empty: ask the filler, and wait with the mutex held.        *)
PopEmpty(f) ==
  /\ at[f] = "popping" /\ lock = NIL
  /\ pool = {}
  /\ lock' = f
  /\ empty' = empty + 1
  /\ Goto(f, "waiting")
  /\ UNCHANGED <<pool, made, full, filler, env, must, ident, result, threads, gc,
                 leaked, others>>

(* sem_wait(full) returns; an empty pool makes the import fail.            *)
PopRefilled(f) ==
  /\ at[f] = "waiting" /\ full > 0
  /\ full' = full - 1
  /\ lock' = NIL
  /\ IF pool = {}
     THEN /\ Goto(f, "out")
          /\ UNCHANGED <<pool, env, result>>
     ELSE /\ \E e \in pool : /\ pool' = pool \ {e}
                             /\ env' = [env EXCEPT ![f] = e]
                             /\ result' = [result EXCEPT ![e] = "none"]
          /\ Goto(f, "assigned")
  /\ UNCHANGED <<made, empty, filler, must, ident, threads, gc, leaked, others>>

(* MK_GC_get_stack_base fails: the import returns without its object.      *)
NoStackBase(f) ==
  /\ at[f] = "assigned"
  /\ leaked' = leaked \union {env[f]}
  /\ env' = [env EXCEPT ![f] = NIL]
  /\ Goto(f, "out")
  /\ UNCHANGED <<pool, made, lock, empty, full, filler, must, ident, result,
                 threads, gc, others>>

(* MK_GC_register_my_thread: MK_GC_SUCCESS or MK_GC_DUPLICATE (the code    *)
(* says that no other answer is possible).                                 *)
GcRegister(f) ==
  /\ at[f] = "assigned"
  /\ gc' = gc \union {f}
  /\ ident' = [ident EXCEPT ![env[f]] = f]
  /\ result' = [result EXCEPT ![env[f]] = IF f \in gc THEN "imported"
                                          ELSE "registered"]
  /\ Goto(f, "in")
  /\ UNCHANGED <<pool, made, lock, empty, full, filler, env, must, threads, leaked, others>>

----------------------------------------------------------------------------
(* The callback registers its thread as active and runs Lisp code.         *)
RegisterActive(f) ==
  /\ at[f] = "in"
  /\ threads' = threads \union {env[f]}
  /\ Goto(f, "lisp")
  /\ UNCHANGED <<pool, made, lock, empty, full, filler, env, must, ident, result,
                 gc, leaked, others>>

(* Mutant: only detached threads leave the list.                           *)
Release_KeepsListed(f) ==
  /\ at[f] = "lisp"
  /\ must' = [must EXCEPT ![f] = (result[env[f]] = "registered")]
  /\ Goto(f, "cleaned")
  /\ UNCHANGED <<pool, made, lock, empty, full, filler, env, ident, result,
                 threads, gc, leaked, others>>

(* mkcl_release_current_thread, with thread_final_cleanup.                 *)
Release(f) ==
  /\ at[f] = "lisp"
  /\ must' = [must EXCEPT ![f] = (result[env[f]] = "registered")]
  /\ threads' = IF result[env[f]] = "none" THEN threads ELSE threads \ {env[f]}
  /\ Goto(f, "cleaned")
  /\ UNCHANGED <<pool, made, lock, empty, full, filler, env, ident, result, gc,
                 leaked, others>>

(* Mutant: the object is not put back.                                     *)
PushBack_Forgets(f) ==
  /\ at[f] = "cleaned" /\ lock = NIL
  /\ Goto(f, "pushed")
  /\ UNCHANGED <<pool, made, lock, empty, full, filler, env, must, ident, result,
                 threads, gc, leaked, others>>

(* push_in_imported_thread_pool                                            *)
PushBack(f) ==
  /\ at[f] = "cleaned" /\ lock = NIL
  /\ pool' = pool \union {env[f]}
  /\ Goto(f, "pushed")
  /\ UNCHANGED <<made, lock, empty, full, filler, env, must, ident, result,
                 threads, gc, leaked, others>>

(* Mutant: the kind of import is looked up only now.                       *)
Unregister_LateTest(f) ==
  /\ at[f] = "pushed"
  /\ gc' = IF result[env[f]] = "registered" THEN gc \ {f} ELSE gc
  /\ env' = [env EXCEPT ![f] = NIL]
  /\ must' = [must EXCEPT ![f] = FALSE]
  /\ Goto(f, "out")
  /\ UNCHANGED <<pool, made, lock, empty, full, filler, ident, result,
                 threads, leaked, others>>

(* MKCL_GC_NO_INTR(env, MK_GC_unregister_my_thread()): the last use of env *)
Unregister(f) ==
  /\ at[f] = "pushed"
  /\ gc' = IF must[f] THEN gc \ {f} ELSE gc
  /\ env' = [env EXCEPT ![f] = NIL]
  /\ must' = [must EXCEPT ![f] = FALSE]
  /\ Goto(f, "out")
  /\ UNCHANGED <<pool, made, lock, empty, full, filler, ident, result,
                 threads, leaked, others>>
----------------------------------------------------------------------------
(***************************************************************************)
(* What other parts do to the idents meanwhile.  interrupt-thread stops a  *)
(* pthread that runs Lisp code, pushes its ident and puts that of the      *)
(* interrupt pthread in its place, until the function is over.  (A nested  *)
(* interrupt pushes the ident of an interrupt pthread, which is nobody     *)
(* here.)                                                                  *)
(***************************************************************************)
Interrupted(f) ==
  /\ at[f] = "lisp"
  /\ ident' = [ident EXCEPT ![env[f]] = Interrupt]
  /\ stopped' = [stopped EXCEPT ![env[f]] = f]
  /\ Goto(f, "stopped")
  /\ UNCHANGED <<pool, made, lock, empty, full, filler, env, must, result,
                 threads, joined, gc, leaked>>

Resumed(f) ==
  /\ at[f] = "stopped"
  /\ ident' = [ident EXCEPT ![env[f]] = f]
  /\ stopped' = [stopped EXCEPT ![env[f]] = NIL]
  /\ Goto(f, "lisp")
  /\ UNCHANGED <<pool, made, lock, empty, full, filler, env, must, result,
                 threads, joined, gc, leaked>>

(* thread-join reaps the pthread of a Lisp thread, and the system gives its*)
(* ident to a new foreign pthread (at most one at a time here) before the  *)
(* thread is taken off the list.                                           *)
Reaped(f) ==
  /\ at[f] = "out" /\ f \notin GcThreads /\ joined = {}
  /\ joined' = {f}
  /\ UNCHANGED <<pool, made, lock, empty, full, filler, at, env, must, ident,
                 stopped, result, threads, gc, leaked>>

Unlisted ==
  /\ joined # {} /\ joined' = {}
  /\ UNCHANGED <<pool, made, lock, empty, full, filler, at, env, must, ident,
                 stopped, result, threads, gc, leaked>>
----------------------------------------------------------------------------
ForeignStep(f) ==
  \/ Import(f)
  \/ PopTake(f)
  \/ PopEmpty(f)
  \/ PopRefilled(f)
  \/ NoStackBase(f)
  \/ GcRegister(f)
  \/ RegisterActive(f)
  \/ Release(f)
  \/ PushBack(f)
  \/ Unregister(f)
  \/ Interrupted(f)
  \/ Resumed(f)
  \/ Reaped(f)

Next ==
  \/ FillerWait \/ Fill \/ FillerPost \/ Unlisted
  \/ \E f \in Foreign : ForeignStep(f)

Spec == Init /\ [][Next]_vars

(* The filler and the importers are scheduled, and a mutex that is free    *)
(* again and again is got in the end.                                      *)
Fairness ==
  /\ WF_vars(FillerWait) /\ SF_vars(Fill) /\ WF_vars(FillerPost)
  /\ \A f \in Foreign :
       /\ SF_vars(PopTake(f) \/ PopEmpty(f))
       /\ WF_vars(PopRefilled(f))
       /\ WF_vars(GcRegister(f))
       /\ WF_vars(RegisterActive(f))
       /\ WF_vars(Release(f))
       /\ SF_vars(PushBack(f))
       /\ WF_vars(Unregister(f))
       /\ WF_vars(Resumed(f))

FairSpec == Spec /\ Fairness
----------------------------------------------------------------------------
Holding == {"assigned", "in", "lisp", "stopped", "cleaned"}

TypeOK ==
  /\ pool \subseteq Env /\ made \in 0 .. MaxEnv
  /\ lock \in Foreign \union {NIL}
  /\ empty \in Nat /\ full \in Nat
  /\ filler \in {"asleep", "filling", "filled"}
  /\ at \in [Foreign -> {"out", "popping", "waiting", "pushed"} \union Holding]
  /\ env \in [Foreign -> Env \union {NIL}]
  /\ must \in [Foreign -> BOOLEAN]
  /\ ident \in [Env -> Foreign \union {NIL, Interrupt}]
  /\ stopped \in [Env -> Foreign \union {NIL}] /\ joined \subseteq Foreign
  /\ result \in [Env -> {"none", "imported", "registered"}]
  /\ threads \subseteq Env /\ gc \subseteq Foreign /\ leaked \subseteq Env

(* A thread object belongs to one foreign pthread, or to the pool, from    *)
(* the pop to the push back.                                               *)
EnvExclusive ==
  /\ pool \subseteq 1 .. made
  /\ \A f \in Foreign :
       at[f] \in Holding =>
         /\ env[f] \in (1 .. made) \ pool
         /\ \A g \in Foreign : at[g] \in Holding /\ env[g] = env[f] => g = f

(* No thread object is lost but by an import that finds no stack base.     *)
NoEnvLost ==
  \A e \in 1 .. made :
    \/ e \in pool \union leaked
    \/ \E f \in Foreign : at[f] \in Holding /\ env[f] = e

(* Every request to the filler is answered once: a token is with `empty',  *)
(* with the filler or with `full', one for the initial fill-up and one for *)
(* the importer that waits.  So the one of the initial fill-up stays in    *)
(* `full' for the first importer that finds the pool empty.                *)
RefillTokens ==
  empty + full + (IF filler = "asleep" THEN 0 ELSE 1)
    = 1 + (IF lock = NIL THEN 0 ELSE 1)

(* The test for EEXIST tells the pthreads inside Lisp from the others,     *)
(* although it walks the list without the lock and the objects keep their  *)
(* idents.  It refuses one that is outside only if the ident of it was that*)
(* of a Lisp thread which thread-join has reaped and not yet taken off the *)
(* list (threads.c:2641-2648).                                             *)
KnownInLisp ==
  \A f \in Foreign :
    /\ at[f] \in {"lisp", "stopped"} => Known(f)
    /\ at[f] = "out" /\ f \notin joined => ~Known(f)

(* A pthread is known to the collector as long as it runs Lisp code, and   *)
(* after its release exactly if it was before the import.                  *)
GcBalanced ==
  \A f \in Foreign :
    /\ at[f] \in {"in", "lisp", "stopped"} => f \in gc
    /\ at[f] = "out" => (f \in gc <=> f \in GcThreads)

----------------------------------------------------------------------------
(***************************************************************************)
(* The inductive invariant: the mutex is kept only over the wait for `full'*)
(* (and keeps the filler out meanwhile, so that the pool stays empty), and *)
(* each stage of an import still has what the stages before it set.        *)
(***************************************************************************)
LockIsWaiter ==
  /\ \A f \in Foreign : lock = f <=> at[f] = "waiting"
  /\ lock # NIL => pool = {}

ImportKind ==
  \A f \in Foreign :
    /\ at[f] \in {"out", "popping", "waiting", "assigned"} =>
         (f \in gc <=> f \in GcThreads)
    /\ at[f] \in {"in", "lisp", "stopped"} =>
         /\ f \in gc
         /\ IF at[f] = "stopped"
              THEN ident[env[f]] = Interrupt /\ stopped[env[f]] = f
              ELSE ident[env[f]] = f
         /\ result[env[f]] = IF f \in GcThreads THEN "imported" ELSE "registered"
    /\ at[f] \in {"cleaned", "pushed"} =>
         f \in gc /\ env[f] \in Env /\ (must[f] <=> f \notin GcThreads)

(* The list has the objects of the pthreads in Lisp, and an object holds   *)
(* the ident of a stopped pthread only for as long as it is stopped.       *)
ListedIsInLisp ==
  /\ \A e \in threads :
       \E f \in Foreign : at[f] \in {"lisp", "stopped"} /\ env[f] = e
  /\ \A f \in Foreign : at[f] \in {"lisp", "stopped"} => env[f] \in threads

StoppedIdents ==
  \A e \in Env : \A f \in Foreign :
    stopped[e] = f => at[f] = "stopped" /\ env[f] = e

PoolInv ==
  /\ TypeOK /\ EnvExclusive /\ NoEnvLost /\ RefillTokens
  /\ LockIsWaiter /\ ImportKind /\ ListedIsInLisp /\ StoppedIdents
----------------------------------------------------------------------------
(* An importer that finds the pool empty gets an object from the refill.   *)
RefillSucceeds ==
  \A f \in Foreign : at[f] = "waiting" ~> at[f] = "assigned"
=============================================================================
