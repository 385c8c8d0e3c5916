# A TLA+ model of MKCL: threads, shutdown, method caches, packages

MKCL is a Common Lisp implementation: a runtime in C (`src/src/c`), the Lisp
part of the standard library (`src/src/lsp`), CLOS (`src/src/clos`), a compiler
from Lisp to C (`src/src/cmp`) and the vendored Boehm collector (`src/src/gc`).
What is hardest to test in it is whatever several threads share:

* the package MT: thread objects, locks, condition variables,
  `mt:interrupt-thread`, and the foreign pthreads that call back into Lisp
  (`src/src/c/threads.c`, `src/src/c/unixint.c`, `src/src/lsp/mp.lsp`);
* the end of the program: `quit`, the watchdog of `main()`, the finalization
  daemon (`src/src/c/main.c`, `src/src/lsp/top.lsp`);
* the calls of generic functions, through method caches that each thread has for
  itself while others change methods (`src/src/c/gfun.c`, `src/src/clos`);
* packages, with one lock each, and operations that look into several of them
  (`src/src/c/package.c`).

This project models these parts, for the pthreads build (the branches of the
conditional compilation that are not `MKCL_WINDOWS`).

Contents: [inventory](#inventory), [modules](#modules-and-code),
[runs](#runs), [bounds](#bounds), [fairness](#fairness), [proofs](#proofs),
[disagreements found](#disagreements-between-code-and-text),
[what is left out](#what-is-not-modelled), [plan](#plan).

## Inventory

### The parts with state that threads share

| Part | State | Operations | Meets others through |
|---|---|---|---|
| **Locks** (threads.c, "LOCKS or MUTEX") | the OS mutex; `lock.holder`, `counter`, `recursive` | `make-lock`, `get-lock` (try, blocking, timed), `giveup-lock`; `with-lock` | `thread.interrupt_count` decides an early return of `get-lock` |
| **Condition variables** (threads.c) | the OS condition variable, `lock` | `condition-wait` with or without timeout, `signal`, `broadcast` | releases and reacquires the mutex behind the back of the lock's Lisp fields |
| **Thread objects** (threads.c) | `status`, `detached`, `function`, `result_value`, `thread` (pthread ident), `shutdown_requested`, `running_lock`, the list `mkcl_core.threads` | `make-thread`, `thread-preset`, `thread-enable`, `thread_entry_point`, exit and abandon, `thread-detach`, `thread-join`, `request-thread-shutdown`, `test-for-thread-shutdown` | the list is walked by the shutdown and by imports; only additions to and removals from it are locked |
| **Imported threads** (threads.c, arch/ffi_x86_64.c) | `imported_thread_pool` and its mutex, the semaphores `empty` and `full`, the filler daemon, the collector's table of threads | `mkcl_import_current_thread`, `mkcl_release_current_thread`, fill | thread objects and envs move between the pool and foreign pthreads |
| **Interrupting a thread** (threads.c, unixint.c) | one mutex, four semaphores, `mkcl_interrupted_thread_env`, `mkcl_interrupt_refused`, `mkcl_interrupt_forcefully`; per thread `interrupt`, `interrupted_threads`, `interrupt_count`, `resume_handler_ran`; per env `disable_interrupts`, `sleeping_on`, `nlj_fr` | `interrupt-thread`, the interrupt pthread, the handlers of the interrupt and resume signals, the sleeping points (`MKCL_LIBC_Zzz`), sections without interrupts (`MKCL_NO_INTR`) | signals; the collector's own signals |
| **Shutdown** (main.c, threads.c, top.lsp) | `shutdown_thread`, the shutdown gate, `shutdown_watchdog_thread` and `..._will_clean_up` | `quit`, `shutdown-mkcl`, the watchdog, the walks that ask every thread to stop, interrupt, join, kill and wait | thread objects, interrupts |
| **Finalization** (threads.c) | a condition variable, the collector's queue | the daemon, `request_finalization` | called from the collector; one of the threads that the shutdown stops |
| **Generic functions** (gfun.c, clos/*.lsp) | per env `method_hash`, `method_generation`, `method_spec_vector`, `method_hash_clear_list`; `+metadata-lock+`; the methods | dispatch, `compute-effective-method-for-cache`, `add-method`, `remove-method`, `clear-gfun-cache` | the list of threads; thread objects that are reused |
| **Packages** (package.c) | per package `internal`, `external`, `shadowings`, `uses`, `usedby`, a mutex; per symbol its home | `intern`, `unintern`, `export`, `unexport`, `import`, `shadowing-import`, `shadow`, `use-package`, `unuse-package` | packages that use each other are read without their locks |
| **Semaphores, read-write locks** (threads.c) | `sem_t`, `pthread_rwlock_t` | wrappers | sleeping points |
| **Stacks** (stacks.c) | binding stack, catch frames, interrupt-status entries of one env; the counter of special-variable indices, shared | bind, unbind, frame push and pop, unwind | `nlj_fr` and `disable_interrupts` of the env |

The sequential parts (reader, printer, evaluator, compiler, numbers, streams,
hash tables, the rest of CLOS) are listed in `PROJECT.json`, with the reason why
each is left out.

### How the parts interact

A Lisp thread is a thread object with one `env`. Its code runs on a pthread,
but not always on the same one. `interrupt-thread` stops the pthread of the
target in a signal handler and runs the function on a *new* pthread with the
target's env. So "the thread that holds the lock" has two meanings: the OS
mutex belongs to a pthread, `lock.holder` to a Lisp thread, and the two differ
as soon as an interrupt function touches a lock of the interrupted code. A
foreign pthread is the other way round: it has no env until it borrows one from
the pool, and the same env serves many pthreads in turn.

### What is hard

* **Two records of one fact**, updated one after the other: mutex and holder,
  status and pthread, semaphore token and pool, stack of interrupts and stopped
  pthreads.
* **Tests and updates with no lock around them**: none of the operations on
  thread objects holds a lock from its test to its assignment.
* **Signals**: real-time signals queue, arrive between any two instructions,
  and share their flags and semaphores over all threads.
* **Timeouts**: `condition-wait` with a timeout, the 10 ms for which
  `interrupt-thread` waits for an answer, and its retries.
* **Caches and checks that go stale**: a method cache is cleared by its own
  thread, later; a package is checked for conflicts and then changed, while the
  packages it inherits from are free to change.
* **Termination**: joins, interrupts, imports, the shutdown and the operations on
  two packages wait for somebody else.

`PROJECT.json` lists the hazards one by one, at their lines, each with the
properties that would catch it. The properties that make each part correct:

* locks: exclusion; the holder can always give up; an interrupt function never
  waits for the pthread it has suspended itself; the counter counts;
* thread objects: one pthread per object and env; the list holds exactly what
  the shutdown must find; a join gives the value of what it joined; a request
  to stop is obeyed;
* imported threads: one owner per env; none is lost; requests to the filler and
  answers match; the collector knows a pthread exactly as long as it must;
* interrupts: one pthread at a time runs on an env; the interrupted code finds
  its interrupt status unchanged; nothing is left over for the next interrupt;
  a refused interrupt did not happen; stopped pthreads wake up; callers return;
* shutdown: one thread shuts down; every thread it finds is asked; the exit code
  gets through; the program ends; queued objects are finalized;
* generic functions: a call runs an effective method that was current at some
  moment of the call; what is cached is found again; calls return;
* packages: no two symbols of a name meet in a package; the two sides of "uses"
  agree; a symbol is present in its home package; operations end.

## Modules and code

Each component has a module with its specification (`Init`, one action per
operation or per part of an operation that others can come between, `Next`,
`Spec`, properties), an `MC...` module with constants for TLC, and, where there
are theorems, a `...Proofs` module. Definitions whose comment begins with
`Mutant` are wrong variants of the definition that follows: a plausible bug, by
which a run shows that a property can fail.

### MtLock

`osOwner` and `osCount` are the OS mutex, with the semantics of its attribute
`kind` (normal, errorcheck, recursive); `holder` and `counter` are the Lisp
fields; `intr[t]` is `thread.interrupt_count`. The pthread `<<t, i>>` runs for
Lisp thread `t` while `i` interrupts are on its stack.

| Action | Code |
|---|---|
| `GetLockHeld` | the early return of `mk_mt_get_lock` for an "already held recursive lock in an interrupted thread" |
| `GetLockTry` | `pthread_mutex_trylock` and what follows; EBUSY changes nothing |
| `GetLock`, `OsAcquired`, `OsRefused`, `RecordHolder`, `CountLock` | the call, the OS mutex, its errors (deadlock, timeout), the assignments to holder and to counter |
| `GiveupLock`, `ClearHolder`, `OsReleased`, `OsNotOwner`, `RestoreHolder` | the anticipated release of counter and holder, the unlock, and the undo of both after EPERM |
| `ConditionWait` ... `ConditionReturn` | `mk_mt_condition_wait`, with signal, broadcast and timeout |
| `Interrupt`, `EndInterrupt` | what an interrupt does to a lock user: the level goes up and down |

`WithLock` are the threads that use the macro: it disables interrupts around
the operations, but not around the body. The others call `get-lock` and
`giveup-lock` themselves and can be interrupted between the OS call and each
assignment to the fields. `Forced` are the threads that are interrupted with
`:force`, as `thread-kill` does: the handler refuses such a call only when
interrupts are disabled twice over (unixint.c:367), so `with-lock` is no cover and
neither is `MKCL_LIBC_NO_INTR`, and the target may be inside the blocking OS call.
`Shielded` are the `with-lock` users that are not interrupted so. `depth` is a
ghost: what each pthread believes it has.

### ThreadLife

The fields of a thread object, one function over objects each; `threads` is
`mkcl_core.threads`; `pt` holds the pthreads in order of creation, and `op` the
operation each caller is in. Every operation is split between its test and its
update: `Preset`/`PresetAssign`, `Enable`/`EnableCreate`/`EnableUnlock` (or
`EnableFail`), `Detach`/`DetachSet`/`DetachRemove`, `Join`/`JoinReap`/
`JoinReturn`. The pthread goes through `Start` (it waits for `running_lock`),
`RegisterActive`, `RegisterList`, its function (`FunctionReturns`, `ExitThread`
or `TestForShutdown`), `SetDone` and `FinalCleanup`. `outcome` is a ghost.

`Careful` restricts the callers in one window: from an enable of an object to the
registration of the pthread it made, during which the status is still the one that
was tested (threads.c:2818), no other preset or enable of that object begins
(`Enabling`). An enable at any other time is allowed, and refused by the status
test alone. The code does not enforce the restriction (see below). `Reuse` lets an object be preset again after a join, which
`thread-join` allows by setting the status back.

### ImportPool

`FillerWait`, `Fill`, `FillerPost` are the daemon. A foreign pthread goes
through `Import` (with the refusal of a pthread that is already known),
`PopTake` or `PopEmpty`/`PopRefilled`, `GcRegister` or the failure
`NoStackBase`, `RegisterActive`; and back through `Release`, `PushBack` and
`Unregister`. All accesses to the pool are under its mutex; only an importer
that finds it empty keeps the mutex over several steps, so `lock` names that
importer. The test for a pthread that is already known (`Known`) compares the ident
of each listed thread and those that interrupts have pushed: `Interrupted` and
`Resumed` are what `interrupt-thread` does to them, `Reaped` and `Unlisted` the window
of `thread-join` in which a Lisp thread is still listed although the system may already
give its ident to a new pthread.

### ThreadInterrupt

A `Call` stands for one call of `interrupt-thread`, for its function and for
the pthread made for it; a `Target` for a thread and for its own pthread.

| Part | Actions | Code |
|---|---|---|
| caller | `InterruptThread`, `Retry`, `LockCall`, `SelectSleeper`, `TryToWakeUp`, `SleeperAnswered`/`Timeout`, `SelectRunning`, `Answered`/`AnswerTimeout`, `Refused`, `Push`, `CreateFails`, `PostRun`, `UnlockCall` | `interrupt_thread_internal` |
| function | `Begin`, `CallFunction`, `FunctionEnds`, `Pop`, `Resumed`, `UnlockPop` | `interrupt_thread_entry_point` |
| target, in its handlers | `EnterHandler`, `Refuse`, `RefusePost`, `Accept`, `Sigsuspend`, `Waking`, `HandlerReturn`, `ResumeHandler` | unixint.c |
| target, in its code | `NoIntr`/`EndNoIntr`, `Zzz`/`EndZzz`, `TestForThreadShutdown`, `Land`, `ThreadDone`, `PthreadEnds` | `MKCL_NO_INTR`, `MKCL_LIBC_Zzz`, `mk_mt_test_for_thread_shutdown` |
| collector | `GcSignal` | external: a signal that ends `sigsuspend` |

The code has races that a signal between two of its instructions can trigger.
They are recorded in the history variable `races` where they happen:

* `late`: the answer of the target comes after the caller gave up (10 ms);
* `lost`: the resume signal comes before the target is in `sigsuspend`, with
  the signal not blocked;
* `stolen`: `resume_handler_ran` belongs to the thread, not to the pthread, and
  the collector's signal lets another stopped pthread of the thread take it;
* `left`: an attempt on a sleeper fails after the function was left in
  `thread.interrupt`;
* `uncreated`, a failure rather than a race: the interrupt pthread cannot be created
  after the push (`CreateFails`, threads.c:1905-1917). The error unwinds the call, the
  entry stays on the stack and the target in `sigsuspend`.

`InStep` says that nothing but `left` has happened. The properties are
claimed up to that point, and the runs (`CONSTRAINT InStep`) do not explore what
follows. So these properties say that there is *no other way* to go wrong. For
the liveness properties the constraint is sound, because each of them is
discharged by `~InStep`.

`InterruptStack` is the abstract specification of all this, without signals,
semaphores or handlers: the pthreads of a thread form a chain; only the last of them
moves; a pthread on which a function has been put stays where it is in its code until
that function is over, and then goes on from there, or unwinds if the function left
by a non-local exit; and no function is put on a pthread that is not in Lisp code.
It is what `MtLock` takes for granted of its `Interrupt` and `EndInterrupt`. The
mapping (`Promise`) shows the stack with `thread.thread` on top as the chain
(`Chain`), and for each pthread the place in its code, which for a stopped one is
the place where it was stopped (`CodeLoc`). A function disappears when it is
popped; its wait for the resumption of the pthread below does not show. A
recorded race maps to `broken`, after which nothing is promised. `InterruptsNest` is
the abstract specification.

### Shutdown

One module for the shutdown and the finalization daemon, with thread objects
reduced to what the shutdown sees of them (`ThreadLife` has their steps).
`Shutter` is the thread that an accepted `quit` makes; `walk` has the variables
of `shutdown-mkcl-threads`, whoever runs it.

| Actions | Code |
|---|---|
| `Enable`, `EnableCreate`, `Register`, `FunctionReturns`, `Poll`, `Interrupted`, `EndThread`, `RequestShutdown` | the threads of the program |
| `Quit`, `QuitEnable`, `QuitGivesUp` | `mkcl::quit`: under the gate, then the thread it makes |
| `WalkBegin`, `AskThread`, `TerminateThread`, `JoinThread`, `KillThread`, `EndOfRound` | the `dolist`s of `shutdown-mkcl-threads`, each over a copy of the list |
| `ShutdownCleansUp`, `ShutdownReturns` | the end of `mk_si_shutdown_mkcl` |
| `WatchdogBegin`, `WatchdogSkips`, `WatchdogDecide`, `WatchdogJoin`, `WatchdogJoinsNothing`, `WatchdogReturns`, `LastPthreadEnds` | `mkcl_shutdown_watchdog` and the end of the process |
| `RegisterWatchdog` | `register-shutdown-watchdog-thread` |
| `DaemonWait`, `DaemonWakes`, `Finalize`, `Collect` | the daemon and the notifier of the collector (external) |
| `CollectorFails` | `mkcl_GC_abort`, `mkcl_GC_exit`: the thread is abandoned with `:gc-abort` or `:gc-exit` |

A section under the shutdown gate is one step. A `dolist` goes through
`walk.todo`, the copy of the list with which its round began: a step takes the
first thread in it that the round does not skip, and what is left of the copy comes
after that thread. `begun`, `raced`, `cleanups`,
`walk.first`, `walk.later` and `walk.refused` are ghosts. `garbage` is the queue of
the collector: empty, with a request that the daemon will see (`"requested"`), or,
as a ghost, with one that came between its finalizers and its wait (`"missed"`).

### MethodHash, GfunCache, GenericCall

`MethodHash` has the pure operators of the method table: the probes, the choice of
a record (`search_method_hash`), the generations and their expiry, the deletion
(`do_clear_method_hash`). `GfunCache` gives a table to each thread. A version
number stands for the methods of a generic function, and a cached value is the
version from which it was computed; another version number (`specs`) stands for the
spec list of the generic function, which says what of the arguments makes the key
and which the dispatch reads without a lock. `Dispatch` takes the clear list and
searches; `DispatchUncached` is the call whose key does not fit into the spec vector.
`ComputeBegin`/`ComputeEnd` compute the effective method under the metadata
lock, during which the thread may call again, and `ComputeFails` is the error that
unwinds the call; `Store` stores the method, perhaps in
another record; `CallMethod` ends the dispatch. `BeginChange`/`ChangeStep` are
`add-method`, `remove-method` and the replacement of a method, in the order in
which the code inserts, computes the spec list, deletes and asks for clearing
(`Plans`). Who may call, and what, is `MayCall`: an interrupt function (`Intruding`)
anything at any moment, a computation anything but the keys under way.

`strayed`, `misfit` and `robbed` are ghosts. A method is a misfit when its key was
made by an older spec list than the one with which it was computed: then a method
for one EQL argument may stand under the key of its class. The request to clear it
is on its way; a thread is robbed when a call from inside the computation takes the
request before there is anything to clear.

`GenericCall` is the abstract specification: methods change at one moment for all
threads, and a call chooses an effective method that was current between its
beginning and the choice, or fails. The refinement mapping `Abstract` maps the current
version to `Current`: a change takes effect when the caches are asked to be
cleared, which a removal does *before* it deletes the method and an addition
*after* it has inserted it. `CallsAreCurrent` is the abstract specification.

### Packages

The tables and lists of `package.c` as sets of symbols and packages. An operation
on one package is two steps: the one that takes the lock and looks (`LockAndLook`;
`ImportContinued` and `ImportRelock` for the continued error of `import`), and
`Commit`, which changes the tables and gives the lock up. `use-package` and
`unuse-package` are five: the test without a lock (`BeginUse`), the lock of the
used package (`LockUsed`), that of the user, with the search for conflicts and the
reading of the user's `uses` (`LockUser`), the assignment of that list and the reading
of the other's `usedby` (`SetUses`), and the assignment of that (`SetUsedby`); what
was read is in `saw`, so that an update can be lost if another thread writes in
between. `RefuseUse`, `UnwindUsed` and `UnwindUser` are the error of `use-package`,
which gives both locks up and takes them again. `Unwound` is a non-local exit of an
interrupt function once the locks are taken, when interrupts are enabled again.
An operation that returns or signals an error at once is no step. `May...` are the
checks, `...Commit` the changes.

There are two ghosts. `suspect`: the packages that were changed although the check
did not hold (any more), or that use a package which does not know of it. The code
can really do that, because it reads the tables of other packages without their
locks, because a conflict can be ignored, and because an operation can be unwound
between its two assignments. So `NoConflict` and `HomeIsPresent` say that these are
the *only* ways to go wrong. `torn`: the pairs of packages whose lists disagree after
such an unwinding, the exception of `UsersKnown`.

## Runs

| Run | States | Question and answer |
|---|---|---|
| `lock_interrupt` | 96 282 | Three threads on a lock of any kind, two through `with-lock` and one interrupted by force, which makes it the same to the model whether it uses `with-lock` or bare calls; interrupts up to two deep. Exclusion holds, the holder field names nobody without the lock and the counter is right, for all three; a shielded owner can give up, and its interrupt functions never wait for a pthread below them. |
| `lock_wait_timed` | 2 438 | With timed condition waits the mutex still excludes, and each pthread accounts for its share of it (`OsAccounting`, the invariant of the proof). |
| `lock_wait_interrupt` | violation | After a condition-wait the holder field is stale, and an interrupt function of the thread it names walks into a lock that another thread holds. |
| `life_reuse` | 37 354 | One object used twice, three callers: no two pthreads run it, the list holds every thread that can run and lets go of the finished ones, a join gives the value with which the pthread ended or that an earlier use left; a thread that polls and is asked to stop ends, and its joiner returns. |
| `pool_share` | 392 151 | Three foreign pthreads, one already known to the collector, on a pool that runs empty, with interrupts and joins of Lisp threads meanwhile: ownership, tokens and the collector's table stay right, and the test of the import tells who is in Lisp. |
| `intr_nested` | 407 419 | Three calls on one thread, two deep, with refusals, retries, force, non-local exits and collections: one runner per env, status restored, nothing left over, and `ThreadInterrupt` implements `InterruptStack` (`InterruptsNest`). |
| `intr_sleeper` | 194 026 | Two calls on a thread that also sleeps: a call that fails has not run its function, every stopped pthread resumes, every call returns, up to one of the recorded races or a failure to create the interrupt pthread. |
| `shutdown_walk` | 619 057 | `main()` returns and threads quit, start each other and ask each other to stop, in any order, with threads that refuse interrupts and a collector that may fail: one thread shuts down, every thread found is asked, the exit code gets through except in four named cases, the program ends, and the daemon serves what it has not missed. |
| `gfun_calls` | 346 258 | A thread calls two generic functions, with cached keys and one that is too long, also inside the computation of effective methods, which may fail, while it and another add, replace and remove methods: nothing stale stays in a cache, nor under a key of an older spec list but in a robbed thread, cached methods are found again, calls return, and `GfunCache` implements `GenericCall`. |
| `gfun_reuse` | violation | A thread object that is used again after a join keeps its method cache and has missed the clear requests of the time between. |
| `gfun_lost` | violation | When all records in reach of a key have been hit since the last miss there is none to overwrite, and the process is aborted. |
| `packages` | 489 926 | Two threads on three packages, one of which may use the other two: no conflict but by a stale or ignored check or an unwinding, symbols at home, "uses" and "used by" inverse but between the two assignments and after an unwinding there, and every operation ends, unless threads wait for each other along a cycle of what they were given. |

The cfgs say `CHECK_DEADLOCK FALSE`, for these reasons: a second `get-lock` on a normal mutex, or a `get-lock` in the
interrupt function of a thread that is not shielded, really blocks for ever, and the model should not forbid it
(`InterruptNeverSelfBlocks` says for whom it cannot happen); a program whose
threads have ended, whose calls have returned, which has shut down or whose bound
of pthreads is used up stops; and the import pool and the locks of packages really deadlock (see below).

## Bounds

* *Locks.* Three threads: a holder, a waiter and a third that can slip in
  between. `MaxDepth` 2 is the first nesting. `MaxInterrupts` 2 lets an
  interrupt function be interrupted itself. The code's limit
  (`MKCL_MAX_INTERRUPTS`) is 5; nothing in the lock code compares the level with
  anything but 0.
* *Thread objects.* One object: the operations on different objects share only
  the list, from which each removes only itself. Three callers, so that a third
  operation can come between the test and the update of two others. Two pthreads
  are two uses of the object.
* *Pool.* Three foreign pthreads and three objects, in batches of one instead
  of five, so that the pool runs empty, is refilled and runs empty again.
* *Interrupts.* One target: calls on different targets share the mutex and the
  semaphores, which stay with one call from `LockCall` to the end of the
  handshake, so that the other calls on the same target contend for them in the
  same way. Three calls and `MaxInterrupts` 2 reach a refusal because the stack
  is full; `MaxRetries` 1 or 2 (50 in the code) reach the failure after the last
  retry. Semaphores
  and queued signals are not bounded; they stay small because calls are few.

* *Shutdown.* One worker and the initial thread, which may refuse interrupts and
  need not poll, the daemon and the thread of `quit`: four threads on the
  list, so that a walk meets every kind. `Rounds` 1 (3, 3 and 5 in the code)
  reaches every phase. The watchdog may be registered again, to clean up.
* *Method caches.* A table of two records with two probes (4096 and 20), so
  that records are deleted, expire, are overwritten and run out. Three cached keys
  of two generic functions, two of which begin at the same record, and one key that
  is too long; calls two deep; one
  change of methods, of up to five steps. All three ghosts (strayed, misfit, robbed)
  and `lost` are reached. The two violation runs have three records and three keys. One thread calls and two change: a
  thread's table is touched by itself only, so a second caller adds nothing to
  the first. `Intruding` (threads whose interrupt functions call generic functions)
  is empty: see below.
* *Packages.* Two threads, one name and two symbols of it, of which one is yet to
  be made: conflicts concern one name at a time. Two packages that export and one
  that uses both and has its own symbols; `Done` divides the operations between
  the threads and the packages, so that each operation is made where it matters.
  `Usable` is that fork; `Unusable` has one of its pairs, the same pair the other
  way round, and a package with itself, so that threads cross with each other and
  with themselves.

Symmetry is used only in runs without liveness properties. Constants that are
treated differently (`WithLock`, `GcThreads`) are left out of the symmetric set.

## Fairness

`life_reuse`, `intr_sleeper`, `shutdown_walk`, `gfun_calls` and `packages` assume
fairness.

* *ThreadLife*: a caller inside an operation goes on, and so does a pthread.
  The code polls for a shutdown request only around system calls that may sleep
  (locks, waits, `sleep`, input and output), so the poll is fair only for the
  functions in `Polling`, and the two liveness properties are about those. A pure
  computation is never stopped. Nothing makes the function return or callers call.
* *ThreadInterrupt*: the operating system runs every pthread and delivers
  pending signals; timed waits end; the functions passed to `interrupt-thread`
  return (strong fairness, because an interrupt of the function suspends it and
  so disables the step again and again). Nothing is assumed of the collector,
  nor of what the target does next.
* *Shutdown*: a thread that starts, ends, quits, walks or watches goes on; a
  thread outside `Refusing` polls again and again; an accepted interrupt runs.
  Nothing is assumed of a refusing thread: if it is the initial one, the shutdown
  still comes to its end, and the process as soon as the program of `main()`
  returns. Nothing is assumed of collections either: an idle program makes none, so
  a request that the daemon has missed may stay unserved for ever, and
  `QueueIsServed` says so.
* *GfunCache*: a thread goes on with what it has begun. Strong fairness for the
  end of a computation, by its value or by its error, which the calls it makes
  disable again and again; for each depth of the stack, because an inner
  computation that fails again and again is no progress of the outer one. The
  metadata lock needs none, because the changes of methods are bounded.
* *Packages*: strong fairness of the steps that wait for a package's mutex; one
  that is free again and again is given in the end to each thread that waits. The
  unwinding by an interrupt is not fair: nothing makes it happen.

## Proofs

All theorems are of the form `Spec => []P`, or `Spec => A` for an abstract
specification `A`, for every value of the constants that satisfies the named
assumption of the module (`LockAssumption`, `LifeAssumption`, `PoolAssumption`,
`InterruptAssumption`, `ShutdownAssumption`, `MethodHashAssumption`,
`GfunCacheAssumption`, `PackagesAssumption`). These say that bounds are naturals,
that NIL and the different sorts of things are different, that a hash function
gives a record of the table, that a package exports at first one symbol of a name.
A theorem that needs more says so in an `ASSUME` of its
own; each of these hypotheses is explained below, and each is met by the run that
checks the same property. There are as many threads, calls, packages, records and
levels as one likes.

Where the invariant is long its parts are named and are in the component's
module, or at the head of the proof module; each was an invariant of a run of
TLC before it was proved. A proof that a step keeps an invariant has one step, or
one lemma, for each action.

### MtLockProofs

* `LockTypeCorrect`: types, and that the mutex is owned exactly when it is
  counted.
* *Without interrupts* (`MaxInterrupts = 0`; condition waits, timed or not, are
  allowed): `MutexIsAccountedFor` and, from it, `LockExcludesWithoutInterrupts`.
  Exclusion is about `depth`, which says nothing of the mutex; `OsAccounting`
  connects them: each pthread has, by its location and depth, exactly its share of
  the OS mutex. `OneMoves` is the lemma that does the work: a step of one pthread
  keeps the accounts of all if it keeps its own.
* *With interrupts* of any depth (`Conditions = FALSE`, `NestInInterrupt = FALSE`):
  `LockUnderInterrupts`, and from it `LockExcludesUnderInterrupts`,
  `OwnersCanGiveUp`, `HoldersHold`, `InterruptsDoNotSelfBlock`. `OsAccounting` is
  false here once `GetLockHeld` has counted without locking. `InterruptInv`
  replaces it: the owner's count is its own (`OwnerAccounts`); who else is inside
  runs on a level above the owner, of the same thread, while the owner is stopped
  with the lock or between two assignments (`RestsOnOwner`); the holder field is the
  owner's thread or nil, and for a shielded owner it is nil only before `get-lock`
  has set it, after `giveup-lock` has cleared it, and while a `giveup-lock` that the
  OS is about to refuse has it undone (`HolderIsOwner`); the interrupt function of a
  shielded thread above a held lock never gets as far as the OS
  (`WaitsForOthers`); and the counter is the sum of the calls in effect from the
  owner's level to the top (`CounterIsSum`). The sum is stated by partial sums
  (`IsSum`) along the levels of one thread; the lemmas on it say
  what one more call, one fewer and one level more or fewer do to it.
* `CounterCountsCalls` (same hypotheses) and `CounterCountsWaiters` (without
  interrupts, with condition waits), for any *finite* set of threads:
  `CounterMatchesDepth`, the sum over all pthreads. The sum is a fold
  (`MapThenSumSet`), and what the prover needs of it is in the module `FiniteSums`:
  that the equation defining it has a solution, and that changing one value changes
  the sum by the difference (`TotalMoves`). Both are shown without induction over data,
  by the smallest counterexample: the least cardinality of a subset for which the
  claim fails (`Smallest`, from the well-foundedness of the naturals). With it a
  recursive lock is followed step by step (`CountedStep`); for the other kinds the
  property follows from `InterruptInv`, because only the owner has anything to count.
  `CounterCountsWaiters` says that calls of threads in `condition-wait` are counted
  too, which is the cause of the first disagreement below.

  Both hypotheses of the theorems with interrupts are needed: without the first TLC refutes exclusion
  (`lock_wait_interrupt`), without the second an interrupt function loses the lock
  at its first give-up. Both are described under "Disagreements".

### ThreadLifeProofs

All under `Careful`, that is for callers that neither preset nor enable an object
between an enable of it and the registration of its pthread. In that window the
status is still `set`, two callers pass the test of `thread-enable`, and the code
violates `OnePthreadPerObject`: TLC shows it with `Careful = FALSE`.

* `LifeInvariant`, and from it `RunningThreadsAreListed`,
  `DetachedThreadsLeaveTheList` and `OneLivePthread`. None of these is inductive
  alone, because the operations test first and assign later. `CallersAreRight`
  says that what each caller has tested is still true when it assigns;
  `OneCurrent` and `StatusFollows` say that an object has one unjoined pthread,
  whose place determines the status.
* `JoinedThreadsLeaveTheList`: a listed object has a pthread that is not joined
  (`ListedIsUnjoined`), or its join is about to take it off.
* `JoinGivesTheOutcome`: `ResultFollows` says, for each place of the pthread and
  of its joiner, what `result_value` is. The theorem covers reuse of an object as
  far as the code is right about it: the value of a function that returns is kept
  only by the first use (see below).

### ImportPoolProofs

`PoolInvariant`, and from it `EnvHasOneUser`, `EnvsAreAccountedFor`,
`RefillTokensConserved`, `ReleaseForgets` and `CollectorForgets`. The
strengthening is `LockIsWaiter` (the mutex is kept only by an importer that waits,
and the pool is empty then), `ImportKind` (what each stage of an import has set is
still so at the next), `ListedIsInLisp` and `StoppedIdents` (which object holds the
ident of a pthread that an interrupt has stopped). Note what `RefillTokensConserved`
means: one answer is always left over from the initial fill-up, and this is what
makes the first refill fail.

### ThreadInterruptProofs

`InStep => Inv` is the inductive invariant (`HandOver`), for any targets, calls,
depth and number of retries; a step that is one of the recorded races `late`,
`lost` and `stolen`, or the failure `uncreated`, ends `InStep`, and nothing is claimed
after it. The properties
are stated with the same premise, and TLC's `CONSTRAINT` stops at the same point.
`Inv` has five parts:

* `TypeOK`.
* `CallInv`: where a caller and its interrupt pthread are, and who of them has
  `mkcl_interrupt_thread_lock`.
* `ChainInv`: the pthreads of a thread are, once each, `thread.thread` and the
  entries of its stack, and those on the stack are stopped.
* `CritInv`: what the *shared* variables are, by cases on the stage of the one
  handshake that can be under way: nobody has the mutex and all is quiet (`Free`);
  the caller selects (`Selecting`), has sent the signal and is answered
  (`Signalled`), has stopped the target (`Stopping`), or is done (`Closing`); the
  interrupt pthread resumes the pthread below it (`Resuming`). Each case says where
  the one token, the one signal and the one flag are, and that every other
  pthread is calm. This is the part that semaphores and an
  env shared by all threads make necessary: the properties about tokens, env and
  signals cannot be proved one at a time.
* `StatusInv`: `env.disable_interrupts` is what belongs to the place of the pthread
  that has the env; the others' status is in their handlers and on the stack.

From it: `OneRunnerHolds`, `StatusIsRestored`, `NothingIsLeftOver`,
`ResumeFindsEnv`, `InterruptTypes`, and `StackMatchesFunctions` (by a bijection
between the levels of the stack and the pthreads that have not popped).
`RefusalsAreTrue` has an invariant of its own on top (`RefusalInv`): as long as no
race at all is recorded, a function that has run, or lies in
`thread.interrupt`, belongs to a call that can still succeed.

`InterruptsNestProperly` is the refinement: `ThreadInterrupt` implements
`InterruptStack`. `Inv` gives most of it: `ChainInv` says what the chain is, and that
all of it but the last pthread is stopped, and a stopped pthread keeps its place. Two
facts are missing, because they are about where the *code* is (`NestInv`). A
non-local exit that is under way is, at every moment, in one of the places from
which it goes on: a function about to be popped, a pthread about to be resumed
into it, code that unwinds, or such code further down the chain under another
function (`ExitInv`). And a thread that is done is not stopped, so that nothing is put
on top of it (`DoneInv`). Every action is then a step of the abstract specification
that its lemma names, or does not show, or breaks `InStep`. TLC checked `NestInv` on
the instances of both runs before it was proved.

### ShutdownProofs

* `OneThreadShutsDown`. `OneShutdown` counts the threads that have begun, which is
  not inductive; `GateInv` says who may begin: the Shutter and the callers that are
  about to enable it exist only while `mkcl_core.shutdown_thread` names it, and the
  watchdog only after it has left its mark there.
* `ShutdownTypes`: types, the fields of `walk` included.
* `ExitCodeIsKept`: `CodeInv` follows the code from the caller of `quit`, of which
  there is one, through the value of the Shutter and the watchdog's join to the
  exit. The property names the ways in which it is lost, each with the state that
  shows it: the watchdog joined a Shutter that had no pthread yet (`raced`); the
  initial thread cleaned up itself and left by `mkcl_thread_exit` (main.c:857);
  the collector failed in the thread whose value the code was to be, or under the
  watchdog's walk. The invariant shows that there is no other.
* `NoCleanUpNoLoss`: the second of these needs a registered watchdog that cleans up;
  without one the final clean-up never runs.
* `RequestsReachTheDaemon`, the safety half of `QueueIsServed`: a request that the
  daemon has not missed finds it awake, finalizing or stopping until it is served.
* `NoRequestIsLost`: `SeenInv` says of each round that everyone found so far who is
  still active has been served or is among those yet to be visited in the copy of
  the list. Its hypothesis is `OnlyInitialWatches`: no other thread is registered as
  the watchdog. It is needed: for a worker that is the watchdog, and that comes
  onto the list late, TLC finds that `SeenIsAsked` is false, because the rounds
  of killing skip the watchdog.
* `CleanUpRunsOnce`: the final clean-up, which destroys locks and semaphores, runs
  at most once. Two pieces of code may run it, each by its own test; `CleanInv` says
  that once it has run the thread that shut down is at its end, which no
  step undoes, and that the watchdog has no duty. The hypothesis is that the initial
  thread is not registered as the watchdog *that cleans up*; in that case, which
  `shutdown_walk` allows, TLC finds a run with two clean-ups (see below).

### GfunCacheProofs

* `MethodsAreLocked`: types (`CacheTypes`) and `MetadataLocked`: methods are changed
  and effective methods computed only under the metadata lock. For any threads,
  reused and interrupted ones too.
* `CachesAreCurrent` (`Reused = {}`, `Intruding = {}`). That a cached method counts,
  or its thread has been asked to clear it, is inductive only with what the calls
  under way have computed: a value about to be stored counts, or the request to
  clear it has come (`StoresCurrent`), and what a call has seen is a version that
  counted since it began (`ComputedIsRecent`). `CurrentAtStep` is the lemma behind
  them: the version that counts moves at exactly one step of a change, the one that
  asks for the clearing. For the spec lists (`KeysAreCurrent`) the invariant is
  `KeysFit`: a call whose key is older than the list has a request to clear unread, or
  the change that made it older still holds the metadata lock and will ask; the
  computation begins only after it, and from then on the request is there, or an
  inner call has taken it.
* `CachesImplementCalls` (same hypotheses): `GfunCache` implements `GenericCall`.
  The initial state maps to the abstract one, and under `CurrentInv` every step is
  an abstract `Call`, `Choose`, `Return`, `Fail` or `Change`, or does not show. The lemmas
  named `Shown...` and `Calls...` say what the mapping shows of a stack.
* `CachedMethodsAreFound`, with neither hypothesis, for the threads whose interrupt
  functions call no generic functions: deletion, expiry, shifting and
  overwriting never hide a cached method from the search for its key. `FindInv`
  says that the path of a key leads to its record over records that are not empty,
  that no key has two records, and that the record a call has chosen stays on the
  path while it computes. `Thins` is the idea of the proof: deleting and shifting
  only take keys out and make no record empty, and a table that is thinner is
  searched as well.
* The two hypotheses are needed: TLC refutes `CacheIsCurrent` for reused thread
  objects (`gfun_reuse`) and for interrupts that call generic functions between
  computation and store.

### PackagesProofs

`UsersAreKnown`, `ChecksPreventConflicts` and `SymbolsAreAtHome` (`UsersKnown`,
`NoConflict`, `HomeIsPresent`), for any packages, symbols, names, threads and
whatever is given to `use-package` and `unuse-package`. The inductive invariant
`PackagesInv` adds four things. An operation that changes a package has its lock,
`use-package` and `unuse-package` have both (`ChangersLock`). So the list that was
read is still the list when it is assigned, and between the two assignments the first
one stands (`ReadsAreFresh`): this is why `UsersKnown` holds, and it fails if one lock
is left out (the mutant `LockUser_Unlocked`). So also what `export` has seen of its own package stays true (`NoneExported`), so that
a package exports one symbol of a name (`OneExport`), suspect or not; without this
`use-package` would let in two symbols at once, each of which clashes with nothing.
Shadowing symbols are present (`ShadowingPresent`); otherwise an inherited symbol
could pass for one that shadows. And a used package knows its users, unless one of
them is between its assignments, in which case the used package is locked and exports
nothing, or is suspect (`UsersAsked`): `export` asks everyone it concerns.
`InheritsOneMore` is the lemma behind `export` and
`use-package`: a symbol that does not clash can be inherited. The locks of the
users are *not* part of the argument; what the code loses by not taking them is
exactly `suspect`.

`DeadlocksAreCycles` is about what the comment "This has *deadlock* written all over
it!" (package.c:860) fears, without a hypothesis. `RingInv` says that whoever keeps a
lock while it waits keeps that of the used package and waits for its user (`Climbs`).
So in a set of threads that all wait for one of the set, those that are waited for
cross (`Crosses`), and what they were given is a cycle, perhaps of one package. This
is the safety half of `OperationsEnd`, for any number of packages and threads.
`UsesWithoutCyclesDoNotDeadlock` draws the consequence: no set of threads waits in a
ring (`NoRing`) if the packages can be ranked, in each pair that is given to
`use-package` *or* `unuse-package` the user above the used; along a ring the ranks
would rise. The hypothesis excludes `unuse-package` of a package from itself and in
the reverse direction, although neither makes a cycle in "uses"; `Usable` of the run
can be ranked, `Unusable` cannot.

### Only model-checked

Every invariant of a passing run, and each of the two refinements, is stated by a
theorem. The liveness properties (`RequestIsObeyed`, `JoinReturns`, `StoppedResumes`,
`CallReturns`, `ShutdownEnds`, `QueueIsServed`, `CallsReturn`, `OperationsEnd`) need
fairness, which the prover does not have.

## Disagreements between code and text

Each of these is a run that TLC refutes, and a finding in `PROJECT.json` that
quotes the line.

1. *Lock walked into by an interrupt function* (threads.c:3330). The early return
   of `get-lock` is for an "already held recursive lock in an interrupted thread",
   and believes `holder`. `condition-wait` releases the mutex and leaves `counter`
   up, so that a give-up of another thread leaves its name in `holder`.
2. *Method cache of a reused thread object* (threads.c:874). Requests to clear reach
   only the threads on the list; the table is emptied only when the object is
   made. The same holds for the envs of the import pool (threads.c:1301).
3. *No record to overwrite* (gfun.c:400). Only a record older than the current
   generation is overwritten; hits make records young, and only misses advance
   the generation.

Seen while modelling, with no run of their own:

* *Locks.* Holder and counter are set one after the other (threads.c:3454). An
  interrupt function that gets and gives up a recursive lock between the two takes
  the counter from 0 to 1 and back, and so clears the holder; the owner goes on with
  counter 1 and holder nil and can never give the lock up. A function that comes
  before the first assignment blocks on the mutex of its own suspended pthread.
  `with-lock` disables interrupts against both, but a forced interrupt gets through
  (TLC refutes `OwnerCanGiveUp` and `InterruptNeverSelfBlocks` when they are stated
  for all threads).
* *Locks.* The same early return is taken when the interrupt pthread itself owns
  the mutex: an interrupt function that takes a recursive lock twice loses it at
  the first give-up (`NestInInterrupt = TRUE`, threads.c:3330). After a
  `condition-wait` that timed out the mutex is reacquired and the holder is not
  restored, so the owner cannot give the lock up (threads.c:4072).
* *Thread objects.* The status stays `set` from `thread-enable` to the registration
  of the new pthread: a second enable in between passes the test and makes a second
  pthread on the same env (threads.c:2818; `Careful = FALSE`). `result_value` survives the join, and the entry point keeps a
  value that is already there: the second use gives the value of the first
  (threads.c:305).
* *Pool.* The importer waits for the filler while it keeps the mutex that the
  filler needs, or fails on the answer left over from the initial fill-up
  (threads.c:1238; TLC refutes `RefillSucceeds`). A new foreign pthread that gets the
  ident of a Lisp thread between the `pthread_join` of it and its removal from the
  list (threads.c:2641-2648) is refused as already known.
* *Interrupts.* `thread.interrupt` is assigned also when an interrupt pthread is
  created, and that pthread does not empty it, so the next sleeping point calls the
  function again (threads.c:2375; TLC refutes `HandledOnce`).
  `create_interrupt_thread` may fail after the push (threads.c:1905-1917); the
  unwinding unlocks the mutex, but nothing pops the entry or resumes the target,
  which stays stopped, with its interrupt status 2, for ever.
  `mkcl_interrupt_forcefully` is assigned before the mutex is taken: it is the force
  of the last caller (threads.c:2218).
* *Shutdown.* The thread for the shutdown is registered under the gate but created
  after it, so the watchdog may join a thread that has no pthread and end the
  process with another code (top.lsp:1725; the ghost `raced`). A worker that is
  registered as the watchdog and comes onto the list after the rounds that
  interrupt is left alone, because the rounds of killing skip the watchdog.
  An initial thread that returns from `main()` while a watchdog that cleans up is
  registered shuts down, cleans up and leaves by `mkcl_thread_exit` (main.c:857):
  the code it was to return is lost, and the process ends with 0 when its last
  pthread does.
  `shutdown-mkcl` cleans up *if* the watchdog is said to clean up (main.c:850), and
  the watchdog then does so again (main.c:1035): an initial thread registered so
  runs `_mkcl_final_clean_up` after a `quit` has run it. By default nobody does,
  because the assignment under the comment "By default we want the shutdown watchdog
  to do the best clean-up possible" (threads.c:4341) is to a local variable.
* *Generic functions.* `get_spec_vector` reads the spec list without the metadata
  lock (gfun.c:435). `add-method` of the first EQL method of an argument changes the
  list; a call that has made its key before, and computes after it, finds the EQL
  method applicable and stores it under the key of the class. The request to clear
  it waits for the next call, but if the computation itself calls a generic function
  in between, the request is taken before the store and the method stays, for all
  instances of the class (the ghost `robbed`; TLC refutes `KeysAreCurrent` without it).
  An interrupt function that calls the same key between the miss and the store
  (gfun.c:525-536) leaves two records of it, and one that calls between the
  computation and the store takes the request (`Intruding`).
* *Packages.* Threads that are given two packages in both orders lock them in opposite
  order and wait for ever (package.c:861, 917); it need not be `use-package` twice, an
  `unuse-package` in the reverse direction is enough. `unuse-package` of a package from
  itself locks a normal mutex twice and hangs: `use-package` tests for that (854),
  `unuse-package` does not. A `use-package` that an interrupt unwinds between lines 894
  and 895 leaves a package that the used one does not know: `export` no longer asks it,
  `use-package` again returns at once, and only `unuse-package` first repairs it. Two
  threads that both pass the test without a lock (856) enter the package twice, which
  does no harm because `mkcl_remove_eq` removes both.

## What is not modelled

* *Of the parts that are modelled:* a lock destroyed or replaced while in use
  (never so in the pthreads build); a thread shut down inside `condition-wait`;
  a thread killed or unwound by an interrupt inside a lock operation;
  a change of methods unwound by an error between two of its steps;
  two joins of one object at once; the end of the filler at shutdown;
  `interrupt-thread` of the calling thread itself (it calls the function);
  callers that are interrupted in their turn; signals from outside the process
  with the numbers of the interrupt signals; `mt:block-signals`. A function
  called from a sleeping point is one step.
* *Of the shutdown:* exit hooks, what the final clean-up does, a watchdog that is
  registered after the shutdown has begun; what finalizers do; a collector that
  fails in a worker (which ends, as it may anyhow) or in the daemon, or in the
  middle of `quit`.
* *Of the object system:* classes, instances and their updates, method
  combination, the metaobject protocol on top of calls; other caches.
* *Of packages:* `make-package`, `rename-package`, `delete-package`, names and
  nicknames and the lock of the list of packages, closed packages, the keyword
  package, symbol values and property lists, iterators; an operation on one package
  unwound between its assignments; interrupt functions that operate on a package which
  their own thread has locked.
* *Semaphores, read-write locks, binding and frame stacks:* see the plan.
* *Sequential parts* (reader, printer, evaluator, compiler, numbers, format,
  pathnames, hash tables): their correctness is the Common Lisp standard's and
  not that of a state that several actors share, or they are input and output.
* *The Windows build*, which suspends threads by other means, and all vendored
  code. The collector appears as what its users see: a table of pthreads and a
  signal.

## Plan

Done: `MtLock`, `ThreadLife`, `ImportPool`, `ThreadInterrupt` with `InterruptStack`,
`Shutdown` with the daemon, `MethodHash`/`GfunCache`/`GenericCall`, `Packages`, each
with its proofs. What is left, in order of importance:

1. `MtLock` on top of `InterruptStack`: one specification of a lock user whose
   interrupts are those of `ThreadInterrupt`, instead of two that agree on what an
   interrupt is.
2. Action properties: what a pop, a join or a removal from a list may never undo.
3. The list of packages: `make-package`, `rename-package` and `delete-package`
   against the operations of `Packages`.
4. `BindingStack` (stacks.c): bind, unbind, catch frames and unwinding with the
   interrupt status; the shared counter of special-variable indices.
5. Semaphores and read-write locks as far as they differ from locks.
