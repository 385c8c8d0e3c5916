------------------------------ MODULE Shutdown ------------------------------
(***************************************************************************)
(* How a program ends: mkcl::quit and shutdown-mkcl-threads                *)
(* (src/src/lsp/top.lsp), shutdown-mkcl and the watchdog into which main()  *)
(* falls when the initial thread is through (src/src/c/main.c), and the    *)
(* finalization daemon (src/src/c/threads.c), one of the threads to stop.  *)
(*                                                                         *)
(* Whoever comes first shuts the program down: a thread made for it by     *)
(* quit, the Shutter, or else the initial thread in the watchdog, which    *)
(* otherwise joins the Shutter.  The shutdown gate is held over a few      *)
(* assignments only, so a section under the gate is one step.              *)
(***************************************************************************)
EXTENDS Naturals, FiniteSets, Sequences

CONSTANTS
  Worker,         \* threads of the program, preset at first
  Initial,        \* the thread of main()
  Shutter,        \* the thread object "shutdown-mkcl" of the accepted quit
  Daemon,         \* the finalization daemon, a detached thread
  Refusing,       \* threads that may refuse interrupts and need not poll
  Code,           \* exit codes given to quit
  Registrations,  \* <<watchdog, will clean up>> pairs that may be registered
  Rounds,         \* bound: rounds of joining, of killing and of waiting (3, 3, 5)
  NIL

Obj == Worker \union {Initial, Shutter, Daemon}

ASSUME ShutdownAssumption ==
  /\ Cardinality({Initial, Shutter, Daemon}) = 3
  /\ Worker \intersect {Initial, Shutter, Daemon} = {}
  /\ Refusing \subseteq Obj
  /\ Registrations \subseteq Obj \X BOOLEAN
  /\ Rounds \in Nat \ {0}
  /\ NIL \notin Obj \union Code \union {"none", "terminated", "invalid", "gc"}
  /\ "T" \notin Obj \union {NIL}

VARIABLES
  at,        \* where each thread is
  status,    \* thread.status
  listed,    \* mkcl_core.threads, the newest first
  asked,     \* thread.shutdown_requested
  told,      \* an interrupt that ends the thread has been accepted
  result,    \* thread.result_value
  shutdown,  \* mkcl_core.shutdown_thread
  watchdog,  \* mkcl_core.shutdown_watchdog_thread
  clean,     \* mkcl_core.shutdown_watchdog_will_clean_up
  walk,      \* the variables of shutdown-mkcl-threads
  duty,      \* the watchdog's own copy of what it has to clean up
  cleanups,  \* ghost: how often the final clean-up has run
  exit,      \* status with which the process ended
  garbage,   \* the collector's queue for finalization: empty, with a request that
             \* the daemon will see, or (ghost) with one that it has missed
  begun,     \* ghost: threads that have begun to shut the program down
  raced      \* ghost: the watchdog joined a pthread that did not exist

vars == <<at, status, listed, asked, told, result, shutdown, watchdog, clean,
          walk, duty, cleanups, exit, garbage, begun, raced>>

Places == {"none", "preset", "enabling", "created", "active", "running",
           "quitting", "shutting", "leaving", "done", "ended",  \* any thread
           "waiting", "awake", "finalizing",                    \* the daemon
           "watchdog", "joining", "finishing"}                  \* the initial one

Detached(t) == t = Daemon

Listed == {listed[n] : n \in 1 .. Len(listed)}

(* mkcl_remove_thread_from_global_thread_list; a thread is there once.     *)
Without(t) ==
  IF t \in Listed
    THEN LET n == CHOOSE n \in 1 .. Len(listed) : listed[n] = t
         IN  SubSeq(listed, 1, n - 1) \o SubSeq(listed, n + 1, Len(listed))
    ELSE listed

NoWalk == [by |-> NIL, wd |-> NIL, code |-> NIL, phase |-> "none", round |-> 0,
           todo |-> <<>>, first |-> {}, later |-> {}, refused |-> {}]

(* mkcl_init_early_threads and mkcl_init_late_threads: the field clean of  *)
(* mkcl_core stays nil.                                                    *)
Init ==
  /\ at = [t \in Obj |-> IF t \in Worker THEN "preset"
                         ELSE IF t = Shutter THEN "none" ELSE "running"]
  /\ status = [t \in Obj |-> IF t \in {Initial, Daemon} THEN "active" ELSE "set"]
  /\ listed = <<Daemon, Initial>>
  /\ asked = [t \in Obj |-> FALSE]
  /\ told = [t \in Obj |-> FALSE]
  /\ result = [t \in Obj |-> "none"]
  /\ shutdown = NIL
  /\ watchdog = Initial
  /\ clean = FALSE
  /\ walk = NoWalk
  /\ duty = FALSE
  /\ cleanups = 0
  /\ exit = NIL
  /\ garbage = "none"
  /\ begun = {}
  /\ raced = FALSE

Move(t, place) == at' = [at EXCEPT ![t] = place]

(* Only the values of the initial thread and of the Shutter are looked at. *)
Leave(t, value) ==
  /\ Move(t, "leaving")
  /\ result' = IF t \in {Initial, Shutter} THEN [result EXCEPT ![t] = value] ELSE result
----------------------------------------------------------------------------
(***************************************************************************)
(* The threads of the program: thread-enable, the entry point, the end.    *)
(***************************************************************************)

(* thread-enable up to its test for a shutdown, called by thread e, which  *)
(* polls there.                                                            *)
Enable(e, w) ==
  /\ at[e] = "running" /\ ~asked[e]
  /\ w \in Worker /\ at[w] = "preset"
  /\ shutdown = NIL
  /\ Move(w, "enabling")
  /\ UNCHANGED <<status, listed, asked, told, result, shutdown, watchdog, clean,
                 walk, duty, cleanups, exit, garbage, begun, raced>>

EnableCreate(w) ==
  /\ at[w] = "enabling"
  /\ asked' = [asked EXCEPT ![w] = FALSE]
  /\ Move(w, "created")
  /\ UNCHANGED <<status, listed, told, result, shutdown, watchdog, clean, walk,
                 duty, cleanups, exit, garbage, begun, raced>>

(* Mutant: the request is reset by the new thread itself, once it is listed.*)
Register_ForgetsRequest(t) ==
  /\ at[t] \in {"created", "active"}
  /\ status' = [status EXCEPT ![t] = "active"]
  /\ IF at[t] = "created"
       THEN /\ listed' = <<t>> \o listed
            /\ Move(t, "active")
            /\ UNCHANGED <<asked, begun>>
       ELSE /\ asked' = [asked EXCEPT ![t] = FALSE]
            /\ Move(t, IF t = Shutter THEN "shutting" ELSE "running")
            /\ begun' = IF t = Shutter THEN begun \union {t} ELSE begun
            /\ UNCHANGED listed
  /\ UNCHANGED <<told, result, shutdown, watchdog, clean, walk, duty, cleanups,
                 exit, garbage, raced>>

(* mkcl_register_thread_as_active (its two steps are in ThreadLife); then  *)
(* a worker calls its function, and the Shutter begins.                    *)
Register(t) ==
  /\ at[t] = "created"
  /\ status' = [status EXCEPT ![t] = "active"]
  /\ listed' = <<t>> \o listed
  /\ Move(t, IF t = Shutter THEN "shutting" ELSE "running")
  /\ begun' = IF t = Shutter THEN begun \union {t} ELSE begun
  /\ UNCHANGED <<asked, told, result, shutdown, watchdog, clean, walk, duty,
                 cleanups, exit, garbage, raced>>

(* The function of the thread, or the program of main(), returns.          *)
FunctionReturns(t) ==
  /\ t # Daemon
  /\ at[t] = "running"
  /\ Move(t, "leaving")
  /\ UNCHANGED <<status, listed, asked, told, result, shutdown, watchdog, clean,
                 walk, duty, cleanups, exit, garbage, begun, raced>>

(* A sleeping point (mk_mt_test_for_thread_shutdown).                      *)
Poll(t) ==
  /\ t # Daemon
  /\ at[t] = "running"
  /\ asked[t]
  /\ Leave(t, "terminated")
  /\ UNCHANGED <<status, listed, asked, told, shutdown, watchdog, clean, walk,
                 duty, cleanups, exit, garbage, begun, raced>>

(* terminate-thread or abort-thread runs in an accepted interrupt.         *)
Interrupted(t) ==
  /\ told[t]
  /\ at[t] \in {"running", "waiting", "awake"}
  /\ Leave(t, "terminated")
  /\ told' = [told EXCEPT ![t] = FALSE]
  /\ UNCHANGED <<status, listed, asked, shutdown, watchdog, clean, walk, duty,
                 cleanups, exit, garbage, begun, raced>>

(* At the root of the stack, with interrupts disabled: the status, and the *)
(* final clean-up (its steps are in ThreadLife).  The initial thread does  *)
(* not go through it: main() sets its status and calls the watchdog.       *)
EndThread(t) ==
  /\ at[t] = "leaving"
  /\ status' = [status EXCEPT ![t] = "done"]
  /\ listed' = IF Detached(t) THEN Without(t) ELSE listed
  /\ told' = [told EXCEPT ![t] = FALSE]  \* with interrupts disabled, for ever
  /\ Move(t, IF t = Initial THEN "done" ELSE "ended")
  /\ UNCHANGED <<asked, result, shutdown, watchdog, clean, walk, duty,
                 cleanups, exit, garbage, begun, raced>>

(* request-thread-shutdown, by the program, of one of its own threads.     *)
RequestShutdown(e, t) ==
  /\ at[e] = "running"
  /\ t \in Worker
  /\ status[t] # "done"
  /\ asked' = [asked EXCEPT ![t] = TRUE]
  /\ UNCHANGED <<at, status, listed, told, result, shutdown, watchdog, clean,
                 walk, duty, cleanups, exit, garbage, begun, raced>>
----------------------------------------------------------------------------
(***************************************************************************)
(* The finalization daemon and the collector.  The notifier signals the    *)
(* condition variable; there is no flag, so a signal that finds the daemon *)
(* not waiting is lost.                                                    *)
(***************************************************************************)
Awoken == [at EXCEPT ![Daemon] = IF @ = "waiting" THEN "awake" ELSE @]

(* A collection that leaves objects to finalize in the queue: the notifier *)
(* is called.  Between its finalizers and its wait the daemon misses it.   *)
Collect ==
  /\ at[Daemon] \notin {"leaving", "ended"}  \* then nobody looks at the queue
  /\ garbage' = IF at[Daemon] = "running" THEN "missed" ELSE "requested"
  /\ at' = Awoken
  /\ UNCHANGED <<status, listed, asked, told, result, shutdown, watchdog, clean,
                 walk, duty, cleanups, exit, begun, raced>>

DaemonWait ==
  /\ at[Daemon] = "running"
  /\ Move(Daemon, "waiting")
  /\ UNCHANGED <<status, listed, asked, told, result, shutdown, watchdog, clean,
                 walk, duty, cleanups, exit, garbage, begun, raced>>

(* Mutant: the daemon goes back to the wait without calling them.          *)
DaemonWakes_Skips ==
  /\ at[Daemon] = "awake"
  /\ IF asked[Daemon] THEN Leave(Daemon, "terminated")
                      ELSE Move(Daemon, "running") /\ UNCHANGED result
  /\ UNCHANGED <<status, listed, asked, told, shutdown, watchdog, clean, walk,
                 duty, cleanups, exit, garbage, begun, raced>>

(* The wait returned: the poll, then MK_GC_invoke_finalizers.              *)
DaemonWakes ==
  /\ at[Daemon] = "awake"
  /\ IF asked[Daemon] THEN Leave(Daemon, "terminated")
                      ELSE Move(Daemon, "finalizing") /\ UNCHANGED result
  /\ UNCHANGED <<status, listed, asked, told, shutdown, watchdog, clean, walk,
                 duty, cleanups, exit, garbage, begun, raced>>

(* It goes on until it finds the queue empty, also if collections during   *)
(* the finalizers have put more into it.  Interrupts are disabled.         *)
Finalize ==
  /\ at[Daemon] = "finalizing"
  /\ IF garbage = "none" THEN Move(Daemon, "running") ELSE UNCHANGED at
  /\ garbage' = "none"
  /\ UNCHANGED <<status, listed, asked, told, result, shutdown, watchdog, clean,
                 walk, duty, cleanups, exit, begun, raced>>
----------------------------------------------------------------------------
(***************************************************************************)
(* mkcl::quit                                                              *)
(***************************************************************************)

(* Under the gate: the Shutter is made, registered and preset, unless a    *)
(* shutdown is in progress; then the caller just ends.                     *)
Quit(t, c) ==
  /\ at[t] = "running" /\ t # Daemon
  /\ IF shutdown = NIL
       THEN /\ shutdown' = Shutter
            /\ at' = [at EXCEPT ![t] = "quitting", ![Shutter] = "preset"]
            /\ walk' = [NoWalk EXCEPT !.by = Shutter, !.wd = watchdog, !.code = c,
                                      !.phase = "start"]
            /\ UNCHANGED result
       ELSE Leave(t, c) /\ UNCHANGED <<shutdown, walk>>
  /\ UNCHANGED <<status, listed, asked, told, watchdog, clean, duty, cleanups,
                 exit, garbage, begun, raced>>

(* thread-enable of the Shutter, which polls for the caller first, then    *)
(* exit-thread.                                                            *)
QuitEnable(t) ==
  /\ at[t] = "quitting"
  /\ ~asked[t]
  /\ at' = [at EXCEPT ![t] = "leaving", ![Shutter] = "created"]
  /\ result' = IF t = Initial THEN [result EXCEPT ![t] = walk.code] ELSE result
  /\ UNCHANGED <<status, listed, asked, told, shutdown, watchdog, clean, walk,
                 duty, cleanups, exit, garbage, begun, raced>>

(* The caller was asked to end, or no pthread can be created: it ends, and *)
(* the Shutter stays registered.                                           *)
QuitGivesUp(t) ==
  /\ at[t] = "quitting"
  /\ Leave(t, IF asked[t] THEN "terminated" ELSE walk.code)
  /\ UNCHANGED <<status, listed, asked, told, shutdown, watchdog, clean, walk,
                 duty, cleanups, exit, garbage, begun, raced>>
----------------------------------------------------------------------------
(***************************************************************************)
(* shutdown-mkcl-threads, run by walk.by.  todo is what is left of the     *)
(* copy of the list that a dolist goes through.  Its body skips the thread *)
(* that runs it and, if threads are to be joined, the watchdog.  first has *)
(* the threads on the copy whose threads are asked, later the others on    *)
(* the copies whose threads are interrupted.                               *)
(***************************************************************************)
Shutting(x) == at[x] = "shutting" /\ walk.by = x

Others == Listed \ {walk.by, walk.wd}

(* Mutant: the watchdog is joined like any other thread.                   *)
Skipped_JoinsWatchdog(phase) == {walk.by}

Skipped(phase) ==
  IF phase \in {"join", "kill"} THEN {walk.by, walk.wd} ELSE {walk.by}

(* A fresh copy of the list, and what it is for.                           *)
Copy(phase, round) ==
  [walk EXCEPT !.phase = phase, !.round = round,
               !.todo = IF phase \in {"wait", "over"} THEN <<>> ELSE listed,
               !.first = IF phase = "ask" THEN Listed ELSE @,
               !.later = IF phase \in {"terminate", "kill"}
                           THEN @ \union (Listed \ walk.first) ELSE @]

(* The first copy.  The sleep that follows it and, with :clean, the        *)
(* collection are the steps of others and Collect.                         *)
WalkBegin(x) ==
  /\ Shutting(x) /\ walk.phase = "start"
  /\ walk' = Copy("ask", 0)
  /\ UNCHANGED <<at, status, listed, asked, told, result, shutdown, watchdog,
                 clean, duty, cleanups, exit, garbage, begun, raced>>

(* The body of the dolist for the n-th of what is left, the first that it  *)
(* does not skip.                                                          *)
NextThread(x, n, phase) ==
  /\ Shutting(x) /\ walk.phase = phase
  /\ walk.todo[n] \notin Skipped(phase)
  /\ \A m \in 1 .. n - 1 : walk.todo[m] \in Skipped(phase)

Proceed(n, refusals) ==
  walk' = [walk EXCEPT !.todo = SubSeq(@, n + 1, Len(@)), !.refused = @ \union refusals]

(* request-thread-shutdown and try-to-wake-up-thread.                      *)
AskThread(x, n) ==
  /\ NextThread(x, n, "ask")
  /\ Proceed(n, {})
  /\ LET t == walk.todo[n]
     IN  /\ asked' = IF status[t] # "done" THEN [asked EXCEPT ![t] = TRUE] ELSE asked
         /\ at' = IF t = Daemon THEN Awoken ELSE at
  /\ UNCHANGED <<status, listed, told, result, shutdown, watchdog, clean, duty,
                 cleanups, exit, garbage, begun, raced>>

(* interrupt-thread on an active thread; a refusal is handled and ignored. *)
Tell(n) ==
  \/ /\ told' = [told EXCEPT ![walk.todo[n]] = TRUE]
     /\ Proceed(n, {})
  \/ /\ walk.todo[n] \in Refusing
     /\ Proceed(n, {walk.todo[n]})
     /\ UNCHANGED told

TerminateThread(x, n) ==
  /\ NextThread(x, n, "terminate")
  /\ IF status[walk.todo[n]] = "active" THEN Tell(n) ELSE Proceed(n, {}) /\ UNCHANGED told
  /\ UNCHANGED <<at, status, listed, asked, result, shutdown, watchdog, clean,
                 duty, cleanups, exit, garbage, begun, raced>>

(* thread-join of a thread that is not active waits until it has ended.    *)
JoinNow(t) ==
  IF Detached(t)
    THEN /\ listed' = IF status[t] = "done" THEN Without(t) ELSE listed
         /\ UNCHANGED status
    ELSE /\ at[t] = "ended"
         /\ listed' = Without(t)
         /\ status' = [status EXCEPT ![t] = "initialized"]

JoinThread(x, n) ==
  /\ NextThread(x, n, "join")
  /\ Proceed(n, {})
  /\ IF status[walk.todo[n]] # "active"
       THEN JoinNow(walk.todo[n]) ELSE UNCHANGED <<listed, status>>
  /\ UNCHANGED <<at, asked, told, result, shutdown, watchdog, clean, duty,
                 cleanups, exit, garbage, begun, raced>>

(* thread-kill (abort-thread, forced) if active, else thread-join.         *)
KillThread(x, n) ==
  /\ NextThread(x, n, "kill")
  /\ IF status[walk.todo[n]] = "active"
       THEN Tell(n) /\ UNCHANGED <<listed, status>>
       ELSE JoinNow(walk.todo[n]) /\ Proceed(n, {}) /\ UNCHANGED told
  /\ UNCHANGED <<at, asked, result, shutdown, watchdog, clean, duty, cleanups,
                 exit, garbage, begun, raced>>

(* The end of a dolist: a fresh copy, and what to do with it.              *)
FollowingPhase ==
  CASE walk.phase = "ask" -> <<"terminate", 0>>
    [] walk.phase = "terminate" -> <<"join", 1>>
    [] walk.phase = "join" -> IF walk.round < Rounds THEN <<"join", walk.round + 1>>
                                                     ELSE <<"kill", 1>>
    [] walk.phase = "kill" -> IF walk.round < Rounds THEN <<"kill", walk.round + 1>>
                                                     ELSE <<"wait", 1>>
    [] walk.phase = "wait" -> IF walk.round < Rounds THEN <<"wait", walk.round + 1>>
                                                     ELSE <<"over", 0>>

EndOfRound(x) ==
  /\ Shutting(x)
  /\ walk.phase \in {"ask", "terminate", "join", "kill", "wait"}
  /\ \A n \in 1 .. Len(walk.todo) : walk.todo[n] \in Skipped(walk.phase)
  /\ walk' = IF walk.phase \in {"join", "kill", "wait"} /\ Others = {}
                THEN Copy("over", 0)  \* "we're the last one"
                ELSE Copy(FollowingPhase[1], FollowingPhase[2])
  /\ UNCHANGED <<at, status, listed, asked, told, result, shutdown, watchdog,
                 clean, duty, cleanups, exit, garbage, begun, raced>>

(* The collector cannot go on and abandons the thread that called it,      *)
(* straight to the root of its stack.  A thread of the program just ends,  *)
(* and of these only the value of the initial one is looked at; the        *)
(* Shutter leaves its walk; the watchdog, if it is the one that walks,     *)
(* catches it.  The variables of the walk are gone, except for its code.   *)
CollectorFails(t) ==
  /\ \/ t = Initial /\ at[t] = "running" /\ Leave(t, "gc") /\ UNCHANGED walk
     \/ /\ Shutting(t)
        /\ walk.phase \in {"start", "ask", "terminate", "join", "kill", "wait"}
        /\ walk' = [NoWalk EXCEPT !.by = t, !.wd = walk.wd, !.code = walk.code,
                                  !.phase = "cut"]
        /\ IF t = Initial
             THEN Move(t, "finishing") /\ result' = [result EXCEPT ![t] = "invalid"]
             ELSE Leave(t, "gc")
  /\ UNCHANGED <<status, listed, asked, told, shutdown, watchdog, clean, duty,
                 cleanups, exit, garbage, begun, raced>>
----------------------------------------------------------------------------
(***************************************************************************)
(* mk_si_shutdown_mkcl, after the walk and the exit hooks.                 *)
(***************************************************************************)

(* It must clean up: then it exits its pthread without returning, and the  *)
(* watchdog, if it is one, gives up its duty (mkcl_thread_exit).           *)
ShutdownCleansUp(x) ==
  /\ Shutting(x) /\ walk.phase = "over"
  /\ watchdog = NIL \/ clean
  /\ result' = [result EXCEPT ![x] = walk.code]
  /\ cleanups' = cleanups + 1
  /\ status' = [status EXCEPT ![x] = "done"]
  /\ watchdog' = IF x = watchdog THEN NIL ELSE watchdog
  /\ clean' = (clean /\ x # watchdog)
  /\ Move(x, "ended")
  /\ UNCHANGED <<listed, asked, told, shutdown, walk, duty, exit, garbage, begun,
                 raced>>

(* Mutant: the code is not kept as the value of the thread.                *)
ShutdownReturns_DropsCode(x) ==
  /\ Shutting(x) /\ walk.phase = "over"
  /\ watchdog # NIL /\ ~clean
  /\ Move(x, IF x = Initial THEN "finishing" ELSE "leaving")
  /\ UNCHANGED <<status, listed, asked, told, result, shutdown, watchdog, clean,
                 walk, duty, cleanups, exit, garbage, begun, raced>>

ShutdownReturns(x) ==
  /\ Shutting(x) /\ walk.phase = "over"
  /\ watchdog # NIL /\ ~clean
  /\ result' = [result EXCEPT ![x] = walk.code]
  /\ Move(x, IF x = Initial THEN "finishing" ELSE "leaving")
  /\ UNCHANGED <<status, listed, asked, told, shutdown, watchdog, clean, walk,
                 duty, cleanups, exit, garbage, begun, raced>>
----------------------------------------------------------------------------
(***************************************************************************)
(* mkcl_shutdown_watchdog, on the initial thread at the end of main().     *)
(***************************************************************************)
WatchdogBegin ==
  /\ at[Initial] = "done"
  /\ listed' = Without(Initial)
  /\ Move(Initial, "watchdog")
  /\ UNCHANGED <<status, asked, told, result, shutdown, watchdog, clean, walk,
                 duty, cleanups, exit, garbage, begun, raced>>

(* "Shutdown is pointless if GC is kaput."                                 *)
WatchdogSkips ==
  /\ at[Initial] = "watchdog"
  /\ result[Initial] = "gc"
  /\ Move(Initial, "finishing")
  /\ UNCHANGED <<status, listed, asked, told, result, shutdown, watchdog, clean,
                 walk, duty, cleanups, exit, garbage, begun, raced>>

(* Mutant: the watchdog does not leave a mark that it shuts down.          *)
WatchdogDecide_Unmarked ==
  /\ at[Initial] = "watchdog"
  /\ result[Initial] # "gc"
  /\ duty' = (watchdog = Initial /\ clean)
  /\ IF shutdown = NIL
       THEN /\ walk' = [NoWalk EXCEPT !.by = Initial, !.wd = watchdog,
                                      !.code = result[Initial], !.phase = "start"]
            /\ begun' = begun \union {Initial}
            /\ Move(Initial, "shutting")
       ELSE Move(Initial, "joining") /\ UNCHANGED <<walk, begun>>
  /\ UNCHANGED <<status, listed, asked, told, result, shutdown, watchdog, clean,
                 cleanups, exit, garbage, raced>>

(* Under the gate.  T marks a shutdown by the watchdog itself.             *)
WatchdogDecide ==
  /\ at[Initial] = "watchdog"
  /\ result[Initial] # "gc"
  /\ duty' = (watchdog = Initial /\ clean)
  /\ IF shutdown = NIL
       THEN /\ shutdown' = "T"
            /\ walk' = [NoWalk EXCEPT !.by = Initial, !.wd = watchdog,
                                      !.code = result[Initial], !.phase = "start"]
            /\ begun' = begun \union {Initial}
            /\ Move(Initial, "shutting")
       ELSE Move(Initial, "joining") /\ UNCHANGED <<shutdown, walk, begun>>
  /\ UNCHANGED <<status, listed, asked, told, result, watchdog, clean, cleanups,
                 exit, garbage, raced>>

WatchdogJoin ==
  /\ at[Initial] = "joining"
  /\ at[Shutter] = "ended"
  /\ listed' = Without(Shutter)
  /\ result' = [result EXCEPT ![Initial] = result[Shutter]]
  /\ Move(Initial, "finishing")
  /\ UNCHANGED <<status, asked, told, shutdown, watchdog, clean, walk, duty,
                 cleanups, exit, garbage, begun, raced>>

(* The Shutter is registered but has no pthread: pthread_join of an ident  *)
(* that was never set is undefined.  It fails, or the process dies.        *)
WatchdogJoinsNothing ==
  /\ at[Initial] = "joining"
  /\ at[Shutter] = "preset"
  /\ raced' = TRUE
  /\ \/ /\ result' = [result EXCEPT ![Initial] = "invalid"]
        /\ Move(Initial, "finishing")
        /\ UNCHANGED exit
     \/ exit' = "crash" /\ UNCHANGED <<result, at>>
  /\ UNCHANGED <<status, listed, asked, told, shutdown, watchdog, clean, walk,
                 duty, cleanups, garbage, begun>>

(* main() returns, and with it the process ends.                           *)
WatchdogReturns ==
  /\ at[Initial] = "finishing"
  /\ cleanups' = IF duty THEN cleanups + 1 ELSE cleanups
  /\ exit' = result[Initial]
  /\ Move(Initial, "ended")
  /\ UNCHANGED <<status, listed, asked, told, result, shutdown, watchdog, clean,
                 walk, duty, garbage, begun, raced>>

(* The initial thread has left by pthread_exit: the process ends with the  *)
(* last of its pthreads.                                                   *)
LastPthreadEnds ==
  /\ at[Initial] = "ended"
  /\ \A t \in Obj \ {Initial} : at[t] \in {"none", "preset", "ended"}
  /\ exit' = "gone"
  /\ UNCHANGED <<at, status, listed, asked, told, result, shutdown, watchdog,
                 clean, walk, duty, cleanups, garbage, begun, raced>>

(* register-shutdown-watchdog-thread, by a program that embeds MKCL, before*)
(* it starts other threads.                                                *)
RegisterWatchdog(e, w, c) ==
  /\ at[e] = "running"
  /\ shutdown = NIL /\ \A o \in Worker : at[o] = "preset"
  /\ <<w, c>> \in Registrations
  /\ watchdog' = w
  /\ clean' = c
  /\ UNCHANGED <<at, status, listed, asked, told, result, shutdown, walk, duty,
                 cleanups, exit, garbage, begun, raced>>
----------------------------------------------------------------------------
ThreadStep(t) ==
  \/ EnableCreate(t)
  \/ Register(t)
  \/ FunctionReturns(t)
  \/ Poll(t)
  \/ Interrupted(t)
  \/ EndThread(t)
  \/ CollectorFails(t)
  \/ \E c \in Code : Quit(t, c)
  \/ QuitEnable(t)
  \/ QuitGivesUp(t)
  \/ \E o \in Obj : Enable(t, o) \/ RequestShutdown(t, o)
  \/ \E w \in Obj, c \in BOOLEAN : RegisterWatchdog(t, w, c)

WalkStep(x) ==
  \/ WalkBegin(x)
  \/ \E n \in 1 .. Len(walk.todo) :
       \/ AskThread(x, n)
       \/ TerminateThread(x, n)
       \/ JoinThread(x, n)
       \/ KillThread(x, n)
  \/ EndOfRound(x)
  \/ ShutdownCleansUp(x)
  \/ ShutdownReturns(x)

DaemonStep == DaemonWait \/ DaemonWakes \/ Finalize

WatchdogStep ==
  \/ WatchdogBegin
  \/ WatchdogSkips
  \/ WatchdogDecide
  \/ WatchdogJoin
  \/ WatchdogJoinsNothing
  \/ WatchdogReturns
  \/ LastPthreadEnds

Next ==
  /\ exit = NIL
  /\ \/ \E t \in Obj : ThreadStep(t) \/ WalkStep(t)
     \/ DaemonStep
     \/ Collect
     \/ WatchdogStep

Spec == Init /\ [][Next]_vars

(* A thread that has begun to start or to end goes on, and so does one in  *)
(* the middle of quit, of a walk or of the watchdog; those that poll do so *)
(* again and again; an accepted interrupt runs.  Nobody promises another   *)
(* collection: an idle program makes none.                                 *)
Alive(A) == exit = NIL /\ A

Goes(t) ==
  \/ EnableCreate(t) \/ Register(t)
  \/ t \notin Refusing /\ Poll(t)
  \/ t # Daemon /\ Interrupted(t)
  \/ EndThread(t)
  \/ QuitEnable(t) \/ QuitGivesUp(t)
  \/ WalkStep(t)
  \/ t = Daemon /\ DaemonStep
  \/ t = Initial /\ WatchdogStep

Fairness ==
  /\ \A t \in Obj : WF_vars(Alive(Goes(t)))
  /\ WF_vars(Alive(Interrupted(Daemon)))

FairSpec == Spec /\ Fairness
----------------------------------------------------------------------------
Values == Code \union {"none", "terminated", "invalid", "gc"}

TypeOK ==
  /\ at \in [Obj -> Places]
  /\ status \in [Obj -> {"initialized", "set", "active", "done"}]
  /\ listed \in Seq(Obj)
  /\ asked \in [Obj -> BOOLEAN] /\ told \in [Obj -> BOOLEAN]
  /\ result \in [Obj -> Values]
  /\ shutdown \in {NIL, "T", Shutter}
  /\ watchdog \in Obj \union {NIL}
  /\ clean \in BOOLEAN /\ duty \in BOOLEAN
  /\ cleanups \in Nat
  /\ garbage \in {"none", "requested", "missed"} /\ raced \in BOOLEAN
  /\ begun \subseteq Obj
  /\ exit \in Values \union {NIL, "crash", "gone"}
  /\ walk.todo \in Seq(Obj) /\ walk.first \union walk.later \subseteq Obj

(* The gate lets one thread shut the program down, whatever quits and      *)
(* whether or not main() returns at the same time.                         *)
OneShutdown == Cardinality(begun) <= 1

(* The process ends with the code of the quit that was accepted, or, if    *)
(* main() returned first, with the value of the initial thread: through    *)
(* the arguments and the value of the Shutter, and the watchdog's join.    *)
(* It is lost in four cases only.  A watchdog came between the             *)
(* registration and the creation of the Shutter (raced).  The initial      *)
(* thread shut down and cleaned up itself, because a watchdog that will    *)
(* clean up is registered, and left by mkcl_thread_exit: the process ends  *)
(* with 0 when its last thread does ("gone").  The collector failed in the *)
(* thread whose value it was to be ("gc"), or under the watchdog's own     *)
(* walk.                                                                   *)
ExitCode ==
  exit # NIL /\ ~raced =>
    \/ exit = walk.code
    \/ exit = "gone" /\ walk.by = Initial /\ cleanups > 0
    \/ exit = "gc"
    \/ exit = "invalid" /\ walk.by = Initial /\ walk.phase = "cut"

(* At the end of the walk the request to stop stands for every thread that *)
(* the walk found at first and that is still active, also for one that     *)
(* refuses interrupts and will stop at its next poll; one that came onto   *)
(* the list later and was found there has been interrupted, or has         *)
(* refused.  No request gets lost between thread-enable, which resets it,  *)
(* the registration and the walk.                                          *)
SeenIsAsked ==
  walk.phase \in {"wait", "over"} =>
    \A t \in Obj \ {walk.by} : status[t] = "active" =>
      /\ t \in walk.first => asked[t]
      /\ t \in walk.later => asked[t] \/ told[t] \/ at[t] = "leaving" \/ t \in walk.refused

(* From any moment at which a shutdown has begun to run, it comes to its   *)
(* end, even if some threads never stop: nobody is waited for who waits    *)
(* for the shutdown itself.  main() returns, and the process ends, except  *)
(* that a watchdog that shut down and cleaned up itself leaves by          *)
(* pthread_exit.  An initial thread that neither polls nor accepts the     *)
(* interrupt keeps the process alive as long as its program runs, but not  *)
(* the Shutter; once its program returns, the process ends.                *)
ShutdownEnds ==
  (at[Shutter] \notin {"none", "preset"} \/ shutdown = "T")
    ~> (\/ exit # NIL \/ at[Initial] = "ended"
        \/ Initial \in Refusing /\ at[Initial] = "running" /\ at[Shutter] = "ended")

(* A queued object is finalized in the end, also if it was queued while    *)
(* the daemon was waking up or already running finalizers, unless the      *)
(* daemon is stopped before, or the request came between its finalizers    *)
(* and its wait: there is no flag, and that request is lost until another  *)
(* collection asks again.                                                  *)
QueueIsServed ==
  garbage # "none" ~> (\/ garbage \in {"none", "missed"}
                       \/ at[Daemon] \in {"leaving", "done", "ended"}
                       \/ exit # NIL)
=============================================================================
