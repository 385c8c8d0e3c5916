--------------------------- MODULE ThreadInterrupt ---------------------------
(***************************************************************************)
(* mt:interrupt-thread in the pthreads build (interrupt_thread_internal    *)
(* and interrupt_thread_entry_point in src/src/c/threads.c, the handlers   *)
(* of the interrupt and resume signals in src/src/c/unixint.c).            *)
(*                                                                         *)
(* A caller does not make the target run the function.  It signals the     *)
(* pthread of the target, whose handler answers on a semaphore and stops   *)
(* in sigsuspend; the caller then pushes that pthread on a stack of the    *)
(* thread object and creates a new pthread, which runs the function on the *)
(* same env.  When the function is over the new pthread pops the stack,    *)
(* sends the resume signal and waits until the stopped pthread is awake.   *)
(* A thread that sleeps in a system call is only woken up: it finds the    *)
(* function in thread.interrupt.  One mutex, four semaphores and the       *)
(* variables mkcl_interrupted_thread_env, mkcl_interrupt_refused and       *)
(* mkcl_interrupt_forcefully are shared by all the threads.                *)
(*                                                                         *)
(* A Call is one call of interrupt-thread by a thread that is not itself a *)
(* target, its function, and the pthread made for that function, if any.   *)
(***************************************************************************)
EXTENDS Integers, Sequences, FiniteSets

CONSTANTS
  Target,        \* threads that get interrupted; also their own pthreads
  Call,          \* calls of interrupt-thread; also their interrupt pthreads
  NIL,           \* no thread, no function
  Sleepers,      \* the targets that call functions that sleep
  MaxInterrupts, \* MKCL_MAX_INTERRUPTS
  MaxRetries     \* MAX_INTERRUPT_RETRIES

ASSUME InterruptAssumption ==
  /\ Target \cap Call = {}
  /\ NIL \notin Target \cup Call \cup (Call \X {"caller", "function"})
  /\ Sleepers \subseteq Target
  /\ MaxInterrupts \in Nat /\ MaxRetries \in Nat \ {0}

Pthread == Target \cup Call

VARIABLES
  lock,        \* mkcl_interrupt_thread_lock: NIL or <<call, side>>
  ienv,        \* mkcl_interrupted_thread_env
  refused,     \* mkcl_interrupt_refused
  forcefully,  \* mkcl_interrupt_forcefully
  sem,         \* the four semaphores
  \* of each call, in the thread that makes it
  cpc, target, tries, outcome,
  \* of each target: fields of the thread object and of its env
  done,        \* thread.status = mkcl_thread_done (it was active)
  ident,       \* thread.thread
  slot,        \* thread.interrupt
  stack,       \* thread.interrupted_threads, interrupt_count its length
  resumeRan,   \* thread.resume_handler_ran
  disable,     \* env.disable_interrupts: 0, 1 or 2
  sleepingOn,  \* env.sleeping_on is not NIL
  nlj,         \* env.nlj_fr is not NULL: a non-local exit is under way
  \* of each pthread
  loc, ret,    \* where it is, where its interrupt handler returns to
  henv,        \* env, in its interrupt handler
  old,         \* interrupt status saved by MKCL_NO_INTR or MKCL_Zzz
  entry,       \* interrupt status saved by the CATCH_ALL of an interrupt pthread
  pendI, pendR, \* interrupt and resume signals queued (real-time signals)
  \* history
  ran,         \* how often the function of each call was called (up to 2)
  races        \* which of the races described at Race have happened

shared == <<lock, ienv, refused, forcefully, sem>>
calls == <<cpc, target, tries, outcome>>
thread == <<done, ident, slot, stack, resumeRan, disable, sleepingOn, nlj>>
pthread == <<loc, ret, henv, old, entry, pendI, pendR>>
vars == <<shared, calls, thread, pthread, ran, races>>

Semaphores == {"suspended", "resumed", "run", "sleeper"}

LispLoc == {"run", "nointr", "zzz", "asleep", "woke"}
HandlerLoc == {"entered",    \* interrupt handler: env has been read
               "refusing",   \* refused is set, not yet posted
               "suspending", \* suspended posted, not (again) in sigsuspend
               "suspended",  \* in sigsuspend
               "waking",     \* sigsuspend returned, flag not yet tested
               "returning"}  \* posted resumed
PopLoc == {"popping", "waitResumed", "popped"}
Locations == LispLoc \cup HandlerLoc \cup PopLoc \cup
             {"none", "born", "enabled", "unwinding", "done", "gone"}

CallLoc == {"idle", "retry", "lock", "select", "wake", "waitSleeper",
            "waitSuspended", "waited", "created", "unlock", "end"}

(* The Lisp thread on whose env pthread p runs.                            *)
ThreadOf(p) == IF p \in Call THEN target[p] ELSE p

Post(s) == sem' = [sem EXCEPT ![s] = @ + 1]
Take(s) == sem[s] > 0 /\ sem' = [sem EXCEPT ![s] = @ - 1]

Count(f) == ran' = [ran EXCEPT ![f] = IF @ < 2 THEN @ + 1 ELSE @]

Init ==
  /\ lock = NIL /\ ienv = NIL /\ refused = FALSE /\ forcefully = FALSE
  /\ sem = [s \in Semaphores |-> 0]
  /\ cpc = [c \in Call |-> "idle"] /\ target = [c \in Call |-> NIL]
  /\ tries = [c \in Call |-> 0]
  /\ outcome = [c \in Call |-> "none"]
  /\ done = [t \in Target |-> FALSE] /\ ident = [t \in Target |-> t]
  /\ slot = [t \in Target |-> NIL] /\ stack = [t \in Target |-> << >>]
  /\ resumeRan = [t \in Target |-> FALSE] /\ disable = [t \in Target |-> 0]
  /\ sleepingOn = [t \in Target |-> FALSE] /\ nlj = [t \in Target |-> FALSE]
  /\ loc = [p \in Pthread |-> IF p \in Target THEN "run" ELSE "none"]
  /\ ret = [p \in Pthread |-> "run"] /\ henv = [p \in Pthread |-> NIL]
  /\ old = [p \in Pthread |-> 0] /\ entry = [c \in Call |-> 0]
  /\ pendI = [p \in Pthread |-> 0] /\ pendR = [p \in Pthread |-> 0]
  /\ ran = [c \in Call |-> 0] /\ races = {}

(***************************************************************************)
(* The caller: interrupt_thread_internal.                                  *)
(***************************************************************************)
Finish(c, result) ==
  /\ cpc' = [cpc EXCEPT ![c] = "end"]
  /\ outcome' = [outcome EXCEPT ![c] = result]

(* The known races, each recorded when it happens: an answer that comes    *)
(* after the caller stopped waiting for it (late), a resume signal that    *)
(* comes before sigsuspend (lost), a resume taken by another pthread of    *)
(* the same thread (stolen), an attempt that fails after it has left the   *)
(* function to a sleeper (left); and one failure: the interrupt pthread    *)
(* cannot be created after the push (uncreated).                           *)
Races == {"late", "lost", "stolen", "left", "uncreated"}

Race(happened, kind) == races' = IF happened THEN races \cup {kind} ELSE races

(* The first test, outside the loop, is an error on a dead thread;         *)
(* mkcl_interrupt_forcefully is assigned without the mutex.                *)
InterruptThread(c, t, f) ==
  /\ cpc[c] = "idle"
  /\ target' = [target EXCEPT ![c] = t]
  /\ IF done[t]
       THEN Finish(c, "dead") /\ UNCHANGED forcefully
       ELSE /\ forcefully' = f
            /\ cpc' = [cpc EXCEPT ![c] = "retry"] /\ UNCHANGED outcome
  /\ UNCHANGED <<lock, ienv, refused, sem, tries, thread, pthread, ran, races>>

Retry(c) ==
  /\ cpc[c] = "retry"
  /\ IF done[target[c]]
       THEN Finish(c, "dead")
       ELSE cpc' = [cpc EXCEPT ![c] = "lock"] /\ UNCHANGED outcome
  /\ UNCHANGED <<shared, target, tries, thread, pthread, ran, races>>

LockCall(c) ==
  LET t == target[c] IN
  /\ cpc[c] = "lock" /\ lock = NIL
  /\ lock' = <<c, "caller">>
  /\ IF Len(stack[t]) < MaxInterrupts
       THEN /\ ienv' = t /\ refused' = FALSE
            /\ cpc' = [cpc EXCEPT ![c] = "select"] /\ UNCHANGED tries
       ELSE /\ tries' = [tries EXCEPT ![c] = @ + 1]
            /\ cpc' = [cpc EXCEPT ![c] = "unlock"] /\ UNCHANGED <<ienv, refused>>
  /\ UNCHANGED <<forcefully, sem, target, outcome, thread, pthread,
                 ran, races>>

(* The target sleeps: leave the function in its thread object and wake it. *)
SelectSleeper(c) ==
  LET t == target[c] IN
  /\ cpc[c] = "select" /\ sleepingOn[t]
  /\ sem' = [sem EXCEPT !["sleeper"] = 0]
  /\ slot' = [slot EXCEPT ![t] = c]
  /\ cpc' = [cpc EXCEPT ![c] = "wake"]
  /\ UNCHANGED <<lock, ienv, refused, forcefully, target, tries, outcome,
                 done, ident, stack, resumeRan, disable, sleepingOn, nlj,
                 pthread, ran, races>>

(* mk_mt_try_to_wake_up_thread tests again whether there is a sleeper.     *)
TryToWakeUp(c) ==
  LET t == target[c] IN
  /\ cpc[c] = "wake"
  /\ IF ~done[t] /\ sleepingOn[t]
       THEN /\ cpc' = [cpc EXCEPT ![c] = "waitSleeper"]
            /\ UNCHANGED <<ienv, tries>>
       ELSE /\ cpc' = [cpc EXCEPT ![c] = "unlock"]
            /\ ienv' = NIL /\ tries' = [tries EXCEPT ![c] = @ + 1]
  /\ Race(done[t] \/ ~sleepingOn[t], "left")
  /\ UNCHANGED <<lock, refused, forcefully, sem, target, outcome, thread,
                 pthread, ran>>

SleeperAnswered(c) ==
  /\ cpc[c] = "waitSleeper"
  /\ Take("sleeper")
  /\ ienv' = NIL /\ outcome' = [outcome EXCEPT ![c] = "success"]
  /\ cpc' = [cpc EXCEPT ![c] = "unlock"]
  /\ UNCHANGED <<lock, refused, forcefully, target, tries, thread,
                 pthread, ran, races>>

SleeperTimeout(c) ==
  LET t == target[c] IN
  /\ cpc[c] = "waitSleeper" /\ sem["sleeper"] = 0
  /\ ienv' = NIL /\ cpc' = [cpc EXCEPT ![c] = "unlock"]
  /\ IF done[t] \/ sleepingOn[t]
       THEN /\ outcome' = [outcome EXCEPT
                             ![c] = IF done[t] THEN "dead" ELSE "sleeping"]
            /\ UNCHANGED tries
       ELSE tries' = [tries EXCEPT ![c] = @ + 1] /\ UNCHANGED outcome
  /\ Race(TRUE, "left")
  /\ UNCHANGED <<lock, refused, forcefully, sem, target, thread, pthread, ran>>

(* pthread_kill; ESRCH when the pthread is no more.                        *)
SelectRunning(c) ==
  LET t == target[c]
      p == ident[t]
  IN
  /\ cpc[c] = "select" /\ ~sleepingOn[t]
  /\ IF loc[p] = "gone"
       THEN /\ ienv' = NIL /\ outcome' = [outcome EXCEPT ![c] = "dead"]
            /\ cpc' = [cpc EXCEPT ![c] = "unlock"] /\ UNCHANGED pendI
       ELSE /\ pendI' = [pendI EXCEPT ![p] = @ + 1]
            /\ cpc' = [cpc EXCEPT ![c] = "waitSuspended"]
            /\ UNCHANGED <<ienv, outcome>>
  /\ UNCHANGED <<lock, refused, forcefully, sem, target, tries, thread,
                 loc, ret, henv, old, entry, pendR, ran, races>>

(* Mutant: the interrupted env is not cleared.                           *)
Answered_KeepsEnv(c) ==
  /\ cpc[c] = "waitSuspended"
  /\ Take("suspended")
  /\ cpc' = [cpc EXCEPT ![c] = "waited"]
  /\ UNCHANGED <<lock, ienv, refused, forcefully, target, tries, outcome,
                 thread, pthread, ran, races>>

Answered(c) ==
  /\ cpc[c] = "waitSuspended"
  /\ Take("suspended")
  /\ ienv' = NIL /\ cpc' = [cpc EXCEPT ![c] = "waited"]
  /\ UNCHANGED <<lock, refused, forcefully, target, tries, outcome,
                 thread, pthread, ran, races>>

(* 10 ms without an answer.  It may still come, unless the pthread ended   *)
(* with the signal pending.                                                *)
AnswerTimeout(c) ==
  /\ cpc[c] = "waitSuspended" /\ sem["suspended"] = 0
  /\ refused' = TRUE /\ ienv' = NIL
  /\ cpc' = [cpc EXCEPT ![c] = "waited"]
  /\ Race(loc[ident[target[c]]] # "gone", "late")
  /\ UNCHANGED <<lock, forcefully, sem, target, tries, outcome, thread,
                 pthread, ran>>

Refused(c) ==
  /\ cpc[c] = "waited" /\ refused
  /\ tries' = [tries EXCEPT ![c] = @ + 1]
  /\ cpc' = [cpc EXCEPT ![c] = "unlock"]
  /\ UNCHANGED <<shared, target, outcome, thread, pthread, ran, races>>

(* Push the stopped pthread and create the interrupt pthread.              *)
Push(c) ==
  LET t == target[c] IN
  /\ cpc[c] = "waited" /\ ~refused
  /\ stack' = [stack EXCEPT
                 ![t] = Append(@, [ident |-> ident[t], disable |-> disable[t]])]
  /\ slot' = [slot EXCEPT ![t] = c]
  /\ disable' = [disable EXCEPT ![t] = 2]
  /\ ident' = [ident EXCEPT ![t] = c] /\ loc' = [loc EXCEPT ![c] = "born"]
  /\ cpc' = [cpc EXCEPT ![c] = "created"]
  /\ UNCHANGED <<shared, target, tries, outcome, done, resumeRan,
                 sleepingOn, nlj, ret, henv, old, entry, pendI, pendR, ran, races>>

(* create_interrupt_thread fails after the push (a stack size that is not  *)
(* accepted, no resources for a pthread): its error unwinds the call, which*)
(* unlocks, and nothing takes the entry off or resumes the pthread that was*)
(* stopped.  (pthread_create leaves ident undefined; here it stays.)       *)
CreateFails(c) ==
  LET t == target[c] IN
  /\ cpc[c] = "waited" /\ ~refused
  /\ stack' = [stack EXCEPT
                 ![t] = Append(@, [ident |-> ident[t], disable |-> disable[t]])]
  /\ slot' = [slot EXCEPT ![t] = c]
  /\ disable' = [disable EXCEPT ![t] = 2]
  /\ outcome' = [outcome EXCEPT ![c] = "error"]
  /\ cpc' = [cpc EXCEPT ![c] = "unlock"]
  /\ Race(TRUE, "uncreated")
  /\ UNCHANGED <<shared, target, tries, done, ident, resumeRan, sleepingOn, nlj,
                 pthread, ran>>

(* Mutant: the success is not recorded, the call is tried again.         *)
PostRun_NotTold(c) ==
  /\ cpc[c] = "created"
  /\ Post("run")
  /\ cpc' = [cpc EXCEPT ![c] = "unlock"]
  /\ UNCHANGED <<lock, ienv, refused, forcefully, target, tries, outcome, thread,
                 pthread, ran, races>>

PostRun(c) ==
  /\ cpc[c] = "created"
  /\ Post("run")
  /\ outcome' = [outcome EXCEPT ![c] = "success"]
  /\ cpc' = [cpc EXCEPT ![c] = "unlock"]
  /\ UNCHANGED <<lock, ienv, refused, forcefully, target, tries, thread,
                 pthread, ran, races>>

Exhausted(c) == tries[c] >= MaxRetries

(* Mutant: an attempt that failed does not unlock.                       *)
UnlockCall_OnSuccess(c) ==
  /\ cpc[c] = "unlock"
  /\ lock' = IF outcome[c] = "success" THEN NIL ELSE lock
  /\ \/ /\ outcome[c] # "none" /\ cpc' = [cpc EXCEPT ![c] = "end"]
        /\ UNCHANGED outcome
     \/ outcome[c] = "none" /\ Exhausted(c) /\ Finish(c, "refused")
     \/ /\ outcome[c] = "none" /\ ~Exhausted(c)
        /\ cpc' = [cpc EXCEPT ![c] = "retry"] /\ UNCHANGED outcome
  /\ UNCHANGED <<ienv, refused, forcefully, sem, target, tries, thread,
                 pthread, ran, races>>

UnlockCall(c) ==
  /\ cpc[c] = "unlock"
  /\ lock' = NIL
  /\ \/ /\ outcome[c] # "none" /\ cpc' = [cpc EXCEPT ![c] = "end"]
        /\ UNCHANGED outcome
     \/ outcome[c] = "none" /\ Exhausted(c) /\ Finish(c, "refused")
     \/ /\ outcome[c] = "none" /\ ~Exhausted(c)
        /\ cpc' = [cpc EXCEPT ![c] = "retry"] /\ UNCHANGED outcome
  /\ UNCHANGED <<ienv, refused, forcefully, sem, target, tries, thread,
                 pthread, ran, races>>

(***************************************************************************)
(* The pthreads of a target: handlers of the interrupt and resume signals. *)
(***************************************************************************)
Goto(p, l) == loc' = [loc EXCEPT ![p] = l]

(* Leave the interrupt handler, its variables with it.                     *)
Leave(p, l) ==
  /\ Goto(p, l)
  /\ ret' = [ret EXCEPT ![p] = "run"] /\ henv' = [henv EXCEPT ![p] = NIL]

(* The handlers run with the interrupt signal blocked.                     *)
EnterHandler(p) ==
  /\ pendI[p] > 0 /\ loc[p] \notin HandlerLoc \cup {"none", "gone"}
  /\ pendI' = [pendI EXCEPT ![p] = @ - 1]
  /\ ret' = [ret EXCEPT ![p] = loc[p]] /\ henv' = [henv EXCEPT ![p] = ienv]
  /\ Goto(p, "entered")
  /\ UNCHANGED <<shared, calls, thread, old, entry, pendR, ran, races>>

MustRefuse(e) ==
  e # NIL => \/ done[e]
             \/ disable[e] > 1
             \/ disable[e] = 1 /\ ~forcefully

Refuse(p) ==
  /\ loc[p] = "entered" /\ MustRefuse(henv[p])
  /\ refused' = TRUE
  /\ Goto(p, "refusing")
  /\ UNCHANGED <<lock, ienv, forcefully, sem, calls, thread, ret, henv, old,
                 entry, pendI, pendR, ran, races>>

RefusePost(p) ==
  /\ loc[p] = "refusing"
  /\ Post("suspended")
  /\ Leave(p, ret[p])
  /\ UNCHANGED <<lock, ienv, refused, forcefully, calls, thread, old, entry,
                 pendI, pendR, ran, races>>

Accept(p) ==
  /\ loc[p] = "entered" /\ ~MustRefuse(henv[p])
  /\ Post("suspended")
  /\ Goto(p, "suspending")
  /\ UNCHANGED <<lock, ienv, refused, forcefully, calls, thread, ret, henv, old,
                 entry, pendI, pendR, ran, races>>

Sigsuspend(p) ==
  /\ loc[p] = "suspending"
  /\ Goto(p, "suspended")
  /\ UNCHANGED <<shared, calls, thread, ret, henv, old, entry, pendI, pendR,
                 ran, races>>

(* The resume signal is blocked nowhere; its handler uses the shared env.  *)
ResumeHandler(p) ==
  /\ pendR[p] > 0 /\ loc[p] # "gone" /\ ienv # NIL
  /\ pendR' = [pendR EXCEPT ![p] = @ - 1]
  /\ resumeRan' = [resumeRan EXCEPT ![ienv] = TRUE]
  /\ IF loc[p] = "suspended" THEN Goto(p, "waking") ELSE UNCHANGED loc
  /\ Race(loc[p] \notin {"suspended", "waking"}, "lost")
  /\ UNCHANGED <<shared, calls, done, ident, slot, stack, disable, sleepingOn,
                 nlj, ret, henv, old, entry, pendI, ran>>

(* The collector stops the world: its signal ends sigsuspend as well.      *)
GcSignal(p) ==
  /\ loc[p] = "suspended"
  /\ Goto(p, "waking")
  /\ UNCHANGED <<shared, calls, thread, ret, henv, old, entry, pendI, pendR,
                 ran, races>>

(* Mutant: any signal ends the wait of the handler.                      *)
MayWake_AnySignal(e) == TRUE

MayWake(e) == resumeRan[e]

Waking(p) ==
  LET e == henv[p] IN
  /\ loc[p] = "waking"
  /\ IF MayWake(e)
       THEN /\ resumeRan' = [resumeRan EXCEPT ![e] = FALSE]
            /\ Post("resumed") /\ Goto(p, "returning")
       ELSE Goto(p, "suspending") /\ UNCHANGED <<resumeRan, sem>>
  /\ Race(resumeRan[e] /\ p # ident[e], "stolen")
  /\ UNCHANGED <<lock, ienv, refused, forcefully, calls, done, ident, slot,
                 stack, disable, sleepingOn, nlj, ret, henv, old, entry, pendI,
                 pendR, ran>>

(* A non-local exit of the function goes on in the pthread it interrupted. *)
HandlerReturn(p) ==
  LET e == henv[p] IN
  /\ loc[p] = "returning"
  /\ IF nlj[e]
       THEN /\ sleepingOn' = [sleepingOn EXCEPT ![e] = FALSE]
            /\ disable' = [disable EXCEPT ![e] = 1]
            /\ Leave(p, "unwinding") /\ old' = [old EXCEPT ![p] = 0]
       ELSE Leave(p, ret[p]) /\ UNCHANGED <<sleepingOn, disable, old>>
  /\ UNCHANGED <<shared, calls, done, ident, slot, stack, resumeRan, nlj, entry,
                 pendI, pendR, ran, races>>

(* The frame that catches the exit was set up with interrupts enabled.     *)
Land(p) ==
  LET t == ThreadOf(p) IN
  /\ loc[p] = "unwinding"
  /\ nlj' = [nlj EXCEPT ![t] = FALSE] /\ disable' = [disable EXCEPT ![t] = 0]
  /\ Goto(p, "run")
  /\ UNCHANGED <<shared, calls, done, ident, slot, stack, resumeRan, sleepingOn,
                 ret, henv, old, entry, pendI, pendR, ran, races>>

(***************************************************************************)
(* The Lisp code of a target, on its own or on an interrupt pthread.       *)
(***************************************************************************)
NoIntr(p) ==
  LET t == ThreadOf(p) IN
  /\ loc[p] = "run"
  /\ old' = [old EXCEPT ![p] = disable[t]]
  /\ disable' = [disable EXCEPT ![t] = 1]
  /\ Goto(p, "nointr")
  /\ UNCHANGED <<shared, calls, done, ident, slot, stack, resumeRan, sleepingOn,
                 nlj, ret, henv, entry, pendI, pendR, ran, races>>

EndNoIntr(p) ==
  /\ loc[p] = "nointr"
  /\ disable' = [disable EXCEPT ![ThreadOf(p)] = old[p]]
  /\ old' = [old EXCEPT ![p] = 0]
  /\ Goto(p, "run")
  /\ UNCHANGED <<shared, calls, done, ident, slot, stack, resumeRan, sleepingOn,
                 nlj, ret, henv, entry, pendI, pendR, ran, races>>

Zzz(p) ==
  LET t == ThreadOf(p) IN
  /\ loc[p] = "run" /\ t \in Sleepers
  /\ old' = [old EXCEPT ![p] = disable[t]]
  /\ disable' = [disable EXCEPT ![t] = 1]
  /\ sleepingOn' = [sleepingOn EXCEPT ![t] = TRUE]
  /\ Goto(p, "zzz")
  /\ UNCHANGED <<shared, calls, done, ident, slot, stack, resumeRan, nlj, ret,
                 henv, entry, pendI, pendR, ran, races>>

(* mk_mt_test_for_thread_shutdown, in MKCL_Zzz and after each use of it.   *)
(* Its call of the function is one step here.                              *)
TestForThreadShutdown(p) ==
  LET t == ThreadOf(p) IN
  /\ loc[p] \in {"zzz", "woke"}
  /\ IF slot[t] # NIL
       THEN slot' = [slot EXCEPT ![t] = NIL] /\ Post("sleeper") /\ Count(slot[t])
       ELSE UNCHANGED <<slot, sem, ran>>
  /\ Goto(p, IF loc[p] = "zzz" THEN "asleep" ELSE "run")
  /\ UNCHANGED <<lock, ienv, refused, forcefully, calls, done, ident, stack,
                 resumeRan, disable, sleepingOn, nlj, ret, henv, old, entry,
                 pendI, pendR, races>>

(* The system call returns, woken up or not.                               *)
EndZzz(p) ==
  LET t == ThreadOf(p) IN
  /\ loc[p] = "asleep"
  /\ sleepingOn' = [sleepingOn EXCEPT ![t] = FALSE]
  /\ disable' = [disable EXCEPT ![t] = old[p]]
  /\ old' = [old EXCEPT ![p] = 0]
  /\ Goto(p, "woke")
  /\ UNCHANGED <<shared, calls, done, ident, slot, stack, resumeRan, nlj, ret,
                 henv, entry, pendI, pendR, ran, races>>

ThreadDone(t) ==
  /\ loc[t] = "run"
  /\ done' = [done EXCEPT ![t] = TRUE]
  /\ Goto(t, "done")
  /\ UNCHANGED <<shared, calls, ident, slot, stack, resumeRan, disable,
                 sleepingOn, nlj, ret, henv, old, entry, pendI, pendR, ran, races>>

PthreadEnds(t) ==
  /\ loc[t] = "done"
  /\ Goto(t, "gone")
  /\ UNCHANGED <<shared, calls, thread, ret, henv, old, entry, pendI, pendR,
                 ran, races>>

(***************************************************************************)
(* The interrupt pthread: interrupt_thread_entry_point.                    *)
(***************************************************************************)

(* It waits 5 ms to be told to go and goes in any case; the CATCH_ALL      *)
(* saves the interrupt status, then interrupts are enabled.                *)
Begin(c) ==
  LET t == target[c] IN
  /\ loc[c] = "born"
  /\ \/ Take("run")
     \/ sem["run"] = 0 /\ UNCHANGED sem
  /\ entry' = [entry EXCEPT ![c] = disable[t]]
  /\ disable' = [disable EXCEPT ![t] = 0]
  /\ Goto(c, "enabled")
  /\ UNCHANGED <<lock, ienv, refused, forcefully, calls, done, ident, slot,
                 stack, resumeRan, sleepingOn, nlj, ret, henv, old, pendI,
                 pendR, ran, races>>

(* It calls what thread.interrupt holds now.                               *)
CallFunction(c) ==
  LET t == target[c] IN
  /\ loc[c] = "enabled"
  /\ IF slot[t] # NIL THEN Count(slot[t]) ELSE UNCHANGED ran
  /\ Goto(c, "run")
  /\ UNCHANGED <<shared, calls, thread, ret, henv, old, entry, pendI, pendR,
                 races>>

(* The function returns, or leaves by a non-local exit to a frame of the   *)
(* interrupted pthread.                                                    *)
FunctionEnds(c, exit) ==
  LET t == target[c] IN
  /\ loc[c] = "run"
  /\ nlj' = [nlj EXCEPT ![t] = exit]
  /\ disable' = [disable EXCEPT ![t] = entry[c]]
  /\ entry' = [entry EXCEPT ![c] = 0]
  /\ Goto(c, "popping")
  /\ UNCHANGED <<shared, calls, done, ident, slot, stack, resumeRan, sleepingOn,
                 ret, henv, old, pendI, pendR, ran, races>>

(* Mutant: the interrupt status is not restored.                         *)
StatusToRestore_Kept(t, saved) == disable[t]

StatusToRestore(t, saved) == IF nlj[t] THEN disable[t] ELSE saved

(* Mutant: the stack is read but not popped.                             *)
Rest_All(entries) == entries

Rest(entries) == SubSeq(entries, 1, Len(entries) - 1)

(* Mutant: the resume signal is not sent.                                *)
SendResume_Not(p) == pendR' = pendR

SendResume(p) == pendR' = [pendR EXCEPT ![p] = @ + 1]

Pop(c) ==
  LET t == target[c]
      top == stack[t][Len(stack[t])]
  IN
  /\ loc[c] = "popping" /\ lock = NIL
  /\ lock' = <<c, "function">>
  /\ ident' = [ident EXCEPT ![t] = top.ident]
  /\ disable' = [disable EXCEPT ![t] = StatusToRestore(t, top.disable)]
  /\ stack' = [stack EXCEPT ![t] = Rest(@)]
  /\ resumeRan' = [resumeRan EXCEPT ![t] = FALSE]
  /\ IF loc[top.ident] = "gone"
       THEN Goto(c, "popped") /\ ienv' = NIL /\ UNCHANGED pendR
       ELSE /\ ienv' = t /\ SendResume(top.ident)
            /\ Goto(c, "waitResumed")
  /\ UNCHANGED <<refused, forcefully, sem, calls, done, slot, sleepingOn, nlj,
                 ret, henv, old, entry, pendI, ran, races>>

(* Mutant: it does not wait for the resumed thread.                      *)
Resumed_NoWait(c) ==
  /\ loc[c] = "waitResumed"
  /\ UNCHANGED sem
  /\ ienv' = NIL
  /\ Goto(c, "popped")
  /\ UNCHANGED <<lock, refused, forcefully, calls, thread, ret, henv, old, entry,
                 pendI, pendR, ran, races>>

Resumed(c) ==
  /\ loc[c] = "waitResumed"
  /\ Take("resumed")
  /\ ienv' = NIL
  /\ Goto(c, "popped")
  /\ UNCHANGED <<lock, refused, forcefully, calls, thread, ret, henv, old, entry,
                 pendI, pendR, ran, races>>

UnlockPop(c) ==
  /\ loc[c] = "popped"
  /\ lock' = NIL
  /\ Goto(c, "gone")
  /\ UNCHANGED <<ienv, refused, forcefully, sem, calls, thread, ret, henv, old,
                 entry, pendI, pendR, ran, races>>

Caller(c) ==
  \/ Retry(c) \/ LockCall(c) \/ SelectSleeper(c) \/ TryToWakeUp(c)
  \/ SleeperAnswered(c) \/ SleeperTimeout(c) \/ SelectRunning(c) \/ Answered(c)
  \/ AnswerTimeout(c) \/ Refused(c) \/ Push(c) \/ CreateFails(c)
  \/ PostRun(c) \/ UnlockCall(c)

Handler(p) ==
  \/ EnterHandler(p) \/ Refuse(p) \/ RefusePost(p) \/ Accept(p) \/ Sigsuspend(p)
  \/ Waking(p) \/ HandlerReturn(p)

Lisp(p) ==
  \/ Land(p) \/ EndNoIntr(p) \/ TestForThreadShutdown(p) \/ EndZzz(p)

Function(c) ==
  \/ Begin(c) \/ CallFunction(c)
  \/ \E exit \in BOOLEAN : FunctionEnds(c, exit)
  \/ Pop(c) \/ Resumed(c) \/ UnlockPop(c)

Next ==
  \/ \E c \in Call, t \in Target, f \in BOOLEAN : InterruptThread(c, t, f)
  \/ \E c \in Call : Caller(c) \/ Function(c)
  \/ \E p \in Pthread : \/ Handler(p) \/ ResumeHandler(p) \/ GcSignal(p)
                        \/ Lisp(p) \/ NoIntr(p) \/ Zzz(p)
  \/ \E t \in Target : ThreadDone(t) \/ PthreadEnds(t)

Spec == Init /\ [][Next]_vars

(***************************************************************************)
(* Fairness: the operating system runs every pthread and delivers signals, *)
(* timed waits end, functions return, critical sections and sleeps end.    *)
(* Nothing is assumed of the collector, nor of what a target does next.    *)
(***************************************************************************)
FairSpec ==
  /\ Spec
  /\ \A c \in Call : /\ WF_vars(Caller(c)) /\ WF_vars(Function(c))
                      /\ SF_vars(\E exit \in BOOLEAN : FunctionEnds(c, exit))
  /\ \A p \in Pthread : /\ WF_vars(Handler(p)) /\ WF_vars(ResumeHandler(p))
                         /\ WF_vars(Lisp(p))

(***************************************************************************)
(* Properties.                                                             *)
(***************************************************************************)
(* The shared variables, the thread objects and the pthreads keep the      *)
(* values interrupt_thread_internal and the handlers give them.            *)
TypeOK ==
  /\ lock \in {NIL} \cup (Call \X {"caller", "function"})
  /\ ienv \in Target \cup {NIL}
  /\ refused \in BOOLEAN /\ forcefully \in BOOLEAN
  /\ sem \in [Semaphores -> Nat]
  /\ cpc \in [Call -> CallLoc]
  /\ target \in [Call -> Target \cup {NIL}]
  /\ tries \in [Call -> 0 .. MaxRetries]
  /\ outcome \in [Call -> {"none", "success", "dead", "sleeping", "refused",
                           "error"}]
  /\ done \in [Target -> BOOLEAN] /\ ident \in [Target -> Pthread]
  /\ slot \in [Target -> Call \cup {NIL}]
  /\ stack \in [Target -> Seq([ident : Pthread, disable : 0 .. 2])]
  /\ resumeRan \in [Target -> BOOLEAN] /\ disable \in [Target -> 0 .. 2]
  /\ sleepingOn \in [Target -> BOOLEAN] /\ nlj \in [Target -> BOOLEAN]
  /\ loc \in [Pthread -> Locations] /\ ret \in [Pthread -> Locations]
  /\ henv \in [Pthread -> Target \cup {NIL}]
  /\ old \in [Pthread -> 0 .. 2] /\ entry \in [Call -> 0 .. 2]
  /\ pendI \in [Pthread -> Nat] /\ pendR \in [Pthread -> Nat]
  /\ ran \in [Call -> 0 .. 2] /\ races \subseteq Races

(* Where p is in its own code, the interrupt handler left aside.           *)
CodeLoc(p) == IF loc[p] \in HandlerLoc THEN ret[p] ELSE loc[p]

Stopped(p) == loc[p] \in {"suspending", "suspended", "waking"}

Executing(p) == loc[p] \in LispLoc \cup {"enabled", "unwinding"}

(* No race has happened that leaves a signal or a token behind, and no     *)
(* interrupt pthread could not be created.  What follows is not claimed to *)
(* be right, and not explored.                                             *)
InStep == races \subseteq {"left"}

(* The function of an interrupt runs only while the pthread it interrupts  *)
(* is stopped in its handler: two pthreads that share an env never execute *)
(* Lisp code at the same time.  It takes the answer on suspended, the push *)
(* and the resume to be matched by the handlers of interrupt_thread_       *)
(* internal, interrupt_thread_entry_point and mkcl_interrupt_signal_       *)
(* handler, for nested interrupts too.                                     *)
OneRunner ==
  InStep => \A p, q \in Pthread :
              Executing(p) /\ Executing(q) /\ ThreadOf(p) = ThreadOf(q) => p = q

(* An interrupt is invisible to the code it interrupts: after the push,    *)
(* the function and the pop, or a non-local exit, env.disable_interrupts   *)
(* is again what the code that continues has set.                          *)
StatusRestored ==
  InStep => \A p \in Pthread :
              /\ loc[p] \in {"run", "enabled", "woke"}
                   => disable[ThreadOf(p)] = 0
              /\ loc[p] \in {"nointr", "zzz", "asleep"}
                   => disable[ThreadOf(p)] = 1

(* No interrupt leaves anything in the shared state for the next one: when *)
(* mkcl_interrupt_thread_lock is free there is no interrupted env, no      *)
(* token of suspended or resumed and no signal on its way.                 *)
NothingLeftOver ==
  InStep /\ lock = NIL =>
    /\ ienv = NIL /\ sem["suspended"] = 0 /\ sem["resumed"] = 0
    /\ \A p \in Pthread : loc[p] # "gone" => pendI[p] = 0 /\ pendR[p] = 0

(* mkcl_resume_signal_handler uses mkcl_interrupted_thread_env unchecked:  *)
(* it is set for as long as a resume signal is on its way.                 *)
ResumeHasEnv ==
  InStep => \A p \in Pthread : pendR[p] > 0 => ienv # NIL

(* thread.interrupt_count is the number of interrupt pthreads of the       *)
(* thread that have not popped the stack: each finds its own entry.  (Not  *)
(* after create_interrupt_thread has failed: the entry pushed for it stays.)*)
StackIsLiveFunctions ==
  \A t \in Target :
    Len(stack[t]) = Cardinality({c \in Call :
      /\ target[c] = t
      /\ CodeLoc(c) \notin {"none", "waitResumed", "popped", "gone"}})

(* A call that signals an error has not had its function run, unless the   *)
(* function was left to a sleeper by an attempt that failed.               *)
RefusalIsTrue ==
  races = {} => \A c \in Call :
    outcome[c] \in {"refused", "dead", "sleeping"} => ran[c] = 0

(* Interrupts nest, and the code they interrupt stays where it is and goes *)
(* on from there: thread.interrupted_threads and thread.thread are the     *)
(* chain of InterruptStack, whatever the signals, the semaphores and the   *)
(* handlers do in between.                                                 *)
Chain(t) ==
  [k \in 1 .. Len(stack[t]) + 1 |->
     IF k <= Len(stack[t]) THEN stack[t][k].ident ELSE ident[t]]

Shown(l) == CASE l = "popping" -> "over"
              [] l \in {"waitResumed", "popped"} -> "gone"
              [] OTHER -> l

Chains == [t \in Target |-> Chain(t)]

Codes == [p \in Pthread |-> Shown(CodeLoc(p))]

Promise ==
  INSTANCE InterruptStack WITH
    Place <- LispLoc \cup {"enabled", "unwinding"},
    chain <- Chains, code <- Codes, exiting <- nlj, broken <- ~InStep

InterruptsNest == Promise!Spec

(* mk_mt_test_for_thread_shutdown empties thread.interrupt because "We do  *)
(* not want to handle the same interrupt twice."                           *)
HandledOnce == \A c \in Call : ran[c] <= 1

(* A pthread stopped by an interrupt is resumed, unless one of the things  *)
(* that InStep rules out has happened.  An answer that comes late, a resume*)
(* lost or stolen and a failure to create the interrupt pthread each leave *)
(* a pthread in sigsuspend; the property says that nothing else does.      *)
StoppedResumes ==
  \A p \in Pthread : Stopped(p) ~> (~Stopped(p) \/ ~InStep)

(* interrupt-thread returns: nobody keeps mkcl_interrupt_thread_lock for   *)
(* ever and the retries end.                                               *)
CallReturns ==
  \A c \in Call : cpc[c] # "idle" ~> (cpc[c] = "end" \/ ~InStep)
==============================================================================
