----------------------------- MODULE ThreadLife -----------------------------
(***************************************************************************)
(* The life of MT:THREAD objects (src/src/c/threads.c): preset, enable, the *)
(* entry point, exit, detach, join and the request for a shutdown.  A      *)
(* thread object may be used again after a join, so one object may have    *)
(* several pthreads over time; they are numbered in order of creation.     *)
(* The operations are called by other Lisp threads, the callers, and none  *)
(* of them holds a lock over a test and the update that depends on it.     *)
(***************************************************************************)
EXTENDS Naturals

CONSTANTS
  Obj,        \* thread objects, all made by make-thread
  Caller,     \* Lisp threads that operate on them
  Fun,        \* functions to run; each returns itself as its value
  Polling,    \* those that sleep, wait or do input and output now and then
  MaxPthread, \* bound: pthreads created
  Careful,    \* TRUE: no preset or enable of an object from the enable of
              \* it to the registration of the pthread it made
  Reuse,      \* TRUE: an object may be preset again after a join
  NIL, OBJNULL, Terminated, Exited

Value == Fun \union {Terminated, Exited}

ASSUME LifeAssumption ==
  /\ MaxPthread \in Nat
  /\ Careful \in BOOLEAN /\ Reuse \in BOOLEAN
  /\ NIL \notin Obj \union Fun
  /\ OBJNULL \notin Value

ASSUME ValueAssumption == Fun \intersect {Terminated, Exited} = {}

ASSUME PollingAssumption == Polling \subseteq Fun

Pid == 1 .. MaxPthread

VARIABLES
  status,    \* thread.status
  detached,  \* thread.detached
  function,  \* thread.function
  result,    \* thread.result_value
  ident,     \* thread.thread: pthread number, or 0
  request,   \* thread.shutdown_requested
  locked,    \* thread.running_lock is held by the enabling thread
  threads,   \* mkcl_core.threads
  pt,        \* the pthreads: the object they run for and where they are
  outcome,   \* ghost: the value the code run by each pthread ended with
  op         \* the operation each caller is in, and on what object

vars == <<status, detached, function, result, ident, request, locked, threads,
          pt, outcome, op>>

NoOp == [at |-> "none", on |-> NIL, with |-> NIL]
NoPthread == [of |-> NIL, at |-> "none"]

Last == {k \in Pid : pt[k].at # "none"}
NextPid(k) == k \in Pid \ Last /\ \A j \in Pid : j < k => j \in Last

(* mkcl_make_thread                                                        *)
Init ==
  /\ status = [o \in Obj |-> "initialized"]
  /\ detached = [o \in Obj |-> FALSE]
  /\ function = [o \in Obj |-> NIL]
  /\ result = [o \in Obj |-> OBJNULL]
  /\ ident = [o \in Obj |-> 0]
  /\ request = [o \in Obj |-> FALSE]
  /\ locked = [o \in Obj |-> FALSE]
  /\ threads = {}
  /\ pt = [k \in Pid |-> NoPthread]
  /\ outcome = [k \in Pid |-> OBJNULL]
  /\ op = [c \in Caller |-> NoOp]

Busy(o, kinds) == \E c \in Caller : op[c].on = o /\ op[c].at \in kinds

(* An enable of o is under way: the status is still the one it tested.     *)
Enabling(o) ==
  \/ Busy(o, {"preset", "enable", "starting"})
  \/ \E k \in Pid : pt[k].of = o /\ pt[k].at \in {"created", "started"}

Goto(c, place) == op' = [op EXCEPT ![c].at = place]
Begin(c, place, o, x) == op' = [op EXCEPT ![c] = [at |-> place, on |-> o, with |-> x]]
Return(c) == op' = [op EXCEPT ![c] = NoOp]
Move(k, place) == pt' = [pt EXCEPT ![k].at = place]
----------------------------------------------------------------------------
(***************************************************************************)
(* thread-preset: the test, then the assignments.                          *)
(***************************************************************************)
Preset(c, o, f) ==
  /\ op[c].at = "none"
  /\ ~detached[o]
  /\ status[o] \in {"initialized", "set"}
  /\ Careful => ~Enabling(o)
  /\ Reuse \/ \A k \in Pid : pt[k].of # o
  /\ Begin(c, "preset", o, f)
  /\ UNCHANGED <<status, detached, function, result, ident, request, locked,
                 threads, pt, outcome>>

PresetAssign(c) ==
  /\ op[c].at = "preset"
  /\ function' = [function EXCEPT ![op[c].on] = op[c].with]
  /\ status' = [status EXCEPT ![op[c].on] = "set"]
  /\ Return(c)
  /\ UNCHANGED <<detached, result, ident, request, locked, threads, pt, outcome>>

(***************************************************************************)
(* thread-enable.  The new pthread waits for running_lock until its ident  *)
(* has been stored; status stays "set" until it registers itself.  While   *)
(* the system shuts down the operation returns nil and changes nothing.    *)
(***************************************************************************)
(* Mutant: the status is not tested.                                       *)
Enable_NoStatusTest(c, o) ==
  /\ op[c].at = "none"
  /\ ~detached[o]
  /\ Careful => ~Enabling(o)
  /\ Begin(c, "enable", o, NIL)
  /\ UNCHANGED <<status, detached, function, result, ident, request, locked,
                 threads, pt, outcome>>

Enable(c, o) ==
  /\ op[c].at = "none"
  /\ status[o] = "set"
  /\ ~detached[o]
  /\ Careful => ~Enabling(o)
  /\ Begin(c, "enable", o, NIL)
  /\ UNCHANGED <<status, detached, function, result, ident, request, locked,
                 threads, pt, outcome>>

(* From the reset of shutdown_requested to the return of pthread_create.   *)
EnableCreate(c, k) ==
  LET o == op[c].on IN
  /\ op[c].at = "enable"
  /\ NextPid(k)
  /\ request' = [request EXCEPT ![o] = FALSE]
  /\ locked' = [locked EXCEPT ![o] = TRUE]
  /\ ident' = [ident EXCEPT ![o] = k]
  /\ pt' = [pt EXCEPT ![k] = [of |-> o, at |-> "created"]]
  /\ Goto(c, "starting")
  /\ UNCHANGED <<status, detached, function, result, threads, outcome>>

(* pthread_create fails: an error, the status stays "set".                 *)
EnableFail(c) ==
  /\ op[c].at = "enable"
  /\ request' = [request EXCEPT ![op[c].on] = FALSE]
  /\ ident' = [ident EXCEPT ![op[c].on] = 0]
  /\ Return(c)
  /\ UNCHANGED <<status, detached, function, result, locked, threads, pt,
                 outcome>>

EnableUnlock(c) ==
  /\ op[c].at = "starting"
  /\ locked' = [locked EXCEPT ![op[c].on] = FALSE]
  /\ Return(c)
  /\ UNCHANGED <<status, detached, function, result, ident, request, threads,
                 pt, outcome>>
----------------------------------------------------------------------------
(***************************************************************************)
(* thread_entry_point                                                      *)
(***************************************************************************)
Start(k) ==
  /\ pt[k].at = "created"
  /\ ~locked[pt[k].of]
  /\ Move(k, "started")
  /\ UNCHANGED <<status, detached, function, result, ident, request, locked,
                 threads, outcome, op>>

(* mkcl_register_thread_as_active: the status, then the list.              *)
RegisterActive(k) ==
  /\ pt[k].at = "started"
  /\ status' = [status EXCEPT ![pt[k].of] = "active"]
  /\ Move(k, "active")
  /\ UNCHANGED <<detached, function, result, ident, request, locked, threads,
                 outcome, op>>

RegisterList(k) ==
  /\ pt[k].at = "active"
  /\ threads' = threads \union {pt[k].of}
  /\ Move(k, "running")
  /\ UNCHANGED <<status, detached, function, result, ident, request, locked,
                 outcome, op>>

(* The function returns; its value is kept if there is none yet.           *)
FunctionReturns(k) ==
  LET o == pt[k].of IN
  /\ pt[k].at = "running"
  /\ result' = [result EXCEPT ![o] = IF @ = OBJNULL THEN function[o] ELSE @]
  /\ outcome' = [outcome EXCEPT ![k] = function[o]]
  /\ Move(k, "ending")
  /\ UNCHANGED <<status, detached, function, ident, request, locked, threads,
                 op>>

(* Mutant: only the value of the function is ever kept.                    *)
ExitThread_KeepsNothing(k, v) ==
  /\ pt[k].at = "running"
  /\ outcome' = [outcome EXCEPT ![k] = v]
  /\ Move(k, "ending")
  /\ UNCHANGED <<status, detached, function, result, ident, request, locked,
                 threads, op>>

(* exit-thread, abandon-thread: the value replaces any other, the stack is *)
(* unwound to the entry point.                                             *)
ExitThread(k, v) ==
  /\ pt[k].at = "running"
  /\ result' = [result EXCEPT ![pt[k].of] = v]
  /\ outcome' = [outcome EXCEPT ![k] = v]
  /\ Move(k, "ending")
  /\ UNCHANGED <<status, detached, function, ident, request, locked, threads,
                 op>>

(* Mutant: the poll never looks at the request.                            *)
TestForShutdown_Never(k) == FALSE /\ UNCHANGED vars

(* test-for-thread-shutdown, called at every blocking operation.           *)
TestForShutdown(k) ==
  /\ pt[k].at = "running"
  /\ request[pt[k].of]
  /\ ExitThread(k, Terminated)

SetDone(k) ==
  /\ pt[k].at = "ending"
  /\ status' = [status EXCEPT ![pt[k].of] = "done"]
  /\ Move(k, "done")
  /\ UNCHANGED <<detached, function, result, ident, request, locked, threads,
                 outcome, op>>

(* thread_final_cleanup: a detached thread leaves the list by itself.      *)
FinalCleanup(k) ==
  LET o == pt[k].of IN
  /\ pt[k].at = "done"
  /\ threads' = IF detached[o] THEN threads \ {o} ELSE threads
  /\ Move(k, "zombie")
  /\ UNCHANGED <<status, detached, function, result, ident, request, locked,
                 outcome, op>>
----------------------------------------------------------------------------
(***************************************************************************)
(* thread-detach: only the flag is set (pthread_detach is disabled), then  *)
(* the status is looked at again.                                          *)
(***************************************************************************)
Detach(c, o) ==
  /\ op[c].at = "none"
  /\ status[o] = "active"
  /\ ~detached[o]
  /\ ident[o] # 0
  /\ Begin(c, "detach", o, NIL)
  /\ UNCHANGED <<status, detached, function, result, ident, request, locked,
                 threads, pt, outcome>>

DetachSet(c) ==
  /\ op[c].at = "detach"
  /\ detached' = [detached EXCEPT ![op[c].on] = TRUE]
  /\ Goto(c, "detached")
  /\ UNCHANGED <<status, function, result, ident, request, locked, threads, pt,
                 outcome>>

(* Mutant: the status is not looked at again.                              *)
DetachRemove_NoSecondLook(c) ==
  /\ op[c].at = "detached"
  /\ Return(c)
  /\ UNCHANGED <<status, detached, function, result, ident, request, locked,
                 threads, pt, outcome>>

(* Mutant: detaching removes the thread from the list at once.             *)
DetachRemove_AtOnce(c) ==
  /\ op[c].at = "detached"
  /\ threads' = threads \ {op[c].on}
  /\ Return(c)
  /\ UNCHANGED <<status, detached, function, result, ident, request, locked, pt,
                 outcome>>

DetachRemove(c) ==
  LET o == op[c].on IN
  /\ op[c].at = "detached"
  /\ threads' = IF status[o] = "done" THEN threads \ {o} ELSE threads
  /\ Return(c)
  /\ UNCHANGED <<status, detached, function, result, ident, request, locked, pt,
                 outcome>>

(***************************************************************************)
(* thread-join.  One caller at a time joins an object that was enabled     *)
(* (POSIX leaves anything else undefined).                                 *)
(***************************************************************************)
Join(c, o) ==
  /\ op[c].at = "none"
  /\ ident[o] # 0
  /\ ~detached[o]
  /\ ~Busy(o, {"join", "joined"})
  /\ Begin(c, "join", o, ident[o])
  /\ UNCHANGED <<status, detached, function, result, ident, request, locked,
                 threads, pt, outcome>>

JoinDetached(c, o) ==
  /\ op[c].at = "none"
  /\ detached[o]
  /\ threads' = IF status[o] = "done" THEN threads \ {o} ELSE threads
  /\ UNCHANGED <<status, detached, function, result, ident, request, locked, pt,
                 outcome, op>>

(* pthread_join returns                                                    *)
JoinReap(c) ==
  /\ op[c].at = "join"
  /\ pt[op[c].with].at = "zombie"
  /\ Move(op[c].with, "joined")
  /\ Goto(c, "joined")
  /\ UNCHANGED <<status, detached, function, result, ident, request, locked,
                 threads, outcome>>

(* Mutant: the object stays on the list of threads.                        *)
JoinReturn_KeepsListed(c) ==
  LET o == op[c].on IN
  /\ op[c].at = "joined"
  /\ ident' = [ident EXCEPT ![o] = 0]
  /\ status' = [status EXCEPT ![o] = "initialized"]
  /\ Return(c)
  /\ UNCHANGED <<detached, function, result, request, locked, threads, pt,
                 outcome>>

(* The value is result[o]; the object may then be preset again.            *)
JoinReturn(c) ==
  LET o == op[c].on IN
  /\ op[c].at = "joined"
  /\ threads' = threads \ {o}
  /\ ident' = [ident EXCEPT ![o] = 0]
  /\ status' = [status EXCEPT ![o] = "initialized"]
  /\ Return(c)
  /\ UNCHANGED <<detached, function, result, request, locked, pt, outcome>>

(* request-thread-shutdown: refused, with nil, once the thread is done.    *)
RequestShutdown(c, o) ==
  /\ op[c].at = "none"
  /\ status[o] # "done"
  /\ request' = [request EXCEPT ![o] = TRUE]
  /\ UNCHANGED <<status, detached, function, result, ident, locked, threads, pt,
                 outcome, op>>
----------------------------------------------------------------------------
CallerStep(c) ==
  \/ \E o \in Obj, f \in Fun : Preset(c, o, f)
  \/ PresetAssign(c)
  \/ \E o \in Obj : Enable(c, o)
  \/ \E k \in Pid : EnableCreate(c, k)
  \/ EnableFail(c)
  \/ EnableUnlock(c)
  \/ \E o \in Obj : Detach(c, o)
  \/ DetachSet(c)
  \/ DetachRemove(c)
  \/ \E o \in Obj : Join(c, o)
  \/ \E o \in Obj : JoinDetached(c, o)
  \/ JoinReap(c)
  \/ JoinReturn(c)
  \/ \E o \in Obj : RequestShutdown(c, o)

PthreadStep(k) ==
  \/ Start(k)
  \/ RegisterActive(k)
  \/ RegisterList(k)
  \/ FunctionReturns(k)
  \/ ExitThread(k, Exited)
  \/ TestForShutdown(k)
  \/ SetDone(k)
  \/ FinalCleanup(k)

Next == (\E c \in Caller : CallerStep(c)) \/ (\E k \in Pid : PthreadStep(k))

Spec == Init /\ [][Next]_vars

(* A caller finishes the operation it is in, and a pthread goes on.  Its   *)
(* function need not return, and only one that comes to a sleeping point   *)
(* again and again polls for a shutdown: pure computation never does.      *)
Polls(k) == pt[k].of \in Obj /\ function[pt[k].of] \in Polling

Fairness ==
  /\ \A c \in Caller : /\ WF_vars(PresetAssign(c))
                       /\ WF_vars((\E k \in Pid : EnableCreate(c, k)) \/ EnableFail(c))
                       /\ WF_vars(EnableUnlock(c))
                       /\ WF_vars(DetachSet(c))
                       /\ WF_vars(DetachRemove(c))
                       /\ WF_vars(JoinReap(c))
                       /\ WF_vars(JoinReturn(c))
  /\ \A k \in Pid : /\ WF_vars(Start(k))
                    /\ WF_vars(RegisterActive(k))
                    /\ WF_vars(RegisterList(k))
                    /\ WF_vars(Polls(k) /\ TestForShutdown(k))
                    /\ WF_vars(SetDone(k))
                    /\ WF_vars(FinalCleanup(k))

FairSpec == Spec /\ Fairness
----------------------------------------------------------------------------
Places == {"none", "created", "started", "active", "running", "ending", "done",
           "zombie", "joined"}
Ops == {"none", "preset", "enable", "starting", "detach", "detached", "join",
        "joined"}

TypeOK ==
  /\ status \in [Obj -> {"initialized", "set", "active", "done"}]
  /\ detached \in [Obj -> BOOLEAN]
  /\ function \in [Obj -> Fun \union {NIL}]
  /\ result \in [Obj -> Value \union {OBJNULL}]
  /\ ident \in [Obj -> 0 .. MaxPthread]
  /\ request \in [Obj -> BOOLEAN]
  /\ locked \in [Obj -> BOOLEAN]
  /\ threads \subseteq Obj
  /\ pt \in [Pid -> [of : Obj \union {NIL}, at : Places]]
  /\ outcome \in [Pid -> Value \union {OBJNULL}]
  /\ op \in [Caller -> [at : Ops, on : Obj \union {NIL},
                        with : Fun \union Pid \union {NIL}]]

Live(k) == pt[k].at \notin {"none", "zombie", "joined"}

----------------------------------------------------------------------------
(***************************************************************************)
(* What makes the list right when clients are careful: an object has one   *)
(* unjoined pthread at most, its status follows the progress of that       *)
(* pthread, and every caller in the middle of an operation is still right  *)
(* about what it tested.                                                   *)
(***************************************************************************)
Current(k) == pt[k].at \notin {"none", "joined"}

OneCurrent ==
  \A j, k \in Pid :
    Current(j) /\ Current(k) /\ pt[j].of = pt[k].of => j = k

StatusAt(place) ==
  IF place \in {"created", "started"} THEN "set"
  ELSE IF place \in {"done", "zombie"} THEN "done" ELSE "active"

StatusFollows ==
  \A k \in Pid : Current(k) => /\ pt[k].of \in Obj
                               /\ status[pt[k].of] = StatusAt(pt[k].at)

IdentIsCurrent ==
  \A o \in Obj :
    ident[o] # 0 => /\ pt[ident[o]].of = o
                    /\ pt[ident[o]].at # "none"
                    /\ pt[ident[o]].at = "joined" => Busy(o, {"joined"})

PresetOps == {"preset", "enable"}
JoinOps == {"join", "joined"}

CallersAreRight ==
  \A c \in Caller :
    LET o == op[c].on IN
    /\ op[c].at # "none" => o \in Obj
    /\ op[c].at \in PresetOps =>
         /\ status[o] \in {"initialized", "set"}
         /\ \A k \in Pid : Current(k) => pt[k].of # o
         /\ \A d \in Caller : op[d].on = o /\ op[d].at \in PresetOps => d = c
    /\ op[c].at = "preset" => op[c].with \in Fun
    /\ op[c].at = "enable" => function[o] \in Fun /\ status[o] = "set"
    /\ op[c].at \in JoinOps =>
         /\ op[c].with \in Pid
         /\ pt[op[c].with].of = o
         /\ \A d \in Caller : op[d].on = o /\ op[d].at \in JoinOps => d = c
    /\ op[c].at = "join" => Current(op[c].with)
    /\ op[c].at = "joined" =>
         /\ pt[op[c].with].at = "joined"
         /\ status[o] = "done"
         /\ \A k \in Pid : Current(k) => pt[k].of # o

FunctionIsSet ==
  /\ \A o \in Obj : status[o] = "set" => function[o] \in Fun
  /\ \A k \in Pid : Current(k) => function[pt[k].of] \in Fun
----------------------------------------------------------------------------
(* A thread object, and the one env it owns, is not run by two pthreads at *)
(* once.  The status test of thread-enable and the status that the entry   *)
(* point, thread-join and thread-preset set see to it, for every enable    *)
(* but one made before the pthread of an earlier one has registered itself:*)
(* there the status is still "set" (threads.c:2818) and the test passes.   *)
(* Careful excludes that window and nothing else; without it this fails.   *)
OnePthreadPerObject ==
  \A j, k \in Pid : Live(j) /\ Live(k) /\ pt[j].of = pt[k].of => j = k

(* A finished detached thread is off the list of all threads, whichever of *)
(* thread-detach and the final clean-up of the thread came first.          *)
DetachedDoneUnlisted ==
  \A k \in Pid :
    LET o == pt[k].of IN
    pt[k].at = "zombie" /\ detached[o] /\ ~Busy(o, {"detached"})
      => o \notin threads

(* Every thread that can be running Lisp code is on the list that the      *)
(* shutdown walks, and has the status it looks for.                        *)
RunningIsListed ==
  \A k \in Pid : pt[k].at \in {"running", "ending"}
                   => pt[k].of \in threads /\ status[pt[k].of] = "active"

LifeInv ==
  /\ TypeOK /\ OneCurrent /\ StatusFollows /\ IdentIsCurrent
  /\ CallersAreRight /\ FunctionIsSet
  /\ DetachedDoneUnlisted /\ RunningIsListed

(* An object that thread-join has made ready for another use is on the     *)
(* list only if a pthread of it is still unjoined: the list does not grow  *)
(* with the threads that were joined.                                      *)
JoinedUnlisted ==
  \A o \in Obj : status[o] \in {"initialized", "set"} /\ o \in threads
                   => \E k \in Pid : pt[k].of = o /\ pt[k].at # "joined"

(* thread-join gives the value with which the joined pthread ended: always *)
(* for the first use of an object, and for a later one if exit-thread or   *)
(* the shutdown ended it.  (A value returned by the function of a later use*)
(* does not replace the one left from the use before.)                     *)
JoinGivesOutcome ==
  \A c \in Caller :
    LET k == op[c].with IN
    /\ op[c].at = "joined"
    /\ \/ \A j \in Pid : pt[j].of = op[c].on => j = k
       \/ outcome[k] \in {Terminated, Exited}
    => result[op[c].on] = outcome[k]

(* What makes those two true.  An object on the list has a pthread that is *)
(* not joined yet, or its join is about to take it off.                    *)
ListedIsUnjoined ==
  \A o \in threads : \/ \E k \in Pid : Current(k) /\ pt[k].of = o
                     \/ Busy(o, {"joined"})

Ended(k) == pt[k].at \in {"ending", "done", "zombie", "joined"}
BeingJoined(k) == \E c \in Caller : op[c].at = "joined" /\ op[c].with = k

(* thread.result_value is empty until the first pthread of the object has  *)
(* ended, and then that pthread's value while it is the only one; a value  *)
(* of exit-thread or of the shutdown stays until the join has returned.    *)
UnusedIsBlank == \A k \in Pid : pt[k].at = "none" <=> pt[k].of = NIL

EmptyUntilEnded ==
  \A o \in Obj : (\A k \in Pid : pt[k].of = o => ~Ended(k)) => result[o] = OBJNULL

ValueIsKept ==
  \A k \in Pid :
    LET o == pt[k].of IN
    /\ Ended(k)
    /\ \/ \A j \in Pid : pt[j].of = o => j = k
       \/ /\ outcome[k] \in {Terminated, Exited}
          /\ Current(k) \/ BeingJoined(k)
    => result[o] = outcome[k]

ResultFollows == UnusedIsBlank /\ EmptyUntilEnded /\ ValueIsKept

(* A shutdown request to a registered thread is obeyed, if the function of *)
(* the thread polls (mk_mt_test_for_thread_shutdown), even if it would     *)
(* never return.                                                           *)
RequestIsObeyed ==
  \A k \in Pid : (pt[k].at = "running" /\ Polls(k) /\ request[pt[k].of])
                   ~> (pt[k].at \in {"zombie", "joined"})

(* A join of such a thread returns.                                        *)
JoinReturns ==
  \A c \in Caller, k \in Pid :
    (op[c].at = "join" /\ op[c].with = k /\ pt[k].at = "running"
        /\ Polls(k) /\ request[pt[k].of])
      ~> (op[c].at = "none")
=============================================================================
