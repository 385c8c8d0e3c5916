------------------------ MODULE ThreadInterruptProofs ------------------------
(***************************************************************************)
(* Proofs about ThreadInterrupt, for any targets, calls and bounds: as     *)
(* long as no signal comes late, is lost or is taken by another pthread,   *)
(* the hand-over of a thread's env between the pthread that is interrupted *)
(* and the one that runs the function is exact.                            *)
(***************************************************************************)
EXTENDS ThreadInterrupt, SequenceTheorems, FunctionTheorems, FiniteSetTheorems, TLAPS

(* The places where a caller has mkcl_interrupt_thread_lock, where an      *)
(* interrupt pthread has given up the env or does not exist, and where a   *)
(* signal handler holds its pthread.                                       *)
CritCall == {"select", "wake", "waitSleeper", "waitSuspended", "waited", "created",
             "unlock"}
Over == {"none", "waitResumed", "popped", "gone"}
Special == {"entered", "refusing", "suspending", "suspended", "waking"}

(* A call creates at most one pthread, with which it succeeds; the mutex   *)
(* is with the call or the pthread that is in its critical section.        *)
CallInv ==
  \A c \in Call :
    /\ cpc[c] # "idle" => target[c] \in Target
    /\ cpc[c] \notin {"created", "unlock", "end"} => tries[c] < MaxRetries
    /\ loc[c] # "none" => \/ cpc[c] = "created"
                          \/ cpc[c] \in {"unlock", "end"} /\ outcome[c] = "success"
    /\ outcome[c] # "none" => cpc[c] \in {"unlock", "end"}
    /\ lock = <<c, "caller">> <=> cpc[c] \in CritCall
    /\ lock = <<c, "function">> <=> loc[c] \in {"waitResumed", "popped"}

On(p, t) == p \in Pthread /\ loc[p] # "none" /\ ThreadOf(p) = t

Stacked(p, t) == \E k \in 1 .. Len(stack[t]) : stack[t][k].ident = p

(* The pthreads of a thread: thread.thread is the one that has the env,    *)
(* the others are on the stack, once each, and stopped in their handlers.  *)
ChainInv ==
  /\ \A t \in Target :
       /\ On(ident[t], t) /\ loc[ident[t]] \notin {"waitResumed", "popped"}
       /\ ident[t] \in Call => loc[ident[t]] # "gone"
       /\ loc[t] \notin {"none", "waitResumed", "popped", "born", "enabled", "popping"}
       /\ \A k \in 1 .. Len(stack[t]) :
            /\ On(stack[t][k].ident, t) /\ Stopped(stack[t][k].ident)
            /\ stack[t][k].ident # ident[t]
            /\ \A j \in 1 .. Len(stack[t]) :
                 stack[t][j].ident = stack[t][k].ident => j = k
  /\ \A p \in Pthread : p \in Target \/ loc[p] \notin Over =>
       p = ident[ThreadOf(p)] \/ Stacked(p, ThreadOf(p))

(* No signal is on its way to p, and if it is stopped it is on the stack.  *)
Calm(p) ==
  /\ loc[p] # "gone" => pendI[p] = 0
  /\ pendR[p] = 0
  /\ loc[p] \notin {"entered", "refusing"}
  /\ Stopped(p) => p # ident[ThreadOf(p)]

CalmBut(w) == \A p \in Pthread : p = w \/ Calm(p)

NoFlag(T) == \A t \in T : ~resumeRan[t]

Silent == sem["suspended"] = 0 /\ sem["resumed"] = 0

Quiet == Silent /\ CalmBut(NIL) /\ NoFlag(Target)

(* What is under way, by where the holder of the mutex is.                 *)
Free == lock = NIL /\ ienv = NIL /\ Quiet

Selecting(c) ==
  /\ cpc[c] \in {"select", "wake", "waitSleeper"}
  /\ ienv = target[c] /\ Quiet
  /\ cpc[c] = "select" => ~refused

Closing(c) ==
  /\ \/ cpc[c] \in {"created", "unlock"}
     \/ cpc[c] = "waited" /\ refused
     \/ loc[c] = "popped"
  /\ ienv = NIL /\ Quiet

(* The interrupt signal is on its way to p, or p answers it.               *)
Sent(p) == /\ loc[p] # "gone" => pendI[p] = 1
           /\ sem["suspended"] = 0 /\ ~refused /\ loc[p] \notin Special
Entered(p) == loc[p] = "entered" /\ pendI[p] = 0 /\ sem["suspended"] = 0 /\ ~refused
Refusing(p) == loc[p] = "refusing" /\ pendI[p] = 0 /\ sem["suspended"] = 0 /\ refused
Declined(p) == /\ loc[p] # "gone" => pendI[p] = 0
               /\ loc[p] \notin Special /\ sem["suspended"] = 1 /\ refused
Accepted(p) == Stopped(p) /\ pendI[p] = 0 /\ sem["suspended"] = 1 /\ ~refused

Answering(p) == Sent(p) \/ Entered(p) \/ Refusing(p) \/ Declined(p) \/ Accepted(p)

Signalled(c, p) ==
  /\ cpc[c] = "waitSuspended" /\ p = ident[target[c]]
  /\ ienv = target[c] /\ sem["resumed"] = 0
  /\ CalmBut(p) /\ NoFlag(Target) /\ pendR[p] = 0
  /\ Answering(p)

Stopping(c, p) ==
  /\ cpc[c] = "waited" /\ ~refused /\ p = ident[target[c]]
  /\ ienv = NIL /\ Silent /\ CalmBut(p) /\ NoFlag(Target)
  /\ Stopped(p) /\ pendI[p] = 0 /\ pendR[p] = 0

(* The resume signal is on its way to p, its handler has run, or p is awake.*)
Waited(p, t) == /\ pendR[p] = 1 /\ sem["resumed"] = 0 /\ ~resumeRan[t]
                /\ Stopped(p)
Flagged(p, t) == /\ pendR[p] = 0 /\ sem["resumed"] = 0 /\ resumeRan[t]
                 /\ loc[p] = "waking"
Awake(p, t) == /\ pendR[p] = 0 /\ sem["resumed"] = 1 /\ ~resumeRan[t]
               /\ loc[p] \notin Special

Resuming(c, p) ==
  /\ loc[c] = "waitResumed" /\ p = ident[target[c]]
  /\ ienv = target[c] /\ sem["suspended"] = 0
  /\ CalmBut(p) /\ NoFlag(Target \ {target[c]})
  /\ loc[p] # "gone" => pendI[p] = 0
  /\ Waited(p, target[c]) \/ Flagged(p, target[c]) \/ Awake(p, target[c])

CritInv ==
  \/ Free
  \/ \E c \in Call : Selecting(c) \/ Closing(c)
  \/ \E c \in Call, p \in Pthread : Signalled(c, p) \/ Stopping(c, p) \/ Resuming(c, p)

(* The interrupt status that belongs to a place in the code.               *)
Level(l) == IF l \in {"born", "popping"} THEN 2
            ELSE IF l \in {"nointr", "zzz", "asleep", "unwinding"} THEN 1 ELSE 0

(* env.disable_interrupts is that of the pthread that has the env, and     *)
(* that of the others is on the stack; after a non-local exit HandlerReturn*)
(* sets it anew.  A pthread that is stopped had interrupts enabled, or was *)
(* forced.                                                                 *)
EnvStatus(t) ==
  /\ loc[ident[t]] \notin HandlerLoc => disable[t] = Level(loc[ident[t]])
  /\ loc[ident[t]] \in {"entered", "refusing"} => disable[t] = Level(ret[ident[t]])
  /\ Stopped(ident[t]) \/ loc[ident[t]] = "returning" =>
       disable[t] = Level(ret[ident[t]]) \/ nlj[t]
  /\ \A c \in Call : Stopped(ident[t]) /\ cpc[c] \in {"waitSuspended", "waited"} =>
       disable[t] = Level(ret[ident[t]])

StackStatus(t) ==
  \A k \in 1 .. Len(stack[t]) : stack[t][k].disable = Level(ret[stack[t][k].ident])

HandlerStatus(p) ==
  /\ old[p] = 0
  /\ loc[p] \in HandlerLoc =>
       /\ henv[p] = ThreadOf(p) /\ ret[p] \notin HandlerLoc \cup Over
       /\ p \in Target => ret[p] \notin {"born", "enabled", "popping"}
  /\ Stopped(p) \/ loc[p] = "returning" => Level(ret[p]) # 2

EntryStatus(c) ==
  /\ CodeLoc(c) # "done"
  /\ CodeLoc(c) \in LispLoc \cup {"enabled", "unwinding"} => entry[c] = 2

StatusInv ==
  /\ \A t \in Target : EnvStatus(t) /\ StackStatus(t)
  /\ \A p \in Pthread : HandlerStatus(p)
  /\ \A c \in Call : EntryStatus(c)

Inv == TypeOK /\ CallInv /\ ChainInv /\ CritInv /\ StatusInv
-----------------------------------------------------------------------------
(* Targets, calls, NIL and the owners of the mutex are different things.   *)
LEMMA Sorts ==
  /\ \A c \in Call : c \in Pthread /\ c \notin Target
  /\ \A t \in Target : t \in Pthread /\ t \notin Call
  /\ NIL \notin Pthread
  /\ \A c \in Call : NIL # <<c, "caller">> /\ NIL # <<c, "function">>
  /\ \A c, d \in Call : <<c, "caller">> # <<d, "function">>
  /\ \A c, d \in Call : <<c, "caller">> = <<d, "caller">> => c = d
  /\ \A c, d \in Call : <<c, "function">> = <<d, "function">> => c = d
<1>1. NIL \notin Call \X {"caller", "function"}
  BY InterruptAssumption
<1> QED  BY <1>1, InterruptAssumption DEF Pthread

(* A pthread that exists belongs to a target.                              *)
LEMMA Owner ==
  ASSUME CallInv, NEW p \in Pthread, loc[p] # "none"
  PROVE  ThreadOf(p) \in Target
  BY Sorts DEF CallInv, ThreadOf, Pthread

(* A pthread that runs code of its own has the env of its thread.          *)
LEMMA Runner ==
  ASSUME CallInv, ChainInv, NEW p \in Pthread, loc[p] \notin Special \cup Over
  PROVE  /\ ThreadOf(p) \in Target /\ p = ident[ThreadOf(p)]
         /\ \A t \in Target : p = ident[t] => t = ThreadOf(p)
<1>1. ThreadOf(p) \in Target
  BY Owner DEF Over
<1>2. ~Stacked(p, ThreadOf(p))
  BY <1>1 DEF ChainInv, Stacked, Stopped, Special
<1> QED
  BY <1>1, <1>2 DEF ChainInv, On

(* The holder of the mutex.                                                *)
LEMMA MutexFree ==
  ASSUME CallInv, CritInv, lock = NIL
  PROVE  Free
<1>1. \A c \in Call : cpc[c] \notin CritCall /\ loc[c] \notin {"waitResumed", "popped"}
  BY Sorts DEF CallInv
<1>2. \A c \in Call : ~Selecting(c) /\ ~Closing(c)
  BY <1>1 DEF Selecting, Closing, CritCall
<1>3. \A c \in Call, p \in Pthread : ~Signalled(c, p) /\ ~Stopping(c, p) /\ ~Resuming(c, p)
  BY <1>1 DEF Signalled, Stopping, Resuming, CritCall
<1> QED
  BY <1>2, <1>3 DEF CritInv

(* Nobody else is in a critical section.                                   *)
LEMMA MutexOne ==
  ASSUME CallInv, NEW c \in Call, NEW d \in Call,
         cpc[c] \in CritCall \/ loc[c] \in {"waitResumed", "popped"}
  PROVE  /\ lock # NIL
         /\ cpc[d] \in CritCall \/ loc[d] \in {"waitResumed", "popped"} => d = c
         /\ cpc[c] \in CritCall /\ cpc[d] \in CritCall => loc[d] \notin {"waitResumed", "popped"}
         /\ loc[c] \in {"waitResumed", "popped"} => cpc[d] \notin CritCall
<1>1. /\ cpc[c] \in CritCall => lock = <<c, "caller">>
      /\ loc[c] \in {"waitResumed", "popped"} => lock = <<c, "function">>
      /\ cpc[d] \in CritCall => lock = <<d, "caller">>
      /\ loc[d] \in {"waitResumed", "popped"} => lock = <<d, "function">>
  BY DEF CallInv
<1> QED
  BY <1>1, Sorts

(* A caller that has the mutex is the one of the handshake, at the stage   *)
(* its place says.                                                         *)
LEMMA MutexCaller ==
  ASSUME CallInv, CritInv, NEW c \in Call, cpc[c] \in CritCall
  PROVE  /\ cpc[c] \in {"select", "wake", "waitSleeper"} => Selecting(c)
         /\ cpc[c] = "waitSuspended" => \E p \in Pthread : Signalled(c, p)
         /\ cpc[c] = "waited" => Closing(c) \/ \E p \in Pthread : Stopping(c, p)
         /\ cpc[c] \in {"created", "unlock"} => Closing(c)
<1>1. /\ lock # NIL /\ loc[c] \notin {"waitResumed", "popped"}
      /\ \A d \in Call : cpc[d] \in CritCall \/ loc[d] \in {"waitResumed", "popped"} => d = c
  BY MutexOne
<1>2. ~Free
  BY <1>1 DEF Free
<1>3. \A d \in Call : Selecting(d) \/ Closing(d) => d = c
  BY <1>1 DEF Selecting, Closing, CritCall
<1>4. \A d \in Call, p \in Pthread : /\ Signalled(d, p) \/ Stopping(d, p) => d = c
                                     /\ ~Resuming(d, p)
  BY <1>1 DEF Signalled, Stopping, Resuming, CritCall
<1>5. \/ Selecting(c) \/ Closing(c)
      \/ \E p \in Pthread : Signalled(c, p) \/ Stopping(c, p)
  BY <1>2, <1>3, <1>4 DEF CritInv
<1> QED
  BY <1>1, <1>5 DEF Selecting, Closing, Signalled, Stopping

(* So is an interrupt pthread that has the mutex.                          *)
LEMMA MutexFunction ==
  ASSUME CallInv, CritInv, NEW c \in Call, loc[c] \in {"waitResumed", "popped"}
  PROVE  /\ loc[c] = "waitResumed" => \E p \in Pthread : Resuming(c, p)
         /\ loc[c] = "popped" => Closing(c)
<1>1. /\ lock # NIL
      /\ \A d \in Call : /\ cpc[d] \notin CritCall
                         /\ loc[d] \in {"waitResumed", "popped"} => d = c
  BY MutexOne
<1>2. ~Free
  BY <1>1 DEF Free
<1>3. \A d \in Call : ~Selecting(d) /\ (Closing(d) => d = c)
  BY <1>1 DEF Selecting, Closing, CritCall
<1>4. \A d \in Call, p \in Pthread : /\ ~Signalled(d, p) /\ ~Stopping(d, p)
                                     /\ Resuming(d, p) => d = c
  BY <1>1 DEF Signalled, Stopping, Resuming, CritCall
<1>5. Closing(c) \/ \E p \in Pthread : Resuming(c, p)
  BY <1>2, <1>3, <1>4 DEF CritInv
<1> QED
  BY <1>1, <1>5 DEF Closing, Resuming, CritCall

(* A pthread that is not calm is the one the holder of the mutex deals with.*)
LEMMA NotCalm ==
  ASSUME CritInv, NEW p \in Pthread, ~Calm(p)
  PROVE  \E c \in Call : Signalled(c, p) \/ Stopping(c, p) \/ Resuming(c, p)
<1>1. NIL # p
  BY Sorts
<1>2. ~Quiet
  BY <1>1 DEF Quiet, CalmBut
<1>3. PICK c \in Call, q \in Pthread : Signalled(c, q) \/ Stopping(c, q) \/ Resuming(c, q)
  BY <1>2 DEF CritInv, Free, Selecting, Closing
<1>4. CalmBut(q)
  BY <1>3 DEF Signalled, Stopping, Resuming
<1>5. q = p
  BY <1>4 DEF CalmBut
<1> QED
  BY <1>3, <1>5

(* An interrupt signal on its way was sent by the call that has the mutex. *)
LEMMA SignalIsSent ==
  ASSUME CritInv, NEW p \in Pthread, pendI[p] > 0, loc[p] # "gone"
  PROVE  \E c \in Call : Signalled(c, p) /\ Sent(p)
<1>1. PICK c \in Call : Signalled(c, p) \/ Stopping(c, p) \/ Resuming(c, p)
  BY NotCalm DEF Calm
<1>2. Signalled(c, p) /\ pendI[p] # 0
  BY <1>1 DEF Stopping, Resuming
<1> QED
  BY <1>2 DEF Signalled, Answering, Sent, Entered, Refusing, Declined, Accepted

(* Who is in the handler and has not answered yet was signalled by that    *)
(* call.                                                                   *)
LEMMA HandlerIsEntered ==
  ASSUME CritInv, NEW p \in Pthread, loc[p] \in {"entered", "refusing"}
  PROVE  \E c \in Call : /\ Signalled(c, p)
                         /\ loc[p] = "entered" => Entered(p)
                         /\ loc[p] = "refusing" => Refusing(p)
<1>1. PICK c \in Call : Signalled(c, p) \/ Stopping(c, p) \/ Resuming(c, p)
  BY NotCalm DEF Calm
<1>2. Signalled(c, p)
  BY <1>1 DEF Stopping, Resuming, Waited, Flagged, Awake, Stopped, Special
<1> QED
  BY <1>2 DEF Signalled, Answering, Sent, Entered, Refusing, Declined, Accepted, Special, Stopped

(* A resume signal on its way was sent by the function that has the mutex, *)
(* and its receiver waits for it.                                          *)
LEMMA ResumeIsSent ==
  ASSUME CritInv, NEW p \in Pthread, pendR[p] > 0
  PROVE  \E c \in Call : Resuming(c, p) /\ Waited(p, target[c])
<1>1. PICK c \in Call : Signalled(c, p) \/ Stopping(c, p) \/ Resuming(c, p)
  BY NotCalm DEF Calm
<1>2. Resuming(c, p)
  BY <1>1 DEF Signalled, Stopping
<1>3. ~Flagged(p, target[c]) /\ ~Awake(p, target[c])
  BY DEF Flagged, Awake
<1> QED
  BY <1>2, <1>3 DEF Resuming

(* resume_handler_ran is set only for the pthread that is being resumed.   *)
LEMMA FlagIsResume ==
  ASSUME CritInv, NEW t \in Target, resumeRan[t]
  PROVE  \E c \in Call, p \in Pthread : Resuming(c, p) /\ Flagged(p, t) /\ target[c] = t
<1>1. ~NoFlag(Target)
  BY DEF NoFlag
<1>2. PICK c \in Call, p \in Pthread : Resuming(c, p)
  BY <1>1 DEF CritInv, Free, Selecting, Closing, Quiet, Signalled, Stopping
<1>3. target[c] = t
  BY <1>2 DEF Resuming, NoFlag
<1> QED
  BY <1>2, <1>3 DEF Resuming, Waited, Flagged, Awake
-----------------------------------------------------------------------------
(* Types.                                                                  *)

(* The places in the code that the steps below go to.                      *)
LEMMA Names ==
  /\ \A l \in {"retry", "lock", "select", "wake", "waitSleeper", "waitSuspended", "waited",
             "created", "unlock", "end"} : l \in CallLoc
  /\ \A l \in {"run", "nointr", "zzz", "asleep", "woke", "entered", "refusing",
             "suspending", "suspended", "waking", "returning", "popping", "waitResumed",
             "popped", "born", "enabled", "unwinding", "done", "gone"} : l \in Locations
  /\ "suspended" \in Semaphores /\ "resumed" \in Semaphores
  /\ "run" \in Semaphores /\ "sleeper" \in Semaphores
  BY DEF CallLoc, Locations, LispLoc, HandlerLoc, PopLoc, Semaphores

(* Posting and taking a semaphore, counting a call of a function.          *)
LEMMA Posts ==
  ASSUME TypeOK, NEW s \in Semaphores, sem' = [sem EXCEPT ![s] = @ + 1]
  PROVE  /\ sem' \in [Semaphores -> Nat] /\ sem'[s] = sem[s] + 1
         /\ \A r \in Semaphores : r # s => sem'[r] = sem[r]
<1>1. sem \in [Semaphores -> Nat]
  BY DEF TypeOK
<1> QED  BY <1>1

(* sem_wait takes one token of one semaphore.                              *)
LEMMA Takes ==
  ASSUME TypeOK, NEW s \in Semaphores, sem[s] > 0, sem' = [sem EXCEPT ![s] = @ - 1]
  PROVE  /\ sem' \in [Semaphores -> Nat] /\ sem'[s] = sem[s] - 1
         /\ \A r \in Semaphores : r # s => sem'[r] = sem[r]
<1>1. sem \in [Semaphores -> Nat]
  BY DEF TypeOK
<1> QED  BY <1>1

(* The ghost that counts the runs of a function keeps its type.            *)
LEMMA Counts ==
  ASSUME TypeOK, NEW f \in Call, ran' = [ran EXCEPT ![f] = IF @ < 2 THEN @ + 1 ELSE @]
  PROVE  ran' \in [Call -> 0 .. 2]
<1>1. ran \in [Call -> 0 .. 2]
  BY DEF TypeOK
<1>2. (IF ran[f] < 2 THEN ran[f] + 1 ELSE ran[f]) \in 0 .. 2
  BY <1>1
<1> QED  BY <1>1, <1>2

(* What a step of a pthread may rely on.                                   *)
LEMMA CallTypes ==
  ASSUME Inv, NEW c \in Call
  PROVE  /\ cpc[c] # "idle" => target[c] \in Target
         /\ cpc[c] \notin {"created", "unlock", "end"} =>
              tries[c] \in Nat /\ tries[c] + 1 \in 0 .. MaxRetries
         /\ loc[c] # "none" => target[c] \in Target
<1>1. MaxRetries \in Nat /\ tries[c] \in 0 .. MaxRetries
  BY InterruptAssumption DEF Inv, TypeOK
<1> QED
  BY <1>1 DEF Inv, CallInv

-----------------------------------------------------------------------------
(* What steps leave as it is.                                              *)

(* A step that leaves the callers and the mutex alone keeps CallInv.       *)
LEMMA CallFrame ==
  ASSUME CallInv, UNCHANGED <<lock, cpc, target, tries, outcome>>,
         \A c \in Call : /\ loc'[c] = "none" <=> loc[c] = "none"
                         /\ loc'[c] \in {"waitResumed", "popped"} <=>
                              loc[c] \in {"waitResumed", "popped"}
  PROVE  CallInv'
  BY DEF CallInv

(* A step of a caller that changes no pthread; the target of a call is set *)
(* before there is one.                                                    *)
LEMMA ChainSame ==
  ASSUME ChainInv, UNCHANGED <<ident, stack, loc>>,
         \A c \in Call : loc[c] # "none" => target'[c] = target[c]
  PROVE  ChainInv'
<1>1. \A p \in Pthread : loc[p] # "none" => ThreadOf(p)' = ThreadOf(p)
  BY DEF ThreadOf
<1>2. \A p \in Pthread, t \in Target : On(p, t) => On(p, t)'
  BY <1>1 DEF On
<1>3. \A p \in Pthread : p \in Target \/ loc[p] \notin Over => loc[p] # "none"
  BY DEF ChainInv, Over
<1>4. \A t \in Target : ident[t] \in Pthread
                        /\ \A k \in 1 .. Len(stack[t]) : stack[t][k].ident \in Pthread
  BY DEF ChainInv, On
<1>5. \A t \in Target :
       /\ On(ident[t], t)' /\ loc[ident[t]] \notin {"waitResumed", "popped"}
       /\ ident[t] \in Call => loc[ident[t]] # "gone"
       /\ loc[t] \notin {"none", "waitResumed", "popped", "born", "enabled", "popping"}
  BY <1>2, <1>4 DEF ChainInv
<1>6. \A t \in Target : \A k \in 1 .. Len(stack[t]) :
            /\ On(stack[t][k].ident, t)' /\ Stopped(stack[t][k].ident)'
            /\ stack[t][k].ident # ident[t]
            /\ \A j \in 1 .. Len(stack[t]) :
                 stack[t][j].ident = stack[t][k].ident => j = k
  BY <1>2, <1>4 DEF ChainInv, Stopped
<1>7. \A p \in Pthread : p \in Target \/ loc[p] \notin Over =>
       p = ident[ThreadOf(p)'] \/ Stacked(p, ThreadOf(p))'
  BY <1>1, <1>3 DEF ChainInv, Stacked
<1> QED
  BY <1>5, <1>6, <1>7 DEF ChainInv

(* A step of the pthread p from one place to another.                      *)
LEMMA ChainMove ==
  ASSUME TypeOK, ChainInv, UNCHANGED <<ident, stack, target>>,
         NEW p \in Pthread, NEW l, loc' = [loc EXCEPT ![p] = l],
         loc[p] # "none", l \notin {"none", "waitResumed", "popped"},
         p \in Target => l \notin {"born", "enabled", "popping"},
         p \in Call => l # "gone",
         l \notin Over => loc[p] \notin Over,
         Stopped(p) /\ p # ident[ThreadOf(p)] => l \in {"suspending", "suspended", "waking"}
  PROVE  ChainInv'
<1>0. loc \in [Pthread -> Locations]
  BY DEF TypeOK
<1>a. /\ loc'[p] = l
      /\ \A q \in Pthread : q # p => loc'[q] = loc[q]
  BY <1>0
<1>1. \A q : ThreadOf(q)' = ThreadOf(q)
  BY DEF ThreadOf
<1>2. \A q \in Pthread, t \in Target : On(q, t) => On(q, t)'
  BY <1>1, <1>a DEF On
<1>4. \A t \in Target : /\ ident[t] \in Pthread /\ t \in Pthread
                        /\ \A k \in 1 .. Len(stack[t]) : stack[t][k].ident \in Pthread
  BY Sorts DEF ChainInv, On
<1>5. \A t \in Target :
       /\ On(ident[t], t)' /\ loc'[ident[t]] \notin {"waitResumed", "popped"}
       /\ ident[t] \in Call => loc'[ident[t]] # "gone"
       /\ loc'[t] \notin {"none", "waitResumed", "popped", "born", "enabled", "popping"}
  BY <1>2, <1>4, <1>a DEF ChainInv
<1>6. ASSUME NEW t \in Target, NEW k \in 1 .. Len(stack[t])
      PROVE  /\ On(stack[t][k].ident, t)' /\ Stopped(stack[t][k].ident)'
             /\ stack[t][k].ident # ident[t]
             /\ \A j \in 1 .. Len(stack[t]) :
                  stack[t][j].ident = stack[t][k].ident => j = k
  <2>1. PICK q \in Pthread : q = stack[t][k].ident
    BY <1>4
  <2>2. On(q, t) /\ Stopped(q) /\ q # ident[t]
    BY <2>1 DEF ChainInv
  <2>3. Stopped(q)'
    BY <1>a, <2>2 DEF Stopped, On
  <2> QED  BY <1>2, <2>1, <2>2, <2>3 DEF ChainInv
<1>7. \A q \in Pthread : q \in Target \/ loc'[q] \notin Over =>
       q = ident[ThreadOf(q)] \/ Stacked(q, ThreadOf(q))
  BY <1>a DEF ChainInv
<1>8. \A q, t : Stacked(q, t)' <=> Stacked(q, t)
  BY DEF Stacked
<1> QED
  BY <1>1, <1>5, <1>6, <1>7, <1>8 DEF ChainInv

(* A step of a pthread that no signal is about, and one from one place of  *)
(* the wait for the resume signal to another.                              *)
Idle(p, l) == loc[p] \notin Special \cup Over /\ l \notin Special \cup {"none", "waitResumed", "popped"}

Rolls(p, l) == /\ Stopped(p) /\ l \in {"suspending", "suspended", "waking"}
               /\ loc[p] = "waking" => ~resumeRan[ThreadOf(p)]

(* A pthread that moves outside the handlers does not disturb the          *)
(* handshake.                                                              *)
LEMMA CritMove ==
  ASSUME TypeOK, CallInv, CritInv,
         UNCHANGED <<lock, ienv, refused, cpc, target, ident, resumeRan, pendI, pendR>>,
         sem'["suspended"] = sem["suspended"] /\ sem'["resumed"] = sem["resumed"],
         NEW p \in Pthread, NEW l, loc' = [loc EXCEPT ![p] = l],
         \A t \in Target : p = ident[t] => ThreadOf(p) = t,
         Idle(p, l) \/ Rolls(p, l)
  PROVE  CritInv'
<1>0. loc \in [Pthread -> Locations]
  BY DEF TypeOK
<1>a. /\ loc'[p] = l
      /\ \A q \in Pthread : q # p => loc'[q] = loc[q]
  BY <1>0
<1>1. \A q : ThreadOf(q)' = ThreadOf(q)
  BY DEF ThreadOf
<1>2. ASSUME NEW q \in Pthread, Calm(q) PROVE Calm(q)'
  <2>1. CASE q # p
    BY <1>1, <1>2, <1>a, <2>1 DEF Calm, Stopped
  <2>2. CASE q = p
    BY <1>1, <1>2, <1>a, <2>2 DEF Calm, Stopped, Idle, Rolls, Special, Over
  <2> QED  BY <2>1, <2>2
<1>3. \A w : CalmBut(w) => CalmBut(w)'
  BY <1>2 DEF CalmBut
<1>4. Quiet => Quiet'
  BY <1>3 DEF Quiet, Silent, NoFlag
<1>5. \A c \in Call : loc[c] \in {"waitResumed", "popped"} => loc'[c] = loc[c]
  BY <1>a, Sorts DEF Idle, Rolls, Stopped, Over
<1>6. CASE Free
  BY <1>4, <1>6 DEF Free, CritInv
<1>7. ASSUME NEW c \in Call, Selecting(c) \/ Closing(c) PROVE CritInv'
  BY <1>4, <1>5, <1>7 DEF Selecting, Closing, CritInv
<1>8. ASSUME NEW c \in Call, NEW q \in Pthread, Signalled(c, q) PROVE CritInv'
  <2>1. Answering(q)'
    <3>1. CASE q # p
      BY <1>8, <1>a, <3>1 DEF Signalled, Answering, Sent, Entered, Refusing, Declined, Accepted, Stopped
    <3>2. CASE q = p /\ Idle(p, l)
      BY <1>8, <1>a, <3>2 DEF Signalled, Answering, Sent, Entered, Refusing, Declined, Accepted,
         Stopped, Idle, Special, Over
    <3>3. CASE q = p /\ Rolls(p, l)
      BY <1>8, <1>a, <3>3 DEF Signalled, Answering, Sent, Entered, Refusing, Declined, Accepted,
         Stopped, Rolls, Special
    <3> QED  BY <3>1, <3>2, <3>3
  <2>2. Signalled(c, q)'
    BY <1>3, <1>8, <2>1 DEF Signalled, NoFlag
  <2> QED  BY <2>2 DEF CritInv
<1>9. ASSUME NEW c \in Call, NEW q \in Pthread, Stopping(c, q) PROVE CritInv'
  <2>1. Stopped(q)'
    BY <1>9, <1>a DEF Stopping, Stopped, Idle, Rolls, Special
  <2>2. Stopping(c, q)'
    BY <1>3, <1>9, <2>1 DEF Stopping, NoFlag, Silent
  <2> QED  BY <2>2 DEF CritInv
<1>10. ASSUME NEW c \in Call, NEW q \in Pthread, Resuming(c, q), target[c] \in Target
       PROVE CritInv'
  <2>1. PICK t \in Target : t = target[c]
    BY <1>10
  <2>2. Waited(q, t)' \/ Flagged(q, t)' \/ Awake(q, t)'
    <3>0. (Waited(q, t) \/ Flagged(q, t) \/ Awake(q, t)) /\ q = ident[t]
      BY <1>10, <2>1 DEF Resuming
    <3>1. CASE q # p
      BY <1>a, <3>0, <3>1 DEF Waited, Flagged, Awake, Stopped
    <3>2. CASE q = p /\ Idle(p, l)
      BY <1>a, <3>0, <3>2 DEF Waited, Flagged, Awake, Stopped, Idle, Special
    <3>3. CASE q = p /\ Rolls(p, l)
      BY <1>a, <2>1, <3>0, <3>3 DEF Waited, Flagged, Awake, Stopped, Rolls, Special
    <3> QED  BY <3>1, <3>2, <3>3
  <2>3. loc'[q] # "gone" => pendI[q] = 0
    BY <1>10, <1>a DEF Resuming, Idle, Over, Rolls, Stopped
  <2>4. loc'[c] = "waitResumed"
    BY <1>5, <1>10 DEF Resuming
  <2>5. Resuming(c, q)'
    BY <1>3, <1>10, <2>1, <2>2, <2>3, <2>4 DEF Resuming, NoFlag
  <2> QED  BY <2>5 DEF CritInv
<1>11. \A c \in Call, q \in Pthread : Resuming(c, q) => target[c] \in Target
  BY DEF Resuming, CallInv
<1> QED
  BY <1>6, <1>7, <1>8, <1>9, <1>10, <1>11 DEF CritInv

(* A step of a call that is outside its critical section and stays there.  *)
LEMMA CritOutside ==
  ASSUME CallInv, CritInv, UNCHANGED <<lock, ienv, refused, sem, ident, resumeRan, pendI, pendR, loc>>,
         NEW c \in Call, cpc[c] \notin CritCall, loc[c] = "none",
         \A d \in Call : d # c => cpc'[d] = cpc[d] /\ target'[d] = target[d]
  PROVE  CritInv'
<1>1. \A p \in Pthread : p # c => ThreadOf(p)' = ThreadOf(p)
  BY DEF ThreadOf
<1>2. \A p \in Pthread : Calm(p) => Calm(p)'
  BY <1>1 DEF Calm, Stopped
<1>3. \A w : CalmBut(w) => CalmBut(w)'
  BY <1>2 DEF CalmBut
<1>4. Quiet => Quiet'
  BY <1>3 DEF Quiet, Silent, NoFlag
<1>6. CASE Free
  BY <1>4, <1>6 DEF Free, CritInv
<1>7. ASSUME NEW d \in Call, Selecting(d) \/ Closing(d) PROVE CritInv'
  <2>1. d # c
    BY <1>7 DEF Selecting, Closing, CritCall
  <2> QED  BY <1>4, <1>7, <2>1 DEF Selecting, Closing, CritInv
<1>8. ASSUME NEW d \in Call, NEW q \in Pthread, Signalled(d, q) PROVE CritInv'
  <2>1. d # c
    BY <1>8 DEF Signalled, CritCall
  <2>2. Answering(q)'
    BY <1>8 DEF Signalled, Answering, Sent, Entered, Refusing, Declined, Accepted, Stopped
  <2>3. Signalled(d, q)'
    BY <1>3, <1>8, <2>1, <2>2 DEF Signalled, NoFlag
  <2> QED  BY <2>3 DEF CritInv
<1>9. ASSUME NEW d \in Call, NEW q \in Pthread, Stopping(d, q) PROVE CritInv'
  <2>1. d # c
    BY <1>9 DEF Stopping, CritCall
  <2>2. Stopping(d, q)'
    BY <1>3, <1>9, <2>1 DEF Stopping, NoFlag, Silent, Stopped
  <2> QED  BY <2>2 DEF CritInv
<1>10. ASSUME NEW d \in Call, NEW q \in Pthread, Resuming(d, q) PROVE CritInv'
  <2>1. d # c
    BY <1>10 DEF Resuming
  <2>2. Resuming(d, q)'
    BY <1>3, <1>10, <2>1 DEF Resuming, NoFlag, Waited, Flagged, Awake, Stopped
  <2> QED  BY <2>2 DEF CritInv
<1> QED
  BY <1>6, <1>7, <1>8, <1>9, <1>10 DEF CritInv

(* A step of a call inside its critical section that touches no pthread    *)
(* keeps whatever is quiet quiet.                                          *)
LEMMA QuietSame ==
  ASSUME UNCHANGED <<ident, resumeRan, pendI, pendR, loc, target>>
  PROVE  \A w : CalmBut(w) => CalmBut(w)'
<1>1. \A p \in Pthread : ThreadOf(p)' = ThreadOf(p)
  BY DEF ThreadOf
<1>2. \A p \in Pthread : Calm(p) => Calm(p)'
  BY <1>1 DEF Calm, Stopped
<1> QED
  BY <1>2 DEF CalmBut

(* A step of a caller that changes no pthread.                             *)
LEMMA StatusSame ==
  ASSUME StatusInv, UNCHANGED <<ident, stack, disable, nlj, loc, ret, henv, old, entry>>,
         \A c \in Call : loc[c] # "none" => target'[c] = target[c],
         \A c \in Call : cpc'[c] \in {"waitSuspended", "waited"} =>
           \/ \E d \in Call : cpc[d] \in {"waitSuspended", "waited"}
           \/ \A t \in Target : ~Stopped(ident[t])
  PROVE  StatusInv'
<1>1. \A p \in Pthread : loc[p] # "none" => ThreadOf(p)' = ThreadOf(p)
  BY DEF ThreadOf
<1>2. ASSUME NEW t \in Target PROVE EnvStatus(t)' /\ StackStatus(t)'
  <2>1. EnvStatus(t) /\ StackStatus(t)
    BY DEF StatusInv
  <2>2. StackStatus(t)'
    BY <2>1 DEF StackStatus
  <2>3. EnvStatus(t)'
    BY <2>1 DEF EnvStatus, Stopped
  <2> QED  BY <2>2, <2>3
<1>3. ASSUME NEW p \in Pthread PROVE HandlerStatus(p)'
  BY <1>1 DEF StatusInv, HandlerStatus, Stopped, HandlerLoc
<1>4. ASSUME NEW c \in Call PROVE EntryStatus(c)'
  BY DEF StatusInv, EntryStatus, CodeLoc
<1> QED
  BY <1>2, <1>3, <1>4 DEF StatusInv

(* A step of the pthread p on the env of the thread u.                     *)
LEMMA StatusStep ==
  ASSUME ChainInv, StatusInv, UNCHANGED <<ident, stack, target, cpc>>,
         NEW p \in Pthread, NEW u \in Target,
         \A q \in Pthread : q # p => /\ loc'[q] = loc[q] /\ ret'[q] = ret[q]
                                     /\ henv'[q] = henv[q] /\ old'[q] = old[q],
         \A c \in Call : c # p => entry'[c] = entry[c],
         \A t \in Target : t # u => disable'[t] = disable[t] /\ nlj'[t] = nlj[t],
         \A t \in Target : p = ident[t] => t = u,
         Stopped(p) => ret'[p] = ret[p],
         EnvStatus(u)', HandlerStatus(p)', p \in Call => EntryStatus(p)'
  PROVE  StatusInv'
<1>0. \A t \in Target : /\ ident[t] \in Pthread
                        /\ \A k \in 1 .. Len(stack[t]) : /\ stack[t][k].ident \in Pthread
                                                         /\ Stopped(stack[t][k].ident)
  BY DEF ChainInv, On
<1>1. \A q \in Pthread : ThreadOf(q)' = ThreadOf(q)
  BY DEF ThreadOf
<1>2. ASSUME NEW t \in Target PROVE StackStatus(t)'
  <2>1. StackStatus(t)
    BY DEF StatusInv
  <2> QED  BY <1>0, <2>1 DEF StackStatus
<1>3. ASSUME NEW t \in Target, t # u PROVE EnvStatus(t)'
  <2>1. EnvStatus(t)
    BY DEF StatusInv
  <2>2. PICK q \in Pthread : q = ident[t]
    BY <1>0
  <2>3. q # p
    BY <1>3, <2>2
  <2> QED  BY <1>3, <2>1, <2>2, <2>3 DEF EnvStatus, Stopped
<1>4. ASSUME NEW q \in Pthread, q # p PROVE HandlerStatus(q)'
  BY <1>1, <1>4 DEF StatusInv, HandlerStatus, Stopped
<1>5. ASSUME NEW c \in Call, c # p PROVE EntryStatus(c)'
  BY <1>5, Sorts DEF StatusInv, EntryStatus, CodeLoc
<1> QED
  BY <1>2, <1>3, <1>4, <1>5 DEF StatusInv

(* The code of a pthread that has the env goes on outside of any handler.  *)
LEMMA StatusRun ==
  ASSUME TypeOK, ChainInv, StatusInv, UNCHANGED <<ident, stack, target, cpc, ret, henv>>,
         NEW p \in Pthread, NEW u \in Target, p = ident[u], ~Stopped(p),
         \A t \in Target : p = ident[t] => t = u,
         NEW l, loc' = [loc EXCEPT ![p] = l], l \notin HandlerLoc,
         \A q \in Pthread : old'[q] = 0,
         \A c \in Call : c # p => entry'[c] = entry[c],
         p \in Call => l # "done",
         p \in Call /\ l \in LispLoc \cup {"enabled", "unwinding"} => entry'[p] = 2,
         \A t \in Target : t # u => disable'[t] = disable[t] /\ nlj'[t] = nlj[t],
         disable'[u] = Level(l)
  PROVE  StatusInv'
<1>0. loc \in [Pthread -> Locations] /\ \A q \in Pthread : old[q] = 0
  BY DEF TypeOK, StatusInv, HandlerStatus
<1>1. loc'[p] = l /\ \A q \in Pthread : q # p => loc'[q] = loc[q]
  BY <1>0
<1>2. loc'[p] \notin {"suspending", "suspended", "waking", "returning", "entered", "refusing"}
  BY <1>1 DEF HandlerLoc
<1>3. EnvStatus(u)'
  BY <1>1, <1>2 DEF EnvStatus, Stopped
<1>4. HandlerStatus(p)'
  BY <1>1, <1>2 DEF HandlerStatus, Stopped
<1>5. p \in Call => EntryStatus(p)'
  BY <1>1 DEF EntryStatus, CodeLoc
<1> QED
  BY <1>0, <1>1, <1>3, <1>4, <1>5, StatusStep
-----------------------------------------------------------------------------
(* The steps of a pthread outside of the signal handlers.                  *)

(* A pthread outside of the handlers has the env, with the interrupt       *)
(* status of the place it is at.                                           *)
LEMMA CodeStatus ==
  ASSUME Inv, NEW p \in Pthread, loc[p] \notin HandlerLoc \cup Over
  PROVE  /\ ThreadOf(p) \in Target /\ p = ident[ThreadOf(p)]
         /\ \A t \in Target : p = ident[t] => t = ThreadOf(p)
         /\ disable[ThreadOf(p)] = Level(loc[p])
         /\ \A q \in Pthread : old[q] = 0
         /\ p \in Call /\ loc[p] \in LispLoc \cup {"enabled", "unwinding"} => entry[p] = 2
<1>0. TypeOK /\ CallInv /\ ChainInv /\ CritInv /\ StatusInv
  BY DEF Inv
<1>1. loc[p] \notin Special \cup Over
  BY DEF HandlerLoc, Special
<1>2. PICK u \in Target : u = ThreadOf(p)
  BY <1>0, <1>1, Runner
<1>3. p = ident[u] /\ \A t \in Target : p = ident[t] => t = u
  BY <1>0, <1>1, <1>2, Runner
<1>4. disable[u] = Level(loc[p])
  BY <1>0, <1>3 DEF StatusInv, EnvStatus
<1>5. \A q \in Pthread : old[q] = 0
  BY <1>0 DEF StatusInv, HandlerStatus
<1>6. p \in Call /\ loc[p] \in LispLoc \cup {"enabled", "unwinding"} => entry[p] = 2
  BY <1>0 DEF StatusInv, EntryStatus, CodeLoc
<1> QED  BY <1>2, <1>3, <1>4, <1>5, <1>6

(* A step of the code of a thread, outside the handlers, keeps the         *)
(* invariant if it sets the status that belongs to where it goes.          *)
LEMMA CodeRuns ==
  ASSUME Inv, TypeOK', NEW p \in Pthread, loc[p] \notin HandlerLoc \cup Over,
         UNCHANGED <<lock, ienv, refused, cpc, target, tries, outcome, ident, stack,
                     resumeRan, pendI, pendR, ret, henv>>,
         sem'["suspended"] = sem["suspended"] /\ sem'["resumed"] = sem["resumed"],
         NEW l, loc' = [loc EXCEPT ![p] = l],
         l \notin HandlerLoc \cup {"none", "waitResumed", "popped"},
         p \in Target => l \notin {"born", "enabled", "popping"},
         p \in Call => l # "gone",
         \A q \in Pthread : old'[q] = 0,
         \A c \in Call : c # p => entry'[c] = entry[c],
         p \in Call => l # "done",
         p \in Call /\ l \in LispLoc \cup {"enabled", "unwinding"} => entry'[p] = 2,
         \A t \in Target : t # ThreadOf(p) => disable'[t] = disable[t] /\ nlj'[t] = nlj[t],
         disable'[ThreadOf(p)] = Level(l)
  PROVE  Inv'
<1>0. TypeOK /\ CallInv /\ ChainInv /\ CritInv /\ StatusInv
  BY DEF Inv
<1>1. loc[p] \notin Special \cup Over /\ l \notin Special /\ ~Stopped(p)
  BY DEF HandlerLoc, Special, Stopped
<1>2. PICK u \in Target : u = ThreadOf(p)
  BY <1>0, <1>1, Runner
<1>3. p = ident[u] /\ \A t \in Target : p = ident[t] => t = u
  BY <1>0, <1>1, <1>2, Runner
<1>4. CallInv'
  <2>1. loc \in [Pthread -> Locations]
    BY <1>0 DEF TypeOK
  <2>2. \A c \in Call : /\ loc'[c] = "none" <=> loc[c] = "none"
                        /\ loc'[c] \in {"waitResumed", "popped"} <=>
                             loc[c] \in {"waitResumed", "popped"}
    BY <1>1, <2>1, Sorts DEF Over
  <2> QED  BY <1>0, <2>2, CallFrame
<1>5. ChainInv'
  BY <1>0, <1>1, ChainMove DEF Over
<1>6. CritInv'
  <2>1. Idle(p, l)
    BY <1>1 DEF Idle
  <2>2. \A t \in Target : p = ident[t] => ThreadOf(p) = t
    BY <1>2, <1>3
  <2> QED  BY <1>0, <2>1, <2>2, CritMove
<1>7. StatusInv'
  <2>1. /\ \A t \in Target : t # u => disable'[t] = disable[t] /\ nlj'[t] = nlj[t]
        /\ disable'[u] = Level(l) /\ l \notin HandlerLoc
    BY <1>2
  <2> QED  BY <1>0, <1>1, <1>3, <2>1, StatusRun
<1> QED  BY <1>4, <1>5, <1>6, <1>7 DEF Inv
(* The steps of the code of a thread, one lemma for each action.           *)
LEMMA LandStep ==
  ASSUME Inv, NEW p \in Pthread, Land(p)
  PROVE  Inv'
<1>0. TypeOK
  BY DEF Inv
<1>1. loc[p] = "unwinding" /\ loc' = [loc EXCEPT ![p] = "run"]
  BY DEF Land, Goto
<1>2. PICK u \in Target : u = ThreadOf(p)
  BY <1>1, CodeStatus DEF HandlerLoc, Over
<1>3. /\ nlj' = [nlj EXCEPT ![u] = FALSE]
      /\ disable' = [disable EXCEPT ![u] = 0]
  BY <1>2 DEF Land
<1>4. UNCHANGED <<lock, ienv, refused, forcefully, sem, cpc, target, tries,
                  outcome, done, ident, slot, stack, resumeRan, sleepingOn,
                  ret, henv, old, entry, pendI, pendR, ran, races>>
  BY DEF Land, shared, calls, thread, pthread
<1>5. /\ disable[u] = Level(loc[p]) /\ \A q \in Pthread : old[q] = 0
      /\ p \in Call => entry[p] = 2
  BY <1>1, <1>2, CodeStatus DEF HandlerLoc, Over, LispLoc
<1>6. TypeOK'
  <2>1. loc' \in [Pthread -> Locations]
    BY <1>0, <1>1, <1>3, <1>4, Names DEF TypeOK
  <2>2. nlj' \in [Target -> BOOLEAN]
    BY <1>0, <1>1, <1>3, <1>4, Names DEF TypeOK
  <2>3. disable' \in [Target -> 0 .. 2]
    BY <1>0, <1>1, <1>3, <1>4, Names DEF TypeOK
  <2> QED  BY <1>0, <1>1, <1>3, <1>4, <2>1, <2>2, <2>3 DEF TypeOK
<1>7. /\ \A q \in Pthread : old'[q] = 0
      /\ \A t \in Target : t # u => disable'[t] = disable[t] /\ nlj'[t] = nlj[t]
      /\ disable'[u] = Level("run")
  BY <1>0, <1>1, <1>3, <1>4, <1>5 DEF TypeOK, Level
<1>8. loc[p] \notin HandlerLoc \cup Over
      /\ "run" \notin HandlerLoc \cup {"none", "waitResumed", "popped", "born", "enabled", "popping"}
  BY <1>1 DEF HandlerLoc, Over
<1> QED
  BY <1>1, <1>2, <1>4, <1>5, <1>6, <1>7, <1>8, CodeRuns

LEMMA NoIntrStep ==
  ASSUME Inv, NEW p \in Pthread, NoIntr(p)
  PROVE  Inv'
<1>0. TypeOK
  BY DEF Inv
<1>1. loc[p] = "run" /\ loc' = [loc EXCEPT ![p] = "nointr"]
  BY DEF NoIntr, Goto
<1>2. PICK u \in Target : u = ThreadOf(p)
  BY <1>1, CodeStatus DEF HandlerLoc, Over
<1>3. /\ old' = [old EXCEPT ![p] = disable[u]]
      /\ disable' = [disable EXCEPT ![u] = 1]
  BY <1>2 DEF NoIntr
<1>4. UNCHANGED <<lock, ienv, refused, forcefully, sem, cpc, target, tries,
                  outcome, done, ident, slot, stack, resumeRan, sleepingOn,
                  nlj, ret, henv, entry, pendI, pendR, ran, races>>
  BY DEF NoIntr, shared, calls, thread, pthread
<1>5. /\ disable[u] = Level(loc[p]) /\ \A q \in Pthread : old[q] = 0
      /\ p \in Call => entry[p] = 2
  BY <1>1, <1>2, CodeStatus DEF HandlerLoc, Over, LispLoc
<1>6. TypeOK'
  <2>1. loc' \in [Pthread -> Locations]
    BY <1>0, <1>1, <1>3, <1>4, Names DEF TypeOK
  <2>2. old' \in [Pthread -> 0 .. 2]
    BY <1>0, <1>1, <1>3, <1>4, Names DEF TypeOK
  <2>3. disable' \in [Target -> 0 .. 2]
    BY <1>0, <1>1, <1>3, <1>4, Names DEF TypeOK
  <2> QED  BY <1>0, <1>1, <1>3, <1>4, <2>1, <2>2, <2>3 DEF TypeOK
<1>7. /\ \A q \in Pthread : old'[q] = 0
      /\ \A t \in Target : t # u => disable'[t] = disable[t] /\ nlj'[t] = nlj[t]
      /\ disable'[u] = Level("nointr")
  BY <1>0, <1>1, <1>3, <1>4, <1>5 DEF TypeOK, Level
<1>8. loc[p] \notin HandlerLoc \cup Over
      /\ "nointr" \notin HandlerLoc \cup {"none", "waitResumed", "popped", "born", "enabled", "popping"}
  BY <1>1 DEF HandlerLoc, Over
<1> QED
  BY <1>1, <1>2, <1>4, <1>5, <1>6, <1>7, <1>8, CodeRuns

LEMMA EndNoIntrStep ==
  ASSUME Inv, NEW p \in Pthread, EndNoIntr(p)
  PROVE  Inv'
<1>0. TypeOK
  BY DEF Inv
<1>1. loc[p] = "nointr" /\ loc' = [loc EXCEPT ![p] = "run"]
  BY DEF EndNoIntr, Goto
<1>2. PICK u \in Target : u = ThreadOf(p)
  BY <1>1, CodeStatus DEF HandlerLoc, Over
<1>3. /\ disable' = [disable EXCEPT ![u] = old[p]]
      /\ old' = [old EXCEPT ![p] = 0]
  BY <1>2 DEF EndNoIntr
<1>4. UNCHANGED <<lock, ienv, refused, forcefully, sem, cpc, target, tries,
                  outcome, done, ident, slot, stack, resumeRan, sleepingOn,
                  nlj, ret, henv, entry, pendI, pendR, ran, races>>
  BY DEF EndNoIntr, shared, calls, thread, pthread
<1>5. /\ disable[u] = Level(loc[p]) /\ \A q \in Pthread : old[q] = 0
      /\ p \in Call => entry[p] = 2
  BY <1>1, <1>2, CodeStatus DEF HandlerLoc, Over, LispLoc
<1>6. TypeOK'
  <2>1. loc' \in [Pthread -> Locations]
    BY <1>0, <1>1, <1>3, <1>4, Names DEF TypeOK
  <2>2. old' \in [Pthread -> 0 .. 2]
    BY <1>0, <1>1, <1>3, <1>4, Names DEF TypeOK
  <2>3. disable' \in [Target -> 0 .. 2]
    BY <1>0, <1>1, <1>3, <1>4, Names DEF TypeOK
  <2> QED  BY <1>0, <1>1, <1>3, <1>4, <2>1, <2>2, <2>3 DEF TypeOK
<1>7. /\ \A q \in Pthread : old'[q] = 0
      /\ \A t \in Target : t # u => disable'[t] = disable[t] /\ nlj'[t] = nlj[t]
      /\ disable'[u] = Level("run")
  BY <1>0, <1>1, <1>3, <1>4, <1>5 DEF TypeOK, Level
<1>8. loc[p] \notin HandlerLoc \cup Over
      /\ "run" \notin HandlerLoc \cup {"none", "waitResumed", "popped", "born", "enabled", "popping"}
  BY <1>1 DEF HandlerLoc, Over
<1> QED
  BY <1>1, <1>2, <1>4, <1>5, <1>6, <1>7, <1>8, CodeRuns

LEMMA ZzzStep ==
  ASSUME Inv, NEW p \in Pthread, Zzz(p)
  PROVE  Inv'
<1>0. TypeOK
  BY DEF Inv
<1>1. loc[p] = "run" /\ loc' = [loc EXCEPT ![p] = "zzz"]
  BY DEF Zzz, Goto
<1>2. PICK u \in Target : u = ThreadOf(p)
  BY <1>1, CodeStatus DEF HandlerLoc, Over
<1>3. /\ old' = [old EXCEPT ![p] = disable[u]]
      /\ disable' = [disable EXCEPT ![u] = 1]
      /\ sleepingOn' = [sleepingOn EXCEPT ![u] = TRUE]
  BY <1>2 DEF Zzz
<1>4. UNCHANGED <<lock, ienv, refused, forcefully, sem, cpc, target, tries,
                  outcome, done, ident, slot, stack, resumeRan, nlj, ret,
                  henv, entry, pendI, pendR, ran, races>>
  BY DEF Zzz, shared, calls, thread, pthread
<1>5. /\ disable[u] = Level(loc[p]) /\ \A q \in Pthread : old[q] = 0
      /\ p \in Call => entry[p] = 2
  BY <1>1, <1>2, CodeStatus DEF HandlerLoc, Over, LispLoc
<1>6. TypeOK'
  <2>1. loc' \in [Pthread -> Locations]
    BY <1>0, <1>1, <1>3, <1>4, Names DEF TypeOK
  <2>2. old' \in [Pthread -> 0 .. 2]
    BY <1>0, <1>1, <1>3, <1>4, Names DEF TypeOK
  <2>3. disable' \in [Target -> 0 .. 2]
    BY <1>0, <1>1, <1>3, <1>4, Names DEF TypeOK
  <2>4. sleepingOn' \in [Target -> BOOLEAN]
    BY <1>0, <1>1, <1>3, <1>4, Names DEF TypeOK
  <2> QED  BY <1>0, <1>1, <1>3, <1>4, <2>1, <2>2, <2>3, <2>4 DEF TypeOK
<1>7. /\ \A q \in Pthread : old'[q] = 0
      /\ \A t \in Target : t # u => disable'[t] = disable[t] /\ nlj'[t] = nlj[t]
      /\ disable'[u] = Level("zzz")
  BY <1>0, <1>1, <1>3, <1>4, <1>5 DEF TypeOK, Level
<1>8. loc[p] \notin HandlerLoc \cup Over
      /\ "zzz" \notin HandlerLoc \cup {"none", "waitResumed", "popped", "born", "enabled", "popping"}
  BY <1>1 DEF HandlerLoc, Over
<1> QED
  BY <1>1, <1>2, <1>4, <1>5, <1>6, <1>7, <1>8, CodeRuns

LEMMA EndZzzStep ==
  ASSUME Inv, NEW p \in Pthread, EndZzz(p)
  PROVE  Inv'
<1>0. TypeOK
  BY DEF Inv
<1>1. loc[p] = "asleep" /\ loc' = [loc EXCEPT ![p] = "woke"]
  BY DEF EndZzz, Goto
<1>2. PICK u \in Target : u = ThreadOf(p)
  BY <1>1, CodeStatus DEF HandlerLoc, Over
<1>3. /\ disable' = [disable EXCEPT ![u] = old[p]]
      /\ old' = [old EXCEPT ![p] = 0]
      /\ sleepingOn' = [sleepingOn EXCEPT ![u] = FALSE]
  BY <1>2 DEF EndZzz
<1>4. UNCHANGED <<lock, ienv, refused, forcefully, sem, cpc, target, tries,
                  outcome, done, ident, slot, stack, resumeRan, nlj, ret,
                  henv, entry, pendI, pendR, ran, races>>
  BY DEF EndZzz, shared, calls, thread, pthread
<1>5. /\ disable[u] = Level(loc[p]) /\ \A q \in Pthread : old[q] = 0
      /\ p \in Call => entry[p] = 2
  BY <1>1, <1>2, CodeStatus DEF HandlerLoc, Over, LispLoc
<1>6. TypeOK'
  <2>1. loc' \in [Pthread -> Locations]
    BY <1>0, <1>1, <1>3, <1>4, Names DEF TypeOK
  <2>2. old' \in [Pthread -> 0 .. 2]
    BY <1>0, <1>1, <1>3, <1>4, Names DEF TypeOK
  <2>3. disable' \in [Target -> 0 .. 2]
    BY <1>0, <1>1, <1>3, <1>4, Names DEF TypeOK
  <2>4. sleepingOn' \in [Target -> BOOLEAN]
    BY <1>0, <1>1, <1>3, <1>4, Names DEF TypeOK
  <2> QED  BY <1>0, <1>1, <1>3, <1>4, <2>1, <2>2, <2>3, <2>4 DEF TypeOK
<1>7. /\ \A q \in Pthread : old'[q] = 0
      /\ \A t \in Target : t # u => disable'[t] = disable[t] /\ nlj'[t] = nlj[t]
      /\ disable'[u] = Level("woke")
  BY <1>0, <1>1, <1>3, <1>4, <1>5 DEF TypeOK, Level
<1>8. loc[p] \notin HandlerLoc \cup Over
      /\ "woke" \notin HandlerLoc \cup {"none", "waitResumed", "popped", "born", "enabled", "popping"}
  BY <1>1 DEF HandlerLoc, Over
<1> QED
  BY <1>1, <1>2, <1>4, <1>5, <1>6, <1>7, <1>8, CodeRuns

LEMMA TestForThreadShutdownStep ==
  ASSUME Inv, NEW p \in Pthread, TestForThreadShutdown(p)
  PROVE  Inv'
<1>0. TypeOK
  BY DEF Inv
<1> DEFINE l == IF loc[p] = "zzz" THEN "asleep" ELSE "run"
<1>1. /\ loc' = [loc EXCEPT ![p] = l] /\ loc[p] \in {"zzz", "woke"}
      /\ loc[p] = "zzz" => l = "asleep"
      /\ loc[p] # "zzz" => l = "run"
  <2>1. loc' = [loc EXCEPT ![p] = l]
    BY DEF TestForThreadShutdown, Goto
  <2>2. loc[p] \in {"zzz", "woke"}
    BY DEF TestForThreadShutdown
  <2> QED  BY <2>1, <2>2
<1> HIDE DEF l
<1>2. PICK u \in Target : u = ThreadOf(p)
  BY <1>1, CodeStatus DEF HandlerLoc, Over
<1>3. \/ /\ slot[u] # NIL
         /\ slot' = [slot EXCEPT ![u] = NIL] /\ sem' = [sem EXCEPT !["sleeper"] = @ + 1]
         /\ ran' = [ran EXCEPT ![slot[u]] = IF @ < 2 THEN @ + 1 ELSE @]
      \/ UNCHANGED <<slot, sem, ran>>
  BY <1>2 DEF TestForThreadShutdown, Post, Count
<1>4. UNCHANGED <<lock, ienv, refused, forcefully, cpc, target, tries,
                  outcome, done, ident, stack, resumeRan, disable,
                  sleepingOn, nlj, ret, henv, old, entry, pendI, pendR, races>>
  BY DEF TestForThreadShutdown, shared, calls, thread, pthread
<1>5. /\ disable[u] = Level(loc[p]) /\ \A q \in Pthread : old[q] = 0
      /\ p \in Call => entry[p] = 2
  BY <1>1, <1>2, CodeStatus DEF HandlerLoc, Over, LispLoc
<1>6. TypeOK'
  <2>1. loc' \in [Pthread -> Locations]
    BY <1>0, <1>1, <1>3, <1>4, Names DEF TypeOK
  <2>2. slot' \in [Target -> Call \cup {NIL}]
    BY <1>0, <1>1, <1>3, <1>4, Names DEF TypeOK
  <2>3. sem' \in [Semaphores -> Nat]
    BY <1>0, <1>3, Posts, Names DEF TypeOK
  <2>4. ran' \in [Call -> 0 .. 2]
    <3>1. slot[u] \in Call \cup {NIL} /\ ran \in [Call -> 0 .. 2]
      BY <1>0 DEF TypeOK
    <3> QED  BY <1>0, <1>3, <3>1, Counts
  <2> QED  BY <1>0, <1>1, <1>3, <1>4, <2>1, <2>2, <2>3, <2>4 DEF TypeOK
<1>7. /\ disable[u] = Level(l)
      /\ sem'["suspended"] = sem["suspended"] /\ sem'["resumed"] = sem["resumed"]
  <2>1. disable[u] = Level(l)
    BY <1>1, <1>5 DEF Level
  <2>2. sem'["suspended"] = sem["suspended"] /\ sem'["resumed"] = sem["resumed"]
    BY <1>0, <1>3, Posts, Names
  <2> QED  BY <2>1, <2>2
<1>8. /\ loc[p] \notin HandlerLoc \cup Over
      /\ l \notin HandlerLoc \cup {"none", "waitResumed", "popped", "born", "enabled", "popping"}
  BY <1>1 DEF HandlerLoc, Over
<1> QED
  BY <1>1, <1>2, <1>4, <1>5, <1>6, <1>7, <1>8, CodeRuns

LEMMA ThreadDoneStep ==
  ASSUME Inv, NEW t \in Target, ThreadDone(t)
  PROVE  Inv'
<1>0. TypeOK /\ t \in Pthread /\ t \notin Call /\ ThreadOf(t) = t
  BY Sorts DEF Inv, ThreadOf
<1>1. loc[t] = "run" /\ loc' = [loc EXCEPT ![t] = "done"]
  BY DEF ThreadDone, Goto
<1>3. done' = [done EXCEPT ![t] = TRUE]
  BY DEF ThreadDone
<1>4. UNCHANGED <<lock, ienv, refused, forcefully, sem, cpc, target, tries,
                  outcome, ident, slot, stack, resumeRan, disable,
                  sleepingOn, nlj, ret, henv, old, entry, pendI, pendR, ran,
                  races>>
  BY DEF ThreadDone, shared, calls, thread, pthread
<1>5. disable[t] = Level(loc[t]) /\ \A q \in Pthread : old[q] = 0
  BY <1>0, <1>1, CodeStatus DEF HandlerLoc, Over
<1>6. TypeOK'
  <2>1. loc' \in [Pthread -> Locations]
    BY <1>0, <1>1, <1>3, <1>4, Names DEF TypeOK
  <2>2. done' \in [Target -> BOOLEAN]
    BY <1>0, <1>1, <1>3, <1>4, Names DEF TypeOK
  <2> QED  BY <1>0, <1>1, <1>3, <1>4, <2>1, <2>2 DEF TypeOK
<1>7. disable[t] = Level("done")
  BY <1>1, <1>5 DEF Level
<1>8. loc[t] \notin HandlerLoc \cup Over
      /\ "done" \notin HandlerLoc \cup {"none", "waitResumed", "popped", "born", "enabled", "popping"}
  BY <1>1 DEF HandlerLoc, Over
<1> QED
  BY <1>0, <1>1, <1>4, <1>5, <1>6, <1>7, <1>8, CodeRuns

LEMMA PthreadEndsStep ==
  ASSUME Inv, NEW t \in Target, PthreadEnds(t)
  PROVE  Inv'
<1>0. TypeOK /\ t \in Pthread /\ t \notin Call /\ ThreadOf(t) = t
  BY Sorts DEF Inv, ThreadOf
<1>1. loc[t] = "done" /\ loc' = [loc EXCEPT ![t] = "gone"]
  BY DEF PthreadEnds, Goto
<1>4. UNCHANGED <<lock, ienv, refused, forcefully, sem, cpc, target, tries,
                  outcome, done, ident, slot, stack, resumeRan, disable,
                  sleepingOn, nlj, ret, henv, old, entry, pendI, pendR, ran,
                  races>>
  BY DEF PthreadEnds, shared, calls, thread, pthread
<1>5. disable[t] = Level(loc[t]) /\ \A q \in Pthread : old[q] = 0
  BY <1>0, <1>1, CodeStatus DEF HandlerLoc, Over
<1>6. TypeOK'
  <2>1. loc' \in [Pthread -> Locations]
    BY <1>0, <1>1, <1>4, Names DEF TypeOK
  <2> QED  BY <1>0, <1>1, <1>4, <2>1 DEF TypeOK
<1>7. disable[t] = Level("gone")
  BY <1>1, <1>5 DEF Level
<1>8. loc[t] \notin HandlerLoc \cup Over
      /\ "gone" \notin HandlerLoc \cup {"none", "waitResumed", "popped", "born", "enabled", "popping"}
  BY <1>1 DEF HandlerLoc, Over
<1> QED
  BY <1>0, <1>1, <1>4, <1>5, <1>6, <1>7, <1>8, CodeRuns

LEMMA BeginStep ==
  ASSUME Inv, NEW c \in Call, Begin(c)
  PROVE  Inv'
<1>0. TypeOK /\ c \in Pthread /\ c \notin Target
  BY Sorts DEF Inv
<1>1. loc[c] = "born" /\ loc' = [loc EXCEPT ![c] = "enabled"]
  BY DEF Begin, Goto
<1>2. PICK u \in Target : u = ThreadOf(c)
  BY <1>0, <1>1, CodeStatus DEF HandlerLoc, Over
<1>3. /\ \/ sem["run"] > 0 /\ sem' = [sem EXCEPT !["run"] = @ - 1]
         \/ UNCHANGED sem
      /\ entry' = [entry EXCEPT ![c] = disable[u]]
      /\ disable' = [disable EXCEPT ![u] = 0]
  BY <1>2 DEF Begin, ThreadOf, Take, Count
<1>4. UNCHANGED <<lock, ienv, refused, forcefully, cpc, target, tries,
                  outcome, done, ident, slot, stack, resumeRan, sleepingOn,
                  nlj, ret, henv, old, pendI, pendR, ran, races>>
  BY DEF Begin, shared, calls, thread, pthread
<1>5. /\ disable[u] = Level(loc[c]) /\ \A q \in Pthread : old[q] = 0
  BY <1>0, <1>1, <1>2, CodeStatus DEF HandlerLoc, Over, LispLoc
<1>6. TypeOK'
  <2>1. loc' \in [Pthread -> Locations]
    BY <1>0, <1>1, <1>3, <1>4, Names DEF TypeOK
  <2>2. sem' \in [Semaphores -> Nat]
    BY <1>0, <1>3, Takes, Names DEF TypeOK
  <2>3. entry' \in [Call -> 0 .. 2]
    BY <1>0, <1>1, <1>3, <1>4, Names DEF TypeOK
  <2>4. disable' \in [Target -> 0 .. 2]
    BY <1>0, <1>1, <1>3, <1>4, Names DEF TypeOK
  <2> QED  BY <1>0, <1>1, <1>3, <1>4, <2>1, <2>2, <2>3, <2>4 DEF TypeOK
<1>7. /\ \A t \in Target : t # u => disable'[t] = disable[t] /\ nlj'[t] = nlj[t]
      /\ disable'[u] = Level("enabled") /\ \A d \in Call : d # c => entry'[d] = entry[d]
      /\ entry'[c] = 2
      /\ sem'["suspended"] = sem["suspended"] /\ sem'["resumed"] = sem["resumed"]
  <2>1. sem'["suspended"] = sem["suspended"] /\ sem'["resumed"] = sem["resumed"]
    BY <1>0, <1>3, Takes, Names
  <2> QED  BY <1>0, <1>1, <1>3, <1>4, <1>5, <2>1 DEF TypeOK, Level
<1>8. loc[c] \notin HandlerLoc \cup Over
      /\ "enabled" \notin HandlerLoc \cup {"none", "waitResumed", "popped"}
  BY <1>1 DEF HandlerLoc, Over
<1> QED
  BY <1>0, <1>1, <1>2, <1>4, <1>5, <1>6, <1>7, <1>8, CodeRuns

LEMMA CallFunctionStep ==
  ASSUME Inv, NEW c \in Call, CallFunction(c)
  PROVE  Inv'
<1>0. TypeOK /\ c \in Pthread /\ c \notin Target
  BY Sorts DEF Inv
<1>1. loc[c] = "enabled" /\ loc' = [loc EXCEPT ![c] = "run"]
  BY DEF CallFunction, Goto
<1>2. PICK u \in Target : u = ThreadOf(c)
  BY <1>0, <1>1, CodeStatus DEF HandlerLoc, Over
<1>3. /\ \/ UNCHANGED ran
         \/ slot[u] # NIL /\ ran' = [ran EXCEPT ![slot[u]] = IF @ < 2 THEN @ + 1 ELSE @]
  BY <1>2 DEF CallFunction, ThreadOf, Take, Count
<1>4. UNCHANGED <<lock, ienv, refused, forcefully, sem, cpc, target, tries,
                  outcome, done, ident, slot, stack, resumeRan, disable,
                  sleepingOn, nlj, ret, henv, old, entry, pendI, pendR, races>>
  BY DEF CallFunction, shared, calls, thread, pthread
<1>5. /\ disable[u] = Level(loc[c]) /\ \A q \in Pthread : old[q] = 0
      /\ entry[c] = 2
  BY <1>0, <1>1, <1>2, CodeStatus DEF HandlerLoc, Over, LispLoc
<1>6. TypeOK'
  <2>1. loc' \in [Pthread -> Locations]
    BY <1>0, <1>1, <1>3, <1>4, Names DEF TypeOK
  <2>2. ran' \in [Call -> 0 .. 2]
    <3>1. slot[u] \in Call \cup {NIL} /\ ran \in [Call -> 0 .. 2]
      BY <1>0 DEF TypeOK
    <3> QED  BY <1>0, <1>3, <3>1, Counts
  <2> QED  BY <1>0, <1>1, <1>3, <1>4, <2>1, <2>2 DEF TypeOK
<1>7. /\ \A t \in Target : t # u => disable'[t] = disable[t] /\ nlj'[t] = nlj[t]
      /\ disable'[u] = Level("run") /\ \A d \in Call : d # c => entry'[d] = entry[d]
      /\ entry'[c] = 2
      /\ sem'["suspended"] = sem["suspended"] /\ sem'["resumed"] = sem["resumed"]
  BY <1>0, <1>1, <1>3, <1>4, <1>5 DEF TypeOK, Level
<1>8. loc[c] \notin HandlerLoc \cup Over
      /\ "run" \notin HandlerLoc \cup {"none", "waitResumed", "popped"}
  BY <1>1 DEF HandlerLoc, Over
<1> QED
  BY <1>0, <1>1, <1>2, <1>4, <1>5, <1>6, <1>7, <1>8, CodeRuns

LEMMA FunctionEndsStep ==
  ASSUME Inv, NEW c \in Call, NEW exit \in BOOLEAN, FunctionEnds(c, exit)
  PROVE  Inv'
<1>0. TypeOK /\ c \in Pthread /\ c \notin Target
  BY Sorts DEF Inv
<1>1. loc[c] = "run" /\ loc' = [loc EXCEPT ![c] = "popping"]
  BY DEF FunctionEnds, Goto
<1>2. PICK u \in Target : u = ThreadOf(c)
  BY <1>0, <1>1, CodeStatus DEF HandlerLoc, Over
<1>3. /\ nlj' = [nlj EXCEPT ![u] = exit]
      /\ disable' = [disable EXCEPT ![u] = entry[c]]
      /\ entry' = [entry EXCEPT ![c] = 0]
  BY <1>2 DEF FunctionEnds, ThreadOf, Take, Count
<1>4. UNCHANGED <<lock, ienv, refused, forcefully, sem, cpc, target, tries,
                  outcome, done, ident, slot, stack, resumeRan, sleepingOn,
                  ret, henv, old, pendI, pendR, ran, races>>
  BY DEF FunctionEnds, shared, calls, thread, pthread
<1>5. /\ disable[u] = Level(loc[c]) /\ \A q \in Pthread : old[q] = 0
      /\ entry[c] = 2
  BY <1>0, <1>1, <1>2, CodeStatus DEF HandlerLoc, Over, LispLoc
<1>6. TypeOK'
  <2>1. loc' \in [Pthread -> Locations]
    BY <1>0, <1>1, <1>3, <1>4, Names DEF TypeOK
  <2>2. nlj' \in [Target -> BOOLEAN]
    BY <1>0, <1>1, <1>3, <1>4, Names DEF TypeOK
  <2>3. disable' \in [Target -> 0 .. 2]
    BY <1>0, <1>1, <1>3, <1>4, Names DEF TypeOK
  <2>4. entry' \in [Call -> 0 .. 2]
    BY <1>0, <1>1, <1>3, <1>4, Names DEF TypeOK
  <2> QED  BY <1>0, <1>1, <1>3, <1>4, <2>1, <2>2, <2>3, <2>4 DEF TypeOK
<1>7. /\ \A t \in Target : t # u => disable'[t] = disable[t] /\ nlj'[t] = nlj[t]
      /\ disable'[u] = Level("popping") /\ \A d \in Call : d # c => entry'[d] = entry[d]
      /\ sem'["suspended"] = sem["suspended"] /\ sem'["resumed"] = sem["resumed"]
  BY <1>0, <1>1, <1>3, <1>4, <1>5 DEF TypeOK, Level
<1>8. loc[c] \notin HandlerLoc \cup Over
      /\ "popping" \notin HandlerLoc \cup {"none", "waitResumed", "popped"}
  BY <1>1 DEF HandlerLoc, Over
<1>9. "popping" \notin LispLoc \cup {"enabled", "unwinding"}
  BY DEF LispLoc
<1> QED
  BY <1>0, <1>1, <1>2, <1>4, <1>5, <1>6, <1>7, <1>8, <1>9, CodeRuns

-----------------------------------------------------------------------------
(* The steps of the signal handlers.                                       *)

(* A step of one pthread leaves the others calm.                           *)
LEMMA OthersCalm ==
  ASSUME UNCHANGED <<ident, target>>, NEW p \in Pthread,
         \A q \in Pthread : q # p =>
           loc'[q] = loc[q] /\ pendI'[q] = pendI[q] /\ pendR'[q] = pendR[q]
  PROVE  CalmBut(p) => CalmBut(p)'
<1>1. \A q : ThreadOf(q)' = ThreadOf(q)
  BY DEF ThreadOf
<1>2. \A q \in Pthread : q # p /\ Calm(q) => Calm(q)'
  BY <1>1 DEF Calm, Stopped
<1> QED  BY <1>2 DEF CalmBut

(* A pthread in its handler belongs to a target, and so does its frame.    *)
LEMMA HandlerThread ==
  ASSUME Inv, NEW p \in Pthread, loc[p] \in HandlerLoc
  PROVE  /\ ThreadOf(p) \in Target /\ henv[p] = ThreadOf(p)
         /\ ret[p] \notin HandlerLoc \cup Over /\ ret[p] \in Locations
         /\ p \in Target => ret[p] \notin {"born", "enabled", "popping"}
         /\ \A t \in Target : p = ident[t] => t = ThreadOf(p)
         /\ \A q \in Pthread : old[q] = 0
<1>0. TypeOK /\ CallInv /\ ChainInv /\ StatusInv
  BY DEF Inv
<1>1. ThreadOf(p) \in Target
  BY <1>0, Owner DEF HandlerLoc
<1>2. /\ henv[p] = ThreadOf(p)
      /\ ret[p] \notin HandlerLoc \cup Over
      /\ p \in Target => ret[p] \notin {"born", "enabled", "popping"}
  BY <1>0 DEF StatusInv, HandlerStatus
<1>3. ret[p] \in Locations
  BY <1>0 DEF TypeOK
<1>4. \A t \in Target : p = ident[t] => t = ThreadOf(p)
  BY <1>0 DEF ChainInv, On
<1>5. \A q \in Pthread : old[q] = 0
  BY <1>0 DEF StatusInv, HandlerStatus
<1> QED  BY <1>1, <1>2, <1>3, <1>4, <1>5

(* A pthread that goes from one place of its handler to another in which   *)
(* the interrupt status it was interrupted with still counts.              *)
LEMMA StatusHandler ==
  ASSUME Inv, TypeOK', UNCHANGED <<ident, stack, target, cpc, ret, henv, old, entry, disable, nlj>>,
         NEW p \in Pthread, NEW l, loc' = [loc EXCEPT ![p] = l],
         loc[p] \in HandlerLoc, l \in HandlerLoc,
         l \in {"entered", "refusing"} => loc[p] \in {"entered", "refusing"},
         Stopped(p) => l \in {"suspending", "suspended", "waking", "returning"},
         ~Stopped(p) => loc[p] # "returning",
         l \notin {"entered", "refusing"} => Level(ret[p]) # 2
  PROVE  StatusInv'
<1>0. TypeOK /\ CallInv /\ ChainInv /\ StatusInv
  BY DEF Inv
<1>1. PICK u \in Target : u = ThreadOf(p)
  BY HandlerThread
<1>2. loc'[p] = l /\ \A q \in Pthread : q # p => loc'[q] = loc[q]
  BY <1>0 DEF TypeOK
<1>3. ThreadOf(p)' = ThreadOf(p)
  BY DEF ThreadOf
<1>4. EnvStatus(u)'
  <2>1. EnvStatus(u) /\ ident[u] \in Pthread
    BY <1>0 DEF StatusInv, ChainInv, On
  <2>2. CASE p # ident[u]
    <3>1. loc'[ident[u]] = loc[ident[u]]
      BY <1>2, <2>1, <2>2
    <3> QED  BY <2>1, <3>1 DEF EnvStatus, Stopped
  <2>3. CASE p = ident[u]
    <3>1. loc[p] \in {"entered", "refusing"} \/ Stopped(p)
      BY DEF HandlerLoc, Stopped
    <3>2. CASE loc[p] \in {"entered", "refusing"}
      BY <1>2, <2>1, <2>3, <3>2 DEF EnvStatus, Stopped
    <3>3. CASE Stopped(p)
      BY <1>2, <2>1, <2>3, <3>3 DEF EnvStatus, Stopped, HandlerLoc
    <3> QED  BY <3>1, <3>2, <3>3
  <2> QED  BY <2>2, <2>3
<1>5. HandlerStatus(p)'
  <2>1. HandlerStatus(p)
    BY <1>0 DEF StatusInv
  <2> QED  BY <1>2, <1>3, <2>1 DEF HandlerStatus, Stopped
<1>6. p \in Call => EntryStatus(p)'
  <2>1. p \in Call => EntryStatus(p)
    BY <1>0 DEF StatusInv
  <2> QED  BY <1>2, <2>1 DEF EntryStatus, CodeLoc
<1>7. \A t \in Target : p = ident[t] => t = u
  BY <1>1, HandlerThread
<1> QED
  BY <1>0, <1>2, <1>4, <1>5, <1>6, <1>7, StatusStep

(* A pthread that moves, and not to or from the mutex, keeps CallInv.      *)
LEMMA CallFrameMove ==
  ASSUME TypeOK, CallInv, UNCHANGED <<lock, cpc, target, tries, outcome>>,
         NEW p \in Pthread, NEW l, loc' = [loc EXCEPT ![p] = l],
         loc[p] \notin {"none", "waitResumed", "popped"}, l \notin {"none", "waitResumed", "popped"}
  PROVE  CallInv'
<1>1. loc \in [Pthread -> Locations]
  BY DEF TypeOK
<1>2. \A c \in Call : /\ loc'[c] = "none" <=> loc[c] = "none"
                      /\ loc'[c] \in {"waitResumed", "popped"} <=>
                           loc[c] \in {"waitResumed", "popped"}
  BY <1>1, Sorts
<1> QED  BY <1>2, CallFrame

(* A pthread that waits for the resume signal goes round its loop.         *)
LEMMA Rolling ==
  ASSUME Inv, TypeOK', NEW p \in Pthread, NEW l, Rolls(p, l), loc' = [loc EXCEPT ![p] = l],
         UNCHANGED <<lock, ienv, refused, sem, cpc, target, tries, outcome, ident, stack,
                     resumeRan, disable, nlj, ret, henv, old, entry, pendI, pendR>>
  PROVE  Inv'
<1>0. TypeOK /\ CallInv /\ ChainInv /\ CritInv /\ StatusInv
  BY DEF Inv
<1>1. /\ Stopped(p) /\ l \in {"suspending", "suspended", "waking"}
      /\ loc[p] \in HandlerLoc /\ l \in HandlerLoc
  BY DEF Rolls, Stopped, HandlerLoc
<1>2. Level(ret[p]) # 2
  BY <1>0, <1>1 DEF StatusInv, HandlerStatus
<1>3. CallInv'
  BY <1>0, <1>1, CallFrameMove DEF Stopped
<1>4. ChainInv'
  BY <1>0, <1>1, ChainMove DEF Stopped, Over
<1>5. CritInv'
  <2>1. \A t \in Target : p = ident[t] => ThreadOf(p) = t
    BY <1>1, HandlerThread
  <2> QED  BY <1>0, <2>1, CritMove
<1>6. StatusInv'
  <2>1. l \notin {"entered", "refusing"} /\ loc[p] # "returning"
    BY <1>1 DEF Stopped
  <2> QED  BY <1>1, <1>2, <2>1, StatusHandler
<1> QED  BY <1>3, <1>4, <1>5, <1>6 DEF Inv

(* The steps of the handlers.                                              *)
LEMMA SigsuspendStep ==
  ASSUME Inv, NEW p \in Pthread, Sigsuspend(p)
  PROVE  Inv'
<1>0. TypeOK
  BY DEF Inv
<1>1. loc[p] = "suspending" /\ loc' = [loc EXCEPT ![p] = "suspended"]
  BY DEF Sigsuspend, Goto
<1>2. UNCHANGED <<lock, ienv, refused, forcefully, sem, cpc, target, tries,
                  outcome, done, ident, slot, stack, resumeRan, disable,
                  sleepingOn, nlj, ret, henv, old, entry, pendI, pendR, ran,
                  races>>
  BY DEF Sigsuspend, shared, calls, thread, pthread
<1>3. TypeOK'
  <2>1. loc' \in [Pthread -> Locations]
    BY <1>0, <1>1, <1>2, Names DEF TypeOK
  <2> QED  BY <1>0, <1>1, <1>2, <2>1 DEF TypeOK
<1>4. Rolls(p, "suspended")
  BY <1>1 DEF Rolls, Stopped
<1> QED  BY <1>1, <1>2, <1>3, <1>4, Rolling

LEMMA GcSignalStep ==
  ASSUME Inv, NEW p \in Pthread, GcSignal(p)
  PROVE  Inv'
<1>0. TypeOK
  BY DEF Inv
<1>1. loc[p] = "suspended" /\ loc' = [loc EXCEPT ![p] = "waking"]
  BY DEF GcSignal, Goto
<1>2. UNCHANGED <<lock, ienv, refused, forcefully, sem, cpc, target, tries,
                  outcome, done, ident, slot, stack, resumeRan, disable,
                  sleepingOn, nlj, ret, henv, old, entry, pendI, pendR, ran,
                  races>>
  BY DEF GcSignal, shared, calls, thread, pthread
<1>3. TypeOK'
  <2>1. loc' \in [Pthread -> Locations]
    BY <1>0, <1>1, <1>2, Names DEF TypeOK
  <2> QED  BY <1>0, <1>1, <1>2, <2>1 DEF TypeOK
<1>4. Rolls(p, "waking")
  BY <1>1 DEF Rolls, Stopped
<1> QED  BY <1>1, <1>2, <1>3, <1>4, Rolling

LEMMA EnterHandlerStep ==
  ASSUME Inv, NEW p \in Pthread, EnterHandler(p)
  PROVE  Inv'
<1>0. TypeOK /\ CallInv /\ ChainInv /\ CritInv /\ StatusInv
  BY DEF Inv
<1>1. /\ pendI[p] > 0 /\ loc[p] \notin HandlerLoc \cup {"none", "gone"}
      /\ pendI' = [pendI EXCEPT ![p] = @ - 1]
      /\ ret' = [ret EXCEPT ![p] = loc[p]] /\ henv' = [henv EXCEPT ![p] = ienv]
      /\ loc' = [loc EXCEPT ![p] = "entered"]
  BY DEF EnterHandler, Goto
<1>2. UNCHANGED <<lock, ienv, refused, forcefully, sem, cpc, target, tries,
                  outcome, done, ident, slot, stack, resumeRan, disable,
                  sleepingOn, nlj, old, entry, pendR, ran, races>>
  BY DEF EnterHandler, shared, calls, thread, pthread
<1>3. PICK c \in Call : Signalled(c, p) /\ Sent(p)
  BY <1>0, <1>1, SignalIsSent
<1>4. PICK u \in Target : u = target[c]
  BY <1>0, <1>3 DEF CallInv, Signalled
<1>5. p = ident[u] /\ ThreadOf(p) = u /\ ienv = u /\ \A t \in Target : p = ident[t] => t = u
  BY <1>0, <1>3, <1>4 DEF Signalled, ChainInv, On
<1>6. loc[p] \notin HandlerLoc \cup Over /\ "entered" \in HandlerLoc
  BY <1>0, <1>1, <1>5 DEF ChainInv, Over, HandlerLoc
<1>7. /\ loc'[p] = "entered" /\ ret'[p] = loc[p] /\ henv'[p] = u
      /\ pendI[p] = 1 /\ pendI'[p] = 0
      /\ \A q \in Pthread : q # p => /\ loc'[q] = loc[q] /\ ret'[q] = ret[q]
                                  /\ henv'[q] = henv[q] /\ pendI'[q] = pendI[q]
  BY <1>0, <1>1, <1>3, <1>5 DEF TypeOK, Sent
<1>8. TypeOK'
  <2>1. pendI' \in [Pthread -> Nat]
    BY <1>0, <1>1, <1>2, Names DEF TypeOK
  <2>2. ret' \in [Pthread -> Locations]
    BY <1>0, <1>1, <1>2, Names DEF TypeOK
  <2>3. henv' \in [Pthread -> Target \cup {NIL}]
    BY <1>0, <1>1, <1>2, Names DEF TypeOK
  <2>4. loc' \in [Pthread -> Locations]
    BY <1>0, <1>1, <1>2, Names DEF TypeOK
  <2> QED  BY <1>0, <1>1, <1>2, <2>1, <2>2, <2>3, <2>4 DEF TypeOK
<1>9. CallInv'
  BY <1>0, <1>1, <1>2, <1>6, CallFrameMove DEF Over
<1>10. ChainInv'
  BY <1>0, <1>1, <1>2, <1>6, ChainMove DEF Over, Stopped, HandlerLoc
<1>11. CritInv'
  <2>1. CalmBut(p)'
    BY <1>2, <1>3, <1>7, OthersCalm DEF Signalled
  <2>2. Entered(p)'
    BY <1>2, <1>3, <1>7 DEF Entered, Sent
  <2>3. Signalled(c, p)'
    BY <1>2, <1>3, <2>1, <2>2 DEF Signalled, Answering, NoFlag
  <2> QED  BY <2>3 DEF CritInv
<1>12. StatusInv'
  <2>1. disable[u] = Level(loc[p]) /\ old[p] = 0
    BY <1>0, <1>5, <1>6 DEF StatusInv, EnvStatus, HandlerStatus
  <2>2. EnvStatus(u)'
    BY <1>2, <1>5, <1>7, <2>1 DEF EnvStatus, Stopped, HandlerLoc
  <2>3. HandlerStatus(p)'
    <3>1. ThreadOf(p)' = u
      BY <1>2, <1>5 DEF ThreadOf
    <3>2. p \in Target => loc[p] \notin {"born", "enabled", "popping"}
      BY <1>0 DEF ChainInv
    <3>3. old'[p] = 0
      BY <1>2, <2>1
    <3> QED  BY <1>6, <1>7, <3>1, <3>2, <3>3 DEF HandlerStatus, Stopped
  <2>4. p \in Call => EntryStatus(p)'
    BY <1>0, <1>2, <1>6, <1>7 DEF StatusInv, EntryStatus, CodeLoc
  <2>5. ~Stopped(p)
    BY <1>6 DEF Stopped, HandlerLoc
  <2> QED  BY <1>0, <1>2, <1>5, <1>7, <2>2, <2>3, <2>4, <2>5, StatusStep
<1> QED  BY <1>8, <1>9, <1>10, <1>11, <1>12 DEF Inv

LEMMA RefuseStep ==
  ASSUME Inv, NEW p \in Pthread, Refuse(p)
  PROVE  Inv'
<1>0. TypeOK /\ CallInv /\ ChainInv /\ CritInv /\ StatusInv
  BY DEF Inv
<1>1. /\ loc[p] = "entered" /\ loc' = [loc EXCEPT ![p] = "refusing"]
      /\ refused' = TRUE
  BY DEF Refuse, Goto
<1>2. UNCHANGED <<lock, ienv, forcefully, sem, cpc, target, tries, outcome,
                  done, ident, slot, stack, resumeRan, disable, sleepingOn,
                  nlj, ret, henv, old, entry, pendI, pendR, ran, races>>
  BY DEF Refuse, shared, calls, thread, pthread
<1>3. PICK c \in Call : Signalled(c, p) /\ Entered(p)
  BY <1>0, <1>1, HandlerIsEntered
<1>4. loc[p] \in HandlerLoc /\ "refusing" \in HandlerLoc
  BY <1>1 DEF HandlerLoc
<1>5. loc'[p] = "refusing" /\ \A q \in Pthread : q # p => loc'[q] = loc[q]
  BY <1>0, <1>1 DEF TypeOK
<1>6. TypeOK'
  <2>1. refused' \in BOOLEAN
    BY <1>0, <1>1, <1>2, Names DEF TypeOK
  <2>2. loc' \in [Pthread -> Locations]
    BY <1>0, <1>1, <1>2, Names DEF TypeOK
  <2> QED  BY <1>0, <1>1, <1>2, <2>1, <2>2 DEF TypeOK
<1>7. CallInv'
  BY <1>0, <1>1, <1>2, CallFrameMove
<1>8. ChainInv'
  BY <1>0, <1>1, <1>2, ChainMove DEF Over, Stopped
<1>9. CritInv'
  <2>1. CalmBut(p)'
    BY <1>2, <1>3, <1>5, OthersCalm DEF Signalled
  <2>2. Refusing(p)'
    BY <1>1, <1>2, <1>3, <1>5 DEF Refusing, Entered
  <2>3. Signalled(c, p)'
    BY <1>2, <1>3, <2>1, <2>2 DEF Signalled, Answering, NoFlag
  <2> QED  BY <2>3 DEF CritInv
<1>10. StatusInv'
  BY <1>1, <1>2, <1>4, <1>6, StatusHandler DEF Stopped
<1> QED  BY <1>6, <1>7, <1>8, <1>9, <1>10 DEF Inv

LEMMA AcceptStep ==
  ASSUME Inv, NEW p \in Pthread, Accept(p)
  PROVE  Inv'
<1>0. TypeOK /\ CallInv /\ ChainInv /\ CritInv /\ StatusInv
  BY DEF Inv
<1>1. /\ loc[p] = "entered" /\ loc' = [loc EXCEPT ![p] = "suspending"]
      /\ sem' = [sem EXCEPT !["suspended"] = @ + 1] /\ ~MustRefuse(henv[p])
  BY DEF Accept, Goto, Post
<1>2. UNCHANGED <<lock, ienv, refused, forcefully, cpc, target, tries,
                  outcome, done, ident, slot, stack, resumeRan, disable,
                  sleepingOn, nlj, ret, henv, old, entry, pendI, pendR, ran,
                  races>>
  BY DEF Accept, shared, calls, thread, pthread
<1>3. PICK c \in Call : Signalled(c, p) /\ Entered(p)
  BY <1>0, <1>1, HandlerIsEntered
<1>4. loc[p] \in HandlerLoc /\ "suspending" \in HandlerLoc
  BY <1>1 DEF HandlerLoc
<1>5. loc'[p] = "suspending" /\ \A q \in Pthread : q # p => loc'[q] = loc[q]
  BY <1>0, <1>1 DEF TypeOK
<1>6. TypeOK'
  <2>1. sem' \in [Semaphores -> Nat]
    BY <1>0, <1>1, Posts, Names
  <2>2. loc' \in [Pthread -> Locations]
    BY <1>0, <1>1, <1>2, Names DEF TypeOK
  <2> QED  BY <1>0, <1>1, <1>2, <2>1, <2>2 DEF TypeOK
<1>7. CallInv'
  BY <1>0, <1>1, <1>2, CallFrameMove
<1>8. ChainInv'
  BY <1>0, <1>1, <1>2, ChainMove DEF Over, Stopped
<1>9. CritInv'
  <2>1. CalmBut(p)'
    BY <1>2, <1>3, <1>5, OthersCalm DEF Signalled
  <2>2. Accepted(p)' /\ sem'["resumed"] = 0
    <3>1. sem'["suspended"] = sem["suspended"] + 1 /\ sem'["resumed"] = sem["resumed"]
      BY <1>0, <1>1, Posts, Names
    <3> QED  BY <1>2, <1>3, <1>5, <3>1 DEF Accepted, Entered, Stopped, Signalled
  <2>3. Signalled(c, p)'
    BY <1>2, <1>3, <2>1, <2>2 DEF Signalled, Answering, NoFlag
  <2> QED  BY <2>3 DEF CritInv
<1>10. StatusInv'
  <2>1. PICK u \in Target : u = target[c]
    BY <1>0, <1>3 DEF CallInv, Signalled
  <2>2. p = ident[u] /\ ThreadOf(p) = u
    BY <1>0, <1>3, <2>1 DEF Signalled, ChainInv, On
  <2>3. disable[u] = Level(ret[p]) /\ henv[p] = u
    BY <1>0, <1>1, <1>4, <2>2 DEF StatusInv, EnvStatus, HandlerStatus
  <2>4. Level(ret[p]) # 2
    BY <1>1, <2>3 DEF MustRefuse
  <2> QED  BY <1>1, <1>2, <1>4, <1>6, <2>4, StatusHandler DEF Stopped
<1> QED  BY <1>6, <1>7, <1>8, <1>9, <1>10 DEF Inv

LEMMA RefusePostStep ==
  ASSUME Inv, NEW p \in Pthread, RefusePost(p)
  PROVE  Inv'
<1>0. TypeOK /\ CallInv /\ ChainInv /\ CritInv /\ StatusInv
  BY DEF Inv
<1>1. /\ loc[p] = "refusing" /\ sem' = [sem EXCEPT !["suspended"] = @ + 1]
      /\ loc' = [loc EXCEPT ![p] = ret[p]]
      /\ ret' = [ret EXCEPT ![p] = "run"] /\ henv' = [henv EXCEPT ![p] = NIL]
  BY DEF RefusePost, Leave, Goto, Post
<1>2. UNCHANGED <<lock, ienv, refused, forcefully, cpc, target, tries,
                  outcome, done, ident, slot, stack, resumeRan, disable,
                  sleepingOn, nlj, old, entry, pendI, pendR, ran, races>>
  BY DEF RefusePost, shared, calls, thread, pthread
<1>3. PICK c \in Call : Signalled(c, p) /\ Refusing(p)
  BY <1>0, <1>1, HandlerIsEntered
<1>4. PICK u \in Target : u = ThreadOf(p)
  BY <1>1, HandlerThread DEF HandlerLoc
<1>5. /\ ret[p] \notin HandlerLoc \cup Over /\ ret[p] \in Locations /\ loc[p] \in HandlerLoc
      /\ p \in Target => ret[p] \notin {"born", "enabled", "popping"}
      /\ \A t \in Target : p = ident[t] => t = u
      /\ \A q \in Pthread : old[q] = 0
  BY <1>1, <1>4, HandlerThread DEF HandlerLoc
<1>6. /\ loc'[p] = ret[p]
      /\ \A q \in Pthread : q # p => /\ loc'[q] = loc[q] /\ ret'[q] = ret[q]
                                  /\ henv'[q] = henv[q]
  BY <1>0, <1>1 DEF TypeOK
<1>7. TypeOK'
  <2>1. sem' \in [Semaphores -> Nat]
    BY <1>0, <1>1, Posts, Names
  <2>2. loc' \in [Pthread -> Locations]
    BY <1>0, <1>1, <1>2, <1>5, Names DEF TypeOK
  <2>3. ret' \in [Pthread -> Locations]
    BY <1>0, <1>1, <1>2, <1>5, Names DEF TypeOK
  <2>4. henv' \in [Pthread -> Target \cup {NIL}]
    BY <1>0, <1>1, <1>2, <1>5, Names DEF TypeOK
  <2> QED  BY <1>0, <1>1, <1>2, <1>5, <2>1, <2>2, <2>3, <2>4 DEF TypeOK
<1>8. CallInv'
  BY <1>0, <1>1, <1>2, <1>5, CallFrameMove DEF Over
<1>9. ChainInv'
  BY <1>0, <1>1, <1>2, <1>5, ChainMove DEF Over, Stopped
<1>10. CritInv'
  <2>1. CalmBut(p)'
    BY <1>2, <1>3, <1>6, OthersCalm DEF Signalled
  <2>2. Declined(p)' /\ sem'["resumed"] = 0
    <3>1. sem'["suspended"] = sem["suspended"] + 1 /\ sem'["resumed"] = sem["resumed"]
      BY <1>0, <1>1, Posts, Names
    <3>2. loc'[p] \notin Special
      BY <1>5, <1>6 DEF HandlerLoc, Special
    <3> QED  BY <1>2, <1>3, <3>1, <3>2 DEF Declined, Refusing, Signalled
  <2>3. Signalled(c, p)'
    BY <1>2, <1>3, <2>1, <2>2 DEF Signalled, Answering, NoFlag
  <2> QED  BY <2>3 DEF CritInv
<1>11. StatusInv'
  <2>1. p = ident[u]
    BY <1>0, <1>3, <1>4, <1>5 DEF Signalled, ChainInv, On, CallInv
  <2>2. disable[u] = Level(ret[p])
    BY <1>0, <1>1, <2>1 DEF StatusInv, EnvStatus
  <2>3. loc'[p] \notin {"suspending", "suspended", "waking", "returning", "entered", "refusing"}
    BY <1>5, <1>6 DEF HandlerLoc
  <2>4. EnvStatus(u)'
    BY <1>2, <1>6, <2>1, <2>2, <2>3 DEF EnvStatus, Stopped
  <2>5. HandlerStatus(p)'
    BY <1>2, <1>5, <1>6, <2>3 DEF HandlerStatus, Stopped
  <2>6. p \in Call => EntryStatus(p)'
    BY <1>0, <1>2, <1>5, <1>6 DEF StatusInv, EntryStatus, CodeLoc
  <2>7. ~Stopped(p)
    BY <1>1 DEF Stopped
  <2> QED  BY <1>0, <1>2, <1>5, <1>6, <2>4, <2>5, <2>6, <2>7, StatusStep
<1> QED  BY <1>7, <1>8, <1>9, <1>10, <1>11 DEF Inv

(* A race is never forgotten.                                              *)
LEMMA RaceIsNew ==
  ASSUME InStep', NEW happened \in BOOLEAN, NEW kind, Race(happened, kind), kind # "left"
  PROVE  ~happened
  BY DEF Race, InStep

LEMMA ResumeHandlerStep ==
  ASSUME Inv, InStep', NEW p \in Pthread, ResumeHandler(p)
  PROVE  Inv'
<1>0. TypeOK /\ CallInv /\ ChainInv /\ CritInv /\ StatusInv
  BY DEF Inv
<1>1. /\ pendR[p] > 0 /\ ienv # NIL
      /\ pendR' = [pendR EXCEPT ![p] = @ - 1]
      /\ resumeRan' = [resumeRan EXCEPT ![ienv] = TRUE]
      /\ races' = races
      /\ loc[p] \in {"suspended", "waking"} /\ loc' = [loc EXCEPT ![p] = "waking"]
  <2>1. Race(loc[p] \notin {"suspended", "waking"}, "lost")
    BY DEF ResumeHandler
  <2>2. loc[p] \in {"suspended", "waking"}
    BY <2>1, RaceIsNew
  <2>3. races' = races
    BY <2>1, <2>2 DEF Race
  <2>4. loc' = [loc EXCEPT ![p] = "waking"]
    BY <1>0, <2>2 DEF ResumeHandler, Goto, TypeOK
  <2> QED  BY <2>2, <2>3, <2>4 DEF ResumeHandler
<1>2. UNCHANGED <<lock, ienv, refused, forcefully, sem, cpc, target, tries,
                  outcome, done, ident, slot, stack, disable, sleepingOn,
                  nlj, ret, henv, old, entry, pendI, ran>>
  BY DEF ResumeHandler, shared, calls, thread, pthread
<1>3. PICK c \in Call : Resuming(c, p) /\ Waited(p, target[c])
  BY <1>0, <1>1, ResumeIsSent
<1>4. PICK u \in Target : u = target[c]
  BY <1>0, <1>3 DEF CallInv, Resuming
<1>5. /\ p = ident[u] /\ ienv = u /\ Stopped(p) /\ pendR[p] = 1
      /\ \A t \in Target : p = ident[t] => ThreadOf(p) = t
  BY <1>0, <1>3, <1>4 DEF Resuming, Waited, ChainInv, On
<1>6. /\ loc'[p] = "waking" /\ resumeRan'[u] /\ pendR'[p] = 0
      /\ \A q \in Pthread : q # p => loc'[q] = loc[q] /\ pendR'[q] = pendR[q]
      /\ \A t \in Target : t # u => resumeRan'[t] = resumeRan[t]
  BY <1>0, <1>1, <1>5 DEF TypeOK
<1>7. TypeOK'
  <2>1. pendR' \in [Pthread -> Nat]
    BY <1>0, <1>1, <1>2, <1>5, Names DEF TypeOK
  <2>2. resumeRan' \in [Target -> BOOLEAN]
    BY <1>0, <1>1, <1>2, <1>5, Names DEF TypeOK
  <2>3. loc' \in [Pthread -> Locations]
    BY <1>0, <1>1, <1>2, <1>5, Names DEF TypeOK
  <2>4. races' \in SUBSET Races
    BY <1>0, <1>1, <1>2, <1>5, Names DEF TypeOK
  <2> QED  BY <1>0, <1>1, <1>2, <1>5, <2>1, <2>2, <2>3, <2>4 DEF TypeOK
<1>8. CallInv'
  BY <1>0, <1>1, <1>2, CallFrameMove
<1>9. ChainInv'
  BY <1>0, <1>1, <1>2, ChainMove DEF Over
<1>10. CritInv'
  <2>1. CalmBut(p)'
    BY <1>2, <1>3, <1>6, OthersCalm DEF Resuming
  <2>2. Flagged(p, u)'
    BY <1>2, <1>3, <1>6 DEF Flagged, Waited
  <2>3. loc'[c] = "waitResumed"
    BY <1>1, <1>3, <1>6, Sorts DEF Resuming
  <2>4. NoFlag(Target \ {u})'
    BY <1>3, <1>4, <1>6 DEF Resuming, NoFlag
  <2>5. pendI[p] = 0
    BY <1>1, <1>3 DEF Resuming
  <2>6. Resuming(c, p)'
    BY <1>2, <1>3, <1>4, <2>1, <2>2, <2>3, <2>4, <2>5 DEF Resuming
  <2> QED  BY <2>6 DEF CritInv
<1>11. StatusInv'
  <2>1. Level(ret[p]) # 2
    BY <1>0, <1>5 DEF StatusInv, HandlerStatus
  <2>2. loc[p] \in HandlerLoc /\ "waking" \in HandlerLoc
    BY <1>1 DEF HandlerLoc
  <2> QED  BY <1>1, <1>2, <1>5, <1>7, <2>1, <2>2, StatusHandler
<1> QED  BY <1>7, <1>8, <1>9, <1>10, <1>11 DEF Inv

LEMMA WakingStep ==
  ASSUME Inv, InStep', NEW p \in Pthread, Waking(p)
  PROVE  Inv'
<1>0. TypeOK /\ CallInv /\ ChainInv /\ CritInv /\ StatusInv
  BY DEF Inv
<1>1. loc[p] = "waking" /\ loc[p] \in HandlerLoc
  BY DEF Waking, HandlerLoc
<1>2. PICK u \in Target : u = ThreadOf(p)
  BY <1>1, HandlerThread
<1>3. henv[p] = u /\ \A t \in Target : p = ident[t] => t = u
  BY <1>1, <1>2, HandlerThread
<1>4. races' = races /\ (resumeRan[u] => p = ident[u])
  <2>1. Race(resumeRan[u] /\ p # ident[u], "stolen")
    BY <1>3 DEF Waking
  <2>2. ~(resumeRan[u] /\ p # ident[u])
    BY <2>1, RaceIsNew, <1>0 DEF TypeOK
  <2> QED  BY <2>1, <2>2, <1>0 DEF Race, TypeOK
<1>5. UNCHANGED <<lock, ienv, refused, forcefully, cpc, target, tries,
                  outcome, done, ident, slot, stack, disable, sleepingOn,
                  nlj, ret, henv, old, entry, pendI, pendR, ran>>
  BY DEF Waking, shared, calls, thread, pthread
<1>6. CASE ~resumeRan[u]
  <2>1. loc' = [loc EXCEPT ![p] = "suspending"] /\ UNCHANGED <<resumeRan, sem>>
    BY <1>3, <1>6 DEF Waking, MayWake, Goto
  <2>2. TypeOK'
    <3>1. loc' \in [Pthread -> Locations]
      BY <1>0, <2>1, Names DEF TypeOK
    <3> QED  BY <1>0, <1>4, <1>5, <2>1, <3>1 DEF TypeOK
  <2>3. Rolls(p, "suspending")
    BY <1>1, <1>2, <1>6 DEF Rolls, Stopped
  <2> QED  BY <1>5, <2>1, <2>2, <2>3, Rolling
<1>7. CASE resumeRan[u]
  <2>1. /\ loc' = [loc EXCEPT ![p] = "returning"]
        /\ resumeRan' = [resumeRan EXCEPT ![u] = FALSE]
        /\ sem' = [sem EXCEPT !["resumed"] = @ + 1]
    BY <1>3, <1>7 DEF Waking, MayWake, Goto, Post
  <2>2. PICK c \in Call, q \in Pthread : Resuming(c, q) /\ Flagged(q, u) /\ target[c] = u
    BY <1>0, <1>7, FlagIsResume
  <2>3. q = p /\ p = ident[u]
    BY <1>4, <1>7, <2>2 DEF Resuming
  <2>4. Resuming(c, p) /\ Flagged(p, u)
    BY <2>2, <2>3
  <2>5. /\ loc'[p] = "returning" /\ ~resumeRan'[u]
        /\ \A r \in Pthread : r # p => loc'[r] = loc[r]
        /\ \A t \in Target : t # u => resumeRan'[t] = resumeRan[t]
    BY <1>0, <2>1 DEF TypeOK
  <2>6. sem'["resumed"] = sem["resumed"] + 1 /\ sem'["suspended"] = sem["suspended"]
    BY <1>0, <2>1, Posts, Names
  <2>7. TypeOK'
    <3>1. loc' \in [Pthread -> Locations]
      BY <1>0, <2>1, Names DEF TypeOK
    <3>2. sem' \in [Semaphores -> Nat]
      BY <1>0, <2>1, Posts, Names
    <3>3. resumeRan' \in [Target -> BOOLEAN]
      BY <1>0, <2>1 DEF TypeOK
    <3> QED  BY <1>0, <1>4, <1>5, <3>1, <3>2, <3>3 DEF TypeOK
  <2>8. CallInv'
    BY <1>0, <1>1, <1>5, <2>1, CallFrameMove
  <2>9. ChainInv'
    BY <1>0, <1>1, <1>2, <1>5, <2>1, <2>3, ChainMove DEF Over
  <2>10. CritInv'
    <3>1. CalmBut(p)'
      BY <1>5, <2>4, <2>5, OthersCalm DEF Resuming
    <3>2. Awake(p, u)'
      BY <1>5, <2>4, <2>5, <2>6 DEF Awake, Flagged, Special
    <3>3. loc'[c] = "waitResumed"
      BY <1>1, <2>4, <2>5, Sorts DEF Resuming
    <3>4. NoFlag(Target \ {u})'
      BY <2>2, <2>4, <2>5 DEF Resuming, NoFlag
    <3>5. pendI[p] = 0
      BY <1>1, <2>4 DEF Resuming
    <3>6. Resuming(c, p)'
      BY <1>5, <2>2, <2>4, <2>6, <3>1, <3>2, <3>3, <3>4, <3>5 DEF Resuming
    <3> QED  BY <3>6 DEF CritInv
  <2>11. StatusInv'
    <3>1. Level(ret[p]) # 2 /\ Stopped(p)
      BY <1>0, <1>1 DEF StatusInv, HandlerStatus, Stopped
    <3>2. "returning" \in HandlerLoc
      BY DEF HandlerLoc
    <3> QED  BY <1>1, <1>5, <2>1, <2>7, <3>1, <3>2, StatusHandler
  <2> QED  BY <2>7, <2>8, <2>9, <2>10, <2>11 DEF Inv
<1> QED  BY <1>6, <1>7

LEMMA HandlerReturnStep ==
  ASSUME Inv, NEW p \in Pthread, HandlerReturn(p)
  PROVE  Inv'
<1>0. TypeOK /\ CallInv /\ ChainInv /\ CritInv /\ StatusInv
  BY DEF Inv
<1>1. loc[p] = "returning" /\ loc[p] \in HandlerLoc
  BY DEF HandlerReturn, HandlerLoc
<1>2. PICK u \in Target : u = ThreadOf(p)
  BY <1>1, HandlerThread
<1>3. /\ henv[p] = u /\ ret[p] \notin HandlerLoc \cup Over /\ ret[p] \in Locations
      /\ p \in Target => ret[p] \notin {"born", "enabled", "popping"}
      /\ \A t \in Target : p = ident[t] => t = u
      /\ \A q \in Pthread : old[q] = 0
  BY <1>1, <1>2, HandlerThread
<1>4. p = ident[u]
  BY <1>0, <1>1, <1>2, Runner DEF Special, Over
<1>5. ret' = [ret EXCEPT ![p] = "run"] /\ henv' = [henv EXCEPT ![p] = NIL]
  BY DEF HandlerReturn, Leave
<1>6. UNCHANGED <<lock, ienv, refused, forcefully, sem, cpc, target, tries,
                  outcome, done, ident, slot, stack, resumeRan, nlj, entry,
                  pendI, pendR, ran, races>>
  BY DEF HandlerReturn, shared, calls, thread, pthread
<1> DEFINE l == IF nlj[u] THEN "unwinding" ELSE ret[p]
<1>7. /\ loc' = [loc EXCEPT ![p] = l]
      /\ \/ /\ nlj[u] /\ disable' = [disable EXCEPT ![u] = 1]
            /\ sleepingOn' = [sleepingOn EXCEPT ![u] = FALSE]
            /\ old' = [old EXCEPT ![p] = 0]
         \/ ~nlj[u] /\ UNCHANGED <<disable, sleepingOn, old>>
  BY <1>3 DEF HandlerReturn, Leave, Goto
<1>8. /\ l \notin HandlerLoc \cup Over /\ l \in Locations
      /\ p \in Target => l \notin {"born", "enabled", "popping"}
  BY <1>3, Names DEF HandlerLoc, Over
<1>9. disable'[u] = Level(l) /\ \A t \in Target : t # u => disable'[t] = disable[t]
  <2>1. nlj[u] \/ disable[u] = Level(ret[p])
    BY <1>0, <1>1, <1>4 DEF StatusInv, EnvStatus
  <2> QED  BY <1>0, <1>7, <2>1 DEF TypeOK, Level
<1>10. p \in Call => /\ l # "done"
                     /\ l \in LispLoc \cup {"enabled", "unwinding"} => entry[p] = 2
  <2>1. Level(ret[p]) # 2
    BY <1>0, <1>1 DEF StatusInv, HandlerStatus
  <2>2. p \in Call => EntryStatus(p)
    BY <1>0 DEF StatusInv
  <2>3. p \in Call => /\ ret[p] # "done"
                      /\ ret[p] \in LispLoc \cup {"enabled", "unwinding"} => entry[p] = 2
    BY <1>1, <2>2 DEF EntryStatus, CodeLoc
  <2>4. ret[p] \in LispLoc \cup {"enabled", "unwinding", "done"}
    BY <1>3, <2>1 DEF Level, Locations, HandlerLoc, Over, PopLoc, LispLoc
  <2> QED  BY <2>3, <2>4
<1> HIDE DEF l
<1>11. /\ loc'[p] = l
       /\ \A q \in Pthread : q # p => /\ loc'[q] = loc[q] /\ ret'[q] = ret[q]
                                   /\ henv'[q] = henv[q]
       /\ \A q \in Pthread : old'[q] = 0
  BY <1>0, <1>3, <1>5, <1>7 DEF TypeOK
<1>12. TypeOK'
  <2>1. sleepingOn' \in [Target -> BOOLEAN]
    BY <1>0, <1>5, <1>6, <1>7, <1>8, Names DEF TypeOK
  <2>2. disable' \in [Target -> 0 .. 2]
    <3>1. disable \in [Target -> 0 .. 2]
      BY <1>0 DEF TypeOK
    <3> QED  BY <1>7, <3>1
  <2>3. loc' \in [Pthread -> Locations]
    BY <1>0, <1>5, <1>6, <1>7, <1>8, Names DEF TypeOK
  <2>4. ret' \in [Pthread -> Locations]
    BY <1>0, <1>5, <1>6, <1>7, <1>8, Names DEF TypeOK
  <2>5. henv' \in [Pthread -> Target \cup {NIL}]
    BY <1>0, <1>5, <1>6, <1>7, <1>8, Names DEF TypeOK
  <2>6. old' \in [Pthread -> 0 .. 2]
    <3>1. old \in [Pthread -> 0 .. 2]
      BY <1>0 DEF TypeOK
    <3> QED  BY <1>7, <3>1
  <2> QED  BY <1>0, <1>5, <1>6, <1>7, <1>8, <2>1, <2>2, <2>3, <2>4, <2>5, <2>6 DEF TypeOK
<1>13. CallInv'
  BY <1>0, <1>1, <1>6, <1>7, <1>8, CallFrameMove DEF Over
<1>14. ChainInv'
  BY <1>0, <1>1, <1>6, <1>7, <1>8, ChainMove DEF Over, Stopped
<1>15. CritInv'
  <2>1. Idle(p, l)
    BY <1>1, <1>8 DEF Idle, Special, Over, HandlerLoc
  <2>2. \A t \in Target : p = ident[t] => ThreadOf(p) = t
    BY <1>2, <1>3
  <2> QED  BY <1>0, <1>6, <1>7, <2>1, <2>2, CritMove
<1>16. StatusInv'
  <2>3. loc'[p] \notin {"suspending", "suspended", "waking", "returning", "entered", "refusing"}
    BY <1>8, <1>11 DEF HandlerLoc
  <2>4. EnvStatus(u)'
    BY <1>4, <1>6, <1>9, <1>11, <2>3 DEF EnvStatus, Stopped
  <2>5. HandlerStatus(p)'
    BY <1>8, <1>11, <2>3 DEF HandlerStatus, Stopped
  <2>6. p \in Call => EntryStatus(p)'
    BY <1>6, <1>8, <1>10, <1>11 DEF EntryStatus, CodeLoc
  <2>7. ~Stopped(p)
    BY <1>1 DEF Stopped
  <2>8. \A q \in Pthread : q # p => old'[q] = old[q]
    BY <1>3, <1>11
  <2> QED  BY <1>0, <1>3, <1>6, <1>9, <1>11, <2>4, <2>5, <2>6, <2>7, <2>8, StatusStep
<1> QED  BY <1>12, <1>13, <1>14, <1>15, <1>16 DEF Inv

-----------------------------------------------------------------------------
(* The steps of a caller.                                                  *)

(* A step of one caller keeps CallInv if it keeps that caller's part.      *)
LEMMA CallStep ==
  ASSUME CallInv, UNCHANGED <<lock, loc>>, NEW c \in Call,
         \A d \in Call : d # c => /\ cpc'[d] = cpc[d] /\ target'[d] = target[d]
                                  /\ tries'[d] = tries[d] /\ outcome'[d] = outcome[d],
         cpc'[c] \in CritCall <=> cpc[c] \in CritCall,
         target'[c] \in Target,
         cpc'[c] \notin {"created", "unlock", "end"} => tries'[c] < MaxRetries,
         loc[c] # "none" => cpc'[c] \in {"unlock", "end"} /\ outcome'[c] = "success",
         outcome'[c] # "none" => cpc'[c] \in {"unlock", "end"}
  PROVE  CallInv'
<1>1. ASSUME NEW d \in Call
      PROVE  /\ cpc'[d] # "idle" => target'[d] \in Target
             /\ cpc'[d] \notin {"created", "unlock", "end"} => tries'[d] < MaxRetries
             /\ loc'[d] # "none" =>
                  \/ cpc'[d] = "created"
                  \/ cpc'[d] \in {"unlock", "end"} /\ outcome'[d] = "success"
             /\ outcome'[d] # "none" => cpc'[d] \in {"unlock", "end"}
  BY DEF CallInv
<1>2. ASSUME NEW d \in Call
      PROVE  /\ lock' = <<d, "caller">> <=> cpc'[d] \in CritCall
             /\ lock' = <<d, "function">> <=> loc'[d] \in {"waitResumed", "popped"}
  BY DEF CallInv
<1> QED  BY <1>1, <1>2 DEF CallInv

(* A call creates its pthread with its last attempt.                       *)
LEMMA NoPthreadYet ==
  ASSUME CallInv, NEW c \in Call, cpc[c] \notin {"created", "unlock", "end"}
  PROVE  loc[c] = "none" /\ outcome[c] = "none" /\ tries[c] < MaxRetries
  BY DEF CallInv

(* No signal is sent and nobody moves: all stays quiet.                    *)
LEMMA QuietStays ==
  ASSUME UNCHANGED <<ident, resumeRan, pendI, pendR, loc, target>>,
         sem'["suspended"] = sem["suspended"] /\ sem'["resumed"] = sem["resumed"]
  PROVE  Quiet => Quiet'
  BY QuietSame DEF Quiet, Silent, NoFlag

(* When all is quiet no pthread that has an env is stopped.                *)
LEMMA QuietRuns ==
  ASSUME ChainInv, Quiet
  PROVE  \A t \in Target : ~Stopped(ident[t])
<1>1. \A t \in Target : ident[t] \in Pthread /\ ThreadOf(ident[t]) = t
  BY DEF ChainInv, On
<1>2. \A p \in Pthread : Calm(p)
  BY Sorts DEF Quiet, CalmBut
<1> QED  BY <1>1, <1>2 DEF Calm

(* The steps of the callers.                                               *)
LEMMA InterruptThreadStep ==
  ASSUME Inv, NEW c \in Call, NEW t \in Target, NEW f \in BOOLEAN, InterruptThread(c, t, f)
  PROVE  Inv'
<1>0. TypeOK /\ CallInv /\ ChainInv /\ CritInv /\ StatusInv
  BY DEF Inv
<1>1. /\ cpc[c] = "idle" /\ target' = [target EXCEPT ![c] = t]
      /\ \/ /\ cpc' = [cpc EXCEPT ![c] = "end"] /\ outcome' = [outcome EXCEPT ![c] = "dead"]
            /\ UNCHANGED forcefully
         \/ /\ cpc' = [cpc EXCEPT ![c] = "retry"] /\ UNCHANGED outcome
            /\ forcefully' = f
  BY DEF InterruptThread, Finish
<1>2. UNCHANGED <<lock, ienv, refused, sem, tries, done, ident, slot, stack, resumeRan,
                  disable, sleepingOn, nlj, loc, ret, henv, old, entry, pendI, pendR, ran,
                  races>>
  BY DEF InterruptThread, thread, pthread
<1>3. loc[c] = "none" /\ outcome[c] = "none" /\ tries[c] < MaxRetries
  BY <1>0, <1>1, NoPthreadYet
<1>4. /\ target'[c] = t /\ cpc'[c] \in {"end", "retry"}
      /\ outcome'[c] # "none" => cpc'[c] = "end"
      /\ \A d \in Call : d # c => /\ cpc'[d] = cpc[d] /\ target'[d] = target[d]
                                  /\ outcome'[d] = outcome[d]
  BY <1>0, <1>1, <1>3 DEF TypeOK
<1>5. TypeOK'
  <2>1. target' \in [Call -> Target \cup {NIL}]
    BY <1>0, <1>1 DEF TypeOK
  <2>2. cpc' \in [Call -> CallLoc]
    BY <1>0, <1>1, Names DEF TypeOK
  <2>3. outcome' \in [Call -> {"none", "success", "dead", "sleeping", "refused", "error"}]
    BY <1>0, <1>1 DEF TypeOK
  <2>4. forcefully' \in BOOLEAN
    BY <1>0, <1>1 DEF TypeOK
  <2> QED  BY <1>0, <1>2, <2>1, <2>2, <2>3, <2>4 DEF TypeOK
<1>6. CallInv'
  BY <1>0, <1>1, <1>2, <1>3, <1>4, CallStep DEF CritCall
<1>7. \A d \in Call : loc[d] # "none" => target'[d] = target[d]
  BY <1>3, <1>4
<1>8. ChainInv'
  BY <1>0, <1>2, <1>7, ChainSame
<1>9. CritInv'
  BY <1>0, <1>1, <1>2, <1>3, <1>4, CritOutside DEF CritCall
<1>10. StatusInv'
  <2>1. \A d \in Call : cpc'[d] \in {"waitSuspended", "waited"} =>
          \E e \in Call : cpc[e] \in {"waitSuspended", "waited"}
    BY <1>4
  <2> QED  BY <1>0, <1>2, <1>7, <2>1, StatusSame
<1> QED  BY <1>5, <1>6, <1>8, <1>9, <1>10 DEF Inv

LEMMA RetryStep ==
  ASSUME Inv, NEW c \in Call, Retry(c)
  PROVE  Inv'
<1>0. TypeOK /\ CallInv /\ ChainInv /\ CritInv /\ StatusInv
  BY DEF Inv
<1>1. /\ cpc[c] = "retry"
      /\ \/ cpc' = [cpc EXCEPT ![c] = "end"] /\ outcome' = [outcome EXCEPT ![c] = "dead"]
         \/ cpc' = [cpc EXCEPT ![c] = "lock"] /\ UNCHANGED outcome
  BY DEF Retry, Finish
<1>2. UNCHANGED <<lock, ienv, refused, forcefully, sem, target, tries, done, ident, slot,
                  stack, resumeRan, disable, sleepingOn, nlj, loc, ret, henv, old, entry,
                  pendI, pendR, ran, races>>
  BY DEF Retry, shared, thread, pthread
<1>3. loc[c] = "none" /\ outcome[c] = "none" /\ tries[c] < MaxRetries /\ target[c] \in Target
  BY <1>0, <1>1, NoPthreadYet DEF CallInv
<1>4. /\ cpc'[c] \in {"end", "lock"}
      /\ outcome'[c] # "none" => cpc'[c] = "end"
      /\ \A d \in Call : d # c => cpc'[d] = cpc[d] /\ outcome'[d] = outcome[d]
  BY <1>0, <1>1, <1>3 DEF TypeOK
<1>5. TypeOK'
  <2>2. cpc' \in [Call -> CallLoc]
    BY <1>0, <1>1, Names DEF TypeOK
  <2>3. outcome' \in [Call -> {"none", "success", "dead", "sleeping", "refused", "error"}]
    BY <1>0, <1>1 DEF TypeOK
  <2> QED  BY <1>0, <1>2, <2>2, <2>3 DEF TypeOK
<1>6. CallInv'
  BY <1>0, <1>1, <1>2, <1>3, <1>4, CallStep DEF CritCall
<1>8. ChainInv'
  BY <1>0, <1>2, ChainSame
<1>9. CritInv'
  BY <1>0, <1>1, <1>2, <1>3, <1>4, CritOutside DEF CritCall
<1>10. StatusInv'
  <2>1. \A d \in Call : cpc'[d] \in {"waitSuspended", "waited"} =>
          \E e \in Call : cpc[e] \in {"waitSuspended", "waited"}
    BY <1>4
  <2> QED  BY <1>0, <1>2, <2>1, StatusSame
<1> QED  BY <1>5, <1>6, <1>8, <1>9, <1>10 DEF Inv

(* A step inside the critical section of a call that touches no pthread.   *)
LEMMA InsideStep ==
  ASSUME Inv, TypeOK', CritInv', NEW c \in Call,
         UNCHANGED <<lock, target, ident, stack, disable, nlj, loc, ret, henv, old, entry>>,
         cpc[c] \in CritCall, cpc'[c] \in CritCall,
         \A d \in Call : d # c => /\ cpc'[d] = cpc[d] /\ tries'[d] = tries[d]
                                  /\ outcome'[d] = outcome[d],
         cpc'[c] \notin {"created", "unlock"} => tries'[c] < MaxRetries,
         outcome'[c] # "none" => cpc'[c] = "unlock",
         cpc[c] = "created" => cpc'[c] = "unlock" /\ outcome'[c] = "success",
         cpc[c] # "unlock",
         cpc'[c] \in {"waitSuspended", "waited"} =>
           cpc[c] \in {"waitSuspended", "waited"} \/ Quiet
  PROVE  Inv'
<1>0. TypeOK /\ CallInv /\ ChainInv /\ CritInv /\ StatusInv
  BY DEF Inv
<1>1. /\ target[c] \in Target
      /\ loc[c] # "none" => cpc'[c] = "unlock" /\ outcome'[c] = "success"
  BY <1>0 DEF CallInv, CritCall
<1>2. CallInv'
  BY <1>0, <1>1, CallStep DEF CritCall
<1>3. ChainInv'
  BY <1>0, ChainSame
<1>4. StatusInv'
  <2>1. Quiet => \A t \in Target : ~Stopped(ident[t])
    BY <1>0, QuietRuns
  <2>2. \A d \in Call : cpc'[d] \in {"waitSuspended", "waited"} =>
          \/ \E e \in Call : cpc[e] \in {"waitSuspended", "waited"}
          \/ \A t \in Target : ~Stopped(ident[t])
    BY <2>1
  <2> QED  BY <1>0, <2>2, StatusSame
<1> QED  BY <1>2, <1>3, <1>4 DEF Inv

LEMMA SelectSleeperStep ==
  ASSUME Inv, NEW c \in Call, SelectSleeper(c)
  PROVE  Inv'
<1>0. TypeOK /\ CallInv /\ ChainInv /\ CritInv /\ StatusInv
  BY DEF Inv
<1>1. /\ cpc[c] = "select"
      /\ sem' = [sem EXCEPT !["sleeper"] = 0]
      /\ slot' = [slot EXCEPT ![target[c]] = c]
      /\ cpc' = [cpc EXCEPT ![c] = "wake"]
  BY DEF SelectSleeper
<1>2. UNCHANGED <<lock, ienv, refused, forcefully, target, tries, outcome,
                  done, ident, stack, resumeRan, disable, sleepingOn, nlj,
                  loc, ret, henv, old, entry, pendI, pendR, ran, races>>
  BY DEF SelectSleeper, shared, calls, thread, pthread
<1>3. /\ target[c] \in Target /\ tries[c] \in Nat
      /\ outcome[c] = "none" \/ cpc[c] \in {"unlock", "end"}
      /\ cpc[c] \notin {"created", "unlock", "end"} =>
           tries[c] < MaxRetries /\ tries[c] + 1 \in 0 .. MaxRetries
      /\ cpc[c] \in CritCall
  BY <1>0, <1>1, CallTypes DEF CallInv, CritCall, TypeOK
<1>4. /\ cpc'[c] = "wake" /\ tries'[c] = tries[c] /\ outcome'[c] = "none"
      /\ \A d \in Call : d # c => /\ cpc'[d] = cpc[d] /\ tries'[d] = tries[d]
                                  /\ outcome'[d] = outcome[d]
  BY <1>0, <1>1, <1>2, <1>3 DEF TypeOK
<1>5. TypeOK'
  <2>1. sem' \in [Semaphores -> Nat]
    BY <1>0, <1>1, <1>2, <1>3, Names DEF TypeOK
  <2>2. slot' \in [Target -> Call \cup {NIL}]
    BY <1>0, <1>1, <1>2, <1>3, Names DEF TypeOK
  <2>3. cpc' \in [Call -> CallLoc]
    BY <1>0, <1>1, <1>2, <1>3, Names DEF TypeOK
  <2> QED  BY <1>0, <1>1, <1>2, <1>3, <2>1, <2>2, <2>3 DEF TypeOK
<1>6. CritInv'
  <2>1. Selecting(c)
    BY <1>0, <1>1, <1>3, MutexCaller
  <2>2. sem'["suspended"] = sem["suspended"] /\ sem'["resumed"] = sem["resumed"]
    BY <1>0, <1>1, Names DEF TypeOK
  <2>3. Quiet'
    BY <1>2, <2>1, <2>2, QuietStays DEF Selecting
  <2>4. Selecting(c)'
    BY <1>2, <1>4, <2>1, <2>3 DEF Selecting
  <2> QED  BY <2>4 DEF CritInv
<1> QED
  BY <1>1, <1>2, <1>3, <1>4, <1>5, <1>6, InsideStep DEF CritCall

LEMMA TryToWakeUpStep ==
  ASSUME Inv, NEW c \in Call, TryToWakeUp(c)
  PROVE  Inv'
<1>0. TypeOK /\ CallInv /\ ChainInv /\ CritInv /\ StatusInv
  BY DEF Inv
<1>1. /\ cpc[c] = "wake"
      /\ \/ cpc' = [cpc EXCEPT ![c] = "waitSleeper"] /\ UNCHANGED <<ienv, tries>>
         \/ /\ cpc' = [cpc EXCEPT ![c] = "unlock"] /\ ienv' = NIL
            /\ tries' = [tries EXCEPT ![c] = @ + 1]
      /\ races' = races \/ races' = races \cup {"left"}
  BY DEF TryToWakeUp, Race
<1>2. UNCHANGED <<lock, refused, forcefully, sem, target, outcome, done,
                  ident, slot, stack, resumeRan, disable, sleepingOn, nlj,
                  loc, ret, henv, old, entry, pendI, pendR, ran>>
  BY DEF TryToWakeUp, shared, calls, thread, pthread
<1>3. /\ target[c] \in Target /\ tries[c] \in Nat
      /\ outcome[c] = "none" \/ cpc[c] \in {"unlock", "end"}
      /\ cpc[c] \notin {"created", "unlock", "end"} =>
           tries[c] < MaxRetries /\ tries[c] + 1 \in 0 .. MaxRetries
      /\ cpc[c] \in CritCall
  BY <1>0, <1>1, CallTypes DEF CallInv, CritCall, TypeOK
<1>4. /\ outcome'[c] = "none"
      /\ \/ cpc'[c] = "waitSleeper" /\ tries'[c] = tries[c] /\ ienv' = ienv
         \/ cpc'[c] = "unlock" /\ ienv' = NIL
      /\ \A d \in Call : d # c => /\ cpc'[d] = cpc[d] /\ tries'[d] = tries[d]
                                  /\ outcome'[d] = outcome[d]
  BY <1>0, <1>1, <1>2, <1>3 DEF TypeOK
<1>5. TypeOK'
  <2>1. cpc' \in [Call -> CallLoc]
    BY <1>0, <1>1, <1>2, <1>3, Names DEF TypeOK
  <2>2. ienv' \in Target \cup {NIL}
    BY <1>0, <1>1, <1>2, <1>3, Names DEF TypeOK
  <2>3. tries' \in [Call -> 0 .. MaxRetries]
    BY <1>0, <1>1, <1>2, <1>3, Names DEF TypeOK
  <2>4. races' \in SUBSET Races
    BY <1>0, <1>1 DEF TypeOK, Races
  <2> QED  BY <1>0, <1>1, <1>2, <1>3, <2>1, <2>2, <2>3, <2>4 DEF TypeOK
<1>6. CritInv'
  <2>1. Selecting(c)
    BY <1>0, <1>1, <1>3, MutexCaller
  <2>2. Quiet'
    BY <1>2, <2>1, QuietStays DEF Selecting
  <2>3. CASE cpc'[c] = "waitSleeper" /\ ienv' = ienv
    <3>1. Selecting(c)'
      BY <1>2, <2>1, <2>2, <2>3 DEF Selecting
    <3> QED  BY <3>1 DEF CritInv
  <2>4. CASE cpc'[c] = "unlock" /\ ienv' = NIL
    <3>1. Closing(c)'
      BY <2>2, <2>4 DEF Closing
    <3> QED  BY <3>1 DEF CritInv
  <2> QED  BY <1>4, <2>3, <2>4
<1> QED
  BY <1>1, <1>2, <1>3, <1>4, <1>5, <1>6, InsideStep DEF CritCall

LEMMA SleeperAnsweredStep ==
  ASSUME Inv, NEW c \in Call, SleeperAnswered(c)
  PROVE  Inv'
<1>0. TypeOK /\ CallInv /\ ChainInv /\ CritInv /\ StatusInv
  BY DEF Inv
<1>1. /\ cpc[c] = "waitSleeper"
      /\ sem["sleeper"] > 0 /\ sem' = [sem EXCEPT !["sleeper"] = @ - 1]
      /\ ienv' = NIL /\ outcome' = [outcome EXCEPT ![c] = "success"]
      /\ cpc' = [cpc EXCEPT ![c] = "unlock"]
  BY DEF SleeperAnswered, Take
<1>2. UNCHANGED <<lock, refused, forcefully, target, tries, done, ident,
                  slot, stack, resumeRan, disable, sleepingOn, nlj, loc, ret,
                  henv, old, entry, pendI, pendR, ran, races>>
  BY DEF SleeperAnswered, shared, calls, thread, pthread
<1>3. /\ target[c] \in Target /\ tries[c] \in Nat
      /\ outcome[c] = "none" \/ cpc[c] \in {"unlock", "end"}
      /\ cpc[c] \notin {"created", "unlock", "end"} =>
           tries[c] < MaxRetries /\ tries[c] + 1 \in 0 .. MaxRetries
      /\ cpc[c] \in CritCall
  BY <1>0, <1>1, CallTypes DEF CallInv, CritCall, TypeOK
<1>4. /\ cpc'[c] = "unlock"
      /\ \A d \in Call : d # c => /\ cpc'[d] = cpc[d] /\ tries'[d] = tries[d]
                                  /\ outcome'[d] = outcome[d]
  BY <1>0, <1>1, <1>2, <1>3 DEF TypeOK
<1>5. TypeOK'
  <2>1. sem' \in [Semaphores -> Nat]
    BY <1>0, <1>1, Takes, Names
  <2>2. ienv' \in Target \cup {NIL}
    BY <1>0, <1>1, <1>2, <1>3, Names DEF TypeOK
  <2>3. outcome' \in [Call -> {"none", "success", "dead", "sleeping", "refused", "error"}]
    BY <1>0, <1>1, <1>2, <1>3, Names DEF TypeOK
  <2>4. cpc' \in [Call -> CallLoc]
    BY <1>0, <1>1, <1>2, <1>3, Names DEF TypeOK
  <2> QED  BY <1>0, <1>1, <1>2, <1>3, <2>1, <2>2, <2>3, <2>4 DEF TypeOK
<1>6. CritInv'
  <2>1. Selecting(c)
    BY <1>0, <1>1, <1>3, MutexCaller
  <2>2. sem'["suspended"] = sem["suspended"] /\ sem'["resumed"] = sem["resumed"]
    BY <1>0, <1>1, Takes, Names
  <2>3. Quiet'
    BY <1>2, <2>1, <2>2, QuietStays DEF Selecting
  <2>4. Closing(c)'
    BY <1>1, <1>4, <2>3 DEF Closing
  <2> QED  BY <2>4 DEF CritInv
<1> QED
  BY <1>1, <1>2, <1>3, <1>4, <1>5, <1>6, InsideStep DEF CritCall

LEMMA SleeperTimeoutStep ==
  ASSUME Inv, NEW c \in Call, SleeperTimeout(c)
  PROVE  Inv'
<1>0. TypeOK /\ CallInv /\ ChainInv /\ CritInv /\ StatusInv
  BY DEF Inv
<1>1. /\ cpc[c] = "waitSleeper"
      /\ ienv' = NIL /\ cpc' = [cpc EXCEPT ![c] = "unlock"]
      /\ \/ UNCHANGED tries /\ \E r \in {"dead", "sleeping"} : outcome' = [outcome EXCEPT ![c] = r]
         \/ UNCHANGED outcome /\ tries' = [tries EXCEPT ![c] = @ + 1]
      /\ races' = races \cup {"left"}
  BY DEF SleeperTimeout, Race
<1>2. UNCHANGED <<lock, refused, forcefully, sem, target, done, ident, slot,
                  stack, resumeRan, disable, sleepingOn, nlj, loc, ret, henv,
                  old, entry, pendI, pendR, ran>>
  BY DEF SleeperTimeout, shared, calls, thread, pthread
<1>3. /\ target[c] \in Target /\ tries[c] \in Nat
      /\ outcome[c] = "none" \/ cpc[c] \in {"unlock", "end"}
      /\ cpc[c] \notin {"created", "unlock", "end"} =>
           tries[c] < MaxRetries /\ tries[c] + 1 \in 0 .. MaxRetries
      /\ cpc[c] \in CritCall
  BY <1>0, <1>1, CallTypes DEF CallInv, CritCall, TypeOK
<1>4. /\ cpc'[c] = "unlock"
      /\ \A d \in Call : d # c => /\ cpc'[d] = cpc[d] /\ tries'[d] = tries[d]
                                  /\ outcome'[d] = outcome[d]
  BY <1>0, <1>1, <1>2, <1>3 DEF TypeOK
<1>5. TypeOK'
  <2>1. ienv' \in Target \cup {NIL}
    BY <1>0, <1>1, <1>2, <1>3, Names DEF TypeOK
  <2>2. cpc' \in [Call -> CallLoc]
    BY <1>0, <1>1, <1>2, <1>3, Names DEF TypeOK
  <2>3. outcome' \in [Call -> {"none", "success", "dead", "sleeping", "refused", "error"}]
    BY <1>0, <1>1, <1>2, <1>3, Names DEF TypeOK
  <2>4. tries' \in [Call -> 0 .. MaxRetries]
    BY <1>0, <1>1, <1>2, <1>3, Names DEF TypeOK
  <2>5. races' \in SUBSET Races
    BY <1>0, <1>1 DEF TypeOK, Races
  <2> QED  BY <1>0, <1>1, <1>2, <1>3, <2>1, <2>2, <2>3, <2>4, <2>5 DEF TypeOK
<1>6. CritInv'
  <2>1. Selecting(c)
    BY <1>0, <1>1, <1>3, MutexCaller
  <2>3. Quiet'
    BY <1>2, <2>1, QuietStays DEF Selecting
  <2>4. Closing(c)'
    BY <1>1, <1>4, <2>3 DEF Closing
  <2> QED  BY <2>4 DEF CritInv
<1> QED
  BY <1>1, <1>2, <1>3, <1>4, <1>5, <1>6, InsideStep DEF CritCall

LEMMA RefusedStep ==
  ASSUME Inv, NEW c \in Call, Refused(c)
  PROVE  Inv'
<1>0. TypeOK /\ CallInv /\ ChainInv /\ CritInv /\ StatusInv
  BY DEF Inv
<1>1. /\ cpc[c] = "waited" /\ refused
      /\ tries' = [tries EXCEPT ![c] = @ + 1] /\ cpc' = [cpc EXCEPT ![c] = "unlock"]
  BY DEF Refused
<1>2. UNCHANGED <<lock, ienv, refused, forcefully, sem, target, outcome,
                  done, ident, slot, stack, resumeRan, disable, sleepingOn,
                  nlj, loc, ret, henv, old, entry, pendI, pendR, ran, races>>
  BY DEF Refused, shared, calls, thread, pthread
<1>3. /\ target[c] \in Target /\ tries[c] \in Nat
      /\ outcome[c] = "none" \/ cpc[c] \in {"unlock", "end"}
      /\ cpc[c] \notin {"created", "unlock", "end"} =>
           tries[c] < MaxRetries /\ tries[c] + 1 \in 0 .. MaxRetries
      /\ cpc[c] \in CritCall
  BY <1>0, <1>1, CallTypes DEF CallInv, CritCall, TypeOK
<1>4. /\ cpc'[c] = "unlock" /\ outcome'[c] = "none"
      /\ \A d \in Call : d # c => /\ cpc'[d] = cpc[d] /\ tries'[d] = tries[d]
                                  /\ outcome'[d] = outcome[d]
  BY <1>0, <1>1, <1>2, <1>3 DEF TypeOK
<1>5. TypeOK'
  <2>1. tries' \in [Call -> 0 .. MaxRetries]
    BY <1>0, <1>1, <1>2, <1>3, Names DEF TypeOK
  <2>2. cpc' \in [Call -> CallLoc]
    BY <1>0, <1>1, <1>2, <1>3, Names DEF TypeOK
  <2> QED  BY <1>0, <1>1, <1>2, <1>3, <2>1, <2>2 DEF TypeOK
<1>6. CritInv'
  <2>1. Closing(c)
    BY <1>0, <1>1, <1>3, MutexCaller DEF Stopping
  <2>3. Quiet'
    BY <1>2, <2>1, QuietStays DEF Closing
  <2>4. Closing(c)'
    BY <1>2, <1>4, <2>1, <2>3 DEF Closing
  <2> QED  BY <2>4 DEF CritInv
<1> QED
  BY <1>1, <1>2, <1>3, <1>4, <1>5, <1>6, InsideStep DEF CritCall

LEMMA PostRunStep ==
  ASSUME Inv, NEW c \in Call, PostRun(c)
  PROVE  Inv'
<1>0. TypeOK /\ CallInv /\ ChainInv /\ CritInv /\ StatusInv
  BY DEF Inv
<1>1. /\ cpc[c] = "created"
      /\ sem' = [sem EXCEPT !["run"] = @ + 1]
      /\ outcome' = [outcome EXCEPT ![c] = "success"] /\ cpc' = [cpc EXCEPT ![c] = "unlock"]
  BY DEF PostRun, Post
<1>2. UNCHANGED <<lock, ienv, refused, forcefully, target, tries, done,
                  ident, slot, stack, resumeRan, disable, sleepingOn, nlj,
                  loc, ret, henv, old, entry, pendI, pendR, ran, races>>
  BY DEF PostRun, shared, calls, thread, pthread
<1>3. target[c] \in Target /\ cpc[c] \in CritCall
  BY <1>0, <1>1 DEF CallInv, CritCall
<1>4. /\ cpc'[c] = "unlock" /\ outcome'[c] = "success"
      /\ \A d \in Call : d # c => /\ cpc'[d] = cpc[d] /\ tries'[d] = tries[d]
                                  /\ outcome'[d] = outcome[d]
  BY <1>0, <1>1, <1>2, <1>3 DEF TypeOK
<1>5. TypeOK'
  <2>1. sem' \in [Semaphores -> Nat]
    BY <1>0, <1>1, Posts, Names
  <2>2. outcome' \in [Call -> {"none", "success", "dead", "sleeping", "refused", "error"}]
    BY <1>0, <1>1, <1>2, <1>3, Names DEF TypeOK
  <2>3. cpc' \in [Call -> CallLoc]
    BY <1>0, <1>1, <1>2, <1>3, Names DEF TypeOK
  <2> QED  BY <1>0, <1>1, <1>2, <1>3, <2>1, <2>2, <2>3 DEF TypeOK
<1>6. CritInv'
  <2>1. Closing(c)
    BY <1>0, <1>1, <1>3, MutexCaller
  <2>2. sem'["suspended"] = sem["suspended"] /\ sem'["resumed"] = sem["resumed"]
    BY <1>0, <1>1, Posts, Names
  <2>3. Quiet'
    BY <1>2, <2>1, <2>2, QuietStays DEF Closing
  <2>4. Closing(c)'
    BY <1>2, <1>4, <2>1, <2>3 DEF Closing
  <2> QED  BY <2>4 DEF CritInv
<1> QED
  BY <1>1, <1>2, <1>3, <1>4, <1>5, <1>6, InsideStep DEF CritCall

LEMMA SelectRunningStep ==
  ASSUME Inv, NEW c \in Call, SelectRunning(c)
  PROVE  Inv'
<1>0. TypeOK /\ CallInv /\ ChainInv /\ CritInv /\ StatusInv
  BY DEF Inv
<1>1. /\ cpc[c] = "select"
      /\ \/ /\ ienv' = NIL /\ outcome' = [outcome EXCEPT ![c] = "dead"]
            /\ cpc' = [cpc EXCEPT ![c] = "unlock"] /\ UNCHANGED pendI
         \/ /\ loc[ident[target[c]]] # "gone"
            /\ pendI' = [pendI EXCEPT ![ident[target[c]]] = @ + 1]
            /\ cpc' = [cpc EXCEPT ![c] = "waitSuspended"] /\ UNCHANGED <<ienv, outcome>>
  BY DEF SelectRunning
<1>2. UNCHANGED <<lock, refused, forcefully, sem, target, tries, done, ident,
                  slot, stack, resumeRan, disable, sleepingOn, nlj, loc, ret,
                  henv, old, entry, pendR, ran, races>>
  BY DEF SelectRunning, shared, calls, thread, pthread
<1>3. /\ target[c] \in Target /\ tries[c] \in Nat
      /\ outcome[c] = "none" \/ cpc[c] \in {"unlock", "end"}
      /\ cpc[c] \notin {"created", "unlock", "end"} =>
           tries[c] < MaxRetries /\ tries[c] + 1 \in 0 .. MaxRetries
      /\ cpc[c] \in CritCall
  BY <1>0, <1>1, CallTypes DEF CallInv, CritCall, TypeOK
<1>4. /\ cpc'[c] \in {"unlock", "waitSuspended"} /\ tries'[c] = tries[c]
      /\ outcome'[c] # "none" => cpc'[c] = "unlock"
      /\ \A d \in Call : d # c => /\ cpc'[d] = cpc[d] /\ tries'[d] = tries[d]
                                  /\ outcome'[d] = outcome[d]
  BY <1>0, <1>1, <1>2, <1>3 DEF TypeOK
<1>5. TypeOK'
  <2>1. ienv' \in Target \cup {NIL}
    BY <1>0, <1>1, <1>2, <1>3, Names DEF TypeOK
  <2>2. outcome' \in [Call -> {"none", "success", "dead", "sleeping", "refused", "error"}]
    BY <1>0, <1>1, <1>2, <1>3, Names DEF TypeOK
  <2>3. cpc' \in [Call -> CallLoc]
    BY <1>0, <1>1, <1>2, <1>3, Names DEF TypeOK
  <2>4. pendI' \in [Pthread -> Nat]
    <3>1. pendI \in [Pthread -> Nat]
      BY <1>0 DEF TypeOK
    <3> QED  BY <1>1, <3>1
  <2> QED  BY <1>0, <1>1, <1>2, <1>3, <2>1, <2>2, <2>3, <2>4 DEF TypeOK
<1>6. Selecting(c) /\ Quiet
  BY <1>0, <1>1, <1>3, MutexCaller DEF Selecting
<1>7. CritInv'
  <2>1. Selecting(c)
    BY <1>6
  <2>2. CASE cpc'[c] = "unlock"
    <3>1. ienv' = NIL /\ pendI' = pendI
      BY <1>0, <1>1, <2>2 DEF TypeOK
    <3>2. Quiet'
      BY <1>2, <2>1, <3>1, QuietStays DEF Selecting
    <3>3. Closing(c)'
      BY <2>2, <3>1, <3>2 DEF Closing
    <3> QED  BY <3>3 DEF CritInv
  <2>3. CASE cpc'[c] = "waitSuspended"
    <3>1. PICK u \in Target : u = target[c]
      BY <1>3
    <3>2. PICK p \in Pthread : p = ident[u]
      BY <1>0 DEF TypeOK
    <3>3. /\ loc[p] # "gone" /\ pendI' = [pendI EXCEPT ![p] = @ + 1] /\ ienv' = ienv
      BY <1>0, <1>1, <2>3, <3>1, <3>2 DEF TypeOK
    <3>4. Calm(p) /\ CalmBut(p) /\ Silent /\ NoFlag(Target) /\ ienv = target[c] /\ ~refused
      BY <1>1, <2>1, Sorts DEF Selecting, Quiet, CalmBut
    <3>5. ~Stopped(p) /\ ThreadOf(p) = u
      BY <1>0, <2>1, <3>2, QuietRuns DEF Selecting, ChainInv, On
    <3>6. pendI'[p] = 1 /\ \A q \in Pthread : q # p => pendI'[q] = pendI[q]
      BY <1>0, <3>3, <3>4 DEF TypeOK, Calm
    <3>7. Sent(p)'
      BY <1>2, <3>4, <3>5, <3>6 DEF Sent, Special, Calm, Stopped, Silent
    <3>8. CalmBut(p)'
      BY <1>2, <3>4, <3>6, OthersCalm
    <3>9. Signalled(c, p)'
      BY <1>2, <2>3, <3>1, <3>2, <3>3, <3>4, <3>7, <3>8 DEF Signalled, Answering, Silent, NoFlag, Calm
    <3> QED  BY <3>9 DEF CritInv
  <2> QED  BY <1>4, <2>2, <2>3
<1> QED
  BY <1>1, <1>2, <1>3, <1>4, <1>5, <1>6, <1>7, InsideStep DEF CritCall

LEMMA AnsweredStep ==
  ASSUME Inv, NEW c \in Call, Answered(c)
  PROVE  Inv'
<1>0. TypeOK /\ CallInv /\ ChainInv /\ CritInv /\ StatusInv
  BY DEF Inv
<1>1. /\ cpc[c] = "waitSuspended"
      /\ sem["suspended"] > 0 /\ sem' = [sem EXCEPT !["suspended"] = @ - 1]
      /\ ienv' = NIL /\ cpc' = [cpc EXCEPT ![c] = "waited"]
  BY DEF Answered, Take
<1>2. UNCHANGED <<lock, refused, forcefully, target, tries, outcome, done,
                  ident, slot, stack, resumeRan, disable, sleepingOn, nlj,
                  loc, ret, henv, old, entry, pendI, pendR, ran, races>>
  BY DEF Answered, shared, calls, thread, pthread
<1>3. /\ target[c] \in Target /\ tries[c] \in Nat
      /\ outcome[c] = "none" \/ cpc[c] \in {"unlock", "end"}
      /\ cpc[c] \notin {"created", "unlock", "end"} =>
           tries[c] < MaxRetries /\ tries[c] + 1 \in 0 .. MaxRetries
      /\ cpc[c] \in CritCall
  BY <1>0, <1>1, CallTypes DEF CallInv, CritCall, TypeOK
<1>4. /\ cpc'[c] = "waited" /\ tries'[c] = tries[c] /\ outcome'[c] = "none"
      /\ \A d \in Call : d # c => /\ cpc'[d] = cpc[d] /\ tries'[d] = tries[d]
                                  /\ outcome'[d] = outcome[d]
  BY <1>0, <1>1, <1>2, <1>3 DEF TypeOK
<1>5. TypeOK'
  <2>1. sem' \in [Semaphores -> Nat]
    BY <1>0, <1>1, Takes, Names
  <2>2. ienv' \in Target \cup {NIL}
    BY <1>0, <1>1, <1>2, <1>3, Names DEF TypeOK
  <2>3. cpc' \in [Call -> CallLoc]
    BY <1>0, <1>1, <1>2, <1>3, Names DEF TypeOK
  <2> QED  BY <1>0, <1>1, <1>2, <1>3, <2>1, <2>2, <2>3 DEF TypeOK
<1>6. CritInv'
  <2>1. PICK p \in Pthread : Signalled(c, p)
    BY <1>0, <1>1, <1>3, MutexCaller
  <2>2. Declined(p) \/ Accepted(p)
    BY <1>1, <2>1 DEF Signalled, Answering, Sent, Entered, Refusing
  <2>3. sem'["suspended"] = 0 /\ sem'["resumed"] = 0
    <3>1. sem["suspended"] = 1 /\ sem["resumed"] = 0
      BY <2>1, <2>2 DEF Declined, Accepted, Signalled
    <3>2. sem'["suspended"] = sem["suspended"] - 1 /\ sem'["resumed"] = sem["resumed"]
      BY <1>0, <1>1, Takes, Names
    <3> QED  BY <3>1, <3>2
  <2>4. CalmBut(p)' /\ NoFlag(Target)'
    BY <1>2, <2>1, QuietSame DEF Signalled, NoFlag
  <2>5. CASE Declined(p)
    <3>1. Calm(p)'
      BY <1>2, <2>1, <2>5 DEF Declined, Signalled, Calm, Special, Stopped
    <3>2. Quiet'
      BY <2>3, <2>4, <3>1 DEF Quiet, Silent, CalmBut
    <3>3. Closing(c)'
      BY <1>1, <1>2, <1>4, <2>5, <3>2 DEF Closing, Declined
    <3> QED  BY <3>3 DEF CritInv
  <2>6. CASE Accepted(p)
    <3>1. Stopping(c, p)'
      BY <1>1, <1>2, <1>4, <2>1, <2>3, <2>4, <2>6 DEF Stopping, Signalled, Accepted, Silent, Stopped
    <3> QED  BY <3>1 DEF CritInv
  <2> QED  BY <2>2, <2>5, <2>6
<1> QED
  BY <1>1, <1>2, <1>3, <1>4, <1>5, <1>6, InsideStep DEF CritCall

LEMMA AnswerTimeoutStep ==
  ASSUME Inv, InStep', NEW c \in Call, AnswerTimeout(c)
  PROVE  Inv'
<1>0. TypeOK /\ CallInv /\ ChainInv /\ CritInv /\ StatusInv
  BY DEF Inv
<1>1. /\ cpc[c] = "waitSuspended" /\ sem["suspended"] = 0
      /\ refused' = TRUE /\ ienv' = NIL /\ cpc' = [cpc EXCEPT ![c] = "waited"]
      /\ Race(loc[ident[target[c]]] # "gone", "late")
  BY DEF AnswerTimeout
<1>2. UNCHANGED <<lock, forcefully, sem, target, tries, outcome, done, ident,
                  slot, stack, resumeRan, disable, sleepingOn, nlj, loc, ret,
                  henv, old, entry, pendI, pendR, ran>>
  BY DEF AnswerTimeout, shared, calls, thread, pthread
<1>3. /\ target[c] \in Target /\ tries[c] \in Nat
      /\ outcome[c] = "none" \/ cpc[c] \in {"unlock", "end"}
      /\ cpc[c] \notin {"created", "unlock", "end"} =>
           tries[c] < MaxRetries /\ tries[c] + 1 \in 0 .. MaxRetries
      /\ cpc[c] \in CritCall
  BY <1>0, <1>1, CallTypes DEF CallInv, CritCall, TypeOK
<1>4. /\ cpc'[c] = "waited" /\ tries'[c] = tries[c] /\ outcome'[c] = "none"
      /\ \A d \in Call : d # c => /\ cpc'[d] = cpc[d] /\ tries'[d] = tries[d]
                                  /\ outcome'[d] = outcome[d]
  BY <1>0, <1>1, <1>2, <1>3 DEF TypeOK
<1>5. loc[ident[target[c]]] = "gone" /\ races' = races
  <2>1. ~(loc[ident[target[c]]] # "gone")
    BY <1>1, RaceIsNew
  <2> QED  BY <1>1, <2>1 DEF Race
<1>6. TypeOK'
  <2>1. refused' \in BOOLEAN
    BY <1>0, <1>1, <1>2, <1>3, Names DEF TypeOK
  <2>2. ienv' \in Target \cup {NIL}
    BY <1>0, <1>1, <1>2, <1>3, Names DEF TypeOK
  <2>3. cpc' \in [Call -> CallLoc]
    BY <1>0, <1>1, <1>2, <1>3, Names DEF TypeOK
  <2>4. races' \in SUBSET Races
    BY <1>0, <1>5 DEF TypeOK
  <2> QED  BY <1>0, <1>1, <1>2, <1>3, <2>1, <2>2, <2>3, <2>4 DEF TypeOK
<1>7. CritInv'
  <2>1. PICK p \in Pthread : Signalled(c, p)
    BY <1>0, <1>1, <1>3, MutexCaller
  <2>2. loc[p] = "gone"
    BY <1>5, <2>1 DEF Signalled
  <2>3. Calm(p)
    BY <2>1, <2>2 DEF Calm, Signalled, Stopped
  <2>4. Quiet
    BY <1>1, <2>1, <2>3 DEF Quiet, Silent, CalmBut, Signalled
  <2>5. Quiet'
    BY <1>2, <2>4, QuietStays
  <2>6. Closing(c)'
    BY <1>1, <1>4, <2>5 DEF Closing
  <2> QED  BY <2>6 DEF CritInv
<1> QED
  BY <1>1, <1>2, <1>3, <1>4, <1>6, <1>7, InsideStep DEF CritCall

LEMMA LockCallStep ==
  ASSUME Inv, NEW c \in Call, LockCall(c)
  PROVE  Inv'
<1>0. TypeOK /\ CallInv /\ ChainInv /\ CritInv /\ StatusInv
  BY DEF Inv
<1>1. /\ cpc[c] = "lock" /\ lock = NIL /\ lock' = <<c, "caller">>
      /\ \/ /\ ienv' = target[c] /\ refused' = FALSE
            /\ cpc' = [cpc EXCEPT ![c] = "select"] /\ UNCHANGED tries
         \/ /\ tries' = [tries EXCEPT ![c] = @ + 1]
            /\ cpc' = [cpc EXCEPT ![c] = "unlock"] /\ UNCHANGED <<ienv, refused>>
  BY DEF LockCall
<1>2. UNCHANGED <<forcefully, sem, target, outcome, done, ident, slot, stack,
                  resumeRan, disable, sleepingOn, nlj, loc, ret, henv, old,
                  entry, pendI, pendR, ran, races>>
  BY DEF LockCall, shared, calls, thread, pthread
<1>3. /\ target[c] \in Target /\ loc[c] = "none" /\ outcome[c] = "none"
      /\ tries[c] < MaxRetries /\ tries[c] + 1 \in 0 .. MaxRetries
  BY <1>0, <1>1, CallTypes, NoPthreadYet
<1>4. /\ \/ cpc'[c] = "select" /\ tries'[c] = tries[c] /\ ienv' = target[c] /\ ~refused'
         \/ cpc'[c] = "unlock" /\ ienv' = ienv
      /\ \A d \in Call : d # c => cpc'[d] = cpc[d] /\ tries'[d] = tries[d]
  BY <1>0, <1>1 DEF TypeOK
<1>5. Free
  BY <1>0, <1>1, MutexFree
<1>6. TypeOK'
  <2>1. lock' \in {NIL} \cup (Call \X {"caller", "function"})
    BY <1>0, <1>1, <1>2, <1>3, Names DEF TypeOK
  <2>2. ienv' \in Target \cup {NIL}
    BY <1>0, <1>1, <1>2, <1>3, Names DEF TypeOK
  <2>3. refused' \in BOOLEAN
    BY <1>0, <1>1, <1>2, <1>3, Names DEF TypeOK
  <2>4. cpc' \in [Call -> CallLoc]
    BY <1>0, <1>1, <1>2, <1>3, Names DEF TypeOK
  <2>5. tries' \in [Call -> 0 .. MaxRetries]
    BY <1>0, <1>1, <1>2, <1>3, Names DEF TypeOK
  <2> QED  BY <1>0, <1>1, <1>2, <1>3, <2>1, <2>2, <2>3, <2>4, <2>5 DEF TypeOK
<1>7. CallInv'
  <2>1. \A d \in Call : cpc[d] \notin CritCall /\ loc[d] \notin {"waitResumed", "popped"}
    BY <1>0, <1>1, Sorts DEF CallInv
  <2>2. ASSUME NEW d \in Call
        PROVE  /\ lock' = <<d, "caller">> <=> cpc'[d] \in CritCall
               /\ lock' = <<d, "function">> <=> loc'[d] \in {"waitResumed", "popped"}
    <3>1. lock' = <<d, "caller">> <=> d = c
      BY <1>1, Sorts
    <3>2. lock' # <<d, "function">>
      BY <1>1, Sorts
    <3>3. cpc'[d] \in CritCall <=> d = c
      BY <1>4, <2>1 DEF CritCall
    <3> QED  BY <1>2, <2>1, <3>1, <3>2, <3>3
  <2>3. ASSUME NEW d \in Call
        PROVE  /\ cpc'[d] # "idle" => target'[d] \in Target
               /\ cpc'[d] \notin {"created", "unlock", "end"} => tries'[d] < MaxRetries
               /\ loc'[d] # "none" =>
                    \/ cpc'[d] = "created"
                    \/ cpc'[d] \in {"unlock", "end"} /\ outcome'[d] = "success"
               /\ outcome'[d] # "none" => cpc'[d] \in {"unlock", "end"}
    BY <1>0, <1>2, <1>3, <1>4 DEF CallInv
  <2> QED  BY <2>2, <2>3 DEF CallInv
<1>8. ChainInv'
  BY <1>0, <1>2, ChainSame
<1>9. CritInv'
  <2>1. Quiet'
    BY <1>2, <1>5, QuietStays DEF Free
  <2>2. Selecting(c)' \/ Closing(c)'
    BY <1>2, <1>4, <1>5, <2>1 DEF Selecting, Closing, Free
  <2> QED  BY <2>2 DEF CritInv
<1>10. StatusInv'
  <2>1. \A d \in Call : cpc'[d] \in {"waitSuspended", "waited"} =>
          \E e \in Call : cpc[e] \in {"waitSuspended", "waited"}
    BY <1>4
  <2> QED  BY <1>0, <1>2, <2>1, StatusSame
<1> QED  BY <1>6, <1>7, <1>8, <1>9, <1>10 DEF Inv

LEMMA UnlockCallStep ==
  ASSUME Inv, NEW c \in Call, UnlockCall(c)
  PROVE  Inv'
<1>0. TypeOK /\ CallInv /\ ChainInv /\ CritInv /\ StatusInv
  BY DEF Inv
<1>1. /\ cpc[c] = "unlock" /\ lock' = NIL
      /\ \/ /\ outcome[c] # "none" /\ cpc' = [cpc EXCEPT ![c] = "end"]
            /\ UNCHANGED outcome
         \/ /\ outcome[c] = "none" /\ cpc' = [cpc EXCEPT ![c] = "end"]
            /\ outcome' = [outcome EXCEPT ![c] = "refused"]
         \/ /\ outcome[c] = "none" /\ ~(tries[c] >= MaxRetries)
            /\ cpc' = [cpc EXCEPT ![c] = "retry"] /\ UNCHANGED outcome
  BY DEF UnlockCall, Finish, Exhausted
<1>2. UNCHANGED <<ienv, refused, forcefully, sem, target, tries, done, ident,
                  slot, stack, resumeRan, disable, sleepingOn, nlj, loc, ret,
                  henv, old, entry, pendI, pendR, ran, races>>
  BY DEF UnlockCall, shared, calls, thread, pthread
<1>3. /\ target[c] \in Target /\ cpc[c] \in CritCall
      /\ loc[c] # "none" => outcome[c] = "success"
  BY <1>0, <1>1 DEF CallInv, CritCall
<1>4. /\ cpc'[c] \in {"end", "retry"}
      /\ cpc'[c] = "retry" => outcome[c] = "none" /\ ~(tries[c] >= MaxRetries)
      /\ outcome'[c] = outcome[c] \/ outcome[c] = "none"
      /\ outcome'[c] # "none" => cpc'[c] = "end"
      /\ \A d \in Call : d # c => cpc'[d] = cpc[d] /\ outcome'[d] = outcome[d]
  BY <1>0, <1>1 DEF TypeOK
<1>5. Closing(c)
  BY <1>0, <1>1, <1>3, MutexCaller
<1>6. TypeOK'
  <2>1. lock' \in {NIL} \cup (Call \X {"caller", "function"})
    BY <1>0, <1>1, <1>2, <1>3, Names DEF TypeOK
  <2>2. cpc' \in [Call -> CallLoc]
    BY <1>0, <1>1, <1>2, <1>3, Names DEF TypeOK
  <2>3. outcome' \in [Call -> {"none", "success", "dead", "sleeping", "refused", "error"}]
    BY <1>0, <1>1, <1>2, <1>3, Names DEF TypeOK
  <2> QED  BY <1>0, <1>1, <1>2, <1>3, <2>1, <2>2, <2>3 DEF TypeOK
<1>7. CallInv'
  <2>1. /\ \A d \in Call : d # c => cpc[d] \notin CritCall
        /\ \A d \in Call : loc[d] \notin {"waitResumed", "popped"}
    BY <1>0, <1>3, MutexOne
  <2>2. ASSUME NEW d \in Call
        PROVE  /\ lock' = <<d, "caller">> <=> cpc'[d] \in CritCall
               /\ lock' = <<d, "function">> <=> loc'[d] \in {"waitResumed", "popped"}
    BY <1>1, <1>2, <1>4, <2>1, Sorts DEF CritCall
  <2>3. tries[c] \in Nat /\ MaxRetries \in Nat
    BY <1>0, InterruptAssumption DEF TypeOK
  <2>4. cpc'[c] = "retry" => tries[c] < MaxRetries /\ loc[c] = "none"
    BY <1>3, <1>4, <2>3
  <2>5. ASSUME NEW d \in Call
        PROVE  /\ cpc'[d] # "idle" => target'[d] \in Target
               /\ cpc'[d] \notin {"created", "unlock", "end"} => tries'[d] < MaxRetries
               /\ loc'[d] # "none" =>
                    \/ cpc'[d] = "created"
                    \/ cpc'[d] \in {"unlock", "end"} /\ outcome'[d] = "success"
               /\ outcome'[d] # "none" => cpc'[d] \in {"unlock", "end"}
    BY <1>0, <1>2, <1>3, <1>4, <2>4 DEF CallInv
  <2> QED  BY <2>2, <2>5 DEF CallInv
<1>8. ChainInv'
  BY <1>0, <1>2, ChainSame
<1>9. CritInv'
  <2>1. Quiet'
    BY <1>2, <1>5, QuietStays DEF Closing
  <2>2. Free'
    BY <1>1, <1>2, <1>5, <2>1 DEF Closing, Free
  <2> QED  BY <2>2 DEF CritInv
<1>10. StatusInv'
  <2>1. \A d \in Call : cpc'[d] \in {"waitSuspended", "waited"} =>
          \E e \in Call : cpc[e] \in {"waitSuspended", "waited"}
    BY <1>4
  <2> QED  BY <1>0, <1>2, <2>1, StatusSame
<1> QED  BY <1>6, <1>7, <1>8, <1>9, <1>10 DEF Inv

(* The end of an interrupt pthread, which has given up the env.            *)
LEMMA ChainOver ==
  ASSUME TypeOK, ChainInv, UNCHANGED <<ident, stack, target>>,
         NEW c \in Call, NEW l, loc' = [loc EXCEPT ![c] = l],
         loc[c] \in {"waitResumed", "popped"}, l \in {"popped", "gone"}
  PROVE  ChainInv'
<1>a. /\ loc'[c] = l /\ c \in Pthread /\ c \notin Target
      /\ \A q \in Pthread : q # c => loc'[q] = loc[q]
  BY Sorts DEF TypeOK
<1>1. \A q : ThreadOf(q)' = ThreadOf(q)
  BY DEF ThreadOf
<1>2. \A q \in Pthread, t \in Target : On(q, t) => On(q, t)'
  BY <1>1, <1>a DEF On
<1>4. \A t \in Target : /\ ident[t] \in Pthread /\ t \in Pthread /\ ident[t] # c
                        /\ \A k \in 1 .. Len(stack[t]) :
                             stack[t][k].ident \in Pthread /\ stack[t][k].ident # c
  BY Sorts DEF ChainInv, On, Stopped
<1>5. \A t \in Target :
       /\ On(ident[t], t)' /\ loc'[ident[t]] \notin {"waitResumed", "popped"}
       /\ ident[t] \in Call => loc'[ident[t]] # "gone"
       /\ loc'[t] \notin {"none", "waitResumed", "popped", "born", "enabled", "popping"}
  BY <1>2, <1>4, <1>a DEF ChainInv
<1>6. ASSUME NEW t \in Target, NEW k \in 1 .. Len(stack[t])
      PROVE  /\ On(stack[t][k].ident, t)' /\ Stopped(stack[t][k].ident)'
             /\ stack[t][k].ident # ident[t]
             /\ \A j \in 1 .. Len(stack[t]) :
                  stack[t][j].ident = stack[t][k].ident => j = k
  <2>1. PICK q \in Pthread : q = stack[t][k].ident
    BY <1>4
  <2>2. On(q, t) /\ Stopped(q) /\ q # ident[t] /\ q # c
    BY <1>4, <2>1 DEF ChainInv
  <2>3. Stopped(q)'
    BY <1>a, <2>2 DEF Stopped
  <2> QED  BY <1>2, <2>1, <2>2, <2>3 DEF ChainInv
<1>7. \A q \in Pthread : q \in Target \/ loc'[q] \notin Over =>
       q = ident[ThreadOf(q)] \/ Stacked(q, ThreadOf(q))
  BY <1>a DEF ChainInv, Over
<1>8. \A q, t : Stacked(q, t)' <=> Stacked(q, t)
  BY DEF Stacked
<1> QED
  BY <1>1, <1>5, <1>6, <1>7, <1>8 DEF ChainInv

(* A pthread that has given the env back has no part in its status.        *)
LEMMA StatusOver ==
  ASSUME Inv, UNCHANGED <<ident, stack, target, cpc, ret, henv, old, entry, disable, nlj>>,
         NEW c \in Call, NEW l, loc' = [loc EXCEPT ![c] = l],
         loc[c] \in {"waitResumed", "popped"}, l \in {"popped", "gone"}
  PROVE  StatusInv'
<1>0. TypeOK /\ CallInv /\ ChainInv /\ CritInv /\ StatusInv
  BY DEF Inv
<1>1. /\ loc'[c] = l /\ c \in Pthread
      /\ \A q \in Pthread : q # c => loc'[q] = loc[q]
  BY <1>0, Sorts DEF TypeOK
<1>2. PICK u \in Target : u = target[c]
  BY <1>0, CallTypes
<1>3. \A t \in Target : ident[t] \in Pthread /\ ident[t] # c
  BY <1>0 DEF ChainInv, On
<1>4. EnvStatus(u)'
  <2>1. EnvStatus(u) /\ loc'[ident[u]] = loc[ident[u]]
    BY <1>0, <1>1, <1>3 DEF StatusInv
  <2> QED  BY <2>1 DEF EnvStatus, Stopped
<1>5. HandlerStatus(c)'
  <2>1. old[c] = 0
    BY <1>0, <1>1 DEF StatusInv, HandlerStatus
  <2> QED  BY <1>1, <2>1 DEF HandlerStatus, Stopped, HandlerLoc
<1>6. EntryStatus(c)'
  BY <1>1 DEF EntryStatus, CodeLoc, HandlerLoc, LispLoc
<1> QED  BY <1>0, <1>1, <1>3, <1>4, <1>5, <1>6, StatusStep

(* The end of an interrupt pthread, and the two steps that hand the env    *)
(* over, Push and Pop.                                                     *)
LEMMA ResumedStep ==
  ASSUME Inv, NEW c \in Call, Resumed(c)
  PROVE  Inv'
<1>0. TypeOK /\ CallInv /\ ChainInv /\ CritInv /\ StatusInv
  BY DEF Inv
<1>1. /\ loc[c] = "waitResumed" /\ sem["resumed"] > 0
      /\ sem' = [sem EXCEPT !["resumed"] = @ - 1]
      /\ ienv' = NIL /\ loc' = [loc EXCEPT ![c] = "popped"]
  BY DEF Resumed, Take, Goto
<1>2. UNCHANGED <<lock, refused, forcefully, cpc, target, tries, outcome,
                  done, ident, slot, stack, resumeRan, disable, sleepingOn,
                  nlj, ret, henv, old, entry, pendI, pendR, ran, races>>
  BY DEF Resumed, shared, calls, thread, pthread
<1>3. PICK p \in Pthread : Resuming(c, p)
  BY <1>0, <1>1, MutexFunction
<1>4. PICK u \in Target : u = target[c]
  BY <1>1, CallTypes
<1>5. Awake(p, u) /\ p = ident[u] /\ ThreadOf(p) = u
  BY <1>0, <1>1, <1>3, <1>4 DEF Resuming, Waited, Flagged, ChainInv, On
<1>6. /\ loc'[c] = "popped" /\ c \in Pthread
      /\ \A q \in Pthread : q # c => loc'[q] = loc[q]
  BY <1>0, <1>1, Sorts DEF TypeOK
<1>7. TypeOK'
  <2>1. sem' \in [Semaphores -> Nat]
    BY <1>0, <1>1, Takes, Names
  <2>2. ienv' \in Target \cup {NIL}
    BY <1>0, <1>1, <1>2, <1>6, Names DEF TypeOK
  <2>3. loc' \in [Pthread -> Locations]
    BY <1>0, <1>1, <1>2, <1>6, Names DEF TypeOK
  <2> QED  BY <1>0, <1>1, <1>2, <1>6, <2>1, <2>2, <2>3 DEF TypeOK
<1>8. CallInv'
  <2>1. \A d \in Call : /\ loc'[d] = "none" <=> loc[d] = "none"
                        /\ loc'[d] \in {"waitResumed", "popped"} <=>
                             loc[d] \in {"waitResumed", "popped"}
    BY <1>1, <1>6, Sorts
  <2> QED  BY <1>0, <1>2, <2>1, CallFrame
<1>9. ChainInv'
  BY <1>0, <1>1, <1>2, ChainOver
<1>10. CritInv'
  <2>1. sem'["resumed"] = sem["resumed"] - 1 /\ sem'["suspended"] = sem["suspended"]
    BY <1>0, <1>1, Takes, Names
  <2>2. Silent'
    BY <1>3, <1>5, <2>1 DEF Silent, Resuming, Awake
  <2>3. NoFlag(Target)'
    BY <1>2, <1>3, <1>4, <1>5 DEF NoFlag, Resuming, Awake
  <2>4. \A q : ThreadOf(q)' = ThreadOf(q)
    BY <1>2 DEF ThreadOf
  <2>5. p # c /\ loc'[p] = loc[p]
    BY <1>0, <1>1, <1>5, <1>6 DEF ChainInv
  <2>6. Calm(p)'
    BY <1>2, <1>3, <1>5, <2>5 DEF Calm, Resuming, Awake, Special, Stopped
  <2>7. ASSUME NEW q \in Pthread, q # p PROVE Calm(q)'
    <3>1. Calm(q)
      BY <1>3, <2>7 DEF Resuming, CalmBut
    <3> QED  BY <1>1, <1>2, <1>6, <2>4, <3>1 DEF Calm, Stopped
  <2>8. Closing(c)'
    BY <1>1, <1>6, <2>2, <2>3, <2>6, <2>7 DEF Closing, Quiet, CalmBut
  <2> QED  BY <2>8 DEF CritInv
<1>11. StatusInv'
  BY <1>1, <1>2, StatusOver
<1> QED  BY <1>7, <1>8, <1>9, <1>10, <1>11 DEF Inv

LEMMA UnlockPopStep ==
  ASSUME Inv, NEW c \in Call, UnlockPop(c)
  PROVE  Inv'
<1>0. TypeOK /\ CallInv /\ ChainInv /\ CritInv /\ StatusInv
  BY DEF Inv
<1>1. loc[c] = "popped" /\ lock' = NIL /\ loc' = [loc EXCEPT ![c] = "gone"]
  BY DEF UnlockPop, Goto
<1>2. UNCHANGED <<ienv, refused, forcefully, sem, cpc, target, tries,
                  outcome, done, ident, slot, stack, resumeRan, disable,
                  sleepingOn, nlj, ret, henv, old, entry, pendI, pendR, ran,
                  races>>
  BY DEF UnlockPop, shared, calls, thread, pthread
<1>3. Closing(c)
  BY <1>0, <1>1, MutexFunction
<1>4. /\ loc'[c] = "gone" /\ c \in Pthread
      /\ \A q \in Pthread : q # c => loc'[q] = loc[q]
  BY <1>0, <1>1, Sorts DEF TypeOK
<1>5. TypeOK'
  <2>1. lock' \in {NIL} \cup (Call \X {"caller", "function"})
    BY <1>0, <1>1, <1>2, Names DEF TypeOK
  <2>2. loc' \in [Pthread -> Locations]
    BY <1>0, <1>1, <1>2, Names DEF TypeOK
  <2> QED  BY <1>0, <1>1, <1>2, <2>1, <2>2 DEF TypeOK
<1>6. CallInv'
  <2>1. /\ \A d \in Call : cpc[d] \notin CritCall
        /\ \A d \in Call : d # c => loc[d] \notin {"waitResumed", "popped"}
    BY <1>0, <1>1, MutexOne
  <2>2. \A d \in Call : loc'[d] \notin {"waitResumed", "popped"} /\ (loc'[d] = "none" <=> loc[d] = "none")
    BY <1>1, <1>4, <2>1, Sorts
  <2> QED  BY <1>0, <1>1, <1>2, <2>1, <2>2, Sorts DEF CallInv
<1>7. ChainInv'
  BY <1>0, <1>1, <1>2, ChainOver
<1>8. CritInv'
  <2>1. \A q : ThreadOf(q)' = ThreadOf(q)
    BY <1>2 DEF ThreadOf
  <2>2. \A q \in Pthread : Calm(q) => Calm(q)'
    BY <1>2, <1>4, <2>1 DEF Calm, Stopped
  <2>3. Quiet'
    BY <1>2, <1>3, <2>2 DEF Closing, Quiet, CalmBut, Silent, NoFlag
  <2>4. Free'
    BY <1>1, <1>2, <1>3, <2>3 DEF Closing, Free
  <2> QED  BY <2>4 DEF CritInv
<1>9. StatusInv'
  BY <1>1, <1>2, StatusOver
<1> QED  BY <1>5, <1>6, <1>7, <1>8, <1>9 DEF Inv

-----------------------------------------------------------------------------
(* The push and the pop.                                                   *)

LEMMA PushStep ==
  ASSUME Inv, NEW c \in Call, Push(c)
  PROVE  Inv'
<1>0. TypeOK /\ CallInv /\ ChainInv /\ CritInv /\ StatusInv
  BY DEF Inv
<1>1. cpc[c] = "waited" /\ ~refused /\ cpc[c] \in CritCall
  BY DEF Push, CritCall
<1>a. loc[c] # "popped"
  BY <1>0, <1>1, NoPthreadYet
<1>2. PICK p \in Pthread : Stopping(c, p)
  <2>1. ~Closing(c)
    BY <1>0, <1>1, <1>a DEF Closing
  <2> QED  BY <1>0, <1>1, <2>1, MutexCaller
<1>3. PICK u \in Target : u = target[c]
  BY <1>0, <1>1 DEF CallInv
<1>4. PICK n \in Nat : n = Len(stack[u])
  BY <1>0, LenProperties DEF TypeOK
<1> DEFINE new == [ident |-> p, disable |-> disable[u]]
<1>5. p = ident[u] /\ Stopped(p) /\ On(p, u)
  BY <1>0, <1>2, <1>3 DEF Stopping, ChainInv
<1>6. loc[c] = "none" /\ c \in Pthread /\ c \notin Target /\ c # p
  BY <1>0, <1>1, <1>5, NoPthreadYet, Sorts DEF Stopped
<1>7. /\ stack' = [stack EXCEPT ![u] = Append(@, new)]
      /\ slot' = [slot EXCEPT ![u] = c] /\ disable' = [disable EXCEPT ![u] = 2]
      /\ ident' = [ident EXCEPT ![u] = c] /\ loc' = [loc EXCEPT ![c] = "born"]
      /\ cpc' = [cpc EXCEPT ![c] = "created"]
  BY <1>3, <1>5 DEF Push
<1>8. UNCHANGED <<lock, ienv, refused, forcefully, sem, target, tries,
                  outcome, done, resumeRan, sleepingOn, nlj, ret, henv, old,
                  entry, pendI, pendR, ran, races>>
  BY DEF Push, shared, calls, thread, pthread
<1>9. new \in [ident : Pthread, disable : 0 .. 2] /\ new.ident = p /\ new.disable = disable[u]
  BY <1>0 DEF TypeOK
<1> HIDE DEF new
<1>10. /\ loc'[c] = "born" /\ ident'[u] = c /\ disable'[u] = 2 /\ cpc'[c] = "created"
       /\ \A q \in Pthread : q # c => loc'[q] = loc[q]
       /\ \A d \in Call : d # c => cpc'[d] = cpc[d]
       /\ \A t \in Target : t # u => /\ ident'[t] = ident[t] /\ disable'[t] = disable[t]
                                  /\ stack'[t] = stack[t]
  BY <1>0, <1>6, <1>7 DEF TypeOK
<1>11. /\ Len(stack'[u]) = n + 1 /\ stack'[u][n + 1] = new
       /\ \A k \in 1 .. n : stack'[u][k] = stack[u][k]
       /\ stack'[u] \in Seq([ident : Pthread, disable : 0 .. 2])
  <2>1. stack[u] \in Seq([ident : Pthread, disable : 0 .. 2])
        /\ stack'[u] = Append(stack[u], new)
    BY <1>0, <1>7 DEF TypeOK
  <2> QED  BY <1>4, <1>9, <2>1, AppendProperties
<1>12. \A q : ThreadOf(q)' = ThreadOf(q)
  BY <1>8 DEF ThreadOf
<1>13. TypeOK'
  <2>1. stack' \in [Target -> Seq([ident : Pthread, disable : 0 .. 2])]
    <3>1. stack \in [Target -> Seq([ident : Pthread, disable : 0 .. 2])]
      BY <1>0 DEF TypeOK
    <3> QED  BY <1>7, <1>11, <3>1
  <2>2. slot' \in [Target -> Call \cup {NIL}]
    BY <1>0, <1>7 DEF TypeOK
  <2>3. disable' \in [Target -> 0 .. 2]
    BY <1>0, <1>7 DEF TypeOK
  <2>4. ident' \in [Target -> Pthread]
    BY <1>0, <1>6, <1>7 DEF TypeOK
  <2>5. loc' \in [Pthread -> Locations]
    BY <1>0, <1>7, Names DEF TypeOK
  <2>6. cpc' \in [Call -> CallLoc]
    BY <1>0, <1>7, Names DEF TypeOK
  <2> QED  BY <1>0, <1>8, <2>1, <2>2, <2>3, <2>4, <2>5, <2>6 DEF TypeOK
<1>14. CallInv'
  <2>1. ASSUME NEW d \in Call
        PROVE  /\ cpc'[d] # "idle" => target'[d] \in Target
               /\ cpc'[d] \notin {"created", "unlock", "end"} => tries'[d] < MaxRetries
               /\ loc'[d] # "none" =>
                    \/ cpc'[d] = "created"
                    \/ cpc'[d] \in {"unlock", "end"} /\ outcome'[d] = "success"
               /\ outcome'[d] # "none" => cpc'[d] \in {"unlock", "end"}
    <3>1. CASE d = c
      BY <1>0, <1>1, <1>3, <1>8, <1>10, <3>1, NoPthreadYet
    <3>2. CASE d # c
      BY <1>0, <1>8, <1>10, <3>2, Sorts DEF CallInv
    <3> QED  BY <3>1, <3>2
  <2>2. ASSUME NEW d \in Call
        PROVE  /\ lock' = <<d, "caller">> <=> cpc'[d] \in CritCall
               /\ lock' = <<d, "function">> <=> loc'[d] \in {"waitResumed", "popped"}
    <3>1. /\ cpc'[d] \in CritCall <=> cpc[d] \in CritCall
          /\ loc'[d] \in {"waitResumed", "popped"} <=> loc[d] \in {"waitResumed", "popped"}
      BY <1>1, <1>6, <1>10, Sorts DEF CritCall
    <3> QED  BY <1>0, <1>8, <3>1 DEF CallInv
  <2> QED  BY <2>1, <2>2 DEF CallInv
<1>15. ChainInv'
  <2>1. \A t \in Target : /\ ident[t] \in Pthread /\ t \in Pthread /\ ident[t] # c /\ t # c
                          /\ \A k \in 1 .. Len(stack[t]) :
                               stack[t][k].ident \in Pthread /\ stack[t][k].ident # c
    BY <1>0, <1>6, Sorts DEF ChainInv, On
  <2>2. \A q \in Pthread, t \in Target : On(q, t) => On(q, t)'
    BY <1>6, <1>10, <1>12 DEF On
  <2>3. On(c, u)'
    BY <1>3, <1>6, <1>10, <1>12 DEF On, ThreadOf
  <2>4. ASSUME NEW t \in Target
        PROVE  /\ On(ident[t], t)' /\ loc'[ident'[t]] \notin {"waitResumed", "popped"}
               /\ ident'[t] \in Call => loc'[ident'[t]] # "gone"
               /\ loc'[t] \notin {"none", "waitResumed", "popped", "born", "enabled", "popping"}
    <3>1. PICK q \in Pthread : q = ident'[t]
      BY <1>6, <1>10, <2>1
    <3>2. On(q, t)' /\ loc'[q] \notin {"waitResumed", "popped"} /\ (q \in Call => loc'[q] # "gone")
      <4>1. CASE t = u
        BY <1>10, <2>3, <3>1, <4>1
      <4>2. CASE t # u
        BY <1>0, <1>10, <2>1, <2>2, <3>1, <4>2 DEF ChainInv
      <4> QED  BY <4>1, <4>2
    <3>3. loc'[t] \notin {"none", "waitResumed", "popped", "born", "enabled", "popping"}
      BY <1>0, <1>10, <2>1 DEF ChainInv
    <3> QED  BY <3>1, <3>2, <3>3 DEF On
  <2>5. ASSUME NEW t \in Target, NEW k \in 1 .. Len(stack'[t])
        PROVE  /\ On(stack[t][k].ident, t)' /\ Stopped(stack[t][k].ident)'
               /\ stack'[t][k].ident # ident'[t]
               /\ \A j \in 1 .. Len(stack'[t]) :
                    stack'[t][j].ident = stack'[t][k].ident => j = k
    <3>1. CASE t # u
      <4>1. PICK q \in Pthread : q = stack[t][k].ident
        BY <1>10, <2>1, <3>1
      <4>2. On(q, t) /\ Stopped(q) /\ q # ident[t] /\ q # c
        BY <1>0, <1>10, <2>1, <3>1, <4>1 DEF ChainInv
      <4>3. Stopped(q)' /\ On(q, t)'
        BY <1>10, <2>2, <4>2 DEF Stopped
      <4>4. \A j \in 1 .. Len(stack[t]) : stack[t][j].ident = q => j = k
        BY <1>0, <1>10, <3>1, <4>1 DEF ChainInv
      <4>5. stack'[t] = stack[t] /\ ident'[t] = ident[t]
        BY <1>10, <3>1
      <4> QED  BY <4>1, <4>2, <4>3, <4>4, <4>5 DEF On, Stopped
    <3>2. CASE t = u /\ k = n + 1
      <4>1. stack'[u][k].ident = p /\ On(p, u)' /\ Stopped(p)'
        BY <1>5, <1>6, <1>9, <1>10, <1>11, <2>2, <3>2 DEF Stopped
      <4>2. \A j \in 1 .. n : stack'[u][j].ident # p
        BY <1>0, <1>4, <1>5, <1>11 DEF ChainInv
      <4>3. \A j \in 1 .. n + 1 : j # n + 1 => j \in 1 .. n
        BY <1>4
      <4>4. \A j \in 1 .. Len(stack'[u]) : stack'[u][j].ident = p => j = k
        BY <1>11, <3>2, <4>2, <4>3
      <4> QED  BY <1>6, <1>10, <3>2, <4>1, <4>4 DEF On, Stopped
    <3>3. CASE t = u /\ k # n + 1
      <4>1. k \in 1 .. Len(stack[u]) /\ k \in 1 .. n
        BY <1>4, <1>11, <3>3
      <4>2. PICK q \in Pthread : q = stack[u][k].ident
        BY <2>1, <4>1
      <4>3. On(q, u) /\ Stopped(q) /\ q # ident[u] /\ q # c
        BY <1>0, <2>1, <4>1, <4>2 DEF ChainInv
      <4>4. Stopped(q)' /\ On(q, u)' /\ stack'[u][k].ident = q
        BY <1>10, <1>11, <2>2, <4>1, <4>2, <4>3 DEF Stopped
      <4>5. ASSUME NEW j \in 1 .. Len(stack'[u]), stack'[u][j].ident = q PROVE j = k
        <5>1. j # n + 1
          BY <1>5, <1>9, <1>11, <4>3, <4>5
        <5>2. j \in 1 .. n /\ j \in 1 .. Len(stack[u])
          BY <1>4, <1>11, <5>1
        <5> QED  BY <1>0, <1>11, <4>1, <4>2, <4>5, <5>2 DEF ChainInv
      <4> QED  BY <1>10, <3>3, <4>3, <4>4, <4>5 DEF On, Stopped
    <3> QED  BY <3>1, <3>2, <3>3
  <2>6. ASSUME NEW q \in Pthread, q \in Target \/ loc'[q] \notin Over
        PROVE  (q = ident[ThreadOf(q)] \/ Stacked(q, ThreadOf(q)))'
    <3>1. CASE q = c
      BY <1>3, <1>8, <1>10, <3>1 DEF ThreadOf
    <3>2. CASE q # c
      <4>1. PICK t \in Target : t = ThreadOf(q)
        BY <1>0, <1>10, <2>6, <3>2, Owner DEF Over, ChainInv
      <4>0. SUFFICES q = ident'[t] \/ \E k \in 1 .. Len(stack'[t]) : stack'[t][k].ident = q
        BY <1>12, <4>1 DEF Stacked
      <4>2. q = ident[t] \/ Stacked(q, t)
        BY <1>0, <1>10, <2>6, <3>2, <4>1 DEF ChainInv
      <4>3. CASE t # u
        BY <1>10, <4>2, <4>3 DEF Stacked
      <4>4. CASE t = u /\ q = ident[u]
        <5>1. n + 1 \in 1 .. Len(stack'[u]) /\ stack'[u][n + 1].ident = q
          BY <1>4, <1>5, <1>9, <1>11, <4>4
        <5> QED  BY <4>4, <5>1
      <4>5. CASE t = u /\ Stacked(q, u)
        <5>1. PICK k \in 1 .. n : stack[u][k].ident = q
          BY <1>4, <4>5 DEF Stacked
        <5>2. k \in 1 .. Len(stack'[u]) /\ stack'[u][k].ident = q
          BY <1>4, <1>11, <5>1
        <5> QED  BY <4>5, <5>2
      <4> QED  BY <4>2, <4>3, <4>4, <4>5
    <3> QED  BY <3>1, <3>2
  <2> QED  BY <2>4, <2>5, <2>6 DEF ChainInv
<1>16. CritInv'
  <2>1. Silent' /\ NoFlag(Target)' /\ ienv' = NIL
    BY <1>2, <1>8 DEF Stopping, Silent, NoFlag
  <2>2. ASSUME NEW q \in Pthread PROVE Calm(q)'
    <3>1. CASE q = c
      <4>1. Calm(c)
        BY <1>2, <1>6 DEF Stopping, CalmBut
      <4> QED  BY <1>6, <1>8, <1>10, <3>1, <4>1 DEF Calm, Stopped
    <3>2. CASE q = p
      <4>1. ThreadOf(p) = u
        BY <1>5 DEF On
      <4> QED  BY <1>2, <1>5, <1>6, <1>8, <1>10, <1>12, <3>2, <4>1 DEF Calm, Stopped, Stopping
    <3>3. CASE q # c /\ q # p
      <4>1. Calm(q)
        BY <1>2, <3>3 DEF Stopping, CalmBut
      <4>2. Stopped(q) => ThreadOf(q) \in Target
        BY <1>0, Owner DEF Stopped
      <4>3. Stopped(q) => q # ident'[ThreadOf(q)]
        BY <1>10, <3>3, <4>1, <4>2 DEF Calm
      <4> QED  BY <1>8, <1>10, <1>12, <3>3, <4>1, <4>3 DEF Calm, Stopped
    <3> QED  BY <3>1, <3>2, <3>3
  <2>3. Closing(c)'
    BY <1>10, <2>1, <2>2 DEF Closing, Quiet, CalmBut
  <2> QED  BY <2>3 DEF CritInv
<1>17. StatusInv'
  <2>1. disable[u] = Level(ret[p])
    BY <1>0, <1>1, <1>5 DEF StatusInv, EnvStatus
  <2>2. EnvStatus(u)'
    BY <1>10 DEF EnvStatus, Level, Stopped, HandlerLoc
  <2>3. ASSUME NEW t \in Target, t # u PROVE EnvStatus(t)'
    <3>1. EnvStatus(t) /\ ident[t] \in Pthread /\ ident[t] # c
      BY <1>0, <1>6 DEF StatusInv, ChainInv, On
    <3>2. /\ loc'[ident[t]] = loc[ident[t]] /\ ident'[t] = ident[t] /\ disable'[t] = disable[t]
          /\ \A d \in Call : cpc'[d] \in {"waitSuspended", "waited"} => cpc'[d] = cpc[d]
      BY <1>10, <2>3, <3>1
    <3> QED  BY <1>8, <3>1, <3>2 DEF EnvStatus, Stopped
  <2>4. ASSUME NEW t \in Target PROVE StackStatus(t)'
    <3>1. StackStatus(t)
      BY <1>0 DEF StatusInv
    <3>2. CASE t # u
      BY <1>8, <1>10, <3>1, <3>2 DEF StackStatus
    <3>3. CASE t = u
      <4>1. ASSUME NEW k \in 1 .. Len(stack'[u])
            PROVE  stack'[u][k].disable = Level(ret[stack'[u][k].ident])
        <5>1. CASE k = n + 1
          BY <1>9, <1>11, <2>1, <5>1
        <5>2. CASE k # n + 1
          <6>1. k \in 1 .. n /\ k \in 1 .. Len(stack[u])
            BY <1>4, <1>11, <5>2
          <6> QED  BY <1>11, <3>1, <3>3, <6>1 DEF StackStatus
        <5> QED  BY <5>1, <5>2
      <4> QED  BY <1>8, <3>3, <4>1 DEF StackStatus, Level
    <3> QED  BY <3>2, <3>3
  <2>5. ASSUME NEW q \in Pthread PROVE HandlerStatus(q)'
    <3>1. HandlerStatus(q)
      BY <1>0 DEF StatusInv
    <3>2. CASE q = c
      BY <1>8, <1>10, <3>1, <3>2 DEF HandlerStatus, Stopped, HandlerLoc
    <3>3. CASE q # c
      BY <1>8, <1>10, <1>12, <3>1, <3>3 DEF HandlerStatus, Stopped
    <3> QED  BY <3>2, <3>3
  <2>6. ASSUME NEW d \in Call PROVE EntryStatus(d)'
    <3>1. EntryStatus(d) /\ d \in Pthread
      BY <1>0, Sorts DEF StatusInv
    <3>2. CASE d = c
      BY <1>10, <3>2 DEF EntryStatus, CodeLoc, HandlerLoc, LispLoc
    <3>3. CASE d # c
      BY <1>8, <1>10, <3>1, <3>3 DEF EntryStatus, CodeLoc
    <3> QED  BY <3>2, <3>3
  <2> QED  BY <2>2, <2>3, <2>4, <2>5, <2>6 DEF StatusInv
<1> QED  BY <1>13, <1>14, <1>15, <1>16, <1>17 DEF Inv

LEMMA PopStep ==
  ASSUME Inv, NEW c \in Call, Pop(c)
  PROVE  Inv'
<1>0. TypeOK /\ CallInv /\ ChainInv /\ CritInv /\ StatusInv
  BY DEF Inv
<1>1. /\ loc[c] = "popping" /\ lock = NIL /\ lock' = <<c, "function">>
      /\ c \in Pthread /\ c \notin Target /\ loc[c] \notin HandlerLoc \cup Over
  BY Sorts DEF Pop, HandlerLoc, Over
<1>2. PICK u \in Target : u = target[c]
  BY <1>1, CallTypes
<1>3. ThreadOf(c) = u /\ c = ident[u] /\ \A t \in Target : c = ident[t] => t = u
  BY <1>1, <1>2, CodeStatus DEF ThreadOf
<1>4. Free /\ \A d \in Call : cpc[d] \notin CritCall /\ loc[d] \notin {"waitResumed", "popped"}
  BY <1>0, <1>1, MutexFree, Sorts DEF CallInv
<1>5. /\ stack[u] \in Seq([ident : Pthread, disable : 0 .. 2])
      /\ Len(stack[u]) \in Nat
  BY <1>0, LenProperties DEF TypeOK
<1>6. Len(stack[u]) # 0
  <2>1. u \in Pthread /\ ThreadOf(u) = u /\ u # c
    BY <1>1, Sorts DEF ThreadOf
  <2>2. Stacked(u, u)
    BY <1>0, <1>3, <2>1 DEF ChainInv
  <2> QED  BY <1>5, <2>2 DEF Stacked
<1>7. PICK n \in Nat : Len(stack[u]) = n + 1
  <2>1. Len(stack[u]) - 1 \in Nat /\ Len(stack[u]) = (Len(stack[u]) - 1) + 1
    BY <1>5, <1>6
  <2> QED  BY <2>1
<1>8. n + 1 \in 1 .. Len(stack[u]) /\ \A k \in 1 .. n : k \in 1 .. Len(stack[u]) /\ k # n + 1
  BY <1>7
<1>9. PICK top \in [ident : Pthread, disable : 0 .. 2] : top = stack[u][n + 1]
  BY <1>5, <1>8, ElementOfSeq
<1>10. PICK p \in Pthread : p = top.ident
  BY <1>9
<1>11. /\ On(p, u) /\ Stopped(p) /\ p # c
       /\ \A k \in 1 .. n : stack[u][k].ident # p
  BY <1>0, <1>3, <1>8, <1>9, <1>10 DEF ChainInv
<1>12. loc[p] # "gone" /\ ThreadOf(p) = u
  BY <1>11 DEF Stopped, On
<1>13. /\ ident' = [ident EXCEPT ![u] = p]
       /\ disable' = [disable EXCEPT ![u] = IF nlj[u] THEN disable[u] ELSE top.disable]
       /\ stack' = [stack EXCEPT ![u] = SubSeq(stack[u], 1, n)]
       /\ resumeRan' = [resumeRan EXCEPT ![u] = FALSE]
       /\ ienv' = u /\ pendR' = [pendR EXCEPT ![p] = @ + 1]
       /\ loc' = [loc EXCEPT ![c] = "waitResumed"]
  <2>1. stack[target[c]][Len(stack[target[c]])] = top /\ Len(stack[u]) - 1 = n
    BY <1>2, <1>7, <1>9
  <2>2. /\ ident' = [ident EXCEPT ![u] = p]
        /\ disable' = [disable EXCEPT ![u] = IF nlj[u] THEN disable[u] ELSE top.disable]
        /\ resumeRan' = [resumeRan EXCEPT ![u] = FALSE]
    BY <1>2, <1>10, <2>1 DEF Pop, StatusToRestore
  <2>3. stack' = [stack EXCEPT ![u] = SubSeq(stack[u], 1, n)]
    BY <1>2, <2>1 DEF Pop, Rest
  <2>4. /\ ienv' = u /\ pendR' = [pendR EXCEPT ![p] = @ + 1]
        /\ loc' = [loc EXCEPT ![c] = "waitResumed"]
    BY <1>2, <1>10, <1>12, <2>1 DEF Pop, SendResume, Goto
  <2> QED  BY <2>2, <2>3, <2>4
<1>14. UNCHANGED <<refused, forcefully, sem, cpc, target, tries, outcome,
                   done, slot, sleepingOn, nlj, ret, henv, old, entry, pendI,
                   ran, races>>
  BY DEF Pop, shared, calls, thread, pthread
<1>15. /\ loc'[c] = "waitResumed" /\ ident'[u] = p /\ pendR'[p] = pendR[p] + 1 /\ ~resumeRan'[u]
       /\ disable'[u] = (IF nlj[u] THEN disable[u] ELSE top.disable)
       /\ \A q \in Pthread : q # c => loc'[q] = loc[q]
       /\ \A q \in Pthread : q # p => pendR'[q] = pendR[q]
       /\ \A t \in Target : t # u => /\ ident'[t] = ident[t] /\ disable'[t] = disable[t]
                                  /\ stack'[t] = stack[t] /\ resumeRan'[t] = resumeRan[t]
  BY <1>0, <1>1, <1>13 DEF TypeOK
<1>16. /\ Len(stack'[u]) = n
       /\ \A k \in 1 .. n : stack'[u][k] = stack[u][k]
       /\ stack'[u] \in Seq([ident : Pthread, disable : 0 .. 2])
  <2>1. stack'[u] = SubSeq(stack[u], 1, n)
    BY <1>0, <1>13 DEF TypeOK
  <2>2. /\ 1 \in Int /\ n \in Int /\ n - 1 + 1 = n
        /\ \A i \in 1 .. n : i \in 1 .. Len(stack[u]) /\ 1 + i - 1 = i
        /\ (IF 1 <= n THEN n - 1 + 1 ELSE 0) = n
    BY <1>7
  <2>a. \A i \in 1 .. n : stack[u][i] \in [ident : Pthread, disable : 0 .. 2]
    BY <1>5, <2>2, ElementOfSeq
  <2>b. /\ SubSeq(stack[u], 1, n) \in Seq([ident : Pthread, disable : 0 .. 2])
        /\ Len(SubSeq(stack[u], 1, n)) = IF 1 <= n THEN n - 1 + 1 ELSE 0
        /\ \A i \in 1 .. n - 1 + 1 : SubSeq(stack[u], 1, n)[i] = stack[u][1 + i - 1]
    BY <2>2, <2>a, SubSeqProperties
  <2>3. /\ SubSeq(stack[u], 1, n) \in Seq([ident : Pthread, disable : 0 .. 2])
        /\ Len(SubSeq(stack[u], 1, n)) = n
        /\ \A i \in 1 .. n : SubSeq(stack[u], 1, n)[i] = stack[u][i]
    BY <2>2, <2>b
  <2> QED  BY <2>1, <2>3
<1>17. \A q : ThreadOf(q)' = ThreadOf(q)
  BY <1>14 DEF ThreadOf
<1>18. TypeOK'
  <2>1. stack' \in [Target -> Seq([ident : Pthread, disable : 0 .. 2])]
    <3>1. stack \in [Target -> Seq([ident : Pthread, disable : 0 .. 2])]
      BY <1>0 DEF TypeOK
    <3> QED  BY <1>13, <1>16, <3>1
  <2>2. disable' \in [Target -> 0 .. 2]
    <3>1. (IF nlj[u] THEN disable[u] ELSE top.disable) \in 0 .. 2
      BY <1>0, <1>9 DEF TypeOK
    <3>2. disable \in [Target -> 0 .. 2]
      BY <1>0 DEF TypeOK
    <3> QED  BY <1>13, <3>1, <3>2
  <2>3. ident' \in [Target -> Pthread]
    BY <1>0, <1>13 DEF TypeOK
  <2>4. loc' \in [Pthread -> Locations]
    BY <1>0, <1>13, Names DEF TypeOK
  <2>5. pendR' \in [Pthread -> Nat]
    BY <1>0, <1>13 DEF TypeOK
  <2>6. resumeRan' \in [Target -> BOOLEAN]
    BY <1>0, <1>13 DEF TypeOK
  <2>7. lock' \in {NIL} \cup (Call \X {"caller", "function"}) /\ ienv' \in Target \cup {NIL}
    BY <1>1, <1>13
  <2> QED  BY <1>0, <1>14, <2>1, <2>2, <2>3, <2>4, <2>5, <2>6, <2>7 DEF TypeOK
<1>19. CallInv'
  <2>1. ASSUME NEW d \in Call
        PROVE  /\ cpc'[d] # "idle" => target'[d] \in Target
               /\ cpc'[d] \notin {"created", "unlock", "end"} => tries'[d] < MaxRetries
               /\ loc'[d] # "none" =>
                    \/ cpc'[d] = "created"
                    \/ cpc'[d] \in {"unlock", "end"} /\ outcome'[d] = "success"
               /\ outcome'[d] # "none" => cpc'[d] \in {"unlock", "end"}
    <3>1. loc'[d] # "none" => loc[d] # "none"
      BY <1>1, <1>15, Sorts
    <3> QED  BY <1>0, <1>14, <3>1 DEF CallInv
  <2>2. ASSUME NEW d \in Call
        PROVE  /\ lock' = <<d, "caller">> <=> cpc'[d] \in CritCall
               /\ lock' = <<d, "function">> <=> loc'[d] \in {"waitResumed", "popped"}
    <3>1. cpc'[d] \notin CritCall /\ lock' # <<d, "caller">>
      BY <1>1, <1>4, <1>14, Sorts
    <3>2. lock' = <<d, "function">> <=> d = c
      BY <1>1, Sorts
    <3>3. loc'[d] \in {"waitResumed", "popped"} <=> d = c
      BY <1>4, <1>15, Sorts
    <3> QED  BY <3>1, <3>2, <3>3
  <2> QED  BY <2>1, <2>2 DEF CallInv
<1>20. ChainInv'
  <2>1. \A t \in Target : /\ ident[t] \in Pthread /\ t \in Pthread /\ t # c
                          /\ t # u => ident[t] # c
                          /\ \A k \in 1 .. Len(stack[t]) :
                               stack[t][k].ident \in Pthread /\ stack[t][k].ident # c
    BY <1>0, <1>1, <1>3, Sorts DEF ChainInv, On, Stopped
  <2>2. \A q \in Pthread, t \in Target : On(q, t) => On(q, t)'
    BY <1>15, <1>17 DEF On
  <2>4. ASSUME NEW t \in Target
        PROVE  /\ On(ident[t], t)' /\ loc'[ident'[t]] \notin {"waitResumed", "popped"}
               /\ ident'[t] \in Call => loc'[ident'[t]] # "gone"
               /\ loc'[t] \notin {"none", "waitResumed", "popped", "born", "enabled", "popping"}
    <3>1. PICK q \in Pthread : q = ident'[t]
      BY <1>15, <2>1
    <3>2. On(q, t)' /\ loc'[q] \notin {"waitResumed", "popped"} /\ (q \in Call => loc'[q] # "gone")
      <4>1. CASE t = u
        BY <1>11, <1>15, <2>2, <3>1, <4>1 DEF Stopped
      <4>2. CASE t # u
        BY <1>0, <1>15, <2>1, <2>2, <3>1, <4>2 DEF ChainInv
      <4> QED  BY <4>1, <4>2
    <3>3. loc'[t] \notin {"none", "waitResumed", "popped", "born", "enabled", "popping"}
      BY <1>0, <1>15, <2>1 DEF ChainInv
    <3> QED  BY <3>1, <3>2, <3>3 DEF On
  <2>5. ASSUME NEW t \in Target, NEW k \in 1 .. Len(stack'[t])
        PROVE  /\ On(stack[t][k].ident, t)' /\ Stopped(stack[t][k].ident)'
               /\ stack'[t][k].ident # ident'[t]
               /\ \A j \in 1 .. Len(stack'[t]) :
                    stack'[t][j].ident = stack'[t][k].ident => j = k
    <3>1. k \in 1 .. Len(stack[t]) /\ stack'[t][k] = stack[t][k]
      BY <1>8, <1>15, <1>16
    <3>2. \A j \in 1 .. Len(stack'[t]) : j \in 1 .. Len(stack[t]) /\ stack'[t][j] = stack[t][j]
      BY <1>8, <1>15, <1>16
    <3>3. PICK q \in Pthread : q = stack[t][k].ident
      BY <2>1, <3>1
    <3>4. On(q, t) /\ Stopped(q) /\ q # c
      BY <1>0, <2>1, <3>1, <3>3 DEF ChainInv
    <3>5. Stopped(q)' /\ On(q, t)'
      BY <1>15, <2>2, <3>4 DEF Stopped
    <3>6. q # ident'[t]
      <4>1. CASE t = u
        BY <1>11, <1>15, <1>16, <3>1, <3>3, <4>1
      <4>2. CASE t # u
        BY <1>0, <1>15, <3>1, <3>3, <4>2 DEF ChainInv
      <4> QED  BY <4>1, <4>2
    <3>7. \A j \in 1 .. Len(stack[t]) : stack[t][j].ident = q => j = k
      BY <1>0, <3>1, <3>3 DEF ChainInv
    <3> QED  BY <3>1, <3>2, <3>3, <3>5, <3>6, <3>7 DEF On, Stopped
  <2>6. ASSUME NEW q \in Pthread, q \in Target \/ loc'[q] \notin Over
        PROVE  (q = ident[ThreadOf(q)] \/ Stacked(q, ThreadOf(q)))'
    <3>1. q # c /\ loc'[q] = loc[q]
      BY <1>1, <1>15, <2>6 DEF Over
    <3>2. PICK t \in Target : t = ThreadOf(q)
      BY <1>0, <2>6, <3>1, Owner DEF Over, ChainInv
    <3>3. SUFFICES q = ident'[t] \/ \E k \in 1 .. Len(stack'[t]) : stack'[t][k].ident = q
      BY <1>17, <3>2 DEF Stacked
    <3>4. q = ident[t] \/ Stacked(q, t)
      BY <1>0, <2>6, <3>1, <3>2 DEF ChainInv
    <3>5. CASE t # u
      BY <1>15, <3>4, <3>5 DEF Stacked
    <3>6. CASE t = u
      <4>1. PICK k \in 1 .. Len(stack[u]) : stack[u][k].ident = q
        BY <1>3, <3>1, <3>4, <3>6 DEF Stacked
      <4>2. CASE k = n + 1
        BY <1>9, <1>10, <1>15, <3>6, <4>1, <4>2
      <4>3. CASE k # n + 1
        <5>1. k \in 1 .. n
          BY <1>7, <4>3
        <5> QED  BY <1>16, <3>6, <4>1, <5>1
      <4> QED  BY <4>2, <4>3
    <3> QED  BY <3>5, <3>6
  <2> QED  BY <2>4, <2>5, <2>6 DEF ChainInv
<1>21. CritInv'
  <2>1. Silent /\ NoFlag(Target) /\ \A q \in Pthread : Calm(q)
    BY <1>4, Sorts DEF Free, Quiet, CalmBut
  <2>2. ASSUME NEW q \in Pthread, q # p PROVE Calm(q)'
    <3>1. Calm(q)
      BY <2>1
    <3>2. CASE q = c
      BY <1>1, <1>14, <1>15, <2>2, <3>1, <3>2 DEF Calm, Stopped
    <3>3. CASE q # c
      <4>1. Stopped(q) => ThreadOf(q) \in Target
        BY <1>0, Owner DEF Stopped
      <4>2. Stopped(q) => q # ident'[ThreadOf(q)]
        BY <1>15, <2>2, <3>1, <4>1 DEF Calm
      <4> QED  BY <1>14, <1>15, <1>17, <2>2, <3>1, <3>3, <4>2 DEF Calm, Stopped
    <3> QED  BY <3>2, <3>3
  <2>3. CalmBut(p)'
    BY <2>2 DEF CalmBut
  <2>4. Waited(p, u)'
    BY <1>11, <1>14, <1>15, <2>1 DEF Waited, Calm, Silent, Stopped
  <2>5. NoFlag(Target \ {u})'
    BY <1>15, <2>1 DEF NoFlag
  <2>6. pendI'[p] = 0
    BY <1>12, <1>14, <2>1 DEF Calm
  <2>7. Resuming(c, p)'
    BY <1>2, <1>13, <1>14, <1>15, <2>1, <2>3, <2>4, <2>5, <2>6 DEF Resuming, Silent
  <2> QED  BY <2>7 DEF CritInv
<1>22. StatusInv'
  <2>1. top.disable = Level(ret[p]) /\ Level(ret[p]) # 2 /\ HandlerStatus(p)
    BY <1>0, <1>8, <1>9, <1>10, <1>11 DEF StatusInv, StackStatus, HandlerStatus
  <2>2. EnvStatus(u)'
    <3>1. Stopped(p)' /\ loc'[p] = loc[p]
      BY <1>11, <1>15 DEF Stopped
    <3>2. disable'[u] = Level(ret[p]) \/ nlj[u]
      BY <1>15, <2>1
    <3>3. loc'[p] \in HandlerLoc /\ loc'[p] \notin {"entered", "refusing"}
      BY <3>1 DEF Stopped, HandlerLoc
    <3>4. \A d \in Call : cpc'[d] \notin {"waitSuspended", "waited"}
      BY <1>4, <1>14 DEF CritCall
    <3> QED  BY <1>14, <1>15, <3>2, <3>3, <3>4 DEF EnvStatus
  <2>3. ASSUME NEW t \in Target, t # u PROVE EnvStatus(t)'
    <3>1. EnvStatus(t) /\ ident[t] \in Pthread /\ ident[t] # c
      BY <1>0, <1>3, <2>3 DEF StatusInv, ChainInv, On
    <3>2. loc'[ident[t]] = loc[ident[t]] /\ ident'[t] = ident[t] /\ disable'[t] = disable[t]
      BY <1>15, <2>3, <3>1
    <3> QED  BY <1>14, <3>1, <3>2 DEF EnvStatus, Stopped
  <2>4. ASSUME NEW t \in Target PROVE StackStatus(t)'
    <3>1. StackStatus(t)
      BY <1>0 DEF StatusInv
    <3>2. \A k \in 1 .. Len(stack'[t]) : k \in 1 .. Len(stack[t]) /\ stack'[t][k] = stack[t][k]
      BY <1>8, <1>15, <1>16
    <3> QED  BY <1>14, <3>1, <3>2 DEF StackStatus, Level
  <2>5. ASSUME NEW q \in Pthread PROVE HandlerStatus(q)'
    <3>1. HandlerStatus(q)
      BY <1>0 DEF StatusInv
    <3>2. CASE q = c
      BY <1>14, <1>15, <3>1, <3>2 DEF HandlerStatus, Stopped, HandlerLoc
    <3>3. CASE q # c
      BY <1>14, <1>15, <1>17, <3>1, <3>3 DEF HandlerStatus, Stopped
    <3> QED  BY <3>2, <3>3
  <2>6. ASSUME NEW d \in Call PROVE EntryStatus(d)'
    <3>1. EntryStatus(d) /\ d \in Pthread
      BY <1>0, Sorts DEF StatusInv
    <3>2. CASE d = c
      BY <1>15, <3>2 DEF EntryStatus, CodeLoc, HandlerLoc, LispLoc
    <3>3. CASE d # c
      BY <1>14, <1>15, <3>1, <3>3 DEF EntryStatus, CodeLoc
    <3> QED  BY <3>2, <3>3
  <2> QED  BY <2>2, <2>3, <2>4, <2>5, <2>6 DEF StatusInv
<1> QED  BY <1>18, <1>19, <1>20, <1>21, <1>22 DEF Inv
-----------------------------------------------------------------------------
(* The invariant.                                                          *)

(* No interrupt has begun.                                                 *)
LEMMA InvInit ==
  ASSUME Init
  PROVE  Inv
<1>1. lock = NIL /\ ienv = NIL /\ refused = FALSE /\ forcefully = FALSE /\ races = {}
  BY DEF Init
<1>2. /\ sem = [s \in Semaphores |-> 0] /\ sem["suspended"] = 0 /\ sem["resumed"] = 0
  BY Names DEF Init
<1>3. \A c \in Call : /\ cpc[c] = "idle" /\ target[c] = NIL /\ tries[c] = 0
                      /\ outcome[c] = "none" /\ entry[c] = 0 /\ ran[c] = 0 /\ loc[c] = "none"
                      /\ c \in Pthread /\ c \notin Target
  BY Sorts DEF Init
<1>4. \A t \in Target : /\ done[t] = FALSE /\ ident[t] = t /\ slot[t] = NIL /\ stack[t] = << >>
                        /\ resumeRan[t] = FALSE /\ disable[t] = 0 /\ sleepingOn[t] = FALSE
                        /\ nlj[t] = FALSE /\ loc[t] = "run" /\ t \in Pthread /\ t \notin Call
  BY Sorts DEF Init
<1>5. \A p \in Pthread : /\ ret[p] = "run" /\ henv[p] = NIL /\ old[p] = 0
                         /\ pendI[p] = 0 /\ pendR[p] = 0 /\ loc[p] \in {"none", "run"}
  BY DEF Init
<1>6. \A t \in Target : Len(stack[t]) = 0
  <2>1. Len(<< >>) = 0
    OBVIOUS
  <2> QED  BY <1>4, <2>1
<1>7. TypeOK
  <2>1. /\ sem \in [Semaphores -> Nat] /\ tries \in [Call -> 0 .. MaxRetries]
        /\ disable \in [Target -> 0 .. 2] /\ old \in [Pthread -> 0 .. 2]
        /\ entry \in [Call -> 0 .. 2] /\ pendI \in [Pthread -> Nat]
        /\ pendR \in [Pthread -> Nat] /\ ran \in [Call -> 0 .. 2]
    BY InterruptAssumption DEF Init
  <2>2. /\ cpc \in [Call -> CallLoc] /\ target \in [Call -> Target \cup {NIL}]
        /\ outcome \in [Call -> {"none", "success", "dead", "sleeping", "refused", "error"}]
        /\ slot \in [Target -> Call \cup {NIL}] /\ henv \in [Pthread -> Target \cup {NIL}]
        /\ ident \in [Target -> Pthread]
    BY <1>4 DEF Init, CallLoc
  <2>3. loc \in [Pthread -> Locations] /\ ret \in [Pthread -> Locations]
    <3>1. "run" \in Locations /\ "none" \in Locations
      BY DEF Locations, LispLoc
    <3> QED  BY <3>1 DEF Init
  <2>4. /\ done \in [Target -> BOOLEAN] /\ resumeRan \in [Target -> BOOLEAN]
        /\ sleepingOn \in [Target -> BOOLEAN] /\ nlj \in [Target -> BOOLEAN]
    BY DEF Init
  <2>5. stack \in [Target -> Seq([ident : Pthread, disable : 0 .. 2])]
    BY DEF Init
  <2> QED  BY <1>1, <2>1, <2>2, <2>3, <2>4, <2>5 DEF TypeOK
<1>8. CallInv
  <2>1. 0 < MaxRetries
    BY InterruptAssumption
  <2> QED  BY <1>1, <1>3, <2>1, Sorts DEF CallInv, CritCall
<1>9. ChainInv
  BY <1>3, <1>4, <1>6 DEF ChainInv, On, ThreadOf, Over, Pthread
<1>10. CritInv
  <2>1. \A p \in Pthread : Calm(p)
    BY <1>5 DEF Calm, Stopped
  <2> QED  BY <1>1, <1>2, <1>4, <2>1 DEF CritInv, Free, Quiet, Silent, CalmBut, NoFlag
<1>11. StatusInv
  <2>1. \A t \in Target : EnvStatus(t)
    BY <1>4 DEF EnvStatus, Stopped, HandlerLoc, Level
  <2>2. \A t \in Target : StackStatus(t)
    BY <1>6 DEF StackStatus
  <2>3. \A p \in Pthread : HandlerStatus(p)
    BY <1>5 DEF HandlerStatus, Stopped, HandlerLoc
  <2>4. \A c \in Call : EntryStatus(c)
    BY <1>3 DEF EntryStatus, CodeLoc, HandlerLoc, LispLoc
  <2> QED  BY <2>1, <2>2, <2>3, <2>4 DEF StatusInv
<1> QED  BY <1>7, <1>8, <1>9, <1>10, <1>11 DEF Inv

(* Races are only ever added.                                              *)
LEMMA RacesGrow ==
  ASSUME Next
  PROVE  races \subseteq races'
<1>1. ASSUME NEW c \in Call, NEW t \in Target, NEW f \in BOOLEAN, InterruptThread(c, t, f)
      PROVE  races \subseteq races'
  BY <1>1 DEF InterruptThread
<1>2. ASSUME NEW c \in Call, Caller(c)
      PROVE  races \subseteq races'
  BY <1>2 DEF Caller, Retry, LockCall, SelectSleeper, TryToWakeUp, SleeperAnswered,
     SleeperTimeout, SelectRunning, Answered, AnswerTimeout, Refused, Push,
     CreateFails, PostRun, UnlockCall, Race
<1>3. ASSUME NEW c \in Call, Function(c)
      PROVE  races \subseteq races'
  BY <1>3 DEF Function, Begin, CallFunction, FunctionEnds, Pop, Resumed, UnlockPop
<1>4. ASSUME NEW p \in Pthread, Handler(p) \/ ResumeHandler(p) \/ GcSignal(p)
      PROVE  races \subseteq races'
  BY <1>4 DEF Handler, EnterHandler, Refuse, RefusePost, Accept, Sigsuspend, Waking,
     HandlerReturn, ResumeHandler, GcSignal, Race
<1>5. ASSUME NEW p \in Pthread, Lisp(p) \/ NoIntr(p) \/ Zzz(p)
      PROVE  races \subseteq races'
  BY <1>5 DEF Lisp, Land, EndNoIntr, TestForThreadShutdown, EndZzz, NoIntr, Zzz
<1>6. ASSUME NEW t \in Target, ThreadDone(t) \/ PthreadEnds(t)
      PROVE  races \subseteq races'
  BY <1>6 DEF ThreadDone, PthreadEnds
<1> QED  BY <1>1, <1>2, <1>3, <1>4, <1>5, <1>6 DEF Next

(* A failure to create the interrupt pthread ends what is claimed.         *)
LEMMA CreateFailsBreaks ==
  ASSUME NEW c \in Call, CreateFails(c)
  PROVE  ~InStep' /\ races' # {}
  BY DEF CreateFails, Race, InStep

(* Every step that is not a race keeps the invariant.                      *)
LEMMA InvStep ==
  ASSUME Inv, InStep', Next
  PROVE  Inv'
<1>1. ASSUME NEW c \in Call, NEW t \in Target, NEW f \in BOOLEAN, InterruptThread(c, t, f)
      PROVE  Inv'
  BY <1>1, InterruptThreadStep
<1>2. ASSUME NEW c \in Call, Caller(c)
      PROVE  Inv'
  BY <1>2, RetryStep, LockCallStep, SelectSleeperStep, TryToWakeUpStep, SleeperAnsweredStep,
     SleeperTimeoutStep, SelectRunningStep, AnsweredStep, AnswerTimeoutStep, RefusedStep,
     PushStep, CreateFailsBreaks, PostRunStep, UnlockCallStep DEF Caller
<1>3. ASSUME NEW c \in Call, Function(c)
      PROVE  Inv'
  BY <1>3, BeginStep, CallFunctionStep, FunctionEndsStep, PopStep, ResumedStep, UnlockPopStep
     DEF Function
<1>4. ASSUME NEW p \in Pthread, Handler(p) \/ ResumeHandler(p) \/ GcSignal(p)
      PROVE  Inv'
  BY <1>4, EnterHandlerStep, RefuseStep, RefusePostStep, AcceptStep, SigsuspendStep,
     WakingStep, HandlerReturnStep, ResumeHandlerStep, GcSignalStep DEF Handler
<1>5. ASSUME NEW p \in Pthread, Lisp(p) \/ NoIntr(p) \/ Zzz(p)
      PROVE  Inv'
  BY <1>5, LandStep, EndNoIntrStep, TestForThreadShutdownStep, EndZzzStep, NoIntrStep, ZzzStep
     DEF Lisp
<1>6. ASSUME NEW t \in Target, ThreadDone(t) \/ PthreadEnds(t)
      PROVE  Inv'
  BY <1>6, ThreadDoneStep, PthreadEndsStep
<1> QED  BY <1>1, <1>2, <1>3, <1>4, <1>5, <1>6 DEF Next

(* So does a step that changes nothing.                                    *)
LEMMA InvStutter ==
  ASSUME Inv, UNCHANGED vars
  PROVE  Inv'
<1>1. UNCHANGED <<lock, ienv, refused, forcefully, sem, cpc, target, tries, outcome, done,
                  ident, slot, stack, resumeRan, disable, sleepingOn, nlj, loc, ret, henv,
                  old, entry, pendI, pendR, ran, races>>
  BY DEF vars, shared, calls, thread, pthread
<1>0. TypeOK /\ CallInv /\ ChainInv /\ CritInv /\ StatusInv
  BY DEF Inv
<1>2. TypeOK'
  BY <1>0, <1>1 DEF TypeOK
<1>3. CallInv'
  BY <1>0, <1>1, CallFrame
<1>4. ChainInv'
  BY <1>0, <1>1, ChainSame
<1>5. \A w : CalmBut(w) => CalmBut(w)'
  BY <1>1, QuietSame
<1>6. Quiet => Quiet'
  BY <1>1, QuietStays
<1>7. CritInv'
  <2>1. Free => Free'
    BY <1>1, <1>6 DEF Free
  <2>2. \A c \in Call : (Selecting(c) => Selecting(c)') /\ (Closing(c) => Closing(c)')
    BY <1>1, <1>6 DEF Selecting, Closing
  <2>3. ASSUME NEW c \in Call, NEW p \in Pthread
        PROVE  /\ Signalled(c, p) => Signalled(c, p)'
               /\ Stopping(c, p) => Stopping(c, p)'
               /\ Resuming(c, p) => Resuming(c, p)'
    <3>1. Answering(p) => Answering(p)'
      BY <1>1 DEF Answering, Sent, Entered, Refusing, Declined, Accepted, Stopped
    <3>2. Signalled(c, p) => Signalled(c, p)'
      BY <1>1, <1>5, <3>1 DEF Signalled, NoFlag
    <3>3. Stopping(c, p) => Stopping(c, p)'
      BY <1>1, <1>5 DEF Stopping, NoFlag, Silent, Stopped
    <3>4. Resuming(c, p) => Resuming(c, p)'
      BY <1>1, <1>5 DEF Resuming, NoFlag, Waited, Flagged, Awake, Stopped
    <3> QED  BY <3>2, <3>3, <3>4
  <2> QED  BY <1>0, <2>1, <2>2, <2>3 DEF CritInv
<1>8. StatusInv'
  BY <1>0, <1>1, StatusSame
<1> QED  BY <1>2, <1>3, <1>4, <1>7, <1>8 DEF Inv

(* As long as no signal comes late, is lost or is taken by another pthread *)
(* the invariant holds: the hand-over of the env is exact.                 *)
LEMMA HandOver ==
  Spec => [](InStep => Inv)
<1>1. Init => (InStep => Inv)
  BY InvInit
<1>2. (InStep => Inv) /\ [Next]_vars => (InStep => Inv)'
  <2> SUFFICES ASSUME InStep => Inv, [Next]_vars, InStep' PROVE Inv'
    OBVIOUS
  <2>1. CASE Next
    <3>1. InStep
      BY <2>1, RacesGrow DEF InStep
    <3> QED  BY <2>1, <3>1, InvStep
  <2>2. CASE UNCHANGED vars
    <3>1. InStep
      BY <2>2 DEF InStep, vars
    <3> QED  BY <2>2, <3>1, InvStutter
  <2> QED  BY <2>1, <2>2
<1> QED  BY <1>1, <1>2, PTL DEF Spec

(* For any targets, calls and bounds, two pthreads that share an env never *)
(* execute Lisp code at the same time.                                     *)
THEOREM OneRunnerHolds == Spec => []OneRunner
<1>1. (InStep => Inv) => OneRunner
  <2> SUFFICES ASSUME Inv, NEW p \in Pthread, NEW q \in Pthread,
                      Executing(p), Executing(q), ThreadOf(p) = ThreadOf(q)
               PROVE  p = q
    BY DEF OneRunner
  <2>1. CallInv /\ ChainInv
    BY DEF Inv
  <2>2. loc[p] \notin Special \cup Over /\ loc[q] \notin Special \cup Over
    BY DEF Executing, LispLoc, Special, Over
  <2>3. p = ident[ThreadOf(p)]
    BY <2>1, <2>2, Runner
  <2>4. q = ident[ThreadOf(q)]
    BY <2>1, <2>2, Runner
  <2> QED  BY <2>3, <2>4
<1> QED  BY <1>1, HandOver, PTL

(* An interrupt leaves env.disable_interrupts as the code it interrupted   *)
(* had set it.                                                             *)
THEOREM StatusIsRestored == Spec => []StatusRestored
<1>1. (InStep => Inv) => StatusRestored
  <2> SUFFICES ASSUME Inv, NEW p \in Pthread,
                      loc[p] \in {"run", "enabled", "woke", "nointr", "zzz", "asleep"}
               PROVE  disable[ThreadOf(p)] =
                        IF loc[p] \in {"run", "enabled", "woke"} THEN 0 ELSE 1
    BY DEF StatusRestored
  <2>1. loc[p] \notin HandlerLoc \cup Over
    BY DEF HandlerLoc, Over
  <2>2. disable[ThreadOf(p)] = Level(loc[p])
    BY <2>1, CodeStatus
  <2> QED  BY <2>2 DEF Level
<1> QED  BY <1>1, HandOver, PTL

(* When mkcl_interrupt_thread_lock is free no interrupt has left anything  *)
(* behind.                                                                 *)
THEOREM NothingIsLeftOver == Spec => []NothingLeftOver
<1>1. (InStep => Inv) => NothingLeftOver
  <2> SUFFICES ASSUME Inv, lock = NIL
               PROVE  /\ ienv = NIL /\ sem["suspended"] = 0 /\ sem["resumed"] = 0
                      /\ \A p \in Pthread : loc[p] # "gone" => pendI[p] = 0 /\ pendR[p] = 0
    BY DEF NothingLeftOver
  <2>1. Free
    BY MutexFree DEF Inv
  <2>2. \A p \in Pthread : Calm(p)
    BY <2>1, Sorts DEF Free, Quiet, CalmBut
  <2> QED  BY <2>1, <2>2 DEF Free, Quiet, Silent, Calm
<1> QED  BY <1>1, HandOver, PTL

(* The handler of the resume signal finds an env.                          *)
THEOREM ResumeFindsEnv == Spec => []ResumeHasEnv
<1>1. (InStep => Inv) => ResumeHasEnv
  <2> SUFFICES ASSUME Inv, NEW p \in Pthread, pendR[p] > 0
               PROVE  ienv # NIL
    BY DEF ResumeHasEnv
  <2>1. PICK c \in Call : Resuming(c, p)
    BY ResumeIsSent DEF Inv
  <2>2. target[c] \in Target
    BY <2>1, CallTypes DEF Resuming
  <2> QED  BY <2>1, <2>2, Sorts DEF Resuming
<1> QED  BY <1>1, HandOver, PTL

(* The state keeps its types as long as no signal is late, lost or stolen  *)
(* and every interrupt pthread can be created.                             *)
THEOREM InterruptTypes == Spec => [](InStep => TypeOK)
  BY HandOver, PTL DEF Inv

(* thread.interrupt_count is the number of interrupt pthreads of the       *)
(* thread that have not popped: the entries of the stack and thread.thread *)
(* are, once each, these pthreads and the thread's own.  It holds until the*)
(* first race, or the first interrupt pthread that cannot be created: that *)
(* entry stays on the stack without a pthread.                             *)
THEOREM StackMatchesFunctions == Spec => [](InStep => StackIsLiveFunctions)
<1>1. ASSUME Inv PROVE StackIsLiveFunctions
  <2>0. TypeOK /\ CallInv /\ ChainInv /\ StatusInv
    BY <1>1 DEF Inv
  <2> SUFFICES ASSUME NEW t \in Target
               PROVE  Len(stack[t]) = Cardinality({c \in Call :
                        /\ target[c] = t
                        /\ CodeLoc(c) \notin {"none", "waitResumed", "popped", "gone"}})
    BY DEF StackIsLiveFunctions
  <2> DEFINE Live == {c \in Call : target[c] = t
                        /\ CodeLoc(c) \notin {"none", "waitResumed", "popped", "gone"}}
  <2>1. PICK n \in Nat : n = Len(stack[t])
    BY <2>0, LenProperties DEF TypeOK
  <2> DEFINE f == [k \in 1 .. n + 1 |-> IF k = n + 1 THEN ident[t] ELSE stack[t][k].ident]
  <2>2. \A k \in 1 .. n : k \in 1 .. n + 1 /\ k # n + 1 /\ f[k] = stack[t][k].ident
    BY <2>1
  <2>3. n + 1 \in 1 .. n + 1 /\ f[n + 1] = ident[t]
    BY <2>1
  <2>4. \A k \in 1 .. n + 1 : k = n + 1 \/ k \in 1 .. n
    BY <2>1
  <2>5. DOMAIN f = 1 .. n + 1 /\ f = [k \in 1 .. n + 1 |-> f[k]]
    OBVIOUS
  <2> HIDE DEF f
  <2>6. ASSUME NEW q \in Pthread, On(q, t), Stopped(q) \/ q = ident[t]
        PROVE  q \in Live \cup {t}
    <3>1. CASE q \in Target
      BY <2>6, <3>1, Sorts DEF On, ThreadOf
    <3>2. CASE q \in Call
      <4>1. target[q] = t /\ loc[q] # "none"
        BY <2>6, <3>2 DEF On, ThreadOf
      <4>2. loc[q] \notin Over
        BY <2>0, <2>6, <3>2, <4>1 DEF ChainInv, Over, Stopped
      <4>3. loc[q] \in HandlerLoc => ret[q] \notin Over
        BY <2>0 DEF StatusInv, HandlerStatus
      <4> QED  BY <3>2, <4>1, <4>2, <4>3 DEF CodeLoc, Over
    <3> QED  BY <3>1, <3>2 DEF Pthread
  <2>7. f \in [1 .. n + 1 -> Live \cup {t}]
    <3>1. f[n + 1] \in Live \cup {t}
      BY <2>0, <2>3, <2>6 DEF ChainInv, On
    <3>2. ASSUME NEW k \in 1 .. n PROVE f[k] \in Live \cup {t}
      <4>1. PICK q \in Pthread : q = stack[t][k].ident
        BY <2>0, <2>1 DEF ChainInv, On
      <4>2. On(q, t) /\ Stopped(q)
        BY <2>0, <2>1, <4>1 DEF ChainInv
      <4> QED  BY <2>2, <2>6, <4>1, <4>2
    <3>3. \A k \in 1 .. n + 1 : f[k] \in Live \cup {t}
      BY <2>4, <3>1, <3>2
    <3> QED  BY <2>5, <3>3
  <2>8. \A a, b \in 1 .. n + 1 : f[a] = f[b] => a = b
    <3>1. \A a \in 1 .. n : f[a] # f[n + 1]
      BY <2>0, <2>1, <2>2, <2>3 DEF ChainInv
    <3>2. \A a, b \in 1 .. n : f[a] = f[b] => a = b
      BY <2>0, <2>1, <2>2 DEF ChainInv
    <3> QED  BY <2>4, <3>1, <3>2
  <2>9. ASSUME NEW q \in Live \cup {t} PROVE \E k \in 1 .. n + 1 : f[k] = q
    <3>1. q \in Pthread /\ ThreadOf(q) = t /\ (q \in Target \/ loc[q] \notin Over)
      <4>1. CASE q = t
        BY <4>1, Sorts DEF ThreadOf
      <4>2. CASE q \in Live
        BY <4>2, Sorts DEF ThreadOf, CodeLoc, Over, HandlerLoc
      <4> QED  BY <4>1, <4>2
    <3>2. q = ident[t] \/ Stacked(q, t)
      BY <2>0, <3>1 DEF ChainInv
    <3>3. CASE q = ident[t]
      BY <2>3, <3>3
    <3>4. CASE Stacked(q, t)
      <4>1. PICK k \in 1 .. n : stack[t][k].ident = q
        BY <2>1, <3>4 DEF Stacked
      <4> QED  BY <2>2, <4>1
    <3> QED  BY <3>2, <3>3, <3>4
  <2>10. ExistsBijection(1 .. n + 1, Live \cup {t})
    <3>1. f \in Bijection(1 .. n + 1, Live \cup {t})
      <4>1. \A q \in Live \cup {t} : \E k \in 1 .. n + 1 : f[k] = q
        BY <2>9
      <4> HIDE DEF Live
      <4> QED  BY <2>7, <2>8, <4>1, Fun_IsBij
    <3> QED  BY <3>1 DEF ExistsBijection
  <2>11. t \notin Live
    BY Sorts
  <2> HIDE DEF Live
  <2>12. IsFiniteSet(Live \cup {t}) /\ Cardinality(Live \cup {t}) = n + 1
    <3>1. n + 1 \in Nat
      BY <2>1
    <3> QED  BY <2>10, <3>1, FS_NatBijection, FS_CountingElements
  <2>13. (Live \cup {t}) \ {t} = Live
    BY <2>11
  <2>14. Cardinality(Live) = n + 1 - 1
    BY <2>12, <2>13, FS_RemoveElement
  <2>15. Len(stack[t]) = Cardinality(Live)
    BY <2>1, <2>14
  <2> QED  BY <2>15 DEF Live
<1> QED  BY <1>1, HandOver, PTL
-----------------------------------------------------------------------------
(* What is left in thread.interrupt or has run belongs to a call that      *)
(* still waits for it or that has succeeded, unless it was left to a       *)
(* sleeper.                                                                *)
Used(c) == ran[c] # 0 \/ \E t \in Target : slot[t] = c

Pending(c) == cpc[c] \in {"wake", "waitSleeper", "created"} \/ outcome[c] = "success"

RefusalInv == races = {} => \A c \in Call : Used(c) => Pending(c)

(* A step of a pthread takes a function from thread.interrupt and counts   *)
(* it, or does neither.                                                    *)
LEMMA UsedByPthread ==
  ASSUME TypeOK, RefusalInv, UNCHANGED <<cpc, outcome>>, races' = {} => races = {},
         NEW u \in Target,
         \/ UNCHANGED <<slot, ran>>
         \/ /\ slot[u] # NIL /\ slot' \in {slot, [slot EXCEPT ![u] = NIL]}
            /\ ran' = [ran EXCEPT ![slot[u]] = IF @ < 2 THEN @ + 1 ELSE @]
  PROVE  RefusalInv'
<1>1. ASSUME NEW c \in Call, Used(c)' PROVE Used(c)
  <2>1. CASE UNCHANGED <<slot, ran>>
    BY <1>1, <2>1 DEF Used
  <2>2. CASE /\ slot[u] # NIL /\ slot' \in {slot, [slot EXCEPT ![u] = NIL]}
             /\ ran' = [ran EXCEPT ![slot[u]] = IF @ < 2 THEN @ + 1 ELSE @]
    <3>1. /\ slot \in [Target -> Call \cup {NIL}] /\ ran \in [Call -> 0 .. 2]
      BY DEF TypeOK
    <3>2. CASE c = slot[u]
      BY <3>2 DEF Used
    <3>3. CASE c # slot[u]
      <4>1. ran'[c] = ran[c]
        BY <2>2, <3>1, <3>3
      <4>2. \A t \in Target : slot'[t] = c => slot[t] = c
        BY <2>2, <3>1, Sorts DEF Pthread
      <4> QED  BY <1>1, <4>1, <4>2 DEF Used
    <3> QED  BY <3>2, <3>3
  <2> QED  BY <2>1, <2>2
<1> QED  BY <1>1 DEF RefusalInv, Pending

(* A step of the call c.                                                   *)
LEMMA UsedByCall ==
  ASSUME RefusalInv, NEW c \in Call, races' = {} => races = {},
         \A d \in Call : d # c => cpc'[d] = cpc[d] /\ outcome'[d] = outcome[d],
         \A d \in Call : d # c /\ Used(d)' => Used(d),
         races' = {} /\ Used(c)' /\ (Used(c) => Pending(c)) => Pending(c)'
  PROVE  RefusalInv'
  BY DEF RefusalInv, Pending

(* A caller that gives up has no function left in thread.interrupt, or     *)
(* records that it has.                                                    *)
LEMMA RefusalCaller ==
  ASSUME Inv, RefusalInv, NEW c \in Call, Caller(c)
  PROVE  RefusalInv'
<1>0. /\ cpc \in [Call -> CallLoc] /\ slot \in [Target -> Call \cup {NIL}]
      /\ outcome \in [Call -> {"none", "success", "dead", "sleeping", "refused", "error"}]
  BY DEF Inv, TypeOK
<1>1. cpc[c] \notin {"unlock", "end"} => outcome[c] = "none"
  BY DEF Inv, CallInv
<1>2. races \subseteq races'
  BY RacesGrow DEF Next
<1>3. races' = {} => races = {}
  BY <1>2
<1>4. CASE Retry(c)
  <2>1. UNCHANGED <<slot, ran>> /\ cpc[c] = "retry"
    BY <1>4 DEF Retry, thread
  <2>2. \A d \in Call : Used(d)' => Used(d)
    BY <2>1 DEF Used
  <2>3. \A d \in Call : d # c => cpc'[d] = cpc[d] /\ outcome'[d] = outcome[d]
    BY <1>0, <1>4 DEF Retry, Finish
  <2>4. ~Pending(c)
    BY <1>1, <2>1 DEF Pending
  <2> QED  BY <1>3, <2>2, <2>3, <2>4, UsedByCall
<1>5. CASE LockCall(c)
  <2>1. UNCHANGED <<slot, ran, outcome>> /\ cpc[c] = "lock"
    BY <1>5 DEF LockCall, thread
  <2>2. \A d \in Call : Used(d)' => Used(d)
    BY <2>1 DEF Used
  <2>3. \A d \in Call : d # c => cpc'[d] = cpc[d]
    BY <1>0, <1>5 DEF LockCall
  <2>4. ~Pending(c)
    BY <1>1, <2>1 DEF Pending
  <2> QED  BY <1>3, <2>1, <2>2, <2>3, <2>4, UsedByCall
<1>6. CASE SelectSleeper(c)
  <2>1. /\ UNCHANGED <<ran, outcome>> /\ slot' = [slot EXCEPT ![target[c]] = c]
        /\ cpc' = [cpc EXCEPT ![c] = "wake"]
    BY <1>6 DEF SelectSleeper
  <2>2. \A d \in Call : d # c /\ Used(d)' => Used(d)
    BY <1>0, <2>1 DEF Used
  <2>3. Pending(c)' /\ \A d \in Call : d # c => cpc'[d] = cpc[d]
    BY <1>0, <2>1 DEF Pending
  <2> QED  BY <1>3, <2>1, <2>2, <2>3, UsedByCall
<1>7. CASE TryToWakeUp(c)
  <2>1. /\ UNCHANGED <<slot, ran, outcome>>
        /\ cpc' = [cpc EXCEPT ![c] = "waitSleeper"] \/ "left" \in races'
        /\ \A d \in Call : d # c => cpc'[d] = cpc[d]
    BY <1>0, <1>7 DEF TryToWakeUp, Race, thread
  <2>2. \A d \in Call : Used(d)' => Used(d)
    BY <2>1 DEF Used
  <2>3. races' = {} => Pending(c)'
    BY <1>0, <2>1 DEF Pending
  <2> QED  BY <1>3, <2>1, <2>2, <2>3, UsedByCall
<1>8. CASE SleeperAnswered(c) \/ PostRun(c)
  <2>1. /\ UNCHANGED <<slot, ran>> /\ outcome' = [outcome EXCEPT ![c] = "success"]
        /\ cpc' = [cpc EXCEPT ![c] = "unlock"]
    BY <1>8 DEF SleeperAnswered, PostRun, thread
  <2>2. \A d \in Call : Used(d)' => Used(d)
    BY <2>1 DEF Used
  <2>3. /\ Pending(c)'
        /\ \A d \in Call : d # c => cpc'[d] = cpc[d] /\ outcome'[d] = outcome[d]
    BY <1>0, <2>1 DEF Pending
  <2> QED  BY <1>3, <2>2, <2>3, UsedByCall
<1>9. CASE SleeperTimeout(c)
  <2>1. races' # {}
    BY <1>9 DEF SleeperTimeout, Race
  <2> QED  BY <2>1 DEF RefusalInv
<1>10. CASE SelectRunning(c) \/ Answered(c) \/ AnswerTimeout(c) \/ Refused(c)
  <2>1. UNCHANGED <<slot, ran>> /\ cpc[c] \in {"select", "waitSuspended", "waited"}
    BY <1>10 DEF SelectRunning, Answered, AnswerTimeout, Refused, thread
  <2>2. \A d \in Call : Used(d)' => Used(d)
    BY <2>1 DEF Used
  <2>3. \A d \in Call : d # c => cpc'[d] = cpc[d] /\ outcome'[d] = outcome[d]
    BY <1>0, <1>10 DEF SelectRunning, Answered, AnswerTimeout, Refused
  <2>4. ~Pending(c)
    BY <1>1, <2>1 DEF Pending
  <2> QED  BY <1>3, <2>2, <2>3, <2>4, UsedByCall
<1>11. CASE Push(c)
  <2>1. /\ UNCHANGED <<ran, outcome>> /\ slot' = [slot EXCEPT ![target[c]] = c]
        /\ cpc' = [cpc EXCEPT ![c] = "created"]
    BY <1>11 DEF Push
  <2>2. \A d \in Call : d # c /\ Used(d)' => Used(d)
    BY <1>0, <2>1 DEF Used
  <2>3. Pending(c)' /\ \A d \in Call : d # c => cpc'[d] = cpc[d]
    BY <1>0, <2>1 DEF Pending
  <2> QED  BY <1>3, <2>1, <2>2, <2>3, UsedByCall
<1>12. CASE UnlockCall(c)
  <2>1. /\ UNCHANGED <<slot, ran>> /\ cpc[c] = "unlock"
        /\ outcome[c] = "success" => outcome' = outcome
        /\ \A d \in Call : d # c => cpc'[d] = cpc[d] /\ outcome'[d] = outcome[d]
    BY <1>0, <1>12 DEF UnlockCall, Finish, thread
  <2>2. \A d \in Call : Used(d)' => Used(d)
    BY <2>1 DEF Used
  <2>3. Pending(c) => Pending(c)'
    BY <2>1 DEF Pending
  <2> QED  BY <1>3, <2>1, <2>2, <2>3, UsedByCall
<1>13. CASE CreateFails(c)
  BY <1>13, CreateFailsBreaks DEF RefusalInv
<1> QED  BY <1>4, <1>5, <1>6, <1>7, <1>8, <1>9, <1>10, <1>11, <1>12, <1>13 DEF Caller

(* Every step keeps RefusalInv.                                            *)
LEMMA RefusalStep ==
  ASSUME Inv, RefusalInv, Next
  PROVE  RefusalInv'
<1>0. TypeOK /\ CallInv
  BY DEF Inv
<1>1. races' = {} => races = {}
  BY RacesGrow
<1>2. ASSUME NEW c \in Call, NEW t \in Target, NEW f \in BOOLEAN, InterruptThread(c, t, f)
      PROVE  RefusalInv'
  <2>1. /\ UNCHANGED <<slot, ran>> /\ cpc[c] = "idle"
        /\ \A d \in Call : d # c => cpc'[d] = cpc[d] /\ outcome'[d] = outcome[d]
    BY <1>0, <1>2 DEF InterruptThread, Finish, thread, TypeOK
  <2>2. \A d \in Call : Used(d)' => Used(d)
    BY <2>1 DEF Used
  <2>3. ~Pending(c)
    BY <1>0, <2>1 DEF Pending, CallInv
  <2> QED  BY <1>1, <2>1, <2>2, <2>3, UsedByCall
<1>3. ASSUME NEW c \in Call, Caller(c) PROVE RefusalInv'
  BY <1>3, RefusalCaller
<1>4. ASSUME UNCHANGED <<cpc, outcome, slot, ran>> PROVE RefusalInv'
  <2>1. \A c \in Call : Used(c)' => Used(c)
    BY <1>4 DEF Used
  <2> QED  BY <1>1, <1>4, <2>1 DEF RefusalInv, Pending
<1>5. ASSUME NEW c \in Call, Function(c) PROVE RefusalInv'
  <2>1. CASE CallFunction(c)
    <3>1. target[c] \in Target
      BY <2>1, CallTypes DEF CallFunction
    <3>2. /\ UNCHANGED <<cpc, outcome, slot>>
          /\ \/ UNCHANGED ran
             \/ /\ slot[target[c]] # NIL
                /\ ran' = [ran EXCEPT ![slot[target[c]]] = IF @ < 2 THEN @ + 1 ELSE @]
      BY <2>1 DEF CallFunction, Count, calls, thread
    <3> QED  BY <1>0, <1>1, <3>1, <3>2, UsedByPthread
  <2>2. CASE ~CallFunction(c)
    <3>1. UNCHANGED <<cpc, outcome, slot, ran>>
      BY <1>5, <2>2 DEF Function, Begin, FunctionEnds, Pop, Resumed, UnlockPop, calls, thread
    <3> QED  BY <1>4, <3>1
  <2> QED  BY <2>1, <2>2
<1>6. ASSUME NEW p \in Pthread, Handler(p) \/ ResumeHandler(p) \/ GcSignal(p) PROVE RefusalInv'
  <2>1. UNCHANGED <<cpc, outcome, slot, ran>>
    BY <1>6 DEF Handler, EnterHandler, Refuse, RefusePost, Accept, Sigsuspend, Waking,
       HandlerReturn, ResumeHandler, GcSignal, calls, thread
  <2> QED  BY <1>4, <2>1
<1>7. ASSUME NEW p \in Pthread, Lisp(p) \/ NoIntr(p) \/ Zzz(p) PROVE RefusalInv'
  <2>1. CASE TestForThreadShutdown(p)
    <3>1. ThreadOf(p) \in Target
      BY <1>0, <2>1, Owner DEF TestForThreadShutdown
    <3>2. UNCHANGED <<cpc, outcome>>
      BY <2>1 DEF TestForThreadShutdown, calls
    <3>3. \/ UNCHANGED <<slot, ran>>
          \/ /\ slot[ThreadOf(p)] # NIL /\ slot' = [slot EXCEPT ![ThreadOf(p)] = NIL]
             /\ ran' = [ran EXCEPT ![slot[ThreadOf(p)]] = IF @ < 2 THEN @ + 1 ELSE @]
      BY <2>1 DEF TestForThreadShutdown, Count
    <3> QED  BY <1>0, <1>1, <3>1, <3>2, <3>3, UsedByPthread
  <2>2. CASE ~TestForThreadShutdown(p)
    <3>1. UNCHANGED <<cpc, outcome, slot, ran>>
      BY <1>7, <2>2 DEF Lisp, Land, EndNoIntr, EndZzz, NoIntr, Zzz, calls, thread
    <3> QED  BY <1>4, <3>1
  <2> QED  BY <2>1, <2>2
<1>8. ASSUME NEW t \in Target, ThreadDone(t) \/ PthreadEnds(t) PROVE RefusalInv'
  <2>1. UNCHANGED <<cpc, outcome, slot, ran>>
    BY <1>8 DEF ThreadDone, PthreadEnds, calls, thread
  <2> QED  BY <1>4, <2>1
<1> QED  BY <1>2, <1>3, <1>5, <1>6, <1>7, <1>8 DEF Next

(* A call that signals an error has not had its function run, unless an    *)
(* attempt that failed had left the function to a sleeper.                 *)
THEOREM RefusalsAreTrue == Spec => []RefusalIsTrue
<1>1. Init => (InStep => Inv) /\ RefusalInv
  <2>1. Init => RefusalInv
    BY Sorts DEF Init, RefusalInv, Used
  <2> QED  BY <2>1, InvInit
<1>2. (InStep => Inv) /\ RefusalInv /\ [Next]_vars => RefusalInv'
  <2> SUFFICES ASSUME InStep => Inv, RefusalInv, [Next]_vars PROVE RefusalInv'
    OBVIOUS
  <2>1. CASE UNCHANGED vars
    BY <2>1 DEF RefusalInv, Used, Pending, vars, calls, thread
  <2>2. CASE Next /\ races = {}
    <3>1. InStep
      BY <2>2 DEF InStep
    <3> QED  BY <2>2, <3>1, RefusalStep
  <2>3. CASE Next /\ races # {}
    <3>1. races' # {}
      BY <2>3, RacesGrow
    <3> QED  BY <3>1 DEF RefusalInv
  <2> QED  BY <2>1, <2>2, <2>3
<1>3. (InStep => Inv) /\ RefusalInv => RefusalIsTrue
  <2> SUFFICES ASSUME InStep => Inv, RefusalInv, races = {}, NEW c \in Call,
                      outcome[c] \in {"refused", "dead", "sleeping"}
               PROVE  ran[c] = 0
    BY DEF RefusalIsTrue
  <2>1. Inv
    BY DEF InStep
  <2>2. cpc[c] \in {"unlock", "end"}
    BY <2>1 DEF Inv, CallInv
  <2>3. ~Pending(c)
    BY <2>2 DEF Pending
  <2> QED  BY <2>3 DEF RefusalInv, Used
<1> QED  BY <1>1, <1>2, <1>3, HandOver, PTL DEF Spec
-----------------------------------------------------------------------------
(* The refinement of InterruptStack.                                       *)

(* A thread in a non-local exit is about to leave a function or to go on   *)
(* with the exit in the code the function interrupted; or it is in a       *)
(* function that interrupted code which unwinds.                           *)
Leaving(t) ==
  \/ CodeLoc(ident[t]) \in {"popping", "unwinding"} \/ loc[ident[t]] = "returning"
  \/ /\ Stopped(ident[t])
     /\ \E c \in Call : loc[c] = "waitResumed" /\ target[c] = t

Below(t) == \E k \in 1 .. Len(stack[t]) : CodeLoc(stack[t][k].ident) = "unwinding"

ExitInv == \A t \in Target : nlj[t] => Leaving(t) \/ Below(t)

(* A thread that is done refuses to stop.                                  *)
DoneInv ==
  \A t \in Target :
    /\ CodeLoc(t) \in {"done", "gone"} => done[t]
    /\ Stopped(t) \/ loc[t] = "returning" => ret[t] # "done"

NestInv == ExitInv /\ DoneInv

(* The pthreads on the stack stay where they are while the pthread p of    *)
(* the thread moves, unless it is p that is on the stack.                  *)
LEMMA BelowStays ==
  ASSUME ChainInv, UNCHANGED stack,
         \A q \in Pthread : Stopped(q) => CodeLoc(q)' = CodeLoc(q),
         NEW t \in Target, Below(t)
  PROVE  Below(t)'
<1>1. \A k \in 1 .. Len(stack[t]) : /\ stack[t][k].ident \in Pthread
                                    /\ Stopped(stack[t][k].ident)
  BY DEF ChainInv, On
<1>2. PICK k \in 1 .. Len(stack[t]) : CodeLoc(stack[t][k].ident) = "unwinding"
  BY DEF Below
<1>3. PICK q \in Pthread : q = stack[t][k].ident
  BY <1>1
<1>4. CodeLoc(q)' = "unwinding"
  BY <1>1, <1>2, <1>3
<1> QED  BY <1>3, <1>4 DEF Below

(* The code of a pthread that has the env goes on outside of the handlers. *)
LEMMA NestRuns ==
  ASSUME Inv, NestInv, NEW p \in Pthread, loc[p] \notin HandlerLoc \cup Over,
         UNCHANGED <<ident, stack, target, ret>>,
         NEW l, loc' = [loc EXCEPT ![p] = l], l \notin HandlerLoc \cup {"waitResumed"},
         \A t \in Target : t # ThreadOf(p) => nlj'[t] = nlj[t],
         \/ l = "popping" \/ ~nlj'[ThreadOf(p)]
         \/ /\ nlj'[ThreadOf(p)] = nlj[ThreadOf(p)]
            /\ loc[p] \notin {"popping", "unwinding"},
         \A t \in Target : done[t] => done'[t],
         p \in Target /\ l \in {"done", "gone"} => done'[p]
  PROVE  NestInv'
<1>0. TypeOK /\ CallInv /\ ChainInv /\ ExitInv /\ DoneInv
  BY DEF Inv, NestInv
<1>1. loc'[p] = l /\ \A q \in Pthread : q # p => loc'[q] = loc[q]
  BY <1>0 DEF TypeOK
<1>2. PICK u \in Target : u = ThreadOf(p)
  BY CodeStatus
<1>3. p = ident[u] /\ \A t \in Target : p = ident[t] => t = u
  BY <1>2, CodeStatus
<1>4. ~Stopped(p) /\ loc[p] # "returning" /\ CodeLoc(p) = loc[p] /\ CodeLoc(p)' = l
  BY <1>1 DEF Stopped, HandlerLoc, CodeLoc
<1>5. \A q \in Pthread : q # p => CodeLoc(q)' = CodeLoc(q)
  BY <1>1 DEF CodeLoc
<1>6. \A t \in Target : Below(t) => Below(t)'
  BY <1>0, <1>4, <1>5, BelowStays
<1>7. ASSUME NEW t \in Target, t # u, Leaving(t)
      PROVE  Leaving(t)'
  <2>1. PICK q \in Pthread : q = ident[t]
    BY <1>0 DEF ChainInv, On
  <2>2. q # p /\ loc'[q] = loc[q] /\ CodeLoc(q)' = CodeLoc(q)
    BY <1>1, <1>3, <1>5, <1>7, <2>1
  <2>3. \A c \in Call : loc[c] = "waitResumed" => loc'[c] = "waitResumed"
    BY <1>1, Sorts DEF Over
  <2> QED  BY <1>7, <2>1, <2>2, <2>3 DEF Leaving, Stopped
<1>8. ~Leaving(u) \/ loc[p] \in {"popping", "unwinding"}
  BY <1>3, <1>4 DEF Leaving
<1>9. l = "popping" => Leaving(u)'
  BY <1>3, <1>4 DEF Leaving
<1>10. ExitInv'
  BY <1>0, <1>2, <1>6, <1>7, <1>8, <1>9 DEF ExitInv
<1>11. DoneInv'
  <2> SUFFICES ASSUME NEW t \in Target
               PROVE  /\ CodeLoc(t)' \in {"done", "gone"} => done'[t]
                      /\ Stopped(t)' \/ loc'[t] = "returning" => ret'[t] # "done"
    BY DEF DoneInv
  <2>1. CASE t = p
    BY <1>1, <1>4, <2>1 DEF Stopped, HandlerLoc
  <2>2. CASE t # p
    <3>1. t \in Pthread /\ loc'[t] = loc[t] /\ CodeLoc(t)' = CodeLoc(t)
      BY <1>1, <1>5, <2>2, Sorts
    <3> QED  BY <1>0, <3>1 DEF DoneInv, Stopped
  <2> QED  BY <2>1, <2>2
<1> QED  BY <1>10, <1>11 DEF NestInv

(* A pthread goes through its handler.                                     *)
LEMMA NestHandler ==
  ASSUME Inv, NestInv, NEW p \in Pthread,
         UNCHANGED <<ident, stack, target, done, nlj>>,
         \A q \in Pthread : q # p => loc'[q] = loc[q] /\ ret'[q] = ret[q],
         CodeLoc(p)' = CodeLoc(p), loc[p] # "waitResumed",
         loc[p] = "returning" /\ loc'[p] # "returning" => ~nlj[ThreadOf(p)],
         Stopped(p) => Stopped(p)' \/ loc'[p] = "returning",
         p \in Target /\ (Stopped(p)' \/ loc'[p] = "returning") => ret'[p] # "done"
  PROVE  NestInv'
<1>0. CallInv /\ ChainInv /\ ExitInv /\ DoneInv
  BY DEF Inv, NestInv
<1>1. \A q \in Pthread : CodeLoc(q)' = CodeLoc(q)
  BY DEF CodeLoc
<1>2. \A t \in Target : Below(t) => Below(t)'
  BY <1>0, <1>1, BelowStays
<1>3. ASSUME NEW t \in Target, nlj[t], Leaving(t)
      PROVE  Leaving(t)'
  <2>1. PICK q \in Pthread : q = ident[t] /\ ThreadOf(q) = t
    BY <1>0 DEF ChainInv, On
  <2>2. loc[q] = "returning" => loc'[q] = "returning"
    BY <1>3, <2>1
  <2>3. Stopped(q) => Stopped(q)' \/ loc'[q] = "returning"
    BY DEF Stopped
  <2>4. \A c \in Call : loc[c] = "waitResumed" => loc'[c] = "waitResumed"
    BY Sorts
  <2>5. CodeLoc(q)' = CodeLoc(q)
    BY <1>1
  <2> QED  BY <1>3, <2>1, <2>2, <2>3, <2>4, <2>5 DEF Leaving
<1>4. ExitInv'
  BY <1>0, <1>2, <1>3 DEF ExitInv
<1>5. DoneInv'
  BY <1>0, <1>1, Sorts DEF DoneInv, Stopped
<1> QED  BY <1>4, <1>5 DEF NestInv

(* A caller does nothing to the pthreads.                                  *)
LEMMA NestSame ==
  ASSUME Inv, NestInv, UNCHANGED <<ident, stack, done, nlj, loc, ret>>,
         \A c \in Call : loc[c] # "none" => target'[c] = target[c]
  PROVE  NestInv'
<1>0. CallInv /\ ChainInv /\ ExitInv /\ DoneInv
  BY DEF Inv, NestInv
<1>1. \A q : CodeLoc(q)' = CodeLoc(q) /\ Stopped(q)' = Stopped(q)
  BY DEF CodeLoc, Stopped
<1>2. \A t \in Target : Below(t) => Below(t)'
  BY <1>0, <1>1, BelowStays
<1>3. \A t \in Target : Leaving(t) => Leaving(t)'
  BY <1>1 DEF Leaving
<1>4. ExitInv'
  BY <1>0, <1>2, <1>3 DEF ExitInv
<1>5. DoneInv'
  BY <1>0, <1>1 DEF DoneInv
<1> QED  BY <1>4, <1>5 DEF NestInv

(* The chain that the stack and thread.thread stand for.                   *)
LEMMA ChainShape ==
  ASSUME Inv, NEW t \in Target
  PROVE  /\ Chains[t] \in Seq(Pthread) /\ Len(Chains[t]) = Len(stack[t]) + 1
         /\ Len(stack[t]) \in Nat
         /\ Chains[t][Len(Chains[t])] = ident[t]
         /\ \A k \in 1 .. Len(stack[t]) : Chains[t][k] = stack[t][k].ident
         /\ DOMAIN Chains[t] = 1 .. Len(stack[t]) + 1
<1>0. stack[t] \in Seq([ident : Pthread, disable : 0 .. 2])
  BY DEF Inv, TypeOK
<1>1. ident[t] \in Pthread /\ Len(stack[t]) \in Nat
  BY <1>0, LenProperties DEF Inv, TypeOK
<1>2. \A k \in 1 .. Len(stack[t]) : stack[t][k].ident \in Pthread
  BY DEF Inv, ChainInv, On
<1> DEFINE n == Len(stack[t])
           s == [k \in 1 .. n + 1 |-> IF k <= n THEN stack[t][k].ident ELSE ident[t]]
<1>3. Chains[t] = s
  BY DEF Chains, Chain
<1>4. s \in [1 .. n + 1 -> Pthread]
  BY <1>1, <1>2
<1>5. s \in Seq(Pthread) /\ Len(s) = n + 1
  BY <1>1, <1>4
<1>6. s[n + 1] = ident[t] /\ \A k \in 1 .. n : s[k] = stack[t][k].ident
  BY <1>1
<1> HIDE DEF s
<1> QED  BY <1>1, <1>3, <1>4, <1>5, <1>6

LEMMA ChainsSame ==
  ASSUME UNCHANGED <<ident, stack>>
  PROVE  Chains' = Chains
  BY DEF Chains, Chain

(* The code of one pthread moves.                                          *)
LEMMA CodesMove ==
  ASSUME NEW p \in Pthread, \A q \in Pthread : q # p => CodeLoc(q)' = CodeLoc(q)
  PROVE  /\ Codes' = [Codes EXCEPT ![p] = Shown(CodeLoc(p)')]
         /\ \A q \in Pthread : Codes[q] = Shown(CodeLoc(q))
  BY DEF Codes, Shown

LEMMA CodesSame ==
  ASSUME \A q \in Pthread : Shown(CodeLoc(q))' = Shown(CodeLoc(q))
  PROVE  Codes' = Codes
  BY DEF Codes

(* Nothing that the code of the threads can see has changed.               *)
LEMMA Unseen ==
  ASSUME InStep, InStep', UNCHANGED <<ident, stack, nlj>>,
         \A q \in Pthread : Shown(CodeLoc(q))' = Shown(CodeLoc(q))
  PROVE  UNCHANGED Promise!vars
<1>1. Chains' = Chains /\ Codes' = Codes
  BY ChainsSame, CodesSame
<1> QED  BY <1>1 DEF Promise!vars

(* A pthread that runs Lisp code may go on: an exit under way is that of   *)
(* code below it.                                                          *)
LEMMA MayRun ==
  ASSUME Inv, NestInv, NEW t \in Target, ~Leaving(t),
         CodeLoc(ident[t]) \in LispLoc \cup {"enabled"}
  PROVE  Promise!Runs(t)
<1>1. /\ Len(stack[t]) \in Nat /\ Chains[t][Len(Chains[t])] = ident[t]
      /\ \A k \in 1 .. Len(stack[t]) : Chains[t][k] = stack[t][k].ident
      /\ DOMAIN Chains[t] = 1 .. Len(stack[t]) + 1
  BY ChainShape
<1>2. \A q \in Pthread : Codes[q] = Shown(CodeLoc(q))
  BY DEF Codes
<1>3. ident[t] \in Pthread /\ \A k \in 1 .. Len(stack[t]) : stack[t][k].ident \in Pthread
  BY DEF Inv, ChainInv, On
<1>4. Codes[ident[t]] \in LispLoc \cup {"enabled"}
  BY <1>2, <1>3 DEF Shown, LispLoc
<1>5. ASSUME nlj[t]
      PROVE  \E k \in DOMAIN Chains[t] : Codes[Chains[t][k]] = "unwinding"
  <2>1. Below(t)
    BY <1>5 DEF NestInv, ExitInv
  <2>2. PICK k \in 1 .. Len(stack[t]) : CodeLoc(stack[t][k].ident) = "unwinding"
    BY <2>1 DEF Below
  <2>3. Codes[stack[t][k].ident] = "unwinding"
    BY <1>2, <1>3, <2>2 DEF Shown
  <2>4. k \in DOMAIN Chains[t] /\ Chains[t][k] = stack[t][k].ident
    BY <1>1
  <2> QED  BY <2>3, <2>4
<1> QED  BY <1>1, <1>4, <1>5 DEF Promise!Runs, Promise!Top, LispLoc

LEMMA PromiseStep ==
  ASSUME InStep, InStep', NEW t \in Target, Promise!Step(t)
  PROVE  Promise!Next
  BY DEF Promise!Next

(* Code runs, inside Lisp.                                                 *)
LEMMA NestRun ==
  ASSUME Inv, NestInv, InStep, InStep', NEW p \in Pthread, loc[p] \in LispLoc \cup {"enabled"},
         UNCHANGED <<ident, stack, target, ret, done, nlj>>,
         NEW l, l \in LispLoc, loc' = [loc EXCEPT ![p] = l]
  PROVE  NestInv' /\ Promise!Next
<1>1. loc[p] \notin HandlerLoc \cup Over /\ loc[p] \notin {"popping", "unwinding"}
  BY DEF LispLoc, HandlerLoc, Over
<1>2. l \notin HandlerLoc \cup {"waitResumed", "popping", "unwinding", "done", "gone", "popped"}
  BY DEF LispLoc, HandlerLoc
<1>3. PICK u \in Target : u = ThreadOf(p) /\ p = ident[u]
  BY <1>1, CodeStatus
<1>4. NestInv'
  BY <1>1, <1>2, NestRuns
<1>5. CodeLoc(p) = loc[p] /\ CodeLoc(p)' = l /\ \A q \in Pthread : q # p => CodeLoc(q)' = CodeLoc(q)
  BY <1>1, <1>2 DEF CodeLoc, Inv, TypeOK
<1>6. Promise!Runs(u)
  <2>1. ~Leaving(u)
    BY <1>1, <1>3, <1>5 DEF Leaving, Stopped, HandlerLoc
  <2> QED  BY <1>3, <1>5, <2>1, MayRun
<1>7. Codes' = [Codes EXCEPT ![p] = l]
  BY <1>2, <1>5, CodesMove DEF Shown
<1>8. Promise!Run(u)
  <2>1. Chains[u][Len(Chains[u])] = p /\ Chains' = Chains
    BY <1>3, ChainShape, ChainsSame
  <2>2. l \in (LispLoc \cup {"enabled", "unwinding"}) \ {"unwinding"}
    BY <1>2
  <2> QED  BY <1>6, <1>7, <2>1, <2>2 DEF Promise!Run, Promise!Goto, Promise!Top
<1>9. Promise!Step(u)
  BY <1>8 DEF Promise!Step
<1> QED  BY <1>4, <1>9, PromiseStep

(* The steps of the code of a thread in Lisp.                              *)
LEMMA NestLisp ==
  ASSUME Inv, NestInv, InStep, InStep', NEW p \in Pthread,
         \/ NoIntr(p) \/ EndNoIntr(p) \/ Zzz(p) \/ TestForThreadShutdown(p) \/ EndZzz(p)
         \/ p \in Call /\ CallFunction(p)
  PROVE  NestInv' /\ Promise!Next
<1>1. UNCHANGED <<ident, stack, target, ret, done, nlj>>
  BY DEF NoIntr, EndNoIntr, Zzz, TestForThreadShutdown, EndZzz, CallFunction, calls, thread
<1>2. /\ loc[p] \in LispLoc \cup {"enabled"}
      /\ \E l \in LispLoc : loc' = [loc EXCEPT ![p] = l]
  BY DEF NoIntr, EndNoIntr, Zzz, TestForThreadShutdown, EndZzz, CallFunction, Goto, LispLoc
<1> QED  BY <1>1, <1>2, NestRun

(* A non-local exit lands.                                                 *)
LEMMA NestLand ==
  ASSUME Inv, NestInv, InStep, InStep', NEW p \in Pthread, Land(p)
  PROVE  NestInv' /\ Promise!Next
<1>1. /\ loc[p] = "unwinding" /\ loc' = [loc EXCEPT ![p] = "run"]
      /\ nlj' = [nlj EXCEPT ![ThreadOf(p)] = FALSE]
      /\ UNCHANGED <<ident, stack, target, ret, done>>
  BY DEF Land, Goto, calls
<1>2. loc[p] \notin HandlerLoc \cup Over /\ nlj \in [Target -> BOOLEAN]
  BY <1>1 DEF HandlerLoc, Over, Inv, TypeOK
<1>3. PICK u \in Target : u = ThreadOf(p) /\ p = ident[u]
  BY <1>2, CodeStatus
<1>4. NestInv'
  BY <1>1, <1>2, <1>3, NestRuns DEF HandlerLoc
<1>5. CodeLoc(p) = "unwinding" /\ CodeLoc(p)' = "run" /\ \A q \in Pthread : q # p => CodeLoc(q)' = CodeLoc(q)
  BY <1>1, <1>2 DEF CodeLoc, Inv, TypeOK, HandlerLoc
<1>6. Codes[p] = "unwinding" /\ Codes' = [Codes EXCEPT ![p] = "run"]
  BY <1>5, CodesMove DEF Shown
<1>7. Promise!Land(u)
  <2>1. Chains[u][Len(Chains[u])] = p /\ Chains' = Chains
    BY <1>1, <1>3, ChainShape, ChainsSame
  <2> QED  BY <1>1, <1>3, <1>6, <2>1 DEF Promise!Land, Promise!Goto, Promise!Top
<1>8. Promise!Step(u)
  BY <1>7 DEF Promise!Step
<1> QED  BY <1>4, <1>8, PromiseStep

(* A function begins.                                                      *)
LEMMA NestBegin ==
  ASSUME Inv, NestInv, InStep, InStep', NEW c \in Call, Begin(c)
  PROVE  NestInv' /\ Promise!Next
<1>0. c \in Pthread /\ c \notin Target
  BY Sorts
<1>1. /\ loc[c] = "born" /\ loc' = [loc EXCEPT ![c] = "enabled"]
      /\ UNCHANGED <<ident, stack, target, ret, done, nlj>>
  BY DEF Begin, Goto, calls
<1>2. loc[c] \notin HandlerLoc \cup Over
  BY <1>1 DEF HandlerLoc, Over
<1>3. PICK u \in Target : u = ThreadOf(c) /\ c = ident[u]
  BY <1>0, <1>2, CodeStatus
<1>4. NestInv'
  BY <1>0, <1>1, <1>2, NestRuns DEF HandlerLoc
<1>5. CodeLoc(c) = "born" /\ CodeLoc(c)' = "enabled" /\ \A q \in Pthread : q # c => CodeLoc(q)' = CodeLoc(q)
  BY <1>0, <1>1, <1>2 DEF CodeLoc, Inv, TypeOK, HandlerLoc
<1>6. Codes[c] = "born" /\ Codes' = [Codes EXCEPT ![c] = "enabled"]
  BY <1>0, <1>5, CodesMove DEF Shown
<1>7. Promise!Begin(u)
  <2>1. Chains[u][Len(Chains[u])] = c /\ Chains' = Chains
    BY <1>1, <1>3, ChainShape, ChainsSame
  <2> QED  BY <1>1, <1>6, <2>1 DEF Promise!Begin, Promise!Goto, Promise!Top
<1>8. Promise!Step(u)
  BY <1>7 DEF Promise!Step
<1> QED  BY <1>4, <1>8, PromiseStep

(* A function is over, by a return or a non-local exit.                    *)
LEMMA NestFunctionEnds ==
  ASSUME Inv, NestInv, InStep, InStep', NEW c \in Call, NEW exit \in BOOLEAN,
         FunctionEnds(c, exit)
  PROVE  NestInv' /\ Promise!Next
<1>0. c \in Pthread /\ c \notin Target
  BY Sorts
<1>1. /\ loc[c] = "run" /\ loc' = [loc EXCEPT ![c] = "popping"]
      /\ nlj' = [nlj EXCEPT ![target[c]] = exit]
      /\ UNCHANGED <<ident, stack, target, ret, done>>
  BY DEF FunctionEnds, Goto, calls
<1>2. loc[c] \notin HandlerLoc \cup Over /\ nlj \in [Target -> BOOLEAN]
  BY <1>1 DEF HandlerLoc, Over, Inv, TypeOK
<1>3. PICK u \in Target : u = ThreadOf(c) /\ u = target[c] /\ c = ident[u]
  BY <1>0, <1>2, CodeStatus DEF ThreadOf
<1>4. NestInv'
  BY <1>0, <1>1, <1>2, <1>3, NestRuns DEF HandlerLoc
<1>5. CodeLoc(c) = "run" /\ CodeLoc(c)' = "popping" /\ \A q \in Pthread : q # c => CodeLoc(q)' = CodeLoc(q)
  BY <1>0, <1>1, <1>2 DEF CodeLoc, Inv, TypeOK, HandlerLoc
<1>6. Codes' = [Codes EXCEPT ![c] = "over"]
  BY <1>0, <1>5, CodesMove DEF Shown
<1>7. Promise!Runs(u)
  <2>1. ~Leaving(u)
    BY <1>1, <1>3, <1>5 DEF Leaving, Stopped
  <2> QED  BY <1>3, <1>5, <2>1, MayRun DEF LispLoc
<1>8. Promise!FunctionEnds(u)
  <2>1. Chains[u][Len(Chains[u])] = c /\ Chains' = Chains
    BY <1>1, <1>3, ChainShape, ChainsSame
  <2>2. nlj' = [nlj EXCEPT ![u] = exit]
    BY <1>1, <1>3
  <2> QED  BY <1>6, <1>7, <2>1, <2>2 DEF Promise!FunctionEnds, Promise!Goto, Promise!Top
<1>9. Promise!Step(u)
  BY <1>8 DEF Promise!Step
<1> QED  BY <1>4, <1>9, PromiseStep

(* A thread is done, its pthread ends.                                     *)
LEMMA NestThreadEnds ==
  ASSUME Inv, NestInv, InStep, InStep', NEW t \in Target, ThreadDone(t) \/ PthreadEnds(t)
  PROVE  NestInv' /\ Promise!Next
<1>0. t \in Pthread /\ t \notin Call
  BY Sorts
<1> DEFINE l == IF loc[t] = "run" THEN "done" ELSE "gone"
<1>1. /\ loc[t] \in {"run", "done"} /\ loc' = [loc EXCEPT ![t] = l]
      /\ \/ done' = [done EXCEPT ![t] = TRUE] /\ loc[t] = "run"
         \/ done' = done /\ loc[t] = "done"
      /\ UNCHANGED <<ident, stack, target, ret, nlj>>
  BY DEF ThreadDone, PthreadEnds, Goto, calls, thread
<1>2. loc[t] \notin HandlerLoc \cup Over /\ done \in [Target -> BOOLEAN] /\ l \notin HandlerLoc
  BY <1>1 DEF HandlerLoc, Over, Inv, TypeOK
<1>3. ThreadOf(t) = t /\ t = ident[t]
  BY <1>0, <1>2, CodeStatus DEF ThreadOf
<1>4. done'[t] /\ \A u \in Target : done[u] => done'[u]
  <2>1. loc[t] = "done" => done[t]
    BY <1>2 DEF NestInv, DoneInv, CodeLoc
  <2> QED  BY <1>1, <1>2, <2>1
<1>5. NestInv'
  <2>1. l \notin HandlerLoc \cup {"waitResumed"} /\ loc[t] \notin {"popping", "unwinding"}
    BY <1>1, <1>2
  <2>2. nlj'[ThreadOf(t)] = nlj[ThreadOf(t)] /\ \A u \in Target : nlj'[u] = nlj[u]
    BY <1>1
  <2> HIDE DEF l
  <2> QED  BY <1>0, <1>1, <1>2, <1>4, <2>1, <2>2, NestRuns
<1>6. CodeLoc(t) = loc[t] /\ CodeLoc(t)' = l /\ \A q \in Pthread : q # t => CodeLoc(q)' = CodeLoc(q)
  BY <1>0, <1>1, <1>2 DEF CodeLoc, Inv, TypeOK
<1>7. Codes[t] = loc[t] /\ Codes' = [Codes EXCEPT ![t] = l]
  BY <1>0, <1>1, <1>6, CodesMove DEF Shown
<1>8. loc[t] = "run" => Promise!Runs(t)
  <2> SUFFICES ASSUME loc[t] = "run" PROVE Promise!Runs(t)
    OBVIOUS
  <2>1. ~Leaving(t)
    BY <1>3, <1>6 DEF Leaving, Stopped
  <2> QED  BY <1>3, <1>6, <2>1, MayRun DEF LispLoc
<1>9. Promise!ThreadEnds(t)
  <2>1. Chains[t][Len(Chains[t])] = t /\ Chains' = Chains
    BY <1>1, <1>3, ChainShape, ChainsSame
  <2> QED  BY <1>1, <1>7, <1>8, <2>1 DEF Promise!ThreadEnds, Promise!Goto, Promise!Top
<1>10. Promise!Step(t)
  BY <1>9 DEF Promise!Step
<1> QED  BY <1>5, <1>10, PromiseStep

(* What a pthread does in its handler is not seen, except that a non-local *)
(* exit goes on when it returns.                                           *)
LEMMA StoppedCode ==
  ASSUME Inv, NestInv, NEW p \in Pthread, Stopped(p) \/ loc[p] = "returning"
  PROVE  CodeLoc(p) = ret[p] /\ ret[p] \in LispLoc \cup {"enabled", "unwinding"}
<1>1. loc[p] \in HandlerLoc
  BY DEF HandlerLoc, Stopped
<1>2. ret[p] \in Locations /\ ret[p] \notin HandlerLoc \cup Over
  BY <1>1, HandlerThread
<1>3. Level(ret[p]) # 2
  BY DEF Inv, StatusInv, HandlerStatus
<1>4. ret[p] # "done"
  <2>1. CASE p \in Call
    BY <1>1, <2>1 DEF Inv, StatusInv, EntryStatus, CodeLoc
  <2>2. CASE p \in Target
    BY <2>2 DEF NestInv, DoneInv
  <2> QED  BY <2>1, <2>2 DEF Pthread
<1> QED  BY <1>1, <1>2, <1>3, <1>4 DEF CodeLoc, Locations, Over, Level, PopLoc

LEMMA NestHandlerReturn ==
  ASSUME Inv, NestInv, InStep, InStep', NEW p \in Pthread, HandlerReturn(p)
  PROVE  NestInv' /\ (Promise!Next \/ UNCHANGED Promise!vars)
<1>0. TypeOK /\ CallInv /\ ChainInv
  BY DEF Inv
<1>1. loc[p] = "returning" /\ loc[p] \in HandlerLoc /\ ~Stopped(p)
  BY DEF HandlerReturn, HandlerLoc, Stopped
<1>2. PICK u \in Target : u = ThreadOf(p) /\ henv[p] = u /\ p = ident[u]
  BY <1>0, <1>1, HandlerThread, Runner DEF Special, Over
<1>3. /\ ret' = [ret EXCEPT ![p] = "run"]
      /\ loc' = [loc EXCEPT ![p] = IF nlj[u] THEN "unwinding" ELSE ret[p]]
      /\ UNCHANGED <<ident, stack, target, done, nlj>>
  BY <1>2 DEF HandlerReturn, Leave, Goto, calls
<1>4. CodeLoc(p) = ret[p] /\ ret[p] \in LispLoc \cup {"enabled", "unwinding"}
  BY <1>1, StoppedCode
<1>5. /\ loc'[p] = IF nlj[u] THEN "unwinding" ELSE ret[p]
      /\ loc'[p] \notin HandlerLoc /\ CodeLoc(p)' = loc'[p]
      /\ \A q \in Pthread : q # p => /\ loc'[q] = loc[q] /\ ret'[q] = ret[q]
                                     /\ CodeLoc(q)' = CodeLoc(q)
  BY <1>0, <1>3, <1>4 DEF TypeOK, CodeLoc, LispLoc, HandlerLoc
<1>6. CASE ~nlj[u]
  <2>1. CodeLoc(p)' = CodeLoc(p)
    BY <1>4, <1>5, <1>6
  <2>2. NestInv'
    <3>1. ~Stopped(p)' /\ loc'[p] # "returning"
      BY <1>5 DEF Stopped, HandlerLoc
    <3> QED  BY <1>1, <1>2, <1>3, <1>5, <1>6, <2>1, <3>1, NestHandler
  <2>3. UNCHANGED Promise!vars
    BY <1>3, <1>5, <2>1, Unseen DEF Shown
  <2> QED  BY <2>2, <2>3
<1>7. CASE nlj[u]
  <2>1. CodeLoc(p)' = "unwinding"
    BY <1>5, <1>7
  <2>2. Leaving(u)'
    BY <1>2, <1>3, <2>1 DEF Leaving
  <2>3. ASSUME NEW t \in Target, t # u, Leaving(t)
        PROVE  Leaving(t)'
    <3>1. PICK q \in Pthread : q = ident[t] /\ ThreadOf(q) = t
      BY <1>0 DEF ChainInv, On
    <3>2. q # p /\ loc'[q] = loc[q] /\ CodeLoc(q)' = CodeLoc(q)
      BY <1>2, <1>5, <2>3, <3>1
    <3>3. \A c \in Call : loc[c] = "waitResumed" => loc'[c] = "waitResumed"
      BY <1>1, <1>5, Sorts
    <3> QED  BY <1>3, <2>3, <3>1, <3>2, <3>3 DEF Leaving, Stopped
  <2>4. \A t \in Target : Below(t) => Below(t)'
    BY <1>0, <1>1, <1>3, <1>5, BelowStays
  <2>5. ExitInv'
    BY <1>3, <2>2, <2>3, <2>4 DEF NestInv, ExitInv
  <2>6. DoneInv'
    <3> SUFFICES ASSUME NEW t \in Target
                 PROVE  /\ CodeLoc(t)' \in {"done", "gone"} => done'[t]
                        /\ Stopped(t)' \/ loc'[t] = "returning" => ret'[t] # "done"
      BY DEF DoneInv
    <3>1. CASE t = p
      BY <1>5, <1>7, <2>1, <3>1 DEF Stopped
    <3>2. CASE t # p
      BY <1>3, <1>5, <3>2, Sorts DEF NestInv, DoneInv, Stopped
    <3> QED  BY <3>1, <3>2
  <2>7. Codes[p] = ret[p] /\ Codes' = [Codes EXCEPT ![p] = "unwinding"]
    BY <1>4, <1>5, <2>1, CodesMove DEF Shown, LispLoc
  <2>8. Promise!Unwind(u)
    <3>1. Chains[u][Len(Chains[u])] = p /\ Chains' = Chains
      BY <1>2, <1>3, ChainShape, ChainsSame
    <3> QED  BY <1>3, <1>4, <1>7, <2>7, <3>1 DEF Promise!Unwind, Promise!Goto, Promise!Top
  <2>9. Promise!Step(u)
    BY <2>8 DEF Promise!Step
  <2> QED  BY <2>5, <2>6, <2>9, PromiseStep DEF NestInv
<1> QED  BY <1>6, <1>7

LEMMA NestHandled ==
  ASSUME Inv, NestInv, InStep, InStep', NEW p \in Pthread,
         \/ EnterHandler(p) \/ Refuse(p) \/ RefusePost(p) \/ Accept(p) \/ Sigsuspend(p)
         \/ Waking(p) \/ ResumeHandler(p) \/ GcSignal(p)
  PROVE  NestInv' /\ UNCHANGED Promise!vars
<1>0. TypeOK /\ CallInv /\ ChainInv /\ CritInv /\ StatusInv
  BY DEF Inv
<1>1. UNCHANGED <<ident, stack, target, done, nlj>>
  BY DEF EnterHandler, Refuse, RefusePost, Accept, Sigsuspend, Waking, ResumeHandler, GcSignal,
     calls, thread
<1>2. /\ loc \in [Pthread -> Locations] /\ ret \in [Pthread -> Locations]
      /\ p \in Target /\ (Stopped(p) \/ loc[p] = "returning") => ret[p] # "done"
  BY <1>0 DEF TypeOK, NestInv, DoneInv
<1> DEFINE Kept == /\ \A q \in Pthread : q # p => loc'[q] = loc[q] /\ ret'[q] = ret[q]
                   /\ CodeLoc(p)' = CodeLoc(p) /\ loc[p] # "waitResumed"
                   /\ loc[p] = "returning" => loc'[p] = "returning"
                   /\ Stopped(p) => Stopped(p)' \/ loc'[p] = "returning"
                   /\ p \in Target /\ (Stopped(p)' \/ loc'[p] = "returning") =>
                        ret'[p] # "done"
<1>3. ASSUME EnterHandler(p) PROVE Kept
  <2>1. /\ pendI[p] > 0 /\ loc[p] \notin HandlerLoc \cup {"none", "gone"}
        /\ loc' = [loc EXCEPT ![p] = "entered"] /\ ret' = [ret EXCEPT ![p] = loc[p]]
    BY <1>3 DEF EnterHandler, Goto
  <2>2. loc[p] # "waitResumed"
    <3>1. PICK c \in Call : Signalled(c, p)
      BY <1>0, <2>1, SignalIsSent
    <3>2. target[c] \in Target
      BY <1>0, <3>1 DEF Signalled, CallInv
    <3> QED  BY <1>0, <3>1, <3>2 DEF Signalled, ChainInv
  <2> QED  BY <1>2, <2>1, <2>2 DEF CodeLoc, HandlerLoc, Stopped
<1>4. ASSUME RefusePost(p) PROVE Kept
  <2>1. /\ loc[p] = "refusing" /\ loc[p] \in HandlerLoc
        /\ loc' = [loc EXCEPT ![p] = ret[p]] /\ ret' = [ret EXCEPT ![p] = "run"]
    BY <1>4 DEF RefusePost, Leave, Goto, HandlerLoc
  <2>2. ret[p] \notin HandlerLoc
    BY <2>1, HandlerThread
  <2> QED  BY <1>2, <2>1, <2>2 DEF CodeLoc, HandlerLoc, Stopped
<1>5. ASSUME Accept(p) PROVE Kept
  <2>1. /\ loc[p] = "entered" /\ loc[p] \in HandlerLoc /\ ~MustRefuse(henv[p])
        /\ loc' = [loc EXCEPT ![p] = "suspending"] /\ ret' = ret
    BY <1>5 DEF Accept, Goto, HandlerLoc
  <2>2. p \in Target => ret[p] # "done"
    <3> SUFFICES ASSUME p \in Target, ret[p] = "done" PROVE FALSE
      OBVIOUS
    <3>1. henv[p] = p
      BY <2>1, HandlerThread, Sorts DEF ThreadOf
    <3>2. CodeLoc(p) = "done"
      BY <2>1 DEF CodeLoc
    <3>3. done[p]
      BY <3>2 DEF NestInv, DoneInv
    <3> QED  BY <2>1, <3>1, <3>3 DEF MustRefuse
  <2> QED  BY <1>2, <2>1, <2>2 DEF CodeLoc, HandlerLoc, Stopped
<1>6. ASSUME Refuse(p) \/ Sigsuspend(p) \/ Waking(p) \/ GcSignal(p) PROVE Kept
  <2>1. /\ \/ loc[p] = "entered" /\ loc' = [loc EXCEPT ![p] = "refusing"]
           \/ /\ Stopped(p)
              /\ \E l \in {"suspending", "suspended", "waking", "returning"} :
                   loc' = [loc EXCEPT ![p] = l]
        /\ ret' = ret
    BY <1>6 DEF Refuse, Sigsuspend, Waking, GcSignal, Goto, Stopped
  <2> QED  BY <1>2, <2>1 DEF CodeLoc, HandlerLoc, Stopped
<1>7. ASSUME ResumeHandler(p) PROVE Kept
  <2>1. /\ pendR[p] > 0 /\ ret' = ret
        /\ loc' = IF loc[p] = "suspended" THEN [loc EXCEPT ![p] = "waking"] ELSE loc
    BY <1>7 DEF ResumeHandler, Goto
  <2>2. Stopped(p)
    <3>1. PICK c \in Call : Waited(p, target[c])
      BY <1>0, <2>1, ResumeIsSent
    <3> QED  BY <3>1 DEF Waited
  <2> QED  BY <1>2, <2>1, <2>2 DEF CodeLoc, HandlerLoc, Stopped
<1>8. Kept
  BY <1>3, <1>4, <1>5, <1>6, <1>7
<1>9. NestInv'
  BY <1>1, <1>8, NestHandler
<1>10. \A q \in Pthread : CodeLoc(q)' = CodeLoc(q)
  BY <1>8 DEF CodeLoc
<1>11. UNCHANGED Promise!vars
  BY <1>1, <1>10, Unseen DEF Shown
<1> QED  BY <1>9, <1>11

(* What a caller does is not seen before it pushes.                        *)
LEMMA NestCaller ==
  ASSUME Inv, NestInv, InStep, InStep', NEW c \in Call,
         \/ \E t \in Target, f \in BOOLEAN : InterruptThread(c, t, f)
         \/ Caller(c) /\ ~Push(c)
  PROVE  NestInv' /\ UNCHANGED Promise!vars
<1>0. ~CreateFails(c)
  BY CreateFailsBreaks
<1>1. UNCHANGED <<ident, stack, done, nlj, loc, ret>>
  BY <1>0 DEF InterruptThread, Caller, Retry, LockCall, SelectSleeper, TryToWakeUp, SleeperAnswered,
     SleeperTimeout, SelectRunning, Answered, AnswerTimeout, Refused, PostRun, UnlockCall,
     thread, pthread
<1>2. \A d \in Call : loc[d] # "none" => target'[d] = target[d]
  <2>1. CASE \E t \in Target, f \in BOOLEAN : InterruptThread(c, t, f)
    <3>1. cpc[c] = "idle" /\ \E t \in Target : target' = [target EXCEPT ![c] = t]
      BY <2>1 DEF InterruptThread
    <3>2. loc[c] = "none"
      BY <3>1 DEF Inv, CallInv
    <3> QED  BY <3>1, <3>2 DEF Inv, TypeOK
  <2>2. CASE Caller(c) /\ ~Push(c)
    <3>1. target' = target
      BY <1>0, <2>2 DEF Caller, Retry, LockCall, SelectSleeper, TryToWakeUp, SleeperAnswered,
         SleeperTimeout, SelectRunning, Answered, AnswerTimeout, Refused, PostRun, UnlockCall
    <3> QED  BY <3>1
  <2> QED  BY <2>1, <2>2
<1>3. NestInv'
  BY <1>1, <1>2, NestSame
<1>4. \A q \in Pthread : CodeLoc(q)' = CodeLoc(q)
  BY <1>1 DEF CodeLoc
<1> QED  BY <1>1, <1>3, <1>4, Unseen DEF Shown

(* Nor is what an interrupt pthread does after it has popped.              *)
LEMMA NestPopped ==
  ASSUME Inv, NestInv, InStep, InStep', NEW c \in Call, Resumed(c) \/ UnlockPop(c)
  PROVE  NestInv' /\ UNCHANGED Promise!vars
<1>0. TypeOK /\ CallInv /\ ChainInv /\ CritInv /\ c \in Pthread /\ c \notin Target
  BY Sorts DEF Inv
<1>1. /\ \/ loc[c] = "waitResumed" /\ loc' = [loc EXCEPT ![c] = "popped"] /\ sem["resumed"] > 0
         \/ loc[c] = "popped" /\ loc' = [loc EXCEPT ![c] = "gone"]
      /\ UNCHANGED <<ident, stack, done, nlj, target, ret>>
  BY DEF Resumed, UnlockPop, Goto, Take, calls, thread
<1>2. \A q \in Pthread : q # c => loc'[q] = loc[q] /\ CodeLoc(q)' = CodeLoc(q)
  BY <1>0, <1>1 DEF TypeOK, CodeLoc
<1>3. /\ CodeLoc(c) = loc[c] /\ CodeLoc(c)' = loc'[c]
      /\ loc'[c] = IF loc[c] = "waitResumed" THEN "popped" ELSE "gone"
  BY <1>0, <1>1 DEF TypeOK, CodeLoc, HandlerLoc
<1>4. ~Stopped(c) /\ \A t \in Target : ident[t] # c
  BY <1>0, <1>1 DEF Stopped, ChainInv
<1>5. ASSUME NEW t \in Target, Leaving(t)
      PROVE  Leaving(t)'
  <2>1. PICK q \in Pthread : q = ident[t] /\ q # c
    BY <1>0, <1>4 DEF ChainInv, On
  <2>2. loc'[q] = loc[q] /\ CodeLoc(q)' = CodeLoc(q)
    BY <1>2, <2>1
  <2>3. ASSUME NEW d \in Call, loc[d] = "waitResumed", target[d] = t, Stopped(q)
        PROVE  loc'[d] = "waitResumed"
    <3>1. CASE d = c
      <4>1. PICK p \in Pthread : Resuming(c, p)
        BY <1>0, <2>3, <3>1, MutexFunction
      <4>2. p = q /\ Awake(q, t)
        BY <1>1, <2>1, <2>3, <3>1, <4>1 DEF Resuming, Waited, Flagged
      <4> QED  BY <2>3, <4>2 DEF Awake, Stopped, Special
    <3>2. CASE d # c
      BY <1>2, <2>3, <3>2, Sorts
    <3> QED  BY <3>1, <3>2
  <2> QED  BY <1>1, <1>5, <2>1, <2>2, <2>3 DEF Leaving, Stopped
<1>6. \A t \in Target : Below(t) => Below(t)'
  BY <1>0, <1>1, <1>2, <1>4, BelowStays
<1>7. ExitInv'
  BY <1>1, <1>5, <1>6 DEF NestInv, ExitInv
<1>8. DoneInv'
  BY <1>0, <1>1, <1>2, Sorts DEF NestInv, DoneInv, Stopped
<1>9. \A q \in Pthread : Shown(CodeLoc(q))' = Shown(CodeLoc(q))
  <2>1. Shown(CodeLoc(c))' = "gone" /\ Shown(CodeLoc(c)) = "gone"
    BY <1>1, <1>3 DEF Shown
  <2> QED  BY <1>2, <2>1 DEF Shown
<1> QED  BY <1>1, <1>7, <1>8, <1>9, Unseen DEF NestInv

(* The chain of a stack and the pthread that has the env, and what a push  *)
(* and a pop make of it.                                                   *)
ChainOf(s, p) == [k \in 1 .. Len(s) + 1 |-> IF k <= Len(s) THEN s[k].ident ELSE p]

Entry == [ident : Pthread, disable : 0 .. 2]

LEMMA ChainOfIsSeq ==
  ASSUME NEW s \in Seq(Entry), NEW p \in Pthread
  PROVE  /\ Len(s) \in Nat /\ ChainOf(s, p) \in Seq(Pthread)
         /\ Len(ChainOf(s, p)) = Len(s) + 1
         /\ \A k \in 1 .. Len(s) : ChainOf(s, p)[k] = s[k].ident /\ s[k].ident \in Pthread
         /\ ChainOf(s, p)[Len(s) + 1] = p
<1>1. Len(s) \in Nat
  BY LenProperties
<1>2. \A k \in 1 .. Len(s) : s[k] \in Entry
  BY ElementOfSeq
<1>3. \A k \in 1 .. Len(s) : s[k].ident \in Pthread
  BY <1>2 DEF Entry
<1> DEFINE f == ChainOf(s, p)
<1>4. f \in [1 .. Len(s) + 1 -> Pthread]
  BY <1>1, <1>3 DEF ChainOf
<1>5. f \in Seq(Pthread) /\ Len(f) = Len(s) + 1
  BY <1>1, <1>4
<1>6. f[Len(s) + 1] = p /\ \A k \in 1 .. Len(s) : f[k] = s[k].ident
  BY <1>1 DEF ChainOf
<1> QED  BY <1>1, <1>3, <1>5, <1>6

LEMMA ChainGrows ==
  ASSUME NEW s \in Seq(Entry), NEW e \in Entry, NEW c \in Pthread
  PROVE  ChainOf(Append(s, e), c) = Append(ChainOf(s, e.ident), c)
<1> DEFINE a == Append(s, e)
           f == ChainOf(s, e.ident)
<1>0. e.ident \in Pthread
  BY DEF Entry
<1>1. /\ a \in Seq(Entry) /\ Len(a) = Len(s) + 1
      /\ a[Len(s) + 1] = e /\ \A k \in 1 .. Len(s) : a[k] = s[k]
  BY AppendProperties
<1>2. /\ Len(s) \in Nat /\ f \in Seq(Pthread) /\ Len(f) = Len(s) + 1
      /\ \A k \in 1 .. Len(s) : f[k] = s[k].ident
      /\ f[Len(s) + 1] = e.ident
  BY <1>0, ChainOfIsSeq
<1>3. /\ ChainOf(a, c) \in Seq(Pthread) /\ Len(ChainOf(a, c)) = Len(s) + 2
      /\ \A k \in 1 .. Len(a) : ChainOf(a, c)[k] = a[k].ident
      /\ ChainOf(a, c)[Len(s) + 2] = c
  <2>1. Len(a) + 1 = Len(s) + 2
    BY <1>1, <1>2
  <2> HIDE DEF a
  <2>2. /\ ChainOf(a, c) \in Seq(Pthread) /\ Len(ChainOf(a, c)) = Len(a) + 1
        /\ \A k \in 1 .. Len(a) : ChainOf(a, c)[k] = a[k].ident
        /\ ChainOf(a, c)[Len(a) + 1] = c
    BY <1>1, ChainOfIsSeq
  <2> QED  BY <2>1, <2>2
<1>4. /\ Append(f, c) \in Seq(Pthread) /\ Len(Append(f, c)) = Len(f) + 1
      /\ \A k \in 1 .. Len(f) : Append(f, c)[k] = f[k]
      /\ Append(f, c)[Len(f) + 1] = c
  <2> HIDE DEF f
  <2> QED  BY <1>2, AppendProperties
<1> HIDE DEF a, f
<1>5. ASSUME NEW k \in 1 .. Len(s) + 2
      PROVE  ChainOf(a, c)[k] = Append(f, c)[k]
  <2>1. CASE k \in 1 .. Len(s)
    <3>1. k \in 1 .. Len(a) /\ k \in 1 .. Len(f)
      BY <1>1, <1>2, <2>1
    <3> QED  BY <1>1, <1>2, <1>3, <1>4, <2>1, <3>1
  <2>2. CASE k = Len(s) + 1
    <3>1. k \in 1 .. Len(a) /\ k \in 1 .. Len(f)
      BY <1>1, <1>2, <2>2
    <3> QED  BY <1>1, <1>2, <1>3, <1>4, <2>2, <3>1
  <2>3. CASE k = Len(s) + 2
    <3>1. Len(f) + 1 = Len(s) + 2
      BY <1>2
    <3> QED  BY <1>3, <1>4, <2>3, <3>1
  <2> QED  BY <1>2, <2>1, <2>2, <2>3
<1>6. Len(ChainOf(a, c)) = Len(Append(f, c)) /\ Len(Append(f, c)) = Len(s) + 2
  BY <1>2, <1>3, <1>4
<1>7. ChainOf(a, c) = Append(f, c)
  BY <1>3, <1>4, <1>5, <1>6, SeqEqual
<1> QED  BY <1>7 DEF a, f

LEMMA ChainShrinks ==
  ASSUME NEW s \in Seq(Entry), Len(s) # 0, NEW p \in Pthread
  PROVE  ChainOf(SubSeq(s, 1, Len(s) - 1), s[Len(s)].ident) =
           SubSeq(ChainOf(s, p), 1, Len(ChainOf(s, p)) - 1)
<1> DEFINE r == SubSeq(s, 1, Len(s) - 1)
           f == ChainOf(s, p)
           h == SubSeq(f, 1, Len(f) - 1)
<1>1. /\ Len(s) \in Nat /\ Len(s) - 1 \in Nat /\ Len(s) \in 1 .. Len(s)
      /\ \A k \in 1 .. Len(s) : s[k] \in Entry
  BY LenProperties, ElementOfSeq
<1>2. /\ f \in Seq(Pthread) /\ Len(f) = Len(s) + 1 /\ Len(f) - 1 = Len(s)
      /\ \A k \in 1 .. Len(s) : f[k] = s[k].ident /\ s[k].ident \in Pthread
  BY <1>1, ChainOfIsSeq
<1>3. /\ r \in Seq(Entry) /\ Len(r) = Len(s) - 1
      /\ \A k \in 1 .. Len(s) - 1 : r[k] = s[k]
  <2>1. \A k \in 1 .. Len(s) - 1 : s[k] \in Entry
    BY <1>1
  <2>2. /\ r \in Seq(Entry)
        /\ Len(r) = IF 1 <= Len(s) - 1 THEN (Len(s) - 1) - 1 + 1 ELSE 0
        /\ \A k \in 1 .. (Len(s) - 1) - 1 + 1 : r[k] = s[1 + k - 1]
    BY <1>1, <2>1, SubSeqProperties
  <2> HIDE DEF r
  <2>3. \A k \in 1 .. Len(s) - 1 : k \in 1 .. (Len(s) - 1) - 1 + 1 /\ 1 + k - 1 = k
    BY <1>1
  <2>4. Len(r) = Len(s) - 1
    <3>1. PICK m \in Nat : m = Len(s) - 1
      BY <1>1
    <3>2. Len(r) = IF 1 <= m THEN m - 1 + 1 ELSE 0
      BY <2>2, <3>1
    <3>3. Len(r) = m
      BY <3>2
    <3> QED  BY <3>1, <3>3
  <2> QED  BY <2>2, <2>3, <2>4
<1>4. /\ h \in Seq(Pthread) /\ Len(h) = Len(s)
      /\ \A k \in 1 .. Len(s) : h[k] = f[k]
  <2> HIDE DEF f
  <2>1. \A k \in 1 .. Len(f) - 1 : f[k] \in Pthread
    BY <1>2
  <2>2. /\ h \in Seq(Pthread)
        /\ Len(h) = IF 1 <= Len(f) - 1 THEN (Len(f) - 1) - 1 + 1 ELSE 0
        /\ \A k \in 1 .. (Len(f) - 1) - 1 + 1 : h[k] = f[1 + k - 1]
    BY <1>1, <1>2, <2>1, SubSeqProperties
  <2> HIDE DEF h
  <2>3. \A k \in 1 .. Len(s) : k \in 1 .. (Len(f) - 1) - 1 + 1 /\ 1 + k - 1 = k
    BY <1>1, <1>2
  <2>4. Len(h) = Len(s)
    BY <1>1, <1>2, <2>2
  <2> QED  BY <2>2, <2>3, <2>4
<1> DEFINE q == s[Len(s)].ident
           g == ChainOf(r, q)
<1>5. /\ g \in Seq(Pthread) /\ Len(g) = Len(s)
      /\ \A k \in 1 .. Len(s) - 1 : g[k] = r[k].ident
      /\ g[Len(s)] = q
  <2> HIDE DEF r
  <2>1. q \in Pthread
    BY <1>1, <1>2
  <2> HIDE DEF q
  <2>2. Len(r) + 1 = Len(s)
    BY <1>1, <1>3
  <2>3. /\ g \in Seq(Pthread) /\ Len(g) = Len(r) + 1
        /\ \A k \in 1 .. Len(r) : g[k] = r[k].ident
        /\ g[Len(r) + 1] = q
    BY <1>3, <2>1, ChainOfIsSeq
  <2> HIDE DEF g
  <2> QED  BY <1>3, <2>2, <2>3
<1> HIDE DEF r, f, h, g
<1>6. ASSUME NEW k \in 1 .. Len(g) PROVE g[k] = h[k]
  <2>1. k \in 1 .. Len(s) /\ h[k] = s[k].ident
    BY <1>2, <1>4, <1>5
  <2>2. CASE k = Len(s)
    BY <1>5, <2>1, <2>2
  <2>3. CASE k # Len(s)
    <3>1. k \in 1 .. Len(s) - 1
      BY <1>1, <2>1, <2>3
    <3> QED  BY <1>3, <1>5, <2>1, <3>1
  <2> QED  BY <2>2, <2>3
<1>7. g = h
  BY <1>4, <1>5, <1>6, SeqEqual
<1> QED  BY <1>7 DEF r, f, h, g

LEMMA ChainsAre ==
  Chains = [t \in Target |-> ChainOf(stack[t], ident[t])]
  BY DEF Chains, Chain, ChainOf

(* A push interrupts the code of the pthread that stopped.                 *)
LEMMA NestPush ==
  ASSUME Inv, NestInv, InStep, InStep', NEW c \in Call, Push(c)
  PROVE  NestInv' /\ Promise!Next
<1>0. TypeOK /\ CallInv /\ ChainInv /\ CritInv /\ c \in Pthread /\ c \notin Target
  BY Sorts DEF Inv
<1>1. cpc[c] = "waited" /\ ~refused /\ cpc[c] \in CritCall
  BY DEF Push, CritCall
<1>2. PICK u \in Target : u = target[c]
  BY <1>0, <1>1 DEF CallInv
<1>3. loc[c] = "none" /\ \A d \in Call : loc[d] # "waitResumed"
  BY <1>0, <1>1, MutexOne DEF CallInv
<1>4. PICK p \in Pthread : p = ident[u] /\ Stopped(p)
  <2>1. ~Closing(c)
    BY <1>1, <1>3 DEF Closing
  <2>2. PICK p \in Pthread : Stopping(c, p)
    BY <1>0, <1>1, <2>1, MutexCaller
  <2> QED  BY <1>2, <2>2 DEF Stopping
<1> DEFINE e == [ident |-> p, disable |-> disable[u]]
<1>5. /\ stack' = [stack EXCEPT ![u] = Append(stack[u], e)]
      /\ ident' = [ident EXCEPT ![u] = c] /\ loc' = [loc EXCEPT ![c] = "born"]
      /\ UNCHANGED <<target, done, nlj, ret>>
  BY <1>2, <1>4 DEF Push, shared
<1>6. /\ stack \in [Target -> Seq(Entry)] /\ ident \in [Target -> Pthread] /\ e \in Entry
      /\ stack[u] \in Seq(Entry) /\ e.ident = p
  BY <1>0, <1>4 DEF TypeOK, Entry
<1>7. /\ Len(stack[u]) \in Nat /\ Len(Append(stack[u], e)) = Len(stack[u]) + 1
      /\ Append(stack[u], e)[Len(stack[u]) + 1] = e
      /\ \A k \in 1 .. Len(stack[u]) : Append(stack[u], e)[k] = stack[u][k]
  BY <1>6, LenProperties, AppendProperties
<1> HIDE DEF e
<1>8. /\ loc'[c] = "born" /\ \A q \in Pthread : q # c => loc'[q] = loc[q] /\ CodeLoc(q)' = CodeLoc(q)
      /\ CodeLoc(c) = "none" /\ CodeLoc(c)' = "born"
  BY <1>0, <1>3, <1>5 DEF TypeOK, CodeLoc, HandlerLoc
<1>9. CodeLoc(p) \in LispLoc \cup {"enabled", "unwinding"} /\ p # c
  BY <1>3, <1>4, StoppedCode DEF Stopped
<1>10. Leaving(u) => CodeLoc(p) = "unwinding"
  BY <1>3, <1>4, <1>9 DEF Leaving, Stopped, LispLoc
<1>11. \A t \in Target : \A k \in 1 .. Len(stack[t]) :
         stack[t][k].ident \in Pthread /\ stack[t][k].ident # c
  BY <1>0, <1>3 DEF ChainInv, On
<1>12. ExitInv'
  <2> SUFFICES ASSUME NEW t \in Target, nlj'[t] PROVE Leaving(t)' \/ Below(t)'
    BY DEF ExitInv
  <2>0. Leaving(t) \/ Below(t)
    BY <1>5 DEF NestInv, ExitInv
  <2>1. CASE t # u
    <3>1. stack'[t] = stack[t] /\ ident'[t] = ident[t]
      BY <1>5, <1>6, <2>1
    <3>2. Below(t) => Below(t)'
      BY <1>8, <1>11, <3>1 DEF Below
    <3>3. ident[t] \in Pthread /\ ident[t] # c
      BY <1>0, <1>3 DEF ChainInv, On
    <3>4. Leaving(t) => Leaving(t)'
      BY <1>3, <1>5, <1>8, <3>1, <3>3 DEF Leaving, Stopped
    <3> QED  BY <2>0, <3>2, <3>4
  <2>2. CASE t = u
    <3>1. /\ stack'[u] = Append(stack[u], e)
          /\ \A k \in 1 .. Len(stack[u]) + 1 : k \in 1 .. Len(stack'[u])
      BY <1>5, <1>6, <1>7
    <3>2. CASE Below(u)
      <4>1. PICK k \in 1 .. Len(stack[u]) : CodeLoc(stack[u][k].ident) = "unwinding"
        BY <3>2 DEF Below
      <4>2. k \in 1 .. Len(stack'[u]) /\ stack'[u][k].ident = stack[u][k].ident
        BY <1>7, <3>1
      <4>3. PICK q \in Pthread : q = stack[u][k].ident /\ q # c
        BY <1>11
      <4>4. CodeLoc(q)' = "unwinding"
        BY <1>8, <4>1, <4>3
      <4> QED  BY <2>2, <4>2, <4>3, <4>4 DEF Below
    <3>3. CASE CodeLoc(p) = "unwinding"
      <4>1. Len(stack[u]) + 1 \in 1 .. Len(stack'[u]) /\ stack'[u][Len(stack[u]) + 1].ident = p
        BY <1>6, <1>7, <3>1
      <4>2. CodeLoc(p)' = "unwinding"
        BY <1>8, <1>9, <3>3
      <4> QED  BY <2>2, <4>1, <4>2 DEF Below
    <3> QED  BY <1>10, <2>0, <2>2, <3>2, <3>3
  <2> QED  BY <2>1, <2>2
<1>13. DoneInv'
  BY <1>0, <1>5, <1>8, Sorts DEF NestInv, DoneInv, Stopped
<1>14. /\ Codes[c] = "none" /\ Codes' = [Codes EXCEPT ![c] = "born"]
       /\ Codes[p] = CodeLoc(p)
  BY <1>0, <1>8, <1>9, CodesMove DEF Shown, LispLoc
<1>15. Chains[u][Len(Chains[u])] = p
  BY <1>4, ChainShape
<1>16. Chains' = [Chains EXCEPT ![u] = Append(@, c)]
  <2>1. ChainOf(Append(stack[u], e), c) = Append(ChainOf(stack[u], ident[u]), c)
    BY <1>0, <1>4, <1>6, ChainGrows
  <2>2. Chains' = [t \in Target |-> ChainOf(stack'[t], ident'[t])]
    BY DEF Chains, Chain, ChainOf
  <2>3. stack'[u] = Append(stack[u], e) /\ ident'[u] = c
    BY <1>5, <1>6
  <2>4. \A t \in Target : t # u => stack'[t] = stack[t] /\ ident'[t] = ident[t]
    BY <1>5, <1>6
  <2> QED  BY <2>1, <2>2, <2>3, <2>4, ChainsAre
<1>17. Promise!Runs(u) \/ Codes[p] = "unwinding"
  <2> SUFFICES ASSUME CodeLoc(p) # "unwinding" PROVE Promise!Runs(u)
    BY <1>14
  <2> QED  BY <1>4, <1>9, <1>10, MayRun
<1>18. Promise!Interrupt(u, c)
  BY <1>5, <1>14, <1>15, <1>16, <1>17 DEF Promise!Interrupt, Promise!Top
<1>19. Promise!Step(u)
  BY <1>18 DEF Promise!Step
<1> QED  BY <1>12, <1>13, <1>19, PromiseStep DEF NestInv

(* A pop gives the env back to the code that was interrupted last.         *)
LEMMA NestPop ==
  ASSUME Inv, NestInv, InStep, InStep', NEW c \in Call, Pop(c)
  PROVE  NestInv' /\ Promise!Next
<1>0. TypeOK /\ CallInv /\ ChainInv /\ CritInv /\ c \in Pthread /\ c \notin Target
  BY Sorts DEF Inv
<1>1. loc[c] = "popping" /\ loc[c] \notin HandlerLoc \cup Over
  BY DEF Pop, HandlerLoc, Over
<1>2. PICK u \in Target : u = target[c] /\ u = ThreadOf(c) /\ c = ident[u]
  BY <1>0, <1>1, CodeStatus DEF ThreadOf
<1>3. /\ stack \in [Target -> Seq(Entry)] /\ ident \in [Target -> Pthread]
      /\ stack[u] \in Seq(Entry)
  BY <1>0 DEF TypeOK, Entry
<1>4. Len(stack[u]) \in Nat /\ Len(stack[u]) # 0
  <2>1. Len(stack[u]) \in Nat
    BY <1>3, LenProperties
  <2>2. u \in Pthread /\ ThreadOf(u) = u /\ u # c
    BY <1>0, Sorts DEF ThreadOf
  <2>3. Stacked(u, u)
    BY <1>0, <1>2, <2>2 DEF ChainInv
  <2> QED  BY <2>1, <2>3 DEF Stacked
<1>5. PICK p \in Pthread : /\ p = stack[u][Len(stack[u])].ident /\ Stopped(p) /\ p # c
                           /\ ThreadOf(p) = u
  <2>1. Len(stack[u]) \in 1 .. Len(stack[u])
    BY <1>4
  <2> QED  BY <1>0, <1>2, <2>1 DEF ChainInv, On
<1>6. /\ stack' = [stack EXCEPT ![u] = SubSeq(stack[u], 1, Len(stack[u]) - 1)]
      /\ ident' = [ident EXCEPT ![u] = p] /\ loc' = [loc EXCEPT ![c] = "waitResumed"]
      /\ UNCHANGED <<target, done, nlj, ret>>
  <2>1. loc[p] # "gone"
    BY <1>5 DEF Stopped
  <2>2. stack[target[c]][Len(stack[target[c]])].ident = p
    BY <1>2, <1>5
  <2> QED  BY <1>2, <2>1, <2>2 DEF Pop, Rest, Goto, calls
<1>7. /\ loc'[c] = "waitResumed" /\ CodeLoc(c) = "popping" /\ CodeLoc(c)' = "waitResumed"
      /\ \A q \in Pthread : q # c => loc'[q] = loc[q] /\ CodeLoc(q)' = CodeLoc(q)
  BY <1>0, <1>1, <1>6 DEF TypeOK, CodeLoc, HandlerLoc
<1>8. \A t \in Target : t # u => stack'[t] = stack[t] /\ ident'[t] = ident[t]
  BY <1>3, <1>6
<1>9. ident'[u] = p /\ stack'[u] = SubSeq(stack[u], 1, Len(stack[u]) - 1)
  BY <1>3, <1>6
<1>10. ExitInv'
  <2> SUFFICES ASSUME NEW t \in Target, nlj'[t] PROVE Leaving(t)' \/ Below(t)'
    BY DEF ExitInv
  <2>1. CASE t = u
    <3>1. Stopped(p)'
      BY <1>5, <1>7 DEF Stopped
    <3>2. loc'[c] = "waitResumed" /\ target'[c] = u
      BY <1>2, <1>6, <1>7
    <3> QED  BY <1>9, <2>1, <3>1, <3>2 DEF Leaving
  <2>2. CASE t # u
    <3>0. Leaving(t) \/ Below(t)
      BY <1>6 DEF NestInv, ExitInv
    <3>1. stack'[t] = stack[t] /\ ident'[t] = ident[t]
      BY <1>8, <2>2
    <3>2. \A k \in 1 .. Len(stack[t]) : stack[t][k].ident \in Pthread /\ stack[t][k].ident # c
      BY <1>0, <1>1 DEF ChainInv, On, Stopped
    <3>3. Below(t) => Below(t)'
      BY <1>7, <3>1, <3>2 DEF Below
    <3>4. ident[t] \in Pthread /\ ident[t] # c
      BY <1>0, <1>2, <2>2 DEF ChainInv, On
    <3>5. \A d \in Call : loc[d] = "waitResumed" => loc'[d] = "waitResumed"
      BY <1>1, <1>7, Sorts
    <3>6. Leaving(t) => Leaving(t)'
      BY <1>6, <1>7, <3>1, <3>4, <3>5 DEF Leaving, Stopped
    <3> QED  BY <3>0, <3>3, <3>6
  <2> QED  BY <2>1, <2>2
<1>11. DoneInv'
  BY <1>0, <1>6, <1>7, Sorts DEF NestInv, DoneInv, Stopped
<1>12. Codes[c] = "over" /\ Codes' = [Codes EXCEPT ![c] = "gone"]
  BY <1>0, <1>7, CodesMove DEF Shown
<1>13. Chains[u][Len(Chains[u])] = c
  BY <1>2, ChainShape
<1>14. Chains' = [Chains EXCEPT ![u] = SubSeq(@, 1, Len(@) - 1)]
  <2> DEFINE s == ChainOf(stack[u], ident[u])
  <2>1. ChainOf(stack'[u], ident'[u]) = SubSeq(s, 1, Len(s) - 1)
    BY <1>0, <1>2, <1>3, <1>4, <1>5, <1>9, ChainShrinks
  <2>2. Chains' = [t \in Target |-> ChainOf(stack'[t], ident'[t])]
    BY DEF Chains, Chain, ChainOf
  <2> QED  BY <1>8, <2>1, <2>2, ChainsAre
<1>15. Promise!Return(u)
  BY <1>6, <1>12, <1>13, <1>14 DEF Promise!Return, Promise!Goto, Promise!Top
<1>16. Promise!Step(u)
  BY <1>15 DEF Promise!Step
<1> QED  BY <1>10, <1>11, <1>16, PromiseStep DEF NestInv

(* Every step is a step of InterruptStack, or changes nothing it shows.    *)
LEMMA NestStep ==
  ASSUME Inv, NestInv, InStep, InStep', Next
  PROVE  NestInv' /\ (Promise!Next \/ UNCHANGED Promise!vars)
<1>1. ASSUME NEW c \in Call, NEW t \in Target, NEW f \in BOOLEAN, InterruptThread(c, t, f)
      PROVE  NestInv' /\ UNCHANGED Promise!vars
  BY <1>1, NestCaller
<1>2. ASSUME NEW c \in Call, Caller(c)
      PROVE  NestInv' /\ (Promise!Next \/ UNCHANGED Promise!vars)
  BY <1>2, NestCaller, NestPush
<1>3. ASSUME NEW c \in Call, Function(c)
      PROVE  NestInv' /\ (Promise!Next \/ UNCHANGED Promise!vars)
  BY <1>3, Sorts, NestBegin, NestLisp, NestFunctionEnds, NestPop, NestPopped DEF Function
<1>4. ASSUME NEW p \in Pthread, Handler(p) \/ ResumeHandler(p) \/ GcSignal(p)
      PROVE  NestInv' /\ (Promise!Next \/ UNCHANGED Promise!vars)
  BY <1>4, NestHandled, NestHandlerReturn DEF Handler
<1>5. ASSUME NEW p \in Pthread, Lisp(p) \/ NoIntr(p) \/ Zzz(p)
      PROVE  NestInv' /\ Promise!Next
  BY <1>5, NestLand, NestLisp DEF Lisp
<1>6. ASSUME NEW t \in Target, ThreadDone(t) \/ PthreadEnds(t)
      PROVE  NestInv' /\ Promise!Next
  BY <1>6, NestThreadEnds
<1> QED  BY <1>1, <1>2, <1>3, <1>4, <1>5, <1>6 DEF Next

LEMMA NestInit ==
  ASSUME Init
  PROVE  NestInv /\ Promise!Init
<1>1. /\ stack = [t \in Target |-> << >>] /\ ident = [t \in Target |-> t]
      /\ nlj = [t \in Target |-> FALSE] /\ races = {}
      /\ loc = [p \in Pthread |-> IF p \in Target THEN "run" ELSE "none"]
  BY DEF Init
<1>2. \A p \in Pthread : loc[p] = (IF p \in Target THEN "run" ELSE "none") /\ CodeLoc(p) = loc[p]
  BY <1>1 DEF CodeLoc, HandlerLoc
<1>3. NestInv
  BY <1>1, <1>2, Sorts DEF NestInv, ExitInv, DoneInv, Stopped
<1>4. Codes = [p \in Target \cup Call |-> IF p \in Target THEN "run" ELSE "none"]
  BY <1>2 DEF Codes, Shown, Pthread
<1>5. Chains = [t \in Target |-> <<t>>]
  <2>1. ASSUME NEW t \in Target PROVE ChainOf(<< >>, t) = <<t>>
    <3>1. ChainOf(<< >>, t) = [k \in 1 .. 1 |-> t]
      BY DEF ChainOf
    <3> QED  BY <3>1
  <2> QED  BY <1>1, <2>1, ChainsAre
<1>6. InStep
  BY <1>1 DEF InStep
<1> QED  BY <1>1, <1>3, <1>4, <1>5, <1>6 DEF Promise!Init

LEMMA NestStutter ==
  ASSUME Inv, NestInv, InStep, UNCHANGED vars
  PROVE  NestInv' /\ UNCHANGED Promise!vars
<1>1. UNCHANGED <<ident, stack, done, nlj, loc, ret, target, races>>
  BY DEF vars, calls, thread, pthread
<1>2. NestInv'
  BY <1>1, NestSame
<1>3. InStep' /\ \A q \in Pthread : Shown(CodeLoc(q))' = Shown(CodeLoc(q))
  BY <1>1 DEF InStep, Shown, CodeLoc
<1> QED  BY <1>1, <1>2, <1>3, Unseen

(* For any targets, calls and bounds, and as long as no signal comes late, *)
(* is lost or is stolen and every interrupt pthread is created, interrupts *)
(* nest: a function runs on top of Lisp code that stays where it is, the   *)
(* pthreads end in the reverse order, and the code goes on, or unwinds,    *)
(* from where it was.                                                      *)
THEOREM InterruptsNestProperly == Spec => InterruptsNest
<1> DEFINE I == InStep => Inv /\ NestInv
<1>1. Init => I
  BY InvInit, NestInit
<1>2. I /\ [Next]_vars => I'
  <2> SUFFICES ASSUME I, [Next]_vars, InStep' PROVE Inv' /\ NestInv'
    OBVIOUS
  <2>1. CASE Next
    <3>1. InStep
      BY <2>1, RacesGrow DEF InStep
    <3> QED  BY <2>1, <3>1, InvStep, NestStep
  <2>2. CASE UNCHANGED vars
    <3>1. InStep
      BY <2>2 DEF InStep, vars
    <3> QED  BY <2>2, <3>1, InvStutter, NestStutter
  <2> QED  BY <2>1, <2>2
<1>3. I /\ [Next]_vars => [Promise!Next]_(Promise!vars)
  <2> SUFFICES ASSUME I, [Next]_vars PROVE Promise!Next \/ UNCHANGED Promise!vars
    OBVIOUS
  <2>1. CASE ~InStep'
    BY <2>1 DEF Promise!Next
  <2>2. CASE InStep' /\ Next
    <3>1. InStep
      BY <2>2, RacesGrow DEF InStep
    <3> QED  BY <2>2, <3>1, NestStep
  <2>3. CASE InStep' /\ UNCHANGED vars
    <3>1. InStep
      BY <2>3 DEF InStep, vars
    <3> QED  BY <2>3, <3>1, NestStutter
  <2> QED  BY <2>1, <2>2, <2>3
<1> HIDE DEF I
<1> QED  BY <1>1, <1>2, <1>3, NestInit, PTL DEF Spec, InterruptsNest, Promise!Spec
=============================================================================
