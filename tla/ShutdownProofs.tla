--------------------------- MODULE ShutdownProofs ---------------------------
(***************************************************************************)
(* Proofs about Shutdown, for any workers, exit codes and numbers of       *)
(* rounds: one thread shuts the program down, the process ends with the    *)
(* code that was asked for, the walk over the threads loses no request,    *)
(* and the final clean-up runs once.                                       *)
(***************************************************************************)
EXTENDS Shutdown, FiniteSetTheorems, SequenceTheorems, TLAPS

(* What the gate protects: a Shutter, and a caller of quit that is about   *)
(* to enable it, are there only when mkcl_core names the Shutter; and only *)
(* the thread that mkcl_core names, or the watchdog that has left its mark *)
(* T, has begun.                                                           *)
GateInv ==
  /\ at[Shutter] # "none" => shutdown = Shutter
  /\ \A t \in Obj : at[t] = "quitting" => shutdown = Shutter
  /\ shutdown = NIL => begun = {}
  /\ shutdown = "T" => begun \subseteq {Initial}
  /\ shutdown = Shutter => begun \subseteq {Shutter}

(* What the proof needs to know of the places of threads and of shutdown.  *)
Shape ==
  /\ at \in [Obj -> Places]
  /\ shutdown \in {NIL, "T", Shutter}

ShutdownInv == Shape /\ GateInv

(* The special threads are threads, and different ones.                    *)
LEMMA Threads ==
  /\ Initial \in Obj /\ Shutter \in Obj /\ Daemon \in Obj /\ Worker \subseteq Obj
  /\ Shutter \notin Worker /\ Initial \notin Worker /\ Daemon \notin Worker
  /\ Initial # Shutter /\ Initial # Daemon /\ Shutter # Daemon
  /\ NIL \notin Obj /\ NIL \notin Code
  /\ NIL # Shutter /\ "T" # Shutter /\ "T" # NIL
<1>1. Initial # Shutter /\ Initial # Daemon /\ Shutter # Daemon
  <2>1. Cardinality({Initial, Shutter, Daemon}) = 3
    BY ShutdownAssumption
  <2>2. \A a, b : Cardinality({a, b}) <= 2
    <3> SUFFICES ASSUME NEW a, NEW b PROVE Cardinality({a, b}) <= 2
      OBVIOUS
    <3>1. IsFiniteSet({a}) /\ Cardinality({a}) = 1 /\ {a, b} = {a} \union {b}
      BY FS_Singleton
    <3>2. Cardinality({a} \union {b}) = IF b \in {a} THEN 1 ELSE 2
      BY <3>1, FS_AddElement
    <3> QED  BY <3>1, <3>2
  <2>3. /\ Initial = Shutter => {Initial, Shutter, Daemon} = {Initial, Daemon}
        /\ Initial = Daemon => {Initial, Shutter, Daemon} = {Initial, Shutter}
        /\ Shutter = Daemon => {Initial, Shutter, Daemon} = {Initial, Shutter}
    OBVIOUS
  <2>4. \A a, b : Cardinality({a, b}) # 3
    <3> SUFFICES ASSUME NEW a, NEW b, Cardinality({a, b}) = 3 PROVE FALSE
      OBVIOUS
    <3>1. 3 <= 2
      BY <2>2
    <3> QED  BY <3>1
  <2> QED  BY <2>1, <2>3, <2>4
<1> QED  BY <1>1, ShutdownAssumption DEF Obj

(* A step that makes no Shutter and no caller of quit, leaves              *)
(* mkcl_core.shutdown_thread alone and begins no shutdown.                 *)
LEMMA Harmless ==
  ASSUME ShutdownInv, at' \in [Obj -> Places], UNCHANGED <<shutdown, begun>>,
         at[Shutter] = "none" => at'[Shutter] = "none",
         \A t \in Obj : at'[t] = "quitting" => at[t] = "quitting"
  PROVE  ShutdownInv'
  BY DEF ShutdownInv, Shape, GateInv

(* GateInv, group by group of the actions.                                 *)
LEMMA InitInv == Init => ShutdownInv
  BY Threads DEF Init, ShutdownInv, Shape, GateInv, Places, Obj

LEMMA ThreadStepInv ==
  ASSUME ShutdownInv, NEW t \in Obj, ThreadStep(t)
  PROVE  ShutdownInv'
<1> USE Threads DEF Move, Leave
<1>0. at \in [Obj -> Places]
  BY DEF ShutdownInv, Shape
<1>1. CASE EnableCreate(t)
  BY <1>0, <1>1, Harmless DEF EnableCreate, Places
<1>2. CASE Register(t)
  BY <1>0, <1>2 DEF Register, Places, ShutdownInv, Shape, GateInv
<1>3. CASE FunctionReturns(t)
  BY <1>0, <1>3, Harmless DEF FunctionReturns, Places
<1>4. CASE Poll(t)
  BY <1>0, <1>4, Harmless DEF Poll, Places
<1>5. CASE Interrupted(t)
  BY <1>0, <1>5, Harmless DEF Interrupted, Places
<1>6. CASE EndThread(t)
  BY <1>0, <1>6, Harmless DEF EndThread, Places
<1>7. ASSUME NEW c \in Code, Quit(t, c) PROVE ShutdownInv'
  <2>1. CASE shutdown = NIL
    BY <1>0, <1>7, <2>1 DEF Quit, Places, ShutdownInv, Shape, GateInv
  <2>2. CASE shutdown # NIL
    BY <1>0, <1>7, <2>2, Harmless DEF Quit, Places
  <2> QED
    BY <2>1, <2>2
<1>8. CASE QuitEnable(t)
  BY <1>0, <1>8 DEF QuitEnable, Places, ShutdownInv, Shape, GateInv
<1>9. CASE QuitGivesUp(t)
  BY <1>0, <1>9, Harmless DEF QuitGivesUp, Places
<1>10. ASSUME NEW o \in Obj, Enable(t, o) \/ RequestShutdown(t, o) PROVE ShutdownInv'
  BY <1>0, <1>10, Harmless DEF Enable, RequestShutdown, Places
<1>11. ASSUME NEW w \in Obj, NEW c \in BOOLEAN, RegisterWatchdog(t, w, c)
       PROVE  ShutdownInv'
  BY <1>0, <1>11, Harmless DEF RegisterWatchdog
<1>12. CASE CollectorFails(t)
  BY <1>0, <1>12, Harmless DEF CollectorFails, Shutting, Places
<1> QED
  BY <1>1, <1>2, <1>3, <1>4, <1>5, <1>6, <1>7, <1>8, <1>9, <1>10, <1>11, <1>12
     DEF ThreadStep

LEMMA WalkStepInv ==
  ASSUME ShutdownInv, NEW x \in Obj, WalkStep(x)
  PROVE  ShutdownInv'
<1> USE Threads DEF Move
<1>0. at \in [Obj -> Places] /\ Awoken \in [Obj -> Places]
      /\ \A t \in Obj : Awoken[t] # at[t] => Awoken[t] = "awake" /\ at[t] = "waiting"
  BY DEF ShutdownInv, Shape, Awoken, Places
<1>1. CASE WalkBegin(x)
  BY <1>0, <1>1, Harmless DEF WalkBegin
<1>2. ASSUME NEW n \in 1 .. Len(walk.todo), AskThread(x, n) PROVE ShutdownInv'
  BY <1>0, <1>2, Harmless DEF AskThread
<1>3. ASSUME NEW n \in 1 .. Len(walk.todo),
             TerminateThread(x, n) \/ JoinThread(x, n) \/ KillThread(x, n)
      PROVE  ShutdownInv'
  BY <1>0, <1>3, Harmless DEF TerminateThread, JoinThread, KillThread
<1>4. CASE EndOfRound(x)
  BY <1>0, <1>4, Harmless DEF EndOfRound
<1>5. CASE ShutdownCleansUp(x)
  BY <1>0, <1>5, Harmless DEF ShutdownCleansUp, Shutting, Places
<1>6. CASE ShutdownReturns(x)
  BY <1>0, <1>6, Harmless DEF ShutdownReturns, Shutting, Places
<1> QED
  BY <1>1, <1>2, <1>3, <1>4, <1>5, <1>6 DEF WalkStep

LEMMA OtherStepInv ==
  ASSUME ShutdownInv, DaemonStep \/ Collect \/ WatchdogStep
  PROVE  ShutdownInv'
<1> USE Threads DEF Move, Leave
<1>0. at \in [Obj -> Places] /\ Awoken \in [Obj -> Places]
      /\ \A t \in Obj : Awoken[t] # at[t] => Awoken[t] = "awake" /\ at[t] = "waiting"
  BY DEF ShutdownInv, Shape, Awoken, Places
<1>1. CASE DaemonWait \/ DaemonWakes \/ Finalize
  BY <1>0, <1>1, Harmless DEF DaemonWait, DaemonWakes, Finalize, Places
<1>2. CASE Collect
  BY <1>0, <1>2, Harmless DEF Collect
<1>3. CASE WatchdogBegin \/ WatchdogSkips
  BY <1>0, <1>3, Harmless DEF WatchdogBegin, WatchdogSkips, Places
<1>4. CASE WatchdogDecide
  <2>1. CASE shutdown = NIL
    BY <1>0, <1>4, <2>1 DEF WatchdogDecide, Places, ShutdownInv, Shape, GateInv
  <2>2. CASE shutdown # NIL
    BY <1>0, <1>4, <2>2, Harmless DEF WatchdogDecide, Places
  <2> QED
    BY <2>1, <2>2
<1>5. CASE WatchdogJoin
  BY <1>0, <1>5, Harmless DEF WatchdogJoin, Places
<1>6. CASE WatchdogJoinsNothing
  BY <1>0, <1>6, Harmless DEF WatchdogJoinsNothing, Places
<1>7. CASE WatchdogReturns \/ LastPthreadEnds
  BY <1>0, <1>7, Harmless DEF WatchdogReturns, LastPthreadEnds, Places
<1> QED
  BY <1>1, <1>2, <1>3, <1>4, <1>5, <1>6, <1>7 DEF DaemonStep, WatchdogStep

LEMMA NextInv == ShutdownInv /\ [Next]_vars => ShutdownInv'
<1>1. ASSUME ShutdownInv, Next PROVE ShutdownInv'
  BY <1>1, ThreadStepInv, WalkStepInv, OtherStepInv DEF Next
<1>2. ASSUME ShutdownInv, UNCHANGED vars PROVE ShutdownInv'
  BY <1>2 DEF ShutdownInv, Shape, GateInv, vars
<1> QED
  BY <1>1, <1>2

LEMMA AtMostOneBegun == ShutdownInv => OneShutdown
<1> SUFFICES ASSUME ShutdownInv PROVE Cardinality(begun) <= 1
  BY DEF OneShutdown
<1>1. PICK x \in Obj : begun \subseteq {x}
  BY Threads DEF ShutdownInv, Shape, GateInv
<1>2. begun = {} \/ begun = {x}
  BY <1>1
<1> QED
  BY <1>2, FS_EmptySet, FS_Singleton

(* The shutdown gate lets one thread shut the program down: two callers of *)
(* quit, or a caller of quit and the watchdog, never both do.              *)
THEOREM OneThreadShutsDown == Spec => []OneShutdown
<1>1. Spec => []ShutdownInv
  BY InitInv, NextInv, PTL DEF Spec
<1> QED
  BY <1>1, AtMostOneBegun, PTL
-----------------------------------------------------------------------------
(* Types.                                                                  *)

Phases == {"none", "start", "ask", "terminate", "join", "kill", "wait", "over", "cut"}

Walks == [by : Obj \union {NIL}, wd : Obj \union {NIL}, code : Values \union {NIL},
          phase : Phases, round : Nat, todo : Seq(Obj), first : SUBSET Obj,
          later : SUBSET Obj, refused : SUBSET Obj]

Typed ==
  /\ TypeOK
  /\ walk \in Walks
  /\ walk.phase # "none" => walk.code \in Values
  /\ shutdown # NIL <=> walk.phase # "none"

(* What the next copy of the list is for.                                  *)
Follows(phase) ==
  /\ walk.phase \in {"ask", "terminate", "join", "kill", "wait"}
  /\ phase \in Phases \ {"none", "start", "ask", "cut"}
  /\ walk.phase = "ask" => phase = "terminate"
  /\ walk.phase = "terminate" => phase = "join"
  /\ walk.phase = "join" => phase \in {"join", "kill", "over"}
  /\ walk.phase = "kill" => phase \in {"kill", "wait", "over"}
  /\ walk.phase = "wait" => phase \in {"wait", "over"}

(* At the end of a round the walk copies the list anew.                    *)
LEMMA EndOfRoundIs ==
  ASSUME Typed, NEW x \in Obj, EndOfRound(x)
  PROVE  \E phase, round : walk' = Copy(phase, round) /\ round \in Nat /\ Follows(phase)
<1>0. walk.phase \in {"ask", "terminate", "join", "kill", "wait"} /\ walk.round \in Nat
      /\ Rounds \in Nat
  BY ShutdownAssumption DEF Typed, Walks, EndOfRound
<1>1. CASE walk' = Copy("over", 0) /\ walk.phase \in {"join", "kill", "wait"}
  BY <1>1 DEF Follows, Phases
<1>2. CASE walk' = Copy(FollowingPhase[1], FollowingPhase[2])
  <2>1. CASE walk.phase = "ask"
    <3>1. FollowingPhase = <<"terminate", 0>>
      BY <2>1 DEF FollowingPhase
    <3> QED  BY <1>2, <2>1, <3>1 DEF Follows, Phases
  <2>2. CASE walk.phase = "terminate"
    <3>1. FollowingPhase = <<"join", 1>>
      BY <2>2 DEF FollowingPhase
    <3> QED  BY <1>2, <2>2, <3>1 DEF Follows, Phases
  <2>3. CASE walk.phase = "join"
    <3>1. FollowingPhase \in {<<"join", walk.round + 1>>, <<"kill", 1>>}
      BY <2>3 DEF FollowingPhase
    <3> QED  BY <1>0, <1>2, <2>3, <3>1 DEF Follows, Phases
  <2>4. CASE walk.phase = "kill"
    <3>1. FollowingPhase \in {<<"kill", walk.round + 1>>, <<"wait", 1>>}
      BY <2>4 DEF FollowingPhase
    <3> QED  BY <1>0, <1>2, <2>4, <3>1 DEF Follows, Phases
  <2>5. CASE walk.phase = "wait"
    <3>1. FollowingPhase \in {<<"wait", walk.round + 1>>, <<"over", 0>>}
      BY <2>5 DEF FollowingPhase
    <3> QED  BY <1>0, <1>2, <2>5, <3>1 DEF Follows, Phases
  <2> QED  BY <1>0, <2>1, <2>2, <2>3, <2>4, <2>5
<1> QED  BY <1>1, <1>2 DEF EndOfRound

(* Removal from the list leaves a list of threads that were on it.         *)
LEMMA WithoutIs ==
  ASSUME listed \in Seq(Obj), NEW t
  PROVE  /\ Without(t) \in Seq(Obj)
         /\ \A n \in 1 .. Len(Without(t)) : Without(t)[n] \in Listed
         /\ \A u \in Listed : u # t => \E n \in 1 .. Len(Without(t)) : Without(t)[n] = u
<1>1. CASE t \notin Listed
  BY <1>1 DEF Without, Listed
<1>2. CASE t \in Listed
  <2>1. PICK n \in 1 .. Len(listed) :
          /\ listed[n] = t
          /\ Without(t) = SubSeq(listed, 1, n - 1) \o SubSeq(listed, n + 1, Len(listed))
    <3>1. \E n \in 1 .. Len(listed) : listed[n] = t
      BY <1>2 DEF Listed
    <3> QED  BY <1>2, <3>1 DEF Without
  <2>2. PICK a, b, w : /\ a = SubSeq(listed, 1, n - 1) /\ w = a \o b
                       /\ b = SubSeq(listed, n + 1, Len(listed))
    OBVIOUS
  <2>3. /\ a \in Seq(Obj) /\ Len(a) = n - 1 /\ \A m \in 1 .. n - 1 : a[m] = listed[m]
        /\ b \in Seq(Obj) /\ Len(b) = Len(listed) - n
        /\ \A m \in 1 .. Len(listed) - n : b[m] = listed[n + m]
    BY <2>2
  <2>4. /\ w \in Seq(Obj) /\ Len(w) = Len(listed) - 1
        /\ \A m \in 1 .. Len(w) : w[m] = IF m <= n - 1 THEN a[m] ELSE b[m - (n - 1)]
    <3>1. /\ w \in Seq(Obj) /\ Len(w) = Len(a) + Len(b)
          /\ \A m \in 1 .. Len(a) + Len(b) :
               w[m] = IF m <= Len(a) THEN a[m] ELSE b[m - Len(a)]
      <4>1. a \in Seq(Obj) /\ b \in Seq(Obj)
        BY <2>3
      <4> QED  BY <2>2, <4>1, ConcatProperties
    <3>2. Len(a) = n - 1 /\ Len(a) + Len(b) = Len(listed) - 1
      BY <2>3
    <3>3. \A m \in 1 .. Len(w) : w[m] = IF m <= Len(a) THEN a[m] ELSE b[m - Len(a)]
      BY <3>1
    <3>4. w \in Seq(Obj) /\ Len(w) = Len(listed) - 1
      BY <3>1, <3>2
    <3>5. PICK k : k = Len(a)
      OBVIOUS
    <3>6. k = n - 1 /\ \A m \in 1 .. Len(w) : w[m] = IF m <= k THEN a[m] ELSE b[m - k]
      BY <3>2, <3>3, <3>5
    <3> QED  BY <3>4, <3>6
  <2>5. \A m \in 1 .. Len(w) : w[m] = IF m <= n - 1 THEN listed[m] ELSE listed[m + 1]
    BY <2>3, <2>4
  <2>6. \A m \in 1 .. Len(w) : w[m] \in Listed
    BY <2>4, <2>5 DEF Listed
  <2>7. ASSUME NEW u \in Listed, u # t PROVE \E m \in 1 .. Len(w) : w[m] = u
    <3>1. PICK m \in 1 .. Len(listed) : listed[m] = u
      BY DEF Listed
    <3>2. CASE m <= n - 1
      <4>1. m \in 1 .. Len(w) /\ w[m] = listed[m]
        BY <2>4, <2>5, <3>2
      <4> QED  BY <3>1, <4>1
    <3>3. CASE m > n
      <4>1. m - 1 \in 1 .. Len(w) /\ w[m - 1] = listed[m]
        BY <2>4, <2>5, <3>3
      <4> QED  BY <3>1, <4>1
    <3> QED  BY <2>1, <2>7, <3>1, <3>2, <3>3
  <2>8. w = Without(t)
    BY <2>1, <2>2
  <2> QED  BY <2>4, <2>6, <2>7, <2>8
<1> QED  BY <1>1, <1>2

(* What a thread is sent to in a walk step is one of the list's threads.   *)
LEMMA ProceedTypes ==
  ASSUME walk \in Walks, NEW n \in 1 .. Len(walk.todo), NEW refusals \in SUBSET Obj,
         Proceed(n, refusals)
  PROVE  /\ walk' \in Walks
         /\ walk'.by = walk.by /\ walk'.wd = walk.wd /\ walk'.code = walk.code
         /\ walk'.phase = walk.phase
         /\ walk'.first = walk.first /\ walk'.later = walk.later
         /\ walk'.refused = walk.refused \union refusals
         /\ Len(walk'.todo) = Len(walk.todo) - n
         /\ \A m \in 1 .. Len(walk'.todo) : walk'.todo[m] = walk.todo[n + m]
<1>1. walk.todo \in Seq(Obj)
  BY DEF Walks
<1>2. PICK s : s = SubSeq(walk.todo, n + 1, Len(walk.todo))
  OBVIOUS
<1>3. /\ s \in Seq(Obj) /\ Len(s) = Len(walk.todo) - n
      /\ \A m \in 1 .. Len(s) : s[m] = walk.todo[n + m]
  BY <1>1, <1>2
<1>4. walk' = [walk EXCEPT !.todo = s, !.refused = walk.refused \union refusals]
  BY <1>2 DEF Proceed
<1> QED
  BY <1>3, <1>4 DEF Walks

(* What a copy of the list leaves of the walk.                             *)
LEMMA CopyTypes ==
  ASSUME Typed, NEW phase \in Phases, NEW round \in Nat, walk' = Copy(phase, round)
  PROVE  /\ walk' \in Walks
         /\ walk'.by = walk.by /\ walk'.wd = walk.wd /\ walk'.code = walk.code
         /\ walk'.phase = phase /\ walk'.refused = walk.refused
         /\ walk'.todo = IF phase \in {"wait", "over"} THEN <<>> ELSE listed
         /\ walk'.first = IF phase = "ask" THEN Listed ELSE walk.first
         /\ walk'.later = IF phase \in {"terminate", "kill"}
                            THEN walk.later \union (Listed \ walk.first) ELSE walk.later
<1>1. walk \in Walks /\ listed \in Seq(Obj)
  BY DEF Typed, TypeOK
<1>2. Listed \subseteq Obj
  BY <1>1 DEF Listed
<1>3. PICK todo, first, later :
         /\ todo = IF phase \in {"wait", "over"} THEN <<>> ELSE listed
         /\ first = IF phase = "ask" THEN Listed ELSE walk.first
         /\ later = IF phase \in {"terminate", "kill"}
                      THEN walk.later \union (Listed \ walk.first) ELSE walk.later
  OBVIOUS
<1>4. todo \in Seq(Obj) /\ first \subseteq Obj /\ later \subseteq Obj
  BY <1>1, <1>2, <1>3 DEF Walks
<1>5. walk' = [walk EXCEPT !.phase = phase, !.round = round, !.todo = todo,
                           !.first = first, !.later = later]
  BY <1>3 DEF Copy
<1>6. /\ walk' \in Walks
      /\ walk'.by = walk.by /\ walk'.wd = walk.wd /\ walk'.code = walk.code
      /\ walk'.phase = phase /\ walk'.refused = walk.refused
      /\ walk'.todo = todo /\ walk'.first = first /\ walk'.later = later
  BY <1>1, <1>4, <1>5 DEF Walks
<1> QED
  BY <1>3, <1>6

(* A shutdown that begins.                                                 *)
Fresh(x, wd, code) ==
  [by |-> x, wd |-> wd, code |-> code, phase |-> "start", round |-> 0,
   todo |-> <<>>, first |-> {}, later |-> {}, refused |-> {}]

(* The walk that a shutdown begins.                                        *)
LEMMA NewWalk ==
  ASSUME NEW x, NEW wd, NEW code
  PROVE  [NoWalk EXCEPT !.by = x, !.wd = wd, !.code = code, !.phase = "start"]
           = Fresh(x, wd, code)
<1>1. PICK w : w = [NoWalk EXCEPT !.by = x, !.wd = wd, !.code = code, !.phase = "start"]
  OBVIOUS
<1>2. w = [by |-> x, wd |-> wd, code |-> code, phase |-> "start", round |-> 0,
           todo |-> <<>>, first |-> {}, later |-> {}, refused |-> {}]
  BY <1>1 DEF NoWalk
<1> QED
  BY <1>1, <1>2 DEF Fresh

LEMMA FreshTypes ==
  ASSUME NEW x \in Obj, NEW wd \in Obj \union {NIL}, NEW code \in Values
  PROVE  /\ Fresh(x, wd, code) \in Walks
         /\ Fresh(x, wd, code).phase = "start" /\ Fresh(x, wd, code).code = code
         /\ Fresh(x, wd, code).by = x /\ Fresh(x, wd, code).wd = wd
         /\ Fresh(x, wd, code).first = {} /\ Fresh(x, wd, code).later = {}
<1>1. <<>> \in Seq(Obj)
  OBVIOUS
<1>2. PICK e : e = <<>> /\ e \in Seq(Obj)
  BY <1>1
<1>3. Fresh(x, wd, code) =
        [by |-> x, wd |-> wd, code |-> code, phase |-> "start", round |-> 0,
         todo |-> e, first |-> {}, later |-> {}, refused |-> {}]
  BY <1>2 DEF Fresh
<1>4. Fresh(x, wd, code) \in Walks
  <2>1. "start" \in Phases /\ 0 \in Nat
    BY DEF Phases
  <2> QED  BY <1>2, <1>3, <2>1 DEF Walks
<1> QED
  BY <1>3, <1>4

(* A walk that was cut off keeps its code and its thread.                  *)
LEMMA CutIs ==
  ASSUME Typed, NEW t \in Obj,
         walk' = [NoWalk EXCEPT !.by = t, !.wd = walk.wd, !.code = walk.code,
                                !.phase = "cut"]
  PROVE  /\ walk' \in Walks
         /\ walk'.phase = "cut" /\ walk'.code = walk.code
         /\ walk'.by = t /\ walk'.wd = walk.wd
         /\ walk'.first = {} /\ walk'.later = {}
<1>0. <<>> \in Seq(Obj)
  OBVIOUS
<1>1. PICK e : e = <<>> /\ e \in Seq(Obj)
  BY <1>0
<1>2. PICK w, wd, code : w = walk' /\ wd = walk.wd /\ code = walk.code
  OBVIOUS
<1>3. w = [by |-> t, wd |-> wd, code |-> code, phase |-> "cut",
           round |-> 0, todo |-> e, first |-> {}, later |-> {}, refused |-> {}]
  BY <1>1, <1>2 DEF NoWalk
<1>4. w \in Walks
  <2>1. "cut" \in Phases /\ 0 \in Nat /\ walk \in Walks
    BY DEF Phases, Typed
  <2>2. wd \in Obj \union {NIL} /\ code \in Values \union {NIL}
    BY <1>2, <2>1 DEF Walks
  <2> QED  BY <1>1, <1>3, <2>1, <2>2 DEF Walks
<1>5. walk' \in Walks
  BY <1>2, <1>4
<1>6. w.phase = "cut" /\ w.code = code /\ w.by = t /\ w.wd = wd /\ w.first = {} /\ w.later = {}
  BY <1>3
<1> QED
  BY <1>2, <1>5, <1>6

(* Typed, group by group.                                                  *)
LEMMA TypedInit == Init => Typed
<1> SUFFICES ASSUME Init PROVE Typed
  OBVIOUS
<1>1. <<>> \in Seq(Obj) /\ listed \in Seq(Obj)
  BY Threads DEF Init
<1>2. walk \in Walks /\ walk.phase = "none"
  <2>1. PICK e : e = <<>> /\ e \in Seq(Obj)
    BY <1>1
  <2> QED  BY <2>1 DEF Init, NoWalk, Walks, Phases
<1>3. walk.todo \in Seq(Obj) /\ walk.first \union walk.later \subseteq Obj
  BY <1>2 DEF Walks
<1> QED
  BY <1>1, <1>2, <1>3, Threads DEF Init, Typed, TypeOK, Places, Values

(* The walk has the types of its fields.                                   *)
LEMMA WalkTypes ==
  ASSUME walk \in Walks
  PROVE  walk.todo \in Seq(Obj) /\ walk.first \union walk.later \subseteq Obj
  BY DEF Walks

LEMMA TypedThreadStep ==
  ASSUME Typed, GateInv, NEW t \in Obj, ThreadStep(t)
  PROVE  Typed'
<1> USE Threads DEF Move, Leave
<1>0. /\ TypeOK /\ walk \in Walks /\ (walk.phase # "none" => walk.code \in Values)
      /\ (shutdown # NIL <=> walk.phase # "none")
  BY DEF Typed
<1>1. CASE EnableCreate(t)
  BY <1>0, <1>1 DEF EnableCreate, Places, Typed, TypeOK
<1>2. CASE Register(t)
  <2>1. listed' \in Seq(Obj)
    BY <1>0, <1>2 DEF Register, TypeOK
  <2> QED  BY <1>0, <1>2, <2>1 DEF Register, Places, Typed, TypeOK
<1>3. CASE FunctionReturns(t)
  BY <1>0, <1>3 DEF FunctionReturns, Places, Typed, TypeOK
<1>4. CASE Poll(t)
  BY <1>0, <1>4 DEF Poll, Places, Typed, TypeOK, Values
<1>5. CASE Interrupted(t)
  BY <1>0, <1>5 DEF Interrupted, Places, Typed, TypeOK, Values
<1>6. CASE EndThread(t)
  <2>1. listed' \in Seq(Obj)
    BY <1>0, <1>6, WithoutIs DEF EndThread, TypeOK
  <2> QED  BY <1>0, <1>6, <2>1 DEF EndThread, Places, Typed, TypeOK
<1>7. ASSUME NEW c \in Code, Quit(t, c) PROVE Typed'
  <2>0. c \in Values /\ watchdog \in Obj \union {NIL}
    BY <1>0 DEF Values, TypeOK
  <2>1. CASE shutdown = NIL
    <3>1. walk' \in Walks /\ walk'.phase = "start" /\ walk'.code = c
      <4>1. walk' = Fresh(Shutter, watchdog, c)
        BY <1>7, <2>1, NewWalk DEF Quit
      <4> QED  BY <2>0, <4>1, FreshTypes
    <3>2. walk'.todo \in Seq(Obj) /\ walk'.first \union walk'.later \subseteq Obj
      BY <3>1 DEF Walks
    <3> QED  BY <1>0, <1>7, <2>0, <2>1, <3>1, <3>2 DEF Quit, Places, Typed, TypeOK
  <2>2. CASE shutdown # NIL
    BY <1>0, <1>7, <2>0, <2>2 DEF Quit, Places, Typed, TypeOK
  <2> QED
    BY <2>1, <2>2
<1>8. CASE QuitEnable(t)
  <2>1. walk.code \in Values
    BY <1>0, <1>8 DEF QuitEnable, GateInv
  <2> QED  BY <1>0, <1>8, <2>1 DEF QuitEnable, Places, Typed, TypeOK
<1>9. CASE QuitGivesUp(t)
  <2>1. walk.code \in Values /\ "terminated" \in Values
    BY <1>0, <1>9 DEF QuitGivesUp, GateInv, Values
  <2> QED  BY <1>0, <1>9, <2>1 DEF QuitGivesUp, Places, Typed, TypeOK
<1>10. ASSUME NEW o \in Obj, Enable(t, o) \/ RequestShutdown(t, o) PROVE Typed'
  BY <1>0, <1>10 DEF Enable, RequestShutdown, Places, Typed, TypeOK
<1>11. ASSUME NEW w \in Obj, NEW c \in BOOLEAN, RegisterWatchdog(t, w, c)
       PROVE  Typed'
  BY <1>0, <1>11 DEF RegisterWatchdog, Typed, TypeOK
<1>12. CASE CollectorFails(t)
  <2>0. "gc" \in Values /\ "invalid" \in Values
    BY DEF Values
  <2>1. CASE UNCHANGED walk
    BY <1>0, <1>12, <2>0, <2>1 DEF CollectorFails, Places, Typed, TypeOK
  <2>2. CASE /\ Shutting(t)
             /\ walk.phase \in {"start", "ask", "terminate", "join", "kill", "wait"}
             /\ walk' = [NoWalk EXCEPT !.by = t, !.wd = walk.wd, !.code = walk.code,
                                       !.phase = "cut"]
    <3>1. walk' \in Walks /\ walk'.phase = "cut" /\ walk'.code = walk.code
      BY <2>2, CutIs
    <3>2. walk'.todo \in Seq(Obj) /\ walk'.first \union walk'.later \subseteq Obj
      BY <3>1 DEF Walks
    <3> QED  BY <1>0, <1>12, <2>0, <2>2, <3>1, <3>2
                DEF CollectorFails, Places, Typed, TypeOK
  <2> QED  BY <1>12, <2>1, <2>2 DEF CollectorFails
<1> QED
  BY <1>1, <1>2, <1>3, <1>4, <1>5, <1>6, <1>7, <1>8, <1>9, <1>10, <1>11, <1>12
     DEF ThreadStep

(* What a thread that is joined leaves.                                    *)
LEMMA JoinNowIs ==
  ASSUME TypeOK, NEW t \in Obj, JoinNow(t)
  PROVE  /\ listed' \in {listed, Without(t)}
         /\ status' \in {status, [status EXCEPT ![t] = "initialized"]}
         /\ listed' \in Seq(Obj)
         /\ status' \in [Obj -> {"initialized", "set", "active", "done"}]
<1>1. listed \in Seq(Obj) /\ Without(t) \in Seq(Obj)
  BY WithoutIs DEF TypeOK
<1>2. status \in [Obj -> {"initialized", "set", "active", "done"}]
  BY DEF TypeOK
<1> QED
  BY <1>1, <1>2 DEF JoinNow

LEMMA TypedWalkStep ==
  ASSUME Typed, NEW x \in Obj, WalkStep(x)
  PROVE  Typed'
<1> USE Threads DEF Move
<1>0. /\ TypeOK /\ walk \in Walks /\ (walk.phase # "none" => walk.code \in Values)
      /\ (shutdown # NIL <=> walk.phase # "none")
  BY DEF Typed
<1>a. walk.todo \in Seq(Obj)
  BY <1>0 DEF Walks
<1>b. walk' \in Walks => walk'.todo \in Seq(Obj) /\ walk'.first \union walk'.later \subseteq Obj
  BY DEF Walks
<1>1. CASE WalkBegin(x)
  <2>1. walk' \in Walks /\ walk'.code = walk.code /\ walk'.phase = "ask"
    BY <1>1, CopyTypes DEF WalkBegin, Phases
  <2> QED  BY <1>0, <1>1, <1>b, <2>1 DEF WalkBegin, Typed, TypeOK
<1>2. ASSUME NEW n \in 1 .. Len(walk.todo),
             AskThread(x, n) \/ TerminateThread(x, n) \/ JoinThread(x, n) \/ KillThread(x, n)
      PROVE  Typed'
  <2>0. walk.todo[n] \in Obj
    BY <1>a
  <2>1. Proceed(n, {}) \/ Proceed(n, {walk.todo[n]})
    BY <1>2 DEF AskThread, TerminateThread, JoinThread, KillThread, Tell
  <2>2. walk' \in Walks /\ walk'.code = walk.code /\ walk'.phase = walk.phase
    BY <1>0, <2>0, <2>1, ProceedTypes
  <2>3. CASE AskThread(x, n)
    BY <1>0, <1>b, <2>0, <2>2, <2>3 DEF AskThread, Awoken, Typed, TypeOK, Places
  <2>4. CASE TerminateThread(x, n)
    BY <1>0, <1>b, <2>0, <2>2, <2>4 DEF TerminateThread, Tell, Typed, TypeOK
  <2>5. CASE JoinThread(x, n)
    <3>1. listed' \in Seq(Obj) /\ status' \in [Obj -> {"initialized", "set", "active", "done"}]
      BY <1>0, <2>0, <2>5, JoinNowIs DEF JoinThread, TypeOK
    <3> QED  BY <1>0, <1>b, <2>2, <2>5, <3>1 DEF JoinThread, Typed, TypeOK
  <2>6. CASE KillThread(x, n)
    <3>1. listed' \in Seq(Obj) /\ status' \in [Obj -> {"initialized", "set", "active", "done"}]
      BY <1>0, <2>0, <2>6, JoinNowIs DEF KillThread, TypeOK
    <3>2. told' \in [Obj -> BOOLEAN]
      BY <1>0, <2>0, <2>6 DEF KillThread, Tell, TypeOK
    <3> QED  BY <1>0, <1>b, <2>2, <2>6, <3>1, <3>2 DEF KillThread, Typed, TypeOK
  <2> QED  BY <1>2, <2>3, <2>4, <2>5, <2>6
<1>4. CASE EndOfRound(x)
  <2>1. PICK phase, round : walk' = Copy(phase, round) /\ round \in Nat /\ Follows(phase)
    BY <1>4, EndOfRoundIs
  <2>0. phase \in Phases /\ phase # "none" /\ walk.phase # "none"
    BY <2>1 DEF Follows
  <2>2. walk' \in Walks /\ walk'.code = walk.code /\ walk'.phase = phase
    BY <2>0, <2>1, CopyTypes
  <2> QED  BY <1>0, <1>4, <1>b, <2>0, <2>2 DEF EndOfRound, Typed, TypeOK
<1>5. CASE ShutdownCleansUp(x)
  BY <1>0, <1>5 DEF ShutdownCleansUp, Shutting, Places, Typed, TypeOK
<1>6. CASE ShutdownReturns(x)
  BY <1>0, <1>6 DEF ShutdownReturns, Shutting, Places, Typed, TypeOK
<1> QED
  BY <1>1, <1>2, <1>4, <1>5, <1>6 DEF WalkStep

LEMMA TypedOtherStep ==
  ASSUME Typed, DaemonStep \/ Collect \/ WatchdogStep
  PROVE  Typed'
<1> USE Threads DEF Move, Leave
<1>0. /\ TypeOK /\ walk \in Walks /\ (walk.phase # "none" => walk.code \in Values)
      /\ (shutdown # NIL <=> walk.phase # "none")
  BY DEF Typed
<1>1. CASE DaemonWait \/ DaemonWakes \/ Finalize
  BY <1>0, <1>1 DEF DaemonWait, DaemonWakes, Finalize, Places, Typed, TypeOK, Values
<1>2. CASE Collect
  BY <1>0, <1>2 DEF Collect, Awoken, Places, Typed, TypeOK
<1>3. CASE WatchdogBegin
  <2>1. listed' \in Seq(Obj)
    BY <1>0, <1>3, WithoutIs DEF WatchdogBegin, TypeOK
  <2> QED  BY <1>0, <1>3, <2>1 DEF WatchdogBegin, Places, Typed, TypeOK
<1>8. CASE WatchdogSkips
  BY <1>0, <1>8 DEF WatchdogSkips, Places, Typed, TypeOK
<1>4. CASE WatchdogDecide
  <2>0. result[Initial] \in Values /\ watchdog \in Obj \union {NIL}
    BY <1>0 DEF TypeOK
  <2>1. CASE shutdown = NIL
    <3>1. walk' \in Walks /\ walk'.phase = "start" /\ walk'.code = result[Initial]
      <4>1. walk' = Fresh(Initial, watchdog, result[Initial])
        BY <1>4, <2>1, NewWalk DEF WatchdogDecide
      <4> QED  BY <2>0, <4>1, FreshTypes
    <3>2. walk'.todo \in Seq(Obj) /\ walk'.first \union walk'.later \subseteq Obj
      BY <3>1 DEF Walks
    <3> QED  BY <1>0, <1>4, <2>0, <2>1, <3>1, <3>2 DEF WatchdogDecide, Places, Typed, TypeOK
  <2>2. CASE shutdown # NIL
    BY <1>0, <1>4, <2>2 DEF WatchdogDecide, Places, Typed, TypeOK
  <2> QED
    BY <2>1, <2>2
<1>5. CASE WatchdogJoin
  <2>1. listed' \in Seq(Obj)
    BY <1>0, <1>5, WithoutIs DEF WatchdogJoin, TypeOK
  <2> QED  BY <1>0, <1>5, <2>1 DEF WatchdogJoin, Places, Typed, TypeOK
<1>6. CASE WatchdogJoinsNothing
  BY <1>0, <1>6 DEF WatchdogJoinsNothing, Places, Typed, TypeOK, Values
<1>7. CASE WatchdogReturns \/ LastPthreadEnds
  BY <1>0, <1>7 DEF WatchdogReturns, LastPthreadEnds, Places, Typed, TypeOK
<1> QED
  BY <1>1, <1>2, <1>3, <1>4, <1>5, <1>6, <1>7, <1>8 DEF DaemonStep, WatchdogStep

LEMMA TypedNext == ShutdownInv /\ Typed /\ [Next]_vars => Typed'
<1>1. ASSUME GateInv, Typed, Next PROVE Typed'
  BY <1>1, TypedThreadStep, TypedWalkStep, TypedOtherStep DEF Next
<1>2. ASSUME Typed, UNCHANGED vars PROVE Typed'
  BY <1>2 DEF Typed, TypeOK, vars
<1> QED
  BY <1>1, <1>2 DEF ShutdownInv

(* Every variable, the walk's own included, keeps its type.                *)
THEOREM ShutdownTypes == Spec => []TypeOK
<1>1. Spec => [](ShutdownInv /\ Typed)
  BY InitInv, NextInv, TypedInit, TypedNext, PTL DEF Spec
<1>2. Typed => TypeOK
  BY DEF Typed
<1> QED
  BY <1>1, <1>2, PTL
-----------------------------------------------------------------------------
(* The exit code.  It is in the walk from the moment the gate is passed,   *)
(* and stays as it is; it goes through the value of the Shutter and the    *)
(* watchdog's join, or through the value of the initial thread itself.     *)

Unstarted == {"none", "preset", "enabling", "created"}

CodeInv ==
  /\ at[Shutter] \in Unstarted \union {"shutting", "leaving", "ended"}
  /\ \A t \in Obj : at[t] = "quitting" => at[Shutter] = "preset"
  /\ \A t, u \in Obj : at[t] = "quitting" /\ at[u] = "quitting" => t = u
  /\ at[Shutter] \in {"leaving", "ended"} => result[Shutter] \in {walk.code, "gc"}
  /\ at[Initial] = "finishing" =>
       \/ shutdown # NIL /\ (raced \/ result[Initial] = walk.code)
       \/ result[Initial] = "gc"
       \/ result[Initial] = "invalid" /\ walk.by = Initial /\ walk.phase = "cut"
  /\ at[Initial] = "ended" /\ exit = NIL => walk.by = Initial /\ cleanups > 0
  /\ walk.by # NIL => shutdown # NIL
  /\ ExitCode

(* A step that leaves the code, the values and the mark of the watchdog    *)
(* alone, and moves no thread to where a value is looked at.               *)
LEMMA CodeKept ==
  ASSUME Typed, CodeInv, walk'.code = walk.code, walk'.by = walk.by,
         walk'.phase = walk.phase \/ walk.phase # "cut", shutdown' = shutdown,
         exit' = exit, raced' = raced, cleanups' = cleanups, at' \in [Obj -> Places],
         at'[Shutter] = at[Shutter] /\ result'[Shutter] = result[Shutter],
         \A t \in Obj : at'[t] = "quitting" => at[t] = "quitting",
         at'[Initial] = "finishing" =>
           at[Initial] = "finishing" /\ result'[Initial] = result[Initial],
         at'[Initial] = "ended" => at[Initial] = "ended"
  PROVE  CodeInv'
  BY Threads DEF CodeInv, ExitCode

(* CodeInv, group by group.                                                *)
LEMMA CodeInit == Init => CodeInv
  BY Threads DEF Init, NoWalk, CodeInv, ExitCode, Unstarted

LEMMA CodeThreadStep ==
  ASSUME Typed, GateInv, CodeInv, exit = NIL, NEW t \in Obj, ThreadStep(t)
  PROVE  CodeInv'
<1> USE Threads DEF Move, Leave
<1>0. at \in [Obj -> Places] /\ result \in [Obj -> Values]
  BY DEF Typed, TypeOK
<1>a. at[Shutter] \in Unstarted \union {"shutting", "leaving", "ended"}
  BY DEF CodeInv
<1>b. CASE UNCHANGED <<at, result, walk, shutdown, exit, raced, cleanups>>
  BY <1>b DEF CodeInv, ExitCode
<1>1. CASE EnableCreate(t)
  BY <1>0, <1>1 DEF EnableCreate, CodeInv, ExitCode, Unstarted
<1>2. CASE Register(t)
  BY <1>0, <1>2 DEF Register, CodeInv, ExitCode, Unstarted
<1>3. CASE FunctionReturns(t)
  BY <1>0, <1>a, <1>3, CodeKept DEF FunctionReturns, Unstarted, Places
<1>4. CASE Poll(t)
  BY <1>0, <1>a, <1>4, CodeKept DEF Poll, Unstarted, Places
<1>5. CASE Interrupted(t)
  BY <1>0, <1>a, <1>5, CodeKept DEF Interrupted, Unstarted, Places
<1>6. CASE EndThread(t)
  BY <1>0, <1>6 DEF EndThread, CodeInv, ExitCode, Unstarted
<1>7. ASSUME NEW c \in Code, Quit(t, c) PROVE CodeInv'
  <2>0. t # Shutter
    BY <1>a, <1>7 DEF Quit, Unstarted
  <2>1. CASE shutdown = NIL
    <3>1. /\ at[Shutter] = "none" /\ at[Initial] # "ended"
          /\ at[Initial] = "finishing" => result[Initial] = "gc"
      BY <2>1, ShutdownAssumption DEF CodeInv, GateInv, Obj
    <3>2. \A u \in Obj : at[u] # "quitting"
      BY <2>1 DEF GateInv
    <3> QED  BY <1>0, <1>7, <2>0, <2>1, <3>1, <3>2 DEF Quit, CodeInv, ExitCode, Unstarted
  <2>2. CASE shutdown # NIL
    BY <1>0, <1>a, <1>7, <2>0, <2>2, CodeKept DEF Quit, Places
  <2> QED
    BY <2>1, <2>2
<1>8. CASE QuitEnable(t)
  BY <1>0, <1>8 DEF QuitEnable, CodeInv, ExitCode, Unstarted
<1>9. CASE QuitGivesUp(t)
  <2>0. t # Shutter
    BY <1>a, <1>9 DEF QuitGivesUp, Unstarted
  <2> QED  BY <1>0, <1>a, <1>9, <2>0, CodeKept DEF QuitGivesUp, Places
<1>10. ASSUME NEW o \in Obj, Enable(t, o) \/ RequestShutdown(t, o) PROVE CodeInv'
  BY <1>0, <1>b, <1>10, CodeKept DEF Enable, RequestShutdown, Places
<1>11. ASSUME NEW w \in Obj, NEW c \in BOOLEAN, RegisterWatchdog(t, w, c)
       PROVE  CodeInv'
  BY <1>b, <1>11 DEF RegisterWatchdog
<1>12. CASE CollectorFails(t)
  <2>1. CASE t = Initial /\ at[t] = "running" /\ Leave(t, "gc") /\ UNCHANGED walk
    BY <1>0, <1>a, <1>12, <2>1, CodeKept DEF CollectorFails, Places
  <2>2. CASE /\ Shutting(t)
             /\ walk.phase \in {"start", "ask", "terminate", "join", "kill", "wait"}
             /\ walk' = [NoWalk EXCEPT !.by = t, !.wd = walk.wd, !.code = walk.code,
                                       !.phase = "cut"]
    <3>1. walk'.code = walk.code /\ walk'.by = t /\ walk'.phase = "cut" /\ walk.by = t
      BY <2>2, CutIs DEF Shutting
    <3>2. CASE t = Initial
      BY <1>0, <1>12, <2>2, <3>1, <3>2 DEF CollectorFails, Shutting, CodeInv, ExitCode, Unstarted
    <3>3. CASE t # Initial
      BY <1>0, <1>12, <2>2, <3>1, <3>3 DEF CollectorFails, Shutting, CodeInv, ExitCode, Unstarted
    <3> QED  BY <3>2, <3>3
  <2> QED  BY <1>12, <2>1, <2>2 DEF CollectorFails
<1> QED
  BY <1>1, <1>2, <1>3, <1>4, <1>5, <1>6, <1>7, <1>8, <1>9, <1>10, <1>11, <1>12
     DEF ThreadStep

LEMMA CodeWalkStep ==
  ASSUME Typed, GateInv, CodeInv, exit = NIL, NEW x \in Obj, WalkStep(x)
  PROVE  CodeInv'
<1> USE Threads DEF Move
<1>0. at \in [Obj -> Places] /\ result \in [Obj -> Values] /\ walk \in Walks
  BY DEF Typed, TypeOK
<1>a. at[Shutter] \in Unstarted \union {"shutting", "leaving", "ended"}
  BY DEF CodeInv
<1>b. ASSUME walk'.code = walk.code, walk'.by = walk.by, walk.phase # "cut",
             UNCHANGED <<at, result, shutdown, exit, raced, cleanups>>
      PROVE  CodeInv'
  BY <1>b DEF CodeInv, ExitCode
<1>1. CASE WalkBegin(x)
  <2>1. walk'.code = walk.code /\ walk'.by = walk.by
    BY <1>1, CopyTypes DEF WalkBegin, Phases
  <2> QED  BY <1>1, <1>b, <2>1 DEF WalkBegin
<1>2. ASSUME NEW n \in 1 .. Len(walk.todo),
             AskThread(x, n) \/ TerminateThread(x, n) \/ JoinThread(x, n) \/ KillThread(x, n)
      PROVE  CodeInv'
  <2>0. walk.todo[n] \in Obj
    BY <1>0 DEF Walks
  <2>1. Proceed(n, {}) \/ Proceed(n, {walk.todo[n]})
    BY <1>2 DEF AskThread, TerminateThread, JoinThread, KillThread, Tell
  <2>2. walk'.code = walk.code /\ walk'.by = walk.by /\ walk'.phase = walk.phase
    BY <1>0, <2>0, <2>1, ProceedTypes
  <2>5. walk.phase # "cut"
    BY <1>2 DEF AskThread, TerminateThread, JoinThread, KillThread, NextThread
  <2>3. CASE AskThread(x, n)
    BY <1>0, <1>a, <2>2, <2>3, CodeKept DEF AskThread, Awoken, Places, Unstarted
  <2>4. CASE TerminateThread(x, n) \/ JoinThread(x, n) \/ KillThread(x, n)
    BY <1>b, <2>2, <2>4, <2>5 DEF TerminateThread, JoinThread, KillThread
  <2> QED  BY <1>2, <2>3, <2>4
<1>4. CASE EndOfRound(x)
  <2>1. PICK phase, round : walk' = Copy(phase, round) /\ round \in Nat /\ Follows(phase)
    BY <1>4, EndOfRoundIs
  <2>0. phase \in Phases
    BY <2>1 DEF Follows
  <2>2. walk'.code = walk.code /\ walk'.by = walk.by
    BY <2>0, <2>1, CopyTypes
  <2> QED  BY <1>4, <1>b, <2>2 DEF EndOfRound
<1>5. CASE ShutdownCleansUp(x)
  <2>1. cleanups' > 0
    BY <1>5 DEF ShutdownCleansUp, Typed, TypeOK
  <2> QED  BY <1>0, <1>5, <2>1 DEF ShutdownCleansUp, Shutting, CodeInv, ExitCode, Unstarted
<1>6. CASE ShutdownReturns(x)
  <2>1. shutdown # NIL
    BY <1>6 DEF ShutdownReturns, Typed
  <2> QED  BY <1>0, <1>6, <2>1 DEF ShutdownReturns, Shutting, CodeInv, ExitCode, Unstarted
<1> QED
  BY <1>1, <1>2, <1>4, <1>5, <1>6 DEF WalkStep

LEMMA CodeOtherStep ==
  ASSUME Typed, GateInv, CodeInv, exit = NIL, DaemonStep \/ Collect \/ WatchdogStep
  PROVE  CodeInv'
<1> USE Threads DEF Move, Leave
<1>0. at \in [Obj -> Places] /\ result \in [Obj -> Values]
  BY DEF Typed, TypeOK
<1>a. at[Shutter] \in Unstarted \union {"shutting", "leaving", "ended"}
  BY DEF CodeInv
<1>1. CASE DaemonWait \/ DaemonWakes \/ Finalize
  BY <1>0, <1>1, CodeKept DEF DaemonWait, DaemonWakes, Finalize, Places
<1>2. CASE Collect
  BY <1>0, <1>2, CodeKept DEF Collect, Awoken, Places
<1>3. CASE WatchdogBegin
  BY <1>0, <1>3, CodeKept DEF WatchdogBegin, Places
<1>4. CASE WatchdogDecide
  <2>1. CASE shutdown = NIL
    <3>1. /\ at[Shutter] = "none" /\ at[Initial] # "ended"
          /\ at[Initial] = "finishing" => result[Initial] = "gc"
      BY <2>1, ShutdownAssumption DEF CodeInv, GateInv, Obj
    <3>2. \A u \in Obj : at[u] # "quitting"
      BY <2>1 DEF GateInv
    <3> QED  BY <1>0, <1>4, <2>1, <3>1, <3>2 DEF WatchdogDecide, CodeInv, ExitCode, Unstarted
  <2>2. CASE shutdown # NIL
    BY <1>0, <1>4, <2>2, CodeKept DEF WatchdogDecide, Places
  <2> QED
    BY <2>1, <2>2
<1>5. CASE WatchdogJoin
  <2>1. shutdown # NIL
    BY <1>5 DEF WatchdogJoin, GateInv
  <2> QED  BY <1>0, <1>5, <2>1 DEF WatchdogJoin, CodeInv, ExitCode, Unstarted
<1>6. CASE WatchdogJoinsNothing
  <2>1. shutdown # NIL
    BY <1>6 DEF WatchdogJoinsNothing, GateInv
  <2> QED  BY <1>0, <1>6, <2>1 DEF WatchdogJoinsNothing, CodeInv, ExitCode, Unstarted
<1>7. CASE WatchdogReturns
  <2>1. exit' = result[Initial] /\ exit' # NIL
    BY <1>0, <1>7, ShutdownAssumption DEF WatchdogReturns, Values
  <2> QED  BY <1>0, <1>7, <2>1 DEF WatchdogReturns, CodeInv, ExitCode, Unstarted
<1>9. CASE WatchdogSkips
  BY <1>0, <1>9 DEF WatchdogSkips, CodeInv, ExitCode, Unstarted
<1>8. CASE LastPthreadEnds
  BY <1>0, <1>8 DEF LastPthreadEnds, CodeInv, ExitCode
<1> QED
  BY <1>1, <1>2, <1>3, <1>4, <1>5, <1>6, <1>7, <1>8, <1>9 DEF DaemonStep, WatchdogStep

LEMMA CodeNext == ShutdownInv /\ Typed /\ CodeInv /\ [Next]_vars => CodeInv'
<1>1. ASSUME GateInv, Typed, CodeInv, Next PROVE CodeInv'
  <2>1. exit = NIL
    BY <1>1 DEF Next
  <2> QED  BY <1>1, <2>1, CodeThreadStep, CodeWalkStep, CodeOtherStep DEF Next
<1>2. ASSUME CodeInv, UNCHANGED vars PROVE CodeInv'
  BY <1>2 DEF CodeInv, ExitCode, vars
<1> QED
  BY <1>1, <1>2 DEF ShutdownInv

(* The process ends with the code of the quit that was accepted, or with   *)
(* the value of the initial thread if main() returned first.  It is lost   *)
(* only if the watchdog joined a Shutter that had no pthread yet, if the   *)
(* initial thread cleaned up and left by mkcl_thread_exit, or if the       *)
(* collector failed.                                                       *)
THEOREM ExitCodeIsKept == Spec => []ExitCode
<1>1. Spec => [](ShutdownInv /\ Typed)
  BY InitInv, NextInv, TypedInit, TypedNext, PTL DEF Spec
<1>2. Spec => []CodeInv
  BY <1>1, CodeInit, CodeNext, PTL DEF Spec
<1>3. CodeInv => ExitCode
  BY DEF CodeInv
<1> QED
  BY <1>2, <1>3, PTL
-----------------------------------------------------------------------------
(* The walk loses no request.  A thread on the list has started, and only  *)
(* a thread that has not started has its request reset.  While a dolist is *)
(* under way, who is still to be visited is in what is left of the copy.   *)
(* The watchdog, whom the rounds of killing skip, is the initial thread:   *)
(* if it is still active, it was there from the first.                     *)

Todo == {walk.todo[n] : n \in 1 .. Len(walk.todo)}

Handled(t) == asked[t] \/ told[t] \/ at[t] = "leaving" \/ t \in walk.refused

SeenInv ==
  /\ at[Initial] \notin Unstarted
  /\ \A t \in Listed \union walk.first \union walk.later : at[t] \notin Unstarted
  /\ status[Initial] = "active" =>
       /\ Initial \in Listed
       /\ at[Initial] \notin {"done", "watchdog", "joining", "finishing", "shutting"}
       /\ walk.phase \notin {"none", "start", "cut"} => Initial \in walk.first
  /\ \A t \in walk.first \ {walk.by} : status[t] = "active" =>
       asked[t] \/ (walk.phase = "ask" /\ t \in Todo)
  /\ \A t \in walk.later \ {walk.by} : status[t] = "active" =>
       Handled(t) \/ (walk.phase \in {"terminate", "kill"} /\ t \in Todo)
  /\ walk.phase \in {"none", "start"} => walk.first = {} /\ walk.later = {}
  /\ walk.phase = "ask" => walk.later = {}

WatchInv == watchdog \in {Initial, NIL} /\ walk.wd \in {Initial, NIL}

(* A step that is not one of the walk's starts no thread, resets no        *)
(* request of a thread that has started, and takes nobody off the list who *)
(* matters.                                                                *)
LEMMA SeenKept ==
  ASSUME Typed, SeenInv, UNCHANGED walk, Listed' \subseteq Listed,
         status'[Initial] = "active" =>
           Initial \in Listed' /\ (at'[Initial] = at[Initial] \/ at'[Initial] \in
             {"running", "quitting", "leaving"}),
         \A t \in Obj : at[t] \notin Unstarted => at'[t] \notin Unstarted,
         \A t \in Obj : status'[t] = "active" =>
           /\ status[t] = "active"
           /\ at[t] \notin Unstarted =>
                /\ asked[t] => asked'[t]
                /\ told[t] \/ at[t] = "leaving" => told'[t] \/ at'[t] = "leaving"
  PROVE  SeenInv'
<1>1. walk.first \subseteq Obj /\ walk.later \subseteq Obj /\ Listed \subseteq Obj
  BY DEF Typed, TypeOK, Listed
<1>2. Todo' = Todo
  BY DEF Todo
<1>3. at'[Initial] \notin Unstarted
      /\ \A t \in Listed' \union walk.first \union walk.later : at'[t] \notin Unstarted
  BY <1>1, Threads DEF SeenInv
<1>4. status'[Initial] = "active" =>
       /\ Initial \in Listed'
       /\ at'[Initial] \notin {"done", "watchdog", "joining", "finishing", "shutting"}
       /\ walk.phase \notin {"none", "start", "cut"} => Initial \in walk.first
  BY Threads DEF SeenInv
<1>5. \A t \in walk.first \ {walk.by} : status'[t] = "active" =>
        asked'[t] \/ (walk.phase = "ask" /\ t \in Todo)
  BY <1>1 DEF SeenInv
<1>6. \A t \in walk.later \ {walk.by} : status'[t] = "active" =>
        Handled(t)' \/ (walk.phase \in {"terminate", "kill"} /\ t \in Todo)
  <2> SUFFICES ASSUME NEW t \in walk.later \ {walk.by}, status'[t] = "active",
                      ~(walk.phase \in {"terminate", "kill"} /\ t \in Todo)
               PROVE  Handled(t)'
    OBVIOUS
  <2>1. t \in Obj /\ status[t] = "active" /\ at[t] \notin Unstarted
    BY <1>1 DEF SeenInv
  <2>2. Handled(t)
    BY <2>1 DEF SeenInv
  <2> QED  BY <2>1, <2>2 DEF Handled
<1>7. /\ walk.phase \in {"none", "start"} => walk.first = {} /\ walk.later = {}
      /\ walk.phase = "ask" => walk.later = {}
  BY DEF SeenInv
<1> QED
  BY <1>2, <1>3, <1>4, <1>5, <1>6, <1>7 DEF SeenInv

(* A thread off the list, or one more on it.                               *)
LEMMA ListedWithout ==
  ASSUME listed \in Seq(Obj), NEW t, listed' = Without(t)
  PROVE  Listed' \subseteq Listed /\ (Initial \in Listed /\ t # Initial => Initial \in Listed')
<1>1. PICK w : w = Without(t)
  OBVIOUS
<1>2. /\ \A n \in 1 .. Len(w) : w[n] \in Listed
      /\ \A u \in Listed : u # t => \E n \in 1 .. Len(w) : w[n] = u
  BY <1>1, WithoutIs
<1>3. Listed' = {w[n] : n \in 1 .. Len(w)}
  BY <1>1 DEF Listed
<1> QED
  BY <1>2, <1>3

(* Registration puts one thread on the list.                               *)
LEMMA ListedMore ==
  ASSUME listed \in Seq(Obj), NEW t \in Obj, listed' = <<t>> \o listed
  PROVE  Listed' = Listed \union {t}
<1>1. /\ Len(listed') = Len(listed) + 1
      /\ \A n \in 1 .. Len(listed) + 1 : listed'[n] = IF n = 1 THEN t ELSE listed[n - 1]
  OBVIOUS
<1>2. PICK w : w = listed'
  OBVIOUS
<1>3. Len(listed) \in Nat
  OBVIOUS
<1>4. Listed' = {w[n] : n \in 1 .. Len(w)}
  BY <1>2 DEF Listed
<1>5. ASSUME NEW u \in Listed PROVE u \in Listed'
  <2>1. PICK n \in 1 .. Len(listed) : listed[n] = u
    BY DEF Listed
  <2>2. n + 1 \in 1 .. Len(w) /\ w[n + 1] = u
    BY <1>1, <1>2, <1>3, <2>1
  <2> QED  BY <1>4, <2>2
<1>6. t \in Listed'
  <2>1. 1 \in 1 .. Len(w) /\ w[1] = t
    BY <1>1, <1>2, <1>3
  <2> QED  BY <1>4, <2>1
<1>7. ASSUME NEW u \in Listed' PROVE u \in Listed \union {t}
  <2>1. PICK n \in 1 .. Len(w) : w[n] = u
    BY <1>4, <1>7
  <2>2. CASE n = 1
    BY <1>1, <1>2, <1>3, <2>1, <2>2
  <2>3. CASE n # 1
    <3>1. n - 1 \in 1 .. Len(listed) /\ listed[n - 1] = u
      BY <1>1, <1>2, <1>3, <2>1, <2>3
    <3> QED  BY <3>1 DEF Listed
  <2> QED  BY <2>2, <2>3
<1> QED
  BY <1>5, <1>6, <1>7

(* SeenInv, group by group.                                                *)
LEMMA SeenInit == Init => SeenInv
<1> SUFFICES ASSUME Init PROVE SeenInv
  OBVIOUS
<1>1. Len(listed) = 2 /\ listed[1] = Daemon /\ listed[2] = Initial
  BY DEF Init
<1>2. Listed = {Daemon, Initial}
  <2>1. 1 .. 2 = {1, 2}
    OBVIOUS
  <2>2. Listed = {listed[n] : n \in {1, 2}}
    BY <1>1, <2>1 DEF Listed
  <2> QED  BY <1>1, <2>2
<1>3. walk.first = {} /\ walk.later = {} /\ walk.phase = "none"
  BY DEF Init, NoWalk
<1>4. at[Initial] = "running" /\ at[Daemon] = "running"
  BY Threads DEF Init
<1> QED
  BY <1>2, <1>3, <1>4 DEF SeenInv, Unstarted

(* A shutdown that begins has asked nobody yet.                            *)
LEMMA SeenStart ==
  ASSUME SeenInv, UNCHANGED <<listed, status>>, walk'.phase = "start",
         walk'.first = {}, walk'.later = {},
         \A t \in Obj : at[t] \notin Unstarted => at'[t] \notin Unstarted,
         Listed \subseteq Obj,
         status[Initial] = "active" => at'[Initial] = "quitting" \/ at'[Initial] = at[Initial]
  PROVE  SeenInv'
<1>1. Listed' = Listed
  BY DEF Listed
<1> QED
  BY <1>1, Threads DEF SeenInv

LEMMA SeenThreadStep ==
  ASSUME Typed, GateInv, CodeInv, SeenInv, NEW t \in Obj, ThreadStep(t)
  PROVE  SeenInv'
<1> USE Threads DEF Move, Leave
<1>0. /\ at \in [Obj -> Places] /\ result \in [Obj -> Values]
      /\ status \in [Obj -> {"initialized", "set", "active", "done"}]
      /\ asked \in [Obj -> BOOLEAN] /\ told \in [Obj -> BOOLEAN] /\ listed \in Seq(Obj)
  BY DEF Typed, TypeOK
<1>a. /\ Listed \subseteq Obj /\ at[Initial] \notin Unstarted
      /\ status[Initial] = "active" => Initial \in Listed
  BY <1>0 DEF Listed, SeenInv
<1>b. listed' = listed => Listed' = Listed
  BY DEF Listed
<1>1. CASE EnableCreate(t)
  BY <1>0, <1>a, <1>b, <1>1, SeenKept DEF EnableCreate, Unstarted
<1>2. CASE Register(t)
  <2>1. at[t] = "created" /\ t # Initial
    BY <1>2, <1>a DEF Register, Unstarted
  <2>2. t \notin walk.first /\ t \notin walk.later
    BY <2>1 DEF SeenInv, Unstarted
  <2>3. Listed' = Listed \union {t}
    BY <1>0, <1>2, ListedMore DEF Register
  <2>4. /\ walk.first \subseteq Obj /\ walk.later \subseteq Obj
        /\ UNCHANGED <<asked, told, walk>>
        /\ \A u \in Obj \ {t} : status'[u] = status[u] /\ at'[u] = at[u]
        /\ at'[t] \in {"shutting", "running"}
    BY <1>0, <1>2 DEF Register, Typed, TypeOK
  <2>5. Todo' = Todo /\ \A u \in Obj \ {t} : Handled(u)' = Handled(u)
    BY <2>4 DEF Todo, Handled
  <2>6. \A u \in Listed' \union walk.first \union walk.later : at'[u] \notin Unstarted
    BY <1>a, <2>3, <2>4 DEF SeenInv, Unstarted
  <2>7. \A u \in walk.first \ {walk.by} : status'[u] = "active" =>
          asked'[u] \/ (walk.phase = "ask" /\ u \in Todo)
    BY <2>2, <2>4 DEF SeenInv
  <2>8. \A u \in walk.later \ {walk.by} : status'[u] = "active" =>
          Handled(u)' \/ (walk.phase \in {"terminate", "kill"} /\ u \in Todo)
    BY <2>2, <2>4, <2>5 DEF SeenInv
  <2> QED  BY <2>1, <2>3, <2>4, <2>5, <2>6, <2>7, <2>8 DEF SeenInv
<1>3. CASE FunctionReturns(t)
  BY <1>0, <1>a, <1>b, <1>3, SeenKept DEF FunctionReturns, Unstarted
<1>4. CASE Poll(t)
  BY <1>0, <1>a, <1>b, <1>4, SeenKept DEF Poll, Unstarted
<1>5. CASE Interrupted(t)
  BY <1>0, <1>a, <1>b, <1>5, SeenKept DEF Interrupted, Unstarted
<1>6. CASE EndThread(t)
  <2>1. listed' = listed \/ (t = Daemon /\ listed' = Without(t))
    BY <1>6 DEF EndThread, Detached
  <2>2. Listed' \subseteq Listed /\ (Initial \in Listed => Initial \in Listed')
    BY <1>0, <1>b, <2>1, ListedWithout
  <2> QED  BY <1>0, <1>a, <1>6, <2>2, SeenKept DEF EndThread, Unstarted
<1>7. ASSUME NEW c \in Code, Quit(t, c) PROVE SeenInv'
  <2>0. t # Shutter
    BY <1>7 DEF Quit, CodeInv, Unstarted
  <2>1. CASE shutdown = NIL
    <3>1. walk' = Fresh(Shutter, watchdog, c)
      BY <1>7, <2>1, NewWalk DEF Quit
    <3>2. c \in Values /\ watchdog \in Obj \union {NIL}
      BY DEF Values, Typed, TypeOK
    <3>3. walk'.phase = "start" /\ walk'.first = {} /\ walk'.later = {}
      BY <3>1, <3>2, FreshTypes
    <3>4. at[Shutter] = "none"
      BY <2>1 DEF GateInv
    <3>5. /\ at' = [at EXCEPT ![t] = "quitting", ![Shutter] = "preset"]
          /\ UNCHANGED <<listed, status>>
      BY <1>7, <2>1 DEF Quit
    <3>6. \A u \in Obj : at[u] \notin Unstarted => at'[u] \notin Unstarted
      BY <1>0, <3>4, <3>5 DEF Unstarted
    <3>7. at'[Initial] = "quitting" \/ at'[Initial] = at[Initial]
      BY <1>0, <3>5
    <3> QED  BY <1>a, <3>3, <3>5, <3>6, <3>7, SeenStart
  <2>2. CASE shutdown # NIL
    BY <1>0, <1>a, <1>b, <1>7, <2>2, SeenKept DEF Quit, Unstarted
  <2> QED
    BY <2>1, <2>2
<1>8. CASE QuitEnable(t)
  <2>1. at[Shutter] = "preset" /\ t # Shutter
    BY <1>8 DEF QuitEnable, CodeInv, Unstarted
  <2> QED  BY <1>0, <1>a, <1>b, <1>8, <2>1, SeenKept DEF QuitEnable, Unstarted
<1>9. CASE QuitGivesUp(t)
  BY <1>0, <1>a, <1>b, <1>9, SeenKept DEF QuitGivesUp, Unstarted
<1>10. ASSUME NEW o \in Obj, Enable(t, o) PROVE SeenInv'
  BY <1>0, <1>a, <1>b, <1>10, SeenKept DEF Enable, Unstarted
<1>11. ASSUME NEW o \in Obj, RequestShutdown(t, o) PROVE SeenInv'
  BY <1>0, <1>a, <1>b, <1>11, SeenKept DEF RequestShutdown
<1>12. ASSUME NEW w \in Obj, NEW c \in BOOLEAN, RegisterWatchdog(t, w, c)
       PROVE  SeenInv'
  BY <1>0, <1>a, <1>b, <1>12, SeenKept DEF RegisterWatchdog
<1>13. CASE CollectorFails(t)
  <2>1. CASE t = Initial /\ at[t] = "running" /\ Leave(t, "gc") /\ UNCHANGED walk
    BY <1>0, <1>a, <1>b, <1>13, <2>1, SeenKept DEF CollectorFails, Unstarted
  <2>2. CASE /\ Shutting(t)
             /\ walk.phase \in {"start", "ask", "terminate", "join", "kill", "wait"}
             /\ walk' = [NoWalk EXCEPT !.by = t, !.wd = walk.wd, !.code = walk.code,
                                       !.phase = "cut"]
    <3>1. walk'.phase = "cut" /\ walk'.first = {} /\ walk'.later = {}
      BY <2>2, CutIs
    <3>2. UNCHANGED <<listed, status>> /\ at'[t] \in {"finishing", "leaving"}
          /\ \A u \in Obj \ {t} : at'[u] = at[u]
      BY <1>0, <1>13, <2>2 DEF CollectorFails, Shutting
    <3>3. \A u \in Obj : at[u] \notin Unstarted => at'[u] \notin Unstarted
      BY <3>2 DEF Unstarted
    <3>4. status[Initial] = "active" => t # Initial
      BY <2>2 DEF SeenInv, Shutting
    <3> QED  BY <1>a, <1>b, <3>1, <3>2, <3>3, <3>4 DEF SeenInv
  <2> QED  BY <1>13, <2>1, <2>2 DEF CollectorFails
<1> QED
  BY <1>1, <1>2, <1>3, <1>4, <1>5, <1>6, <1>7, <1>8, <1>9, <1>10, <1>11, <1>12, <1>13
     DEF ThreadStep

LEMMA SeenOtherStep ==
  ASSUME Typed, GateInv, SeenInv, DaemonStep \/ Collect \/ WatchdogStep
  PROVE  SeenInv'
<1> USE Threads DEF Move, Leave
<1>0. /\ at \in [Obj -> Places] /\ result \in [Obj -> Values]
      /\ status \in [Obj -> {"initialized", "set", "active", "done"}]
      /\ asked \in [Obj -> BOOLEAN] /\ told \in [Obj -> BOOLEAN] /\ listed \in Seq(Obj)
  BY DEF Typed, TypeOK
<1>a. /\ Listed \subseteq Obj /\ at[Initial] \notin Unstarted
      /\ status[Initial] = "active" =>
           /\ Initial \in Listed
           /\ at[Initial] \notin {"done", "watchdog", "joining", "finishing", "shutting"}
  BY <1>0 DEF Listed, SeenInv
<1>b. listed' = listed => Listed' = Listed
  BY DEF Listed
<1>1. CASE DaemonWait \/ DaemonWakes \/ Finalize
  BY <1>0, <1>a, <1>b, <1>1, SeenKept DEF DaemonWait, DaemonWakes, Finalize, Unstarted
<1>2. CASE Collect
  BY <1>0, <1>a, <1>b, <1>2, SeenKept DEF Collect, Awoken, Unstarted
<1>3. CASE WatchdogBegin
  <2>1. Listed' \subseteq Listed /\ status[Initial] # "active"
    BY <1>0, <1>a, <1>3, ListedWithout DEF WatchdogBegin
  <2> QED  BY <1>0, <1>a, <1>3, <2>1, SeenKept DEF WatchdogBegin, Unstarted
<1>4. CASE WatchdogDecide
  <2>1. CASE shutdown = NIL
    <3>1. walk' = Fresh(Initial, watchdog, result[Initial])
      BY <1>4, <2>1, NewWalk DEF WatchdogDecide
    <3>2. result[Initial] \in Values /\ watchdog \in Obj \union {NIL}
      BY DEF Typed, TypeOK
    <3>3. walk'.phase = "start" /\ walk'.first = {} /\ walk'.later = {}
      BY <3>1, <3>2, FreshTypes
    <3>4. UNCHANGED <<listed, status>> /\ status[Initial] # "active"
      BY <1>4, <1>a DEF WatchdogDecide
    <3>6. \A u \in Obj : at[u] \notin Unstarted => at'[u] \notin Unstarted
      BY <1>0, <1>4, <2>1 DEF WatchdogDecide, Unstarted
    <3> QED  BY <1>a, <3>3, <3>4, <3>6, SeenStart
  <2>2. CASE shutdown # NIL
    BY <1>0, <1>a, <1>b, <1>4, <2>2, SeenKept DEF WatchdogDecide, Unstarted
  <2> QED
    BY <2>1, <2>2
<1>5. CASE WatchdogJoin
  <2>1. Listed' \subseteq Listed /\ status[Initial] # "active"
    BY <1>0, <1>a, <1>5, ListedWithout DEF WatchdogJoin
  <2> QED  BY <1>0, <1>a, <1>5, <2>1, SeenKept DEF WatchdogJoin, Unstarted
<1>6. CASE WatchdogJoinsNothing \/ WatchdogSkips
  BY <1>0, <1>a, <1>b, <1>6, SeenKept DEF WatchdogJoinsNothing, WatchdogSkips, Unstarted
<1>7. CASE WatchdogReturns \/ LastPthreadEnds
  BY <1>0, <1>a, <1>b, <1>7, SeenKept DEF WatchdogReturns, LastPthreadEnds, Unstarted
<1> QED
  BY <1>1, <1>2, <1>3, <1>4, <1>5, <1>6, <1>7 DEF DaemonStep, WatchdogStep

(* One thread is visited: whoever the dolist still had to visit is the     *)
(* thread itself, is still to be visited, or is skipped.                   *)
LEMMA Visited ==
  ASSUME walk \in Walks, NEW x, NEW n \in 1 .. Len(walk.todo), NEW phase,
         NextThread(x, n, phase), NEW refusals \in SUBSET Obj, Proceed(n, refusals)
  PROVE  \A t \in Todo : t = walk.todo[n] \/ t \in Skipped(phase) \/ t \in Todo'
<1> SUFFICES ASSUME NEW t \in Todo
             PROVE  t = walk.todo[n] \/ t \in Skipped(phase) \/ t \in Todo'
  OBVIOUS
<1>1. PICK m \in 1 .. Len(walk.todo) : walk.todo[m] = t
  BY DEF Todo
<1>2. /\ Len(walk'.todo) = Len(walk.todo) - n
      /\ \A k \in 1 .. Len(walk'.todo) : walk'.todo[k] = walk.todo[n + k]
  BY ProceedTypes
<1>3. CASE m < n
  BY <1>1, <1>3 DEF NextThread
<1>4. CASE m > n
  <2>1. m - n \in 1 .. Len(walk'.todo) /\ walk'.todo[m - n] = t
    BY <1>1, <1>2, <1>4
  <2> QED  BY <2>1 DEF Todo
<1> QED
  BY <1>1, <1>3, <1>4

(* The visit of one thread: it leaves what is still to do, and what had to *)
(* be done to it is done.                                                  *)
LEMMA SeenVisit ==
  ASSUME Typed, GateInv, CodeInv, SeenInv, WatchInv, NEW x \in Obj,
         NEW n \in 1 .. Len(walk.todo),
         AskThread(x, n) \/ TerminateThread(x, n) \/ JoinThread(x, n) \/ KillThread(x, n)
  PROVE  SeenInv'
<1> USE Threads
<1>0. /\ at \in [Obj -> Places] /\ walk \in Walks
      /\ status \in [Obj -> {"initialized", "set", "active", "done"}]
      /\ asked \in [Obj -> BOOLEAN] /\ told \in [Obj -> BOOLEAN] /\ listed \in Seq(Obj)
  BY DEF Typed, TypeOK
<1>a. PICK v : v = walk.todo[n]
  OBVIOUS
<1>b. v \in Obj
  BY <1>0, <1>a DEF Walks
<1>c. PICK refusals \in {{}, {v}} : Proceed(n, refusals)
  BY <1>a DEF AskThread, TerminateThread, JoinThread, KillThread, Tell
<1>d. /\ walk'.by = walk.by /\ walk'.phase = walk.phase
      /\ walk'.first = walk.first /\ walk'.later = walk.later
      /\ walk'.refused = walk.refused \union refusals
  BY <1>0, <1>b, <1>c, ProceedTypes
<1>e. NextThread(x, n, walk.phase) /\ walk.phase \in {"ask", "terminate", "join", "kill"}
  BY DEF AskThread, TerminateThread, JoinThread, KillThread, NextThread
<1>f. \A t \in Todo : t = v \/ t \in Skipped(walk.phase) \/ t \in Todo'
  BY <1>0, <1>a, <1>b, <1>c, <1>e, Visited
<1>g. /\ walk.first \subseteq Obj /\ walk.later \subseteq Obj /\ Listed \subseteq Obj
  BY <1>0 DEF Walks, Listed
(* Nobody starts, and only threads that are not active leave the list.     *)
<1>1. \A t \in Obj : at[t] \notin Unstarted => at'[t] \notin Unstarted
  BY <1>0 DEF AskThread, TerminateThread, JoinThread, KillThread, Awoken, Unstarted
<1>2. /\ Listed' \subseteq Listed
      /\ \A t \in Obj : status'[t] = "active" => status[t] = "active"
      /\ status'[Initial] = "active" => Initial \in Listed'
  <2>1. CASE UNCHANGED <<listed, status>>
    <3>1. Listed' = Listed
      BY <2>1 DEF Listed
    <3> QED  BY <2>1, <3>1 DEF SeenInv
  <2>2. CASE status[v] # "active" /\ JoinNow(v)
    <3>0. TypeOK
      BY DEF Typed
    <3>1. /\ listed' \in {listed, Without(v)}
          /\ status' \in {status, [status EXCEPT ![v] = "initialized"]}
      BY <1>b, <2>2, <3>0, JoinNowIs
    <3>2. \A t \in Obj : status'[t] = "active" => status[t] = "active" /\ t # v
      BY <1>0, <1>b, <2>2, <3>1
    <3>3. /\ Listed' \subseteq Listed
          /\ Initial \in Listed /\ v # Initial => Initial \in Listed'
      <4>1. CASE listed' = listed
        BY <4>1 DEF Listed
      <4>2. CASE listed' = Without(v)
        BY <1>0, <4>2, ListedWithout
      <4> QED  BY <3>1, <4>1, <4>2
    <3> QED  BY <3>2, <3>3 DEF SeenInv
  <2> QED  BY <1>a, <2>1, <2>2 DEF AskThread, TerminateThread, JoinThread, KillThread
<1>3. /\ at'[Initial] = at[Initial]
      /\ \A t \in Obj : at[t] = "leaving" => at'[t] = "leaving"
  BY <1>0, <1>b DEF AskThread, TerminateThread, JoinThread, KillThread, Awoken
<1>4. \A t \in Obj : (asked[t] => asked'[t]) /\ (told[t] => told'[t])
  BY <1>0, <1>a, <1>b DEF AskThread, TerminateThread, JoinThread, KillThread, Tell
<1>5. \A t \in Obj : Handled(t) => Handled(t)'
  BY <1>3, <1>4, <1>d DEF Handled
(* The visit itself.                                                       *)
<1>6. walk.phase = "ask" /\ status[v] = "active" => asked'[v]
  BY <1>0, <1>a, <1>b, <1>e DEF AskThread, TerminateThread, JoinThread, KillThread, NextThread
<1>7. walk.phase \in {"terminate", "kill"} /\ status[v] = "active" => Handled(v)'
  <2> SUFFICES ASSUME walk.phase \in {"terminate", "kill"}, status[v] = "active"
               PROVE  Handled(v)'
    OBVIOUS
  <2>1. Tell(n)
    BY <1>a DEF AskThread, TerminateThread, JoinThread, KillThread, NextThread
  <2>2. CASE told' = [told EXCEPT ![v] = TRUE]
    BY <1>0, <1>b, <2>2 DEF Handled
  <2>3. CASE Proceed(n, {v})
    <3>1. walk'.refused = walk.refused \union {v}
      BY <1>0, <1>b, <2>3, ProceedTypes
    <3> QED  BY <3>1 DEF Handled
  <2> QED  BY <1>a, <2>1, <2>2, <2>3 DEF Tell
<1>8. \A t \in walk.first \ {walk.by} : status'[t] = "active" =>
        asked'[t] \/ (walk.phase = "ask" /\ t \in Todo')
  <2> SUFFICES ASSUME NEW t \in walk.first \ {walk.by}, status'[t] = "active", ~asked'[t]
               PROVE  walk.phase = "ask" /\ t \in Todo'
    OBVIOUS
  <2>1. t \in Obj /\ status[t] = "active" /\ ~asked[t]
    BY <1>2, <1>4, <1>g
  <2>2. walk.phase = "ask" /\ t \in Todo
    BY <2>1 DEF SeenInv
  <2>3. t \notin Skipped(walk.phase)
    BY <2>2 DEF Skipped
  <2> QED  BY <1>6, <1>f, <2>1, <2>2, <2>3
<1>9. \A t \in walk.later \ {walk.by} : status'[t] = "active" =>
        Handled(t)' \/ (walk.phase \in {"terminate", "kill"} /\ t \in Todo')
  <2> SUFFICES ASSUME NEW t \in walk.later \ {walk.by}, status'[t] = "active", ~Handled(t)'
               PROVE  walk.phase \in {"terminate", "kill"} /\ t \in Todo'
    OBVIOUS
  <2>1. t \in Obj /\ status[t] = "active" /\ ~Handled(t)
    BY <1>2, <1>5, <1>g
  <2>2. walk.phase \in {"terminate", "kill"} /\ t \in Todo
    BY <2>1 DEF SeenInv
  <2>3. t \notin Skipped(walk.phase)
    <3>1. t # Initial
      BY <2>1, <2>2 DEF SeenInv, Handled
    <3> QED  BY <2>1, <3>1 DEF Skipped, WatchInv
  <2> QED  BY <1>7, <1>f, <2>1, <2>2, <2>3
<1> QED
  <2>1. at'[Initial] \notin Unstarted
        /\ \A t \in Listed' \union walk.first \union walk.later : at'[t] \notin Unstarted
    BY <1>1, <1>2, <1>g DEF SeenInv
  <2>2. status'[Initial] = "active" =>
          /\ Initial \in Listed'
          /\ at'[Initial] \notin {"done", "watchdog", "joining", "finishing", "shutting"}
          /\ walk.phase \notin {"none", "start", "cut"} => Initial \in walk.first
    BY <1>2, <1>3 DEF SeenInv
  <2>3. /\ walk.phase \in {"none", "start"} => walk.first = {} /\ walk.later = {}
        /\ walk.phase = "ask" => walk.later = {}
    BY DEF SeenInv
  <2> QED  BY <1>8, <1>9, <1>d, <2>1, <2>2, <2>3 DEF SeenInv

(* A fresh copy: whoever is new among the threads to interrupt is on it,   *)
(* and nobody but the skipped was left over from the last one.             *)
LEMMA SeenCopy ==
  ASSUME Typed, SeenInv, WatchInv, NEW phase, NEW round \in Nat,
         walk' = Copy(phase, round), UNCHANGED <<at, status, listed, asked, told>>,
         \/ walk.phase = "start" /\ phase = "ask"
         \/ Follows(phase) /\ Todo \subseteq Skipped(walk.phase)
  PROVE  SeenInv'
<1> USE Threads
<1>0. phase \in Phases /\ phase \notin {"none", "start"}
  BY DEF Follows, Phases
<1>1. /\ walk'.by = walk.by /\ walk'.phase = phase /\ walk'.refused = walk.refused
      /\ walk'.todo = IF phase \in {"wait", "over"} THEN <<>> ELSE listed
      /\ walk'.first = IF phase = "ask" THEN Listed ELSE walk.first
      /\ walk'.later = IF phase \in {"terminate", "kill"}
                         THEN walk.later \union (Listed \ walk.first) ELSE walk.later
  BY <1>0, CopyTypes
<1>2. Listed' = Listed
  BY DEF Listed
<1>3. phase \in {"ask", "terminate", "join", "kill"} => Todo' = Listed
  BY <1>1 DEF Todo, Listed
<1>4. \A t : Handled(t)' <=> Handled(t)
  BY <1>1 DEF Handled
<1>5. walk.phase \in {"ask", "terminate", "kill"} =>
        \A t : t \in Todo => t = walk.by \/ (walk.phase = "kill" /\ t = walk.wd)
  BY DEF Skipped
<1>6. \A t \in walk'.first \ {walk.by} : status[t] = "active" =>
        asked[t] \/ (phase = "ask" /\ t \in Todo')
  <2>1. CASE phase = "ask"
    BY <1>1, <1>3, <2>1
  <2>2. CASE phase # "ask"
    BY <1>1, <1>5, <2>2 DEF SeenInv
  <2> QED  BY <2>1, <2>2
<1>7. ASSUME NEW t \in walk.later \ {walk.by}, status[t] = "active"
      PROVE  Handled(t)
  <2>1. CASE ~(walk.phase \in {"terminate", "kill"} /\ t \in Todo)
    BY <1>7, <2>1 DEF SeenInv
  <2>2. CASE walk.phase \in {"terminate", "kill"} /\ t \in Todo
    <3>1. walk.phase = "kill" /\ t = Initial
      BY <1>5, <1>7, <2>2 DEF WatchInv, Typed, Walks
    <3> QED  BY <1>7, <3>1 DEF SeenInv, Handled
  <2> QED  BY <2>1, <2>2
<1>8. \A t \in walk'.later \ {walk.by} : status[t] = "active" =>
        Handled(t) \/ (phase \in {"terminate", "kill"} /\ t \in Todo')
  BY <1>1, <1>3, <1>7
<1>9. \A t \in Listed \union walk'.first \union walk'.later : at[t] \notin Unstarted
  BY <1>1 DEF SeenInv
<1>10. status[Initial] = "active" => Initial \in Listed /\ Initial \in walk'.first
       /\ at[Initial] \notin {"done", "watchdog", "joining", "finishing", "shutting"}
  BY <1>1 DEF SeenInv, Follows
<1>11. phase = "ask" => walk'.later = {}
  BY <1>0, <1>1 DEF SeenInv, Follows
<1>12. at[Initial] \notin Unstarted
  BY DEF SeenInv
<1> QED
  BY <1>0, <1>1, <1>2, <1>4, <1>6, <1>8, <1>9, <1>10, <1>11, <1>12 DEF SeenInv

LEMMA SeenWalkStep ==
  ASSUME Typed, GateInv, CodeInv, SeenInv, WatchInv, NEW x \in Obj, WalkStep(x)
  PROVE  SeenInv'
<1> USE Threads DEF Move
<1>0. /\ at \in [Obj -> Places] /\ walk \in Walks
      /\ status \in [Obj -> {"initialized", "set", "active", "done"}]
      /\ asked \in [Obj -> BOOLEAN] /\ told \in [Obj -> BOOLEAN] /\ listed \in Seq(Obj)
  BY DEF Typed, TypeOK
<1>a. /\ Listed \subseteq Obj /\ at[Initial] \notin Unstarted
      /\ status[Initial] = "active" => Initial \in Listed /\ at[Initial] # "shutting"
  BY <1>0 DEF Listed, SeenInv
<1>b. listed' = listed => Listed' = Listed
  BY DEF Listed
<1>1. CASE WalkBegin(x)
  <2>1. walk' = Copy("ask", 0) /\ walk.phase = "start"
        /\ UNCHANGED <<at, status, listed, asked, told>>
    BY <1>1 DEF WalkBegin
  <2> QED  BY <2>1, SeenCopy
<1>2. ASSUME NEW n \in 1 .. Len(walk.todo),
             AskThread(x, n) \/ TerminateThread(x, n) \/ JoinThread(x, n) \/ KillThread(x, n)
      PROVE  SeenInv'
  BY <1>2, SeenVisit
<1>4. CASE EndOfRound(x)
  <2>1. PICK phase, round : walk' = Copy(phase, round) /\ round \in Nat /\ Follows(phase)
    BY <1>4, EndOfRoundIs
  <2>2. Todo \subseteq Skipped(walk.phase) /\ UNCHANGED <<at, status, listed, asked, told>>
    BY <1>4 DEF EndOfRound, Todo
  <2> QED  BY <2>1, <2>2, SeenCopy
<1>5. CASE ShutdownCleansUp(x)
  BY <1>0, <1>a, <1>b, <1>5, SeenKept DEF ShutdownCleansUp, Shutting, Unstarted
<1>6. CASE ShutdownReturns(x)
  BY <1>0, <1>a, <1>b, <1>6, SeenKept DEF ShutdownReturns, Shutting, Unstarted
<1> QED
  BY <1>1, <1>2, <1>4, <1>5, <1>6 DEF WalkStep

LEMMA SeenNext ==
  ShutdownInv /\ Typed /\ CodeInv /\ SeenInv /\ WatchInv /\ [Next]_vars => SeenInv'
<1>1. ASSUME GateInv, Typed, CodeInv, SeenInv, WatchInv, Next PROVE SeenInv'
  BY <1>1, SeenThreadStep, SeenWalkStep, SeenOtherStep DEF Next
<1>2. ASSUME SeenInv, UNCHANGED vars PROVE SeenInv'
  BY <1>2 DEF SeenInv, Listed, Todo, Handled, vars
<1> QED
  BY <1>1, <1>2 DEF ShutdownInv

(* The program registers nobody but its initial thread as the watchdog.    *)
OnlyInitialWatches == \A w \in Obj, c \in BOOLEAN : <<w, c>> \in Registrations => w = Initial

(* The watchdog stays the initial thread if no other one is registered.    *)
LEMMA WatchNext ==
  ASSUME OnlyInitialWatches
  PROVE  Typed /\ WatchInv /\ [Next]_vars => WatchInv'
<1> SUFFICES ASSUME Typed, WatchInv, [Next]_vars PROVE WatchInv'
  OBVIOUS
<1>0. walk \in Walks /\ watchdog \in Obj \union {NIL} /\ result \in [Obj -> Values]
  BY DEF Typed, TypeOK
<1>a. walk'.wd = walk.wd /\ watchdog' = watchdog => WatchInv'
  BY DEF WatchInv
<1>1. ASSUME NEW t \in Obj, NEW c \in Code, Quit(t, c) PROVE WatchInv'
  <2>1. CASE shutdown = NIL
    <3>1. walk' = Fresh(Shutter, watchdog, c) /\ watchdog' = watchdog
      BY <1>1, <2>1, NewWalk DEF Quit
    <3>2. c \in Values
      BY DEF Values
    <3>3. walk'.wd = watchdog
      BY <1>0, <3>1, <3>2, Threads, FreshTypes
    <3> QED  BY <3>1, <3>3 DEF WatchInv
  <2>2. CASE shutdown # NIL
    BY <1>1, <1>a, <2>2 DEF Quit
  <2> QED  BY <2>1, <2>2
<1>2. ASSUME NEW t \in Obj, NEW w \in Obj, NEW c \in BOOLEAN, RegisterWatchdog(t, w, c)
      PROVE  WatchInv'
  BY <1>2 DEF RegisterWatchdog, OnlyInitialWatches, WatchInv
<1>9. ASSUME NEW t \in Obj, CollectorFails(t) PROVE WatchInv'
  <2>1. walk'.wd = walk.wd /\ watchdog' = watchdog
    BY <1>9, CutIs DEF CollectorFails
  <2> QED  BY <1>a, <2>1
<1>3. ASSUME NEW t \in Obj, ThreadStep(t) PROVE WatchInv'
  BY <1>1, <1>2, <1>3, <1>9, <1>a DEF ThreadStep, EnableCreate, Register, FunctionReturns, Poll,
     Interrupted, EndThread, QuitEnable, QuitGivesUp, Enable, RequestShutdown
<1>4. ASSUME NEW x \in Obj, WalkStep(x) PROVE WatchInv'
  <2>1. CASE WalkBegin(x)
    <3>1. walk'.wd = walk.wd
      BY <2>1, CopyTypes DEF WalkBegin, Phases
    <3> QED  BY <1>a, <2>1, <3>1 DEF WalkBegin
  <2>2. ASSUME NEW n \in 1 .. Len(walk.todo),
               AskThread(x, n) \/ TerminateThread(x, n) \/ JoinThread(x, n) \/ KillThread(x, n)
        PROVE  WatchInv'
    <3>0. walk.todo[n] \in Obj
      BY <1>0 DEF Walks
    <3>1. Proceed(n, {}) \/ Proceed(n, {walk.todo[n]})
      BY <2>2 DEF AskThread, TerminateThread, JoinThread, KillThread, Tell
    <3>2. walk'.wd = walk.wd
      BY <1>0, <3>0, <3>1, ProceedTypes
    <3> QED  BY <1>a, <2>2, <3>2 DEF AskThread, TerminateThread, JoinThread, KillThread
  <2>3. CASE EndOfRound(x)
    <3>1. PICK phase, round : walk' = Copy(phase, round) /\ round \in Nat /\ Follows(phase)
      BY <2>3, EndOfRoundIs
    <3>2. phase \in Phases
      BY <3>1 DEF Follows
    <3>3. walk'.wd = walk.wd
      BY <3>1, <3>2, CopyTypes
    <3> QED  BY <1>a, <2>3, <3>3 DEF EndOfRound
  <2>4. CASE ShutdownCleansUp(x) \/ ShutdownReturns(x)
    BY <2>4 DEF ShutdownCleansUp, ShutdownReturns, WatchInv
  <2> QED  BY <1>4, <2>1, <2>2, <2>3, <2>4 DEF WalkStep
<1>5. ASSUME DaemonStep \/ Collect PROVE WatchInv'
  BY <1>5, <1>a DEF DaemonStep, DaemonWait, DaemonWakes, Finalize, Collect
<1>6. CASE WatchdogDecide
  <2>1. CASE shutdown = NIL
    <3>1. walk' = Fresh(Initial, watchdog, result[Initial]) /\ watchdog' = watchdog
      BY <1>6, <2>1, NewWalk DEF WatchdogDecide
    <3>2. walk'.wd = watchdog
      BY <1>0, <3>1, Threads, FreshTypes
    <3> QED  BY <3>1, <3>2 DEF WatchInv
  <2>2. CASE shutdown # NIL
    BY <1>6, <1>a, <2>2 DEF WatchdogDecide
  <2> QED  BY <2>1, <2>2
<1>7. CASE WatchdogStep
  BY <1>6, <1>7, <1>a DEF WatchdogStep, WatchdogBegin, WatchdogSkips, WatchdogJoin, WatchdogJoinsNothing,
     WatchdogReturns, LastPthreadEnds
<1>8. CASE UNCHANGED vars
  BY <1>8, <1>a DEF vars
<1> QED
  BY <1>3, <1>4, <1>5, <1>7, <1>8 DEF Next

(* The walk loses no request: at its end, whoever it found at first and is *)
(* still active is asked to stop, and whoever it found later has been      *)
(* interrupted or has refused.  A watchdog that is a thread of the program *)
(* could come onto the list late, and the rounds of killing skip it; so    *)
(* the theorem is about programs whose watchdog is the initial thread, as  *)
(* it is unless another one is registered.                                 *)
THEOREM NoRequestIsLost ==
  ASSUME OnlyInitialWatches
  PROVE  Spec => []SeenIsAsked
<1>1. Spec => [](ShutdownInv /\ Typed)
  BY InitInv, NextInv, TypedInit, TypedNext, PTL DEF Spec
<1>2. Spec => []CodeInv
  BY <1>1, CodeInit, CodeNext, PTL DEF Spec
<1>3. Init => WatchInv
  BY DEF Init, NoWalk, WatchInv
<1>4. Typed /\ WatchInv /\ [Next]_vars => WatchInv'
  BY WatchNext
<1>5. Spec => []WatchInv
  BY <1>1, <1>3, <1>4, PTL DEF Spec
<1>6. Spec => []SeenInv
  BY <1>1, <1>2, <1>5, SeenInit, SeenNext, PTL DEF Spec
<1>7. Typed /\ SeenInv => SeenIsAsked
  BY DEF SeenInv, SeenIsAsked, Handled
<1> QED
  BY <1>1, <1>6, <1>7, PTL
-----------------------------------------------------------------------------
(* The final clean-up.  It destroys the locks and semaphores of the        *)
(* runtime, so it must not run a second time.  Both the thread that shuts  *)
(* down and the watchdog may run it, each by a test of its own.            *)
CleansUpOnce == cleanups <= 1

(* Once it has run, the thread that shut the program down has ended; and   *)
(* the watchdog of main() has no duty left.                                *)
CleanInv ==
  /\ clean => watchdog # Initial
  /\ ~duty
  /\ cleanups \in {0, 1}
  /\ cleanups = 1 => shutdown # NIL /\ walk.by \in Obj /\ at[walk.by] = "ended"

LEMMA CleanKept ==
  ASSUME CleanInv, UNCHANGED <<watchdog, clean, duty, cleanups, shutdown>>,
         walk'.by = walk.by, \A t \in Obj : at[t] = "ended" => at'[t] = "ended"
  PROVE  CleanInv'
  BY DEF CleanInv

LEMMA CleanThreadStep ==
  ASSUME <<Initial, TRUE>> \notin Registrations,
         Typed, GateInv, CodeInv, CleanInv, NEW t \in Obj, ThreadStep(t)
  PROVE  CleanInv'
<1> USE Threads DEF Move, Leave
<1>0. at \in [Obj -> Places] /\ cleanups \in Nat
  BY DEF Typed, TypeOK
<1>1. CASE EnableCreate(t) \/ Register(t)
  BY <1>0, <1>1, CleanKept DEF EnableCreate, Register
<1>2. CASE FunctionReturns(t) \/ Poll(t) \/ Interrupted(t) \/ EndThread(t)
  BY <1>0, <1>2, CleanKept DEF FunctionReturns, Poll, Interrupted, EndThread
<1>3. ASSUME NEW c \in Code, Quit(t, c) PROVE CleanInv'
  <2>1. CASE shutdown = NIL
    <3>1. cleanups = 0
      BY <2>1 DEF CleanInv
    <3> QED  BY <1>3, <3>1 DEF Quit, CleanInv
  <2>2. CASE shutdown # NIL
    BY <1>0, <1>3, <2>2, CleanKept DEF Quit
  <2> QED  BY <2>1, <2>2
<1>4. CASE QuitEnable(t) \/ QuitGivesUp(t)
  <2>1. at[t] = "quitting" /\ at[Shutter] = "preset"
    BY <1>4 DEF QuitEnable, QuitGivesUp, CodeInv
  <2> QED  BY <1>0, <1>4, <2>1, CleanKept DEF QuitEnable, QuitGivesUp
<1>5. ASSUME NEW o \in Obj, Enable(t, o) \/ RequestShutdown(t, o) PROVE CleanInv'
  BY <1>0, <1>5, CleanKept DEF Enable, RequestShutdown
<1>6. ASSUME NEW w \in Obj, NEW c \in BOOLEAN, RegisterWatchdog(t, w, c)
      PROVE  CleanInv'
  BY <1>6 DEF RegisterWatchdog, CleanInv
<1>7. CASE CollectorFails(t)
  <2>1. walk' = walk \/ (walk'.by = t /\ walk.by = t)
    BY <1>7, CutIs DEF CollectorFails, Shutting
  <2>2. walk'.by = walk.by
    BY <2>1
  <2> QED  BY <1>0, <1>7, <2>2, CleanKept DEF CollectorFails, Shutting
<1> QED
  BY <1>1, <1>2, <1>3, <1>4, <1>5, <1>6, <1>7 DEF ThreadStep

LEMMA CleanWalkStep ==
  ASSUME Typed, CleanInv, NEW x \in Obj, WalkStep(x)
  PROVE  CleanInv'
<1> USE Threads DEF Move
<1>0. at \in [Obj -> Places] /\ walk \in Walks
  BY DEF Typed, TypeOK
<1>1. CASE WalkBegin(x)
  <2>1. walk'.by = walk.by
    BY <1>1, CopyTypes DEF WalkBegin, Phases
  <2> QED  BY <1>1, <2>1, CleanKept DEF WalkBegin
<1>2. ASSUME NEW n \in 1 .. Len(walk.todo),
             AskThread(x, n) \/ TerminateThread(x, n) \/ JoinThread(x, n) \/ KillThread(x, n)
      PROVE  CleanInv'
  <2>0. walk.todo[n] \in Obj
    BY <1>0 DEF Walks
  <2>1. Proceed(n, {}) \/ Proceed(n, {walk.todo[n]})
    BY <1>2 DEF AskThread, TerminateThread, JoinThread, KillThread, Tell
  <2>2. walk'.by = walk.by
    BY <1>0, <2>0, <2>1, ProceedTypes
  <2> QED
    BY <1>0, <1>2, <2>2, CleanKept
       DEF AskThread, TerminateThread, JoinThread, KillThread, Awoken
<1>3. CASE EndOfRound(x)
  <2>1. PICK phase, round : walk' = Copy(phase, round) /\ round \in Nat /\ Follows(phase)
    BY <1>3, EndOfRoundIs
  <2>2. phase \in Phases
    BY <2>1 DEF Follows
  <2>3. walk'.by = walk.by
    BY <2>1, <2>2, CopyTypes
  <2> QED  BY <1>3, <2>3, CleanKept DEF EndOfRound
<1>4. CASE ShutdownCleansUp(x)
  <2>1. at[walk.by] = "shutting" /\ walk.by = x /\ shutdown # NIL
    BY <1>4 DEF ShutdownCleansUp, Shutting, Typed
  <2>2. cleanups = 0
    BY <2>1 DEF CleanInv
  <2>3. /\ cleanups' = 1 /\ at'[x] = "ended"
        /\ walk' = walk /\ shutdown' = shutdown /\ duty' = duty
    BY <1>0, <1>4, <2>2 DEF ShutdownCleansUp
  <2>4. clean' => watchdog' # Initial
    BY <1>4 DEF ShutdownCleansUp, CleanInv
  <2> QED  BY <2>1, <2>3, <2>4 DEF CleanInv
<1>5. CASE ShutdownReturns(x)
  BY <1>0, <1>5, CleanKept DEF ShutdownReturns, Shutting
<1> QED  BY <1>1, <1>2, <1>3, <1>4, <1>5 DEF WalkStep

LEMMA CleanOtherStep ==
  ASSUME Typed, CleanInv, DaemonStep \/ Collect \/ WatchdogStep
  PROVE  CleanInv'
<1> USE Threads DEF Move, Leave
<1>0. at \in [Obj -> Places]
  BY DEF Typed, TypeOK
<1>1. CASE DaemonWait \/ DaemonWakes \/ Finalize \/ Collect
  BY <1>0, <1>1, CleanKept DEF DaemonWait, DaemonWakes, Finalize, Collect, Awoken
<1>2. CASE WatchdogDecide
  <2>1. ~duty'
    BY <1>2 DEF WatchdogDecide, CleanInv
  <2>2. CASE shutdown = NIL
    <3>1. cleanups = 0
      BY <2>2 DEF CleanInv
    <3> QED  BY <1>2, <2>1, <3>1 DEF WatchdogDecide, CleanInv
  <2>3. CASE shutdown # NIL
    BY <1>0, <1>2, <2>1, <2>3 DEF WatchdogDecide, CleanInv
  <2> QED  BY <2>2, <2>3
<1>3. CASE WatchdogBegin \/ WatchdogSkips \/ WatchdogJoin \/ WatchdogJoinsNothing \/ LastPthreadEnds
  BY <1>0, <1>3, CleanKept DEF WatchdogBegin, WatchdogSkips, WatchdogJoin, WatchdogJoinsNothing,
     LastPthreadEnds
<1>4. CASE WatchdogReturns
  <2>1. cleanups' = cleanups
    BY <1>4 DEF WatchdogReturns, CleanInv
  <2> QED  BY <1>0, <1>4, <2>1, CleanKept DEF WatchdogReturns
<1> QED  BY <1>1, <1>2, <1>3, <1>4 DEF DaemonStep, WatchdogStep

(* The final clean-up runs at most once, whoever shuts the program down,   *)
(* unless the thread of main() itself is registered as the watchdog that   *)
(* is to clean up: then the thread that quit has made cleans up because    *)
(* the watchdog will, and the watchdog, which has joined it, does it again.*)
THEOREM CleanUpRunsOnce ==
  ASSUME <<Initial, TRUE>> \notin Registrations
  PROVE  Spec => []CleansUpOnce
<1>1. Spec => [](ShutdownInv /\ Typed)
  BY InitInv, NextInv, TypedInit, TypedNext, PTL DEF Spec
<1>2. Spec => []CodeInv
  BY <1>1, CodeInit, CodeNext, PTL DEF Spec
<1>3. Init => CleanInv
  BY DEF Init, CleanInv
<1>4. ShutdownInv /\ Typed /\ CodeInv /\ CleanInv /\ [Next]_vars => CleanInv'
  <2>1. ASSUME GateInv, Typed, CodeInv, CleanInv, Next PROVE CleanInv'
    BY <2>1, <<Initial, TRUE>> \notin Registrations, CleanThreadStep, CleanWalkStep,
       CleanOtherStep DEF Next
  <2>2. ASSUME CleanInv, UNCHANGED vars PROVE CleanInv'
    BY <2>2 DEF CleanInv, vars
  <2> QED  BY <2>1, <2>2 DEF ShutdownInv
<1>5. CleanInv => CleansUpOnce
  BY DEF CleanInv, CleansUpOnce
<1> QED  BY <1>1, <1>2, <1>3, <1>4, <1>5, PTL DEF Spec
-----------------------------------------------------------------------------
(* A program that registers no watchdog that cleans up.  The assignment    *)
(* that is to make the clean-up the default sets a local variable          *)
(* (threads.c:4341), so the field stays nil.                               *)
NobodyCleansUp ==
  ~clean /\ ~duty /\ watchdog \in Obj /\ cleanups = 0

LEMMA NobodyKept ==
  NobodyCleansUp /\ UNCHANGED <<clean, duty, watchdog, cleanups>> => NobodyCleansUp'
  BY DEF NobodyCleansUp

(* Without a registered watchdog that cleans up the final clean-up never   *)
(* runs, and the second way of losing the exit code does not exist: the    *)
(* code of the accepted quit, or of main(), is lost only to the collector  *)
(* or to a join of a thread that was not created.                          *)
THEOREM NoCleanUpNoLoss ==
  ASSUME \A w \in Obj : <<w, TRUE>> \notin Registrations
  PROVE  Spec => [](ExitCode /\ cleanups = 0)
<1>1. Init => NobodyCleansUp
  BY Threads DEF Init, NobodyCleansUp
<1>2. NobodyCleansUp /\ [Next]_vars => NobodyCleansUp'
  <2> SUFFICES ASSUME NobodyCleansUp, [Next]_vars PROVE NobodyCleansUp'
    OBVIOUS
  <2>1. ASSUME NEW t \in Obj, NEW w \in Obj, NEW c \in BOOLEAN, RegisterWatchdog(t, w, c)
        PROVE  NobodyCleansUp'
    BY <2>1, \A o \in Obj : <<o, TRUE>> \notin Registrations
       DEF RegisterWatchdog, NobodyCleansUp
  <2>2. ASSUME NEW t \in Obj, ThreadStep(t) PROVE NobodyCleansUp'
    BY <2>1, <2>2, NobodyKept DEF ThreadStep, EnableCreate, Register, FunctionReturns, Poll,
       Interrupted, EndThread, CollectorFails, Quit, QuitEnable, QuitGivesUp, Enable,
       RequestShutdown
  <2>3. ASSUME NEW x \in Obj, WalkStep(x) PROVE NobodyCleansUp'
    <3>1. ~ShutdownCleansUp(x)
      BY Threads DEF ShutdownCleansUp, NobodyCleansUp
    <3> QED  BY <2>3, <3>1, NobodyKept DEF WalkStep, WalkBegin, AskThread, TerminateThread,
                JoinThread, KillThread, EndOfRound, ShutdownReturns
  <2>4. ASSUME DaemonStep \/ Collect PROVE NobodyCleansUp'
    BY <2>4, NobodyKept DEF DaemonStep, DaemonWait, DaemonWakes, Finalize, Collect
  <2>5. ASSUME WatchdogStep PROVE NobodyCleansUp'
    <3>1. CASE WatchdogDecide
      BY <3>1 DEF WatchdogDecide, NobodyCleansUp
    <3>2. CASE WatchdogReturns
      BY <3>2 DEF WatchdogReturns, NobodyCleansUp
    <3> QED  BY <2>5, <3>1, <3>2, NobodyKept DEF WatchdogStep, WatchdogBegin,
                WatchdogSkips, WatchdogJoin, WatchdogJoinsNothing, LastPthreadEnds
  <2>6. CASE UNCHANGED vars
    BY <2>6, NobodyKept DEF vars
  <2> QED  BY <2>2, <2>3, <2>4, <2>5, <2>6 DEF Next
<1>3. Spec => []NobodyCleansUp
  BY <1>1, <1>2, PTL DEF Spec
<1>4. NobodyCleansUp => cleanups = 0
  BY DEF NobodyCleansUp
<1> QED
  BY <1>3, <1>4, ExitCodeIsKept, PTL
-----------------------------------------------------------------------------
(* Whatever is in the queue has the daemon on its way to it, unless the    *)
(* request came in the one window where it is missed, or the daemon stops. *)
QueueHasDaemon ==
  garbage = "requested" =>
    at[Daemon] \in {"awake", "finalizing", "leaving", "done", "ended"}

(* Where the daemon can be.                                                *)
DaemonInv ==
  /\ at[Daemon] \in {"running", "waiting", "awake", "finalizing", "leaving", "ended"}
  /\ QueueHasDaemon

(* The safety half of QueueIsServed: a request of the collector that finds *)
(* the daemon anywhere but between its finalizers and its wait is never    *)
(* forgotten, also not by a walk that wakes it up or by interrupts.        *)
THEOREM RequestsReachTheDaemon == Spec => []QueueHasDaemon
<1>1. Spec => [](ShutdownInv /\ Typed)
  BY InitInv, NextInv, TypedInit, TypedNext, PTL DEF Spec
<1>2. Init => DaemonInv
  BY Threads DEF Init, DaemonInv, QueueHasDaemon
<1>3. Typed /\ DaemonInv /\ [Next]_vars => DaemonInv'
  <2> SUFFICES ASSUME Typed, DaemonInv, [Next]_vars PROVE DaemonInv'
    OBVIOUS
  <2> USE Threads DEF Move, Leave, DaemonInv, QueueHasDaemon
  <2>0. at \in [Obj -> Places]
    BY DEF Typed, TypeOK
  <2>1. ASSUME NEW t \in Obj, ThreadStep(t) PROVE DaemonInv'
    <3>1. garbage' = garbage
      BY <2>1 DEF ThreadStep, EnableCreate, Register, FunctionReturns, Poll, Interrupted,
         EndThread, CollectorFails, Quit, QuitEnable, QuitGivesUp, Enable, RequestShutdown,
         RegisterWatchdog
    <3>2. at'[Daemon] = at[Daemon] \/ at'[Daemon] \in {"leaving", "ended"}
      <4>1. CASE EnableCreate(t) \/ Register(t) \/ FunctionReturns(t) \/ Poll(t)
        BY <2>0, <4>1 DEF EnableCreate, Register, FunctionReturns, Poll
      <4>2. CASE Interrupted(t) \/ EndThread(t) \/ CollectorFails(t)
        BY <2>0, <4>2 DEF Interrupted, EndThread, CollectorFails, Shutting
      <4>3. ASSUME NEW c \in Code, Quit(t, c)
            PROVE  at'[Daemon] = at[Daemon]
        BY <2>0, <4>3 DEF Quit
      <4>4. CASE QuitEnable(t) \/ QuitGivesUp(t)
        BY <2>0, <4>4 DEF QuitEnable, QuitGivesUp
      <4>5. ASSUME NEW o \in Obj, Enable(t, o) \/ RequestShutdown(t, o)
            PROVE  at'[Daemon] = at[Daemon]
        BY <2>0, <4>5 DEF Enable, RequestShutdown
      <4>6. ASSUME NEW w \in Obj, NEW c \in BOOLEAN, RegisterWatchdog(t, w, c)
            PROVE  at' = at
        BY <4>6 DEF RegisterWatchdog
      <4> QED  BY <2>1, <4>1, <4>2, <4>3, <4>4, <4>5, <4>6 DEF ThreadStep
    <3> QED  BY <3>1, <3>2
  <2>2. ASSUME NEW x \in Obj, WalkStep(x) PROVE DaemonInv'
    <3>1. CASE ShutdownCleansUp(x) \/ ShutdownReturns(x)
      BY <2>0, <3>1 DEF ShutdownCleansUp, ShutdownReturns, Shutting
    <3> QED  BY <2>0, <2>2, <3>1 DEF WalkStep, WalkBegin, AskThread, TerminateThread,
                JoinThread, KillThread, EndOfRound, Awoken
  <2>3. ASSUME DaemonStep PROVE DaemonInv'
    BY <2>0, <2>3 DEF DaemonStep, DaemonWait, DaemonWakes, Finalize
  <2>4. ASSUME Collect PROVE DaemonInv'
    BY <2>0, <2>4 DEF Collect, Awoken
  <2>5. ASSUME WatchdogStep PROVE DaemonInv'
    BY <2>0, <2>5 DEF WatchdogStep, WatchdogBegin, WatchdogSkips, WatchdogDecide,
       WatchdogJoin, WatchdogJoinsNothing, WatchdogReturns, LastPthreadEnds
  <2>6. CASE UNCHANGED vars
    BY <2>6 DEF vars
  <2> QED  BY <2>1, <2>2, <2>3, <2>4, <2>5, <2>6 DEF Next
<1>4. DaemonInv => QueueHasDaemon
  BY DEF DaemonInv
<1> QED
  BY <1>1, <1>2, <1>3, <1>4, PTL DEF Spec
=============================================================================
