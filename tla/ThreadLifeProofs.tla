-------------------------- MODULE ThreadLifeProofs --------------------------
(***************************************************************************)
(* Proofs about ThreadLife, for any number of thread objects, callers,     *)
(* functions and pthreads.                                                 *)
(***************************************************************************)
EXTENDS ThreadLife, TLAPS

(* The objects that mkcl_make_thread makes satisfy the invariant.          *)
LEMMA LifeInit == Init => LifeInv
<1> SUFFICES ASSUME Init PROVE LifeInv
  OBVIOUS
<1>1. TypeOK
  BY LifeAssumption DEF Init, TypeOK, Ops, Places, NoOp, NoPthread
<1>2. OneCurrent /\ StatusFollows /\ IdentIsCurrent
  BY DEF Init, NoPthread, OneCurrent, StatusFollows, IdentIsCurrent, Current
<1>3. CallersAreRight /\ FunctionIsSet
  BY DEF Init, NoPthread, NoOp, CallersAreRight, PresetOps, JoinOps,
         FunctionIsSet, Current
<1>4. DetachedDoneUnlisted /\ RunningIsListed
  BY DEF Init, NoPthread, DetachedDoneUnlisted, RunningIsListed
<1> QED  BY <1>1, <1>2, <1>3, <1>4 DEF LifeInv

(* Every operation and every step of a pthread keeps the invariant, when   *)
(* no object is enabled again before its last pthread has registered.  The *)
(* first step of an action has the parts of the invariant that its own     *)
(* guard keeps, the others the parts that depend on what a caller or a     *)
(* pthread established earlier.                                            *)
LEMMA LifeStep ==
  ASSUME Careful, LifeInv, [Next]_vars
  PROVE  LifeInv'
<1>0. /\ TypeOK /\ OneCurrent /\ StatusFollows
      /\ IdentIsCurrent /\ CallersAreRight /\ FunctionIsSet
      /\ DetachedDoneUnlisted /\ RunningIsListed
  BY DEF LifeInv
<1> USE LifeAssumption
<1>1. ASSUME NEW c \in Caller, NEW o \in Obj, NEW f \in Fun, Preset(c, o, f)
       PROVE  LifeInv'
  <2>1. TypeOK'
    BY <1>0, <1>1 DEF Preset, TypeOK, Ops, Places, Value, Begin, Busy
  <2>2. /\ OneCurrent' /\ StatusFollows'
        /\ IdentIsCurrent' /\ CallersAreRight' /\ FunctionIsSet'
        /\ DetachedDoneUnlisted' /\ RunningIsListed'
    BY <1>0, <1>1 DEF Preset, Begin, Busy, Enabling, OneCurrent, Current, StatusFollows,
       StatusAt, IdentIsCurrent, CallersAreRight, PresetOps,
       JoinOps, FunctionIsSet, DetachedDoneUnlisted, RunningIsListed, TypeOK
  <2> QED  BY <2>1, <2>2 DEF LifeInv
<1>2. ASSUME NEW c \in Caller, PresetAssign(c) PROVE LifeInv'
  <2>0. op[c].on \in Obj /\ op[c].with \in Fun
    BY <1>0, <1>2 DEF PresetAssign, CallersAreRight
  <2>1. TypeOK'
    BY <1>0, <1>2, <2>0 DEF PresetAssign, TypeOK, Ops, Return, NoOp
  <2>2. OneCurrent' /\ CallersAreRight'
    BY <1>0, <1>2 DEF PresetAssign, Return, NoOp, OneCurrent, Current,
       CallersAreRight, PresetOps, JoinOps, TypeOK
  <2>4. IdentIsCurrent' /\ DetachedDoneUnlisted'
    <3>1. \A d \in Caller : op[d].at \in {"joined", "detached"} => op'[d] = op[d]
      BY <1>0, <1>2 DEF PresetAssign, Return, TypeOK
    <3>2. IdentIsCurrent'
      BY <1>0, <1>2, <3>1 DEF PresetAssign, IdentIsCurrent, Busy, TypeOK
    <3>3. DetachedDoneUnlisted'
      BY <1>0, <1>2, <3>1 DEF PresetAssign, DetachedDoneUnlisted, Busy
    <3> QED  BY <3>2, <3>3
  <2>3. StatusFollows'
    BY <1>0, <1>2 DEF PresetAssign, StatusFollows, Current, StatusAt, Return,
       NoOp, TypeOK, CallersAreRight, PresetOps
  <2>5. FunctionIsSet'
    BY <1>0, <1>2 DEF PresetAssign, FunctionIsSet, Current, Return, NoOp,
       TypeOK, CallersAreRight
  <2>6. RunningIsListed'
    BY <1>0, <1>2 DEF PresetAssign, RunningIsListed, Return, NoOp, TypeOK,
       CallersAreRight, PresetOps, Current
  <2> QED  BY <2>1, <2>2, <2>3, <2>4, <2>5, <2>6 DEF LifeInv
<1>3. ASSUME NEW c \in Caller, NEW o \in Obj, Enable(c, o) PROVE LifeInv'
  <2>1. TypeOK'
    BY <1>0, <1>3 DEF Enable, TypeOK, Ops, Places, Value, Begin, Busy
  <2>2. OneCurrent' /\ StatusFollows' /\ FunctionIsSet'
    BY <1>0, <1>3 DEF Enable, Begin, Busy, OneCurrent, Current, StatusFollows,
       StatusAt, FunctionIsSet, TypeOK
  <2>3. IdentIsCurrent' /\ DetachedDoneUnlisted' /\ RunningIsListed'
    BY <1>0, <1>3 DEF Enable, Begin, Busy, IdentIsCurrent, Current,
       DetachedDoneUnlisted, RunningIsListed, TypeOK
  <2>4. CallersAreRight'
    BY <1>0, <1>3 DEF Enable, CallersAreRight, Current, PresetOps, JoinOps,
       Begin, Busy, Enabling, TypeOK, StatusFollows, StatusAt, FunctionIsSet
  <2> QED  BY <2>1, <2>2, <2>3, <2>4 DEF LifeInv
<1>4. ASSUME NEW c \in Caller, NEW k \in Pid, EnableCreate(c, k) PROVE LifeInv'
  <2>0. k \in 0 .. MaxPthread
    BY DEF Pid
  <2>1. ident' \in [Obj -> 0 .. MaxPthread]
    BY <1>0, <1>4, <2>0 DEF EnableCreate, TypeOK
  <2>2. pt' \in [Pid -> [of : Obj \union {NIL}, at : Places]]
    BY <1>0, <1>4 DEF EnableCreate, TypeOK, Places, CallersAreRight
  <2>3. op' \in [Caller -> [at : Ops, on : Obj \union {NIL},
                            with : Fun \union Pid \union {NIL}]]
    BY <1>0, <1>4 DEF EnableCreate, Goto, TypeOK, Ops
  <2>4. TypeOK'
    BY <1>0, <1>4, <2>1, <2>2, <2>3 DEF EnableCreate, TypeOK
  <2>5. DetachedDoneUnlisted' /\ RunningIsListed'
    BY <1>0, <1>4 DEF EnableCreate, Goto, NextPid, Current,
       DetachedDoneUnlisted, Busy, RunningIsListed, TypeOK
  <2>6. OneCurrent'
    BY <1>0, <1>4 DEF EnableCreate, OneCurrent, Current, Goto, NextPid, TypeOK,
       CallersAreRight, PresetOps
  <2>7. StatusFollows'
    BY <1>0, <1>4 DEF EnableCreate, StatusFollows, Current, StatusAt, Goto,
       NextPid, TypeOK, CallersAreRight, PresetOps
  <2>8. IdentIsCurrent'
    BY <1>0, <1>4 DEF EnableCreate, IdentIsCurrent, Current, Busy, Goto,
       NextPid, TypeOK, CallersAreRight, Last
  <2>9. CallersAreRight'
    BY <1>0, <1>4 DEF EnableCreate, CallersAreRight, Current, PresetOps,
       JoinOps, Goto, NextPid, TypeOK, Last, StatusFollows
  <2>10. FunctionIsSet'
    BY <1>0, <1>4 DEF EnableCreate, FunctionIsSet, Current, Goto, NextPid,
       TypeOK, CallersAreRight
  <2> QED  BY <2>4, <2>5, <2>6, <2>7, <2>8, <2>9, <2>10 DEF LifeInv
<1>5. ASSUME NEW c \in Caller, EnableFail(c) PROVE LifeInv'
  <2>0. op[c].on \in Obj
    BY <1>0, <1>5 DEF EnableFail, CallersAreRight
  <2>1. TypeOK'
    BY <1>0, <1>5, <2>0 DEF EnableFail, TypeOK, Ops, Return, NoOp
  <2>2. OneCurrent' /\ StatusFollows' /\ FunctionIsSet'
    BY <1>0, <1>5 DEF EnableFail, Return, NoOp, OneCurrent, Current, StatusFollows,
       StatusAt, FunctionIsSet, TypeOK
  <2>3. IdentIsCurrent' /\ DetachedDoneUnlisted' /\ RunningIsListed'
    <3>1. \A d \in Caller : op[d].at \in {"joined", "detached"} => op'[d] = op[d]
      BY <1>0, <1>5 DEF EnableFail, Return, TypeOK
    <3>2. IdentIsCurrent'
      BY <1>0, <1>5, <3>1 DEF EnableFail, IdentIsCurrent, Busy, TypeOK
    <3>3. DetachedDoneUnlisted'
      BY <1>0, <1>5, <3>1 DEF EnableFail, DetachedDoneUnlisted, Busy
    <3>4. RunningIsListed'
      BY <1>0, <1>5 DEF EnableFail, RunningIsListed
    <3> QED  BY <3>2, <3>3, <3>4
  <2>4. CallersAreRight'
    BY <1>0, <1>5 DEF EnableFail, Return, NoOp, CallersAreRight, Current,
       PresetOps, JoinOps, TypeOK
  <2> QED  BY <2>1, <2>2, <2>3, <2>4 DEF LifeInv
<1>6. ASSUME NEW c \in Caller, EnableUnlock(c) PROVE LifeInv'
  <2>1. TypeOK'
    BY <1>0, <1>6 DEF EnableUnlock, TypeOK, Ops, Places, Value, Return, NoOp
  <2>2. OneCurrent' /\ StatusFollows' /\ FunctionIsSet'
    BY <1>0, <1>6 DEF EnableUnlock, Return, NoOp, OneCurrent, Current, StatusFollows,
       StatusAt, FunctionIsSet, TypeOK
  <2>3. IdentIsCurrent' /\ DetachedDoneUnlisted' /\ RunningIsListed'
    <3>1. \A d \in Caller : op[d].at \in {"joined", "detached"} => op'[d] = op[d]
      BY <1>0, <1>6 DEF EnableUnlock, Return, TypeOK
    <3>2. IdentIsCurrent'
      BY <1>0, <1>6, <3>1 DEF EnableUnlock, IdentIsCurrent, Busy
    <3>3. DetachedDoneUnlisted'
      BY <1>0, <1>6, <3>1 DEF EnableUnlock, DetachedDoneUnlisted, Busy
    <3>4. RunningIsListed'
      BY <1>0, <1>6 DEF EnableUnlock, RunningIsListed
    <3> QED  BY <3>2, <3>3, <3>4
  <2>4. CallersAreRight'
    BY <1>0, <1>6 DEF EnableUnlock, Return, NoOp, CallersAreRight, Current,
       PresetOps, JoinOps, TypeOK
  <2> QED  BY <2>1, <2>2, <2>3, <2>4 DEF LifeInv
<1>7. ASSUME NEW c \in Caller, NEW o \in Obj, Detach(c, o) PROVE LifeInv'
  <2>1. TypeOK'
    BY <1>0, <1>7 DEF Detach, TypeOK, Ops, Places, Value, Begin
  <2>2. OneCurrent' /\ StatusFollows' /\ FunctionIsSet'
    BY <1>0, <1>7 DEF Detach, Begin, OneCurrent, Current, StatusFollows,
       StatusAt, FunctionIsSet, TypeOK
  <2>3. /\ IdentIsCurrent' /\ CallersAreRight'
        /\ DetachedDoneUnlisted' /\ RunningIsListed'
    BY <1>0, <1>7 DEF Detach, Begin, IdentIsCurrent, Current, Busy,
       CallersAreRight, PresetOps, JoinOps, DetachedDoneUnlisted,
       RunningIsListed, TypeOK
  <2> QED  BY <2>1, <2>2, <2>3 DEF LifeInv
<1>8. ASSUME NEW c \in Caller, DetachSet(c) PROVE LifeInv'
  <2>0. op[c].on \in Obj
    BY <1>0, <1>8 DEF DetachSet, CallersAreRight
  <2>1. TypeOK'
    BY <1>0, <1>8, <2>0 DEF DetachSet, TypeOK, Ops, Goto
  <2>2. /\ OneCurrent' /\ StatusFollows'
        /\ IdentIsCurrent' /\ CallersAreRight' /\ FunctionIsSet'
        /\ DetachedDoneUnlisted' /\ RunningIsListed'
    BY <1>0, <1>8 DEF DetachSet, Goto, OneCurrent, Current, StatusFollows,
       StatusAt, IdentIsCurrent, Busy, CallersAreRight, PresetOps,
       JoinOps, FunctionIsSet, DetachedDoneUnlisted, RunningIsListed, TypeOK
  <2> QED  BY <2>1, <2>2 DEF LifeInv
<1>9. ASSUME NEW c \in Caller, DetachRemove(c) PROVE LifeInv'
  <2>1. TypeOK'
    BY <1>0, <1>9 DEF DetachRemove, TypeOK, Ops, Places, Value, Return, NoOp
  <2>2. /\ OneCurrent' /\ StatusFollows'
        /\ IdentIsCurrent' /\ CallersAreRight' /\ FunctionIsSet'
        /\ RunningIsListed'
    BY <1>0, <1>9 DEF DetachRemove, Return, NoOp, OneCurrent, Current,
       StatusFollows, StatusAt, IdentIsCurrent, Busy,
       CallersAreRight, PresetOps, JoinOps, FunctionIsSet, RunningIsListed,
       TypeOK
  <2>3. DetachedDoneUnlisted'
    BY <1>0, <1>9 DEF DetachRemove, DetachedDoneUnlisted, Busy, Return, NoOp,
       TypeOK, StatusFollows, StatusAt, Current
  <2> QED  BY <2>1, <2>2, <2>3 DEF LifeInv
<1>10. ASSUME NEW c \in Caller, NEW o \in Obj, Join(c, o) PROVE LifeInv'
  <2>1. TypeOK'
    BY <1>0, <1>10 DEF Join, TypeOK, Ops, Places, Value, Begin, Busy, Pid
  <2>2. /\ OneCurrent' /\ StatusFollows'
        /\ IdentIsCurrent' /\ FunctionIsSet' /\ DetachedDoneUnlisted'
        /\ RunningIsListed'
    BY <1>0, <1>10 DEF Join, Begin, Busy, OneCurrent, Current, StatusFollows,
       StatusAt, IdentIsCurrent, FunctionIsSet,
       DetachedDoneUnlisted, RunningIsListed, TypeOK
  <2>3. CallersAreRight'
    BY <1>0, <1>10 DEF Join, CallersAreRight, Current, PresetOps, JoinOps,
       Begin, Busy, TypeOK, IdentIsCurrent, Pid
  <2> QED  BY <2>1, <2>2, <2>3 DEF LifeInv
<1>11. ASSUME NEW c \in Caller, NEW o \in Obj, JoinDetached(c, o)
       PROVE  LifeInv'
  <2>1. TypeOK'
    BY <1>0, <1>11 DEF JoinDetached, TypeOK, Ops, Places, Value
  <2>2. /\ OneCurrent' /\ StatusFollows'
        /\ IdentIsCurrent' /\ CallersAreRight' /\ FunctionIsSet'
        /\ DetachedDoneUnlisted' /\ RunningIsListed'
    BY <1>0, <1>11 DEF JoinDetached, OneCurrent, Current, StatusFollows,
       StatusAt, IdentIsCurrent, Busy, CallersAreRight, PresetOps,
       JoinOps, FunctionIsSet, DetachedDoneUnlisted, RunningIsListed, TypeOK
  <2> QED  BY <2>1, <2>2 DEF LifeInv
<1>12. ASSUME NEW c \in Caller, JoinReap(c) PROVE LifeInv'
  <2>1. TypeOK'
    BY <1>0, <1>12 DEF JoinReap, TypeOK, Ops, Places, Value, Goto, Move,
       CallersAreRight, JoinOps
  <2>2. /\ OneCurrent' /\ StatusFollows'
        /\ FunctionIsSet' /\ DetachedDoneUnlisted' /\ RunningIsListed'
    BY <1>0, <1>12 DEF JoinReap, Goto, Move, OneCurrent, Current,
       StatusFollows, StatusAt, FunctionIsSet,
       DetachedDoneUnlisted, Busy, RunningIsListed, TypeOK
  <2>3. IdentIsCurrent'
    BY <1>0, <1>12 DEF JoinReap, IdentIsCurrent, Current, Busy, Goto, Move,
       TypeOK, CallersAreRight, JoinOps, OneCurrent
  <2>4. CallersAreRight'
    <3>1. PICK p \in Pid : /\ p = op[c].with /\ pt[p].of = op[c].on
                           /\ pt[p].at = "zombie" /\ op[c].at = "join" /\ op[c].on \in Obj
      BY <1>0, <1>12 DEF JoinReap, CallersAreRight, JoinOps
    <3>2. /\ \A d \in Caller : /\ op'[d].on = op[d].on /\ op'[d].with = op[d].with
                               /\ d # c => op'[d].at = op[d].at
          /\ op'[c].at = "joined"
      BY <1>0, <1>12 DEF JoinReap, Goto, TypeOK
    <3>3. /\ \A k \in Pid : /\ pt'[k].of = pt[k].of
                            /\ k # p => pt'[k].at = pt[k].at
          /\ pt'[p].at = "joined"
      BY <1>0, <1>12, <3>1 DEF JoinReap, Move, TypeOK
    <3>4. status[op[c].on] = "done" /\ UNCHANGED <<status, function>>
      BY <1>0, <1>12, <3>1 DEF JoinReap, StatusFollows, StatusAt, Current
    <3>5. \A k \in Pid : k # p /\ pt[k].at \notin {"none", "joined"} => pt[k].of # op[c].on
      BY <1>0, <3>1 DEF OneCurrent, Current
    <3>6. \A d \in Caller : d # c /\ op[d].at \in JoinOps => op[d].on # op[c].on /\ op[d].with # p
      BY <1>0, <3>1 DEF CallersAreRight, JoinOps
    <3> QED  BY <1>0, <3>1, <3>2, <3>3, <3>4, <3>5, <3>6
             DEF CallersAreRight, Current, PresetOps, JoinOps
  <2> QED  BY <2>1, <2>2, <2>3, <2>4 DEF LifeInv
<1>13. ASSUME NEW c \in Caller, JoinReturn(c) PROVE LifeInv'
  <2>0. op[c].on \in Obj
    BY <1>0, <1>13 DEF JoinReturn, CallersAreRight
  <2>1. TypeOK'
    BY <1>0, <1>13, <2>0 DEF JoinReturn, TypeOK, Ops, Return, NoOp
  <2>2. /\ OneCurrent' /\ IdentIsCurrent' /\ CallersAreRight'
        /\ FunctionIsSet' /\ DetachedDoneUnlisted'
    BY <1>0, <1>13 DEF JoinReturn, Return, NoOp, OneCurrent, Current,
       IdentIsCurrent, Busy, CallersAreRight, PresetOps, JoinOps,
       FunctionIsSet, DetachedDoneUnlisted, TypeOK
  <2>3. StatusFollows'
    BY <1>0, <1>13 DEF JoinReturn, StatusFollows, Current, StatusAt, Return,
       NoOp, TypeOK, CallersAreRight
  <2>5. RunningIsListed'
    BY <1>0, <1>13 DEF JoinReturn, RunningIsListed, Return, NoOp, TypeOK,
       CallersAreRight, Current
  <2> QED  BY <2>1, <2>2, <2>3, <2>5 DEF LifeInv
<1>14. ASSUME NEW c \in Caller, NEW o \in Obj, RequestShutdown(c, o)
       PROVE  LifeInv'
  <2>1. TypeOK'
    BY <1>0, <1>14 DEF RequestShutdown, TypeOK, Ops, Places, Value
  <2>2. /\ OneCurrent' /\ StatusFollows'
        /\ IdentIsCurrent' /\ CallersAreRight' /\ FunctionIsSet'
        /\ DetachedDoneUnlisted' /\ RunningIsListed'
    BY <1>0, <1>14 DEF RequestShutdown, OneCurrent, Current, StatusFollows,
       StatusAt, IdentIsCurrent, Busy, CallersAreRight, PresetOps,
       JoinOps, FunctionIsSet, DetachedDoneUnlisted, RunningIsListed, TypeOK
  <2> QED  BY <2>1, <2>2 DEF LifeInv
<1>15. ASSUME NEW k \in Pid, Start(k) PROVE LifeInv'
  <2>0. Current(k) /\ pt[k].of \in Obj
    BY <1>0, <1>15 DEF Start, Current, StatusFollows
  <2>1. TypeOK'
    BY <1>0, <1>15, <2>0 DEF Start, TypeOK, Ops, Places, Value, Move
  <2>2. /\ OneCurrent' /\ StatusFollows'
        /\ IdentIsCurrent' /\ CallersAreRight' /\ FunctionIsSet'
        /\ DetachedDoneUnlisted' /\ RunningIsListed'
    BY <1>0, <1>15, <2>0 DEF Start, Move, OneCurrent, Current, StatusFollows,
       StatusAt, IdentIsCurrent, Busy, CallersAreRight, PresetOps,
       JoinOps, FunctionIsSet, DetachedDoneUnlisted, RunningIsListed, TypeOK
  <2> QED  BY <2>1, <2>2 DEF LifeInv
<1>16. ASSUME NEW k \in Pid, RegisterActive(k) PROVE LifeInv'
  <2>0. Current(k) /\ pt[k].of \in Obj
    BY <1>0, <1>16 DEF RegisterActive, Current, StatusFollows
  <2>1. TypeOK'
    BY <1>0, <1>16, <2>0 DEF RegisterActive, TypeOK, Ops, Places, Value, Move
  <2>2. /\ OneCurrent' /\ IdentIsCurrent'
        /\ CallersAreRight' /\ FunctionIsSet' /\ DetachedDoneUnlisted'
        /\ RunningIsListed'
    BY <1>0, <1>16, <2>0 DEF RegisterActive, Move, OneCurrent, Current,
       IdentIsCurrent, Busy, CallersAreRight, PresetOps, JoinOps,
       FunctionIsSet, DetachedDoneUnlisted, RunningIsListed, TypeOK
  <2>3. StatusFollows'
    BY <1>0, <1>16, <2>0 DEF RegisterActive, StatusFollows, Current, StatusAt,
       Move, TypeOK, OneCurrent
  <2> QED  BY <2>1, <2>2, <2>3 DEF LifeInv
<1>17. ASSUME NEW k \in Pid, RegisterList(k) PROVE LifeInv'
  <2>0. Current(k) /\ pt[k].of \in Obj
    BY <1>0, <1>17 DEF RegisterList, Current, StatusFollows
  <2>1. TypeOK'
    BY <1>0, <1>17, <2>0 DEF RegisterList, TypeOK, Ops, Places, Value, Move
  <2>2. /\ OneCurrent' /\ StatusFollows'
        /\ IdentIsCurrent' /\ CallersAreRight' /\ FunctionIsSet'
    BY <1>0, <1>17, <2>0 DEF RegisterList, Move, OneCurrent, Current,
       StatusFollows, StatusAt, IdentIsCurrent, Busy,
       CallersAreRight, PresetOps, JoinOps, FunctionIsSet, TypeOK
  <2>3. DetachedDoneUnlisted'
    BY <1>0, <1>17, <2>0 DEF RegisterList, DetachedDoneUnlisted, Busy, Move,
       TypeOK, OneCurrent, Current
  <2>4. RunningIsListed'
    BY <1>0, <1>17, <2>0 DEF RegisterList, RunningIsListed, Move, TypeOK,
       StatusFollows, StatusAt, Current
  <2> QED  BY <2>1, <2>2, <2>3, <2>4 DEF LifeInv
<1>18. ASSUME NEW k \in Pid, FunctionReturns(k) PROVE LifeInv'
  <2>0. Current(k) /\ pt[k].of \in Obj
    BY <1>0, <1>18 DEF FunctionReturns, Current, StatusFollows
  <2>1. TypeOK'
    BY <1>0, <1>18, <2>0 DEF FunctionReturns, TypeOK, Ops, Places, Value, Move,
       FunctionIsSet
  <2>2. /\ OneCurrent' /\ StatusFollows'
        /\ IdentIsCurrent' /\ CallersAreRight' /\ FunctionIsSet'
        /\ DetachedDoneUnlisted' /\ RunningIsListed'
    BY <1>0, <1>18, <2>0 DEF FunctionReturns, Move, OneCurrent, Current,
       StatusFollows, StatusAt, IdentIsCurrent, Busy,
       CallersAreRight, PresetOps, JoinOps, FunctionIsSet,
       DetachedDoneUnlisted, RunningIsListed, TypeOK
  <2> QED  BY <2>1, <2>2 DEF LifeInv
<1>19. ASSUME NEW k \in Pid, ExitThread(k, Exited) PROVE LifeInv'
  <2>0. Current(k) /\ pt[k].of \in Obj
    BY <1>0, <1>19 DEF ExitThread, Current, StatusFollows
  <2>1. TypeOK'
    BY <1>0, <1>19, <2>0 DEF ExitThread, TypeOK, Ops, Places, Value, Move
  <2>2. /\ OneCurrent' /\ StatusFollows'
        /\ IdentIsCurrent' /\ CallersAreRight' /\ FunctionIsSet'
        /\ DetachedDoneUnlisted' /\ RunningIsListed'
    BY <1>0, <1>19, <2>0 DEF ExitThread, Move, OneCurrent, Current,
       StatusFollows, StatusAt, IdentIsCurrent, Busy,
       CallersAreRight, PresetOps, JoinOps, FunctionIsSet,
       DetachedDoneUnlisted, RunningIsListed, TypeOK
  <2> QED  BY <2>1, <2>2 DEF LifeInv
<1>20. ASSUME NEW k \in Pid, TestForShutdown(k) PROVE LifeInv'
  <2>0. Current(k) /\ pt[k].of \in Obj
    BY <1>0, <1>20 DEF TestForShutdown, Current, StatusFollows, ExitThread
  <2>1. TypeOK'
    BY <1>0, <1>20, <2>0 DEF TestForShutdown, TypeOK, Ops, Places, Value, Move,
       ExitThread
  <2>2. /\ OneCurrent' /\ StatusFollows'
        /\ IdentIsCurrent' /\ CallersAreRight' /\ FunctionIsSet'
        /\ DetachedDoneUnlisted' /\ RunningIsListed'
    BY <1>0, <1>20, <2>0 DEF TestForShutdown, Move, ExitThread, OneCurrent,
       Current, StatusFollows, StatusAt, IdentIsCurrent, Busy,
       CallersAreRight, PresetOps, JoinOps, FunctionIsSet,
       DetachedDoneUnlisted, RunningIsListed, TypeOK
  <2> QED  BY <2>1, <2>2 DEF LifeInv
<1>21. ASSUME NEW k \in Pid, SetDone(k) PROVE LifeInv'
  <2>0. Current(k) /\ pt[k].of \in Obj
    BY <1>0, <1>21 DEF SetDone, Current, StatusFollows
  <2>1. TypeOK'
    BY <1>0, <1>21, <2>0 DEF SetDone, TypeOK, Ops, Places, Value, Move
  <2>2. /\ OneCurrent' /\ IdentIsCurrent'
        /\ CallersAreRight' /\ FunctionIsSet' /\ DetachedDoneUnlisted'
    BY <1>0, <1>21, <2>0 DEF SetDone, Move, OneCurrent, Current, IdentIsCurrent, Busy, CallersAreRight, PresetOps, JoinOps,
       FunctionIsSet, DetachedDoneUnlisted, TypeOK
  <2>3. StatusFollows'
    BY <1>0, <1>21, <2>0 DEF SetDone, StatusFollows, Current, StatusAt, Move,
       TypeOK, OneCurrent
  <2>4. RunningIsListed'
    BY <1>0, <1>21, <2>0 DEF SetDone, RunningIsListed, Move, TypeOK,
       OneCurrent, Current
  <2> QED  BY <2>1, <2>2, <2>3, <2>4 DEF LifeInv
<1>22. ASSUME NEW k \in Pid, FinalCleanup(k) PROVE LifeInv'
  <2>0. Current(k) /\ pt[k].of \in Obj
    BY <1>0, <1>22 DEF FinalCleanup, Current, StatusFollows
  <2>1. TypeOK'
    BY <1>0, <1>22, <2>0 DEF FinalCleanup, TypeOK, Ops, Places, Value, Move
  <2>2. /\ OneCurrent' /\ StatusFollows'
        /\ IdentIsCurrent' /\ CallersAreRight' /\ FunctionIsSet'
        /\ DetachedDoneUnlisted'
    BY <1>0, <1>22, <2>0 DEF FinalCleanup, Move, OneCurrent, Current,
       StatusFollows, StatusAt, IdentIsCurrent, Busy,
       CallersAreRight, PresetOps, JoinOps, FunctionIsSet,
       DetachedDoneUnlisted, TypeOK
  <2>3. RunningIsListed'
    BY <1>0, <1>22, <2>0 DEF FinalCleanup, RunningIsListed, Move, TypeOK,
       OneCurrent, Current
  <2> QED  BY <2>1, <2>2, <2>3 DEF LifeInv
<1>23. CASE UNCHANGED vars
  BY <1>0, <1>23 DEF vars, LifeInv, TypeOK, OneCurrent, StatusFollows,
     IdentIsCurrent, CallersAreRight, FunctionIsSet,
     DetachedDoneUnlisted, RunningIsListed, Current, Busy
<1> QED
  BY <1>1, <1>2, <1>3, <1>4, <1>5, <1>6, <1>7, <1>8, <1>9, <1>10, <1>11, <1>12,
     <1>13, <1>14, <1>15, <1>16, <1>17, <1>18, <1>19, <1>20, <1>21, <1>22,
     <1>23 DEF Next, CallerStep, PthreadStep

(* When no object is preset or enabled again between an enable and the     *)
(* registration of its pthread, an object has one current pthread at most, *)
(* its status follows that pthread, and every operation in progress is     *)
(* still right about what it has tested: for any interleaving of the       *)
(* operations, none of which holds a lock.                                 *)
THEOREM LifeInvariant ==
  ASSUME Careful
  PROVE  Spec => []LifeInv
<1>1. LifeInv /\ [Next]_vars => LifeInv'
  BY LifeStep
<1> QED  BY <1>1, LifeInit, PTL DEF Spec

(* Every thread that can run Lisp code is on the list that the shutdown    *)
(* walks, with the status that it looks for.                               *)
THEOREM RunningThreadsAreListed ==
  ASSUME Careful
  PROVE  Spec => []RunningIsListed
<1>1. LifeInv => RunningIsListed
  BY DEF LifeInv
<1> QED  BY <1>1, LifeInvariant, PTL

(* Whichever of thread-detach and the end of the thread comes first, the   *)
(* object leaves the list.                                                 *)
THEOREM DetachedThreadsLeaveTheList ==
  ASSUME Careful
  PROVE  Spec => []DetachedDoneUnlisted
<1>1. LifeInv => DetachedDoneUnlisted
  BY DEF LifeInv
<1> QED  BY <1>1, LifeInvariant, PTL

(* The one env of a thread object is not used by two pthreads at once, if  *)
(* no enable falls between another one and the registration of its pthread *)
(* (threads.c:2818, where the status test lets it pass).                   *)
THEOREM OneLivePthread ==
  ASSUME Careful
  PROVE  Spec => []OnePthreadPerObject
<1>1. LifeInv => OnePthreadPerObject
  BY DEF LifeInv, OneCurrent, OnePthreadPerObject, Live, Current
<1> QED  BY <1>1, LifeInvariant, PTL
-----------------------------------------------------------------------------
(* Steps that put nothing on the list, finish no pthread and return from   *)
(* no join of a listed object.                                             *)
LEMMA ListedKept ==
  ASSUME ListedIsUnjoined, threads' \subseteq threads,
         \A k \in Pid : Current(k) => Current(k)' /\ pt'[k].of = pt[k].of,
         \A o \in threads' : Busy(o, {"joined"}) => Busy(o, {"joined"})'
  PROVE  ListedIsUnjoined'
  BY DEF ListedIsUnjoined

(* Every step keeps ListedIsUnjoined.                                      *)
LEMMA ListedStep ==
  ASSUME Careful, LifeInv, ListedIsUnjoined, [Next]_vars
  PROVE  ListedIsUnjoined'
<1>0. TypeOK /\ CallersAreRight /\ StatusFollows
  BY DEF LifeInv
<1>1. ASSUME NEW c \in Caller, CallerStep(c) PROVE ListedIsUnjoined'
  <2>1. CASE (\E o \in Obj, f \in Fun : Preset(c, o, f)) \/ PresetAssign(c)
    BY <1>0, <2>1, ListedKept
       DEF Preset, PresetAssign, Begin, Return, NoOp, Current, Busy, TypeOK
  <2>2. CASE \/ (\E o \in Obj : Enable(c, o)) \/ EnableFail(c)
             \/ EnableUnlock(c)
    BY <1>0, <2>2, ListedKept
       DEF Enable, EnableFail, EnableUnlock, Begin, Return, NoOp, Current,
           Busy, TypeOK
  <2>3. ASSUME NEW k \in Pid, EnableCreate(c, k) PROVE ListedIsUnjoined'
    <3>1. pt[k].at = "none"
      BY <2>3 DEF EnableCreate, NextPid, Last
    <3>2. \A j \in Pid : Current(j) => Current(j)' /\ pt'[j].of = pt[j].of
      BY <1>0, <2>3, <3>1 DEF EnableCreate, Current, TypeOK
    <3>3. \A o \in Obj : Busy(o, {"joined"}) => Busy(o, {"joined"})'
      BY <1>0, <2>3 DEF EnableCreate, Goto, Busy, TypeOK
    <3> QED
      BY <1>0, <2>3, <3>2, <3>3, ListedKept DEF EnableCreate, TypeOK
  <2>4. CASE (\E o \in Obj : Detach(c, o)) \/ DetachSet(c) \/ DetachRemove(c)
    BY <1>0, <2>4, ListedKept
       DEF Detach, DetachSet, DetachRemove, Begin, Goto, Return, NoOp, Current,
           Busy, TypeOK
  <2>5. CASE \E o \in Obj : \/ Join(c, o) \/ JoinDetached(c, o)
                            \/ RequestShutdown(c, o)
    BY <1>0, <2>5, ListedKept
       DEF Join, JoinDetached, RequestShutdown, Begin, Current, Busy, TypeOK
  <2>6. CASE JoinReap(c)
    <3>1. op[c].on \in Obj /\ op[c].with \in Pid /\ pt[op[c].with].of = op[c].on
      BY <1>0, <2>6 DEF JoinReap, CallersAreRight, JoinOps
    <3>2. Busy(op[c].on, {"joined"})'
      BY <1>0, <2>6 DEF JoinReap, Goto, Busy, TypeOK
    <3>3. ASSUME NEW o \in threads, o # op[c].on
          PROVE  \/ \E k \in Pid : Current(k)' /\ pt'[k].of = o
                 \/ Busy(o, {"joined"})'
      BY <1>0, <2>6, <3>1, <3>3
         DEF JoinReap, ListedIsUnjoined, Goto, Move, Busy, Current, TypeOK
    <3>4. op'[c].on = op[c].on /\ threads' = threads
      BY <1>0, <2>6 DEF JoinReap, Goto, TypeOK
    <3> QED
      BY <3>2, <3>3, <3>4 DEF ListedIsUnjoined
  <2>7. CASE JoinReturn(c)
    BY <1>0, <2>7, ListedKept
       DEF JoinReturn, Return, NoOp, Current, Busy, TypeOK
  <2> QED
    BY <1>1, <2>1, <2>2, <2>3, <2>4, <2>5, <2>6, <2>7 DEF CallerStep
<1>2. ASSUME NEW k \in Pid, RegisterList(k) PROVE ListedIsUnjoined'
  BY <1>0, <1>2 DEF RegisterList, Move, ListedIsUnjoined, Current, Busy, TypeOK
<1>3. ASSUME NEW k \in Pid, Start(k) \/ RegisterActive(k) \/ SetDone(k)
      PROVE  ListedIsUnjoined'
  <2>1. PICK p \in Places : Move(k, p) /\ p # "none" /\ p # "joined"
    BY <1>3 DEF Start, RegisterActive, SetDone, Places
  <2>2. UNCHANGED <<threads, op>>
    BY <1>3 DEF Start, RegisterActive, SetDone
  <2> QED
    BY <1>0, <2>1, <2>2, ListedKept DEF Move, Current, Busy, TypeOK
<1>4. ASSUME NEW k \in Pid,
             FunctionReturns(k) \/ ExitThread(k, Exited) \/ TestForShutdown(k)
      PROVE  ListedIsUnjoined'
  BY <1>0, <1>4, ListedKept
     DEF FunctionReturns, ExitThread, TestForShutdown, Move, Current, Busy,
         TypeOK
<1>5. ASSUME NEW k \in Pid, FinalCleanup(k) PROVE ListedIsUnjoined'
  BY <1>0, <1>5, ListedKept DEF FinalCleanup, Move, Current, Busy, TypeOK
<1>6. CASE UNCHANGED vars
  BY <1>6, ListedKept DEF vars, Current, Busy
<1> QED
  BY <1>1, <1>2, <1>3, <1>4, <1>5, <1>6 DEF Next, PthreadStep

(* The list of all threads does not grow with the threads that were joined.*)
THEOREM JoinedThreadsLeaveTheList ==
  ASSUME Careful
  PROVE  Spec => []JoinedUnlisted
<1>1. Init => ListedIsUnjoined
  <2>1. Init => threads = {}
    BY DEF Init
  <2> QED  BY <2>1 DEF ListedIsUnjoined
<1>2. LifeInv /\ ListedIsUnjoined /\ [Next]_vars => ListedIsUnjoined'
  BY ListedStep
<1>3. LifeInv /\ ListedIsUnjoined => JoinedUnlisted
  BY DEF LifeInv, ListedIsUnjoined, JoinedUnlisted, CallersAreRight, Busy,
         Current, TypeOK
<1> QED  BY <1>1, <1>2, <1>3, LifeInvariant, PTL DEF Spec
-----------------------------------------------------------------------------
(* Steps that store no value, create no pthread and begin no join.         *)
LEMMA ResultKept ==
  ASSUME TypeOK, ResultFollows, UNCHANGED <<result, outcome>>,
         \A k \in Pid : /\ pt'[k].of = pt[k].of
                        /\ Ended(k)' <=> Ended(k)
                        /\ pt'[k].at = "none" <=> pt[k].at = "none"
                        /\ Current(k)' \/ BeingJoined(k)'
                             => Current(k) \/ BeingJoined(k)
  PROVE  ResultFollows'
<1>1. UnusedIsBlank' /\ EmptyUntilEnded'
  BY DEF ResultFollows, UnusedIsBlank, EmptyUntilEnded
<1>2. ValueIsKept'
  BY DEF ResultFollows, ValueIsKept
<1> QED  BY <1>1, <1>2 DEF ResultFollows

(* The end of the code of pthread k, the only one of its object that is    *)
(* not joined: v replaces a value of an earlier use, or not (keep).        *)
LEMMA ResultStored ==
  ASSUME LifeInv, ResultFollows, NEW k \in Pid, NEW v \in Value, NEW keep,
         keep => v \in Fun /\ result[pt[k].of] # OBJNULL,
         pt[k].at = "running", Move(k, "ending"), UNCHANGED op,
         outcome' = [outcome EXCEPT ![k] = v],
         result' = IF keep THEN result ELSE [result EXCEPT ![pt[k].of] = v]
  PROVE  ResultFollows'
<1>0. TypeOK /\ OneCurrent /\ StatusFollows /\ CallersAreRight
  BY DEF LifeInv
<1>1. PICK o \in Obj : o = pt[k].of
  BY <1>0 DEF StatusFollows, Current
<1>2. \A j \in Pid : /\ pt'[j].of = pt[j].of
                     /\ j # k => pt'[j] = pt[j] /\ outcome'[j] = outcome[j]
                     /\ BeingJoined(j)' = BeingJoined(j)
  BY <1>0 DEF Move, BeingJoined, TypeOK
<1>3. pt'[k].at = "ending" /\ outcome'[k] = v
  BY <1>0 DEF Move, TypeOK
<1>4. UnusedIsBlank'
  BY <1>2, <1>3 DEF ResultFollows, UnusedIsBlank
<1>5. EmptyUntilEnded'
  BY <1>0, <1>1, <1>2, <1>3
     DEF ResultFollows, EmptyUntilEnded, Ended, TypeOK
<1>6. ASSUME NEW j \in Pid, j # k, Current(j) \/ BeingJoined(j)
      PROVE  pt[j].of # o
  BY <1>0, <1>1, <1>6
     DEF OneCurrent, Current, BeingJoined, CallersAreRight, JoinOps
<1>7. ValueIsKept'
  <2> SUFFICES ASSUME NEW j \in Pid, Ended(j)',
                      \/ \A i \in Pid : pt'[i].of = pt'[j].of => i = j
                      \/ /\ outcome'[j] \in {Terminated, Exited}
                         /\ Current(j)' \/ BeingJoined(j)'
               PROVE  result'[pt'[j].of] = outcome'[j]
    BY DEF ValueIsKept
  <2>1. CASE j = k
    <3>1. ASSUME keep PROVE FALSE
      <4>1. \A i \in Pid : pt[i].of = o => i = k
        BY <1>1, <1>2, <1>3, <2>1, <3>1, ValueAssumption
      <4> QED
        BY <1>1, <3>1, <4>1 DEF ResultFollows, EmptyUntilEnded, Ended
    <3> QED  BY <1>0, <1>1, <1>2, <1>3, <2>1, <3>1 DEF TypeOK
  <2>2. CASE j # k
    <3>1. pt[j].of # o
      BY <1>1, <1>2, <1>6, <2>2 DEF Current
    <3>2. result'[pt[j].of] = result[pt[j].of]
      BY <1>0, <1>1, <3>1 DEF TypeOK
    <3>3. result[pt[j].of] = outcome[j]
      BY <1>2, <2>2 DEF ResultFollows, ValueIsKept, Ended, Current
    <3> QED  BY <1>2, <2>2, <3>2, <3>3
  <2> QED  BY <2>1, <2>2
<1> QED  BY <1>4, <1>5, <1>7 DEF ResultFollows

(* Every step keeps ResultFollows.                                         *)
LEMMA ResultStep ==
  ASSUME Careful, LifeInv, ResultFollows, [Next]_vars
  PROVE  ResultFollows'
<1>0. TypeOK /\ CallersAreRight /\ StatusFollows /\ FunctionIsSet
  BY DEF LifeInv
<1> USE LifeAssumption
<1>1. ASSUME NEW c \in Caller, CallerStep(c) PROVE ResultFollows'
  <2>1. CASE (\E o \in Obj, f \in Fun : Preset(c, o, f)) \/ PresetAssign(c)
    <3>1. \A k \in Pid : BeingJoined(k)' => BeingJoined(k)
      <4>1. PICK x : op' = [op EXCEPT ![c] = x] /\ x.at # "joined"
        BY <2>1 DEF Preset, PresetAssign, Begin, Return, NoOp
      <4> QED  BY <1>0, <4>1 DEF BeingJoined, TypeOK
    <3>2. UNCHANGED <<pt, result, outcome>>
      BY <2>1 DEF Preset, PresetAssign
    <3> QED
      BY <1>0, <3>1, <3>2, ResultKept DEF Current, Ended
  <2>2. CASE \/ (\E o \in Obj : Enable(c, o)) \/ EnableFail(c)
             \/ EnableUnlock(c)
    BY <1>0, <2>2, ResultKept
       DEF Enable, EnableFail, EnableUnlock, Begin, Return, NoOp, Current,
           Ended, BeingJoined, TypeOK
  <2>3. ASSUME NEW k \in Pid, EnableCreate(c, k) PROVE ResultFollows'
    <3>1. pt[k].at = "none" /\ pt[k].of = NIL
      BY <2>3 DEF EnableCreate, NextPid, Last, ResultFollows, UnusedIsBlank
    <3>2. PICK o \in Obj : o = op[c].on
      BY <1>0, <2>3 DEF EnableCreate, CallersAreRight
    <3>3. /\ \A j \in Pid \ {k} : pt'[j] = pt[j]
          /\ pt'[k].of = o /\ pt'[k].at = "created"
          /\ \A j \in Pid : BeingJoined(j)' => BeingJoined(j)
          /\ UNCHANGED <<result, outcome>>
      BY <1>0, <2>3, <3>2 DEF EnableCreate, Goto, BeingJoined, TypeOK
    <3>4. UnusedIsBlank' /\ EmptyUntilEnded'
      BY <3>1, <3>3 DEF ResultFollows, UnusedIsBlank, EmptyUntilEnded, Ended
    <3>5. ASSUME NEW j \in Pid, Ended(j)',
                 \/ \A i \in Pid : pt'[i].of = pt'[j].of => i = j
                 \/ /\ outcome'[j] \in {Terminated, Exited}
                    /\ Current(j)' \/ BeingJoined(j)'
          PROVE  result'[pt'[j].of] = outcome'[j]
      <4>1. j # k /\ pt'[j] = pt[j] /\ Ended(j)
        BY <3>3, <3>5 DEF Ended
      <4>2. pt[j].of # NIL
        BY <4>1 DEF Ended, ResultFollows, UnusedIsBlank
      <4>3. \/ \A i \in Pid : pt[i].of = pt[j].of => i = j
            \/ /\ outcome[j] \in {Terminated, Exited}
               /\ Current(j) \/ BeingJoined(j)
        BY <3>1, <3>3, <3>5, <4>1, <4>2 DEF Current
      <4> QED
        BY <3>3, <4>1, <4>3 DEF ResultFollows, ValueIsKept
    <3>6. ValueIsKept'
      BY <3>5 DEF ValueIsKept
    <3> QED
      BY <3>4, <3>6 DEF ResultFollows
  <2>4. CASE (\E o \in Obj : Detach(c, o)) \/ DetachSet(c) \/ DetachRemove(c)
    BY <1>0, <2>4, ResultKept
       DEF Detach, DetachSet, DetachRemove, Begin, Goto, Return, NoOp, Current,
           Ended, BeingJoined, TypeOK
  <2>5. CASE \E o \in Obj : \/ Join(c, o) \/ JoinDetached(c, o)
                            \/ RequestShutdown(c, o)
    BY <1>0, <2>5, ResultKept
       DEF Join, JoinDetached, RequestShutdown, Begin, Current, Ended,
           BeingJoined, TypeOK
  <2>6. CASE JoinReap(c)
    <3>1. op[c].with \in Pid /\ Current(op[c].with)
      BY <1>0, <2>6 DEF JoinReap, CallersAreRight, JoinOps
    <3>2. \A k \in Pid : BeingJoined(k)' => BeingJoined(k) \/ k = op[c].with
      BY <1>0, <2>6 DEF JoinReap, Goto, BeingJoined, TypeOK
    <3> QED
      BY <1>0, <2>6, <3>1, <3>2, ResultKept
         DEF JoinReap, Move, Current, Ended, TypeOK
  <2>7. CASE JoinReturn(c)
    BY <1>0, <2>7, ResultKept
       DEF JoinReturn, Return, NoOp, Current, Ended, BeingJoined, TypeOK
  <2> QED
    BY <1>1, <2>1, <2>2, <2>3, <2>4, <2>5, <2>6, <2>7 DEF CallerStep
<1>2. ASSUME NEW k \in Pid,
             \/ Start(k) \/ RegisterActive(k) \/ RegisterList(k)
             \/ SetDone(k) \/ FinalCleanup(k)
      PROVE  ResultFollows'
  <2>1. Current(k) /\ pt[k].of \in Obj
    BY <1>0, <1>2 DEF Start, RegisterActive, RegisterList, SetDone,
       FinalCleanup, Current, StatusFollows
  <2>2. PICK p \in Places : Move(k, p) /\ p # "none" /\ p # "joined"
                            /\ (p \in {"ending", "done", "zombie"} <=> Ended(k))
    BY <1>2 DEF Start, RegisterActive, RegisterList, SetDone, FinalCleanup,
       Ended, Places
  <2>3. UNCHANGED <<result, outcome, op>>
    BY <1>2 DEF Start, RegisterActive, RegisterList, SetDone, FinalCleanup
  <2> QED
    BY <1>0, <2>1, <2>2, <2>3, ResultKept
       DEF Move, Current, Ended, BeingJoined, TypeOK
<1>3. ASSUME NEW k \in Pid, FunctionReturns(k) PROVE ResultFollows'
  <2>1. function[pt[k].of] \in Fun /\ pt[k].of \in Obj
    BY <1>0, <1>3 DEF FunctionReturns, FunctionIsSet, StatusFollows, Current
  <2>2. CASE result[pt[k].of] = OBJNULL
    BY <1>0, <1>3, <2>1, <2>2, ResultStored DEF FunctionReturns, Value, TypeOK
  <2>3. CASE result[pt[k].of] # OBJNULL
    <3>1. result' = result
      BY <1>0, <1>3, <2>1, <2>3 DEF FunctionReturns, TypeOK
    <3> QED
      BY <1>0, <1>3, <2>1, <2>3, <3>1, ResultStored DEF FunctionReturns, Value
  <2> QED  BY <2>2, <2>3
<1>4. ASSUME NEW k \in Pid, ExitThread(k, Exited) \/ TestForShutdown(k)
      PROVE  ResultFollows'
  BY <1>4, ResultStored DEF ExitThread, TestForShutdown, Value
<1>5. CASE UNCHANGED vars
  BY <1>0, <1>5, ResultKept DEF vars, Ended, Current, BeingJoined
<1> QED
  BY <1>1, <1>2, <1>3, <1>4, <1>5 DEF Next, PthreadStep

(* thread-join gives the value its pthread ended with, for the first use   *)
(* of an object, and for any use that exit-thread or a shutdown ended.     *)
THEOREM JoinGivesTheOutcome ==
  ASSUME Careful
  PROVE  Spec => []JoinGivesOutcome
<1>1. Init => ResultFollows
  BY DEF Init, ResultFollows, UnusedIsBlank, EmptyUntilEnded, ValueIsKept,
         Ended, NoPthread
<1>2. LifeInv /\ ResultFollows /\ [Next]_vars => ResultFollows'
  BY ResultStep
<1>3. LifeInv /\ ResultFollows => JoinGivesOutcome
  BY DEF LifeInv, ResultFollows, ValueIsKept, JoinGivesOutcome, Ended,
         CallersAreRight, JoinOps, BeingJoined
<1> QED  BY <1>1, <1>2, <1>3, LifeInvariant, PTL DEF Spec
=============================================================================
