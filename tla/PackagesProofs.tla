--------------------------- MODULE PackagesProofs ---------------------------
(***************************************************************************)
(* Proofs about Packages, for any packages, symbols, names and threads:    *)
(* the two sides of "uses" agree, a conflict comes only of a stale or      *)
(* ignored check or of an unwinding, a symbol is present in its home       *)
(* package, and threads wait for each other's locks in a ring only where   *)
(* what they were given is a cycle.                                        *)
(***************************************************************************)
EXTENDS Packages, FiniteSums, TLAPS

Places == {"idle", "looked", "wanted", "half", "uses", "usedby", "refused", "unwinding",
           "ignoring"}

Doubles == {"wanted", "half", "uses", "usedby", "refused", "unwinding"}

OpType ==
  [kind : OneLock \union TwoLocks \union {NIL},
   p : Package \union {NIL}, n : Name \union {NIL},
   s : Symbol \union {NIL}, x : Package \union {NIL}, at : Places, saw : SUBSET Package]

Asked == {"intern", "shadow"}  \* the operations that are given a name

(* An operation that has begun has the arguments of its kind.              *)
Arguments(o) ==
  /\ o.p \in Package
  /\ o.kind \in Asked => o.n \in Name
  /\ o.kind \in OneLock \ Asked => o.s \in Symbol
  /\ o.kind \in TwoLocks => o.x \in Package
  /\ o.kind = "use" /\ o.at # "idle" => o.x # o.p
  /\ o.at \in Doubles => o.kind \in TwoLocks
  /\ o.at = "ignoring" => o.kind = "import"

OpsTyped ==
  /\ op \in [Thread -> OpType]
  /\ \A t \in Thread : op[t].at # "idle" => Arguments(op[t])

(* An operation that changes a package has its lock, use-package and       *)
(* unuse-package those of both.                                            *)
HasLocks(t, o, l) ==
  /\ o.at \in {"looked", "uses", "usedby"} => l[o.p] = t
  /\ o.at \in {"half", "uses", "usedby", "unwinding"} => l[o.x] = t

ChangersLock == \A t \in Thread : HasLocks(t, op[t], lock)

(* So the list that it has read is still the list, and between the two     *)
(* assignments the first one stands.                                       *)
Fresh(o, us, by) ==
  /\ o.at = "uses" => o.saw = us[o.p]
  /\ o.at = "usedby" => /\ o.saw = by[o.x]
                        /\ o.kind = "use" => o.x \in us[o.p]
                        /\ o.kind = "unuse" => o.x \notin us[o.p]

ReadsAreFresh == \A t \in Thread : Fresh(op[t], uses, usedby)

(* A used package asks its users before it exports, unless it does not     *)
(* know of them, which makes them suspect.                                 *)
UsersAsked ==
  \A p, x \in Package :
    x \in uses[p] => p \in usedby[x] \/ Between(x, p) \/ p \in suspect

(* A package exports one symbol of a name.  What export has seen of the    *)
(* package stays true, because the package is locked.                      *)
OneExport == \A p \in Package, n \in Name : AtMostOne(Named(external[p], n))

NoneExported ==
  \A t \in Thread :
    op[t].at = "looked" /\ op[t].kind = "export"
      => Named(external[op[t].p], NameOf[op[t].s]) = {}

NotItself == \A p \in Package : p \notin uses[p]

(* The symbols that shadow are present.                                    *)
ShadowingPresent ==
  \A p \in Package \ suspect : shadowings[p] \subseteq internal[p] \union external[p]

PackagesInv ==
  /\ TypeOK /\ OpsTyped /\ ChangersLock
  /\ OneExport /\ NoneExported /\ NotItself /\ ShadowingPresent
  /\ ReadsAreFresh /\ UsersAsked
  /\ UsersKnown /\ NoConflict /\ HomeIsPresent
----------------------------------------------------------------------------
LEMMA OpsAreTyped ==
  ASSUME NEW t, NEW o \in Ops(t)
  PROVE  o \in OpType /\ Arguments(o) /\ o.at = "idle"
  BY PackagesAssumption
     DEF Ops, Op, OpType, Arguments, Asked, OneLock, TwoLocks, Places, Doubles

LEMMA InitInv == Init => PackagesInv
<1> SUFFICES ASSUME Init PROVE PackagesInv
  OBVIOUS
<1> USE PackagesAssumption
<1>1. TypeOK
  BY DEF Init, TypeOK
<1>2. OpsTyped /\ ChangersLock /\ NoneExported /\ ReadsAreFresh
  BY DEF Init, OpsTyped, ChangersLock, HasLocks, NoneExported, ReadsAreFresh, Fresh, NoOp, Op,
         OpType, Places
<1>3. OneExport
  BY DEF Init, OneExport, AtMostOne, Named
<1>4. NotItself /\ ShadowingPresent /\ UsersKnown /\ UsersAsked
  BY DEF Init, NotItself, ShadowingPresent, UsersKnown, UsersAsked
<1>5. NoConflict
  BY <1>3 DEF Init, NoConflict, Conflict, Present, Inherited, OneExport, AtMostOne, Named
<1>6. HomeIsPresent
  BY DEF Init, HomeIsPresent
<1> QED
  BY <1>1, <1>2, <1>3, <1>4, <1>5, <1>6 DEF PackagesInv

----------------------------------------------------------------------------
(***************************************************************************)
(* Thread t goes on to new, a step in which the others keep their locks.   *)
(***************************************************************************)
Moves(t, new) ==
  /\ new \in OpType
  /\ new.at # "idle" => Arguments(new)
  /\ op' = [op EXCEPT ![t] = new]
  /\ lock' \in [Package -> Thread \union {NIL}]
  /\ \A q \in Package : lock[q] \notin {NIL, t} => lock'[q] = lock[q]
  /\ HasLocks(t, new, lock')

LEMMA MovesOps ==
  ASSUME PackagesInv, NEW t \in Thread, NEW new, Moves(t, new)
  PROVE  /\ OpsTyped' /\ ChangersLock'
         /\ op'[t] = new /\ \A u \in Thread : u # t => op'[u] = op[u]
<1> USE PackagesAssumption DEF PackagesInv, Moves
<1>0. op'[t] = new /\ \A u \in Thread : u # t => op'[u] = op[u]
  BY DEF OpsTyped
<1>1. OpsTyped'
  BY DEF OpsTyped, Arguments
<1>2. ASSUME NEW u \in Thread, u # t PROVE HasLocks(u, op[u], lock')
  <2>1. HasLocks(u, op[u], lock)
    BY DEF ChangersLock
  <2>2. op[u].at # "idle" => Arguments(op[u])
    BY DEF OpsTyped
  <2> QED  BY <1>2, <2>1, <2>2 DEF HasLocks, Arguments, Doubles
<1>3. ChangersLock'
  BY <1>0, <1>2 DEF ChangersLock, HasLocks
<1> QED
  BY <1>0, <1>1, <1>3

(* Another thread that reads the lists has their locks.                    *)
LEMMA OthersLock ==
  ASSUME PackagesInv, NEW t \in Thread, NEW u \in Thread, u # t
  PROVE  /\ op[u].at \in {"looked", "uses", "usedby"} =>
              op[u].p \in Package /\ lock[op[u].p] # t
         /\ op[u].at = "usedby" => op[u].x \in Package /\ lock[op[u].x] # t
<1>1. HasLocks(u, op[u], lock) /\ (op[u].at # "idle" => Arguments(op[u]))
  BY DEF PackagesInv, ChangersLock, OpsTyped
<1> QED  BY <1>1 DEF HasLocks, Arguments, Doubles

(* What is about the tables of symbols.                                    *)
LEMMA SymbolsStay ==
  ASSUME PackagesInv, UNCHANGED <<Symbols, uses>>, suspect \subseteq suspect'
  PROVE  OneExport' /\ NotItself' /\ ShadowingPresent' /\ HomeIsPresent' /\ NoConflict'
<1>1. OneExport' /\ NotItself' /\ ShadowingPresent' /\ HomeIsPresent'
  BY DEF PackagesInv, OneExport, NotItself, ShadowingPresent, HomeIsPresent, Symbols, Named
<1>2. NoConflict'
  BY DEF PackagesInv, NoConflict, Conflict, Present, Inherited, Symbols, Named, AtMostOne
<1> QED
  BY <1>1, <1>2

(* A step that moves one thread and leaves the tables alone.               *)
LEMMA MovesInv ==
  ASSUME PackagesInv, NEW t \in Thread, NEW new, Moves(t, new), UNCHANGED Tables,
         new.at = "looked" /\ new.kind = "export"
           => Named(external[new.p], NameOf[new.s]) = {},
         op[t].at # "usedby", new.at # "usedby", new.at = "uses" => new.saw = uses[new.p]
  PROVE  PackagesInv'
<1>1. /\ OpsTyped' /\ ChangersLock'
      /\ op'[t] = new /\ \A u \in Thread : u # t => op'[u] = op[u]
  BY MovesOps
<1>2. TypeOK'
  BY DEF PackagesInv, TypeOK, Tables, Symbols, Moves
<1>3. NoneExported'
  BY <1>1 DEF PackagesInv, NoneExported, Tables, Symbols, Named
<1>4. /\ OneExport' /\ NotItself' /\ ShadowingPresent' /\ HomeIsPresent' /\ NoConflict'
  BY SymbolsStay DEF Tables
<1>5. ReadsAreFresh'
  BY <1>1 DEF PackagesInv, ReadsAreFresh, Fresh, Tables
<1>6. \A x, p \in Package : Between(x, p)' = Between(x, p)
  BY <1>1 DEF Between
<1>7. UsersKnown' /\ UsersAsked'
  BY <1>6 DEF PackagesInv, UsersKnown, UsersAsked, Tables
<1> QED
  BY <1>1, <1>2, <1>3, <1>4, <1>5, <1>7 DEF PackagesInv

(* Found is a symbol that is accessible.                                   *)
LEMMA FoundIsAccessible ==
  ASSUME PackagesInv, NEW p \in Package, NEW n
  PROVE  /\ Found(p, n) = NIL <=> Accessible(p, n) = {}
         /\ Found(p, n) # NIL => Found(p, n) \in Accessible(p, n)
         /\ Accessible(p, n) \subseteq Symbol
<1>1. Accessible(p, n) \subseteq Symbol
  BY DEF PackagesInv, TypeOK, Accessible, Present, Inherited, Named
<1> QED
  BY <1>1, PackagesAssumption DEF Found

(* What export finds in the package itself.                                *)
LEMMA ExportSees ==
  ASSUME PackagesInv, NEW o, o.p \in Package, o.s \in Symbol, MayExport(o)
  PROVE  /\ Named(external[o.p], NameOf[o.s]) = {}
         /\ o.s \in Accessible(o.p, NameOf[o.s])
<1>1. o.s \in Accessible(o.p, NameOf[o.s]) /\ o.s \notin external[o.p]
  BY FoundIsAccessible, PackagesAssumption DEF MayExport
<1> QED
  BY <1>1 DEF Accessible, Named

LEMMA LockingInv ==
  ASSUME PackagesInv, NEW t \in Thread,
         \/ \E o \in Ops(t) : LockAndLook(t, o) \/ BeginUse(t, o) \/ ImportContinued(t, o)
         \/ LockUsed(t) \/ LockUser(t) \/ RefuseUse(t) \/ UnwindUsed(t) \/ UnwindUser(t)
         \/ ImportRelock(t) \/ OutOfSymbols(t)
         \/ (Unwound(t) /\ op[t].at # "usedby")
  PROVE  PackagesInv'
<1> USE PackagesAssumption
<1>a. TypeOK /\ OpsTyped /\ op[t] \in OpType /\ HasLocks(t, op[t], lock)
  BY DEF PackagesInv, OpsTyped, ChangersLock
<1>b. NoOp \in OpType /\ NoOp.at = "idle"
  BY DEF NoOp, Op, OpType, Places
<1>1. ASSUME NEW o \in Ops(t), LockAndLook(t, o) PROVE PackagesInv'
  <2> DEFINE new == [o EXCEPT !.at = "looked"]
  <2>1. o \in OpType /\ Arguments(o) /\ o.kind \in OneLock
    BY <1>1, OpsAreTyped DEF LockAndLook
  <2>2. /\ new \in OpType /\ Arguments(new) /\ new.at = "looked"
        /\ new.kind = o.kind /\ new.p = o.p /\ new.s = o.s
    BY <2>1 DEF OpType, Places, Doubles, Arguments, OneLock, TwoLocks
  <2>3. Moves(t, new)
    BY <1>1, <1>a, <2>2 DEF LockAndLook, SetOp, Moves, TypeOK, HasLocks, Arguments
  <2>4. ASSUME new.kind = "export" PROVE Named(external[new.p], NameOf[new.s]) = {}
    <3>1. MayExport(o) /\ o.p \in Package /\ o.s \in Symbol
      BY <1>1, <2>1, <2>2, <2>4 DEF LockAndLook, Goes, Arguments, OneLock, Asked
    <3> QED
      BY <2>2, <3>1, ExportSees
  <2>5. op[t].at # "usedby"
    BY <1>1, <1>b DEF LockAndLook
  <2> HIDE DEF new
  <2> QED
    BY <1>1, <2>2, <2>3, <2>4, <2>5, MovesInv DEF LockAndLook
<1>2. ASSUME NEW o \in Ops(t), BeginUse(t, o) PROVE PackagesInv'
  <2> DEFINE new == [o EXCEPT !.at = "wanted"]
  <2>1. o \in OpType /\ Arguments(o) /\ o.kind \in TwoLocks /\ (o.kind = "use" => o.x # o.p)
    BY <1>2, OpsAreTyped DEF BeginUse
  <2>2. new \in OpType /\ Arguments(new) /\ new.at = "wanted"
    BY <2>1 DEF OpType, Places, Doubles, Arguments
  <2>3. Moves(t, new)
    BY <1>2, <1>a, <2>2 DEF BeginUse, SetOp, Moves, TypeOK, HasLocks
  <2>4. op[t].at # "usedby"
    BY <1>2, <1>b DEF BeginUse
  <2> HIDE DEF new
  <2> QED
    BY <1>2, <2>2, <2>3, <2>4, MovesInv DEF BeginUse
<1>3. ASSUME NEW o \in Ops(t), ImportContinued(t, o) PROVE PackagesInv'
  <2> DEFINE new == [o EXCEPT !.at = "ignoring"]
  <2>1. o \in OpType /\ Arguments(o) /\ o.kind = "import"
    BY <1>3, OpsAreTyped DEF ImportContinued
  <2>2. new \in OpType /\ Arguments(new) /\ new.at = "ignoring"
    BY <2>1 DEF OpType, Places, Doubles, Arguments
  <2>3. Moves(t, new)
    BY <1>3, <1>a, <2>2 DEF ImportContinued, SetOp, Moves, TypeOK, HasLocks
  <2>4. op[t].at # "usedby"
    BY <1>3, <1>b DEF ImportContinued
  <2> HIDE DEF new
  <2> QED
    BY <1>3, <2>2, <2>3, <2>4, MovesInv DEF ImportContinued
(* An operation that goes on to another place.                             *)
<1>c. ASSUME op[t].at # "idle", op[t].at # "usedby",
             NEW at \in Places \ {"idle", "uses", "usedby"},
             NEW new, new = [op[t] EXCEPT !.at = at],
             at \in Doubles => op[t].kind \in TwoLocks,
             at = "looked" => op[t].kind = "import",
             at = "ignoring" => op[t].kind = "import",
             op' = [op EXCEPT ![t] = new],
             lock' \in [Package -> Thread \union {NIL}],
             \A q \in Package : lock[q] \notin {NIL, t} => lock'[q] = lock[q],
             HasLocks(t, new, lock'),
             UNCHANGED Tables
      PROVE  PackagesInv'
  <2>1. Arguments(op[t])
    BY <1>a, <1>c DEF OpsTyped
  <2>2. new \in OpType /\ new.at = at /\ new.kind = op[t].kind
    BY <1>a, <1>c DEF OpType
  <2>3. Arguments(new)
    BY <1>a, <1>c, <2>1 DEF OpType, Arguments
  <2>4. Moves(t, new)
    BY <1>c, <2>2, <2>3 DEF Moves
  <2> QED
    BY <1>c, <2>2, <2>4, MovesInv
<1>d. /\ op[t].at # "idle" => Arguments(op[t])
      /\ op[t].at \in Doubles => op[t].kind \in TwoLocks /\ op[t].x \in Package /\ op[t].p \in Package
      /\ op[t].at = "ignoring" => op[t].kind = "import" /\ op[t].p \in Package
  BY <1>a DEF OpsTyped, Arguments, Doubles
<1>e. \A at : /\ [op[t] EXCEPT !.at = at].at = at
              /\ [op[t] EXCEPT !.at = at].p = op[t].p
              /\ [op[t] EXCEPT !.at = at].x = op[t].x
  BY <1>a DEF OpType
<1>9. CASE LockUsed(t)
  <2>0. PICK new : new = [op[t] EXCEPT !.at = "half"]
    OBVIOUS
  <2>1. /\ op[t].at = "wanted" /\ op[t].kind \in TwoLocks /\ op[t].x \in Package
        /\ op' = [op EXCEPT ![t] = new]
        /\ lock[op[t].x] = NIL /\ lock' = [lock EXCEPT ![op[t].x] = t] /\ UNCHANGED Tables
    BY <1>9, <1>d, <2>0 DEF LockUsed, SetOp, Doubles
  <2>2. HasLocks(t, new, lock')
    BY <1>a, <1>e, <2>0, <2>1 DEF TypeOK, HasLocks
  <2>3. /\ lock' \in [Package -> Thread \union {NIL}]
        /\ \A q \in Package : lock[q] \notin {NIL, t} => lock'[q] = lock[q]
    BY <1>a, <2>1 DEF TypeOK
  <2>4. "half" \in Places \ {"idle", "uses", "usedby"}
    BY DEF Places
  <2> QED  BY <1>c, <2>0, <2>1, <2>2, <2>3, <2>4
<1>4. CASE LockUser(t)
  <2> DEFINE new == [op[t] EXCEPT !.at = "uses", !.saw = uses[op[t].p]]
  <2>1. op[t].at = "half" /\ Arguments(op[t]) /\ op[t].kind \in TwoLocks
        /\ op[t].p \in Package /\ op[t].x \in Package
    BY <1>4, <1>d DEF LockUser, Doubles
  <2>2. /\ new \in OpType /\ new.at = "uses" /\ new.saw = uses[new.p]
        /\ new.p = op[t].p /\ new.x = op[t].x
    BY <1>a, <2>1 DEF OpType, Places, TypeOK
  <2>3. Arguments(new)
    BY <1>a, <2>1 DEF OpType, Arguments
  <2>4. Moves(t, new)
    BY <1>4, <1>a, <2>1, <2>2, <2>3 DEF LockUser, Moves, TypeOK, HasLocks
  <2> HIDE DEF new
  <2> QED
    BY <1>4, <2>1, <2>2, <2>4, MovesInv DEF LockUser
<1>5. CASE RefuseUse(t)
  <2>0. PICK new : new = [op[t] EXCEPT !.at = "refused"]
    OBVIOUS
  <2>1. /\ op[t].at = "half" /\ op[t].kind \in TwoLocks
        /\ op' = [op EXCEPT ![t] = new]
        /\ lock' = LocksWithout(t) /\ UNCHANGED Tables
    BY <1>5, <1>d, <2>0 DEF RefuseUse, SetOp, Doubles
  <2>2. HasLocks(t, new, lock')
    BY <1>e, <2>0 DEF HasLocks
  <2>3. /\ lock' \in [Package -> Thread \union {NIL}]
        /\ \A q \in Package : lock[q] \notin {NIL, t} => lock'[q] = lock[q]
    BY <1>a, <2>1 DEF TypeOK, LocksWithout
  <2>4. "refused" \in Places \ {"idle", "uses", "usedby"}
    BY DEF Places
  <2> QED  BY <1>c, <2>0, <2>1, <2>2, <2>3, <2>4
<1>6. CASE UnwindUsed(t)
  <2>0. PICK new : new = [op[t] EXCEPT !.at = "unwinding"]
    OBVIOUS
  <2>1. /\ op[t].at = "refused" /\ op[t].kind \in TwoLocks /\ op[t].x \in Package
        /\ op' = [op EXCEPT ![t] = new]
        /\ lock[op[t].x] = NIL /\ lock' = [lock EXCEPT ![op[t].x] = t] /\ UNCHANGED Tables
    BY <1>6, <1>d, <2>0 DEF UnwindUsed, SetOp, Doubles
  <2>2. HasLocks(t, new, lock')
    BY <1>a, <1>e, <2>0, <2>1 DEF TypeOK, HasLocks
  <2>3. /\ lock' \in [Package -> Thread \union {NIL}]
        /\ \A q \in Package : lock[q] \notin {NIL, t} => lock'[q] = lock[q]
    BY <1>a, <2>1 DEF TypeOK
  <2>4. "unwinding" \in Places \ {"idle", "uses", "usedby"}
    BY DEF Places
  <2> QED  BY <1>c, <2>0, <2>1, <2>2, <2>3, <2>4
<1>7. CASE UnwindUser(t) \/ OutOfSymbols(t) \/ (Unwound(t) /\ op[t].at # "usedby")
  <2>1. Moves(t, NoOp)
    BY <1>7, <1>a, <1>b
       DEF UnwindUser, OutOfSymbols, Unwound, LocksWithout, Moves, TypeOK, HasLocks
  <2>2. UNCHANGED Tables /\ op[t].at # "usedby"
    BY <1>7 DEF UnwindUser, OutOfSymbols, Unwound, Tables
  <2> QED
    BY <1>b, <2>1, <2>2, MovesInv
<1>8. CASE ImportRelock(t)
  BY <1>8, <1>a, <1>c, <1>d, <1>e DEF ImportRelock, SetOp, TypeOK, Doubles, Places, HasLocks
<1> QED
  BY <1>1, <1>2, <1>3, <1>4, <1>5, <1>6, <1>7, <1>8, <1>9
----------------------------------------------------------------------------
(***************************************************************************)
(* The changes of one package.                                             *)
(***************************************************************************)
Typed ==
  /\ internal \in [Package -> SUBSET Symbol]
  /\ external \in [Package -> SUBSET Symbol]
  /\ shadowings \in [Package -> SUBSET Symbol]
  /\ uses \in [Package -> SUBSET Package]
  /\ usedby \in [Package -> SUBSET Package]

Framed(p) ==
  /\ \A q \in Package : q # p =>
       /\ internal'[q] = internal[q] /\ external'[q] = external[q]
       /\ shadowings'[q] = shadowings[q] /\ uses'[q] = uses[q]

HomesMove(p) ==
  /\ home' \in [Symbol -> Package \union {NIL, Unborn}]
  /\ \A s \in Symbol : home'[s] \in {home[s], NIL, p}

(* What the change of o does to what others see.                           *)
Visible(o) ==
  /\ o.kind # "export" => external'[o.p] \subseteq external[o.p]
  /\ o.kind = "export" => external'[o.p] = external[o.p] \union {o.s}
  /\ uses' = uses /\ usedby' = usedby

LEMMA CommitChanges ==
  ASSUME PackagesInv, NEW t \in Thread, Commit(t)
  PROVE  /\ Arguments(op[t]) /\ Moves(t, NoOp)
         /\ Typed' /\ Framed(op[t].p) /\ HomesMove(op[t].p) /\ Visible(op[t])
         /\ suspect \subseteq suspect' /\ suspect' \subseteq Package
<1> DEFINE o == op[t]
<1> USE PackagesAssumption
<1>1. Typed /\ home \in [Symbol -> Package \union {NIL, Unborn}] /\ lock \in [Package -> Thread \union {NIL}] /\ suspect \subseteq Package
  BY DEF PackagesInv, TypeOK, Typed
<1>2. Arguments(o)
  BY DEF PackagesInv, OpsTyped, Commit
<1>3. Moves(t, NoOp)
  BY <1>1 DEF Commit, Moves, NoOp, Op, OpType, Places, LocksWithout, HasLocks
<1>4. suspect \subseteq suspect' /\ suspect' \subseteq Package
  BY <1>1, <1>2 DEF Commit, Stale, Typed, Arguments
<1> HIDE DEF o
<1>6. HomesMove(o.p)
  <2>1. CASE home' = home
    BY <1>1, <2>1 DEF HomesMove
  <2>2. ASSUME NEW left, NEW came, home' = Homes(o.p, left, came) PROVE HomesMove(o.p)
    BY <1>1, <1>2, <2>2 DEF HomesMove, Homes, Arguments
  <2>3. home' = home \/ \E left, came : home' = Homes(o.p, left, came)
    BY Zenon DEF Commit, o, InternCommit, UninternCommit, ExportCommit, UnexportCommit,
         ImportCommit, ShadowingImportCommit, ShadowCommit
  <2> QED
    BY <2>1, <2>2, <2>3
<1>7. Typed' /\ Framed(o.p) /\ Visible(o)
  <2> USE <1>1, <1>2 DEF Arguments, OneLock, TwoLocks, Asked
  <2>1. CASE o.kind = "intern" /\ InternCommit(o)
    <3>1. PICK s \in Symbol : /\ internal' = Plus(internal, o.p, {s})
                              /\ home' = Homes(o.p, {}, {s})
                              /\ UNCHANGED <<external, shadowings, uses, usedby>>
      BY <2>1 DEF InternCommit, Born
    <3> QED
      BY <2>1, <3>1 DEF Plus, Typed, Framed, Visible
  <2>2. CASE o.kind = "unintern" /\ UninternCommit(o)
    BY <2>2 DEF UninternCommit, Minus, Typed, Framed, Visible
  <2>3. CASE o.kind = "export" /\ ExportCommit(o)
    BY <2>3 DEF ExportCommit, Plus, Minus, Typed, Framed, Visible
  <2>4. CASE o.kind = "unexport" /\ UnexportCommit(o)
    BY <2>4 DEF UnexportCommit, Plus, Minus, Typed, Framed, Visible
  <2>5. CASE o.kind = "import" /\ ImportCommit(o)
    BY <2>5 DEF ImportCommit, Plus, Typed, Framed, Visible
  <2>6. CASE o.kind = "shadowing-import" /\ ShadowingImportCommit(o)
    <3> DEFINE n == NameOf[o.s]
               there == {Found(o.p, n)} \intersect Present(o.p, n)
               old == Named(internal[o.p], n)
    <3>1. CASE UNCHANGED <<internal, external, home, uses, usedby>>
               /\ shadowings' = Plus(shadowings, o.p, {o.s})
      BY <2>6, <3>1 DEF Plus, Typed, Framed, Visible
    <3>2. CASE /\ internal' = [internal EXCEPT ![o.p] = (@ \ old) \union {o.s}]
               /\ external' = Minus(external, o.p, there)
               /\ shadowings' = [shadowings EXCEPT ![o.p] = (@ \ there) \union {o.s}]
               /\ home' = Homes(o.p, there, {o.s})
               /\ UNCHANGED <<uses, usedby>>
      <4> HIDE DEF there, old
      <4> QED
        BY <2>6, <3>2 DEF Minus, Typed, Framed, Visible
    <3> QED
      BY <2>6, <3>1, <3>2 DEF ShadowingImportCommit
  <2>7. CASE o.kind = "shadow" /\ ShadowCommit(o)
    <3>1. CASE /\ Present(o.p, o.n) # {}
               /\ shadowings' = Plus(shadowings, o.p, {Found(o.p, o.n)})
               /\ UNCHANGED <<internal, external, home, uses, usedby>>
      <4>1. Found(o.p, o.n) \in Symbol
        BY <3>1, FoundIsAccessible DEF Accessible
      <4> QED
        BY <2>7, <3>1, <4>1 DEF Plus, Typed, Framed, Visible
    <3>2. CASE \E s \in Born(o.n) :
               /\ internal' = Plus(internal, o.p, {s})
               /\ shadowings' = Plus(shadowings, o.p, {s})
               /\ home' = Homes(o.p, {}, {s})
               /\ UNCHANGED <<external, uses, usedby>>
      <4>1. PICK s \in Symbol : /\ internal' = Plus(internal, o.p, {s})
                                /\ shadowings' = Plus(shadowings, o.p, {s})
                                /\ home' = Homes(o.p, {}, {s})
                                /\ UNCHANGED <<external, uses, usedby>>
        BY <3>2 DEF Born
      <4> QED
        BY <2>7, <4>1 DEF Plus, Typed, Framed, Visible
    <3> QED
      BY <2>7, <3>1, <3>2 DEF ShadowCommit
  <2> QED
    BY <2>1, <2>2, <2>3, <2>4, <2>5, <2>6, <2>7 DEF Commit, o
<1> QED
  BY <1>2, <1>3, <1>4, <1>6, <1>7 DEF o

(* What holds of all packages, suspect or not.                             *)
LEMMA CommitTables ==
  ASSUME PackagesInv, NEW t \in Thread, Commit(t)
  PROVE  /\ TypeOK' /\ OpsTyped' /\ ChangersLock'
         /\ OneExport' /\ NoneExported' /\ NotItself'
         /\ ReadsAreFresh' /\ UsersAsked' /\ UsersKnown'
<1> DEFINE o == op[t]
<1> USE PackagesAssumption
<1>1. /\ Arguments(o) /\ Moves(t, NoOp)
      /\ Typed' /\ Framed(o.p) /\ HomesMove(o.p) /\ Visible(o)
      /\ suspect \subseteq suspect' /\ suspect' \subseteq Package
  BY CommitChanges
<1>4. TypeOK /\ o.at = "looked" /\ lock[o.p] = t /\ torn' = torn
  BY DEF PackagesInv, Commit, ChangersLock, HasLocks
<1>2. TypeOK'
  BY <1>1, <1>4 DEF TypeOK, Typed, HomesMove, Moves
<1>3. /\ OpsTyped' /\ ChangersLock'
      /\ op'[t] = NoOp /\ \A u \in Thread : u # t => op'[u] = op[u]
  BY <1>1, MovesOps
<1>5. OneExport'
  <2> SUFFICES ASSUME NEW q \in Package, NEW n \in Name
               PROVE  AtMostOne(Named(external[q], n))'
    BY DEF OneExport
  <2>1. AtMostOne(Named(external[q], n))
    BY DEF PackagesInv, OneExport
  <2>2. CASE q # o.p \/ o.kind # "export"
    BY <2>1, <2>2, <1>1 DEF AtMostOne, Named, Framed, Visible, Arguments
  <2>3. CASE q = o.p /\ o.kind = "export"
    <3>1. Named(external[q], NameOf[o.s]) = {}
      BY <2>3, <1>4 DEF PackagesInv, NoneExported
    <3>2. external'[q] = external[q] \union {o.s}
      BY <2>3, <1>1 DEF Visible
    <3> QED
      BY <3>1, <3>2, <2>1 DEF AtMostOne, Named
  <2> QED
    BY <2>2, <2>3
<1>6. NoneExported'
  <2> SUFFICES ASSUME NEW u \in Thread, op'[u].at = "looked", op'[u].kind = "export"
               PROVE  Named(external[op[u].p], NameOf[op[u].s])' = {}
    BY DEF NoneExported
  <2>1. u # t /\ op'[u] = op[u]
    BY <1>3 DEF NoOp, Op
  <2>2. op[u].p \in Package /\ lock[op[u].p] # t
    BY <2>1, OthersLock
  <2>3. external'[op[u].p] = external[op[u].p]
    BY <2>1, <2>2, <1>1, <1>4 DEF Framed
  <2> QED
    BY <2>1, <2>3 DEF PackagesInv, NoneExported, Named
<1>7. NotItself' /\ ReadsAreFresh'
  <2>1. \A u \in Thread : Fresh(op'[u], uses, usedby)
    BY <1>3 DEF PackagesInv, ReadsAreFresh, Fresh, NoOp, Op
  <2> QED
    BY <1>1, <2>1 DEF PackagesInv, NotItself, ReadsAreFresh, Fresh, Visible
<1>8. UsersAsked' /\ UsersKnown'
  <2>1. \A x, q \in Package : Between(x, q)' = Between(x, q)
    BY <1>3, <1>4 DEF Between, NoOp, Op
  <2> QED
    BY <1>1, <1>4, <2>1 DEF PackagesInv, UsersAsked, UsersKnown, Visible
<1> QED
  BY <1>2, <1>3, <1>5, <1>6, <1>7, <1>8
----------------------------------------------------------------------------
(***************************************************************************)
(* Conflicts.  A package has none as long as it inherits no more, ...      *)
(***************************************************************************)
Agree(P, S, I) ==
  /\ AtMostOne(P)
  /\ P = {} => AtMostOne(I)
  /\ \A s \in P \ S : I \subseteq {s}

LEMMA ConflictFree ==
  \A p, n : ~Conflict(p, n) <=> Agree(Present(p, n), shadowings[p], Inherited(p, n))
  BY DEF Conflict, Agree

LEMMA InheritsNoMore ==
  ASSUME NEW P, NEW S, NEW I, NEW J, Agree(P, S, I), J \subseteq I
  PROVE  Agree(P, S, J)
  BY DEF Agree, AtMostOne

(* ... or inherits also a symbol that does not clash.                      *)
LEMMA InheritsOneMore ==
  ASSUME PackagesInv, NEW p \in Package \ suspect, NEW s \in Symbol, ~Clashes(p, s),
         NEW J, J \subseteq Inherited(p, NameOf[s]) \union {s}
  PROVE  Agree(Present(p, NameOf[s]), shadowings[p], J)
<1> DEFINE n == NameOf[s]
           P == Present(p, n)
           I == Inherited(p, n)
           f == Found(p, n)
<1> USE PackagesAssumption
<1>1. n \in Name /\ Agree(P, shadowings[p], I)
  BY ConflictFree DEF PackagesInv, NoConflict
<1>2. f \in {NIL, s} \/ f \in shadowings[p]
  BY DEF Clashes
<1>3. /\ f = NIL <=> Accessible(p, n) = {}
      /\ f # NIL => f \in Accessible(p, n)
  BY FoundIsAccessible
<1>4. P # {} => f \in P /\ f # NIL
  BY <1>3 DEF Accessible, Present, Named
<1>5. P = {} => Accessible(p, n) = I
  BY DEF Accessible, Present, Named
<1>6. f \in shadowings[p] => f \in P
  <2> SUFFICES ASSUME f \in shadowings[p] PROVE f \in P
    OBVIOUS
  <2>1. f \in internal[p] \union external[p] /\ f \in Symbol /\ f # NIL
    BY DEF PackagesInv, ShadowingPresent, TypeOK
  <2>2. NameOf[f] = n
    BY <2>1, <1>3 DEF Accessible, Present, Inherited, Named
  <2> QED
    BY <2>1, <2>2 DEF Present, Named
<1> HIDE DEF n, P, I, f
<1>7. J \subseteq I \union {s}
  BY DEF I, n
<1> QED
  BY <1>1, <1>2, <1>3, <1>4, <1>5, <1>6, <1>7 DEF Agree, AtMostOne, P, n

(* A change that was looked at when it is made leaves a package unsuspect. *)
LEMMA Unsuspect ==
  ASSUME PackagesInv, NEW t \in Thread, Commit(t)
  PROVE  /\ op[t].p \notin suspect' => Goes(op[t])
         /\ op[t].kind = "export" =>
              \A u \in usedby[op[t].p] \ suspect' : ~Clashes(u, op[t].s)
<1> DEFINE o == op[t]
<1>1. suspect' = suspect \union Stale(o)
  BY DEF Commit
<1>2. o.p \notin suspect' => Goes(o)
  BY <1>1 DEF Stale
<1>3. ASSUME o.kind = "export", NEW u \in usedby[o.p] \ suspect' PROVE ~Clashes(u, o.s)
  <2>1. CASE Goes(o)
    BY <1>3, <2>1 DEF Goes, MayExport
  <2>2. CASE ~Goes(o)
    BY <1>1, <1>3, <2>2 DEF Stale
  <2> QED
    BY <2>1, <2>2
<1> QED
  BY <1>2, <1>3

(* The packages other than the one that is changed.                        *)
LEMMA OtherPackages ==
  ASSUME PackagesInv, NEW t \in Thread, Commit(t),
         NEW q \in Package \ suspect', q # op[t].p, NEW n \in Name
  PROVE  ~Conflict(q, n)'
<1> DEFINE o == op[t]
<1> USE PackagesAssumption
<1>1. /\ Arguments(o) /\ Framed(o.p) /\ Visible(o) /\ suspect \subseteq suspect'
  BY CommitChanges
<1>2. /\ Present(q, n)' = Present(q, n)
      /\ shadowings'[q] = shadowings[q] /\ uses'[q] = uses[q]
  BY <1>1 DEF Framed, Present, Named
<1>3. TypeOK /\ Agree(Present(q, n), shadowings[q], Inherited(q, n))
  BY <1>1, ConflictFree DEF PackagesInv, NoConflict
<1>4. Agree(Present(q, n), shadowings[q], Inherited(q, n)')
  <2>1. CASE o.kind # "export" \/ o.p \notin uses[q] \/ n # NameOf[o.s]
    <3>1. Inherited(q, n)' \subseteq Inherited(q, n)
      BY <1>1, <1>2, <1>3, <2>1 DEF Inherited, Named, Framed, Visible, TypeOK, Arguments
    <3> QED
      BY <3>1, <1>3, InheritsNoMore
  <2>2. CASE o.kind = "export" /\ o.p \in uses[q] /\ n = NameOf[o.s]
    <3>1. o.s \in Symbol /\ q \in Package \ suspect
      BY <1>1, <2>2 DEF Arguments, OneLock, Asked
    <3>2. o.p \in Package /\ lock[o.p] = t /\ o.at = "looked"
      BY <1>1 DEF PackagesInv, Commit, ChangersLock, HasLocks, Arguments
    <3>4. ~Between(o.p, q)
      BY <3>2, OthersLock DEF Between
    <3>5. q \in usedby[o.p]
      BY <2>2, <3>1, <3>2, <3>4 DEF PackagesInv, UsersAsked
    <3>6. ~Clashes(q, o.s)
      BY <2>2, <3>5, Unsuspect
    <3>3. Inherited(q, n)' \subseteq Inherited(q, n) \union {o.s}
      BY <1>1, <1>2, <1>3, <2>2 DEF Inherited, Named, Framed, Visible, TypeOK, Arguments
    <3> QED
      BY <2>2, <3>1, <3>6, <3>3, InheritsOneMore
  <2> QED
    BY <2>1, <2>2
<1> QED
  BY <1>2, <1>4 DEF Conflict, Agree

(* The package that is changed.                                            *)
OwnAgrees(p) ==
  /\ \A n \in Name : Agree(Present(p, n), shadowings[p], Inherited(p, n))
  /\ shadowings[p] \subseteq internal[p] \union external[p]
  /\ \A s \in Symbol : home[s] = p => s \in internal[p] \union external[p]

LEMMA OwnPackage ==
  ASSUME PackagesInv, NEW t \in Thread, Commit(t),
         NEW o, o = op[t], NEW p, p = o.p, p \notin suspect'
  PROVE  OwnAgrees(p)'
<1> USE PackagesAssumption
<1>1. /\ Arguments(o) /\ Framed(p) /\ Visible(o) /\ suspect \subseteq suspect'
      /\ p \in Package
  BY CommitChanges DEF Arguments
<1>2. TypeOK /\ OwnAgrees(p)
  BY <1>1, ConflictFree
     DEF PackagesInv, NoConflict, ShadowingPresent, HomeIsPresent, OwnAgrees
<1>3. Goes(o)
  BY Unsuspect
<1>4. ASSUME NEW n PROVE Inherited(p, n)' = Inherited(p, n)
  <2>1. uses'[p] = uses[p]
    BY <1>1 DEF Visible
  <2>2. \A x \in uses[p] : external'[x] = external[x]
    BY <1>1, <1>2 DEF PackagesInv, NotItself, TypeOK, Framed
  <2>3. {external'[x] : x \in uses'[p]} = {external[x] : x \in uses[p]}
    BY <2>1, <2>2
  <2> QED
    BY <2>3 DEF Inherited, Named
<1>f. ASSUME NEW n
      PROVE  /\ Found(p, n) = NIL <=> Accessible(p, n) = {}
             /\ Found(p, n) # NIL => Found(p, n) \in Accessible(p, n)
             /\ Accessible(p, n) \subseteq Symbol
  BY <1>1, FoundIsAccessible
<1>g. ASSUME NEW n \in Name, Present(p, n) # {} PROVE Present(p, n) = {Found(p, n)}
  <2>1. Accessible(p, n) # {} /\ Accessible(p, n) \subseteq Present(p, n)
    BY <1>g DEF Accessible, Present, Named
  <2>2. Found(p, n) \in Present(p, n)
    BY <2>1, <1>f
  <2>3. AtMostOne(Present(p, n))
    BY <1>2 DEF OwnAgrees, Agree
  <2> QED
    BY <2>2, <2>3 DEF AtMostOne
<1> USE <1>1, <1>2 DEF TwoLocks, OwnAgrees
<1>5. CASE o.kind = "intern" /\ InternCommit(o)
  <2>1. PICK s \in Born(o.n) : /\ internal' = Plus(internal, p, {s})
                               /\ home' = Homes(p, {}, {s})
                               /\ UNCHANGED <<external, shadowings, uses, usedby>>
    BY <1>5 DEF InternCommit
  <2>2. internal'[p] = internal[p] \union {s} /\ NameOf[s] = o.n /\ s \in Symbol
    BY <2>1 DEF Plus, TypeOK, Born
  <2>3. Present(p, o.n) = {} /\ Inherited(p, o.n) = {}
    BY <1>3, <1>5 DEF Goes, MayIntern, Accessible
  <2>4. ASSUME NEW n \in Name
        PROVE  Agree(Present(p, n), shadowings[p], Inherited(p, n))'
    <3>1. Inherited(p, n)' = Inherited(p, n)
      BY <1>4
    <3>2. Present(p, n)' = IF n = o.n THEN Present(p, n) \union {s} ELSE Present(p, n)
      BY <2>1, <2>2 DEF Present, Named
    <3>3. Agree(Present(p, n), shadowings[p], Inherited(p, n))
      OBVIOUS
    <3> QED
      BY <2>1, <2>3, <3>1, <3>2, <3>3 DEF Agree, AtMostOne
  <2>5. \A r \in Symbol : home'[r] = p => r \in internal'[p] \union external'[p]
    BY <2>1, <2>2 DEF Homes
  <2> QED
    BY <2>1, <2>2, <2>4, <2>5
<1>6. CASE o.kind = "unintern" /\ UninternCommit(o)
  <2>1. o.s \in Symbol /\ NameOf[o.s] \in Name
    BY <1>6 DEF Arguments, OneLock, Asked
  <2>2. /\ internal'[p] = internal[p] \ {o.s} /\ external'[p] = external[p] \ {o.s}
        /\ shadowings'[p] = shadowings[p] \ {o.s} /\ home' = Homes(p, {o.s}, {})
    BY <1>6 DEF UninternCommit, Minus, TypeOK
  <2>3. /\ o.s \in Present(p, NameOf[o.s])
        /\ o.s \in shadowings[p] => AtMostOne(Inherited(p, NameOf[o.s]))
    BY <1>3, <1>6 DEF Goes, MayUnintern
  <2>4. ASSUME NEW n \in Name
        PROVE  Agree(Present(p, n), shadowings[p], Inherited(p, n))'
    <3>1. Inherited(p, n)' = Inherited(p, n)
      BY <1>4
    <3>2. Present(p, n)' = Present(p, n) \ {o.s}
      BY <2>2 DEF Present, Named
    <3>3. Agree(Present(p, n), shadowings[p], Inherited(p, n))
      OBVIOUS
    <3>4. n # NameOf[o.s] => o.s \notin Present(p, n)
      BY DEF Present, Named
    <3> QED
      BY <2>2, <2>3, <3>1, <3>2, <3>3, <3>4 DEF Agree, AtMostOne
  <2>5. \A r \in Symbol : home'[r] = p => r \in internal'[p] \union external'[p]
    BY <2>2 DEF Homes
  <2> QED
    BY <2>2, <2>4, <2>5
<1>7. CASE o.kind = "export" /\ ExportCommit(o)
  <2>1. o.s \in Symbol /\ NameOf[o.s] \in Name
    BY <1>7 DEF Arguments, OneLock, Asked
  <2>2. /\ internal'[p] = internal[p] \ {o.s} /\ external'[p] = external[p] \union {o.s}
        /\ shadowings' = shadowings /\ home' = home
    BY <1>7 DEF ExportCommit, Plus, Minus, TypeOK
  <2>3. MayExport(o)
    BY <1>3, <1>7 DEF Goes
  <2>4. Named(external[p], NameOf[o.s]) = {} /\ o.s \in Accessible(p, NameOf[o.s])
    BY <2>1, <2>3, ExportSees
  <2>5. ASSUME NEW n \in Name
        PROVE  Agree(Present(p, n), shadowings[p], Inherited(p, n))'
    <3>1. Inherited(p, n)' = Inherited(p, n)
      BY <1>4
    <3>2. Present(p, n)' =
            IF n = NameOf[o.s] THEN Present(p, n) \union {o.s} ELSE Present(p, n)
      BY <2>2 DEF Present, Named
    <3>3. Agree(Present(p, n), shadowings[p], Inherited(p, n))
      OBVIOUS
    <3>4. n = NameOf[o.s] =>
            o.s \in IF Present(p, n) # {} THEN Present(p, n) ELSE Inherited(p, n)
      BY <2>4 DEF Accessible
    <3> QED
      BY <2>2, <3>1, <3>2, <3>3, <3>4 DEF Agree, AtMostOne
  <2> QED
    BY <2>2, <2>5
<1>8. CASE o.kind = "unexport" /\ UnexportCommit(o)
  <2>1. o.s \in Symbol
    BY <1>8 DEF Arguments, OneLock, Asked
  <2>2. /\ internal'[p] = internal[p] \union {o.s} /\ external'[p] = external[p] \ {o.s}
        /\ shadowings' = shadowings /\ home' = home
    BY <1>8 DEF UnexportCommit, Plus, Minus, TypeOK
  <2>3. o.s \in external[p]
    BY <1>3, <1>8 DEF Goes, MayUnexport
  <2>4. internal'[p] \union external'[p] = internal[p] \union external[p]
    BY <2>2, <2>3
  <2>5. ASSUME NEW n \in Name
        PROVE  Agree(Present(p, n), shadowings[p], Inherited(p, n))'
    <3>1. Inherited(p, n)' = Inherited(p, n)
      BY <1>4
    <3>2. Present(p, n)' = Present(p, n)
      BY <2>4 DEF Present
    <3> QED
      BY <2>2, <3>1, <3>2
  <2> QED
    BY <2>2, <2>4, <2>5
<1>9. CASE o.kind = "import" /\ ImportCommit(o)
  <2>1. o.s \in Symbol /\ NameOf[o.s] \in Name
    BY <1>9 DEF Arguments, OneLock, Asked
  <2>2. /\ internal'[p] = internal[p] \union {o.s} /\ external' = external
        /\ shadowings' = shadowings /\ home' = Homes(p, {}, {o.s})
    BY <1>9 DEF ImportCommit, Plus, TypeOK
  <2>3. Found(p, NameOf[o.s]) \in {NIL, o.s} /\ Present(p, NameOf[o.s]) = {}
    BY <1>3, <1>9 DEF Goes, MayImport
  <2>4. Inherited(p, NameOf[o.s]) \subseteq {o.s}
    <3>1. Accessible(p, NameOf[o.s]) = Inherited(p, NameOf[o.s])
      BY <2>3 DEF Accessible, Present, Named
    <3>2. AtMostOne(Inherited(p, NameOf[o.s]))
      BY <2>1, <2>3 DEF Agree
    <3>3. /\ Found(p, NameOf[o.s]) = NIL => Inherited(p, NameOf[o.s]) = {}
          /\ Found(p, NameOf[o.s]) # NIL => Found(p, NameOf[o.s]) \in Inherited(p, NameOf[o.s])
      BY <3>1, <1>f
    <3> QED
      BY <2>1, <2>3, <3>2, <3>3 DEF AtMostOne
  <2>5. ASSUME NEW n \in Name
        PROVE  Agree(Present(p, n), shadowings[p], Inherited(p, n))'
    <3>1. Inherited(p, n)' = Inherited(p, n)
      BY <1>4
    <3>2. Present(p, n)' =
            IF n = NameOf[o.s] THEN Present(p, n) \union {o.s} ELSE Present(p, n)
      BY <2>2 DEF Present, Named
    <3>3. Agree(Present(p, n), shadowings[p], Inherited(p, n))
      OBVIOUS
    <3> QED
      BY <2>2, <2>3, <2>4, <3>1, <3>2, <3>3 DEF Agree, AtMostOne
  <2>6. \A r \in Symbol : home'[r] = p => r \in internal'[p] \union external'[p]
    BY <2>2 DEF Homes
  <2> QED
    BY <2>2, <2>5, <2>6
<1>10. CASE o.kind = "shadowing-import" /\ ShadowingImportCommit(o)
  <2> DEFINE n0 == NameOf[o.s]
             there == {Found(p, n0)} \intersect Present(p, n0)
             old == Named(internal[p], n0)
  <2>1. o.s \in Symbol /\ n0 \in Name
    BY <1>10 DEF Arguments, OneLock, Asked
  <2>2. there = Present(p, n0) /\ old \subseteq there
    BY <2>1, <1>g DEF Present, Named
  <2>3. CASE /\ o.s \in there
             /\ shadowings' = Plus(shadowings, p, {o.s})
             /\ UNCHANGED <<internal, external, home, uses, usedby>>
    <3>1. shadowings'[p] = shadowings[p] \union {o.s}
      BY <2>3 DEF Plus, TypeOK
    <3>2. o.s \in internal[p] \union external[p]
      BY <2>2, <2>3 DEF Present, Named
    <3>3. ASSUME NEW n \in Name
          PROVE  Agree(Present(p, n), shadowings[p], Inherited(p, n))'
      <4>1. Inherited(p, n)' = Inherited(p, n) /\ Present(p, n)' = Present(p, n)
        BY <1>4, <2>3 DEF Present
      <4>2. Agree(Present(p, n), shadowings[p], Inherited(p, n))
        OBVIOUS
      <4> QED
        BY <3>1, <4>1, <4>2 DEF Agree
    <3> QED
      BY <2>3, <3>1, <3>2, <3>3
  <2>4. CASE /\ o.s \notin there
             /\ internal' = [internal EXCEPT ![p] = (@ \ old) \union {o.s}]
             /\ external' = Minus(external, p, there)
             /\ shadowings' = [shadowings EXCEPT ![p] = (@ \ there) \union {o.s}]
             /\ home' = Homes(p, there, {o.s})
             /\ UNCHANGED <<uses, usedby>>
    <3> HIDE DEF there, old
    <3>1. /\ internal'[p] = (internal[p] \ old) \union {o.s}
          /\ external'[p] = external[p] \ there
          /\ shadowings'[p] = (shadowings[p] \ there) \union {o.s}
      BY <2>4 DEF Minus, TypeOK
    <3>2. ASSUME NEW n \in Name
          PROVE  Agree(Present(p, n), shadowings[p], Inherited(p, n))'
      <4>1. Inherited(p, n)' = Inherited(p, n)
        BY <1>4
      <4>2. Agree(Present(p, n), shadowings[p], Inherited(p, n))
        OBVIOUS
      <4>3. CASE n = n0
        <5>1. Present(p, n)' = {o.s}
          BY <4>3, <3>1, <2>2 DEF Present, Named, there, old
        <5> QED
          BY <5>1, <3>1 DEF Agree, AtMostOne
      <4>4. CASE n # n0
        <5>1. Present(p, n)' = Present(p, n)
          BY <4>4, <3>1 DEF Present, Named, there, old
        <5>2. Present(p, n) \ shadowings'[p] \subseteq Present(p, n) \ shadowings[p]
          BY <4>4, <3>1, <2>2 DEF Present, Named
        <5> QED
          BY <5>1, <5>2, <4>1, <4>2 DEF Agree
      <4> QED
        BY <4>3, <4>4
    <3>3. shadowings'[p] \subseteq internal'[p] \union external'[p]
      BY <3>1, <2>2
    <3>4. ASSUME NEW r \in Symbol, home'[r] = p
          PROVE  r \in internal'[p] \union external'[p]
      <4>1. r = o.s \/ (home[r] = p /\ r \notin there)
        BY <3>4, <2>4 DEF Homes
      <4> QED
        BY <4>1, <3>1, <2>2
    <3> QED
      BY <3>2, <3>3, <3>4
  <2> QED
    BY <1>10, <2>3, <2>4 DEF ShadowingImportCommit
<1>11. CASE o.kind = "shadow" /\ ShadowCommit(o)
  <2>1. o.n \in Name
    BY <1>11 DEF Arguments, Asked
  <2>2. CASE /\ Present(p, o.n) # {}
             /\ shadowings' = Plus(shadowings, p, {Found(p, o.n)})
             /\ UNCHANGED <<internal, external, home, uses, usedby>>
    <3>1. shadowings'[p] = shadowings[p] \union {Found(p, o.n)}
      BY <2>2 DEF Plus, TypeOK
    <3>2. Found(p, o.n) \in internal[p] \union external[p]
      BY <2>1, <2>2, <1>g DEF Present, Named
    <3>3. ASSUME NEW n \in Name
          PROVE  Agree(Present(p, n), shadowings[p], Inherited(p, n))'
      <4>1. Inherited(p, n)' = Inherited(p, n) /\ Present(p, n)' = Present(p, n)
        BY <1>4, <2>2 DEF Present
      <4>2. Agree(Present(p, n), shadowings[p], Inherited(p, n))
        OBVIOUS
      <4> QED
        BY <3>1, <4>1, <4>2 DEF Agree
    <3> QED
      BY <2>2, <3>1, <3>2, <3>3
  <2>3. CASE Present(p, o.n) = {} /\ \E s \in Born(o.n) :
               /\ internal' = Plus(internal, p, {s})
               /\ shadowings' = Plus(shadowings, p, {s})
               /\ home' = Homes(p, {}, {s})
               /\ UNCHANGED <<external, uses, usedby>>
    <3>1. PICK s \in Born(o.n) : /\ internal' = Plus(internal, p, {s})
                                 /\ shadowings' = Plus(shadowings, p, {s})
                                 /\ home' = Homes(p, {}, {s})
                                 /\ UNCHANGED <<external, uses, usedby>>
      BY <2>3
    <3>2. /\ internal'[p] = internal[p] \union {s} /\ NameOf[s] = o.n /\ s \in Symbol
          /\ shadowings'[p] = shadowings[p] \union {s}
      BY <3>1 DEF Plus, TypeOK, Born
    <3>3. ASSUME NEW n \in Name
          PROVE  Agree(Present(p, n), shadowings[p], Inherited(p, n))'
      <4>1. Inherited(p, n)' = Inherited(p, n)
        BY <1>4
      <4>2. Present(p, n)' = IF n = o.n THEN {s} ELSE Present(p, n)
        BY <2>3, <3>1, <3>2 DEF Present, Named
      <4>3. Agree(Present(p, n), shadowings[p], Inherited(p, n))
        OBVIOUS
      <4>4. CASE n = o.n
        BY <3>2, <4>2, <4>4 DEF Agree, AtMostOne
      <4>5. CASE n # o.n
        BY <3>2, <4>1, <4>2, <4>3, <4>5 DEF Agree
      <4> QED
        BY <4>4, <4>5
    <3>4. \A r \in Symbol : home'[r] = p => r \in internal'[p] \union external'[p]
      BY <3>1, <3>2 DEF Homes
    <3> QED
      BY <3>1, <3>2, <3>3, <3>4
  <2> QED
    BY <1>11, <2>2, <2>3 DEF ShadowCommit
<1> QED
  BY <1>5, <1>6, <1>7, <1>8, <1>9, <1>10, <1>11 DEF Commit
----------------------------------------------------------------------------
LEMMA CommitInv ==
  ASSUME PackagesInv, NEW t \in Thread, Commit(t)
  PROVE  PackagesInv'
<1> DEFINE o == op[t]
<1>1. /\ TypeOK' /\ OpsTyped' /\ ChangersLock'
      /\ OneExport' /\ NoneExported' /\ NotItself'
      /\ ReadsAreFresh' /\ UsersAsked' /\ UsersKnown'
  BY CommitTables
<1>2. /\ Framed(o.p) /\ HomesMove(o.p) /\ suspect \subseteq suspect'
  BY CommitChanges
<1>3. ASSUME NEW q \in Package \ suspect'
      PROVE  OwnAgrees(q)'
  <2>1. CASE q = o.p
    BY <2>1, OwnPackage
  <2>2. CASE q # o.p
    <3>1. \A n \in Name : Agree(Present(q, n), shadowings[q], Inherited(q, n))'
      BY <2>2, OtherPackages DEF Conflict, Agree
    <3>2. q \notin suspect /\ internal'[q] = internal[q] /\ external'[q] = external[q]
          /\ shadowings'[q] = shadowings[q]
      BY <1>2, <2>2 DEF Framed
    <3>3. \A s \in Symbol : home'[s] = q => home[s] = q
      BY <1>2, <2>2, PackagesAssumption DEF HomesMove
    <3> QED
      BY <3>1, <3>2, <3>3 DEF OwnAgrees, PackagesInv, ShadowingPresent, HomeIsPresent
  <2> QED
    BY <2>1, <2>2
<1>4. ShadowingPresent' /\ HomeIsPresent'
  BY <1>3 DEF OwnAgrees, ShadowingPresent, HomeIsPresent
<1>5. NoConflict'
  BY <1>3 DEF OwnAgrees, NoConflict, Conflict, Agree
<1> QED
  BY <1>1, <1>4, <1>5 DEF PackagesInv

----------------------------------------------------------------------------
(***************************************************************************)
(* The two assignments of use-package and unuse-package.                   *)
(***************************************************************************)
LEMMA AssignsLists ==
  ASSUME PackagesInv, NEW t \in Thread, op[t].at \in {"uses", "usedby"}
  PROVE  /\ op[t] \in OpType /\ Arguments(op[t]) /\ op[t].kind \in TwoLocks
         /\ op[t].p \in Package /\ op[t].x \in Package
         /\ lock[op[t].p] = t /\ lock[op[t].x] = t
         /\ Fresh(op[t], uses, usedby)
<1>1. op[t] \in OpType /\ Arguments(op[t]) /\ HasLocks(t, op[t], lock) /\ Fresh(op[t], uses, usedby)
  BY DEF PackagesInv, OpsTyped, ChangersLock, ReadsAreFresh
<1> QED  BY <1>1 DEF Arguments, HasLocks, Doubles

(* Only the user of which the list changes inherits other symbols.         *)
LEMMA UsesConflict ==
  ASSUME PackagesInv, NEW t \in Thread, SetUses(t), NEW o, o = op[t], NEW p, p = o.p,
         NEW q \in Package \ suspect', NEW n \in Name
  PROVE  ~Conflict(q, n)'
<1> USE PackagesAssumption
<1>1. /\ Arguments(o) /\ o.kind \in TwoLocks /\ p \in Package /\ o.x \in Package
      /\ o.saw = uses[p] /\ TypeOK
  BY AssignsLists DEF SetUses, Fresh, PackagesInv
<1>2. /\ UNCHANGED <<internal, external, shadowings>>
      /\ \A r \in Package : r # p => uses'[r] = uses[r]
      /\ uses'[p] = IF o.kind = "use" THEN uses[p] \union {o.x} ELSE uses[p] \ {o.x}
  BY <1>1 DEF SetUses, Symbols, Listed, TypeOK
<1>3. q \notin suspect /\ (q = p => Goes(o))
  BY DEF SetUses, Stale
<1>4. Agree(Present(q, n), shadowings[q], Inherited(q, n))
  BY <1>3, ConflictFree DEF PackagesInv, NoConflict
<1>5. Present(q, n)' = Present(q, n) /\ shadowings'[q] = shadowings[q]
  BY <1>2 DEF Present
<1>6. Agree(Present(q, n), shadowings[q], Inherited(q, n)')
  <2>1. CASE q # p \/ o.kind # "use"
    <3>1. uses'[q] \subseteq uses[q]
      BY <1>2, <2>1
    <3>2. Inherited(q, n)' \subseteq Inherited(q, n)
      BY <1>2, <3>1 DEF Inherited, Named
    <3> QED
      BY <1>4, <3>2, InheritsNoMore
  <2>2. CASE q = p /\ o.kind = "use"
    <3>1. Inherited(q, n)' = Inherited(q, n) \union Named(external[o.x], n)
      BY <1>2, <2>2 DEF Inherited, Named
    <3>2. \A s \in external[o.x] : ~Clashes(q, s)
      BY <1>3, <2>2 DEF Goes, MayUse
    <3>3. AtMostOne(Named(external[o.x], n))
      BY <1>1 DEF PackagesInv, OneExport
    <3>4. CASE Named(external[o.x], n) = {}
      BY <1>4, <3>1, <3>4
    <3>5. ASSUME NEW s \in Named(external[o.x], n)
          PROVE  Agree(Present(q, n), shadowings[q], Inherited(q, n)')
      <4>1. s \in Symbol /\ NameOf[s] = n /\ ~Clashes(q, s)
        BY <1>1, <3>2 DEF Named, TypeOK
      <4>2. Inherited(q, n)' \subseteq Inherited(q, NameOf[s]) \union {s}
        BY <3>1, <3>3, <4>1 DEF AtMostOne
      <4> QED
        BY <1>3, <4>1, <4>2, InheritsOneMore
    <3> QED
      BY <3>4, <3>5
  <2> QED
    BY <2>1, <2>2
<1> QED
  BY <1>5, <1>6 DEF Conflict, Agree

LEMMA SetUsesInv ==
  ASSUME PackagesInv, NEW t \in Thread, SetUses(t)
  PROVE  PackagesInv'
<1> USE PackagesAssumption
<1> DEFINE o == op[t]
           p == o.p
           x == o.x
           new == [o EXCEPT !.at = "usedby", !.saw = usedby[x]]
<1>1. /\ o \in OpType /\ Arguments(o) /\ o.kind \in TwoLocks /\ p \in Package /\ x \in Package
      /\ lock[p] = t /\ lock[x] = t /\ o.saw = uses[p] /\ o.at = "uses" /\ TypeOK
  BY AssignsLists DEF SetUses, Fresh, PackagesInv
<1>2. /\ UNCHANGED <<internal, external, shadowings, home, usedby, torn, lock>>
      /\ uses' \in [Package -> SUBSET Package]
      /\ \A q \in Package : q # p => uses'[q] = uses[q]
      /\ uses'[p] = IF o.kind = "use" THEN uses[p] \union {x} ELSE uses[p] \ {x}
  <2>1. UNCHANGED <<internal, external, shadowings, home, usedby, torn, lock>>
    BY DEF SetUses, Symbols
  <2>2. PICK list : list = IF o.kind = "use" THEN uses[p] \union {x} ELSE uses[p] \ {x}
    OBVIOUS
  <2>3. uses' = [uses EXCEPT ![p] = list]
    BY <1>1, <2>2 DEF SetUses, Listed
  <2>4. uses \in [Package -> SUBSET Package] /\ list \in SUBSET Package
    BY <1>1, <2>2 DEF TypeOK
  <2> HIDE DEF o, p, x
  <2> QED  BY <1>1, <2>1, <2>2, <2>3, <2>4
<1>3. suspect \subseteq suspect' /\ suspect' \subseteq Package
  BY <1>1 DEF SetUses, Stale, TypeOK, TwoLocks
<1>4. /\ new \in OpType /\ new.at = "usedby" /\ new.saw = usedby[x] /\ new.p = p /\ new.x = x
      /\ new.kind = o.kind
  BY <1>1 DEF OpType, Places, TypeOK
<1>5. Arguments(new)
  BY <1>1, <1>4 DEF OpType, Arguments, Asked, OneLock, TwoLocks
<1>6. Moves(t, new)
  BY <1>1, <1>2, <1>4, <1>5 DEF SetUses, Moves, TypeOK, HasLocks
<1> HIDE DEF new
<1>7. /\ OpsTyped' /\ ChangersLock'
      /\ op'[t] = new /\ \A u \in Thread : u # t => op'[u] = op[u]
  BY <1>6, MovesOps
<1>8. TypeOK'
  BY <1>1, <1>2, <1>3 DEF TypeOK
<1>9. OneExport' /\ NoneExported' /\ ShadowingPresent' /\ HomeIsPresent'
  <2>1. OneExport' /\ ShadowingPresent' /\ HomeIsPresent'
    BY <1>2, <1>3 DEF PackagesInv, OneExport, ShadowingPresent, HomeIsPresent, Named
  <2>2. NoneExported'
    BY <1>2, <1>4, <1>7 DEF PackagesInv, NoneExported, Named
  <2> QED
    BY <2>1, <2>2
<1>10. NotItself'
  BY <1>1, <1>2 DEF PackagesInv, NotItself, Arguments
<1>11. ReadsAreFresh'
  <2>1. Fresh(new, uses', usedby)
    BY <1>1, <1>2, <1>4 DEF Fresh
  <2>2. ASSUME NEW u \in Thread, u # t PROVE Fresh(op[u], uses', usedby)
    <3>1. Fresh(op[u], uses, usedby)
      BY DEF PackagesInv, ReadsAreFresh
    <3>2. op[u].at \in {"uses", "usedby"} => op[u].p \in Package /\ op[u].p # p
      BY <1>1, <2>2, OthersLock
    <3> QED
      BY <1>2, <3>1, <3>2 DEF Fresh
  <2> QED
    BY <1>2, <1>7, <2>1, <2>2 DEF ReadsAreFresh, Fresh
<1>12. \A y, q \in Package : Between(y, q)' <=> Between(y, q) \/ (y = x /\ q = p)
  <2>1. ASSUME NEW y \in Package, NEW q \in Package, Between(y, q)'
        PROVE  Between(y, q) \/ (y = x /\ q = p)
    <3>1. PICK u \in Thread : op'[u].at = "usedby" /\ op'[u].x = y /\ op'[u].p = q
      BY <2>1 DEF Between
    <3> QED  BY <1>4, <1>7, <3>1 DEF Between
  <2>2. ASSUME NEW y \in Package, NEW q \in Package, Between(y, q) PROVE Between(y, q)'
    <3>1. PICK u \in Thread : op[u].at = "usedby" /\ op[u].x = y /\ op[u].p = q
      BY <2>2 DEF Between
    <3>2. op'[u] = op[u]
      BY <1>1, <1>7, <3>1
    <3> QED  BY <3>1, <3>2 DEF Between
  <2>3. ASSUME NEW y \in Package, NEW q \in Package, y = x, q = p PROVE Between(y, q)'
    <3>1. op'[t].at = "usedby" /\ op'[t].x = y /\ op'[t].p = q
      BY <1>4, <1>7, <2>3
    <3> QED  BY <3>1 DEF Between
  <2> QED  BY <2>1, <2>2, <2>3
<1>13. UsersKnown' /\ UsersAsked'
  <2>1. \A y, q \in Package : ~(y = x /\ q = p) => (y \in uses'[q] <=> y \in uses[q])
    BY <1>2
  <2>2. ASSUME NEW q \in Package, NEW y \in Package, ~Between(y, q)', <<y, q>> \notin torn'
        PROVE  y \in uses'[q] <=> q \in usedby'[y]
    BY <1>2, <1>12, <2>1, <2>2 DEF PackagesInv, UsersKnown
  <2>3. ASSUME NEW q \in Package, NEW y \in Package, y \in uses'[q]
        PROVE  q \in usedby'[y] \/ Between(y, q)' \/ q \in suspect'
    BY <1>2, <1>3, <1>12, <2>1, <2>3 DEF PackagesInv, UsersAsked
  <2> QED
    BY <2>2, <2>3 DEF UsersKnown, UsersAsked
<1>14. NoConflict'
  BY UsesConflict DEF NoConflict
<1> QED
  BY <1>7, <1>8, <1>9, <1>10, <1>11, <1>13, <1>14 DEF PackagesInv

(* The second assignment, and the unwinding before it.                     *)
LEMMA UsedbyInv ==
  ASSUME PackagesInv, NEW t \in Thread, op[t].at = "usedby", SetUsedby(t) \/ Unwound(t)
  PROVE  PackagesInv'
<1> USE PackagesAssumption
<1> DEFINE o == op[t]
           p == o.p
           x == o.x
<1>1. /\ o \in OpType /\ Arguments(o) /\ o.kind \in TwoLocks /\ p \in Package /\ x \in Package
      /\ lock[p] = t /\ lock[x] = t /\ o.saw = usedby[x] /\ TypeOK
      /\ o.kind = "use" => x \in uses[p]
      /\ o.kind = "unuse" => x \notin uses[p]
  BY AssignsLists DEF Fresh, PackagesInv
<1>2. /\ UNCHANGED <<internal, external, shadowings, home, uses>> /\ UNCHANGED <<Symbols, uses>>
      /\ lock' = LocksWithout(t) /\ op' = [op EXCEPT ![t] = NoOp]
      /\ suspect \subseteq suspect' /\ suspect' \subseteq Package
      /\ usedby' \in [Package -> SUBSET Package] /\ torn' \subseteq Package \X Package
  <2>1. CASE SetUsedby(t)
    <3>1. Listed(o, p) \in SUBSET Package
      BY <1>1 DEF Listed, TypeOK
    <3> QED  BY <1>1, <2>1, <3>1 DEF SetUsedby, Symbols, TypeOK
  <2>2. CASE Unwound(t)
    BY <1>1, <2>2 DEF Unwound, Symbols, TypeOK
  <2> QED  BY <2>1, <2>2
<1>3. Moves(t, NoOp)
  BY <1>1, <1>2 DEF Moves, NoOp, Op, OpType, Places, LocksWithout, HasLocks, TypeOK
<1>4. /\ OpsTyped' /\ ChangersLock'
      /\ op'[t] = NoOp /\ \A u \in Thread : u # t => op'[u] = op[u]
  BY <1>3, MovesOps
<1>5. TypeOK'
  BY <1>1, <1>2, <1>3 DEF TypeOK, Moves
<1>6. OneExport' /\ NotItself' /\ ShadowingPresent' /\ HomeIsPresent' /\ NoConflict'
  BY <1>2, SymbolsStay
<1>7. NoneExported'
  BY <1>2, <1>4 DEF PackagesInv, NoneExported, Named, NoOp, Op
<1>8. \A y \in Package : y # x => usedby'[y] = usedby[y]
  BY <1>1 DEF SetUsedby, Unwound, TypeOK
<1>9. ReadsAreFresh'
  <2>1. ASSUME NEW u \in Thread, u # t PROVE Fresh(op[u], uses, usedby')
    <3>1. Fresh(op[u], uses, usedby)
      BY DEF PackagesInv, ReadsAreFresh
    <3>2. op[u].at = "usedby" => op[u].x \in Package /\ op[u].x # x
      BY <1>1, <2>1, OthersLock
    <3> QED
      BY <1>8, <3>1, <3>2 DEF Fresh
  <2>2. Fresh(NoOp, uses, usedby')
    BY DEF Fresh, NoOp, Op
  <2> QED
    BY <1>2, <1>4, <2>1, <2>2 DEF ReadsAreFresh, Fresh
<1>10. \A y, q \in Package : ~(y = x /\ q = p) => Between(y, q)' = Between(y, q)
  BY <1>1, <1>4 DEF Between, NoOp, Op
<1>11. \A y, q \in Package : ~(y = x /\ q = p) => (q \in usedby'[y] <=> q \in usedby[y])
  BY <1>1 DEF SetUsedby, Unwound, Listed, TypeOK
<1>12. \A y, q \in Package : ~(y = x /\ q = p) => (<<y, q>> \in torn' <=> <<y, q>> \in torn)
  <2>1. torn' \in {torn, torn \ {<<x, p>>}, torn \union {<<x, p>>}}
    BY DEF SetUsedby, Unwound
  <2>2. \A y, q : <<y, q>> = <<x, p>> <=> y = x /\ q = p
    OBVIOUS
  <2> QED  BY <2>1, <2>2
<1>13. \/ SetUsedby(t) /\ (p \in usedby'[x] <=> x \in uses[p])
       \/ Unwound(t) /\ <<x, p>> \in torn' /\ (o.kind = "use" => p \in suspect')
  <2>1. CASE SetUsedby(t)
    BY <1>1, <2>1 DEF SetUsedby, Listed, TypeOK, TwoLocks
  <2>2. CASE Unwound(t)
    BY <2>2 DEF Unwound
  <2> QED
    BY <2>1, <2>2
<1>14. UsersKnown'
  <2> SUFFICES ASSUME NEW q \in Package, NEW y \in Package, ~Between(y, q)', <<y, q>> \notin torn'
               PROVE  y \in uses[q] <=> q \in usedby'[y]
    BY <1>2 DEF UsersKnown
  <2>1. CASE y = x /\ q = p
    BY <1>13, <2>1
  <2>2. CASE ~(y = x /\ q = p)
    BY <1>10, <1>11, <1>12, <2>2 DEF PackagesInv, UsersKnown
  <2> QED
    BY <2>1, <2>2
<1>15. UsersAsked'
  <2> SUFFICES ASSUME NEW q \in Package, NEW y \in Package, y \in uses[q]
               PROVE  q \in usedby'[y] \/ Between(y, q)' \/ q \in suspect'
    BY <1>2 DEF UsersAsked
  <2>1. CASE y = x /\ q = p
    BY <1>1, <1>13, <2>1 DEF TwoLocks
  <2>2. CASE ~(y = x /\ q = p)
    BY <1>2, <1>10, <1>11, <2>2 DEF PackagesInv, UsersAsked
  <2> QED
    BY <2>1, <2>2
<1> QED
  BY <1>4, <1>5, <1>6, <1>7, <1>9, <1>14, <1>15 DEF PackagesInv

LEMMA NextInv == PackagesInv /\ [Next]_vars => PackagesInv'
<1>1. ASSUME PackagesInv, Next PROVE PackagesInv'
  <2>1. PICK t \in Thread :
          \/ \E o \in Ops(t) : LockAndLook(t, o) \/ BeginUse(t, o) \/ ImportContinued(t, o)
          \/ LockUsed(t) \/ LockUser(t) \/ RefuseUse(t) \/ UnwindUsed(t) \/ UnwindUser(t)
          \/ SetUses(t) \/ SetUsedby(t) \/ Unwound(t)
          \/ ImportRelock(t) \/ Commit(t) \/ OutOfSymbols(t)
    BY <1>1 DEF Next
  <2>2. CASE Commit(t)
    BY <1>1, <2>2, CommitInv
  <2>3. CASE SetUses(t)
    BY <1>1, <2>3, SetUsesInv
  <2>4. CASE SetUsedby(t) \/ (Unwound(t) /\ op[t].at = "usedby")
    BY <1>1, <2>4, UsedbyInv DEF SetUsedby
  <2>5. CASE ~(Commit(t) \/ SetUses(t) \/ SetUsedby(t) \/ (Unwound(t) /\ op[t].at = "usedby"))
    BY <1>1, <2>1, <2>5, LockingInv
  <2> QED
    BY <2>2, <2>3, <2>4, <2>5
<1>2. ASSUME PackagesInv, UNCHANGED vars PROVE PackagesInv'
  <2>1. /\ TypeOK' /\ OpsTyped' /\ ChangersLock' /\ NoneExported'
        /\ ReadsAreFresh' /\ UsersAsked' /\ UsersKnown'
    BY <1>2 DEF PackagesInv, vars, TypeOK, OpsTyped, Arguments, ChangersLock, HasLocks,
       NoneExported, Named, ReadsAreFresh, Fresh, UsersAsked, UsersKnown, Between
  <2>2. OneExport' /\ NotItself' /\ ShadowingPresent' /\ HomeIsPresent' /\ NoConflict'
    BY <1>2, SymbolsStay DEF vars, Symbols
  <2> QED
    BY <2>1, <2>2 DEF PackagesInv
<1> QED
  BY <1>1, <1>2

(* Every reachable state satisfies the inductive invariant.                *)
THEOREM PackagesInvariant == Spec => []PackagesInv
  BY InitInv, NextInv, PTL DEF Spec

(* The lists uses and usedby of any two packages are each other's inverse, *)
(* although use-package and unuse-package read and write them in several   *)
(* steps: the two locks keep others from writing a list in between.  What  *)
(* is left is an operation between its assignments, or unwound there.      *)
THEOREM UsersAreKnown == Spec => []UsersKnown
<1>1. PackagesInv => UsersKnown
  BY DEF PackagesInv
<1> QED
  BY <1>1, PackagesInvariant, PTL

(* The checks of package.c are enough: a package in which two symbols of a *)
(* name meet is one that an operation changed on a check that was stale or *)
(* ignored, or whose use-package was unwound half done.                    *)
THEOREM ChecksPreventConflicts == Spec => []NoConflict
<1>1. PackagesInv => NoConflict
  BY DEF PackagesInv
<1> QED
  BY <1>1, PackagesInvariant, PTL

(* make_resident_symbol_homeless and set_symbol_home_if_homeless are       *)
(* called wherever they must: a symbol is present in its home package.     *)
THEOREM SymbolsAreAtHome == Spec => []HomeIsPresent
<1>1. PackagesInv => HomeIsPresent
  BY DEF PackagesInv
<1> QED
  BY <1>1, PackagesInvariant, PTL
----------------------------------------------------------------------------
(***************************************************************************)
(* Who waits for whom.  A thread that has begun an operation waits for the *)
(* lock of one package: use-package and unuse-package for the used one and *)
(* then for the user, also in the unwinding of an error; an import that is *)
(* continued for its package.                                              *)
(***************************************************************************)
Awaits(t, p) ==
  \/ op[t].at \in {"half", "unwinding", "ignoring"} /\ p = op[t].p
  \/ op[t].at \in {"wanted", "refused"} /\ p = op[t].x

WaitsFor(t, u) == \E p \in Package : Awaits(t, p) /\ lock[p] = u

(* A lock is kept only by an operation that has reason to: while a thread  *)
(* waits for the user, it has the lock of the used package and no other.   *)
Keeps(o, p) ==
  \/ o.at \in {"half", "unwinding"} /\ p = o.x
  \/ o.at = "looked" /\ p = o.p
  \/ o.at \in {"uses", "usedby"} /\ p \in {o.p, o.x}

KeepersWork == \A p \in Package : lock[p] # NIL => Keeps(op[lock[p]], p)

(* use-package and unuse-package are given what programs give to them.     *)
Given == Usable \union Unusable

Permitted(o) == o.kind \in TwoLocks => <<o.x, o.p>> \in Given

OpsPermitted ==
  \A t \in Thread :
    /\ op[t].at # "idle" => Permitted(op[t])
    /\ op[t].at \in Doubles => op[t].kind \in TwoLocks

RingInv == KeepersWork /\ OpsPermitted

LEMMA OpsArePermitted ==
  ASSUME NEW t, NEW o \in Ops(t)
  PROVE  Permitted(o)
<1> SUFFICES ASSUME o.kind \in TwoLocks PROVE <<o.x, o.p>> \in Given
  BY DEF Permitted
<1>1. PICK u \in Given : o = Op("use", u[2], NIL, NIL, u[1]) \/ o = Op("unuse", u[2], NIL, NIL, u[1])
  BY DEF Ops, Op, Given, OneLock, TwoLocks
<1>2. u \in Package \X Package /\ o.x = u[1] /\ o.p = u[2]
  BY <1>1, PackagesAssumption DEF Op, Given
<1> QED  BY <1>2

(* Thread t goes on to new, which keeps what t has locked.                 *)
LEMMA MovesKeep ==
  ASSUME PackagesInv, RingInv, NEW t \in Thread, NEW new,
         op' = [op EXCEPT ![t] = new],
         \A p \in Package : \/ lock'[p] = lock[p] /\ lock[p] # t
                            \/ lock'[p] = NIL
                            \/ lock'[p] = t /\ Keeps(new, p),
         new.at # "idle" => Permitted(new),
         new.at \in Doubles => new.kind \in TwoLocks
  PROVE  RingInv'
<1>1. TypeOK /\ op \in [Thread -> OpType] /\ NIL \notin Thread
  BY PackagesAssumption DEF PackagesInv, OpsTyped
<1>2. /\ op'[t] = new
      /\ \A u \in Thread : u # t => op'[u] = op[u]
  BY <1>1
<1>3. ASSUME NEW p \in Package, lock'[p] # NIL PROVE Keeps(op'[lock'[p]], p)
  <2>1. CASE lock'[p] = lock[p] /\ lock[p] # t
    <3>1. lock[p] \in Thread /\ op'[lock'[p]] = op[lock[p]]
      BY <1>1, <1>2, <1>3, <2>1 DEF TypeOK
    <3> QED  BY <1>3, <2>1, <3>1 DEF RingInv, KeepersWork
  <2>2. CASE lock'[p] = t /\ Keeps(new, p)
    BY <1>2, <2>2
  <2> QED  BY <1>3, <2>1, <2>2
<1>4. KeepersWork'
  BY <1>3 DEF KeepersWork, Keeps
<1>5. OpsPermitted'
  BY <1>2 DEF RingInv, OpsPermitted, Permitted
<1> QED  BY <1>4, <1>5 DEF RingInv

LEMMA RingStep == PackagesInv /\ RingInv /\ [Next]_vars => RingInv'
<1> USE PackagesAssumption
<1>b. NoOp \in OpType /\ NoOp.at = "idle"
  BY DEF NoOp, Op, OpType, Places
<1>1. ASSUME PackagesInv, RingInv, NEW t \in Thread, NEW o \in Ops(t),
             LockAndLook(t, o) \/ BeginUse(t, o) \/ ImportContinued(t, o)
      PROVE  RingInv'
  <2>0. /\ o \in OpType /\ Permitted(o) /\ Arguments(o)
        /\ lock \in [Package -> Thread \union {NIL}] /\ NIL \notin Thread
    BY <1>1, OpsAreTyped, OpsArePermitted DEF PackagesInv, TypeOK
  <2>1. op[t].at = "idle"
    BY <1>1, <1>b DEF LockAndLook, BeginUse, ImportContinued
  <2>2. \A p \in Package : lock[p] # t
    BY <1>1, <2>0, <2>1 DEF RingInv, KeepersWork, Keeps
  <2>3. PICK a \in {"looked", "wanted", "ignoring"} :
          /\ op' = [op EXCEPT ![t] = [o EXCEPT !.at = a]]
          /\ a = "wanted" => o.kind \in TwoLocks
          /\ \/ a = "looked" /\ lock' = [lock EXCEPT ![o.p] = t]
             \/ a \in {"wanted", "ignoring"} /\ lock' = lock
    BY <1>1 DEF LockAndLook, BeginUse, ImportContinued, SetOp
  <2> DEFINE new == [o EXCEPT !.at = a]
  <2>4. new.at = a /\ new.p = o.p /\ new.x = o.x /\ new.kind = o.kind
    BY <2>0 DEF OpType
  <2>5. Permitted(new)
    BY <2>0, <2>4 DEF Permitted
  <2>6. \A p \in Package : \/ lock'[p] = lock[p] /\ lock[p] # t
                           \/ lock'[p] = t /\ Keeps(new, p)
    BY <2>0, <2>2, <2>3, <2>4 DEF Keeps
  <2> HIDE DEF new
  <2> QED  BY <1>1, <2>3, <2>4, <2>5, <2>6, MovesKeep DEF new, Doubles
<1>2. ASSUME PackagesInv, RingInv, NEW t \in Thread,
             \/ LockUsed(t) \/ LockUser(t) \/ UnwindUsed(t) \/ ImportRelock(t) \/ RefuseUse(t)
             \/ SetUses(t)
      PROVE  RingInv'
  <2>0. /\ op[t] \in OpType /\ op[t].at # "idle" /\ Permitted(op[t])
        /\ lock \in [Package -> Thread \union {NIL}] /\ NIL \notin Thread
        /\ op[t].at \in Doubles => op[t].kind \in TwoLocks
    BY <1>2 DEF PackagesInv, TypeOK, OpsTyped, RingInv, OpsPermitted, LockUsed, LockUser,
                UnwindUsed, ImportRelock, RefuseUse, SetUses
  <2>1. \A p \in Package : lock[p] = t => Keeps(op[t], p)
    BY <1>2, <2>0 DEF RingInv, KeepersWork
  <2> DEFINE new == op'[t]
  <2>2. /\ op' = [op EXCEPT ![t] = new]
        /\ new.p = op[t].p /\ new.x = op[t].x /\ new.kind = op[t].kind
        /\ new.at \in Doubles => op[t].kind \in TwoLocks
        /\ \/ new.at = "looked" /\ op[t].at = "ignoring" /\ lock' = [lock EXCEPT ![op[t].p] = t]
           \/ new.at = "uses" /\ op[t].at = "half" /\ lock' = [lock EXCEPT ![op[t].p] = t]
           \/ /\ new.at \in {"half", "unwinding"} /\ op[t].at \in {"wanted", "refused"}
              /\ lock' = [lock EXCEPT ![op[t].x] = t]
           \/ new.at = "refused" /\ lock' = LocksWithout(t)
           \/ new.at = "usedby" /\ op[t].at = "uses" /\ lock' = lock
    <3>0. op \in [Thread -> OpType]
      BY <1>2 DEF PackagesInv, OpsTyped
    <3> USE <2>0, <3>0 DEF OpType, Doubles, SetOp
    <3>1. CASE LockUsed(t)      BY <3>1 DEF LockUsed
    <3>2. CASE LockUser(t)      BY <3>2 DEF LockUser
    <3>3. CASE UnwindUsed(t)    BY <3>3 DEF UnwindUsed
    <3>4. CASE ImportRelock(t)  BY <3>4 DEF ImportRelock
    <3>5. CASE RefuseUse(t)     BY <3>5 DEF RefuseUse
    <3>6. CASE SetUses(t)       BY <3>6 DEF SetUses
    <3> QED  BY <1>2, <3>1, <3>2, <3>3, <3>4, <3>5, <3>6
  <2> HIDE DEF new
  <2>5. Permitted(new)
    BY <2>0, <2>2 DEF Permitted
  <2>6. \A p \in Package : \/ lock'[p] = lock[p] /\ lock[p] # t
                           \/ lock'[p] = NIL
                           \/ lock'[p] = t /\ Keeps(new, p)
    BY <2>0, <2>1, <2>2 DEF Keeps, LocksWithout
  <2> QED  BY <1>2, <2>2, <2>5, <2>6, MovesKeep
<1>3. ASSUME PackagesInv, RingInv, NEW t \in Thread,
             UnwindUser(t) \/ Commit(t) \/ OutOfSymbols(t) \/ SetUsedby(t) \/ Unwound(t)
      PROVE  RingInv'
  <2>1. op' = [op EXCEPT ![t] = NoOp] /\ lock' = LocksWithout(t)
    BY <1>3 DEF UnwindUser, Commit, OutOfSymbols, SetUsedby, Unwound
  <2>2. \A p \in Package : \/ lock'[p] = lock[p] /\ lock[p] # t
                           \/ lock'[p] = NIL
    BY <2>1 DEF LocksWithout
  <2> QED  BY <1>3, <1>b, <2>1, <2>2, MovesKeep DEF Doubles
<1>4. ASSUME RingInv, UNCHANGED vars PROVE RingInv'
  BY <1>4 DEF RingInv, KeepersWork, Keeps, OpsPermitted, Permitted, vars
<1> QED  BY <1>1, <1>2, <1>3, <1>4 DEF Next

LEMMA RingInit == Init => RingInv
  BY DEF Init, RingInv, KeepersWork, Keeps, OpsPermitted, Doubles, NoOp, Op

(* A thread that is waited for and waits keeps one lock, that of the       *)
(* package its operation uses, and waits for the user.                     *)
LEMMA Climbs ==
  ASSUME PackagesInv, RingInv, NEW t \in Thread, NEW u \in Thread, NEW v \in Thread,
         WaitsFor(t, u), WaitsFor(u, v)
  PROVE  /\ op[u].at \in {"half", "unwinding"} /\ <<op[u].x, op[u].p>> \in Given
         /\ op[u].p \in Package /\ op[u].x \in Package
         /\ lock[op[u].p] = v
         /\ Awaits(t, op[u].x)
<1>1. PICK p \in Package : Awaits(t, p) /\ lock[p] = u
  BY DEF WaitsFor
<1>2. PICK q \in Package : Awaits(u, q) /\ lock[q] = v
  BY DEF WaitsFor
<1>3. Keeps(op[u], p)
  BY <1>1, PackagesAssumption DEF RingInv, KeepersWork
<1>4. op[u].at \in {"half", "unwinding"} /\ p = op[u].x /\ q = op[u].p
  BY <1>2, <1>3 DEF Awaits, Keeps
<1>5. <<op[u].x, op[u].p>> \in Given
  BY <1>4 DEF RingInv, OpsPermitted, Permitted, Doubles
<1> QED  BY <1>1, <1>2, <1>4, <1>5

LEMMA RingInvariant == Spec => [](PackagesInv /\ RingInv)
<1>1. Spec => []RingInv
  BY RingInit, RingStep, PackagesInvariant, PTL DEF Spec
<1> QED  BY <1>1, PackagesInvariant, PTL

(* Threads that wait for each other for ever are, or wait for, threads     *)
(* that cross: each of these, in use-package or unuse-package, has locked  *)
(* the used package and waits for the user, which another of them has      *)
(* locked as the used one.  What they were given is a cycle, the only kind *)
(* of deadlock among the locks of packages, of which a comment in          *)
(* use-package warns ("This has *deadlock* written all over it!").         *)
OnlyCyclesWait ==
  \A S \in SUBSET Thread :
    S # {} /\ (\A t \in S : \E u \in S : WaitsFor(t, u)) =>
      \E C \in SUBSET S :
        /\ C # {}
        /\ \A t \in C : /\ <<op[t].x, op[t].p>> \in Given
                        /\ \E u \in C : Crosses(t, u)

(* No hypothesis on what programs give to use-package and unuse-package:   *)
(* a package and itself, and two packages in both orders, are among them.  *)
THEOREM DeadlocksAreCycles == Spec => []OnlyCyclesWait
<1>1. PackagesInv /\ RingInv => OnlyCyclesWait
  <2> SUFFICES ASSUME PackagesInv, RingInv, NEW S \in SUBSET Thread, S # {},
                      \A t \in S : \E u \in S : WaitsFor(t, u)
               PROVE  \E C \in SUBSET S :
                        /\ C # {}
                        /\ \A t \in C : /\ <<op[t].x, op[t].p>> \in Given
                                        /\ \E u \in C : Crosses(t, u)
    BY DEF OnlyCyclesWait
  <2> DEFINE C == {u \in S : \E t \in S : WaitsFor(t, u)}
  <2>1. C \in SUBSET S /\ C # {}
    OBVIOUS
  <2>2. ASSUME NEW u \in C
        PROVE  <<op[u].x, op[u].p>> \in Given /\ \E v \in C : Crosses(u, v)
    <3>1. PICK t \in S : WaitsFor(t, u)
      OBVIOUS
    <3>2. PICK v \in S : WaitsFor(u, v)
      OBVIOUS
    <3>3. PICK w \in S : WaitsFor(v, w)
      OBVIOUS
    <3>4. /\ op[u].at \in {"half", "unwinding"} /\ <<op[u].x, op[u].p>> \in Given
          /\ lock[op[u].p] = v
      BY <3>1, <3>2, Climbs
    <3>5. op[v].at \in {"half", "unwinding"} /\ Awaits(u, op[v].x)
      BY <3>2, <3>3, Climbs
    <3>6. op[u].p = op[v].x
      BY <3>4, <3>5 DEF Awaits
    <3>7. Crosses(u, v) /\ v \in C
      BY <3>2, <3>4, <3>5, <3>6 DEF Crosses
    <3> QED  BY <3>4, <3>7
  <2> QED  BY <2>1, <2>2
<1> QED  BY <1>1, RingInvariant, PTL

(* In every set of threads there is one that waits for none of them.       *)
NoRing ==
  \A S \in SUBSET Thread :
    S # {} => \E t \in S : \A u \in S : ~WaitsFor(t, u)

(* Operations on several packages never wait for each other in a ring, as  *)
(* long as the packages that a program gives to use-package and to         *)
(* unuse-package can be ranked, the user above the used: both lock         *)
(* upwards, and no other operation waits while it keeps a lock.  Such a    *)
(* program does not unuse a package from itself, nor a user from a package *)
(* that it uses: package.c tests neither.                                  *)
THEOREM UsesWithoutCyclesDoNotDeadlock ==
  ASSUME NEW CONSTANT N \in Nat, NEW CONSTANT rank \in [Package -> 0 .. N],
         \A g \in Usable \union Unusable : rank[g[1]] < rank[g[2]]
  PROVE  Spec => []NoRing
<1>1. PackagesInv /\ RingInv => NoRing
  <2> SUFFICES ASSUME PackagesInv, RingInv, NEW S \in SUBSET Thread, S # {},
                      \A t \in S : \E u \in S : WaitsFor(t, u)
               PROVE  FALSE
    BY DEF NoRing
  <2> DEFINE Left(t) == N - rank[op[t].p]
             Kept(t) == op[t].p \in Package /\ op[t].at \in {"half", "unwinding"}
             R == {n \in Nat : \E t \in S : Kept(t) /\ n = Left(t)}
  <2>1. ASSUME NEW t \in S
        PROVE  \E u \in S : /\ WaitsFor(t, u) /\ Kept(u) /\ Awaits(t, op[u].x)
                            /\ rank[op[u].x] < rank[op[u].p]
    <3>1. PICK u \in S : WaitsFor(t, u)
      OBVIOUS
    <3>2. PICK v \in S : WaitsFor(u, v)
      OBVIOUS
    <3>3. Kept(u) /\ Awaits(t, op[u].x) /\ <<op[u].x, op[u].p>> \in Given
      BY <3>1, <3>2, Climbs
    <3>4. rank[op[u].x] < rank[op[u].p]
      BY <3>3 DEF Given
    <3> QED  BY <3>1, <3>3, <3>4
  <2>2. ASSUME NEW t \in S, Kept(t) PROVE Left(t) \in Nat /\ Left(t) \in R
    <3>1. rank[op[t].p] \in 0 .. N
      BY <2>2
    <3>2. Left(t) \in Nat
      BY <3>1
    <3> QED  BY <2>2, <3>2
  <2>3. R # {} /\ R \subseteq Nat
    <3>1. PICK t \in S : TRUE
      OBVIOUS
    <3>2. PICK u \in S : Kept(u)
      BY <2>1, <3>1
    <3> QED  BY <2>2, <3>2
  <2>4. PICK n \in R : \A m \in R : n <= m
    <3> HIDE DEF R
    <3> QED  BY <2>3, Smallest
  <2>5. PICK t \in S : Kept(t) /\ n = Left(t)
    BY <2>4
  <2>6. PICK u \in S : Kept(u) /\ Awaits(t, op[u].x) /\ rank[op[u].x] < rank[op[u].p]
    BY <2>1
  <2>7. op[u].x = op[t].p
    BY <2>5, <2>6 DEF Awaits
  <2>8. rank[op[t].p] \in 0 .. N /\ rank[op[u].p] \in 0 .. N
    BY <2>5, <2>6
  <2>9. Left(u) < n
    BY <2>5, <2>6, <2>7, <2>8
  <2>10. Left(u) \in R /\ n \in Nat
    BY <2>2, <2>3, <2>6
  <2> QED  BY <2>4, <2>8, <2>9, <2>10
<1> QED  BY <1>1, RingInvariant, PTL
=============================================================================
