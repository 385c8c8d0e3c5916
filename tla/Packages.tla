------------------------------ MODULE Packages ------------------------------
(***************************************************************************)
(* The symbols of packages and the relation "uses" between packages        *)
(* (src/src/c/package.c).  Every package has a mutex.  An operation holds  *)
(* that of the package it changes (use-package and unuse-package also that *)
(* of the used one), but it looks into the tables of the packages used and *)
(* of the users without theirs.  So each one is split: the steps that take *)
(* the locks, the last of which looks and decides, and the step that       *)
(* changes the tables and gives the locks up.  use-package and             *)
(* unuse-package read and write one list, then the other, and may be       *)
(* unwound by an interrupt in between.                                     *)
(***************************************************************************)

CONSTANTS
  Thread, Package, Symbol, Name,
  NameOf,     \* symbol.name of each symbol
  Exported,   \* <<package, symbol>> pairs there are at first
  Usable,     \* <<x, p>>: what programs give to use-package
  Unusable,   \* <<x, p>>: what programs give to unuse-package
  Done,       \* bound: the operations that each thread makes on each package
  Unborn,     \* home of a symbol not made yet
  NIL

OneLock == {"intern", "unintern", "export", "unexport", "import",
            "shadowing-import", "shadow"}
TwoLocks == {"use", "unuse"}

ASSUME PackagesAssumption ==
  /\ NameOf \in [Symbol -> Name]
  /\ Exported \subseteq Package \X Symbol
  /\ \A p \in Package : \A s, r \in Symbol :
       <<p, s>> \in Exported /\ <<p, r>> \in Exported /\ NameOf[s] = NameOf[r] => s = r
  /\ Usable \subseteq Package \X Package /\ Unusable \subseteq Package \X Package
  /\ Done \in [Thread -> [Package -> SUBSET (OneLock \union TwoLocks)]]
  /\ {NIL, Unborn} \intersect (Package \union Thread \union Symbol) = {} /\ NIL # Unborn

VARIABLES
  internal, external,  \* pack.internal, pack.external
  shadowings,          \* pack.shadowings
  uses, usedby,        \* pack.uses, pack.usedby
  home,                \* symbol.hpack
  lock,                \* owner of pack.lock
  op,                  \* the operation of each thread
  suspect,             \* ghost: packages that changed on a stale or ignored check,
                       \* or use a package that does not know of it
  torn                 \* ghost: <<x, p>> of which one list was changed and not the other

vars == <<internal, external, shadowings, uses, usedby, home, lock, op, suspect, torn>>

(* intern and shadow are given a name, the others a symbol; use and unuse  *)
(* a second package.  They have read a list (saw) before they change it.   *)
Op(kind, p, n, s, x) ==
  [kind |-> kind, p |-> p, n |-> n, s |-> s, x |-> x, at |-> "idle", saw |-> {}]

Ops(t) ==
  {o \in {Op(k, p, n, NIL, NIL) : k \in {"intern", "shadow"}, p \in Package, n \in Name}
           \union {Op(k, p, NIL, s, NIL) :
                    k \in OneLock \ {"intern", "shadow"}, p \in Package, s \in Symbol}
           \union {Op("use", u[2], NIL, NIL, u[1]) : u \in Usable}
           \union {Op("unuse", u[2], NIL, NIL, u[1]) : u \in Unusable}
     : o.kind \in Done[t][o.p]}

NoOp == Op(NIL, NIL, NIL, NIL, NIL)

(* The packages with which the program starts, none using another.         *)
Init ==
  /\ internal = [p \in Package |-> {}]
  /\ external = [p \in Package |-> {s \in Symbol : <<p, s>> \in Exported}]
  /\ shadowings = [p \in Package |-> {}]
  /\ uses = [p \in Package |-> {}]
  /\ usedby = [p \in Package |-> {}]
  /\ home = [s \in Symbol |-> IF \E p \in Package : <<p, s>> \in Exported
                                THEN CHOOSE p \in Package : <<p, s>> \in Exported
                                ELSE Unborn]
  /\ lock = [p \in Package |-> NIL]
  /\ op = [t \in Thread |-> NoOp]
  /\ suspect = {}
  /\ torn = {}
----------------------------------------------------------------------------
(***************************************************************************)
(* mkcl_find_symbol_nolock: the external symbol, else the internal one,    *)
(* else one that a used package exports (the code takes the package used   *)
(* last; there are two only where there is a conflict already).            *)
(***************************************************************************)
Named(S, n) == {s \in S : NameOf[s] = n}

AtMostOne(S) == \A s, r \in S : s = r

Present(p, n) == Named(internal[p] \union external[p], n)
Inherited(p, n) == Named(UNION {external[x] : x \in uses[p]}, n)
Accessible(p, n) ==
  IF Named(external[p], n) # {} THEN Named(external[p], n)
  ELSE IF Present(p, n) # {} THEN Present(p, n)
  ELSE Inherited(p, n)

Found(p, n) == IF Accessible(p, n) = {} THEN NIL ELSE CHOOSE s \in Accessible(p, n) : TRUE

(* s coming into p by inheritance would be another symbol of its name than *)
(* the one that is found there and that shadows nothing.                   *)
Clashes(p, s) ==
  LET there == Found(p, NameOf[s])
  IN  there \notin {NIL, s} /\ there \notin shadowings[p]

(* The conditions under which an operation goes on to change something;    *)
(* otherwise it returns or signals an error, without the lock, which the   *)
(* unwinding takes again only to give it up.                               *)
MayIntern(o) == Accessible(o.p, o.n) = {}

MayUnintern(o) ==
  /\ o.s \in Present(o.p, NameOf[o.s])
  /\ o.s \in shadowings[o.p] => AtMostOne(Inherited(o.p, NameOf[o.s]))

(* Mutant: the users of the package are not looked at.                     *)
MayExport_Unasked(o) ==
  /\ Found(o.p, NameOf[o.s]) = o.s
  /\ o.s \notin external[o.p]

MayExport(o) ==
  /\ Found(o.p, NameOf[o.s]) = o.s
  /\ o.s \notin external[o.p]
  /\ \A u \in usedby[o.p] : ~Clashes(u, o.s)  \* without the lock of u

MayUnexport(o) == Found(o.p, NameOf[o.s]) = o.s /\ o.s \in external[o.p]

(* Nothing is there, or the symbol itself, inherited.                      *)
MayImport(o) ==
  /\ Found(o.p, NameOf[o.s]) \in {NIL, o.s}
  /\ Present(o.p, NameOf[o.s]) = {}

MayUse(o) == \A s \in external[o.x] : ~Clashes(o.p, s)

Goes(o) ==
  CASE o.kind = "intern" -> MayIntern(o)
    [] o.kind = "unintern" -> MayUnintern(o)
    [] o.kind = "export" -> MayExport(o)
    [] o.kind = "unexport" -> MayUnexport(o)
    [] o.kind = "import" -> MayImport(o)
    [] o.kind = "use" -> MayUse(o)
    [] OTHER -> TRUE

(* Only an inherited symbol is in the way of an import, and the caller     *)
(* chooses "Ignore conflict and proceed".                                  *)
MayIgnore(o) ==
  /\ Present(o.p, NameOf[o.s]) = {}
  /\ Found(o.p, NameOf[o.s]) \notin {NIL, o.s}
----------------------------------------------------------------------------
Symbols == <<internal, external, shadowings, home>>
Tables == <<Symbols, uses, usedby, suspect, torn>>

SetOp(t, o, at) == op' = [op EXCEPT ![t] = [o EXCEPT !.at = at]]

LocksWithout(t) == [p \in Package |-> IF lock[p] = t THEN NIL ELSE lock[p]]

(* An operation on one package takes its lock and looks.  One that returns *)
(* or signals an error then has changed nothing.                           *)
LockAndLook(t, o) ==
  /\ op[t] = NoOp /\ o.kind \in OneLock
  /\ o.s # NIL => home[o.s] # Unborn
  /\ lock[o.p] = NIL
  /\ Goes(o)
  /\ lock' = [lock EXCEPT ![o.p] = t]
  /\ SetOp(t, o, "looked")
  /\ UNCHANGED Tables

(* use-package returns when the package is the same or in use already: it  *)
(* looks without a lock.  unuse-package looks at nothing.                  *)
BeginUse(t, o) ==
  /\ op[t] = NoOp /\ o.kind \in TwoLocks
  /\ o.kind = "use" => o.x # o.p /\ o.x \notin uses[o.p]
  /\ SetOp(t, o, "wanted")
  /\ UNCHANGED <<lock, Tables>>

(* Both lock the used package first.                                       *)
LockUsed(t) ==
  LET o == op[t]
  IN  /\ o.at = "wanted"
      /\ lock[o.x] = NIL
      /\ lock' = [lock EXCEPT ![o.x] = t]
      /\ SetOp(t, o, "half")
      /\ UNCHANGED Tables

(* Mutant: the user is not locked.                                         *)
LockUser_Unlocked(t) ==
  LET o == op[t]
  IN  /\ o.at = "half"
      /\ Goes(o)
      /\ op' = [op EXCEPT ![t] = [o EXCEPT !.at = "uses", !.saw = uses[o.p]]]
      /\ UNCHANGED <<lock, Tables>>

(* Then the user; they look, and read pack.uses of the user.               *)
LockUser(t) ==
  LET o == op[t]
  IN  /\ o.at = "half"
      /\ lock[o.p] = NIL
      /\ Goes(o)
      /\ lock' = [lock EXCEPT ![o.p] = t]
      /\ op' = [op EXCEPT ![t] = [o EXCEPT !.at = "uses", !.saw = uses[o.p]]]
      /\ UNCHANGED Tables

(* Mutant: the used package stays locked during the error.                 *)
RefuseUse_KeepsLock(t) ==
  LET o == op[t]
  IN  /\ o.at = "half"
      /\ lock[o.p] = NIL
      /\ ~Goes(o)
      /\ SetOp(t, o, "refused")
      /\ UNCHANGED <<lock, Tables>>

(* use-package meets a conflict and gives up both locks for the error.     *)
RefuseUse(t) ==
  LET o == op[t]
  IN  /\ o.at = "half"
      /\ lock[o.p] = NIL
      /\ ~Goes(o)
      /\ lock' = LocksWithout(t)
      /\ SetOp(t, o, "refused")
      /\ UNCHANGED Tables

(* The unwinding of the error takes both again, in the same order, to give *)
(* them up.                                                                *)
UnwindUsed(t) ==
  LET o == op[t]
  IN  /\ o.at = "refused"
      /\ lock[o.x] = NIL
      /\ lock' = [lock EXCEPT ![o.x] = t]
      /\ SetOp(t, o, "unwinding")
      /\ UNCHANGED Tables

UnwindUser(t) ==
  LET o == op[t]
  IN  /\ o.at = "unwinding"
      /\ lock[o.p] = NIL
      /\ lock' = LocksWithout(t)
      /\ op' = [op EXCEPT ![t] = NoOp]
      /\ UNCHANGED Tables

(* import looks, gives the lock up to signal the conflict and, when it is  *)
(* continued, takes it again and goes on by what it saw.                   *)
ImportContinued(t, o) ==
  /\ op[t] = NoOp /\ o.kind = "import"
  /\ home[o.s] # Unborn
  /\ lock[o.p] = NIL
  /\ MayIgnore(o)
  /\ SetOp(t, o, "ignoring")
  /\ UNCHANGED <<lock, Tables>>

ImportRelock(t) ==
  LET o == op[t]
  IN  /\ o.at = "ignoring"
      /\ lock[o.p] = NIL
      /\ lock' = [lock EXCEPT ![o.p] = t]
      /\ SetOp(t, o, "looked")
      /\ UNCHANGED Tables
----------------------------------------------------------------------------
(***************************************************************************)
(* The changes.                                                            *)
(***************************************************************************)
Born(n) == {s \in Symbol : home[s] = Unborn /\ NameOf[s] = n}

(* make_resident_symbol_homeless, set_symbol_home_if_homeless              *)
Homes(p, left, came) ==
  [s \in Symbol |-> IF s \in left /\ home[s] = p THEN NIL
                    ELSE IF s \in came /\ home[s] \in {NIL, Unborn} THEN p ELSE home[s]]

Plus(f, p, S) == [f EXCEPT ![p] = @ \union S]
Minus(f, p, S) == [f EXCEPT ![p] = @ \ S]

InternCommit(o) ==
  \E s \in Born(o.n) :
    /\ internal' = Plus(internal, o.p, {s})
    /\ home' = Homes(o.p, {}, {s})
    /\ UNCHANGED <<external, shadowings, uses, usedby>>

(* Mutant: the home of the symbol is kept.                                 *)
UninternCommit_KeepsHome(o) ==
  /\ internal' = Minus(internal, o.p, {o.s})
  /\ external' = Minus(external, o.p, {o.s})
  /\ shadowings' = Minus(shadowings, o.p, {o.s})
  /\ UNCHANGED <<home, uses, usedby>>

UninternCommit(o) ==
  /\ internal' = Minus(internal, o.p, {o.s})
  /\ external' = Minus(external, o.p, {o.s})
  /\ shadowings' = Minus(shadowings, o.p, {o.s})
  /\ home' = Homes(o.p, {o.s}, {})
  /\ UNCHANGED <<uses, usedby>>

ExportCommit(o) ==
  /\ internal' = Minus(internal, o.p, {o.s})
  /\ external' = Plus(external, o.p, {o.s})
  /\ UNCHANGED <<shadowings, home, uses, usedby>>

UnexportCommit(o) ==
  /\ external' = Minus(external, o.p, {o.s})
  /\ internal' = Plus(internal, o.p, {o.s})
  /\ UNCHANGED <<shadowings, home, uses, usedby>>

ImportCommit(o) ==
  /\ internal' = Plus(internal, o.p, {o.s})
  /\ home' = Homes(o.p, {}, {o.s})
  /\ UNCHANGED <<external, shadowings, uses, usedby>>

(* A symbol of the name that is present is taken out.                      *)
ShadowingImportCommit(o) ==
  LET n == NameOf[o.s]
      there == {Found(o.p, n)} \intersect Present(o.p, n)
      old == Named(internal[o.p], n)  \* its entry in the hash table
  IN  IF o.s \in there
        THEN /\ shadowings' = Plus(shadowings, o.p, {o.s})
             /\ UNCHANGED <<internal, external, home, uses, usedby>>
        ELSE /\ internal' = [internal EXCEPT ![o.p] = (@ \ old) \union {o.s}]
             /\ external' = Minus(external, o.p, there)
             /\ shadowings' = [shadowings EXCEPT ![o.p] = (@ \ there) \union {o.s}]
             /\ home' = Homes(o.p, there, {o.s})
             /\ UNCHANGED <<uses, usedby>>

ShadowCommit(o) ==
  LET there == Present(o.p, o.n)
  IN  IF there # {}
        THEN /\ shadowings' = Plus(shadowings, o.p, {Found(o.p, o.n)})
             /\ UNCHANGED <<internal, external, home, uses, usedby>>
        ELSE \E s \in Born(o.n) :
               /\ internal' = Plus(internal, o.p, {s})
               /\ shadowings' = Plus(shadowings, o.p, {s})
               /\ home' = Homes(o.p, {}, {s})
               /\ UNCHANGED <<external, uses, usedby>>

(* The packages in which the change is not what was looked at: the tables  *)
(* of other packages have changed since, or the conflict was ignored.      *)
Stale(o) ==
  IF Goes(o) THEN {}
  ELSE IF o.kind = "export" THEN {o.p} \union {u \in usedby[o.p] : Clashes(u, o.s)}
  ELSE {o.p}

Commit(t) ==
  LET o == op[t]
  IN  /\ o.at = "looked"
      /\ \/ o.kind = "intern" /\ InternCommit(o)
         \/ o.kind = "unintern" /\ UninternCommit(o)
         \/ o.kind = "export" /\ ExportCommit(o)
         \/ o.kind = "unexport" /\ UnexportCommit(o)
         \/ o.kind = "import" /\ ImportCommit(o)
         \/ o.kind = "shadowing-import" /\ ShadowingImportCommit(o)
         \/ o.kind = "shadow" /\ ShadowCommit(o)
      /\ suspect' = suspect \union Stale(o)
      /\ lock' = LocksWithout(t)
      /\ op' = [op EXCEPT ![t] = NoOp]
      /\ UNCHANGED torn

(* The list without or with the package, made of what was read: the same   *)
(* package twice (by two threads that looked at the same time) is removed  *)
(* as one.                                                                 *)
Listed(o, q) == IF o.kind = "use" THEN o.saw \union {q} ELSE o.saw \ {q}

(* pack.uses of the user is assigned, and pack.usedby of the other read.   *)
SetUses(t) ==
  LET o == op[t]
  IN  /\ o.at = "uses"
      /\ uses' = [uses EXCEPT ![o.p] = Listed(o, o.x)]
      /\ suspect' = suspect \union Stale(o)
      /\ op' = [op EXCEPT ![t] = [o EXCEPT !.at = "usedby", !.saw = usedby[o.x]]]
      /\ UNCHANGED <<lock, Symbols, usedby, torn>>

SetUsedby(t) ==
  LET o == op[t]
  IN  /\ o.at = "usedby"
      /\ usedby' = [usedby EXCEPT ![o.x] = Listed(o, o.p)]
      /\ torn' = torn \ {<<o.x, o.p>>}
      /\ lock' = LocksWithout(t)
      /\ op' = [op EXCEPT ![t] = NoOp]
      /\ UNCHANGED <<Symbols, uses, suspect>>

(* Interrupts are enabled again once the locks are taken.  A non-local     *)
(* exit of one unwinds the operation, which gives its locks up; of the two *)
(* lists one may have been assigned.                                       *)
Unwound(t) ==
  LET o == op[t]
      half == o.at = "usedby"
  IN  /\ o.at \in {"looked", "uses", "usedby"}
      /\ torn' = IF half THEN torn \union {<<o.x, o.p>>} ELSE torn
      /\ suspect' = IF half /\ o.kind = "use" THEN suspect \union {o.p} ELSE suspect
      /\ lock' = LocksWithout(t)
      /\ op' = [op EXCEPT ![t] = NoOp]
      /\ UNCHANGED <<Symbols, uses, usedby>>

(* No symbol is left to be made: a bound of the model.                     *)
OutOfSymbols(t) ==
  LET o == op[t]
  IN  /\ o.at = "looked"
      /\ o.kind \in {"intern", "shadow"}
      /\ o.kind = "shadow" => Present(o.p, o.n) = {}
      /\ Born(o.n) = {}
      /\ lock' = LocksWithout(t)
      /\ op' = [op EXCEPT ![t] = NoOp]
      /\ UNCHANGED Tables

Next ==
  \E t \in Thread :
    \/ \E o \in Ops(t) : LockAndLook(t, o) \/ BeginUse(t, o) \/ ImportContinued(t, o)
    \/ LockUsed(t) \/ LockUser(t) \/ RefuseUse(t) \/ UnwindUsed(t) \/ UnwindUser(t)
    \/ SetUses(t) \/ SetUsedby(t) \/ Unwound(t)
    \/ ImportRelock(t) \/ Commit(t) \/ OutOfSymbols(t)

Spec == Init /\ [][Next]_vars

(* A mutex that is free again and again is given in the end to each thread *)
(* that waits for it.                                                      *)
Proceeds(t) ==
  \/ LockUsed(t) \/ LockUser(t) \/ RefuseUse(t) \/ UnwindUsed(t) \/ UnwindUser(t)
  \/ SetUses(t) \/ SetUsedby(t)
  \/ ImportRelock(t) \/ Commit(t) \/ OutOfSymbols(t)

Fairness == \A t \in Thread : SF_vars(Proceeds(t))

FairSpec == Spec /\ Fairness
----------------------------------------------------------------------------
TypeOK ==
  /\ internal \in [Package -> SUBSET Symbol]
  /\ external \in [Package -> SUBSET Symbol]
  /\ shadowings \in [Package -> SUBSET Symbol]
  /\ uses \in [Package -> SUBSET Package]
  /\ usedby \in [Package -> SUBSET Package]
  /\ home \in [Symbol -> Package \union {NIL, Unborn}]
  /\ lock \in [Package -> Thread \union {NIL}]
  /\ suspect \subseteq Package
  /\ torn \subseteq Package \X Package

(* A symbol is present in its home package: symbol-package, with which the *)
(* printer decides how to write it, names a package where it can be read.  *)
(* An import that went on by a stale look may leave two entries of a name  *)
(* in the table, of which the next shadowing-import overwrites one.        *)
HomeIsPresent ==
  \A s \in Symbol :
    home[s] \in Package \ suspect => s \in internal[home[s]] \union external[home[s]]

(* The two sides of "uses" agree, whoever uses and unuses what at the same *)
(* time: no list is written by what was read before another wrote it.      *)
(* export asks all users for conflicts.  The exceptions are an operation   *)
(* between its two assignments, and one that was unwound there, until one  *)
(* on the same two packages goes through.                                  *)
Between(x, p) == \E t \in Thread : op[t].at = "usedby" /\ op[t].x = x /\ op[t].p = p

UsersKnown ==
  \A p, x \in Package :
    ~Between(x, p) /\ <<x, p>> \notin torn => (x \in uses[p] <=> p \in usedby[x])

(* Two symbols of one name are never both accessible in a package, except  *)
(* that a present one hides the inherited ones it was made to shadow: no   *)
(* sequence of operations reaches a conflict unless an operation went by a *)
(* check that another thread had made stale, or by "Ignore conflict", or   *)
(* was unwound before the used package knew of its user.                   *)
Conflict(p, n) ==
  \/ ~AtMostOne(Present(p, n))
  \/ Present(p, n) = {} /\ ~AtMostOne(Inherited(p, n))
  \/ \E s \in Present(p, n) \ shadowings[p] : ~(Inherited(p, n) \subseteq {s})

NoConflict ==
  \A p \in Package \ suspect : \A n \in Name : ~Conflict(p, n)

(* Threads that wait for each other: each is in use-package or in          *)
(* unuse-package, has locked the used package and waits for the user,      *)
(* which is the used package of the next.  One thread is enough:           *)
(* unuse-package of a package from itself locks it twice.                  *)
Crosses(t, u) ==
  /\ {op[t].at, op[u].at} \subseteq {"half", "unwinding"}
  /\ op[t].p = op[u].x /\ lock[op[t].p] = u

Crossed == \E S \in SUBSET Thread : S # {} /\ \A t \in S : \E u \in S : Crosses(t, u)

(* Every operation comes to its end, unless the packages that are given to *)
(* use-package and unuse-package form a cycle, and threads on that cycle   *)
(* wait for each other.                                                    *)
OperationsEnd == \A t \in Thread : op[t] # NoOp ~> (op[t] = NoOp \/ Crossed)
=============================================================================
