----------------------------- MODULE GfunCache -----------------------------
(***************************************************************************)
(* Calls of generic functions (_mkcl_standard_dispatch in src/src/c/gfun.c)*)
(* by threads that each cache effective methods in the table of their      *)
(* environment, while others add and remove methods (src/src/clos) and     *)
(* leave on each environment a list of what is to be cleared.              *)
(*                                                                         *)
(* A version number stands for the methods of a generic function, another  *)
(* one for its spec list, which says what of the arguments makes the key.  *)
(* The table and the spec vector of an environment are touched by its own  *)
(* thread only, so a search is one step; the list of clear requests is     *)
(* pushed and taken under the lock of the list of threads.                 *)
(***************************************************************************)
EXTENDS MethodHash, Sequences

CONSTANTS
  Thread,
  Reused,      \* threads whose object is preset and enabled again after a join
  Intruding,   \* threads an interrupt of which may call generic functions
  Uncached,    \* keys that do not fit into the spec vector
  MaxDepth,    \* bound: calls of a thread inside each other
  MaxChanges,  \* bound: changes of methods
  Changer,     \* bound: the threads that change methods
  Changing,    \* bound: the generic functions whose methods they change
  Caller,      \* bound: the threads that call generic functions
  NIL

ASSUME GfunCacheAssumption ==
  /\ NIL \notin Thread
  /\ Reused \subseteq Thread /\ Intruding \subseteq Thread /\ Changer \union Caller \subseteq Thread
  /\ Changing \subseteq Gf /\ Uncached \subseteq Key
  /\ MaxDepth \in Nat /\ MaxChanges \in Nat

VARIABLES
  methods,  \* generic-function-methods, as a version
  specs,    \* generic-function-spec-list, as a version
  lock,     \* owner of +metadata-lock+, a recursive lock
  change,   \* the change of methods in progress
  table,    \* env.method_hash
  gen,      \* env.method_generation
  clear,    \* env.method_hash_clear_list
  vector,   \* env.method_spec_vector
  life,     \* of each thread: new, listed on mkcl_core.threads, ended
  stack,    \* calls in progress of each thread, the innermost last
  lost,     \* mkcl_lose has ended the process
  strayed,  \* ghost: threads that have searched a record for the wrong key
  misfit,   \* ghost: generic functions of which the table of a thread has a method
            \* under a key made by an older spec list than that of the method
  robbed    \* ghost: threads in which a call has taken the request to clear such a
            \* method, while the call that was to store it was still under way

vars == <<methods, specs, lock, change, table, gen, clear, vector, life, stack, lost,
          strayed, misfit, robbed>>

NoChange == [by |-> NIL, gf |-> NIL, todo |-> <<>>]

Steps == {"insert", "respec", "delete", "clear"}

(* mkcl_make_thread and mkcl_init_env make each environment with an empty  *)
(* table; the threads are not listed yet.                                  *)
Init ==
  /\ methods = [g \in Gf |-> 0]
  /\ specs = [g \in Gf |-> 0]
  /\ lock = NIL
  /\ change = NoChange
  /\ table = [t \in Thread |-> Cleared]
  /\ gen = [t \in Thread |-> 0]
  /\ clear = [t \in Thread |-> {}]
  /\ vector = [t \in Thread |-> NoKey]
  /\ life = [t \in Thread |-> "new"]
  /\ stack = [t \in Thread |-> <<>>]
  /\ lost = FALSE
  /\ strayed = {}
  /\ misfit = [t \in Thread |-> {}]
  /\ robbed = {}

Top(t) == stack[t][Len(stack[t])]
Push(t, frame) == stack' = [stack EXCEPT ![t] = Append(@, frame)]
SetTop(t, frame) == stack' = [stack EXCEPT ![t] = [@ EXCEPT ![Len(@)] = frame]]
Pop(t) == stack' = [stack EXCEPT ![t] = SubSeq(@, 1, Len(@) - 1)]

(* What is left to do of an addition once the method is in.                *)
Inserted == {<<"respec", "clear">>, <<"clear">>}

(* The version that counts for callers: a change takes effect when the     *)
(* caches are asked to be cleared, which a removal does before it deletes  *)
(* the method and an addition after it has inserted it.                    *)
Current(g) ==
  methods[g] + (IF change.gf = g /\ change.todo # <<>> /\ Head(change.todo) = "delete" THEN 1
                ELSE IF change.gf = g /\ change.todo \in Inserted THEN -1 ELSE 0)
----------------------------------------------------------------------------
(* mkcl_register_thread_as_active: from then on clear requests reach the   *)
(* environment.  That of a reused object is as its last use left it.       *)
StartThread(t) ==
  /\ life[t] = "new" \/ (life[t] = "ended" /\ t \in Reused)
  /\ life' = [life EXCEPT ![t] = "listed"]
  /\ UNCHANGED <<methods, specs, lock, change, table, gen, clear, vector, stack, lost,
                 strayed, misfit, robbed>>

(* The end of the thread and the thread-join that takes it off the list.   *)
EndThread(t) ==
  /\ life[t] = "listed" /\ stack[t] = <<>> /\ change.by # t
  /\ life' = [life EXCEPT ![t] = "ended"]
  /\ IF t \in Reused
       THEN UNCHANGED <<table, gen, clear, misfit>>
       ELSE /\ table' = [table EXCEPT ![t] = Cleared]  \* the environment is garbage
            /\ gen' = [gen EXCEPT ![t] = 0]
            /\ clear' = [clear EXCEPT ![t] = {}]
            /\ misfit' = [misfit EXCEPT ![t] = {}]
  /\ UNCHANGED <<methods, specs, lock, change, vector, stack, lost, strayed, robbed>>
----------------------------------------------------------------------------
(***************************************************************************)
(* _mkcl_standard_dispatch                                                 *)
(***************************************************************************)

(* A thread calls; so does the computation of an effective method, but not *)
(* with the key that it computes (it would not end), and a change of       *)
(* methods, but not the generic function that it changes; an interrupt     *)
(* function may call anything between any two steps.                       *)
MayCall(t, k) ==
  /\ t \in Caller /\ life[t] = "listed"
  /\ Len(stack[t]) < MaxDepth
  /\ \/ t \in Intruding
     \/ /\ stack[t] # <<>> => Top(t).place = "computing"
        /\ change.by = t => change.gf # GfOf[k]
        /\ \A n \in DOMAIN stack[t] : stack[t][n].key # k

(* The clear list is taken and carried out.                                *)
TakenTable(t) == ClearMethodHash(table[t], clear[t])

TakeClears(t) ==
  /\ clear' = [clear EXCEPT ![t] = {}]
  /\ misfit' = [misfit EXCEPT ![t] = @ \ clear[t]]
  /\ robbed' = IF \E n \in DOMAIN stack[t] :
                    stack[t][n].spec = NoValue /\ GfOf[stack[t][n].key] \in clear[t]
                 THEN robbed \union {t} ELSE robbed

(* The clear list, get_spec_vector and search_method_hash.                 *)
Dispatch(t, k) ==
  /\ MayCall(t, k) /\ k \notin Uncached
  /\ TakeClears(t)
  /\ vector' = [vector EXCEPT ![t] = k]
  /\ LET old == TakenTable(t)
         e == ChosenRecord(old, gen[t], k)
     IN  IF e = NoRecord
           THEN /\ lost' = TRUE
                /\ table' = [table EXCEPT ![t] = old]
                /\ UNCHANGED <<gen, stack>>
           ELSE /\ table' = [table EXCEPT ![t] = SearchedTable(old, gen[t], k)]
                /\ gen' = [gen EXCEPT ![t] = SearchedGen(old, gen[t], k)]
                /\ Push(t, [key |-> k, since |-> Current(GfOf[k]), record |-> e,
                            spec |-> specs[GfOf[k]],
                            place |-> IF Found(old, k) THEN "chosen" ELSE "missed",
                            func |-> IF Found(old, k) THEN old[e].value ELSE NoValue])
                /\ UNCHANGED lost
  /\ UNCHANGED <<methods, specs, lock, change, life, strayed>>

(* "no cache because of key size overflow": the vector is overwritten up   *)
(* to its end, and nothing is searched.                                    *)
DispatchUncached(t, k) ==
  /\ MayCall(t, k) /\ k \in Uncached
  /\ TakeClears(t)
  /\ vector' = [vector EXCEPT ![t] = k]
  /\ table' = [table EXCEPT ![t] = TakenTable(t)]
  /\ Push(t, [key |-> k, since |-> Current(GfOf[k]), record |-> NoRecord,
              spec |-> specs[GfOf[k]], place |-> "missed", func |-> NoValue])
  /\ UNCHANGED <<methods, specs, lock, change, gen, life, lost, strayed>>

(* The methods that are there now; the key may be one of an older list.    *)
Computing(t) ==
  LET g == GfOf[Top(t).key]
  IN  SetTop(t, [Top(t) EXCEPT !.place = "computing", !.func = methods[g],
                               !.spec = IF @ = specs[g] THEN @ ELSE NoValue])

(* Mutant: the effective method is computed without the metadata lock.     *)
ComputeBegin_Unlocked(t) ==
  /\ stack[t] # <<>> /\ Top(t).place = "missed"
  /\ Computing(t)
  /\ UNCHANGED <<methods, specs, lock, change, table, gen, clear, vector, life, lost,
                 strayed, misfit, robbed>>

(* compute-effective-method-for-cache, under the metadata lock.            *)
ComputeBegin(t) ==
  /\ stack[t] # <<>> /\ Top(t).place = "missed"
  /\ lock \in {NIL, t}
  /\ lock' = t
  /\ Computing(t)
  /\ UNCHANGED <<methods, specs, change, table, gen, clear, vector, life, lost, strayed,
                 misfit, robbed>>

(* The recursive lock is given up unless it was held before.               *)
GiveUpLock(t) ==
  lock' = IF change.by = t \/ \E n \in 1 .. Len(stack[t]) - 1 : stack[t][n].place = "computing"
            THEN lock ELSE NIL

ComputeEnd(t) ==
  /\ stack[t] # <<>> /\ Top(t).place = "computing"
  /\ SetTop(t, [Top(t) EXCEPT !.place = IF Top(t).key \in Uncached THEN "chosen"
                                                                   ELSE "computed"])
  /\ GiveUpLock(t)
  /\ UNCHANGED <<methods, specs, change, table, gen, clear, vector, life, lost, strayed,
                 misfit, robbed>>

(* Qualifiers that are not valid, methods that cannot be ordered: the      *)
(* error unwinds the call, and nothing is stored.  (Where no method is     *)
(* applicable the effective method signals it.  The calls of a change are  *)
(* those of well-formed metaobjects.)                                      *)
ComputeFails(t) ==
  /\ stack[t] # <<>> /\ Top(t).place = "computing"
  /\ change.by # t
  /\ Pop(t)
  /\ GiveUpLock(t)
  /\ vector' = IF Len(stack[t]) = 1 THEN [vector EXCEPT ![t] = NoKey] ELSE vector
  /\ UNCHANGED <<methods, specs, change, table, gen, clear, life, lost, strayed, misfit,
                 robbed>>

(* If the record has been taken meanwhile another one is searched, for the *)
(* key that the spec vector then has.                                      *)
Store(t) ==
  /\ stack[t] # <<>> /\ Top(t).place = "computed"
  /\ LET k == Top(t).key
         v == vector[t]
         taken == table[t][Top(t).record].key # NoKey
         e == IF taken THEN ChosenRecord(table[t], gen[t], v) ELSE Top(t).record
         old == IF taken THEN SearchedTable(table[t], gen[t], v) ELSE table[t]
     IN  /\ IF e = NoRecord
              THEN lost' = TRUE /\ UNCHANGED <<table, gen, stack>>
              ELSE /\ table' = [table EXCEPT ![t] = StoredTable(old, e, k, Top(t).func)]
                   /\ gen' = IF taken THEN [gen EXCEPT ![t] = SearchedGen(table[t], @, v)]
                                      ELSE gen
                   /\ SetTop(t, [Top(t) EXCEPT !.place = "chosen"])
                   /\ UNCHANGED lost
         /\ strayed' = IF taken /\ v # k THEN strayed \union {t} ELSE strayed
         /\ misfit' = IF Top(t).spec = NoValue
                        THEN [misfit EXCEPT ![t] = @ \union {GfOf[k]}] ELSE misfit
  /\ UNCHANGED <<methods, specs, lock, change, clear, vector, life, robbed>>

(* The effective method is called, and the dispatch is through.  The spec  *)
(* vector has no reader then, unless the call was inside another one.      *)
CallMethod(t) ==
  /\ stack[t] # <<>> /\ Top(t).place = "chosen"
  /\ Pop(t)
  /\ vector' = IF Len(stack[t]) = 1 THEN [vector EXCEPT ![t] = NoKey] ELSE vector
  /\ UNCHANGED <<methods, specs, lock, change, table, gen, clear, life, lost, strayed,
                 misfit, robbed>>
----------------------------------------------------------------------------
(***************************************************************************)
(* add-method and remove-method, under the metadata lock.  An added method *)
(* may replace one with the same specializers, which is removed first; the *)
(* spec list is computed anew (compute-g-f-spec-list) after an addition.   *)
(***************************************************************************)
Plans == {<<"insert", "respec", "clear">>, <<"clear", "delete">>,
          <<"clear", "delete", "insert", "respec", "clear">>}

BeginChange(t, g, plan) ==
  /\ t \in Changer
  /\ life[t] = "listed" /\ stack[t] = <<>>
  /\ lock = NIL
  /\ methods[g] < MaxChanges
  /\ lock' = t
  /\ change' = [by |-> t, gf |-> g, todo |-> plan]
  /\ UNCHANGED <<methods, specs, table, gen, clear, vector, life, stack, lost, strayed,
                 misfit, robbed>>

(* Mutant: only the environment of the caller is asked.                    *)
ClearGfunCache_OwnOnly(g) ==
  clear' = [t \in Thread |-> IF t = change.by THEN clear[t] \union {g} ELSE clear[t]]

(* mk_si_clear_gfun_cache                                                  *)
ClearGfunCache(g) ==
  clear' = [t \in Thread |-> IF life[t] = "listed" THEN clear[t] \union {g} ELSE clear[t]]

(* One step of a plan.                                                     *)
Carry(step, g) ==
  /\ IF step = "clear" THEN ClearGfunCache(g) ELSE UNCHANGED clear
  /\ methods' = IF step \in {"insert", "delete"} THEN [methods EXCEPT ![g] = @ + 1]
                                                 ELSE methods
  /\ specs' = IF step = "respec" THEN [specs EXCEPT ![g] = @ + 1] ELSE specs

(* Mutant: the metadata lock is not given up at the end.                   *)
ChangeStep_KeepsLock(t) ==
  /\ change.by = t
  /\ stack[t] = <<>>
  /\ Carry(Head(change.todo), change.gf)
  /\ change' = IF Tail(change.todo) = <<>> THEN NoChange
                                          ELSE [change EXCEPT !.todo = Tail(@)]
  /\ UNCHANGED <<lock, table, gen, vector, life, stack, lost, strayed, misfit, robbed>>

ChangeStep(t) ==
  /\ change.by = t
  /\ stack[t] = <<>>
  /\ Carry(Head(change.todo), change.gf)
  /\ IF Tail(change.todo) = <<>>
       THEN change' = NoChange /\ lock' = NIL
       ELSE change' = [change EXCEPT !.todo = Tail(@)] /\ UNCHANGED lock
  /\ UNCHANGED <<table, gen, vector, life, stack, lost, strayed, misfit, robbed>>
----------------------------------------------------------------------------
Next ==
  \E t \in Thread : ~lost /\
    \/ StartThread(t) \/ EndThread(t)
    \/ \E k \in Key : Dispatch(t, k) \/ DispatchUncached(t, k)
    \/ ComputeBegin(t) \/ ComputeEnd(t) \/ ComputeFails(t) \/ Store(t) \/ CallMethod(t)
    \/ \E g \in Changing, plan \in Plans : BeginChange(t, g, plan)
    \/ ChangeStep(t)

Spec == Init /\ [][Next]_vars

(* A thread goes on with what it has begun, also when the metadata lock    *)
(* for which it waits stays free; the computation of an effective method   *)
(* makes finitely many calls.                                              *)
Fairness ==
  \A t \in Thread :
    /\ WF_vars(~lost /\ (ComputeBegin(t) \/ Store(t) \/ CallMethod(t) \/ ChangeStep(t)))
    /\ \A n \in 1 .. MaxDepth :
         SF_vars(~lost /\ Len(stack[t]) = n /\ (ComputeEnd(t) \/ ComputeFails(t)))

FairSpec == Spec /\ Fairness
----------------------------------------------------------------------------
TypeOK ==
  /\ methods \in [Gf -> Nat] /\ specs \in [Gf -> Nat]
  /\ lock \in Thread \union {NIL}
  /\ table \in [Thread -> [Records -> Record]]
  /\ gen \in [Thread -> Nat]
  /\ clear \in [Thread -> SUBSET Gf]
  /\ life \in [Thread -> {"new", "listed", "ended"}]
  /\ misfit \in [Thread -> SUBSET Gf] /\ robbed \subseteq Thread

(* A cached effective method is the one that counts now, or the thread has *)
(* been asked to clear it and will do so before it looks: whatever change  *)
(* came between its computation, its storing and other calls of the thread.*)
MethodsAreCurrent ==
  \A t \in Thread : life[t] = "listed" =>
    \A p \in Live(table[t]) : GfOf[p[1]] \in clear[t] \/ p[2] = Current(GfOf[p[1]])

(* And it is under a key of the spec list with which it was computed, or   *)
(* it will be cleared; the exception is a thread in which a call from      *)
(* inside the computation has taken the request and found nothing to clear *)
(* yet: then a method for one argument may be called for another one.      *)
KeysAreCurrent ==
  \A t \in Thread \ robbed : life[t] = "listed" => misfit[t] \subseteq clear[t]

CacheIsCurrent == MethodsAreCurrent /\ KeysAreCurrent

(* Open addressing: every cached method is found by a search for its key,  *)
(* which meets neither an empty record nor another record of the key       *)
(* before, although records are deleted, expire and are overwritten.  This *)
(* ends when a call finds its record taken and searches another one by the *)
(* spec vector, into which the calls inside it have put their own keys.    *)
(* It is not claimed for threads whose interrupt functions call generic    *)
(* functions: one may call a key between its miss and its store, and leave *)
(* two records of it.                                                      *)
Findable ==
  \A t \in Thread \ (strayed \union Intruding) : \A i \in Records :
    table[t][i].key # NoKey =>
      Found(table[t], table[t][i].key) /\ ChosenRecord(table[t], gen[t], table[t][i].key) = i

(* "keep looking for the oldest record that we can overwrite with the new  *)
(* data" (search_method_hash): there always is one.                        *)
NeverLost == ~lost

(* Every call of a generic function gets its effective method, or ends in  *)
(* an error: also one that computes inside a change or inside another      *)
(* computation, and whatever fails inside it.                              *)
CallsReturn ==
  \A t \in Thread : stack[t] # <<>> ~> (stack[t] = <<>> \/ lost)

(* Callers see every change of methods at one moment, for all threads, and *)
(* never an effective method that was replaced before their call began.    *)
Abstract ==
  INSTANCE GenericCall WITH
    current <- [g \in Gf |-> Current(g)],
    calls <- [t \in Thread |-> [n \in 1 .. Len(stack[t]) |->
                [key |-> stack[t][n].key, since |-> stack[t][n].since,
                 chosen |-> IF stack[t][n].place = "chosen" THEN stack[t][n].func
                                                            ELSE NoValue]]]

CallsAreCurrent == Abstract!Spec
----------------------------------------------------------------------------
(***************************************************************************)
(* What makes these true.  A call is a frame; a missed one has no method   *)
(* yet, and every method in a table is a version.                          *)
(***************************************************************************)
Frame == [key : Key, since : Nat, record : Records \union {NoRecord},
          spec : Nat \union {NoValue}, place : {"missed", "computing", "computed", "chosen"},
          func : Nat \union {NoValue}]

Sound(f) ==
  /\ f.place = "missed" <=> f.func = NoValue
  /\ f.key \in Uncached => f.place # "computed"
  /\ f.key \notin Uncached => f.record \in Records

CacheTypes ==
  /\ TypeOK
  /\ stack \in [Thread -> Seq(Frame)]
  /\ vector \in [Thread -> Key \union {NoKey}]
  /\ \A t \in Thread : stack[t] # <<>> => life[t] = "listed" /\ vector[t] \in Key
  /\ \A t \in Thread : \A n \in DOMAIN stack[t] : Sound(stack[t][n])
  /\ \A t \in Thread : \A i \in Records : table[t][i].key # NoKey => table[t][i].value \in Nat

(* What may be left to do of a change.                                     *)
Rests == Plans \union Inserted
           \union {<<"delete">>, <<"delete", "insert", "respec", "clear">>}

(* The metadata lock covers a change from its first step to its last, and  *)
(* the computation of an effective method, which therefore has the methods *)
(* of the moment; a change calls no generic function that it changes,      *)
(* unless in an interrupt function.                                        *)
MetadataLocked ==
  /\ \/ change = NoChange
     \/ /\ change \in [by : Thread, gf : Gf, todo : Rests]
        /\ lock = change.by
        /\ change.todo \in Inserted => methods[change.gf] > 0
  /\ \A t \in Thread : \A n \in DOMAIN stack[t] : LET f == stack[t][n] IN
       /\ change.by = t /\ t \notin Intruding => change.gf # GfOf[f.key]
       /\ f.place = "computing" => lock = t /\ f.func = methods[GfOf[f.key]]

(* An effective method is computed from methods that count between the     *)
(* beginning of the call and now.                                          *)
Recent(f) ==
  LET now == Current(GfOf[f.key])
  IN  /\ f.since <= now
      /\ f.place \in {"computing", "computed"} => f.since <= f.func /\ f.func <= now

ComputedIsRecent == \A t \in Thread : \A n \in DOMAIN stack[t] : Recent(stack[t][n])

(* Only a computation calls (no thread is Intruding), so a method about to *)
(* be stored either counts or the request to clear it is still unread; and *)
(* a thread is listed with an empty table (none is Reused).                *)
StoresCurrent ==
  \A t \in Thread :
    /\ \A n \in 1 .. Len(stack[t]) - 1 : stack[t][n].place = "computing"
    /\ stack[t] # <<>> /\ Top(t).place = "computed" =>
         GfOf[Top(t).key] \in clear[t] \/ Top(t).func = Current(GfOf[Top(t).key])
    /\ life[t] # "listed" => \A i \in Records : table[t][i].key = NoKey

(* The key of a call is one of the list that counts, or a request to clear *)
(* the caches is unread or about to come; with an older key, a method that *)
(* is being computed or about to be stored waits for such a request, or    *)
(* the request has been taken by a call inside.                            *)
KeyIsWatched(t, f) ==
  LET g == GfOf[f.key]
  IN  /\ f.place = "missed" => \/ f.spec = specs[g] \/ g \in clear[t]
                               \/ change.gf = g /\ change.todo = <<"clear">>
      /\ f.place \in {"computing", "computed"} /\ f.spec = NoValue =>
           g \in clear[t] \/ t \in robbed

KeysFit ==
  \A t \in Thread :
    /\ \A n \in DOMAIN stack[t] : KeyIsWatched(t, stack[t][n])
    /\ t \notin robbed => misfit[t] \subseteq clear[t]

CurrentInv ==
  CacheTypes /\ MetadataLocked /\ ComputedIsRecent /\ StoresCurrent /\ MethodsAreCurrent

FitInv == CurrentInv /\ KeysFit

(* Record i is on the path of key k and nothing empty comes before it.     *)
Leads(tbl, k, i) ==
  \E n \in 1 .. Probes : Path(k, n) = i /\ \A m \in 1 .. n - 1 : ~Empty(tbl[Path(k, m)])

(* A key has one record, to which its path leads; a call that has missed   *)
(* holds a record to which the path of its key leads, and while it waits   *)
(* for its effective method no record has that key.                        *)
Reachable(tbl) ==
  /\ \A i \in Records : tbl[i].key # NoKey => Leads(tbl, tbl[i].key, i)
  /\ \A i, j \in Records : tbl[i].key # NoKey /\ tbl[i].key = tbl[j].key => i = j

Awaited(tbl, f) ==
  Leads(tbl, f.key, f.record) /\ \A i \in Records : tbl[i].key # f.key

FindInv ==
  /\ CacheTypes
  /\ \A t \in Thread \ Intruding : \A m, n \in DOMAIN stack[t] :
       stack[t][m].key = stack[t][n].key => m = n
  /\ \A t \in Thread \ (strayed \union Intruding) :
       /\ Reachable(table[t])
       /\ \A n \in DOMAIN stack[t] :
            stack[t][n].place # "chosen" /\ stack[t][n].key \notin Uncached =>
              Awaited(table[t], stack[t][n])
=============================================================================
