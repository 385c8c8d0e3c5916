----------------------------- MODULE MethodHash -----------------------------
(***************************************************************************)
(* The table of effective methods that each environment keeps              *)
(* (src/src/c/gfun.c): open addressing over a bounded number of probes,    *)
(* with empty and deleted records told apart, a generation in each record  *)
(* and an expiry of the old half.  Pure operators on a table; GfunCache    *)
(* gives one to every thread.                                              *)
(***************************************************************************)
EXTENDS Integers, FiniteSetsExt

CONSTANTS
  Gf,        \* generic functions
  Key,       \* vectors of a generic function and the classes of arguments
  GfOf,      \* the generic function of a key, its element 0
  Size,      \* records of a table (4096)
  Probes,    \* records that a search looks at (20)
  Hash,      \* vector_hash_key of a key, as the number of a record
  NoKey,     \* MKCL_OBJNULL as a key
  NoValue,   \* MKCL_OBJNULL as a value: the record was never used
  Nil        \* the value of an expired record

ASSUME MethodHashAssumption ==
  /\ GfOf \in [Key -> Gf]
  /\ Size \in Nat \ {0} /\ Probes \in Nat \ {0}
  /\ Hash \in [Key -> 0 .. Size - 1]
  /\ NoKey \notin Key
  /\ NoValue \notin Nat /\ Nil \notin Nat /\ NoValue # Nil

Records == 0 .. Size - 1
NoRecord == Size

(* The value of a record is the version of the methods of its generic      *)
(* function from which it was computed.                                    *)
Record == [key : Key \union {NoKey}, value : Nat \union {NoValue, Nil}, gen : Nat]

(* do_clear_method_hash of T, at the making of an environment.             *)
Cleared == [i \in Records |-> [key |-> NoKey, value |-> NoValue, gen |-> 0]]

(* Mutant: a cleared record is made empty instead of deleted.              *)
ClearMethodHash_Empties(table, targets) ==
  [i \in Records |->
    IF table[i].key # NoKey /\ GfOf[table[i].key] \in targets
      THEN [key |-> NoKey, value |-> NoValue, gen |-> 0] ELSE table[i]]

(* do_clear_method_hash of each generic function in targets: the record is *)
(* deleted, its value stays.                                               *)
ClearMethodHash(table, targets) ==
  [i \in Records |->
    IF table[i].key # NoKey /\ GfOf[table[i].key] \in targets
      THEN [table[i] EXCEPT !.key = NoKey, !.gen = 0] ELSE table[i]]
----------------------------------------------------------------------------
(***************************************************************************)
(* search_method_hash                                                      *)
(***************************************************************************)
Empty(r) == r.key = NoKey /\ r.value = NoValue

Path(k, n) == (Hash[k] + n - 1) % Size

(* The probes up to the first empty record or to the record of the key.    *)
Stops(table, k) ==
  {n \in 1 .. Probes : LET r == table[Path(k, n)] IN Empty(r) \/ r.key = k}

Examined(table, k) ==
  {n \in 1 .. Probes : \A m \in Stops(table, k) : n <= m}

Matching(table, k) == {n \in Examined(table, k) : table[Path(k, n)].key = k}
Free(table, k) == {n \in Examined(table, k) : table[Path(k, n)].key = NoKey}

(* Only a record older than the current generation may be overwritten.     *)
Oldest(table, gen, k) ==
  {n \in Examined(table, k) :
     /\ table[Path(k, n)].gen < gen
     /\ \A m \in Examined(table, k) : table[Path(k, n)].gen <= table[Path(k, m)].gen}

(* The record of the key; else the last deleted or empty one that was      *)
(* seen; else the first of the oldest; else there is none, which is fatal  *)
(* (mkcl_lose).                                                            *)
ChosenRecord(table, gen, k) ==
  IF Matching(table, k) # {} THEN Path(k, Min(Matching(table, k)))
  ELSE IF Free(table, k) # {} THEN Path(k, Max(Free(table, k)))
  ELSE IF Oldest(table, gen, k) # {} THEN Path(k, Min(Oldest(table, gen, k)))
  ELSE NoRecord

Found(table, k) == Matching(table, k) # {}

(* The chosen record becomes the youngest and, after a miss, a deleted one.*)
Touched(table, gen, k) ==
  LET e == ChosenRecord(table, gen, k)
  IN  [table EXCEPT ![e] = [key |-> IF Found(table, k) THEN k ELSE NoKey,
                            value |-> @.value,
                            gen |-> IF Found(table, k) THEN gen ELSE gen + 1]]

NextGen(table, gen, k) == IF Found(table, k) THEN gen ELSE gen + 1

(* A record has three words, and a table of total_size words is old at     *)
(* generation total_size/2.                                                *)
Expires(gen) == gen >= (3 * Size) \div 2

Shifted(table, half) ==
  [i \in Records |->
    IF table[i].gen <= half THEN [key |-> NoKey, value |-> Nil, gen |-> 0]
                            ELSE [table[i] EXCEPT !.gen = @ - half]]

(* The table and the generation after the search.                          *)
SearchedTable(table, gen, k) ==
  LET g == NextGen(table, gen, k)
  IN  IF Expires(g) THEN Shifted(Touched(table, gen, k), g \div 2)
                    ELSE Touched(table, gen, k)

SearchedGen(table, gen, k) ==
  LET g == NextGen(table, gen, k) IN IF Expires(g) THEN g - g \div 2 ELSE g

(* What _mkcl_standard_dispatch puts into the record after a miss.         *)
StoredTable(table, e, k, value) ==
  [table EXCEPT ![e] = [key |-> k, value |-> value, gen |-> @.gen]]

(* The effective methods that a table can give.                            *)
Live(table) == {<<table[i].key, table[i].value>> : i \in {j \in Records : table[j].key # NoKey}}
=============================================================================
