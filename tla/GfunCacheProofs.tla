-------------------------- MODULE GfunCacheProofs --------------------------
(* Theorems about the caches of effective methods, for any number of        *)
(* threads, generic functions, keys and changes, and any size of the table. *)
EXTENDS GfunCache, TLAPS, WellFoundedInduction, SequenceTheorems

(* A non-empty set of probes has a first and a last one.                   *)
LEMMA FirstProbe ==
  ASSUME NEW S, S \subseteq 1 .. Probes, S # {}
  PROVE  Min(S) \in S /\ \A n \in S : Min(S) <= n
<1>0. S \subseteq Nat
  BY MethodHashAssumption
<1>1. IsWellFoundedOn({ss \in Nat \X Nat : ss[1] < ss[2]}, Nat)
  BY NatLessThanWellFounded DEF OpToRel
<1>2. PICK x \in S : \A y \in S : <<y, x>> \notin {ss \in Nat \X Nat : ss[1] < ss[2]}
  BY <1>0, <1>1, WFMin
<1>3. ASSUME NEW y \in S PROVE x <= y
  <2>1. <<y, x>> \in Nat \X Nat /\ x \in Nat /\ y \in Nat
    BY <1>0
  <2>2. ~(y < x)
    BY <1>2, <2>1
  <2> QED  BY <2>1, <2>2
<1> QED  BY <1>3 DEF Min

(* A set of probes that is not empty has a last one.                       *)
LEMMA LastProbe ==
  ASSUME NEW S, S \subseteq 1 .. Probes, S # {}
  PROVE  Max(S) \in S
<1>0. S \subseteq Nat /\ Probes \in Nat
  BY MethodHashAssumption
<1> DEFINE T == {n \in 1 .. Probes : Probes + 1 - n \in S}
<1>1. T \subseteq 1 .. Probes /\ T # {}
  <2>1. PICK n \in S : TRUE
    OBVIOUS
  <2>2. n \in 1 .. Probes /\ Probes + 1 - (Probes + 1 - n) = n
        /\ Probes + 1 - n \in 1 .. Probes
    BY <1>0, <2>1
  <2> QED  BY <2>1, <2>2
<1>2. PICK x \in T : \A y \in T : x <= y
  BY <1>1, FirstProbe
<1>3. \A y \in S : Probes + 1 - x >= y
  <2> SUFFICES ASSUME NEW y \in S PROVE Probes + 1 - x >= y
    OBVIOUS
  <2>1. Probes + 1 - y \in 1 .. Probes /\ Probes + 1 - (Probes + 1 - y) = y
        /\ y \in 1 .. Probes /\ x \in 1 .. Probes
    BY <1>0
  <2>2. x <= Probes + 1 - y
    BY <1>2, <2>1
  <2> QED  BY <1>0, <2>1, <2>2
<1>4. Probes + 1 - x \in S
  BY <1>2
<1> QED  BY <1>3, <1>4 DEF Max
-----------------------------------------------------------------------------
(* The table.                                                              *)

(* A probe examines a record of the table.                                 *)
LEMMA PathIsRecord ==
  ASSUME NEW k \in Key, NEW n \in 1 .. Probes
  PROVE  Path(k, n) \in Records
<1>1. Hash[k] + n - 1 \in Nat /\ Size \in Nat \ {0}
  BY MethodHashAssumption
<1> QED  BY <1>1 DEF Path, Records

(* A search looks at no record behind an empty one or behind that of the   *)
(* key, so the path leads to every record that it looks at.                *)
LEMMA ExaminedIsLed ==
  ASSUME NEW tbl, NEW k \in Key, NEW n \in Examined(tbl, k)
  PROVE  Leads(tbl, k, Path(k, n)) /\ n \in 1 .. Probes
<1>1. n \in 1 .. Probes /\ \A m \in Stops(tbl, k) : n <= m
  BY DEF Examined
<1>2. \A m \in 1 .. n - 1 : ~Empty(tbl[Path(k, m)])
  <2> SUFFICES ASSUME NEW m \in 1 .. n - 1, Empty(tbl[Path(k, m)]) PROVE FALSE
    OBVIOUS
  <2>1. m \in 1 .. Probes /\ ~(n <= m)
    BY <1>1, MethodHashAssumption
  <2> QED  BY <1>1, <2>1 DEF Stops
<1> QED  BY <1>1, <1>2 DEF Leads

(* The sets of probes from which a search chooses.                         *)
LEMMA ProbeSets ==
  ASSUME NEW tbl, NEW g, NEW k \in Key
  PROVE  /\ Examined(tbl, k) \subseteq 1 .. Probes
         /\ Matching(tbl, k) \subseteq Examined(tbl, k)
         /\ Free(tbl, k) \subseteq Examined(tbl, k)
         /\ Oldest(tbl, g, k) \subseteq Examined(tbl, k)
  BY DEF Examined, Matching, Free, Oldest

(* A search that finds its key chooses a record that has it.               *)
LEMMA ChosenFound ==
  ASSUME NEW tbl, NEW g, NEW k \in Key, Found(tbl, k)
  PROVE  ChosenRecord(tbl, g, k) \in Records /\ tbl[ChosenRecord(tbl, g, k)].key = k
<1>1. Min(Matching(tbl, k)) \in Matching(tbl, k)
  BY ProbeSets, FirstProbe DEF Found
<1>2. ChosenRecord(tbl, g, k) = Path(k, Min(Matching(tbl, k)))
  BY DEF ChosenRecord, Found
<1> QED  BY <1>1, <1>2, ProbeSets, PathIsRecord DEF Matching

(* A search that misses chooses a record to which the path of its key      *)
(* leads.                                                                  *)
LEMMA ChosenMissed ==
  ASSUME NEW tbl, NEW g, NEW k \in Key, ~Found(tbl, k),
         ChosenRecord(tbl, g, k) # NoRecord
  PROVE  /\ ChosenRecord(tbl, g, k) \in Records
         /\ Leads(tbl, k, ChosenRecord(tbl, g, k))
<1>1. PICK n \in Examined(tbl, k) : ChosenRecord(tbl, g, k) = Path(k, n)
  <2>1. CASE Free(tbl, k) # {}
    <3>1. Max(Free(tbl, k)) \in Free(tbl, k)
      BY <2>1, ProbeSets, LastProbe
    <3> QED  BY <2>1, <3>1, ProbeSets DEF ChosenRecord, Found
  <2>2. CASE Free(tbl, k) = {}
    <3>1. Oldest(tbl, g, k) # {}
      BY <2>2 DEF ChosenRecord, Found
    <3>2. Min(Oldest(tbl, g, k)) \in Oldest(tbl, g, k)
      BY <3>1, ProbeSets, FirstProbe
    <3> QED  BY <2>2, <3>1, <3>2, ProbeSets DEF ChosenRecord, Found
  <2> QED  BY <2>1, <2>2
<1>2. Leads(tbl, k, Path(k, n)) /\ n \in 1 .. Probes
  BY ExaminedIsLed
<1> QED  BY <1>1, <1>2, PathIsRecord

(* A search finds the key that has one record, to which its path leads.    *)
LEMMA LedIsFound ==
  ASSUME NEW tbl \in [Records -> Record], NEW g, NEW i \in Records, NEW k \in Key,
         tbl[i].key = k, Reachable(tbl)
  PROVE  Found(tbl, k) /\ ChosenRecord(tbl, g, k) = i
<1>0. \A j \in Records : tbl[j].key = k => i = j
  BY MethodHashAssumption DEF Reachable
<1>1. PICK n \in 1 .. Probes : /\ Path(k, n) = i
                               /\ \A m \in 1 .. n - 1 : ~Empty(tbl[Path(k, m)])
  BY MethodHashAssumption DEF Reachable, Leads
<1>2. n \in Stops(tbl, k) /\ Stops(tbl, k) \subseteq 1 .. Probes
  BY <1>1 DEF Stops
<1>3. PICK s \in Stops(tbl, k) : \A m \in Stops(tbl, k) : s <= m
  BY <1>2, FirstProbe
<1>4. s \in Examined(tbl, k)
  BY <1>2, <1>3 DEF Examined
<1>5. tbl[Path(k, s)].key = k
  <2>1. CASE s = n
    BY <1>1, <2>1
  <2>2. CASE s # n
    <3>1. s \in 1 .. n - 1
      BY <1>2, <1>3, <2>2, MethodHashAssumption
    <3> QED  BY <1>1, <1>3, <3>1 DEF Stops
  <2> QED  BY <2>1, <2>2
<1>6. Found(tbl, k)
  BY <1>4, <1>5 DEF Found, Matching
<1> QED  BY <1>0, <1>6, ChosenFound

(* The new table has no effective method that the old one had not at the   *)
(* same record, and no record became empty.                                *)
Thins(new, old) ==
  \A i \in Records :
    /\ new[i].key # NoKey => new[i].key = old[i].key /\ new[i].value = old[i].value
    /\ Empty(new[i]) => Empty(old[i])

Valued(tbl) == \A i \in Records : tbl[i].key # NoKey => tbl[i].value \in Nat

(* Deletion, the mark of a search and the shift of generations only take   *)
(* keys out of a table, and make no record empty.                          *)
LEMMA ClearThins ==
  ASSUME NEW tbl \in [Records -> Record], Valued(tbl), NEW targets
  PROVE  /\ ClearMethodHash(tbl, targets) \in [Records -> Record]
         /\ Thins(ClearMethodHash(tbl, targets), tbl)
         /\ \A i \in Records : ClearMethodHash(tbl, targets)[i].key # NoKey
                                 => GfOf[tbl[i].key] \notin targets
<1>1. \A r \in Record : LET d == [r EXCEPT !.key = NoKey, !.gen = 0]
                        IN  d \in Record /\ d.key = NoKey /\ d.value = r.value
  BY DEF Record
<1>2. ClearMethodHash(tbl, targets) \in [Records -> Record]
  BY <1>1 DEF ClearMethodHash, Record
<1>3. Thins(ClearMethodHash(tbl, targets), tbl)
  <2> SUFFICES ASSUME NEW i \in Records, NEW d, d = ClearMethodHash(tbl, targets)[i]
               PROVE  /\ d.key # NoKey => d.key = tbl[i].key /\ d.value = tbl[i].value
                      /\ Empty(d) => Empty(tbl[i])
    BY DEF Thins
  <2>1. \/ d = tbl[i]
        \/ tbl[i].key # NoKey /\ d = [tbl[i] EXCEPT !.key = NoKey, !.gen = 0]
    BY DEF ClearMethodHash
  <2>2. tbl[i] \in Record
    OBVIOUS
  <2>3. d = tbl[i] \/ (tbl[i].key # NoKey /\ d.key = NoKey /\ d.value = tbl[i].value)
    BY <1>1, <2>1, <2>2
  <2>4. tbl[i].key # NoKey => tbl[i].value # NoValue
    BY MethodHashAssumption DEF Valued
  <2> QED  BY <2>3, <2>4 DEF Empty
<1>4. ASSUME NEW i \in Records, ClearMethodHash(tbl, targets)[i].key # NoKey
      PROVE  GfOf[tbl[i].key] \notin targets
  BY <1>1, <1>4 DEF ClearMethodHash, Record
<1> QED  BY <1>2, <1>3, <1>4

LEMMA TouchedThins ==
  ASSUME NEW tbl \in [Records -> Record], Valued(tbl), NEW g \in Nat, NEW k \in Key,
         ChosenRecord(tbl, g, k) # NoRecord
  PROVE  /\ Touched(tbl, g, k) \in [Records -> Record] /\ Thins(Touched(tbl, g, k), tbl)
         /\ ~Found(tbl, k) => Touched(tbl, g, k)[ChosenRecord(tbl, g, k)].key = NoKey
<1>1. PICK e \in Records : e = ChosenRecord(tbl, g, k)
  BY ChosenFound, ChosenMissed
<1>2. Found(tbl, k) => tbl[e].key = k
  BY <1>1, ChosenFound
<1>3. PICK r \in Record : /\ r.key = IF Found(tbl, k) THEN k ELSE NoKey
                          /\ r.value = tbl[e].value
                          /\ Touched(tbl, g, k) = [tbl EXCEPT ![e] = r]
  <2> DEFINE r == [key |-> IF Found(tbl, k) THEN k ELSE NoKey, value |-> tbl[e].value,
                   gen |-> IF Found(tbl, k) THEN g ELSE g + 1]
  <2>1. r \in Record
    BY DEF Record
  <2>2. Touched(tbl, g, k) = [tbl EXCEPT ![e] = r]
    BY <1>1 DEF Touched
  <2> QED  BY <2>1, <2>2
<1>4. [tbl EXCEPT ![e] = r] \in [Records -> Record]
  OBVIOUS
<1>5. Thins([tbl EXCEPT ![e] = r], tbl)
  BY <1>2, <1>3, MethodHashAssumption DEF Thins, Valued, Empty
<1> QED  BY <1>1, <1>3, <1>4, <1>5

LEMMA ShiftedThins ==
  ASSUME NEW tbl \in [Records -> Record], NEW half \in Nat
  PROVE  Shifted(tbl, half) \in [Records -> Record] /\ Thins(Shifted(tbl, half), tbl)
<1>1. \A i \in Records : /\ tbl[i] \in Record /\ tbl[i].gen \in Nat
                         /\ [tbl[i] EXCEPT !.gen = @ - half]
                              = [key |-> tbl[i].key, value |-> tbl[i].value,
                                 gen |-> tbl[i].gen - half]
  BY DEF Record
<1>2. Shifted(tbl, half) \in [Records -> Record]
  BY <1>1 DEF Shifted, Record
<1>3. Thins(Shifted(tbl, half), tbl)
  BY <1>1, MethodHashAssumption DEF Shifted, Thins, Empty
<1> QED  BY <1>2, <1>3

LEMMA ThinsTransitive ==
  ASSUME NEW a, NEW b, NEW c, Thins(a, b), Thins(b, c)
  PROVE  Thins(a, c)
  BY DEF Thins

LEMMA SearchedThins ==
  ASSUME NEW tbl \in [Records -> Record], Valued(tbl), NEW g \in Nat, NEW k \in Key,
         ChosenRecord(tbl, g, k) # NoRecord
  PROVE  /\ SearchedTable(tbl, g, k) \in [Records -> Record]
         /\ SearchedGen(tbl, g, k) \in Nat
         /\ Thins(SearchedTable(tbl, g, k), tbl)
         /\ ~Found(tbl, k) => SearchedTable(tbl, g, k)[ChosenRecord(tbl, g, k)].key = NoKey
<1>1. PICK n \in Nat : n = NextGen(tbl, g, k)
  BY DEF NextGen
<1>2. n \div 2 \in Nat /\ n - n \div 2 \in Nat
  OBVIOUS
<1>3. PICK mid \in [Records -> Record] : mid = Touched(tbl, g, k) /\ Thins(mid, tbl)
  BY TouchedThins
<1>4. ChosenRecord(tbl, g, k) \in Records
  BY ChosenFound, ChosenMissed
<1>5. ~Found(tbl, k) => mid[ChosenRecord(tbl, g, k)].key = NoKey
  BY <1>3, TouchedThins
<1>6. /\ Shifted(mid, n \div 2) \in [Records -> Record] /\ Thins(Shifted(mid, n \div 2), mid)
  BY <1>2, ShiftedThins
<1>7. SearchedTable(tbl, g, k) \in {mid, Shifted(mid, n \div 2)}
  BY <1>1, <1>3 DEF SearchedTable
<1>8. Thins(SearchedTable(tbl, g, k), mid)
  BY <1>6, <1>7 DEF Thins
<1>9. SearchedGen(tbl, g, k) \in Nat
  BY <1>1, <1>2 DEF SearchedGen
<1>10. Thins(SearchedTable(tbl, g, k), tbl)
  BY <1>3, <1>8, ThinsTransitive
<1>11. ~Found(tbl, k) => SearchedTable(tbl, g, k)[ChosenRecord(tbl, g, k)].key = NoKey
  BY <1>4, <1>5, <1>8 DEF Thins
<1> QED  BY <1>3, <1>6, <1>7, <1>9, <1>10, <1>11
-----------------------------------------------------------------------------
(* The calls in progress of a thread.                                      *)

Stacks == [Thread -> Seq(Frame)]

(* What the steps on the stack of calls do to it.                          *)
LEMMA Pushed ==
  ASSUME stack \in Stacks, NEW t \in Thread, NEW f \in Frame, Push(t, f)
  PROVE  /\ stack' \in Stacks /\ Len(stack'[t]) = Len(stack[t]) + 1
         /\ DOMAIN stack'[t] = 1 .. Len(stack[t]) + 1 /\ stack'[t] # <<>>
         /\ stack'[t][Len(stack[t]) + 1] = f
         /\ \A n \in 1 .. Len(stack[t]) : stack'[t][n] = stack[t][n]
         /\ \A u \in Thread : u # t => stack'[u] = stack[u]
<1>1. PICK s \in Seq(Frame) : s = stack[t]
  BY DEF Stacks
<1>2. /\ stack' = [stack EXCEPT ![t] = Append(s, f)]
      /\ Append(s, f) \in Seq(Frame) /\ Len(Append(s, f)) = Len(s) + 1
  BY <1>1 DEF Push
<1>3. stack'[t] = Append(s, f) /\ stack' \in Stacks
  BY <1>2 DEF Stacks
<1>4. DOMAIN Append(s, f) = 1 .. Len(s) + 1 /\ Append(s, f) # <<>>
      /\ Append(s, f)[Len(s) + 1] = f
      /\ \A n \in 1 .. Len(s) : Append(s, f)[n] = s[n]
  BY <1>2
<1> QED  BY <1>1, <1>2, <1>3, <1>4 DEF Stacks

LEMMA Topped ==
  ASSUME stack \in Stacks, NEW t \in Thread, stack[t] # <<>>, NEW f \in Frame,
         SetTop(t, f)
  PROVE  /\ stack' \in Stacks /\ Len(stack'[t]) = Len(stack[t])
         /\ DOMAIN stack'[t] = 1 .. Len(stack[t]) /\ stack'[t] # <<>>
         /\ stack'[t][Len(stack[t])] = f
         /\ \A n \in 1 .. Len(stack[t]) - 1 : stack'[t][n] = stack[t][n]
         /\ \A u \in Thread : u # t => stack'[u] = stack[u]
<1>1. PICK s \in Seq(Frame) : s = stack[t]
  BY DEF Stacks
<1>2. Len(s) \in Nat \ {0} /\ Len(s) \in 1 .. Len(s)
  BY <1>1
<1>3. PICK new : new = [s EXCEPT ![Len(s)] = f] /\ stack' = [stack EXCEPT ![t] = new]
  BY <1>1 DEF SetTop
<1>4. /\ new \in Seq(Frame) /\ Len(new) = Len(s)
      /\ \A n \in 1 .. Len(s) : new[n] = IF n = Len(s) THEN f ELSE s[n]
  BY <1>2, <1>3, ExceptSeq
<1>5. DOMAIN new = 1 .. Len(s) /\ new # <<>> /\ new[Len(s)] = f
      /\ \A n \in 1 .. Len(s) - 1 : new[n] = s[n]
  BY <1>2, <1>4
<1>6. stack'[t] = new /\ stack' \in Stacks
  BY <1>3, <1>4 DEF Stacks
<1> QED  BY <1>1, <1>3, <1>4, <1>5, <1>6 DEF Stacks

LEMMA Popped ==
  ASSUME stack \in Stacks, NEW t \in Thread, stack[t] # <<>>, Pop(t)
  PROVE  /\ stack' \in Stacks /\ Len(stack'[t]) = Len(stack[t]) - 1
         /\ DOMAIN stack'[t] = 1 .. Len(stack[t]) - 1
         /\ stack'[t] = <<>> <=> Len(stack[t]) = 1
         /\ \A n \in 1 .. Len(stack[t]) - 1 : stack'[t][n] = stack[t][n]
         /\ \A u \in Thread : u # t => stack'[u] = stack[u]
<1>1. PICK s \in Seq(Frame) : s = stack[t]
  BY DEF Stacks
<1>2. Len(s) \in Nat \ {0}
  BY <1>1
<1>3. PICK new : new = SubSeq(s, 1, Len(s) - 1) /\ stack' = [stack EXCEPT ![t] = new]
  BY <1>1 DEF Pop
<1>4. /\ new \in Seq(Frame) /\ Len(new) = Len(s) - 1
      /\ \A n \in 1 .. Len(s) - 1 : new[n] = s[n]
  <2>1. PICK m \in Nat : m = Len(s) - 1
    BY <1>2
  <2>2. \A n \in 1 .. m : s[n] \in Frame
    BY <1>2, <2>1
  <2>3. /\ SubSeq(s, 1, m) \in Seq(Frame)
        /\ Len(SubSeq(s, 1, m)) = IF 1 <= m THEN m - 1 + 1 ELSE 0
        /\ \A n \in 1 .. m - 1 + 1 : SubSeq(s, 1, m)[n] = s[1 + n - 1]
    BY <2>2, SubSeqProperties
  <2>4. /\ (IF 1 <= m THEN m - 1 + 1 ELSE 0) = m
        /\ \A n \in 1 .. m : n \in 1 .. m - 1 + 1 /\ 1 + n - 1 = n
    OBVIOUS
  <2>5. new = SubSeq(s, 1, m)
    BY <1>3, <2>1
  <2> QED  BY <2>1, <2>3, <2>4, <2>5
<1>5. DOMAIN new = 1 .. Len(s) - 1 /\ (new = <<>> <=> Len(s) = 1)
  BY <1>2, <1>4
<1>6. stack'[t] = new /\ stack' \in Stacks
  BY <1>3, <1>4 DEF Stacks
<1> QED  BY <1>1, <1>3, <1>4, <1>5, <1>6 DEF Stacks

LEMMA TopFrame ==
  ASSUME stack \in Stacks, NEW t \in Thread, stack[t] # <<>>
  PROVE  /\ Len(stack[t]) \in Nat \ {0} /\ Len(stack[t]) \in DOMAIN stack[t]
         /\ DOMAIN stack[t] = 1 .. Len(stack[t])
         /\ Top(t) \in Frame /\ Top(t) = stack[t][Len(stack[t])]
<1>1. PICK s \in Seq(Frame) : s = stack[t]
  BY DEF Stacks
<1> QED  BY <1>1 DEF Top
-----------------------------------------------------------------------------
(* Types, and the discipline of the metadata lock.                         *)

LEMMA NothingInserted == <<>> \notin Inserted
  BY DEF Inserted

(* The version that counts is that of the methods, but in the middle of a  *)
(* change.                                                                 *)
LEMMA CurrentIs ==
  ASSUME CacheTypes, MetadataLocked, NEW g \in Gf
  PROVE  /\ Current(g) \in Nat
         /\ change.gf # g \/ change.by = NIL => Current(g) = methods[g]
<1>1. methods[g] \in Nat
  BY DEF CacheTypes, TypeOK
<1>2. CASE change = NoChange
  BY <1>1, <1>2, NothingInserted DEF Current, NoChange
<1>3. CASE change # NoChange
  <2>1. change.by # NIL /\ (change.todo \in Inserted => methods[change.gf] > 0)
    BY <1>3, GfunCacheAssumption DEF MetadataLocked
  <2> QED  BY <1>1, <2>1 DEF Current
<1> QED  BY <1>2, <1>3

(* What a search for key k in the table of thread t does to it.            *)
LEMMA SearchFacts ==
  ASSUME CacheTypes, NEW t \in Thread, NEW k \in Key, NEW tbl \in [Records -> Record],
         Valued(tbl), NEW e, e = ChosenRecord(tbl, gen[t], k), e # NoRecord
  PROVE  /\ e \in Records
         /\ SearchedTable(tbl, gen[t], k) \in [Records -> Record]
         /\ SearchedGen(tbl, gen[t], k) \in Nat
         /\ Thins(SearchedTable(tbl, gen[t], k), tbl)
         /\ Found(tbl, k) => tbl[e].key = k
         /\ ~Found(tbl, k) => Leads(tbl, k, e) /\ SearchedTable(tbl, gen[t], k)[e].key = NoKey
<1>1. PICK g \in Nat : g = gen[t]
  BY DEF CacheTypes, TypeOK
<1>2. e = ChosenRecord(tbl, g, k)
  BY <1>1
<1>3. e \in Records
  BY <1>2, ChosenFound, ChosenMissed
<1>4. Found(tbl, k) => tbl[e].key = k
  BY <1>2, ChosenFound
<1>5. ~Found(tbl, k) => Leads(tbl, k, e)
  BY <1>2, ChosenMissed
<1> QED  BY <1>1, <1>2, <1>3, <1>4, <1>5, SearchedThins

(* A thread's table and spec vector, before and after the clear list is    *)
(* taken.                                                                  *)
LEMMA OwnTable ==
  ASSUME CacheTypes, NEW t \in Thread
  PROVE  /\ table[t] \in [Records -> Record] /\ Valued(table[t])
         /\ TakenTable(t) \in [Records -> Record] /\ Valued(TakenTable(t))
         /\ Thins(TakenTable(t), table[t])
         /\ \A i \in Records : TakenTable(t)[i].key # NoKey =>
              /\ TakenTable(t)[i].key = table[t][i].key
              /\ GfOf[TakenTable(t)[i].key] \notin clear[t]
<1>1. PICK tbl \in [Records -> Record] : tbl = table[t]
  BY DEF CacheTypes, TypeOK
<1>2. Valued(tbl)
  BY <1>1 DEF CacheTypes, Valued
<1>3. PICK new \in [Records -> Record] : new = TakenTable(t) /\ Thins(new, tbl)
  BY <1>1, <1>2, ClearThins DEF TakenTable
<1>4. \A i \in Records : new[i].key # NoKey => GfOf[tbl[i].key] \notin clear[t]
  BY <1>1, <1>2, <1>3, ClearThins DEF TakenTable
<1> QED  BY <1>1, <1>2, <1>3, <1>4 DEF Thins, Valued

(* A table that took over only what another had keeps its methods valued.  *)
LEMMA ThinsValued ==
  ASSUME NEW new, NEW old, Thins(new, old), Valued(old)
  PROVE  Valued(new)
  BY DEF Thins, Valued

(* A call, by way of the cache or not.                                     *)
CallStep(t, k) == Dispatch(t, k) \/ DispatchUncached(t, k)

(* A call ends the process, or pushes a frame with the method that it found*)
(* in the table, or with the record in which to put one, or with neither.  *)
LEMMA DispatchFacts ==
  ASSUME CacheTypes, MetadataLocked, NEW t \in Thread, NEW k \in Key, CallStep(t, k),
         NEW old, old = TakenTable(t)
  PROVE  \E new \in [Records -> Record] :
           /\ table' = [table EXCEPT ![t] = new] /\ Thins(new, old)
           /\ gen' \in [Thread -> Nat]
           /\ \/ stack' = stack
              \/ \E f \in Frame :
                   /\ Push(t, f) /\ f.key = k /\ f.since = Current(GfOf[k]) /\ Sound(f)
                   /\ f.spec = specs[GfOf[k]]
                   /\ \/ /\ f.place = "missed" /\ f.func = NoValue
                         /\ \/ k \in Uncached
                            \/ ~Found(old, k) /\ Leads(old, k, f.record)
                      \/ /\ f.place = "chosen" /\ f.func \in Nat /\ f.record \in Records
                         /\ old[f.record].key = k /\ f.func = old[f.record].value
<1>0. old \in [Records -> Record] /\ Valued(old) /\ gen \in [Thread -> Nat]
  BY OwnTable DEF CacheTypes, TypeOK
<1>a. Current(GfOf[k]) \in Nat /\ specs[GfOf[k]] \in Nat
  <2>1. GfOf[k] \in Gf
    BY MethodHashAssumption
  <2> QED  BY <2>1, CurrentIs DEF CacheTypes, TypeOK
<1>b. Thins(old, old) /\ NoValue \notin Nat
  BY MethodHashAssumption DEF Thins
<1>1. PICK e : e = ChosenRecord(old, gen[t], k)
  OBVIOUS
<1>2. CASE Dispatch(t, k) /\ e = NoRecord
  <2>1. table' = [table EXCEPT ![t] = old] /\ gen' = gen /\ stack' = stack
    BY <1>1, <1>2 DEF Dispatch
  <2> QED  BY <1>0, <1>b, <2>1
<1>3. CASE Dispatch(t, k) /\ e # NoRecord
  <2>0. k \notin Uncached
    BY <1>3 DEF Dispatch
  <2>1. PICK new \in [Records -> Record] :
          new = SearchedTable(old, gen[t], k) /\ Thins(new, old)
    BY <1>0, <1>1, <1>3, SearchFacts
  <2>2. /\ e \in Records /\ SearchedGen(old, gen[t], k) \in Nat
        /\ Found(old, k) => old[e].key = k
        /\ ~Found(old, k) => Leads(old, k, e)
    BY <1>0, <1>1, <1>3, SearchFacts
  <2> DEFINE f == [key |-> k, since |-> Current(GfOf[k]), record |-> e,
                   spec |-> specs[GfOf[k]],
                   place |-> IF Found(old, k) THEN "chosen" ELSE "missed",
                   func |-> IF Found(old, k) THEN old[e].value ELSE NoValue]
  <2>3. table' = [table EXCEPT ![t] = new] /\ Push(t, f)
        /\ gen' = [gen EXCEPT ![t] = SearchedGen(old, gen[t], k)]
    BY <1>1, <1>3, <2>1 DEF Dispatch
  <2>4. gen' \in [Thread -> Nat]
    BY <1>0, <2>2, <2>3
  <2>5. Found(old, k) => old[e].value \in Nat
    BY <1>0, <2>2, MethodHashAssumption DEF Valued
  <2>6. f \in Frame
    BY <1>a, <2>2, <2>5 DEF Frame
  <2>7. /\ f.key = k /\ f.since = Current(GfOf[k]) /\ f.record = e
        /\ f.spec = specs[GfOf[k]]
        /\ f.place = IF Found(old, k) THEN "chosen" ELSE "missed"
        /\ f.func = IF Found(old, k) THEN old[e].value ELSE NoValue
    OBVIOUS
  <2> HIDE DEF f
  <2>8. \/ /\ f.place = "missed" /\ f.func = NoValue
           /\ ~Found(old, k) /\ Leads(old, k, f.record)
        \/ /\ f.place = "chosen" /\ f.func \in Nat /\ f.record \in Records
           /\ old[f.record].key = k /\ f.func = old[f.record].value
    BY <2>2, <2>5, <2>7
  <2>9. Sound(f)
    BY <1>b, <2>0, <2>2, <2>5, <2>7 DEF Sound
  <2> QED  BY <2>1, <2>3, <2>4, <2>6, <2>7, <2>8, <2>9
<1>4. CASE DispatchUncached(t, k)
  <2> DEFINE f == [key |-> k, since |-> Current(GfOf[k]), record |-> NoRecord,
                   spec |-> specs[GfOf[k]], place |-> "missed", func |-> NoValue]
  <2>1. /\ table' = [table EXCEPT ![t] = old] /\ gen' = gen /\ Push(t, f) /\ k \in Uncached
    BY <1>4 DEF DispatchUncached
  <2>2. f \in Frame
    BY <1>a DEF Frame
  <2>3. /\ f.key = k /\ f.since = Current(GfOf[k]) /\ f.spec = specs[GfOf[k]]
        /\ f.place = "missed" /\ f.func = NoValue
    OBVIOUS
  <2> HIDE DEF f
  <2>4. Sound(f)
    BY <2>1, <2>3 DEF Sound
  <2> QED  BY <1>0, <1>b, <2>1, <2>2, <2>3, <2>4
<1> QED  BY <1>2, <1>3, <1>4 DEF CallStep

(* What a call does besides.                                               *)
LEMMA CallFacts ==
  ASSUME NEW t \in Thread, NEW k \in Key, CallStep(t, k)
  PROVE  /\ UNCHANGED <<methods, specs, lock, change, life, strayed>>
         /\ vector' = [vector EXCEPT ![t] = k] /\ MayCall(t, k) /\ TakeClears(t)
  BY DEF CallStep, Dispatch, DispatchUncached

(* The frame of a call whose effective method begins to be computed.       *)
LEMMA ComputingFrame ==
  ASSUME CacheTypes, NEW t \in Thread, stack[t] # <<>>, Top(t).place = "missed", Computing(t)
  PROVE  \E f \in Frame :
           /\ SetTop(t, f) /\ f.key = Top(t).key /\ f.since = Top(t).since
           /\ f.record = Top(t).record /\ f.place = "computing" /\ Sound(f)
           /\ f.func = methods[GfOf[f.key]] /\ f.func \in Nat
           /\ f.spec = NoValue \/ (f.spec = Top(t).spec /\ f.spec = specs[GfOf[f.key]])
           /\ f.spec = NoValue => Top(t).spec # specs[GfOf[f.key]]
<1>0. stack \in Stacks /\ methods \in [Gf -> Nat] /\ specs \in [Gf -> Nat]
  BY DEF CacheTypes, TypeOK, Stacks
<1>1. PICK top \in Frame : top = Top(t) /\ Sound(top)
  BY <1>0, TopFrame DEF CacheTypes
<1>2. top.key \in Key
  BY DEF Frame
<1>3. GfOf[top.key] \in Gf
  BY <1>2, MethodHashAssumption
<1>4. PICK v, n : /\ v = methods[GfOf[top.key]] /\ v \in Nat
                  /\ n = specs[GfOf[top.key]] /\ n \in Nat
  BY <1>0, <1>3
<1>5. PICK f : /\ f = [top EXCEPT !.place = "computing", !.func = v,
                                  !.spec = IF @ = n THEN @ ELSE NoValue]
               /\ SetTop(t, f)
  BY <1>1, <1>4 DEF Computing
<1>6. f \in Frame
  BY <1>4, <1>5 DEF Frame
<1>7. /\ f.key = top.key /\ f.since = top.since /\ f.record = top.record
      /\ f.place = "computing" /\ f.func = v
      /\ f.spec = IF top.spec = n THEN top.spec ELSE NoValue
  BY <1>5 DEF Frame
<1>8. NoValue \notin Nat
  BY MethodHashAssumption
<1>9. Sound(f)
  BY <1>1, <1>4, <1>7, <1>8 DEF Sound
<1>10. /\ f.key = Top(t).key /\ f.since = Top(t).since /\ f.record = Top(t).record
       /\ f.func = methods[GfOf[f.key]] /\ f.func \in Nat
       /\ f.spec = NoValue \/ (f.spec = Top(t).spec /\ f.spec = specs[GfOf[f.key]])
       /\ f.spec = NoValue => Top(t).spec # specs[GfOf[f.key]]
  BY <1>1, <1>4, <1>7, <1>8
<1> QED  BY <1>5, <1>6, <1>7, <1>9, <1>10

(* The frame of a call whose effective method is computed.                 *)
LEMMA ComputedFrame ==
  ASSUME CacheTypes, NEW t \in Thread, ComputeEnd(t)
  PROVE  \E f \in Frame :
           /\ SetTop(t, f) /\ f.key = Top(t).key /\ f.since = Top(t).since
           /\ f.record = Top(t).record /\ f.func = Top(t).func /\ f.spec = Top(t).spec
           /\ f.place = IF f.key \in Uncached THEN "chosen" ELSE "computed"
           /\ Sound(f) /\ f.func \in Nat
<1>0. stack \in Stacks /\ stack[t] # <<>> /\ Top(t).place = "computing"
  BY DEF CacheTypes, Stacks, ComputeEnd
<1>1. PICK top \in Frame : top = Top(t) /\ Sound(top)
  BY <1>0, TopFrame DEF CacheTypes
<1>2. PICK f : /\ f = [top EXCEPT !.place = IF top.key \in Uncached THEN "chosen"
                                                                   ELSE "computed"]
               /\ SetTop(t, f)
  BY <1>1 DEF ComputeEnd
<1>3. f \in Frame
  BY <1>2 DEF Frame
<1>4. /\ f.key = top.key /\ f.since = top.since /\ f.record = top.record
      /\ f.func = top.func /\ f.spec = top.spec
      /\ f.place = IF f.key \in Uncached THEN "chosen" ELSE "computed"
  BY <1>2 DEF Frame
<1>5. top.func \in Nat
  BY <1>0, <1>1 DEF Frame, Sound
<1>6. Sound(f)
  BY <1>0, <1>1, <1>4, <1>5 DEF Sound
<1> QED  BY <1>1, <1>2, <1>3, <1>4, <1>5, <1>6

(* Storing ends the process, or puts the computed method into a record.    *)
LEMMA StoreFacts ==
  ASSUME CacheTypes, NEW t \in Thread, Store(t), NEW f, f = Top(t)
  PROVE  /\ f \in Frame /\ f.place = "computed" /\ f.func \in Nat
         /\ \/ UNCHANGED <<table, gen, stack>>
            \/ \E old \in [Records -> Record], e \in Records, r \in Record :
                 /\ table' = [table EXCEPT ![t] = [old EXCEPT ![e] = r]]
                 /\ Thins(old, table[t]) /\ r.key = f.key /\ r.value = f.func
                 /\ gen' \in [Thread -> Nat]
                 /\ SetTop(t, [f EXCEPT !.place = "chosen"])
                 /\ \/ old = table[t] /\ e = f.record /\ old[e].key = NoKey
                    \/ t \in strayed'
                    \/ Found(table[t], f.key)
                    \/ Leads(table[t], f.key, e) /\ old[e].key = NoKey
<1>0. /\ table[t] \in [Records -> Record] /\ Valued(table[t]) /\ gen \in [Thread -> Nat]
      /\ stack \in Stacks /\ stack[t] # <<>> /\ f.place = "computed"
  BY OwnTable DEF CacheTypes, TypeOK, Stacks, Store
<1>1. f \in Frame /\ f.func \in Nat /\ f.record \in Records
  BY <1>0, TopFrame DEF CacheTypes, Frame, Sound
<1>2. vector[t] \in Key
  BY <1>0 DEF CacheTypes
<1>3. PICK taken \in BOOLEAN : taken = (table[t][f.record].key # NoKey)
  OBVIOUS
<1>4. PICK e : e = IF taken THEN ChosenRecord(table[t], gen[t], vector[t]) ELSE f.record
  OBVIOUS
<1>5. PICK old : old = IF taken THEN SearchedTable(table[t], gen[t], vector[t]) ELSE table[t]
  OBVIOUS
<1>6. CASE e = NoRecord
  BY <1>0, <1>1, <1>3, <1>4, <1>6 DEF Store
<1>7. CASE e # NoRecord
  <2>1. /\ table' = [table EXCEPT ![t] = StoredTable(old, e, f.key, f.func)]
        /\ gen' = IF taken THEN [gen EXCEPT ![t] = SearchedGen(table[t], gen[t], vector[t])]
                           ELSE gen
        /\ SetTop(t, [f EXCEPT !.place = "chosen"])
        /\ strayed' = IF taken /\ vector[t] # f.key THEN strayed \union {t} ELSE strayed
    BY <1>3, <1>4, <1>5, <1>7 DEF Store
  <2>2. /\ e \in Records /\ old \in [Records -> Record] /\ Thins(old, table[t])
        /\ gen' \in [Thread -> Nat]
        /\ \/ old = table[t] /\ e = f.record /\ old[e].key = NoKey
           \/ t \in strayed'
           \/ Found(table[t], f.key)
           \/ Leads(table[t], f.key, e) /\ old[e].key = NoKey
    <3>1. CASE taken
      <4>1. PICK tbl \in [Records -> Record] : tbl = table[t] /\ Valued(tbl)
        BY <1>0
      <4>2. e = ChosenRecord(tbl, gen[t], vector[t]) /\ old = SearchedTable(tbl, gen[t], vector[t])
        BY <1>4, <1>5, <3>1, <4>1
      <4>3. /\ e \in Records /\ old \in [Records -> Record] /\ Thins(old, tbl)
            /\ SearchedGen(tbl, gen[t], vector[t]) \in Nat
            /\ ~Found(tbl, vector[t]) => Leads(tbl, vector[t], e) /\ old[e].key = NoKey
        BY <1>2, <1>7, <4>1, <4>2, SearchFacts
      <4>4. gen' \in [Thread -> Nat]
        BY <1>0, <2>1, <3>1, <4>1, <4>3
      <4> QED  BY <2>1, <3>1, <4>1, <4>3, <4>4
    <3>2. CASE ~taken
      <4>1. f.record \in Records /\ Thins(table[t], table[t])
        BY <1>1 DEF Thins
      <4> QED  BY <1>0, <1>3, <1>4, <1>5, <2>1, <3>2, <4>1
    <3> QED  BY <3>1, <3>2
  <2>3. PICK r : r = [key |-> f.key, value |-> f.func, gen |-> old[e].gen]
    OBVIOUS
  <2>4. r \in Record /\ r.key = f.key /\ r.value = f.func
    BY <1>1, <2>2, <2>3 DEF Frame, Record
  <2>5. StoredTable(old, e, f.key, f.func) = [old EXCEPT ![e] = r]
    BY <2>3 DEF StoredTable
  <2> QED  BY <1>0, <1>1, <2>1, <2>2, <2>4, <2>5
<1> QED  BY <1>6, <1>7

LEMMA ClearedTable == Cleared \in [Records -> Record] /\ \A i \in Records : Cleared[i].key = NoKey
  BY DEF Cleared, Record

(* Types and the metadata lock, action by action.                          *)
LEMMA BaseInit == Init => CacheTypes /\ MetadataLocked
<1> SUFFICES ASSUME Init PROVE CacheTypes /\ MetadataLocked
  OBVIOUS
<1>1. TypeOK
  BY ClearedTable DEF Init, TypeOK
<1>2. stack \in [Thread -> Seq(Frame)] /\ \A t \in Thread : DOMAIN stack[t] = {}
  BY DEF Init
<1>3. CacheTypes
  BY <1>1, <1>2, ClearedTable DEF Init, CacheTypes
<1>4. MetadataLocked
  BY <1>2 DEF Init, MetadataLocked
<1> QED  BY <1>3, <1>4

(* Only the tables, the lists of requests and the lives of threads change. *)
LEMMA BaseOfTables ==
  ASSUME CacheTypes, MetadataLocked, TypeOK', UNCHANGED <<stack, change, lock, methods>>,
         vector' \in [Thread -> Key \union {NoKey}],
         \A t \in Thread : stack[t] # <<>> =>
           life'[t] = "listed" /\ (vector'[t] = vector[t] \/ vector'[t] \in Key),
         \A t \in Thread : Valued(table'[t])
  PROVE  CacheTypes' /\ MetadataLocked'
<1>1. CacheTypes'
  BY DEF CacheTypes, Valued
<1>2. MetadataLocked'
  BY DEF MetadataLocked, NoChange
<1> QED  BY <1>1, <1>2

LEMMA LifeBase ==
  ASSUME CacheTypes, MetadataLocked, NEW t \in Thread, StartThread(t) \/ EndThread(t)
  PROVE  CacheTypes' /\ MetadataLocked'
<1>0. /\ TypeOK /\ vector \in [Thread -> Key \union {NoKey}]
      /\ \A u \in Thread : Valued(table[u]) /\ (stack[u] # <<>> => life[u] = "listed")
  BY OwnTable DEF CacheTypes
<1>1. /\ UNCHANGED <<stack, change, lock, methods, vector>>
      /\ table' \in {table, [table EXCEPT ![t] = Cleared]}
  BY DEF StartThread, EndThread
<1>2. TypeOK'
  <2>1. CASE StartThread(t)
    BY <1>0, <2>1 DEF TypeOK, StartThread
  <2>2. CASE EndThread(t)
    <3>1. CASE t \in Reused
      BY <1>0, <2>2, <3>1 DEF TypeOK, EndThread
    <3>2. CASE t \notin Reused
      <4>1. PICK c \in [Records -> Record] : c = Cleared
        BY ClearedTable
      <4>2. /\ table' = [table EXCEPT ![t] = c] /\ gen' = [gen EXCEPT ![t] = 0]
            /\ clear' = [clear EXCEPT ![t] = {}] /\ life' = [life EXCEPT ![t] = "ended"]
            /\ misfit' = [misfit EXCEPT ![t] = {}] /\ UNCHANGED <<methods, specs, lock, robbed>>
        BY <2>2, <3>2, <4>1 DEF EndThread
      <4>3. table' \in [Thread -> [Records -> Record]] /\ clear' \in [Thread -> SUBSET Gf]
            /\ misfit' \in [Thread -> SUBSET Gf]
        BY <1>0, <4>2 DEF TypeOK
      <4> QED  BY <1>0, <4>2, <4>3 DEF TypeOK
    <3> QED  BY <3>1, <3>2
  <2> QED  BY <2>1, <2>2
<1>3. \A u \in Thread : stack[u] # <<>> => life'[u] = "listed"
  BY <1>0 DEF TypeOK, StartThread, EndThread
<1>4. \A u \in Thread : Valued(table'[u])
  <2>1. Valued(Cleared)
    BY ClearedTable DEF Valued
  <2>2. \A u \in Thread : table'[u] \in {table[u], Cleared}
    BY <1>0, <1>1 DEF TypeOK
  <2> QED  BY <1>0, <2>1, <2>2
<1> QED  BY <1>0, <1>1, <1>2, <1>3, <1>4, BaseOfTables

LEMMA DispatchBase ==
  ASSUME CacheTypes, MetadataLocked, NEW t \in Thread, NEW k \in Key, CallStep(t, k)
  PROVE  CacheTypes' /\ MetadataLocked'
<1>0. /\ TypeOK /\ stack \in Stacks /\ vector \in [Thread -> Key \union {NoKey}]
      /\ \A u \in Thread : Valued(table[u])
      /\ \A u \in Thread : stack[u] # <<>> => life[u] = "listed" /\ vector[u] \in Key
  BY OwnTable DEF CacheTypes, Stacks
<1>1. /\ UNCHANGED <<change, lock, methods, specs, life>> /\ vector' = [vector EXCEPT ![t] = k]
      /\ clear' = [clear EXCEPT ![t] = {}] /\ life[t] = "listed"
      /\ misfit' = [misfit EXCEPT ![t] = @ \ clear[t]]
      /\ robbed' \in {robbed, robbed \union {t}}
      /\ change.by = t /\ t \notin Intruding => change.gf # GfOf[k]
  BY CallFacts DEF MayCall, TakeClears
<1>2. PICK old : old = TakenTable(t) /\ Valued(old)
  BY OwnTable
<1>3. PICK new \in [Records -> Record] :
        /\ table' = [table EXCEPT ![t] = new] /\ Thins(new, old)
        /\ gen' \in [Thread -> Nat]
        /\ \/ stack' = stack
           \/ \E f \in Frame :
                Push(t, f) /\ f.key = k /\ f.place \in {"missed", "chosen"} /\ Sound(f)
  BY <1>2, DispatchFacts
<1>4. TypeOK'
  <2>1. /\ misfit' \in [Thread -> SUBSET Gf] /\ robbed' \subseteq Thread
        /\ clear' \in [Thread -> SUBSET Gf]
    BY <1>0, <1>1 DEF TypeOK
  <2> QED  BY <1>0, <1>1, <1>3, <2>1 DEF TypeOK
<1>5. \A u \in Thread : Valued(table'[u])
  <2>1. Valued(new)
    BY <1>2, <1>3, ThinsValued
  <2>2. \A u \in Thread : table'[u] \in {table[u], new} /\ (u # t => table'[u] = table[u])
    BY <1>0, <1>3 DEF TypeOK
  <2> QED  BY <1>0, <2>1, <2>2
<1>6. /\ vector' \in [Thread -> Key \union {NoKey}]
      /\ vector'[t] \in Key /\ \A u \in Thread : u # t => vector'[u] = vector[u]
  BY <1>0, <1>1
<1>7. CASE stack' = stack
  <2>1. \A u \in Thread : stack[u] # <<>> => life'[u] = "listed" /\ vector'[u] \in Key
    BY <1>0, <1>1, <1>6
  <2> QED  BY <1>1, <1>4, <1>5, <1>6, <1>7, <2>1, BaseOfTables
<1>8. ASSUME NEW f \in Frame, Push(t, f), f.key = k, f.place \in {"missed", "chosen"}, Sound(f)
      PROVE  CacheTypes' /\ MetadataLocked'
  <2>1. /\ stack' \in Stacks /\ DOMAIN stack'[t] = 1 .. Len(stack[t]) + 1
        /\ stack'[t][Len(stack[t]) + 1] = f
        /\ \A n \in 1 .. Len(stack[t]) : stack'[t][n] = stack[t][n]
        /\ \A u \in Thread : u # t => stack'[u] = stack[u]
    BY <1>0, <1>8, Pushed
  <2>2. Len(stack[t]) \in Nat /\ DOMAIN stack[t] = 1 .. Len(stack[t])
    BY <1>0 DEF Stacks
  <2>3. \A u \in Thread : \A n \in DOMAIN stack'[u] :
          \/ n \in DOMAIN stack[u] /\ stack'[u][n] = stack[u][n]
          \/ u = t /\ stack'[u][n] = f
    BY <2>1, <2>2
  <2>4. CacheTypes'
    <3>1. \A u \in Thread : \A n \in DOMAIN stack'[u] : Sound(stack'[u][n])
      BY <1>8, <2>3 DEF CacheTypes
    <3>2. \A u \in Thread : stack'[u] # <<>> => life'[u] = "listed" /\ vector'[u] \in Key
      BY <1>0, <1>1, <1>6, <2>1
    <3> QED  BY <1>4, <1>5, <1>6, <2>1, <3>1, <3>2 DEF CacheTypes, Stacks, Valued
  <2>5. MetadataLocked'
    <3>1. \A u \in Thread : \A n \in DOMAIN stack'[u] :
            /\ change.by = u /\ u \notin Intruding => change.gf # GfOf[stack'[u][n].key]
            /\ stack'[u][n].place = "computing" =>
                 lock = u /\ stack'[u][n].func = methods[GfOf[stack'[u][n].key]]
      BY <1>1, <1>8, <2>3 DEF MetadataLocked
    <3> QED  BY <1>1, <3>1 DEF MetadataLocked, NoChange
  <2> QED  BY <2>4, <2>5
<1> QED  BY <1>3, <1>7, <1>8

(* The innermost call of a thread goes on, under the lock if it computes.  *)
LEMMA TopBase ==
  ASSUME CacheTypes, MetadataLocked, TypeOK', NEW t \in Thread, stack[t] # <<>>,
         NEW f \in Frame, SetTop(t, f), f.key = Top(t).key,
         Sound(f), UNCHANGED <<change, methods, life, vector>>,
         \A u \in Thread : Valued(table'[u]),
         change # NoChange => lock' = change.by,
         f.place = "computing" => lock' = t /\ f.func = methods[GfOf[f.key]],
         \A u \in Thread : \A n \in DOMAIN stack[u] :
           stack[u][n].place = "computing" /\ (u # t \/ n # Len(stack[t])) => lock' = u
  PROVE  CacheTypes' /\ MetadataLocked'
<1>0. stack \in Stacks
  BY DEF CacheTypes, Stacks
<1>1. /\ stack' \in Stacks /\ DOMAIN stack'[t] = 1 .. Len(stack[t])
      /\ stack'[t][Len(stack[t])] = f
      /\ \A n \in 1 .. Len(stack[t]) - 1 : stack'[t][n] = stack[t][n]
      /\ \A u \in Thread : u # t => stack'[u] = stack[u]
  BY <1>0, Topped
<1>2. /\ Len(stack[t]) \in Nat \ {0} /\ DOMAIN stack[t] = 1 .. Len(stack[t])
      /\ Top(t) = stack[t][Len(stack[t])]
  BY <1>0, TopFrame
<1>3. \A u \in Thread : \A n \in DOMAIN stack'[u] :
        /\ n \in DOMAIN stack[u]
        /\ \/ stack'[u][n] = stack[u][n] /\ (u # t \/ n # Len(stack[t]))
           \/ u = t /\ n = Len(stack[t]) /\ stack'[u][n] = f
  BY <1>1, <1>2
<1>4. CacheTypes'
  <2>1. \A u \in Thread : \A n \in DOMAIN stack'[u] : Sound(stack'[u][n])
    BY <1>3 DEF CacheTypes
  <2>2. \A u \in Thread : stack'[u] # <<>> => life'[u] = "listed" /\ vector'[u] \in Key
    BY <1>1 DEF CacheTypes
  <2> QED  BY <1>1, <2>1, <2>2 DEF CacheTypes, Stacks, Valued
<1>5. MetadataLocked'
  <2>1. \A u \in Thread : \A n \in DOMAIN stack'[u] :
          /\ change.by = u /\ u \notin Intruding => change.gf # GfOf[stack'[u][n].key]
          /\ stack'[u][n].place = "computing" =>
               lock' = u /\ stack'[u][n].func = methods[GfOf[stack'[u][n].key]]
    BY <1>2, <1>3 DEF MetadataLocked
  <2> QED  BY <2>1 DEF MetadataLocked, NoChange
<1> QED  BY <1>4, <1>5

LEMMA ComputeBeginBase ==
  ASSUME CacheTypes, MetadataLocked, NEW t \in Thread, ComputeBegin(t)
  PROVE  CacheTypes' /\ MetadataLocked'
<1>0. /\ TypeOK /\ stack \in Stacks /\ stack[t] # <<>> /\ NIL \notin Thread
      /\ \A u \in Thread : Valued(table[u])
  BY OwnTable, GfunCacheAssumption DEF CacheTypes, Stacks, ComputeBegin
<1>1. /\ lock \in {NIL, t} /\ lock' = t /\ Top(t).place = "missed" /\ Computing(t)
      /\ UNCHANGED <<methods, specs, change, table, gen, clear, vector, life, misfit, robbed>>
  BY DEF ComputeBegin
<1>2. PICK f \in Frame :
        /\ SetTop(t, f) /\ f.key = Top(t).key /\ f.place = "computing" /\ Sound(f)
        /\ f.func = methods[GfOf[f.key]]
  BY <1>0, <1>1, ComputingFrame
<1>3. TypeOK'
  BY <1>0, <1>1 DEF TypeOK
<1>4. change # NoChange => lock' = change.by
  BY <1>0, <1>1 DEF MetadataLocked
<1>5. \A u \in Thread : \A n \in DOMAIN stack[u] :
        stack[u][n].place = "computing" => lock' = u
  BY <1>0, <1>1 DEF MetadataLocked
<1> QED  BY <1>0, <1>1, <1>2, <1>3, <1>4, <1>5, TopBase

(* A computation that ends gives up the lock, unless the thread has it for *)
(* a change or for another computation.                                    *)
LEMMA GivesUp ==
  ASSUME CacheTypes, MetadataLocked, NEW t \in Thread, stack[t] # <<>>,
         Top(t).place = "computing", GiveUpLock(t)
  PROVE  /\ lock = t /\ lock' \in {NIL, t}
         /\ change # NoChange => lock' = change.by
         /\ \A u \in Thread : \A n \in DOMAIN stack[u] :
              stack[u][n].place = "computing" /\ (u # t \/ n # Len(stack[t])) => lock' = u
<1>0. stack \in Stacks
  BY DEF CacheTypes, Stacks
<1>1. /\ Top(t) = stack[t][Len(stack[t])]
      /\ Len(stack[t]) \in Nat \ {0} /\ DOMAIN stack[t] = 1 .. Len(stack[t])
  BY <1>0, TopFrame
<1>2. lock = t
  BY <1>1 DEF MetadataLocked
<1>3. \/ lock' = lock
      \/ /\ lock' = NIL /\ change.by # t
         /\ \A n \in 1 .. Len(stack[t]) - 1 : stack[t][n].place # "computing"
  BY DEF GiveUpLock
<1>4. change # NoChange => lock' = change.by
  BY <1>2, <1>3 DEF MetadataLocked
<1>5. \A u \in Thread : \A n \in DOMAIN stack[u] :
        stack[u][n].place = "computing" /\ (u # t \/ n # Len(stack[t])) => lock' = u
  BY <1>1, <1>2, <1>3 DEF MetadataLocked
<1> QED  BY <1>2, <1>3, <1>4, <1>5

LEMMA ComputeEndBase ==
  ASSUME CacheTypes, MetadataLocked, NEW t \in Thread, ComputeEnd(t)
  PROVE  CacheTypes' /\ MetadataLocked'
<1>0. /\ TypeOK /\ stack[t] # <<>> /\ \A u \in Thread : Valued(table[u])
  BY OwnTable DEF CacheTypes, ComputeEnd
<1>1. /\ UNCHANGED <<methods, specs, change, table, gen, clear, vector, life, misfit, robbed>>
      /\ Top(t).place = "computing" /\ GiveUpLock(t)
  BY DEF ComputeEnd
<1>2. PICK f \in Frame :
        /\ SetTop(t, f) /\ f.key = Top(t).key /\ Sound(f)
        /\ f.place = IF f.key \in Uncached THEN "chosen" ELSE "computed"
  BY ComputedFrame
<1>3. /\ lock' \in {NIL, t} /\ (change # NoChange => lock' = change.by)
      /\ \A u \in Thread : \A n \in DOMAIN stack[u] :
           stack[u][n].place = "computing" /\ (u # t \/ n # Len(stack[t])) => lock' = u
  BY <1>0, <1>1, GivesUp
<1>4. TypeOK'
  BY <1>0, <1>1, <1>3 DEF TypeOK
<1> QED  BY <1>0, <1>1, <1>2, <1>3, <1>4, TopBase

LEMMA StoreBase ==
  ASSUME CacheTypes, MetadataLocked, NEW t \in Thread, Store(t)
  PROVE  CacheTypes' /\ MetadataLocked'
<1>0. /\ TypeOK /\ stack \in Stacks /\ stack[t] # <<>>
      /\ \A u \in Thread : Valued(table[u]) /\ (stack[u] # <<>> => life[u] = "listed")
      /\ vector \in [Thread -> Key \union {NoKey}]
      /\ UNCHANGED <<methods, specs, lock, change, clear, vector, life, robbed>>
  BY OwnTable DEF CacheTypes, Stacks, Store
<1>a. misfit' \in [Thread -> SUBSET Gf]
  <2>1. Top(t) \in Frame
    BY <1>0, TopFrame
  <2>2. PICK h \in Gf : h = GfOf[Top(t).key]
    BY <2>1, MethodHashAssumption DEF Frame
  <2>3. misfit' = misfit \/ misfit' = [misfit EXCEPT ![t] = misfit[t] \union {h}]
    BY <2>2 DEF Store
  <2>4. misfit \in [Thread -> SUBSET Gf]
    BY <1>0 DEF TypeOK
  <2> QED  BY <2>3, <2>4
<1>1. PICK g : g = Top(t)
  OBVIOUS
<1>2. g \in Frame /\ g.place = "computed" /\ g.func \in Nat
  BY <1>1, StoreFacts
<1>3. CASE UNCHANGED <<table, gen, stack>>
  <2>1. TypeOK'
    BY <1>0, <1>a, <1>3 DEF TypeOK
  <2> QED  BY <1>0, <1>3, <2>1, BaseOfTables
<1>4. ASSUME NEW old \in [Records -> Record], NEW e \in Records, NEW r \in Record,
             table' = [table EXCEPT ![t] = [old EXCEPT ![e] = r]],
             Thins(old, table[t]), r.value = g.func,
             gen' \in [Thread -> Nat], SetTop(t, [g EXCEPT !.place = "chosen"])
      PROVE  CacheTypes' /\ MetadataLocked'
  <2>1. PICK new \in [Records -> Record] : new = [old EXCEPT ![e] = r]
    OBVIOUS
  <2>2. Valued(new)
    <3>1. Valued(old)
      BY <1>0, <1>4, ThinsValued
    <3> QED  BY <1>2, <1>4, <2>1, <3>1 DEF Valued
  <2>3. TypeOK'
    BY <1>0, <1>a, <1>4, <2>1 DEF TypeOK
  <2>4. \A u \in Thread : Valued(table'[u])
    <3>1. \A u \in Thread : table'[u] \in {table[u], new}
      BY <1>0, <1>4, <2>1 DEF TypeOK
    <3> QED  BY <1>0, <2>2, <3>1
  <2>5. PICK f : f = [g EXCEPT !.place = "chosen"] /\ SetTop(t, f)
    BY <1>4
  <2>6. /\ f \in Frame /\ f.key = g.key /\ f.place = "chosen" /\ f.func = g.func
        /\ f.record = g.record
    BY <1>2, <2>5 DEF Frame
  <2>7. Sound(f)
    <3>1. Sound(g)
      BY <1>0, <1>1, TopFrame DEF CacheTypes
    <3> QED  BY <1>2, <2>6, <3>1, MethodHashAssumption DEF Sound
  <2>8. change # NoChange => lock' = change.by
    BY <1>0 DEF MetadataLocked
  <2>9. \A u \in Thread : \A n \in DOMAIN stack[u] :
          stack[u][n].place = "computing" => lock' = u
    BY <1>0 DEF MetadataLocked
  <2> QED  BY <1>0, <1>1, <2>3, <2>4, <2>5, <2>6, <2>7, <2>8, <2>9, TopBase
<1> QED  BY <1>1, <1>3, <1>4, StoreFacts

(* The innermost call of a thread is through, or has failed.               *)
LEMMA PopBase ==
  ASSUME CacheTypes, MetadataLocked, NEW t \in Thread, stack[t] # <<>>, Pop(t),
         UNCHANGED <<methods, specs, change, table, gen, clear, life, misfit, robbed>>,
         vector' = IF Len(stack[t]) = 1 THEN [vector EXCEPT ![t] = NoKey] ELSE vector,
         lock' \in Thread \union {NIL}, change # NoChange => lock' = change.by,
         \A u \in Thread : \A n \in DOMAIN stack[u] :
           stack[u][n].place = "computing" /\ (u # t \/ n # Len(stack[t])) => lock' = u
  PROVE  CacheTypes' /\ MetadataLocked'
<1>0. TypeOK /\ stack \in Stacks /\ vector \in [Thread -> Key \union {NoKey}]
  BY DEF CacheTypes, Stacks
<1>1. /\ stack' \in Stacks /\ DOMAIN stack'[t] = 1 .. Len(stack[t]) - 1
      /\ stack'[t] = <<>> <=> Len(stack[t]) = 1
      /\ \A n \in 1 .. Len(stack[t]) - 1 : stack'[t][n] = stack[t][n]
      /\ \A u \in Thread : u # t => stack'[u] = stack[u]
  BY <1>0, Popped
<1>2. Len(stack[t]) \in Nat \ {0} /\ DOMAIN stack[t] = 1 .. Len(stack[t])
  BY <1>0, TopFrame
<1>3. \A u \in Thread : \A n \in DOMAIN stack'[u] :
        /\ n \in DOMAIN stack[u] /\ stack'[u][n] = stack[u][n]
        /\ u # t \/ n # Len(stack[t])
  BY <1>1, <1>2
<1>4. TypeOK'
  BY <1>0 DEF TypeOK
<1>5. \A u \in Thread : stack'[u] # <<>> => life'[u] = "listed" /\ vector'[u] \in Key
  BY <1>0, <1>1 DEF CacheTypes
<1>6. vector' \in [Thread -> Key \union {NoKey}]
  BY <1>0
<1>7. CacheTypes'
  <2>1. \A u \in Thread : \A n \in DOMAIN stack'[u] : Sound(stack'[u][n])
    BY <1>3 DEF CacheTypes
  <2> QED  BY <1>0, <1>1, <1>4, <1>5, <1>6, <2>1 DEF CacheTypes, Stacks
<1>8. MetadataLocked'
  <2>1. \A u \in Thread : \A n \in DOMAIN stack'[u] :
          /\ change.by = u /\ u \notin Intruding => change.gf # GfOf[stack'[u][n].key]
          /\ stack'[u][n].place = "computing" =>
               lock' = u /\ stack'[u][n].func = methods[GfOf[stack'[u][n].key]]
    BY <1>3 DEF MetadataLocked
  <2> QED  BY <2>1 DEF MetadataLocked, NoChange
<1> QED  BY <1>7, <1>8

LEMMA CallMethodBase ==
  ASSUME CacheTypes, MetadataLocked, NEW t \in Thread, CallMethod(t)
  PROVE  CacheTypes' /\ MetadataLocked'
<1>1. /\ stack[t] # <<>> /\ Pop(t)
      /\ UNCHANGED <<methods, specs, lock, change, table, gen, clear, life, misfit, robbed>>
      /\ vector' = IF Len(stack[t]) = 1 THEN [vector EXCEPT ![t] = NoKey] ELSE vector
  BY DEF CallMethod
<1>2. lock \in Thread \union {NIL}
  BY DEF CacheTypes, TypeOK
<1>3. change # NoChange => lock = change.by
  BY DEF MetadataLocked
<1>4. \A u \in Thread : \A n \in DOMAIN stack[u] :
        stack[u][n].place = "computing" => lock = u
  BY DEF MetadataLocked
<1> QED  BY <1>1, <1>2, <1>3, <1>4, PopBase

LEMMA ComputeFailsBase ==
  ASSUME CacheTypes, MetadataLocked, NEW t \in Thread, ComputeFails(t)
  PROVE  CacheTypes' /\ MetadataLocked'
<1>1. /\ stack[t] # <<>> /\ Pop(t) /\ Top(t).place = "computing" /\ GiveUpLock(t)
      /\ UNCHANGED <<methods, specs, change, table, gen, clear, life, misfit, robbed>>
      /\ vector' = IF Len(stack[t]) = 1 THEN [vector EXCEPT ![t] = NoKey] ELSE vector
  BY DEF ComputeFails
<1>2. /\ lock' \in {NIL, t} /\ (change # NoChange => lock' = change.by)
      /\ \A u \in Thread : \A n \in DOMAIN stack[u] :
           stack[u][n].place = "computing" /\ (u # t \/ n # Len(stack[t])) => lock' = u
  BY <1>1, GivesUp
<1> QED  BY <1>1, <1>2, PopBase

LEMMA BeginChangeBase ==
  ASSUME CacheTypes, MetadataLocked, NEW t \in Thread, NEW g \in Changing,
         NEW plan \in Plans, BeginChange(t, g, plan)
  PROVE  CacheTypes' /\ MetadataLocked'
<1>0. /\ lock = NIL /\ lock' = t /\ stack[t] = <<>> /\ g \in Gf /\ NIL \notin Thread
      /\ change' = [by |-> t, gf |-> g, todo |-> plan]
      /\ UNCHANGED <<methods, specs, table, gen, clear, vector, life, stack, misfit, robbed>>
  BY GfunCacheAssumption DEF BeginChange
<1>1. CacheTypes'
  BY <1>0 DEF CacheTypes, TypeOK
<1>2. plan \in Rests /\ plan \notin Inserted
  BY DEF Plans, Rests, Inserted
<1>3. change' \in [by : Thread, gf : Gf, todo : Rests] /\ change'.by = t
      /\ change'.todo \notin Inserted
  BY <1>0, <1>2
<1>4. \A u \in Thread : \A n \in DOMAIN stack[u] : u # t /\ stack[u][n].place # "computing"
  BY <1>0 DEF MetadataLocked
<1> QED  BY <1>0, <1>1, <1>3, <1>4 DEF MetadataLocked

(* The steps of a change.                                                  *)
StepOf(todo, step, rest) ==
  /\ step \in Steps /\ todo # <<>> /\ (rest = <<>> \/ rest \in Rests)
  /\ rest \in Inserted => step \in {"insert", "respec"}
  /\ step = "insert" => rest \in Inserted /\ todo \notin Inserted
  /\ step = "respec" => todo \in Inserted /\ rest = <<"clear">>
  /\ step = "clear" /\ rest # <<>> => Head(rest) = "delete" /\ todo \notin Inserted
  /\ step = "clear" /\ rest = <<>> => todo = <<"clear">>
  /\ step = "delete" => /\ todo \notin Inserted
                        /\ rest # <<>> => Head(rest) = "insert" /\ rest \notin Inserted
  /\ todo = <<"clear">> => step = "clear" /\ rest = <<>>

LEMMA RestsAre ==
  ASSUME NEW todo \in Rests
  PROVE  StepOf(todo, Head(todo), Tail(todo))
<1> DEFINE c == <<"clear">>
           d == <<"delete">>
           rc == <<"respec", "clear">>
           irc == <<"insert", "respec", "clear">>
           cd == <<"clear", "delete">>
           dirc == <<"delete", "insert", "respec", "clear">>
           cdirc == <<"clear", "delete", "insert", "respec", "clear">>
<1>1. /\ Tail(c) = <<>> /\ Tail(d) = <<>> /\ Tail(rc) = c /\ Tail(irc) = rc
      /\ Tail(cd) = d /\ Tail(dirc) = irc /\ Tail(cdirc) = dirc
  OBVIOUS
<1>2. /\ Head(c) = "clear" /\ Head(d) = "delete" /\ Head(rc) = "respec"
      /\ Head(irc) = "insert" /\ Head(cd) = "clear" /\ Head(dirc) = "delete"
      /\ Head(cdirc) = "clear"
  OBVIOUS
<1>3. /\ c # <<>> /\ d # <<>> /\ rc # <<>> /\ irc # <<>> /\ cd # <<>> /\ dirc # <<>>
      /\ cdirc # <<>>
  OBVIOUS
<1>4. /\ Inserted = {rc, c} /\ d \notin Inserted /\ irc \notin Inserted
      /\ cd \notin Inserted /\ dirc \notin Inserted /\ cdirc \notin Inserted
      /\ rc # c /\ <<>> \notin Inserted
  BY DEF Inserted
<1>5. /\ Rests = {c, d, rc, irc, cd, dirc, cdirc}
      /\ Steps = {"insert", "respec", "delete", "clear"}
  BY DEF Rests, Plans, Inserted, Steps
<1> HIDE DEF c, d, rc, irc, cd, dirc, cdirc
<1>6. c = <<"clear">>
  BY DEF c
<1>7. CASE todo = c
  BY <1>1, <1>2, <1>3, <1>4, <1>5, <1>6, <1>7 DEF StepOf
<1>8. CASE todo = d
  BY <1>1, <1>2, <1>3, <1>4, <1>5, <1>6, <1>8 DEF StepOf
<1>9. CASE todo = rc
  BY <1>1, <1>2, <1>3, <1>4, <1>5, <1>6, <1>9 DEF StepOf
<1>10. CASE todo = irc
  BY <1>1, <1>2, <1>3, <1>4, <1>5, <1>6, <1>10 DEF StepOf
<1>11. CASE todo = cd
  BY <1>1, <1>2, <1>3, <1>4, <1>5, <1>6, <1>11 DEF StepOf
<1>12. CASE todo = dirc
  BY <1>1, <1>2, <1>3, <1>4, <1>5, <1>6, <1>12 DEF StepOf
<1>13. CASE todo = cdirc
  BY <1>1, <1>2, <1>3, <1>4, <1>5, <1>6, <1>13 DEF StepOf
<1> QED  BY <1>5, <1>7, <1>8, <1>9, <1>10, <1>11, <1>12, <1>13

(* What a step of a change does.                                           *)
LEMMA ChangeFacts ==
  ASSUME CacheTypes, MetadataLocked, NEW t \in Thread, ChangeStep(t)
  PROVE  \E g \in Gf, todo \in Rests, step \in Steps, rest \in Rests \union {<<>>} :
           /\ change = [by |-> t, gf |-> g, todo |-> todo] /\ lock = t /\ stack[t] = <<>>
           /\ step = Head(todo) /\ rest = Tail(todo) /\ StepOf(todo, step, rest)
           /\ clear' = IF step = "clear"
                         THEN [u \in Thread |-> IF life[u] = "listed" THEN clear[u] \union {g}
                                                                    ELSE clear[u]]
                         ELSE clear
           /\ methods' = IF step \in {"insert", "delete"} THEN [methods EXCEPT ![g] = @ + 1]
                                                         ELSE methods
           /\ specs' = IF step = "respec" THEN [specs EXCEPT ![g] = @ + 1] ELSE specs
           /\ rest = <<>> => change' = NoChange /\ lock' = NIL
           /\ rest # <<>> => change' = [by |-> t, gf |-> g, todo |-> rest] /\ lock' = t
           /\ UNCHANGED <<table, gen, vector, life, stack, strayed, misfit, robbed>>
<1>0. change.by = t /\ stack[t] = <<>> /\ NIL \notin Thread
  BY GfunCacheAssumption DEF ChangeStep
<1>1. change # NoChange
  BY <1>0 DEF NoChange
<1>2. PICK g \in Gf, todo \in Rests : change = [by |-> t, gf |-> g, todo |-> todo]
  BY <1>0, <1>1 DEF MetadataLocked
<1>3. lock = t
  BY <1>0, <1>1 DEF MetadataLocked
<1>4. PICK step, rest : step = Head(todo) /\ rest = Tail(todo)
  OBVIOUS
<1>5. StepOf(todo, step, rest) /\ step \in Steps /\ rest \in Rests \union {<<>>}
  BY <1>4, RestsAre DEF StepOf
<1>6. Carry(step, g) /\ UNCHANGED <<table, gen, vector, life, stack, strayed, misfit, robbed>>
  BY <1>2, <1>4 DEF ChangeStep
<1>7. /\ rest = <<>> => change' = NoChange /\ lock' = NIL
      /\ rest # <<>> => change' = [by |-> t, gf |-> g, todo |-> rest] /\ lock' = t
  BY <1>2, <1>3, <1>4 DEF ChangeStep
<1>8. clear' = IF step = "clear"
                 THEN [u \in Thread |-> IF life[u] = "listed" THEN clear[u] \union {g}
                                                            ELSE clear[u]]
                 ELSE clear
  BY <1>6 DEF Carry, ClearGfunCache
<1>9. /\ methods' = IF step \in {"insert", "delete"} THEN [methods EXCEPT ![g] = @ + 1]
                                                    ELSE methods
      /\ specs' = IF step = "respec" THEN [specs EXCEPT ![g] = @ + 1] ELSE specs
  BY <1>6 DEF Carry
<1> QED  BY <1>0, <1>2, <1>3, <1>4, <1>5, <1>6, <1>7, <1>8, <1>9

LEMMA ChangeStepBase ==
  ASSUME CacheTypes, MetadataLocked, NEW t \in Thread, ChangeStep(t)
  PROVE  CacheTypes' /\ MetadataLocked'
<1>0. NIL \notin Thread /\ TypeOK
  BY GfunCacheAssumption DEF CacheTypes
<1>1. PICK g \in Gf, todo \in Rests, step \in Steps, rest \in Rests \union {<<>>} :
        /\ change = [by |-> t, gf |-> g, todo |-> todo] /\ lock = t /\ stack[t] = <<>>
        /\ step = Head(todo) /\ rest = Tail(todo) /\ StepOf(todo, step, rest)
        /\ clear' = IF step = "clear"
                      THEN [u \in Thread |-> IF life[u] = "listed" THEN clear[u] \union {g}
                                                                 ELSE clear[u]]
                      ELSE clear
        /\ methods' = IF step \in {"insert", "delete"} THEN [methods EXCEPT ![g] = @ + 1]
                                                      ELSE methods
        /\ specs' = IF step = "respec" THEN [specs EXCEPT ![g] = @ + 1] ELSE specs
        /\ rest = <<>> => change' = NoChange /\ lock' = NIL
        /\ rest # <<>> => change' = [by |-> t, gf |-> g, todo |-> rest] /\ lock' = t
        /\ UNCHANGED <<table, gen, vector, life, stack, strayed, misfit, robbed>>
  BY ChangeFacts
<1>2. TypeOK'
  <2>1. clear' \in [Thread -> SUBSET Gf]
    BY <1>0, <1>1 DEF TypeOK
  <2>2. methods' \in [Gf -> Nat] /\ specs' \in [Gf -> Nat]
    BY <1>0, <1>1 DEF TypeOK
  <2>3. lock' \in Thread \union {NIL}
    BY <1>0, <1>1 DEF TypeOK
  <2> QED  BY <1>0, <1>1, <2>1, <2>2, <2>3 DEF TypeOK
<1>3. CacheTypes'
  BY <1>1, <1>2 DEF CacheTypes
<1>4. \A u \in Thread : \A n \in DOMAIN stack[u] : u # t /\ stack[u][n].place # "computing"
  BY <1>1 DEF MetadataLocked
<1>5. CASE rest = <<>>
  <2>1. change' = NoChange /\ change'.by = NIL
    BY <1>1, <1>5 DEF NoChange
  <2> QED  BY <1>0, <1>1, <1>3, <1>4, <2>1 DEF MetadataLocked, NoChange
<1>6. CASE rest # <<>>
  <2>1. rest \in Inserted => methods'[g] > 0
    <3>1. methods[g] \in Nat /\ (todo \in Inserted => methods[g] > 0)
      BY <1>0, <1>1 DEF TypeOK, MetadataLocked, NoChange
    <3>2. methods'[g] = IF step \in {"insert", "delete"} THEN methods[g] + 1 ELSE methods[g]
      BY <1>0, <1>1 DEF TypeOK
    <3> QED  BY <1>1, <3>1, <3>2 DEF StepOf
  <2>2. rest \in Rests
    BY <1>1, <1>6 DEF StepOf
  <2>3. change' \in [by : Thread, gf : Gf, todo : Rests] /\ lock' = change'.by
        /\ change'.by = t /\ (change'.todo \in Inserted => methods'[change'.gf] > 0)
    <3>1. PICK c : c = change' /\ c = [by |-> t, gf |-> g, todo |-> rest]
      BY <1>1, <1>6
    <3>2. c \in [by : Thread, gf : Gf, todo : Rests] /\ c.by = t /\ c.gf = g /\ c.todo = rest
      BY <2>2, <3>1
    <3> QED  BY <1>1, <1>6, <2>1, <3>1, <3>2
  <2> QED  BY <1>1, <1>3, <1>4, <2>3 DEF MetadataLocked
<1> QED  BY <1>5, <1>6

(* A step is one of these.                                                 *)
LEMMA NextIs ==
  ASSUME Next
  PROVE  \E t \in Thread :
           \/ StartThread(t) \/ EndThread(t)
           \/ \E k \in Key : CallStep(t, k)
           \/ ComputeBegin(t) \/ ComputeEnd(t) \/ ComputeFails(t) \/ Store(t) \/ CallMethod(t)
           \/ \E g \in Changing, plan \in Plans : BeginChange(t, g, plan)
           \/ ChangeStep(t)
  BY DEF Next, CallStep

LEMMA BaseStep == CacheTypes /\ MetadataLocked /\ [Next]_vars => CacheTypes' /\ MetadataLocked'
<1> SUFFICES ASSUME CacheTypes, MetadataLocked, [Next]_vars
             PROVE  CacheTypes' /\ MetadataLocked'
  OBVIOUS
<1>1. CASE UNCHANGED vars
  BY <1>1 DEF vars, CacheTypes, TypeOK, MetadataLocked, NoChange
<1>2. CASE Next
  <2> PICK t \in Thread :
        \/ StartThread(t) \/ EndThread(t)
        \/ \E k \in Key : CallStep(t, k)
        \/ ComputeBegin(t) \/ ComputeEnd(t) \/ ComputeFails(t) \/ Store(t) \/ CallMethod(t)
        \/ \E g \in Changing, plan \in Plans : BeginChange(t, g, plan)
        \/ ChangeStep(t)
    BY <1>2, NextIs
  <2> QED
    BY LifeBase, DispatchBase, ComputeBeginBase, ComputeEndBase, ComputeFailsBase,
       StoreBase, CallMethodBase, BeginChangeBase, ChangeStepBase
<1> QED  BY <1>1, <1>2

(* Every call of a generic function keeps its types and every effective    *)
(* method in a table is a version; methods are changed and effective       *)
(* methods computed only under the metadata lock, so a computation has the *)
(* methods of one moment.  For any threads, reused or interrupted.         *)
THEOREM MethodsAreLocked == Spec => [](CacheTypes /\ MetadataLocked)
  BY BaseInit, BaseStep, PTL DEF Spec
-----------------------------------------------------------------------------
(* The version that counts, through the steps of a change.                 *)

(* Only a step of a change can change what counts.                         *)
LEMMA CurrentStays ==
  ASSUME NEW g, UNCHANGED <<methods, change>>
  PROVE  Current(g)' = Current(g)
  BY DEF Current

LEMMA CurrentAtBegin ==
  ASSUME CacheTypes, MetadataLocked, NEW t \in Thread, NEW h \in Changing,
         NEW plan \in Plans, BeginChange(t, h, plan), NEW g \in Gf
  PROVE  Current(g)' = Current(g)
<1>1. /\ change' = [by |-> t, gf |-> h, todo |-> plan] /\ methods' = methods
      /\ methods[g] \in Nat /\ lock = NIL /\ NIL \notin Thread
  BY GfunCacheAssumption DEF BeginChange, CacheTypes, TypeOK
<1>2. change = NoChange
  BY <1>1 DEF MetadataLocked
<1>3. plan \notin Inserted /\ Head(plan) # "delete"
  <2>1. plan \notin Inserted
    BY DEF Inserted, Plans
  <2>2. /\ Head(<<"insert", "respec", "clear">>) = "insert"
        /\ Head(<<"clear", "delete">>) = "clear"
        /\ Head(<<"clear", "delete", "insert", "respec", "clear">>) = "clear"
    OBVIOUS
  <2> QED  BY <2>1, <2>2 DEF Plans
<1>4. Current(g) = methods[g]
  BY <1>1, <1>2, NothingInserted DEF Current, NoChange
<1>5. Current(g)' = methods[g]
  BY <1>1, <1>3 DEF Current
<1> QED  BY <1>4, <1>5

LEMMA CurrentAtStep ==
  ASSUME CacheTypes, MetadataLocked, NEW t \in Thread, ChangeStep(t)
  PROVE  /\ change.gf \in Gf
         /\ \A g \in Gf : Current(g)' =
              IF g = change.gf /\ Head(change.todo) = "clear" THEN Current(g) + 1
                                                              ELSE Current(g)
<1>0. methods \in [Gf -> Nat]
  BY DEF CacheTypes, TypeOK
<1>1. PICK h \in Gf, todo \in Rests, step \in Steps, rest \in Rests \union {<<>>} :
        /\ change = [by |-> t, gf |-> h, todo |-> todo]
        /\ step = Head(todo) /\ rest = Tail(todo) /\ StepOf(todo, step, rest)
        /\ methods' = IF step \in {"insert", "delete"} THEN [methods EXCEPT ![h] = @ + 1]
                                                      ELSE methods
        /\ rest = <<>> => change' = NoChange
        /\ rest # <<>> => change' = [by |-> t, gf |-> h, todo |-> rest]
  BY ChangeFacts
<1> SUFFICES ASSUME NEW g \in Gf
             PROVE  Current(g)' = IF g = h /\ step = "clear" THEN Current(g) + 1
                                                             ELSE Current(g)
  BY <1>1
<1>2. /\ methods[g] \in Nat /\ methods'[g] \in Nat
      /\ methods'[g] = IF step \in {"insert", "delete"} /\ g = h THEN methods[g] + 1
                                                                 ELSE methods[g]
  BY <1>0, <1>1
<1>3. Current(g) = methods[g] + (IF h = g /\ step = "delete" THEN 1
                                 ELSE IF h = g /\ todo \in Inserted THEN -1 ELSE 0)
  BY <1>1 DEF Current, StepOf
<1>4. <<"clear">> \in Inserted /\ Head(<<"clear">>) = "clear" /\ <<"clear">> # <<>>
  BY DEF Inserted
<1>5. CASE rest = <<>>
  <2>1. change'.todo = <<>> /\ <<>> \notin Inserted
    BY <1>1, <1>5, NothingInserted DEF NoChange
  <2>2. Current(g)' = methods'[g]
    BY <1>2, <2>1 DEF Current
  <2>3. rest \notin Inserted /\ step \in {"clear", "delete"}
        /\ (step = "clear" => todo \in Inserted)
    BY <1>1, <1>4, <1>5, NothingInserted DEF StepOf, Steps
  <2> QED  BY <1>2, <1>3, <2>2, <2>3
<1>6. CASE rest # <<>>
  <2>1. change'.todo = rest /\ change'.gf = h
    BY <1>1, <1>6
  <2>2. Current(g)' = methods'[g] + (IF h = g /\ Head(rest) = "delete" THEN 1
                                     ELSE IF h = g /\ rest \in Inserted THEN -1 ELSE 0)
    BY <1>6, <2>1 DEF Current
  <2>3. rest \in Inserted => Head(rest) # "delete"
    <3>1. Head(<<"respec", "clear">>) = "respec"
      OBVIOUS
    <3> QED  BY <1>4, <3>1 DEF Inserted
  <2>4. CASE step = "insert"
    <3>1. rest \in Inserted /\ todo \notin Inserted
      BY <1>1, <2>4 DEF StepOf
    <3> QED  BY <1>2, <1>3, <2>2, <2>3, <2>4, <3>1
  <2>5. CASE step = "respec"
    <3>1. rest \in Inserted /\ todo \in Inserted
      BY <1>1, <1>4, <2>5 DEF StepOf
    <3> QED  BY <1>2, <1>3, <2>2, <2>3, <2>5, <3>1
  <2>6. CASE step = "delete"
    <3>1. rest \notin Inserted /\ Head(rest) # "delete"
      BY <1>1, <1>6, <2>6 DEF StepOf
    <3> QED  BY <1>2, <1>3, <2>2, <2>6, <3>1
  <2>7. CASE step = "clear"
    <3>1. todo \notin Inserted /\ Head(rest) = "delete"
      BY <1>1, <1>6, <2>7 DEF StepOf
    <3> QED  BY <1>2, <1>3, <2>2, <2>7, <3>1
  <2> QED  BY <2>4, <2>5, <2>6, <2>7 DEF Steps
<1> QED  BY <1>5, <1>6
-----------------------------------------------------------------------------
(* A cached method counts, or is asked to be cleared.                      *)

(* CurrentInv, action by action.                                           *)
LEMMA CurrentInit == Init => CurrentInv
<1> SUFFICES ASSUME Init PROVE CurrentInv
  OBVIOUS
<1>1. \A t \in Thread : stack[t] = <<>> /\ table[t] = Cleared
  BY DEF Init
<1>2. ComputedIsRecent /\ StoresCurrent /\ MethodsAreCurrent
  BY <1>1, ClearedTable DEF ComputedIsRecent, StoresCurrent, MethodsAreCurrent, Live
<1> QED  BY <1>2, BaseInit DEF CurrentInv

(* What a call has computed stays recent when a newer version comes to     *)
(* count.                                                                  *)
LEMMA RecentGrows ==
  ASSUME CacheTypes, MetadataLocked, NEW f \in Frame, Recent(f),
         Sound(f), Current(GfOf[f.key])' \in {Current(GfOf[f.key]), Current(GfOf[f.key]) + 1}
  PROVE  Recent(f)'
<1>1. GfOf[f.key] \in Gf
  BY MethodHashAssumption DEF Frame
<1>2. PICK now \in Nat : now = Current(GfOf[f.key])
  BY <1>1, CurrentIs
<1>3. Current(GfOf[f.key])' \in {now, now + 1}
  BY <1>2
<1>4. f.since \in Nat /\ (f.func \in Nat \/ f.func = NoValue)
  BY DEF Frame
<1>5. f.since <= now /\ (f.place \in {"computing", "computed"} => f.since <= f.func /\ f.func <= now)
  BY <1>2 DEF Recent
<1>6. ASSUME NEW later, later = Current(GfOf[f.key])' PROVE Recent(f)'
  <2>1. f.place \in {"computing", "computed"} => f.func \in Nat
    BY <1>4 DEF Sound
  <2>2. later \in Nat /\ now <= later
    BY <1>3, <1>6
  <2>3. f.since <= later
    BY <1>4, <1>5, <2>2
  <2>4. f.place \in {"computing", "computed"} => f.since <= f.func /\ f.func <= later
    BY <1>4, <1>5, <2>1, <2>2
  <2> QED  BY <1>6, <2>3, <2>4 DEF Recent
<1> QED  BY <1>6

(* The calls that a step leaves as they are stay recent.                   *)
LEMMA RecentStack ==
  ASSUME CacheTypes, MetadataLocked, ComputedIsRecent,
         \A g \in Gf : Current(g)' \in {Current(g), Current(g) + 1},
         \A t \in Thread : \A n \in DOMAIN stack'[t] :
           \/ n \in DOMAIN stack[t] /\ stack'[t][n] = stack[t][n]
           \/ \E f \in Frame : stack'[t][n] = f /\ Recent(f)'
  PROVE  ComputedIsRecent'
<1> SUFFICES ASSUME NEW t \in Thread, NEW n \in DOMAIN stack'[t]
             PROVE  Recent(stack[t][n])'
  BY DEF ComputedIsRecent
<1>1. CASE n \in DOMAIN stack[t] /\ stack'[t][n] = stack[t][n]
  <2>1. PICK f \in Frame : f = stack[t][n]
    BY <1>1 DEF CacheTypes
  <2>2. Recent(f) /\ GfOf[f.key] \in Gf /\ Sound(f)
    BY <1>1, <2>1, MethodHashAssumption DEF ComputedIsRecent, CacheTypes, Frame
  <2>3. Recent(f)'
    BY <2>2, RecentGrows
  <2> QED  BY <1>1, <2>1, <2>3 DEF Recent
<1>2. CASE \E f \in Frame : stack'[t][n] = f /\ Recent(f)'
  BY <1>2 DEF Recent
<1> QED  BY <1>1, <1>2

(* The innermost call of the others stays the same.                        *)
LEMMA OtherTops ==
  ASSUME NEW u \in Thread, stack'[u] = stack[u]
  PROVE  Top(u)' = Top(u) /\ Len(stack'[u]) = Len(stack[u])
  BY DEF Top

LEMMA DispatchCurrent ==
  ASSUME Intruding = {}, CurrentInv, NEW t \in Thread, NEW k \in Key, CallStep(t, k)
  PROVE  ComputedIsRecent' /\ StoresCurrent' /\ MethodsAreCurrent'
<1>0. /\ CacheTypes /\ MetadataLocked /\ ComputedIsRecent /\ StoresCurrent /\ MethodsAreCurrent
      /\ stack \in Stacks /\ table \in [Thread -> [Records -> Record]]
      /\ clear \in [Thread -> SUBSET Gf]
  BY DEF CurrentInv, CacheTypes, TypeOK, Stacks
<1>1. /\ UNCHANGED <<change, methods, life>> /\ clear' = [clear EXCEPT ![t] = {}]
      /\ life[t] = "listed" /\ (stack[t] # <<>> => Top(t).place = "computing")
  BY CallFacts, Intruding = {} DEF MayCall, TakeClears
<1>2. \A g : Current(g)' = Current(g)
  BY <1>1, CurrentStays
<1>3. PICK old : old = TakenTable(t)
  OBVIOUS
<1>4. PICK new \in [Records -> Record] :
        /\ table' = [table EXCEPT ![t] = new] /\ Thins(new, old)
        /\ \/ stack' = stack
           \/ \E f \in Frame :
                /\ Push(t, f) /\ f.key = k /\ f.since = Current(GfOf[k])
                /\ f.place \in {"missed", "chosen"}
  BY <1>0, <1>3, DispatchFacts
<1>5. /\ table'[t] = new /\ \A u \in Thread : u # t => table'[u] = table[u]
      /\ \A u \in Thread : u # t => clear'[u] = clear[u]
  BY <1>0, <1>1, <1>4
<1>6. MethodsAreCurrent'
  <2>1. \A i \in Records : new[i].key # NoKey => new[i].value = Current(GfOf[new[i].key])
    <3> SUFFICES ASSUME NEW i \in Records, new[i].key # NoKey
                 PROVE  new[i].value = Current(GfOf[new[i].key])
      OBVIOUS
    <3>1. /\ new[i].key = old[i].key /\ new[i].value = old[i].value
          /\ old[i].key = table[t][i].key /\ GfOf[old[i].key] \notin clear[t]
      BY <1>0, <1>3, <1>4, OwnTable DEF Thins
    <3>2. old[i].value = table[t][i].value
      BY <1>0, <1>3, <3>1, OwnTable DEF Thins
    <3>3. <<table[t][i].key, table[t][i].value>> \in Live(table[t])
      BY <3>1 DEF Live
    <3> QED  BY <1>0, <1>1, <3>1, <3>2, <3>3 DEF MethodsAreCurrent
  <2>2. ASSUME NEW u \in Thread, life'[u] = "listed", NEW p \in Live(table'[u])
        PROVE  GfOf[p[1]] \in clear'[u] \/ p[2] = Current(GfOf[p[1]])
    <3>1. CASE u = t
      BY <1>5, <2>1, <3>1 DEF Live
    <3>2. CASE u # t
      BY <1>0, <1>1, <1>5, <2>2, <3>2 DEF MethodsAreCurrent
    <3> QED  BY <3>1, <3>2
  <2> QED  BY <1>2, <2>2 DEF MethodsAreCurrent
<1>7. CASE stack' = stack
  <2>1. ComputedIsRecent'
    BY <1>0, <1>2, <1>7, RecentStack
  <2>2. \A u \in Thread : Top(u)' = Top(u)
    BY <1>7 DEF Top
  <2>3. StoresCurrent'
    BY <1>0, <1>1, <1>2, <1>5, <1>7, <2>2 DEF StoresCurrent
  <2> QED  BY <1>6, <2>1, <2>3
<1>8. ASSUME NEW f \in Frame, Push(t, f), f.key = k, f.since = Current(GfOf[k]),
             f.place \in {"missed", "chosen"}
      PROVE  ComputedIsRecent' /\ StoresCurrent'
  <2>1. /\ stack' \in Stacks /\ Len(stack'[t]) = Len(stack[t]) + 1
        /\ DOMAIN stack'[t] = 1 .. Len(stack[t]) + 1
        /\ stack'[t][Len(stack[t]) + 1] = f
        /\ \A n \in 1 .. Len(stack[t]) : stack'[t][n] = stack[t][n]
        /\ \A u \in Thread : u # t => stack'[u] = stack[u]
    BY <1>0, <1>8, Pushed
  <2>2. Len(stack[t]) \in Nat /\ DOMAIN stack[t] = 1 .. Len(stack[t])
    BY <1>0 DEF Stacks
  <2>3. Recent(f)'
    <3>1. GfOf[k] \in Gf
      BY MethodHashAssumption
    <3>2. Current(GfOf[k]) \in Nat
      BY <1>0, <3>1, CurrentIs
    <3>3. Current(GfOf[f.key])' = f.since /\ f.since \in Nat
      BY <1>2, <1>8, <3>2
    <3> QED  BY <1>8, <3>3 DEF Recent
  <2>4. \A u \in Thread : \A n \in DOMAIN stack'[u] :
          \/ n \in DOMAIN stack[u] /\ stack'[u][n] = stack[u][n]
          \/ stack'[u][n] = f
    BY <2>1, <2>2
  <2>5. ComputedIsRecent'
    <3>1. \A u \in Thread : \A n \in DOMAIN stack'[u] :
            \/ n \in DOMAIN stack[u] /\ stack'[u][n] = stack[u][n]
            \/ \E x \in Frame : stack'[u][n] = x /\ Recent(x)'
      BY <2>3, <2>4
    <3> QED  BY <1>0, <1>2, <3>1, RecentStack
  <2>6. StoresCurrent'
    <3> SUFFICES ASSUME NEW u \in Thread
                 PROVE  (/\ \A n \in 1 .. Len(stack[u]) - 1 : stack[u][n].place = "computing"
                         /\ stack[u] # <<>> /\ Top(u).place = "computed" =>
                              GfOf[Top(u).key] \in clear[u]
                                \/ Top(u).func = Current(GfOf[Top(u).key])
                         /\ life[u] # "listed" => \A i \in Records : table[u][i].key = NoKey)'
      BY DEF StoresCurrent
    <3>1. CASE u = t
      <4>1. \A n \in 1 .. Len(stack'[t]) - 1 : stack'[t][n].place = "computing"
        <5> SUFFICES ASSUME NEW n \in 1 .. Len(stack'[t]) - 1
                     PROVE  stack'[t][n].place = "computing"
          OBVIOUS
        <5>1. n \in 1 .. Len(stack[t]) /\ stack'[t][n] = stack[t][n]
          BY <2>1, <2>2
        <5>2. CASE n = Len(stack[t])
          <6>1. stack[t] # <<>>
            BY <2>2, <5>1
          <6> QED  BY <1>0, <1>1, <5>1, <5>2, <6>1, TopFrame
        <5>3. CASE n # Len(stack[t])
          <6>1. n \in 1 .. Len(stack[t]) - 1
            BY <2>2, <5>1, <5>3
          <6> QED  BY <1>0, <5>1, <6>1 DEF StoresCurrent
        <5> QED  BY <5>2, <5>3
      <4>2. Top(t)' = f
        BY <2>1 DEF Top
      <4>3. Top(t)'.place # "computed"
        BY <1>8, <4>2
      <4>4. life'[t] = "listed"
        BY <1>1
      <4> QED  BY <3>1, <4>1, <4>3, <4>4
    <3>2. CASE u # t
      <4>1. stack'[u] = stack[u] /\ table'[u] = table[u] /\ clear'[u] = clear[u]
        BY <1>5, <2>1, <3>2
      <4>2. Top(u)' = Top(u)
        BY <4>1, OtherTops
      <4> QED  BY <1>0, <1>1, <1>2, <4>1, <4>2 DEF StoresCurrent
    <3> QED  BY <3>1, <3>2
  <2> QED  BY <2>5, <2>6
<1> QED  BY <1>4, <1>6, <1>7, <1>8

(* The innermost call goes on; what it computed counts or will be cleared. *)
LEMMA TopCurrent ==
  ASSUME CurrentInv, NEW t \in Thread, stack[t] # <<>>, NEW f \in Frame, SetTop(t, f),
         UNCHANGED <<methods, change, clear, life>>, Recent(f),
         f.place = "computed" => GfOf[f.key] \in clear[t] \/ f.func = Current(GfOf[f.key]),
         \A u \in Thread : u # t => table'[u] = table[u]
  PROVE  ComputedIsRecent' /\ StoresCurrent'
<1>0. /\ CacheTypes /\ MetadataLocked /\ ComputedIsRecent /\ StoresCurrent /\ stack \in Stacks
      /\ life[t] = "listed"
  BY DEF CurrentInv, CacheTypes, Stacks
<1>1. \A g : Current(g)' = Current(g)
  BY CurrentStays
<1>2. /\ DOMAIN stack'[t] = 1 .. Len(stack[t]) /\ Len(stack'[t]) = Len(stack[t])
      /\ stack'[t][Len(stack[t])] = f
      /\ \A n \in 1 .. Len(stack[t]) - 1 : stack'[t][n] = stack[t][n]
      /\ \A u \in Thread : u # t => stack'[u] = stack[u]
  BY <1>0, Topped
<1>3. Len(stack[t]) \in Nat \ {0} /\ DOMAIN stack[t] = 1 .. Len(stack[t])
  BY <1>0, TopFrame
<1>4. Recent(f)'
  BY <1>1 DEF Recent
<1>5. ComputedIsRecent'
  <2>1. \A u \in Thread : \A n \in DOMAIN stack'[u] :
          \/ n \in DOMAIN stack[u] /\ stack'[u][n] = stack[u][n]
          \/ \E x \in Frame : stack'[u][n] = x /\ Recent(x)'
    BY <1>2, <1>3, <1>4
  <2> QED  BY <1>0, <1>1, <2>1, RecentStack
<1>6. StoresCurrent'
  <2> SUFFICES ASSUME NEW u \in Thread
               PROVE  (/\ \A n \in 1 .. Len(stack[u]) - 1 : stack[u][n].place = "computing"
                       /\ stack[u] # <<>> /\ Top(u).place = "computed" =>
                            GfOf[Top(u).key] \in clear[u]
                              \/ Top(u).func = Current(GfOf[Top(u).key])
                       /\ life[u] # "listed" => \A i \in Records : table[u][i].key = NoKey)'
    BY DEF StoresCurrent
  <2>1. CASE u = t
    <3>1. \A n \in 1 .. Len(stack'[t]) - 1 : stack'[t][n].place = "computing"
      BY <1>0, <1>2 DEF StoresCurrent
    <3>2. Top(t)' = f
      BY <1>2 DEF Top
    <3> QED  BY <1>0, <1>1, <2>1, <3>1, <3>2
  <2>2. CASE u # t
    <3>1. stack'[u] = stack[u] /\ table'[u] = table[u]
      BY <1>2, <2>2
    <3>2. Top(u)' = Top(u)
      BY <3>1, OtherTops
    <3> QED  BY <1>0, <1>1, <3>1, <3>2 DEF StoresCurrent
  <2> QED  BY <2>1, <2>2
<1> QED  BY <1>5, <1>6

(* The tables, the requests and the version that counts stay as they are.  *)
LEMMA CachesStay ==
  ASSUME MethodsAreCurrent, UNCHANGED <<table, methods, change, clear, life>>
  PROVE  MethodsAreCurrent'
<1>1. \A g : Current(g)' = Current(g)
  BY CurrentStays
<1> QED  BY <1>1 DEF MethodsAreCurrent, Live

LEMMA ComputeBeginCurrent ==
  ASSUME Intruding = {}, CurrentInv, NEW t \in Thread, ComputeBegin(t)
  PROVE  ComputedIsRecent' /\ StoresCurrent' /\ MethodsAreCurrent'
<1>0. /\ CacheTypes /\ MetadataLocked /\ ComputedIsRecent /\ MethodsAreCurrent /\ stack \in Stacks
      /\ stack[t] # <<>> /\ lock \in {NIL, t} /\ NIL \notin Thread
      /\ Top(t).place = "missed" /\ Computing(t)
      /\ UNCHANGED <<methods, change, table, clear, life>>
  BY GfunCacheAssumption DEF CurrentInv, CacheTypes, Stacks, ComputeBegin
<1>1. /\ Top(t) \in Frame /\ Top(t) = stack[t][Len(stack[t])]
      /\ Len(stack[t]) \in DOMAIN stack[t]
  BY <1>0, TopFrame
<1>2. PICK g \in Gf : g = GfOf[Top(t).key]
  BY <1>1, MethodHashAssumption DEF Frame
<1>3. change.gf # g \/ change.by = NIL
  BY <1>0, <1>1, <1>2, Intruding = {} DEF MetadataLocked, NoChange
<1>4. PICK v \in Nat : v = methods[g] /\ v = Current(g)
  BY <1>0, <1>3, CurrentIs
<1>5. PICK f \in Frame : /\ SetTop(t, f) /\ f.key = Top(t).key /\ f.since = Top(t).since
                         /\ f.place = "computing" /\ f.func = methods[GfOf[f.key]]
  BY <1>0, ComputingFrame
<1>6. f.func = v
  BY <1>2, <1>4, <1>5
<1>7. Top(t).since <= v
  BY <1>0, <1>1, <1>2, <1>4 DEF ComputedIsRecent, Recent
<1>8. Recent(f)
  BY <1>2, <1>4, <1>5, <1>6, <1>7 DEF Recent
<1>9. MethodsAreCurrent'
  BY <1>0, CachesStay
<1> QED  BY <1>0, <1>5, <1>6, <1>8, <1>9, TopCurrent

LEMMA ComputeEndCurrent ==
  ASSUME Intruding = {}, CurrentInv, NEW t \in Thread, ComputeEnd(t)
  PROVE  ComputedIsRecent' /\ StoresCurrent' /\ MethodsAreCurrent'
<1>0. /\ CacheTypes /\ MetadataLocked /\ ComputedIsRecent /\ MethodsAreCurrent /\ stack \in Stacks
      /\ stack[t] # <<>> /\ NIL \notin Thread /\ Top(t).place = "computing"
      /\ UNCHANGED <<methods, change, table, clear, life>>
  BY GfunCacheAssumption DEF CurrentInv, CacheTypes, Stacks, ComputeEnd
<1>1. /\ Top(t) \in Frame /\ Top(t) = stack[t][Len(stack[t])]
      /\ Len(stack[t]) \in DOMAIN stack[t]
  BY <1>0, TopFrame
<1>2. PICK g \in Gf : g = GfOf[Top(t).key]
  BY <1>1, MethodHashAssumption DEF Frame
<1>3. lock = t /\ Top(t).func = methods[g]
  BY <1>0, <1>1, <1>2 DEF MetadataLocked
<1>4. change.gf # g \/ change.by = NIL
  BY <1>0, <1>1, <1>2, <1>3, Intruding = {} DEF MetadataLocked, NoChange
<1>5. Top(t).func = Current(g)
  BY <1>0, <1>3, <1>4, CurrentIs
<1>6. PICK f \in Frame : /\ SetTop(t, f) /\ f.key = Top(t).key /\ f.since = Top(t).since
                         /\ f.func = Top(t).func
                         /\ f.place = IF f.key \in Uncached THEN "chosen" ELSE "computed"
  BY <1>0, ComputedFrame
<1>7. f.place \in {"computed", "chosen"}
  BY <1>6
<1>8. Recent(f)
  BY <1>0, <1>1, <1>6, <1>7 DEF ComputedIsRecent, Recent
<1>9. MethodsAreCurrent'
  BY <1>0, CachesStay
<1> QED  BY <1>0, <1>2, <1>5, <1>6, <1>7, <1>8, <1>9, TopCurrent

LEMMA StoreCurrent ==
  ASSUME CurrentInv, NEW t \in Thread, Store(t)
  PROVE  ComputedIsRecent' /\ StoresCurrent' /\ MethodsAreCurrent'
<1>0. /\ CacheTypes /\ MetadataLocked /\ ComputedIsRecent /\ StoresCurrent /\ MethodsAreCurrent
      /\ stack \in Stacks /\ stack[t] # <<>> /\ table \in [Thread -> [Records -> Record]]
      /\ UNCHANGED <<methods, change, clear, life>> /\ life[t] = "listed"
  BY DEF CurrentInv, CacheTypes, TypeOK, Stacks, Store
<1>1. PICK g : g = Top(t)
  OBVIOUS
<1>2. g \in Frame /\ g.place = "computed" /\ g.func \in Nat
  BY <1>0, <1>1, StoreFacts
<1>3. /\ GfOf[g.key] \in clear[t] \/ g.func = Current(GfOf[g.key])
      /\ Recent(g)
  BY <1>0, <1>1, <1>2, TopFrame DEF StoresCurrent, ComputedIsRecent
<1>4. \A h : Current(h)' = Current(h)
  BY <1>0, CurrentStays
<1>5. CASE UNCHANGED <<table, gen, stack>>
  <2>1. \A u \in Thread : Top(u)' = Top(u)
    BY <1>5 DEF Top
  <2>2. StoresCurrent'
    BY <1>0, <1>4, <1>5, <2>1 DEF StoresCurrent
  <2>3. ComputedIsRecent'
    BY <1>0, <1>4, <1>5, RecentStack
  <2>4. MethodsAreCurrent'
    BY <1>0, <1>5, CachesStay
  <2> QED  BY <2>2, <2>3, <2>4
<1>6. ASSUME NEW old \in [Records -> Record], NEW e \in Records, NEW r \in Record,
             table' = [table EXCEPT ![t] = [old EXCEPT ![e] = r]],
             Thins(old, table[t]), r.key = g.key, r.value = g.func,
             SetTop(t, [g EXCEPT !.place = "chosen"])
      PROVE  ComputedIsRecent' /\ StoresCurrent' /\ MethodsAreCurrent'
  <2>1. PICK new \in [Records -> Record] : new = [old EXCEPT ![e] = r]
    OBVIOUS
  <2>2. table'[t] = new /\ \A u \in Thread : u # t => table'[u] = table[u]
    BY <1>0, <1>6, <2>1
  <2>3. \A i \in Records : new[i].key # NoKey =>
          GfOf[new[i].key] \in clear[t] \/ new[i].value = Current(GfOf[new[i].key])
    <3> SUFFICES ASSUME NEW i \in Records, new[i].key # NoKey
                 PROVE  GfOf[new[i].key] \in clear[t] \/ new[i].value = Current(GfOf[new[i].key])
      OBVIOUS
    <3>1. CASE i = e
      BY <1>3, <1>6, <2>1, <3>1
    <3>2. CASE i # e
      <4>1. new[i] = old[i] /\ old[i].key = table[t][i].key /\ old[i].value = table[t][i].value
        BY <1>6, <2>1, <3>2 DEF Thins
      <4>2. <<table[t][i].key, table[t][i].value>> \in Live(table[t])
        BY <4>1 DEF Live
      <4> QED  BY <1>0, <4>1, <4>2 DEF MethodsAreCurrent
    <3> QED  BY <3>1, <3>2
  <2>4. MethodsAreCurrent'
    <3>1. ASSUME NEW u \in Thread, life'[u] = "listed", NEW p \in Live(table'[u])
          PROVE  GfOf[p[1]] \in clear'[u] \/ p[2] = Current(GfOf[p[1]])
      <4>1. CASE u = t
        BY <1>0, <2>2, <2>3, <4>1 DEF Live
      <4>2. CASE u # t
        BY <1>0, <2>2, <3>1, <4>2 DEF MethodsAreCurrent
      <4> QED  BY <4>1, <4>2
    <3> QED  BY <1>4, <3>1 DEF MethodsAreCurrent
  <2>5. PICK f : f = [g EXCEPT !.place = "chosen"] /\ SetTop(t, f)
    BY <1>6
  <2>6. f \in Frame /\ f.key = g.key /\ f.place = "chosen" /\ f.since = g.since
    BY <1>2, <2>5 DEF Frame
  <2>7. Recent(f)
    BY <1>3, <2>6 DEF Recent
  <2> QED  BY <1>0, <2>2, <2>4, <2>5, <2>6, <2>7, TopCurrent
<1>7. \/ UNCHANGED <<table, gen, stack>>
      \/ \E old \in [Records -> Record], e \in Records, r \in Record :
           /\ table' = [table EXCEPT ![t] = [old EXCEPT ![e] = r]]
           /\ Thins(old, table[t]) /\ r.key = g.key /\ r.value = g.func
           /\ SetTop(t, [g EXCEPT !.place = "chosen"])
  <2>1. CacheTypes
    BY <1>0
  <2> QED  BY <1>1, <2>1, StoreFacts
<1> QED  BY <1>5, <1>6, <1>7

LEMMA PopCurrent ==
  ASSUME CurrentInv, NEW t \in Thread, CallMethod(t) \/ ComputeFails(t)
  PROVE  ComputedIsRecent' /\ StoresCurrent' /\ MethodsAreCurrent'
<1>0. /\ CacheTypes /\ MetadataLocked /\ ComputedIsRecent /\ StoresCurrent /\ MethodsAreCurrent
      /\ stack \in Stacks /\ stack[t] # <<>> /\ Pop(t) /\ life[t] = "listed"
      /\ UNCHANGED <<methods, change, table, clear, life>>
  BY DEF CurrentInv, CacheTypes, Stacks, CallMethod, ComputeFails
<1>1. \A g : Current(g)' = Current(g)
  BY <1>0, CurrentStays
<1>2. /\ stack' \in Stacks /\ DOMAIN stack'[t] = 1 .. Len(stack[t]) - 1
      /\ Len(stack'[t]) = Len(stack[t]) - 1
      /\ \A n \in 1 .. Len(stack[t]) - 1 : stack'[t][n] = stack[t][n]
      /\ \A u \in Thread : u # t => stack'[u] = stack[u]
  BY <1>0, Popped
<1>3. Len(stack[t]) \in Nat \ {0} /\ DOMAIN stack[t] = 1 .. Len(stack[t])
  BY <1>0, TopFrame
<1>4. ComputedIsRecent'
  <2>1. \A u \in Thread : \A n \in DOMAIN stack'[u] :
          n \in DOMAIN stack[u] /\ stack'[u][n] = stack[u][n]
    BY <1>2, <1>3
  <2> QED  BY <1>0, <1>1, <2>1, RecentStack
<1>5. StoresCurrent'
  <2> SUFFICES ASSUME NEW u \in Thread
               PROVE  (/\ \A n \in 1 .. Len(stack[u]) - 1 : stack[u][n].place = "computing"
                       /\ stack[u] # <<>> /\ Top(u).place = "computed" =>
                            GfOf[Top(u).key] \in clear[u]
                              \/ Top(u).func = Current(GfOf[Top(u).key])
                       /\ life[u] # "listed" => \A i \in Records : table[u][i].key = NoKey)'
    BY DEF StoresCurrent
  <2>1. CASE u = t
    <3>1. \A n \in 1 .. Len(stack[t]) - 1 : stack'[t][n].place = "computing"
      BY <1>0, <1>2 DEF StoresCurrent
    <3>2. \A n \in 1 .. Len(stack'[t]) - 1 : stack'[t][n].place = "computing"
      BY <1>2, <1>3, <3>1
    <3>3. stack'[t] # <<>> => Top(t)'.place = "computing"
      <4>1. SUFFICES ASSUME stack'[t] # <<>> PROVE Top(t)'.place = "computing"
        OBVIOUS
      <4>2. Len(stack'[t]) \in 1 .. Len(stack[t]) - 1
        BY <1>2, <1>3, <4>1 DEF Stacks
      <4> QED  BY <3>1, <4>2 DEF Top
    <3> QED  BY <1>0, <2>1, <3>2, <3>3
  <2>2. CASE u # t
    <3>1. stack'[u] = stack[u]
      BY <1>2, <2>2
    <3>2. Top(u)' = Top(u)
      BY <3>1, OtherTops
    <3> QED  BY <1>0, <1>1, <3>1, <3>2 DEF StoresCurrent
  <2> QED  BY <2>1, <2>2
<1>6. MethodsAreCurrent'
  BY <1>0, CachesStay
<1> QED  BY <1>4, <1>5, <1>6

(* A thread that is not reused is listed with an empty table.              *)
LEMMA LifeCurrent ==
  ASSUME Reused = {}, CurrentInv, NEW t \in Thread, StartThread(t) \/ EndThread(t)
  PROVE  ComputedIsRecent' /\ StoresCurrent' /\ MethodsAreCurrent'
<1>0. /\ CacheTypes /\ MetadataLocked /\ ComputedIsRecent /\ StoresCurrent /\ MethodsAreCurrent
      /\ table \in [Thread -> [Records -> Record]] /\ clear \in [Thread -> SUBSET Gf]
      /\ life \in [Thread -> {"new", "listed", "ended"}]
      /\ UNCHANGED <<methods, change, stack>>
  BY DEF CurrentInv, CacheTypes, TypeOK, StartThread, EndThread
<1>1. /\ \A g : Current(g)' = Current(g)
      /\ \A u \in Thread : Top(u)' = Top(u)
  BY <1>0, CurrentStays DEF Top
<1>2. ComputedIsRecent'
  BY <1>0, <1>1, RecentStack
<1>3. \A i \in Records : table'[t][i].key = NoKey
  <2>1. CASE StartThread(t)
    BY <1>0, <2>1 DEF StartThread, StoresCurrent
  <2>2. CASE EndThread(t)
    <3>1. table' = [table EXCEPT ![t] = Cleared]
      BY <2>2, Reused = {} DEF EndThread
    <3> QED  BY <1>0, <3>1, ClearedTable
  <2> QED  BY <2>1, <2>2
<1>4. \A u \in Thread : u # t => table'[u] = table[u] /\ clear'[u] = clear[u]
                                 /\ life'[u] = life[u]
  BY <1>0 DEF StartThread, EndThread
<1>5. StartThread(t) => clear' = clear
  BY DEF StartThread
<1>6. EndThread(t) => stack[t] = <<>>
  BY DEF EndThread
<1>7. StoresCurrent'
  BY <1>0, <1>1, <1>3, <1>4, <1>5, <1>6 DEF StoresCurrent
<1>8. MethodsAreCurrent'
  <2>1. ASSUME NEW u \in Thread, life'[u] = "listed", NEW p \in Live(table'[u])
        PROVE  GfOf[p[1]] \in clear'[u] \/ p[2] = Current(GfOf[p[1]])
    <3>1. CASE u = t
      BY <1>3, <2>1, <3>1 DEF Live
    <3>2. CASE u # t
      BY <1>0, <1>4, <2>1, <3>2 DEF MethodsAreCurrent
    <3> QED  BY <3>1, <3>2
  <2> QED  BY <1>1, <2>1 DEF MethodsAreCurrent
<1> QED  BY <1>2, <1>7, <1>8

(* When a change takes effect every listed thread is asked to clear.       *)
LEMMA ChangeCurrent ==
  ASSUME CurrentInv, NEW h \in Gf, UNCHANGED <<table, life, stack>>,
         \A g \in Gf : \/ Current(g)' = Current(g)
                       \/ /\ g = h /\ Current(g)' = Current(g) + 1
                          /\ \A u \in Thread : life[u] = "listed" => h \in clear'[u],
         \A u \in Thread : clear[u] \subseteq clear'[u]
  PROVE  ComputedIsRecent' /\ StoresCurrent' /\ MethodsAreCurrent'
<1>0. /\ CacheTypes /\ MetadataLocked /\ ComputedIsRecent /\ StoresCurrent /\ MethodsAreCurrent
      /\ table \in [Thread -> [Records -> Record]] /\ stack \in Stacks
      /\ \A u \in Thread : stack[u] # <<>> => life[u] = "listed"
  BY DEF CurrentInv, CacheTypes, TypeOK, Stacks
<1>1. \A u \in Thread : Top(u)' = Top(u)
  BY DEF Top
<1>2. ComputedIsRecent'
  BY <1>0, RecentStack
<1>3. StoresCurrent'
  <2>1. ASSUME NEW u \in Thread, stack[u] # <<>>, Top(u).place = "computed"
        PROVE  GfOf[Top(u).key] \in clear'[u] \/ Top(u).func = Current(GfOf[Top(u).key])'
    <3>1. PICK g \in Gf : g = GfOf[Top(u).key]
      BY <1>0, <2>1, TopFrame, MethodHashAssumption DEF Frame
    <3>2. g \in clear[u] \/ Top(u).func = Current(g)
      BY <1>0, <2>1, <3>1 DEF StoresCurrent
    <3>3. g \in clear'[u] \/ Current(g)' = Current(g)
      BY <1>0, <2>1
    <3>4. g \in clear'[u] \/ Top(u).func = Current(g)'
      BY <3>2, <3>3
    <3> QED  BY <3>1, <3>4 DEF Top, Current
  <2> QED  BY <1>0, <1>1, <2>1 DEF StoresCurrent
<1>4. MethodsAreCurrent'
  <2>1. ASSUME NEW u \in Thread, life[u] = "listed", NEW p \in Live(table[u])
        PROVE  GfOf[p[1]] \in clear'[u] \/ p[2] = Current(GfOf[p[1]])'
    <3>1. p[1] \in Key
      BY <1>0 DEF Live, Record
    <3>2. PICK g \in Gf : g = GfOf[p[1]]
      BY <3>1, MethodHashAssumption
    <3>3. g \in clear[u] \/ p[2] = Current(g)
      BY <1>0, <2>1, <3>2 DEF MethodsAreCurrent
    <3>4. g \in clear'[u] \/ p[2] = Current(g)'
      BY <2>1, <3>3
    <3> QED  BY <3>2, <3>4
  <2> QED  BY <2>1 DEF MethodsAreCurrent, Live
<1> QED  BY <1>2, <1>3, <1>4

LEMMA CurrentStep ==
  ASSUME Reused = {}, Intruding = {}
  PROVE  CurrentInv /\ [Next]_vars => CurrentInv'
<1> SUFFICES ASSUME CurrentInv, [Next]_vars PROVE CurrentInv'
  OBVIOUS
<1>0. CacheTypes /\ MetadataLocked
  BY DEF CurrentInv
<1>1. CacheTypes' /\ MetadataLocked'
  BY <1>0, BaseStep
<1> SUFFICES ComputedIsRecent' /\ StoresCurrent' /\ MethodsAreCurrent'
  BY <1>1 DEF CurrentInv
<1>2. CASE UNCHANGED vars
  <2>1. UNCHANGED <<methods, change, clear, life, stack, table>>
    BY <1>2 DEF vars
  <2>3. \A g : Current(g)' = Current(g)
    BY <2>1, CurrentStays
  <2>4. \A u \in Thread : Top(u)' = Top(u)
    BY <2>1 DEF Top
  <2> QED
    BY <2>1, <2>3, <2>4
       DEF CurrentInv, ComputedIsRecent, Recent, StoresCurrent, MethodsAreCurrent, Live
<1>3. CASE Next
  <2> PICK t \in Thread :
        \/ StartThread(t) \/ EndThread(t)
        \/ \E k \in Key : CallStep(t, k)
        \/ ComputeBegin(t) \/ ComputeEnd(t) \/ ComputeFails(t) \/ Store(t) \/ CallMethod(t)
        \/ \E g \in Changing, plan \in Plans : BeginChange(t, g, plan)
        \/ ChangeStep(t)
    BY <1>3, NextIs
  <2>1. CASE StartThread(t) \/ EndThread(t)
    BY <2>1, LifeCurrent, Reused = {}
  <2>2. ASSUME NEW k \in Key, CallStep(t, k)
        PROVE  ComputedIsRecent' /\ StoresCurrent' /\ MethodsAreCurrent'
    BY <2>2, DispatchCurrent, Intruding = {}
  <2>3. CASE ComputeBegin(t) \/ ComputeEnd(t) \/ ComputeFails(t) \/ Store(t) \/ CallMethod(t)
    BY <2>3, ComputeBeginCurrent, ComputeEndCurrent, StoreCurrent, PopCurrent, Intruding = {}
  <2>4. ASSUME NEW g \in Changing, NEW plan \in Plans, BeginChange(t, g, plan)
        PROVE  ComputedIsRecent' /\ StoresCurrent' /\ MethodsAreCurrent'
    <3>1. g \in Gf /\ UNCHANGED <<table, life, stack, clear>>
      BY <2>4, GfunCacheAssumption DEF BeginChange
    <3>2. \A h \in Gf : Current(h)' = Current(h)
      BY <1>0, <2>4, CurrentAtBegin
    <3> QED  BY <3>1, <3>2, ChangeCurrent
  <2>5. CASE ChangeStep(t)
    <3>1. PICK h \in Gf : h = change.gf
      BY <1>0, <2>5, CurrentAtStep
    <3>2. \A g \in Gf : Current(g)' = IF g = h /\ Head(change.todo) = "clear"
                                       THEN Current(g) + 1 ELSE Current(g)
      BY <1>0, <2>5, <3>1, CurrentAtStep
    <3>3. /\ UNCHANGED <<table, life, stack>>
          /\ Head(change.todo) = "clear" =>
               clear' = [u \in Thread |-> IF life[u] = "listed" THEN clear[u] \union {h}
                                                                ELSE clear[u]]
          /\ Head(change.todo) # "clear" => clear' = clear
      BY <2>5, <3>1 DEF ChangeStep, Carry, ClearGfunCache
    <3>4. \A u \in Thread : clear[u] \subseteq clear'[u]
      BY <3>3
    <3>5. \A g \in Gf : \/ Current(g)' = Current(g)
                        \/ /\ g = h /\ Current(g)' = Current(g) + 1
                           /\ \A u \in Thread : life[u] = "listed" => h \in clear'[u]
      BY <3>2, <3>3
    <3> QED  BY <3>3, <3>4, <3>5, ChangeCurrent
  <2> QED  BY <2>1, <2>2, <2>3, <2>4, <2>5
<1> QED  BY <1>2, <1>3

LEMMA CurrentAlways ==
  ASSUME Reused = {}, Intruding = {}
  PROVE  Spec => []CurrentInv
<1>1. CurrentInv /\ [Next]_vars => CurrentInv'
  BY CurrentStep, Reused = {}, Intruding = {}
<1> QED  BY <1>1, CurrentInit, PTL DEF Spec

(* KeysFit, action by action.                                              *)
LEMMA WatchedStays ==
  ASSUME NEW t, NEW f, KeyIsWatched(t, f), UNCHANGED <<specs, change>>,
         clear[t] \subseteq clear'[t], robbed \subseteq robbed'
  PROVE  KeyIsWatched(t, f)'
  BY DEF KeyIsWatched

LEMMA FitsIf ==
  ASSUME \A u \in Thread : \A n \in DOMAIN stack'[u] : \A f :
           f = stack'[u][n] => KeyIsWatched(u, f)',
         \A u \in Thread : u \notin robbed' => misfit'[u] \subseteq clear'[u]
  PROVE  KeysFit'
  BY DEF KeysFit, KeyIsWatched

(* A call takes the requests; a computation that waited for one is robbed. *)
LEMMA DispatchFits ==
  ASSUME Intruding = {}, FitInv, NEW t \in Thread, NEW k \in Key, CallStep(t, k)
  PROVE  KeysFit'
<1>0. /\ CacheTypes /\ MetadataLocked /\ StoresCurrent /\ KeysFit /\ stack \in Stacks
      /\ clear \in [Thread -> SUBSET Gf] /\ misfit \in [Thread -> SUBSET Gf]
  BY DEF FitInv, CurrentInv, CacheTypes, TypeOK, Stacks
<1>1. /\ UNCHANGED <<specs, change>> /\ clear' = [clear EXCEPT ![t] = {}]
      /\ misfit' = [misfit EXCEPT ![t] = @ \ clear[t]]
      /\ robbed' \in {robbed, robbed \union {t}}
      /\ \A n \in DOMAIN stack[t] :
           stack[t][n].spec = NoValue /\ GfOf[stack[t][n].key] \in clear[t] => t \in robbed'
      /\ stack[t] # <<>> => Top(t).place = "computing"
  BY CallFacts, Intruding = {} DEF MayCall, TakeClears
<1>2. \A n \in DOMAIN stack[t] : stack[t][n].place = "computing"
  <2>1. CASE stack[t] = <<>>
    BY <2>1
  <2>2. CASE stack[t] # <<>>
    BY <1>0, <1>1, <2>2, TopFrame DEF StoresCurrent
  <2> QED  BY <2>1, <2>2
<1>3. \A n \in DOMAIN stack[t] : \A f : f = stack[t][n] => KeyIsWatched(t, f)'
  <2> SUFFICES ASSUME NEW n \in DOMAIN stack[t], NEW f, f = stack[t][n]
               PROVE  KeyIsWatched(t, f)'
    OBVIOUS
  <2>1. KeyIsWatched(t, f) /\ f.place = "computing"
    BY <1>0, <1>2 DEF KeysFit
  <2>2. f.spec = NoValue => t \in robbed'
    BY <1>1, <2>1 DEF KeyIsWatched
  <2> QED  BY <2>1, <2>2 DEF KeyIsWatched
<1>4. \A u \in Thread : u # t => clear'[u] = clear[u] /\ misfit'[u] = misfit[u]
  BY <1>0, <1>1
<1>5. \A u \in Thread : u \notin robbed' => misfit'[u] \subseteq clear'[u]
  <2> SUFFICES ASSUME NEW u \in Thread, u \notin robbed'
               PROVE  misfit'[u] \subseteq clear'[u]
    OBVIOUS
  <2>1. misfit[u] \subseteq clear[u]
    BY <1>0, <1>1 DEF KeysFit
  <2>2. CASE u = t
    BY <1>0, <1>1, <2>1, <2>2
  <2>3. CASE u # t
    BY <1>4, <2>1, <2>3
  <2> QED  BY <2>2, <2>3
<1>6. \A u \in Thread : u # t =>
        \A n \in DOMAIN stack[u] : \A f : f = stack[u][n] => KeyIsWatched(u, f)'
  <2> SUFFICES ASSUME NEW u \in Thread, u # t, NEW n \in DOMAIN stack[u], NEW f,
                      f = stack[u][n]
               PROVE  KeyIsWatched(u, f)'
    OBVIOUS
  <2>1. KeyIsWatched(u, f)
    BY <1>0 DEF KeysFit
  <2>2. robbed \subseteq robbed' /\ clear[u] \subseteq clear'[u]
    BY <1>1, <1>4
  <2> QED  BY <1>1, <2>1, <2>2, WatchedStays
<1>7. \/ stack' = stack
      \/ \E f \in Frame : /\ Push(t, f) /\ f.key = k /\ f.spec = specs[GfOf[k]]
                          /\ f.place \in {"missed", "chosen"}
  <2>1. PICK old : old = TakenTable(t)
    OBVIOUS
  <2> QED  BY <1>0, <2>1, DispatchFacts
<1>8. \A u \in Thread : \A n \in DOMAIN stack'[u] : \A x :
        x = stack'[u][n] => KeyIsWatched(u, x)'
  <2>1. CASE stack' = stack
    BY <1>3, <1>6, <2>1
  <2>2. ASSUME NEW f \in Frame, Push(t, f), f.key = k, f.spec = specs[GfOf[k]],
               f.place \in {"missed", "chosen"}
        PROVE  \A u \in Thread : \A n \in DOMAIN stack'[u] : \A x :
                 x = stack'[u][n] => KeyIsWatched(u, x)'
    <3>1. /\ DOMAIN stack'[t] = 1 .. Len(stack[t]) + 1
          /\ stack'[t][Len(stack[t]) + 1] = f
          /\ \A n \in 1 .. Len(stack[t]) : stack'[t][n] = stack[t][n]
          /\ \A u \in Thread : u # t => stack'[u] = stack[u]
      BY <1>0, <2>2, Pushed
    <3>2. Len(stack[t]) \in Nat /\ DOMAIN stack[t] = 1 .. Len(stack[t])
      BY <1>0 DEF Stacks
    <3>3. KeyIsWatched(t, f)'
      BY <1>1, <2>2 DEF KeyIsWatched
    <3> SUFFICES ASSUME NEW u \in Thread, NEW n \in DOMAIN stack'[u], NEW x, x = stack'[u][n]
                 PROVE  KeyIsWatched(u, x)'
      OBVIOUS
    <3>4. \/ n \in DOMAIN stack[u] /\ x = stack[u][n]
          \/ u = t /\ x = f
      BY <3>1, <3>2
    <3>5. CASE u = t /\ x = f
      BY <3>3, <3>5
    <3>6. CASE n \in DOMAIN stack[u] /\ x = stack[u][n]
      BY <1>3, <1>6, <3>6
    <3> QED  BY <3>4, <3>5, <3>6
  <2> QED  BY <1>7, <2>1, <2>2
<1> QED  BY <1>5, <1>8, FitsIf

(* The innermost call of a thread goes on.                                 *)
LEMMA TopFits ==
  ASSUME FitInv, NEW t \in Thread, stack[t] # <<>>, NEW f \in Frame, SetTop(t, f),
         UNCHANGED <<specs, change, clear, robbed>>, KeyIsWatched(t, f),
         \A u \in Thread : u \notin robbed => misfit'[u] \subseteq clear[u]
  PROVE  KeysFit'
<1>0. KeysFit /\ stack \in Stacks
  BY DEF FitInv, CurrentInv, CacheTypes, Stacks
<1>1. /\ DOMAIN stack'[t] = 1 .. Len(stack[t]) /\ stack'[t][Len(stack[t])] = f
      /\ \A n \in 1 .. Len(stack[t]) - 1 : stack'[t][n] = stack[t][n]
      /\ \A u \in Thread : u # t => stack'[u] = stack[u]
  BY <1>0, Topped
<1>2. Len(stack[t]) \in Nat \ {0} /\ DOMAIN stack[t] = 1 .. Len(stack[t])
  BY <1>0, TopFrame
<1>3. \A u \in Thread : \A n \in DOMAIN stack'[u] : \A x :
        x = stack'[u][n] => KeyIsWatched(u, x)'
  <2> SUFFICES ASSUME NEW u \in Thread, NEW n \in DOMAIN stack'[u], NEW x, x = stack'[u][n]
               PROVE  KeyIsWatched(u, x)'
    OBVIOUS
  <2>1. \/ n \in DOMAIN stack[u] /\ x = stack[u][n]
        \/ u = t /\ x = f
    BY <1>1, <1>2
  <2>2. KeyIsWatched(u, x)
    BY <1>0, <2>1 DEF KeysFit
  <2> QED  BY <2>2, WatchedStays
<1>4. \A u \in Thread : u \notin robbed' => misfit'[u] \subseteq clear'[u]
  OBVIOUS
<1> QED  BY <1>3, <1>4, FitsIf

(* The key of a missed call can be older than the list only while the      *)
(* request is on its way: the computation gets the lock after the change.  *)
LEMMA ComputeBeginFits ==
  ASSUME Intruding = {}, FitInv, NEW t \in Thread, ComputeBegin(t)
  PROVE  KeysFit'
<1>0. /\ CacheTypes /\ MetadataLocked /\ KeysFit /\ stack \in Stacks /\ stack[t] # <<>>
      /\ lock \in {NIL, t} /\ Top(t).place = "missed" /\ Computing(t) /\ NIL \notin Thread
      /\ UNCHANGED <<specs, change, clear, robbed, misfit>>
  BY GfunCacheAssumption DEF FitInv, CurrentInv, CacheTypes, Stacks, ComputeBegin
<1>1. PICK f \in Frame :
        /\ SetTop(t, f) /\ f.key = Top(t).key /\ f.place = "computing"
        /\ f.spec = NoValue => Top(t).spec # specs[GfOf[f.key]]
  BY <1>0, ComputingFrame
<1>2. /\ Top(t) = stack[t][Len(stack[t])] /\ Len(stack[t]) \in DOMAIN stack[t]
  BY <1>0, TopFrame
<1>3. KeyIsWatched(t, Top(t))
  BY <1>0, <1>2 DEF KeysFit
<1>4. ~(change.gf = GfOf[f.key] /\ change.todo = <<"clear">>)
  <2> SUFFICES ASSUME change.gf = GfOf[f.key], change.todo = <<"clear">> PROVE FALSE
    OBVIOUS
  <2>1. change # NoChange
    BY DEF NoChange
  <2>2. change.by = t
    BY <1>0, <2>1 DEF MetadataLocked
  <2>3. change.gf # GfOf[Top(t).key]
    BY <1>0, <1>2, <2>2, Intruding = {} DEF MetadataLocked
  <2> QED  BY <1>1, <2>3
<1>5. KeyIsWatched(t, f)
  BY <1>0, <1>1, <1>3, <1>4 DEF KeyIsWatched
<1>6. \A u \in Thread : u \notin robbed => misfit'[u] \subseteq clear[u]
  BY <1>0 DEF KeysFit
<1> QED  BY <1>0, <1>1, <1>5, <1>6, TopFits

LEMMA ComputeEndFits ==
  ASSUME FitInv, NEW t \in Thread, ComputeEnd(t)
  PROVE  KeysFit'
<1>0. /\ CacheTypes /\ KeysFit /\ stack \in Stacks /\ stack[t] # <<>>
      /\ Top(t).place = "computing" /\ UNCHANGED <<specs, change, clear, robbed, misfit>>
  BY DEF FitInv, CurrentInv, CacheTypes, Stacks, ComputeEnd
<1>1. PICK f \in Frame :
        /\ SetTop(t, f) /\ f.key = Top(t).key /\ f.spec = Top(t).spec
        /\ f.place = IF f.key \in Uncached THEN "chosen" ELSE "computed"
  BY <1>0, ComputedFrame
<1>2. KeyIsWatched(t, Top(t))
  BY <1>0, TopFrame DEF KeysFit
<1>3. KeyIsWatched(t, f)
  BY <1>0, <1>1, <1>2 DEF KeyIsWatched
<1>4. \A u \in Thread : u \notin robbed => misfit'[u] \subseteq clear[u]
  BY <1>0 DEF KeysFit
<1> QED  BY <1>0, <1>1, <1>3, <1>4, TopFits

LEMMA StoreFits ==
  ASSUME FitInv, NEW t \in Thread, Store(t)
  PROVE  KeysFit'
<1>0. /\ CacheTypes /\ KeysFit /\ stack \in Stacks /\ stack[t] # <<>>
      /\ Top(t).place = "computed" /\ UNCHANGED <<specs, change, clear, robbed>>
      /\ misfit \in [Thread -> SUBSET Gf]
  BY DEF FitInv, CurrentInv, CacheTypes, TypeOK, Stacks, Store
<1>1. PICK g \in Frame : g = Top(t)
  BY <1>0, TopFrame
<1>2. KeyIsWatched(t, g)
  BY <1>0, <1>1, TopFrame DEF KeysFit
<1>3. /\ g.spec = NoValue => GfOf[g.key] \in clear[t] \/ t \in robbed
      /\ misfit' = IF g.spec = NoValue THEN [misfit EXCEPT ![t] = @ \union {GfOf[g.key]}]
                                      ELSE misfit
  BY <1>0, <1>1, <1>2 DEF KeyIsWatched, Store
<1>4. \A u \in Thread : u \notin robbed => misfit'[u] \subseteq clear[u]
  BY <1>0, <1>3 DEF KeysFit
<1>5. CASE stack' = stack
  <2>1. \A u \in Thread : \A n \in DOMAIN stack[u] : KeyIsWatched(u, stack[u][n])
    BY <1>0 DEF KeysFit
  <2> QED  BY <1>0, <1>4, <1>5, <2>1 DEF KeysFit, KeyIsWatched
<1>6. CASE SetTop(t, [g EXCEPT !.place = "chosen"])
  <2>1. PICK f : f = [g EXCEPT !.place = "chosen"] /\ SetTop(t, f)
    BY <1>6
  <2>2. f \in Frame /\ f.place = "chosen"
    BY <2>1 DEF Frame
  <2>3. KeyIsWatched(t, f)
    BY <2>2 DEF KeyIsWatched
  <2> QED  BY <1>0, <1>4, <2>1, <2>2, <2>3, TopFits
<1>7. stack' = stack \/ SetTop(t, [g EXCEPT !.place = "chosen"])
  BY <1>1 DEF Store
<1> QED  BY <1>5, <1>6, <1>7

LEMMA PopFits ==
  ASSUME FitInv, NEW t \in Thread, CallMethod(t) \/ ComputeFails(t)
  PROVE  KeysFit'
<1>0. /\ KeysFit /\ stack \in Stacks /\ stack[t] # <<>> /\ Pop(t)
      /\ UNCHANGED <<specs, change, clear, robbed, misfit>>
  BY DEF FitInv, CurrentInv, CacheTypes, Stacks, CallMethod, ComputeFails
<1>1. /\ DOMAIN stack'[t] = 1 .. Len(stack[t]) - 1
      /\ \A n \in 1 .. Len(stack[t]) - 1 : stack'[t][n] = stack[t][n]
      /\ \A u \in Thread : u # t => stack'[u] = stack[u]
  BY <1>0, Popped
<1>2. Len(stack[t]) \in Nat \ {0} /\ DOMAIN stack[t] = 1 .. Len(stack[t])
  BY <1>0, TopFrame
<1>3. \A u \in Thread : \A n \in DOMAIN stack'[u] :
        n \in DOMAIN stack[u] /\ stack'[u][n] = stack[u][n]
  BY <1>1, <1>2
<1>4. \A u \in Thread : \A n \in DOMAIN stack[u] : KeyIsWatched(u, stack[u][n])
  BY <1>0 DEF KeysFit
<1> QED  BY <1>0, <1>3, <1>4 DEF KeysFit, KeyIsWatched

(* A new spec list: the requests come before the change is over.           *)
LEMMA ChangeFits ==
  ASSUME FitInv, NEW t \in Thread, ChangeStep(t)
  PROVE  KeysFit'
<1>0. /\ CacheTypes /\ MetadataLocked /\ KeysFit /\ stack \in Stacks
      /\ specs \in [Gf -> Nat] /\ clear \in [Thread -> SUBSET Gf]
      /\ \A u \in Thread : stack[u] # <<>> => life[u] = "listed"
  BY DEF FitInv, CurrentInv, CacheTypes, TypeOK, Stacks
<1>1. PICK h \in Gf, todo \in Rests, step \in Steps, rest \in Rests \union {<<>>} :
        /\ change = [by |-> t, gf |-> h, todo |-> todo]
        /\ step = Head(todo) /\ rest = Tail(todo) /\ StepOf(todo, step, rest)
        /\ clear' = IF step = "clear"
                      THEN [u \in Thread |-> IF life[u] = "listed" THEN clear[u] \union {h}
                                                                 ELSE clear[u]]
                      ELSE clear
        /\ specs' = IF step = "respec" THEN [specs EXCEPT ![h] = @ + 1] ELSE specs
        /\ rest # <<>> => change' = [by |-> t, gf |-> h, todo |-> rest]
        /\ UNCHANGED <<stack, misfit, robbed>>
  BY <1>0, ChangeFacts
<1>2. \A u \in Thread : clear[u] \subseteq clear'[u]
  BY <1>0, <1>1
<1>3. ASSUME NEW u \in Thread, NEW n \in DOMAIN stack[u], NEW f, f = stack[u][n]
      PROVE  KeyIsWatched(u, f)'
  <2>1. KeyIsWatched(u, f) /\ f \in Frame /\ life[u] = "listed"
    BY <1>0, <1>3 DEF KeysFit, Stacks
  <2>2. PICK g \in Gf : g = GfOf[f.key]
    BY <2>1, MethodHashAssumption DEF Frame
  <2>3. CASE f.place # "missed"
    BY <1>1, <1>2, <2>1, <2>3 DEF KeyIsWatched
  <2>4. CASE f.place = "missed"
    <3>1. f.spec = specs[g] \/ g \in clear[u] \/ (h = g /\ todo = <<"clear">>)
      BY <1>1, <2>1, <2>2, <2>4 DEF KeyIsWatched
    <3>2. \/ f.spec = specs'[g] \/ g \in clear'[u]
          \/ change'.gf = g /\ change'.todo = <<"clear">>
      <4>1. CASE g \in clear[u]
        BY <1>2, <4>1
      <4>2. CASE h = g /\ step = "clear"
        BY <1>1, <2>1, <4>2
      <4>3. CASE h = g /\ step = "respec"
        <5>1. rest = <<"clear">>
          BY <1>1, <4>3 DEF StepOf
        <5>2. <<"clear">> # <<>>
          OBVIOUS
        <5>3. change' = [by |-> t, gf |-> h, todo |-> rest]
          BY <1>1, <5>1, <5>2
        <5>4. change'.gf = h /\ change'.todo = rest
          BY <5>3
        <5> QED  BY <4>3, <5>1, <5>4
      <4>4. CASE h # g \/ step \notin {"clear", "respec"}
        <5>1. specs'[g] = specs[g]
          BY <1>0, <1>1, <4>4
        <5>2. ~(h = g /\ todo = <<"clear">>)
          BY <1>1, <4>4 DEF StepOf
        <5> QED  BY <1>2, <3>1, <5>1, <5>2
      <4> QED  BY <4>2, <4>3, <4>4
    <3> QED  BY <2>2, <2>4, <3>2 DEF KeyIsWatched
  <2> QED  BY <2>3, <2>4
<1>4. \A u \in Thread : u \notin robbed => misfit[u] \subseteq clear[u]
  BY <1>0 DEF KeysFit
<1>5. \A u \in Thread : \A n \in DOMAIN stack'[u] : \A f :
        f = stack'[u][n] => KeyIsWatched(u, f)'
  BY <1>1, <1>3
<1>6. \A u \in Thread : u \notin robbed' => misfit'[u] \subseteq clear'[u]
  BY <1>1, <1>2, <1>4
<1> QED  BY <1>5, <1>6, FitsIf

LEMMA FitStep ==
  ASSUME Reused = {}, Intruding = {}
  PROVE  FitInv /\ [Next]_vars => FitInv'
<1> SUFFICES ASSUME FitInv, [Next]_vars PROVE FitInv'
  OBVIOUS
<1>0. CurrentInv /\ KeysFit /\ CacheTypes /\ MetadataLocked
  BY DEF FitInv, CurrentInv
<1>1. CurrentInv'
  BY <1>0, CurrentStep, Reused = {}, Intruding = {}
<1> SUFFICES KeysFit'
  BY <1>1 DEF FitInv
<1>2. \A u \in Thread : \A n \in DOMAIN stack[u] : KeyIsWatched(u, stack[u][n])
  BY <1>0 DEF KeysFit
<1>3. CASE UNCHANGED vars
  BY <1>0, <1>3 DEF vars, KeysFit, KeyIsWatched
<1>4. CASE Next
  <2> PICK t \in Thread :
        \/ StartThread(t) \/ EndThread(t)
        \/ \E k \in Key : CallStep(t, k)
        \/ ComputeBegin(t) \/ ComputeEnd(t) \/ ComputeFails(t) \/ Store(t) \/ CallMethod(t)
        \/ \E g \in Changing, plan \in Plans : BeginChange(t, g, plan)
        \/ ChangeStep(t)
    BY <1>4, NextIs
  <2>1. CASE StartThread(t)
    BY <1>0, <2>1 DEF StartThread, KeysFit, KeyIsWatched
  <2>2. CASE EndThread(t)
    <3>1. /\ UNCHANGED <<stack, specs, change, robbed>> /\ stack[t] = <<>>
          /\ clear' = [clear EXCEPT ![t] = {}] /\ misfit' = [misfit EXCEPT ![t] = {}]
      BY <2>2, Reused = {} DEF EndThread
    <3>2. /\ clear'[t] = {} /\ misfit'[t] = {}
          /\ \A u \in Thread : u # t => clear'[u] = clear[u] /\ misfit'[u] = misfit[u]
      BY <1>0, <3>1 DEF CacheTypes, TypeOK
    <3>3. \A u \in Thread : u \notin robbed => misfit'[u] \subseteq clear'[u]
      BY <1>0, <3>2 DEF KeysFit
    <3>4. \A u \in Thread : \A n \in DOMAIN stack'[u] : \A f :
            f = stack'[u][n] => KeyIsWatched(u, f)'
      <4> SUFFICES ASSUME NEW u \in Thread, NEW n \in DOMAIN stack[u], NEW f, f = stack[u][n]
                   PROVE  KeyIsWatched(u, f)'
        BY <3>1
      <4>1. u # t
        BY <3>1
      <4>2. KeyIsWatched(u, f)
        BY <1>2
      <4> QED  BY <3>1, <3>2, <4>1, <4>2, WatchedStays
    <3>5. \A u \in Thread : u \notin robbed' => misfit'[u] \subseteq clear'[u]
      BY <3>1, <3>3
    <3> QED  BY <3>4, <3>5, FitsIf
  <2>3. ASSUME NEW k \in Key, CallStep(t, k) PROVE KeysFit'
    BY <2>3, DispatchFits, Intruding = {}
  <2>4. CASE ComputeBegin(t) \/ ComputeEnd(t) \/ ComputeFails(t) \/ Store(t) \/ CallMethod(t)
    BY <2>4, ComputeBeginFits, ComputeEndFits, StoreFits, PopFits, Intruding = {}
  <2>5. ASSUME NEW g \in Changing, NEW plan \in Plans, BeginChange(t, g, plan) PROVE KeysFit'
    <3>1. /\ UNCHANGED <<stack, specs, clear, misfit, robbed>>
          /\ change = NoChange
      BY <1>0, <2>5, GfunCacheAssumption DEF BeginChange, MetadataLocked
    <3>2. change.todo # <<"clear">>
      BY <3>1 DEF NoChange
    <3> QED  BY <1>0, <3>1, <3>2 DEF KeysFit, KeyIsWatched
  <2>6. CASE ChangeStep(t)
    BY <2>6, ChangeFits
  <2> QED  BY <2>1, <2>2, <2>3, <2>4, <2>5, <2>6
<1> QED  BY <1>3, <1>4

(* Where no thread object is used twice and no interrupt function calls    *)
(* generic functions, a cached effective method is the one that counts, or *)
(* the thread has a request to clear it that it reads before it looks; and *)
(* unless a call inside a computation has taken such a request, it is      *)
(* under a key of the spec list with which it was computed.                *)
THEOREM CachesAreCurrent ==
  ASSUME Reused = {}, Intruding = {}
  PROVE  Spec => []CacheIsCurrent
<1>1. FitInv /\ [Next]_vars => FitInv'
  BY FitStep, Reused = {}, Intruding = {}
<1>2. Init => FitInv
  <2> SUFFICES ASSUME Init PROVE KeysFit
    BY CurrentInit DEF FitInv
  <2> QED  BY DEF Init, KeysFit
<1>3. FitInv => CacheIsCurrent
  BY DEF FitInv, CurrentInv, KeysFit, CacheIsCurrent, KeysAreCurrent
<1> QED  BY <1>1, <1>2, <1>3, PTL DEF Spec
-----------------------------------------------------------------------------
(* Every cached method is found.                                           *)

(* Threads for which it is not claimed.                                    *)
Strays == strayed \union Intruding

(* A call that will store its method in its record.                        *)
Waits(f) == f.place # "chosen" /\ f.key \notin Uncached

Tells(s) == \A m, n \in DOMAIN s : s[m].key = s[n].key => m = n

Finds(tbl, s) ==
  /\ Reachable(tbl)
  /\ \A n \in DOMAIN s : Waits(s[n]) => Awaited(tbl, s[n])

(* FindInv, with its parts named.                                          *)
LEMMA FindInvIs ==
  FindInv <=> /\ CacheTypes
              /\ \A t \in Thread \ Intruding : Tells(stack[t])
              /\ \A t \in Thread \ Strays : Finds(table[t], stack[t])
  BY DEF FindInv, Tells, Finds, Waits, Strays

(* A table in which records are deleted but none is made empty leads to    *)
(* what is left as before.                                                 *)
LEMMA ThinsLeads ==
  ASSUME NEW new, NEW old, Thins(new, old), NEW k \in Key, NEW i \in Records,
         Leads(old, k, i)
  PROVE  Leads(new, k, i)
<1>1. PICK n \in 1 .. Probes :
        Path(k, n) = i /\ \A m \in 1 .. n - 1 : ~Empty(old[Path(k, m)])
  BY DEF Leads
<1>2. ASSUME NEW m \in 1 .. n - 1 PROVE ~Empty(new[Path(k, m)])
  <2>1. m \in 1 .. Probes
    BY MethodHashAssumption
  <2>2. Path(k, m) \in Records
    BY <2>1, PathIsRecord
  <2> QED  BY <1>1, <2>2 DEF Thins
<1> QED  BY <1>1, <1>2 DEF Leads

(* A table with fewer keys and no more empty records is searched as well.  *)
LEMMA ThinsReachable ==
  ASSUME NEW new, NEW old \in [Records -> Record], Thins(new, old), Reachable(old)
  PROVE  Reachable(new)
<1>1. ASSUME NEW i \in Records, new[i].key # NoKey PROVE Leads(new, new[i].key, i)
  <2>1. new[i].key = old[i].key /\ old[i].key \in Key
    BY <1>1 DEF Thins, Record
  <2>2. Leads(old, old[i].key, i)
    BY <1>1, <2>1 DEF Reachable
  <2> QED  BY <2>1, <2>2, ThinsLeads
<1>2. ASSUME NEW i \in Records, NEW j \in Records, new[i].key # NoKey,
             new[i].key = new[j].key
      PROVE  i = j
  <2>1. new[i].key = old[i].key /\ new[j].key = old[j].key
    BY <1>2 DEF Thins
  <2> QED  BY <1>2, <2>1 DEF Reachable
<1> QED  BY <1>1, <1>2 DEF Reachable

LEMMA ThinsAwaited ==
  ASSUME NEW new, NEW old, Thins(new, old), NEW f \in Frame, Awaited(old, f)
  PROVE  Awaited(new, f)
<1>0. f.key \in Key /\ f.key # NoKey
  BY MethodHashAssumption DEF Frame
<1>1. f.record \in Records
  BY <1>0, PathIsRecord DEF Awaited, Leads
<1>2. Leads(new, f.key, f.record)
  BY <1>0, <1>1, ThinsLeads DEF Awaited
<1> QED  BY <1>0, <1>2 DEF Awaited, Thins

LEMMA ThinsFinds ==
  ASSUME NEW new, NEW old \in [Records -> Record], Thins(new, old),
         NEW s \in Seq(Frame), Finds(old, s)
  PROVE  Finds(new, s)
<1>1. Reachable(new)
  BY ThinsReachable DEF Finds
<1>2. ASSUME NEW n \in DOMAIN s, Waits(s[n]) PROVE Awaited(new, s[n])
  <2>1. PICK f \in Frame : f = s[n]
    OBVIOUS
  <2>2. Awaited(old, f)
    BY <1>2, <2>1 DEF Finds
  <2> QED  BY <2>1, <2>2, ThinsAwaited
<1> QED  BY <1>1, <1>2 DEF Finds

(* A method is stored in a free record to which the path of its key leads. *)
LEMMA StoredFinds ==
  ASSUME NEW old \in [Records -> Record], NEW e \in Records, NEW r \in Record,
         r.key \in Key, Leads(old, r.key, e), \A i \in Records : old[i].key # r.key,
         NEW s \in Seq(Frame), Finds(old, s),
         NEW new, new = [old EXCEPT ![e] = r],
         \A n \in DOMAIN s : Waits(s[n]) => s[n].key # r.key
  PROVE  Finds(new, s)
<1>1. /\ new[e] = r /\ \A i \in Records : i # e => new[i] = old[i]
      /\ \A i \in Records : Empty(new[i]) => Empty(old[i])
  BY MethodHashAssumption DEF Empty
<1>2. ASSUME NEW k \in Key, NEW i \in Records, Leads(old, k, i)
      PROVE  Leads(new, k, i)
  <2>1. PICK n \in 1 .. Probes :
          Path(k, n) = i /\ \A m \in 1 .. n - 1 : ~Empty(old[Path(k, m)])
    BY <1>2 DEF Leads
  <2>2. ASSUME NEW m \in 1 .. n - 1 PROVE ~Empty(new[Path(k, m)])
    <3>1. m \in 1 .. Probes
      BY MethodHashAssumption
    <3>2. Path(k, m) \in Records
      BY <3>1, PathIsRecord
    <3> QED  BY <1>1, <2>1, <3>2
  <2> QED  BY <2>1, <2>2 DEF Leads
<1>3. Reachable(new)
  <2>1. ASSUME NEW i \in Records, new[i].key # NoKey PROVE Leads(new, new[i].key, i)
    <3>1. CASE i = e
      BY <1>1, <1>2, <3>1
    <3>2. CASE i # e
      <4>1. new[i] = old[i] /\ old[i].key \in Key
        BY <1>1, <2>1, <3>2 DEF Record
      <4>2. Leads(old, old[i].key, i)
        BY <2>1, <4>1 DEF Finds, Reachable
      <4> QED  BY <1>2, <4>1, <4>2
    <3> QED  BY <3>1, <3>2
  <2>2. ASSUME NEW i \in Records, NEW j \in Records, new[i].key # NoKey,
               new[i].key = new[j].key
        PROVE  i = j
    BY <1>1, <2>2 DEF Finds, Reachable
  <2> QED  BY <2>1, <2>2 DEF Reachable
<1>4. ASSUME NEW n \in DOMAIN s, Waits(s[n]) PROVE Awaited(new, s[n])
  <2>1. PICK f \in Frame : f = s[n]
    OBVIOUS
  <2>2. Awaited(old, f) /\ f.key # r.key
    BY <1>4, <2>1 DEF Finds
  <2>3. Leads(new, f.key, f.record)
    <3>1. f.key \in Key
      BY DEF Frame
    <3>2. f.record \in Records
      BY <2>2, <3>1, PathIsRecord DEF Awaited, Leads
    <3> QED  BY <1>2, <2>2, <3>1, <3>2 DEF Awaited
  <2>4. \A i \in Records : new[i].key # f.key
    BY <1>1, <2>2 DEF Awaited
  <2> QED  BY <2>1, <2>3, <2>4 DEF Awaited
<1> QED  BY <1>3, <1>4 DEF Finds

(* FindInv, action by action.                                              *)
LEMMA FindInit == Init => FindInv
<1> SUFFICES ASSUME Init PROVE FindInv
  OBVIOUS
<1>1. \A t \in Thread : DOMAIN stack[t] = {} /\ table[t] = Cleared
  BY DEF Init
<1>2. Reachable(Cleared)
  BY ClearedTable DEF Reachable
<1> QED  BY <1>1, <1>2, BaseInit DEF FindInv

(* Nothing changes for the threads other than t.                           *)
LEMMA OthersFind ==
  ASSUME FindInv, CacheTypes', NEW t \in Thread, strayed \subseteq strayed',
         \A u \in Thread : u # t => table'[u] = table[u] /\ stack'[u] = stack[u],
         t \notin Intruding => Tells(stack'[t]),
         t \notin Strays' => Finds(table'[t], stack'[t])
  PROVE  FindInv'
<1>0. Strays \subseteq Strays'
  BY DEF Strays
<1>1. ASSUME NEW u \in Thread \ Intruding PROVE Tells(stack'[u])
  BY FindInvIs
<1>2. ASSUME NEW u \in Thread \ Strays' PROVE Finds(table'[u], stack'[u])
  BY <1>0, FindInvIs
<1>3. \A u \in Thread \ Intruding : Tells(stack[u])'
  BY <1>1 DEF Tells
<1>4. \A u \in Thread \ Strays' : Finds(table[u], stack[u])'
  BY <1>2 DEF Finds, Reachable, Awaited, Leads
<1> QED  BY <1>3, <1>4 DEF FindInv, Tells, Finds, Waits, Strays

LEMMA OwnFinds ==
  ASSUME FindInv, NEW t \in Thread
  PROVE  /\ CacheTypes /\ stack \in Stacks /\ stack[t] \in Seq(Frame)
         /\ table \in [Thread -> [Records -> Record]]
         /\ t \notin Intruding => Tells(stack[t])
         /\ t \notin Strays => Finds(table[t], stack[t])
  BY FindInvIs DEF CacheTypes, TypeOK, Stacks

LEMMA LifeFind ==
  ASSUME FindInv, CacheTypes', NEW t \in Thread, StartThread(t) \/ EndThread(t)
  PROVE  FindInv'
<1>0. /\ table \in [Thread -> [Records -> Record]]
      /\ (t \notin Intruding => Tells(stack[t])) /\ (t \notin Strays => Finds(table[t], stack[t]))
  BY OwnFinds
<1>1. /\ stack' = stack /\ strayed' = strayed /\ Strays' = Strays
      /\ \/ table' = table
         \/ stack[t] = <<>> /\ table' = [table EXCEPT ![t] = Cleared]
  BY DEF StartThread, EndThread, Strays
<1>2. \A u \in Thread : u # t => table'[u] = table[u]
  BY <1>0, <1>1
<1>3. CASE table' = table
  BY <1>0, <1>1, <1>3, OthersFind
<1>4. CASE stack[t] = <<>> /\ table' = [table EXCEPT ![t] = Cleared]
  <2>1. table'[t] = Cleared /\ DOMAIN stack[t] = {}
    BY <1>0, <1>4
  <2>2. Reachable(Cleared)
    BY ClearedTable DEF Reachable
  <2>3. Finds(table'[t], stack'[t])
    BY <1>1, <2>1, <2>2 DEF Finds
  <2> QED  BY <1>0, <1>1, <1>2, <2>3, OthersFind
<1> QED  BY <1>1, <1>3, <1>4

(* A call that misses finds no record of its key, and gets one to which    *)
(* the path of the key leads.                                              *)
LEMMA DispatchFind ==
  ASSUME FindInv, MetadataLocked, CacheTypes', NEW t \in Thread, NEW k \in Key,
         CallStep(t, k)
  PROVE  FindInv'
<1>0. /\ CacheTypes /\ stack \in Stacks /\ stack[t] \in Seq(Frame)
      /\ table \in [Thread -> [Records -> Record]]
      /\ (t \notin Intruding => Tells(stack[t])) /\ (t \notin Strays => Finds(table[t], stack[t]))
  BY OwnFinds
<1>1. /\ strayed' = strayed /\ Strays' = Strays
      /\ t \notin Intruding => \A n \in DOMAIN stack[t] : stack[t][n].key # k
  BY CallFacts DEF MayCall, Strays
<1>2. PICK old \in [Records -> Record] : old = TakenTable(t) /\ Thins(old, table[t])
  BY <1>0, OwnTable
<1>3. PICK new \in [Records -> Record] :
        /\ table' = [table EXCEPT ![t] = new] /\ Thins(new, old)
        /\ \/ stack' = stack
           \/ \E f \in Frame :
                /\ Push(t, f) /\ f.key = k
                /\ Waits(f) => ~Found(old, k) /\ Leads(old, k, f.record)
  BY <1>0, <1>2, DispatchFacts DEF Waits
<1>4. table'[t] = new /\ \A u \in Thread : u # t => table'[u] = table[u]
  BY <1>0, <1>3
<1>5. t \notin Strays => Reachable(old) /\ Finds(new, stack[t])
  <2>1. SUFFICES ASSUME t \notin Strays PROVE Reachable(old) /\ Finds(new, stack[t])
    OBVIOUS
  <2>2. PICK tbl \in [Records -> Record], s \in Seq(Frame) : tbl = table[t] /\ s = stack[t]
    BY <1>0
  <2>3. Finds(old, s)
    BY <1>0, <1>2, <2>1, <2>2, ThinsFinds
  <2>4. Finds(new, s)
    BY <1>3, <2>3, ThinsFinds
  <2> QED  BY <2>2, <2>3, <2>4 DEF Finds
<1>6. CASE stack' = stack
  BY <1>0, <1>1, <1>4, <1>5, <1>6, OthersFind
<1>7. ASSUME NEW f \in Frame, Push(t, f), f.key = k,
             Waits(f) => ~Found(old, k) /\ Leads(old, k, f.record)
      PROVE  FindInv'
  <2>1. /\ DOMAIN stack'[t] = 1 .. Len(stack[t]) + 1
        /\ stack'[t][Len(stack[t]) + 1] = f
        /\ \A n \in 1 .. Len(stack[t]) : stack'[t][n] = stack[t][n]
        /\ \A u \in Thread : u # t => stack'[u] = stack[u]
    BY <1>0, <1>7, Pushed
  <2>2. Len(stack[t]) \in Nat /\ DOMAIN stack[t] = 1 .. Len(stack[t])
    BY <1>0
  <2>3. \A n \in DOMAIN stack'[t] :
          \/ n \in DOMAIN stack[t] /\ stack'[t][n] = stack[t][n]
          \/ n = Len(stack[t]) + 1 /\ stack'[t][n] = f
    BY <2>1, <2>2
  <2>4. t \notin Intruding => Tells(stack'[t])
    BY <1>0, <1>1, <1>7, <2>3 DEF Tells
  <2>5. t \notin Strays /\ Waits(f) => Awaited(new, f)
    <3>1. SUFFICES ASSUME t \notin Strays, Waits(f) PROVE Awaited(new, f)
      OBVIOUS
    <3>2. \A i \in Records : old[i].key # k
      BY <1>5, <1>7, <3>1, LedIsFound
    <3>3. Awaited(old, f)
      BY <1>7, <3>1, <3>2 DEF Awaited
    <3> QED  BY <1>3, <3>3, ThinsAwaited
  <2>6. t \notin Strays => Finds(new, stack'[t])
    BY <1>5, <2>3, <2>5 DEF Finds
  <2> QED  BY <1>1, <1>4, <2>1, <2>4, <2>6, OthersFind
<1> QED  BY <1>3, <1>6, <1>7

(* The innermost call goes on, and awaits the same record.                 *)
LEMMA TopFind ==
  ASSUME FindInv, CacheTypes', NEW t \in Thread, stack[t] # <<>>, NEW f \in Frame,
         SetTop(t, f), f.key = Top(t).key, f.record = Top(t).record,
         strayed \subseteq strayed', \A u \in Thread : u # t => table'[u] = table[u],
         t \notin Strays' => \/ table'[t] = table[t] /\ Top(t).place # "chosen"
                             \/ Finds(table'[t], stack'[t])
  PROVE  FindInv'
<1>0. /\ CacheTypes /\ stack \in Stacks /\ stack[t] \in Seq(Frame)
      /\ (t \notin Intruding => Tells(stack[t])) /\ (t \notin Strays => Finds(table[t], stack[t]))
  BY OwnFinds
<1>1. /\ DOMAIN stack'[t] = 1 .. Len(stack[t])
      /\ stack'[t][Len(stack[t])] = f
      /\ \A n \in 1 .. Len(stack[t]) - 1 : stack'[t][n] = stack[t][n]
      /\ \A u \in Thread : u # t => stack'[u] = stack[u]
  BY <1>0, Topped
<1>2. /\ Len(stack[t]) \in Nat \ {0} /\ DOMAIN stack[t] = 1 .. Len(stack[t])
      /\ Top(t) = stack[t][Len(stack[t])]
  BY <1>0, TopFrame
<1>3. \A n \in DOMAIN stack'[t] :
        /\ n \in DOMAIN stack[t]
        /\ \/ n \in 1 .. Len(stack[t]) - 1 /\ stack'[t][n] = stack[t][n]
           \/ n = Len(stack[t]) /\ stack'[t][n] = f
  BY <1>1, <1>2
<1>4. t \notin Intruding => Tells(stack'[t])
  <2>1. \A n \in DOMAIN stack'[t] : n \in DOMAIN stack[t] /\ stack'[t][n].key = stack[t][n].key
    BY <1>2, <1>3
  <2> QED  BY <1>0, <2>1 DEF Tells
<1>5. t \notin Strays' => Finds(table'[t], stack'[t])
  <2>1. CASE t \notin Strays' /\ table'[t] = table[t] /\ Top(t).place # "chosen"
    <3>1. Finds(table[t], stack[t])
      BY <1>0, <2>1 DEF Strays
    <3>2. Waits(f) => Awaited(table[t], f)
      BY <1>2, <2>1, <3>1 DEF Finds, Awaited, Waits
    <3> QED  BY <1>3, <2>1, <3>1, <3>2 DEF Finds
  <2> QED  BY <2>1
<1> QED  BY <1>1, <1>4, <1>5, OthersFind

LEMMA ComputeFind ==
  ASSUME FindInv, CacheTypes', NEW t \in Thread, ComputeBegin(t) \/ ComputeEnd(t)
  PROVE  FindInv'
<1>0. CacheTypes /\ stack \in Stacks /\ table' = table /\ strayed' = strayed
  BY OwnFinds DEF ComputeBegin, ComputeEnd
<1>1. stack[t] # <<>> /\ Top(t).place # "chosen"
  BY DEF ComputeBegin, ComputeEnd
<1>2. PICK f \in Frame : SetTop(t, f) /\ f.key = Top(t).key /\ f.record = Top(t).record
  <2>1. CASE ComputeBegin(t)
    BY <1>0, <1>1, <2>1, ComputingFrame DEF ComputeBegin
  <2>2. CASE ComputeEnd(t)
    BY <1>0, <2>2, ComputedFrame
  <2> QED  BY <2>1, <2>2
<1> QED  BY <1>0, <1>1, <1>2, TopFind

(* The method is stored in the record that awaits it or, when that was     *)
(* taken meanwhile, in one that a search for the same key has freed.       *)
LEMMA StoreFind ==
  ASSUME FindInv, CacheTypes', NEW t \in Thread, Store(t)
  PROVE  FindInv'
<1>0. /\ CacheTypes /\ stack \in Stacks /\ stack[t] # <<>> /\ stack[t] \in Seq(Frame)
      /\ table \in [Thread -> [Records -> Record]] /\ strayed \subseteq strayed'
      /\ (t \notin Intruding => Tells(stack[t])) /\ (t \notin Strays => Finds(table[t], stack[t]))
  BY OwnFinds DEF Store
<1>1. PICK g : g = Top(t)
  OBVIOUS
<1>2. g \in Frame /\ g.place = "computed" /\ g.func \in Nat /\ g.key \in Key
  <2>1. CacheTypes
    BY <1>0
  <2>2. g \in Frame /\ g.place = "computed" /\ g.func \in Nat
    BY <1>1, <2>1, StoreFacts
  <2> QED  BY <2>2 DEF Frame
<1>3. /\ Len(stack[t]) \in Nat \ {0} /\ DOMAIN stack[t] = 1 .. Len(stack[t])
      /\ g = stack[t][Len(stack[t])]
  BY <1>0, <1>1, TopFrame
<1>4. CASE UNCHANGED <<table, gen, stack>>
  <2>1. t \notin Strays' => t \notin Strays
    BY <1>0 DEF Strays
  <2> QED  BY <1>0, <1>4, <2>1, OthersFind
<1>5. ASSUME NEW old \in [Records -> Record], NEW e \in Records, NEW r \in Record,
             table' = [table EXCEPT ![t] = [old EXCEPT ![e] = r]],
             Thins(old, table[t]), r.key = g.key, r.value = g.func,
             SetTop(t, [g EXCEPT !.place = "chosen"]),
             \/ old = table[t] /\ e = g.record /\ old[e].key = NoKey
             \/ t \in strayed'
             \/ Found(table[t], g.key)
             \/ Leads(table[t], g.key, e) /\ old[e].key = NoKey
      PROVE  FindInv'
  <2>1. PICK f : f = [g EXCEPT !.place = "chosen"] /\ SetTop(t, f)
    BY <1>5
  <2>2. f \in Frame /\ f.key = g.key /\ f.record = g.record /\ f.place = "chosen"
    BY <1>2, <2>1 DEF Frame
  <2>3. PICK new : new = [old EXCEPT ![e] = r]
    OBVIOUS
  <2>4. table'[t] = new /\ \A u \in Thread : u # t => table'[u] = table[u]
    BY <1>0, <1>5, <2>3
  <2>5. /\ stack' \in Stacks /\ DOMAIN stack'[t] = 1 .. Len(stack[t])
        /\ stack'[t][Len(stack[t])] = f
        /\ \A n \in 1 .. Len(stack[t]) - 1 : stack'[t][n] = stack[t][n]
    BY <1>0, <2>1, <2>2, Topped
  <2>6. PICK s \in Seq(Frame) : s = stack'[t]
    BY <2>5 DEF Stacks
  <2>7. \A n \in DOMAIN s : Waits(s[n]) =>
          n \in DOMAIN stack[t] /\ s[n] = stack[t][n] /\ n # Len(stack[t])
    BY <1>3, <2>2, <2>5, <2>6 DEF Waits
  <2>8. t \notin Intruding => \A n \in DOMAIN s : Waits(s[n]) => s[n].key # r.key
    BY <1>0, <1>3, <1>5, <2>7 DEF Tells
  <2>9. t \notin Strays' => Finds(new, s)
    <3> SUFFICES ASSUME t \notin Strays', t \notin Strays, t \notin strayed', t \notin Intruding
                 PROVE  Finds(new, s)
      BY <1>0 DEF Strays
    <3>1. PICK tbl \in [Records -> Record] : tbl = table[t]
      BY <1>0
    <3>2. Finds(tbl, stack[t]) /\ Awaited(tbl, g)
      <4>1. g.key \notin Uncached
        BY <1>0, <1>2, <1>3 DEF CacheTypes, Sound
      <4> QED  BY <1>0, <1>2, <1>3, <3>1, <4>1 DEF Finds, Waits
    <3>3. Leads(tbl, g.key, e)
      <4>1. ~Found(tbl, g.key)
        <5>1. Matching(tbl, g.key) = {}
          <6>1. ASSUME NEW n \in Matching(tbl, g.key) PROVE FALSE
            <7>1. n \in 1 .. Probes /\ tbl[Path(g.key, n)].key = g.key
              BY DEF Matching, Examined
            <7>2. Path(g.key, n) \in Records
              BY <1>2, <7>1, PathIsRecord
            <7> QED  BY <3>2, <7>1, <7>2 DEF Awaited
          <6> QED  BY <6>1
        <5> QED  BY <5>1 DEF Found
      <4> QED  BY <1>5, <3>1, <3>2, <4>1 DEF Awaited
    <3>4. Finds(tbl, s)
      BY <2>7, <3>2 DEF Finds
    <3>5. Finds(old, s)
      BY <1>5, <3>1, <3>4, ThinsFinds
    <3>6. Leads(old, r.key, e)
      BY <1>2, <1>5, <3>1, <3>3, ThinsLeads
    <3>7. \A i \in Records : old[i].key # r.key
      BY <1>2, <1>5, <3>1, <3>2, MethodHashAssumption DEF Awaited, Thins
    <3>8. r.key \in Key
      BY <1>2, <1>5
    <3> QED  BY <2>3, <2>8, <3>5, <3>6, <3>7, <3>8, StoredFinds
  <2> QED  BY <1>0, <1>1, <2>1, <2>2, <2>4, <2>6, <2>9, TopFind
<1>6. \/ UNCHANGED <<table, gen, stack>>
      \/ \E old \in [Records -> Record], e \in Records, r \in Record :
           /\ table' = [table EXCEPT ![t] = [old EXCEPT ![e] = r]]
           /\ Thins(old, table[t]) /\ r.key = g.key /\ r.value = g.func
           /\ SetTop(t, [g EXCEPT !.place = "chosen"])
           /\ \/ old = table[t] /\ e = g.record /\ old[e].key = NoKey
              \/ t \in strayed'
              \/ Found(table[t], g.key)
              \/ Leads(table[t], g.key, e) /\ old[e].key = NoKey
  <2>1. CacheTypes
    BY <1>0
  <2> QED  BY <1>1, <2>1, StoreFacts
<1> QED  BY <1>4, <1>5, <1>6

LEMMA PopFind ==
  ASSUME FindInv, CacheTypes', NEW t \in Thread, CallMethod(t) \/ ComputeFails(t)
  PROVE  FindInv'
<1>0. /\ CacheTypes /\ stack \in Stacks /\ stack[t] # <<>> /\ Pop(t)
      /\ table' = table /\ strayed' = strayed /\ Strays' = Strays
      /\ (t \notin Intruding => Tells(stack[t])) /\ (t \notin Strays => Finds(table[t], stack[t]))
  BY OwnFinds DEF CallMethod, ComputeFails, Strays
<1>1. /\ DOMAIN stack'[t] = 1 .. Len(stack[t]) - 1
      /\ \A n \in 1 .. Len(stack[t]) - 1 : stack'[t][n] = stack[t][n]
      /\ \A u \in Thread : u # t => stack'[u] = stack[u]
  BY <1>0, Popped
<1>2. Len(stack[t]) \in Nat \ {0} /\ DOMAIN stack[t] = 1 .. Len(stack[t])
  BY <1>0, TopFrame
<1>3. \A n \in DOMAIN stack'[t] : n \in DOMAIN stack[t] /\ stack'[t][n] = stack[t][n]
  BY <1>1, <1>2
<1>4. t \notin Intruding => Tells(stack'[t])
  BY <1>0, <1>3 DEF Tells
<1>5. t \notin Strays => Finds(table[t], stack'[t])
  BY <1>0, <1>3 DEF Finds
<1> QED  BY <1>0, <1>1, <1>4, <1>5, OthersFind

LEMMA FindStep == FindInv /\ MetadataLocked /\ [Next]_vars => FindInv'
<1> SUFFICES ASSUME FindInv, MetadataLocked, [Next]_vars PROVE FindInv'
  OBVIOUS
<1>1. CacheTypes'
  BY BaseStep DEF FindInv
<1>2. CASE UNCHANGED <<table, stack, strayed>>
  <2>1. CASE Thread = {}
    BY <1>1, <2>1 DEF FindInv
  <2>2. CASE Thread # {}
    <3>1. PICK t \in Thread : TRUE
      BY <2>2
    <3>2. /\ t \notin Intruding => Tells(stack[t])
          /\ t \notin Strays => Finds(table[t], stack[t])
      BY OwnFinds
    <3>3. Strays' = Strays
      BY <1>2 DEF Strays
    <3> QED  BY <1>1, <1>2, <3>2, <3>3, OthersFind
  <2> QED  BY <2>1, <2>2
<1>3. CASE UNCHANGED vars
  BY <1>2, <1>3 DEF vars
<1>4. CASE Next
  <2> PICK t \in Thread :
        \/ StartThread(t) \/ EndThread(t)
        \/ \E k \in Key : CallStep(t, k)
        \/ ComputeBegin(t) \/ ComputeEnd(t) \/ ComputeFails(t) \/ Store(t) \/ CallMethod(t)
        \/ \E g \in Changing, plan \in Plans : BeginChange(t, g, plan)
        \/ ChangeStep(t)
    BY <1>4, NextIs
  <2>1. ASSUME NEW g \in Changing, NEW plan \in Plans, BeginChange(t, g, plan)
        PROVE  FindInv'
    BY <1>2, <2>1 DEF BeginChange
  <2>2. CASE ChangeStep(t)
    BY <1>2, <2>2 DEF ChangeStep
  <2> QED  BY <1>1, <2>1, <2>2, LifeFind, DispatchFind, ComputeFind, StoreFind, PopFind
<1> QED  BY <1>3, <1>4

(* For all threads whose interrupt functions call no generic functions,    *)
(* reused ones too, and any table: a cached effective method is found by a *)
(* search for its key, in the one record that has the key, as long as its  *)
(* thread has not searched a record by a spec vector that an inner call    *)
(* has overwritten.                                                        *)
THEOREM CachedMethodsAreFound == Spec => []Findable
<1>1. FindInv => Findable
  <2> SUFFICES ASSUME FindInv, NEW t \in Thread \ Strays, NEW i \in Records,
                      table[t][i].key # NoKey
               PROVE  /\ Found(table[t], table[t][i].key)
                      /\ ChosenRecord(table[t], gen[t], table[t][i].key) = i
    BY DEF Findable, Strays
  <2>0. PICK tbl \in [Records -> Record] : tbl = table[t]
    BY OwnFinds
  <2>1. PICK k, g : tbl = table[t] /\ k = tbl[i].key /\ g = gen[t]
    BY <2>0
  <2>2. k \in Key
    BY <2>1 DEF Record
  <2>3. Reachable(tbl)
    BY <2>1, OwnFinds DEF Finds
  <2>4. Found(tbl, k) /\ ChosenRecord(tbl, g, k) = i
    BY <2>1, <2>2, <2>3, LedIsFound
  <2> QED  BY <2>1, <2>4
<1>2. Init => FindInv
  BY FindInit
<1>3. FindInv /\ (CacheTypes /\ MetadataLocked) /\ [Next]_vars => FindInv'
  BY FindStep
<1> QED  BY <1>1, <1>2, <1>3, MethodsAreLocked, PTL DEF Spec
-----------------------------------------------------------------------------
(* Callers see every change at one moment: GenericCall is implemented.     *)

Shown(f) == [key |-> f.key, since |-> f.since,
             chosen |-> IF f.place = "chosen" THEN f.func ELSE NoValue]

Shows == [key : Key, since : Nat, chosen : Nat \union {NoValue}]

ShownStack(s) == [n \in 1 .. Len(s) |-> Shown(s[n])]

(* What the refinement mapping shows of a stack of calls follows the       *)
(* stack.                                                                  *)
LEMMA ShownFrame == \A f \in Frame : Shown(f) \in Shows
  BY DEF Frame, Shown, Shows

LEMMA ShownIs ==
  ASSUME NEW s \in Seq(Frame)
  PROVE  /\ ShownStack(s) \in Seq(Shows) /\ Len(ShownStack(s)) = Len(s)
         /\ Len(s) \in Nat /\ \A n \in 1 .. Len(s) : ShownStack(s)[n] = Shown(s[n])
<1>1. \A n \in 1 .. Len(s) : s[n] \in Frame
  OBVIOUS
<1> QED  BY <1>1, ShownFrame DEF ShownStack

LEMMA ShownPushed ==
  ASSUME NEW s \in Seq(Frame), NEW f \in Frame
  PROVE  ShownStack(Append(s, f)) = Append(ShownStack(s), Shown(f))
<1>1. PICK a : a = Append(s, f)
  OBVIOUS
<1>2. /\ a \in Seq(Frame) /\ Len(a) = Len(s) + 1 /\ a[Len(s) + 1] = f
      /\ \A n \in 1 .. Len(s) : a[n] = s[n]
  BY <1>1
<1>3. PICK q \in Seq(Shows) : /\ q = ShownStack(s) /\ Len(q) = Len(s) /\ Len(s) \in Nat
                              /\ \A n \in 1 .. Len(s) : q[n] = Shown(s[n])
  BY ShownIs
<1>4. PICK r \in Seq(Shows) : /\ r = ShownStack(a) /\ Len(r) = Len(s) + 1
                              /\ \A n \in 1 .. Len(s) + 1 : r[n] = Shown(a[n])
  BY <1>2, ShownIs
<1>5. PICK x \in Shows : x = Shown(f)
  BY ShownFrame
<1>6. /\ Append(q, x) \in Seq(Shows) /\ Len(Append(q, x)) = Len(s) + 1
      /\ Append(q, x)[Len(s) + 1] = x
      /\ \A n \in 1 .. Len(s) : Append(q, x)[n] = q[n]
  BY <1>3
<1>7. ASSUME NEW n \in 1 .. Len(s) + 1 PROVE r[n] = Append(q, x)[n]
  <2>1. CASE n = Len(s) + 1
    BY <1>2, <1>4, <1>5, <1>6, <2>1
  <2>2. CASE n # Len(s) + 1
    <3>1. n \in 1 .. Len(s)
      BY <1>3, <2>2
    <3> QED  BY <1>2, <1>3, <1>4, <1>6, <3>1
  <2> QED  BY <2>1, <2>2
<1>8. r = Append(q, x)
  BY <1>4, <1>6, <1>7, SeqEqual
<1> QED  BY <1>1, <1>3, <1>4, <1>5, <1>8

LEMMA ShownTopped ==
  ASSUME NEW s \in Seq(Frame), s # <<>>, NEW f \in Frame
  PROVE  ShownStack([s EXCEPT ![Len(s)] = f])
           = [ShownStack(s) EXCEPT ![Len(ShownStack(s))] = Shown(f)]
<1>0. Len(s) \in 1 .. Len(s)
  OBVIOUS
<1>1. PICK a : a = [s EXCEPT ![Len(s)] = f]
  OBVIOUS
<1>2. /\ a \in Seq(Frame) /\ Len(a) = Len(s)
      /\ \A n \in 1 .. Len(s) : a[n] = IF n = Len(s) THEN f ELSE s[n]
  BY <1>0, <1>1, ExceptSeq
<1>3. PICK q \in Seq(Shows) : /\ q = ShownStack(s) /\ Len(q) = Len(s)
                              /\ \A n \in 1 .. Len(s) : q[n] = Shown(s[n])
  BY ShownIs
<1>4. PICK r \in Seq(Shows) : /\ r = ShownStack(a) /\ Len(r) = Len(s)
                              /\ \A n \in 1 .. Len(s) : r[n] = Shown(a[n])
  BY <1>2, ShownIs
<1>5. PICK x \in Shows : x = Shown(f)
  BY ShownFrame
<1>6. PICK b : b = [q EXCEPT ![Len(q)] = x]
  OBVIOUS
<1>7. /\ b \in Seq(Shows) /\ Len(b) = Len(s)
      /\ \A n \in 1 .. Len(s) : b[n] = IF n = Len(s) THEN x ELSE q[n]
  BY <1>0, <1>3, <1>6, ExceptSeq
<1>8. \A n \in 1 .. Len(s) : r[n] = b[n]
  BY <1>2, <1>3, <1>4, <1>5, <1>7
<1>9. r = b
  BY <1>4, <1>7, <1>8, SeqEqual
<1> QED  BY <1>1, <1>3, <1>4, <1>5, <1>6, <1>9

LEMMA ShownPopped ==
  ASSUME NEW s \in Seq(Frame), s # <<>>
  PROVE  ShownStack(SubSeq(s, 1, Len(s) - 1))
           = SubSeq(ShownStack(s), 1, Len(ShownStack(s)) - 1)
<1>0. PICK m \in Nat : m = Len(s) - 1
  OBVIOUS
<1>1. PICK q \in Seq(Shows) : /\ q = ShownStack(s) /\ Len(q) = Len(s)
                              /\ \A n \in 1 .. Len(s) : q[n] = Shown(s[n])
  BY ShownIs
<1>2. PICK a : a = SubSeq(s, 1, m)
  OBVIOUS
<1>3. a \in Seq(Frame) /\ Len(a) = m /\ \A n \in 1 .. m : a[n] = s[n]
  BY <1>0, <1>2
<1>4. PICK r \in Seq(Shows) : /\ r = ShownStack(a) /\ Len(r) = m
                              /\ \A n \in 1 .. m : r[n] = Shown(a[n])
  BY <1>3, ShownIs
<1>5. PICK b : b = SubSeq(q, 1, m)
  OBVIOUS
<1>6. b \in Seq(Shows) /\ Len(b) = m /\ \A n \in 1 .. m : b[n] = q[n]
  BY <1>0, <1>1, <1>5
<1>7. \A n \in 1 .. m : r[n] = b[n] /\ n \in 1 .. Len(s)
  BY <1>0, <1>1, <1>3, <1>4, <1>6
<1>8. r = b
  BY <1>4, <1>6, <1>7, SeqEqual
<1> QED  BY <1>0, <1>1, <1>2, <1>4, <1>5, <1>8

Versions == [g \in Gf |-> Current(g)]
Calls == [t \in Thread |-> ShownStack(stack[t])]

(* What the abstract specification says in these terms.                    *)
LEMMA AbstractStutter ==
  ASSUME Versions' = Versions, Calls' = Calls
  PROVE  UNCHANGED Abstract!vars
  BY DEF Versions, Calls, ShownStack, Shown, Abstract!vars

(* The initial state and the actions of GenericCall, by what they do to    *)
(* the mapped variables.                                                   *)
LEMMA AbstractInit == Init => Abstract!Init
<1> SUFFICES ASSUME Init PROVE Abstract!Init
  OBVIOUS
<1>1. \A g \in Gf : Current(g) = 0
  <2>1. change.todo = <<>> /\ \A g \in Gf : methods[g] = 0
    BY DEF Init, NoChange
  <2> QED  BY <2>1, NothingInserted DEF Current
<1>2. \A t \in Thread : stack[t] = <<>>
  BY DEF Init
<1>3. \A t \in Thread : ShownStack(stack[t]) = <<>>
  BY <1>2 DEF ShownStack
<1>4. Versions = [g \in Gf |-> 0] /\ Calls = [t \in Thread |-> <<>>]
  BY <1>1, <1>3 DEF Versions, Calls
<1> QED  BY <1>4 DEF Versions, Calls, ShownStack, Shown, Abstract!Init

LEMMA AbstractCall ==
  ASSUME NEW t \in Thread, NEW k \in Key, Versions' = Versions,
         NEW v, v = NoValue \/ v = Versions[GfOf[k]],
         Calls' = [Calls EXCEPT ![t] =
           Append(Calls[t], [key |-> k, since |-> Versions[GfOf[k]], chosen |-> v])]
  PROVE  Abstract!Next
<1>1. Abstract!Call(t, k)
  BY DEF Abstract!Call, Versions, Calls, ShownStack, Shown
<1> QED  BY <1>1 DEF Abstract!Next

LEMMA AbstractChoose ==
  ASSUME NEW t \in Thread, Versions' = Versions, Calls[t] # <<>>,
         NEW last, last = Calls[t][Len(Calls[t])], last.chosen = NoValue,
         NEW v \in last.since .. Versions[GfOf[last.key]],
         Calls' = [Calls EXCEPT ![t] =
           [Calls[t] EXCEPT ![Len(Calls[t])] = [last EXCEPT !.chosen = v]]]
  PROVE  Abstract!Next
<1>1. Abstract!Last(t) = last
  BY DEF Abstract!Last, Calls, ShownStack, Shown
<1>2. Abstract!Choose(t)
  BY <1>1 DEF Abstract!Choose, Versions, Calls, ShownStack, Shown
<1> QED  BY <1>2 DEF Abstract!Next

LEMMA AbstractReturn ==
  ASSUME NEW t \in Thread, Versions' = Versions, Calls[t] # <<>>,
         Calls[t][Len(Calls[t])].chosen # NoValue,
         Calls' = [Calls EXCEPT ![t] = SubSeq(Calls[t], 1, Len(Calls[t]) - 1)]
  PROVE  Abstract!Next
<1>1. Abstract!Last(t) = Calls[t][Len(Calls[t])]
  BY DEF Abstract!Last, Calls, ShownStack, Shown
<1>2. Abstract!Return(t)
  BY <1>1 DEF Abstract!Return, Versions, Calls, ShownStack, Shown
<1> QED  BY <1>2 DEF Abstract!Next

LEMMA AbstractFail ==
  ASSUME NEW t \in Thread, Versions' = Versions, Calls[t] # <<>>,
         Calls[t][Len(Calls[t])].chosen = NoValue,
         Calls' = [Calls EXCEPT ![t] = SubSeq(Calls[t], 1, Len(Calls[t]) - 1)]
  PROVE  Abstract!Next
<1>1. Abstract!Last(t) = Calls[t][Len(Calls[t])]
  BY DEF Abstract!Last, Calls, ShownStack, Shown
<1>2. Abstract!Fail(t)
  BY <1>1 DEF Abstract!Fail, Versions, Calls, ShownStack, Shown
<1> QED  BY <1>2 DEF Abstract!Next

LEMMA AbstractChange ==
  ASSUME NEW h \in Gf, Versions' = [Versions EXCEPT ![h] = Versions[h] + 1], Calls' = Calls
  PROVE  Abstract!Next
<1>1. Abstract!Change(h)
  BY DEF Abstract!Change, Versions, Calls, ShownStack, Shown
<1> QED  BY <1>1 DEF Abstract!Next

(* How a step shows in the calls of thread t.                              *)
LEMMA CallsStay ==
  ASSUME stack' = stack
  PROVE  Calls' = Calls
  BY DEF Calls, ShownStack, Shown

(* The mapped variables, by what the steps do to methods and stacks.       *)
LEMMA VersionsStay ==
  ASSUME \A g \in Gf : Current(g)' = Current(g)
  PROVE  Versions' = Versions
  BY DEF Versions

LEMMA CallsPushed ==
  ASSUME stack \in Stacks, NEW t \in Thread, NEW f \in Frame, Push(t, f)
  PROVE  Calls' = [Calls EXCEPT ![t] = Append(Calls[t], Shown(f))]
<1>1. PICK s \in Seq(Frame) : s = stack[t]
  BY DEF Stacks
<1>2. stack' = [stack EXCEPT ![t] = Append(s, f)]
  BY <1>1 DEF Push
<1>3. \A u \in Thread : stack'[u] = IF u = t THEN Append(s, f) ELSE stack[u]
  BY <1>2 DEF Stacks
<1>4. Calls' = [u \in Thread |-> ShownStack(stack'[u])]
  BY DEF Calls, ShownStack, Shown
<1>5. ShownStack(Append(s, f)) = Append(ShownStack(s), Shown(f))
  BY ShownPushed
<1> QED  BY <1>1, <1>3, <1>4, <1>5 DEF Calls

LEMMA CallsTopped ==
  ASSUME stack \in Stacks, NEW t \in Thread, stack[t] # <<>>, NEW f \in Frame, SetTop(t, f)
  PROVE  Calls' = [Calls EXCEPT ![t] = [Calls[t] EXCEPT ![Len(Calls[t])] = Shown(f)]]
<1>1. PICK s \in Seq(Frame) : s = stack[t]
  BY DEF Stacks
<1>2. PICK new : new = [s EXCEPT ![Len(s)] = f] /\ stack' = [stack EXCEPT ![t] = new]
  BY <1>1 DEF SetTop
<1>3. \A u \in Thread : stack'[u] = IF u = t THEN new ELSE stack[u]
  BY <1>2 DEF Stacks
<1>4. Calls' = [u \in Thread |-> ShownStack(stack'[u])]
  BY DEF Calls, ShownStack, Shown
<1>5. ShownStack(new) = [ShownStack(s) EXCEPT ![Len(ShownStack(s))] = Shown(f)]
  BY <1>1, <1>2, ShownTopped
<1> QED  BY <1>1, <1>3, <1>4, <1>5 DEF Calls

LEMMA CallsPopped ==
  ASSUME stack \in Stacks, NEW t \in Thread, stack[t] # <<>>, Pop(t)
  PROVE  Calls' = [Calls EXCEPT ![t] = SubSeq(Calls[t], 1, Len(Calls[t]) - 1)]
<1>1. PICK s \in Seq(Frame) : s = stack[t]
  BY DEF Stacks
<1>2. PICK new : new = SubSeq(s, 1, Len(s) - 1) /\ stack' = [stack EXCEPT ![t] = new]
  BY <1>1 DEF Pop
<1>3. \A u \in Thread : stack'[u] = IF u = t THEN new ELSE stack[u]
  BY <1>2 DEF Stacks
<1>4. Calls' = [u \in Thread |-> ShownStack(stack'[u])]
  BY DEF Calls, ShownStack, Shown
<1>5. ShownStack(new) = SubSeq(ShownStack(s), 1, Len(ShownStack(s)) - 1)
  BY <1>1, <1>2, ShownPopped
<1> QED  BY <1>1, <1>3, <1>4, <1>5 DEF Calls

LEMMA LastShown ==
  ASSUME stack \in Stacks, NEW t \in Thread, stack[t] # <<>>
  PROVE  Calls[t] # <<>> /\ Calls[t][Len(Calls[t])] = Shown(Top(t))
<1>1. PICK s \in Seq(Frame) : s = stack[t]
  BY DEF Stacks
<1>2. Len(s) \in Nat \ {0} /\ Len(s) \in 1 .. Len(s)
  BY <1>1
<1>3. PICK q \in Seq(Shows) : /\ q = ShownStack(s) /\ Len(q) = Len(s)
                              /\ \A n \in 1 .. Len(s) : q[n] = Shown(s[n])
  BY ShownIs
<1>4. q # <<>> /\ q[Len(q)] = Shown(s[Len(s)])
  BY <1>2, <1>3
<1>5. Calls[t] = q
  BY <1>1, <1>3 DEF Calls
<1> QED  BY <1>1, <1>4, <1>5 DEF Top

(* A call that finds a method finds the one that counts.                   *)
LEMMA DispatchShown ==
  ASSUME CurrentInv, NEW t \in Thread, NEW k \in Key, CallStep(t, k)
  PROVE  Abstract!Next \/ UNCHANGED Abstract!vars
<1>0. /\ CacheTypes /\ MetadataLocked /\ MethodsAreCurrent /\ stack \in Stacks
      /\ life[t] = "listed" /\ UNCHANGED <<methods, change>>
  BY CallFacts DEF CurrentInv, CacheTypes, Stacks, MayCall
<1>1. Versions' = Versions
  BY <1>0, CurrentStays, VersionsStay
<1>2. PICK old : old = TakenTable(t)
  OBVIOUS
<1>3. \/ stack' = stack
      \/ \E f \in Frame :
           /\ Push(t, f) /\ f.key = k /\ f.since = Current(GfOf[k])
           /\ \/ f.place = "missed"
              \/ /\ f.place = "chosen" /\ f.record \in Records
                 /\ old[f.record].key = k /\ f.func = old[f.record].value
  BY <1>0, <1>2, DispatchFacts
<1>4. CASE stack' = stack
  BY <1>1, <1>4, CallsStay, AbstractStutter
<1>5. ASSUME NEW f \in Frame, Push(t, f), f.key = k, f.since = Current(GfOf[k]),
             \/ f.place = "missed"
             \/ /\ f.place = "chosen" /\ f.record \in Records
                /\ old[f.record].key = k /\ f.func = old[f.record].value
      PROVE  Abstract!Next
  <2>1. GfOf[k] \in Gf /\ k # NoKey
    BY MethodHashAssumption
  <2>2. Versions[GfOf[k]] = Current(GfOf[k])
    BY <2>1 DEF Versions
  <2>3. PICK v : v = IF f.place = "chosen" THEN f.func ELSE NoValue
    OBVIOUS
  <2>4. f.place = "chosen" => f.func = Current(GfOf[k])
    <3>1. SUFFICES ASSUME f.place = "chosen" PROVE f.func = Current(GfOf[k])
      OBVIOUS
    <3>2. PICK i \in Records : i = f.record
      BY <1>5, <3>1
    <3>3. old[i].key = k /\ f.func = old[i].value
      BY <1>5, <3>1, <3>2
    <3>4. table[t][i].key = k /\ GfOf[k] \notin clear[t] /\ table[t][i].value = f.func
      BY <1>0, <1>2, <2>1, <3>3, OwnTable DEF Thins
    <3>5. <<k, f.func>> \in Live(table[t])
      BY <2>1, <3>4 DEF Live
    <3> QED  BY <1>0, <3>4, <3>5 DEF MethodsAreCurrent
  <2>5. Shown(f) = [key |-> k, since |-> Versions[GfOf[k]], chosen |-> v]
    BY <1>5, <2>2, <2>3 DEF Shown
  <2>6. Calls' = [Calls EXCEPT ![t] = Append(Calls[t], Shown(f))]
    BY <1>0, <1>5, CallsPushed
  <2>7. v = NoValue \/ v = Versions[GfOf[k]]
    BY <2>2, <2>3, <2>4
  <2> QED  BY <1>1, <2>5, <2>6, <2>7, AbstractCall
<1> QED  BY <1>3, <1>4, <1>5

(* A call without a method yet goes on without one: nothing shows.         *)
LEMMA NothingShown ==
  ASSUME CurrentInv, NEW t \in Thread, stack[t] # <<>>, UNCHANGED <<methods, change>>,
         NEW f \in Frame, SetTop(t, f), f.key = Top(t).key, f.since = Top(t).since,
         f.place # "chosen", Top(t).place # "chosen"
  PROVE  UNCHANGED Abstract!vars
<1>0. CacheTypes /\ stack \in Stacks
  BY DEF CurrentInv, CacheTypes, Stacks
<1>1. Versions' = Versions
  BY CurrentStays, VersionsStay
<1>2. Shown(f) = Shown(Top(t))
  BY DEF Shown
<1>3. PICK q \in Seq(Shows) : q = Calls[t]
  BY <1>0, ShownIs DEF Stacks, Calls
<1>4. Calls' = [Calls EXCEPT ![t] = [q EXCEPT ![Len(q)] = q[Len(q)]]]
  BY <1>0, <1>2, <1>3, CallsTopped, LastShown
<1>5. [q EXCEPT ![Len(q)] = q[Len(q)]] = q
  OBVIOUS
<1>6. Calls' = Calls
  BY <1>3, <1>4, <1>5 DEF Calls
<1> QED  BY <1>1, <1>6, AbstractStutter

(* A computed method counted at some moment since the call began.          *)
LEMMA ChoiceShown ==
  ASSUME CurrentInv, NEW t \in Thread, stack[t] # <<>>, UNCHANGED <<methods, change>>,
         NEW g, g = Top(t), g.place \in {"computing", "computed"}, g.func \in Nat,
         NEW f \in Frame, SetTop(t, f), f.key = g.key, f.since = g.since, f.func = g.func,
         f.place = "chosen"
  PROVE  Abstract!Next
<1>0. /\ CacheTypes /\ MetadataLocked /\ ComputedIsRecent /\ stack \in Stacks
  BY DEF CurrentInv, CacheTypes, Stacks
<1>1. Versions' = Versions
  BY CurrentStays, VersionsStay
<1>2. g \in Frame
  BY <1>0, TopFrame
<1>3. PICK last : last = Shown(g) /\ last.key = g.key /\ last.since = g.since
                  /\ last.chosen = NoValue
  <2>1. /\ Shown(g).key = g.key /\ Shown(g).since = g.since
        /\ Shown(g).chosen = NoValue
    BY DEF Shown
  <2> QED  BY <2>1
<1>4. Shown(f) = [last EXCEPT !.chosen = g.func]
  BY <1>3 DEF Shown
<1>5. Calls[t] # <<>> /\ last = Calls[t][Len(Calls[t])]
  BY <1>0, <1>3, LastShown
<1>6. GfOf[g.key] \in Gf /\ g.since \in Nat
  BY <1>2, MethodHashAssumption DEF Frame
<1>7. PICK now \in Nat : now = Current(GfOf[g.key]) /\ now = Versions[GfOf[g.key]]
  BY <1>0, <1>6, CurrentIs DEF Versions
<1>8. Recent(g)
  BY <1>0, TopFrame DEF ComputedIsRecent
<1>9. g.func \in last.since .. Versions[GfOf[last.key]]
  BY <1>3, <1>6, <1>7, <1>8 DEF Recent
<1>10. Calls' = [Calls EXCEPT ![t] =
          [Calls[t] EXCEPT ![Len(Calls[t])] = [last EXCEPT !.chosen = g.func]]]
  BY <1>0, <1>4, CallsTopped
<1> QED  BY <1>1, <1>3, <1>5, <1>9, <1>10, AbstractChoose

(* A computation does not show, unless its method is not to be stored.     *)
LEMMA ComputeShown ==
  ASSUME CurrentInv, NEW t \in Thread, ComputeBegin(t) \/ ComputeEnd(t)
  PROVE  Abstract!Next \/ UNCHANGED Abstract!vars
<1>0. CacheTypes /\ stack[t] # <<>> /\ UNCHANGED <<methods, change>>
  BY DEF CurrentInv, ComputeBegin, ComputeEnd
<1>1. CASE ComputeBegin(t)
  <2>1. Top(t).place = "missed" /\ Computing(t)
    BY <1>1 DEF ComputeBegin
  <2>2. PICK f \in Frame : /\ SetTop(t, f) /\ f.key = Top(t).key /\ f.since = Top(t).since
                           /\ f.place = "computing"
    BY <1>0, <2>1, ComputingFrame
  <2> QED  BY <1>0, <2>1, <2>2, NothingShown
<1>2. CASE ComputeEnd(t)
  <2>1. Top(t).place = "computing"
    BY <1>2 DEF ComputeEnd
  <2>2. PICK f \in Frame : /\ SetTop(t, f) /\ f.key = Top(t).key /\ f.since = Top(t).since
                           /\ f.func = Top(t).func /\ f.func \in Nat
                           /\ f.place = IF f.key \in Uncached THEN "chosen" ELSE "computed"
    BY <1>0, <1>2, ComputedFrame
  <2>3. CASE f.place = "chosen"
    BY <1>0, <2>1, <2>2, <2>3, ChoiceShown
  <2>4. CASE f.place # "chosen"
    BY <1>0, <2>1, <2>2, <2>4, NothingShown
  <2> QED  BY <2>3, <2>4
<1> QED  BY <1>1, <1>2

(* An error in the computation ends the abstract call.                     *)
LEMMA ComputeFailsShown ==
  ASSUME CurrentInv, NEW t \in Thread, ComputeFails(t)
  PROVE  Abstract!Next
<1>0. /\ stack \in Stacks /\ stack[t] # <<>> /\ Pop(t)
      /\ Top(t).place = "computing" /\ UNCHANGED <<methods, change>>
  BY DEF CurrentInv, CacheTypes, Stacks, ComputeFails
<1>1. Versions' = Versions
  BY <1>0, CurrentStays, VersionsStay
<1>2. Shown(Top(t)).chosen = NoValue
  BY <1>0 DEF Shown
<1> QED  BY <1>0, <1>1, <1>2, LastShown, CallsPopped, AbstractFail

(* What is stored is what the call has chosen.                             *)
LEMMA StoreShown ==
  ASSUME CurrentInv, NEW t \in Thread, Store(t)
  PROVE  Abstract!Next \/ UNCHANGED Abstract!vars
<1>0. CacheTypes /\ stack[t] # <<>> /\ UNCHANGED <<methods, change>>
  BY DEF CurrentInv, Store
<1>1. Versions' = Versions
  BY <1>0, CurrentStays, VersionsStay
<1>2. PICK g : g = Top(t)
  OBVIOUS
<1>3. /\ g \in Frame /\ g.place = "computed" /\ g.func \in Nat
      /\ UNCHANGED <<table, gen, stack>> \/ SetTop(t, [g EXCEPT !.place = "chosen"])
  BY <1>0, <1>2, StoreFacts
<1>4. CASE stack' = stack
  BY <1>1, <1>4, CallsStay, AbstractStutter
<1>5. CASE SetTop(t, [g EXCEPT !.place = "chosen"])
  <2>1. PICK f : f = [g EXCEPT !.place = "chosen"] /\ SetTop(t, f)
    BY <1>5
  <2>2. f \in Frame /\ f.key = g.key /\ f.since = g.since /\ f.func = g.func
        /\ f.place = "chosen"
    BY <1>3, <2>1 DEF Frame
  <2> QED  BY <1>0, <1>2, <1>3, <2>1, <2>2, ChoiceShown
<1> QED  BY <1>3, <1>4, <1>5

(* The end of a dispatch is the abstract return.                           *)
LEMMA CallMethodShown ==
  ASSUME CurrentInv, NEW t \in Thread, CallMethod(t)
  PROVE  Abstract!Next
<1>0. /\ CacheTypes /\ stack \in Stacks /\ stack[t] # <<>> /\ Pop(t)
      /\ Top(t).place = "chosen" /\ UNCHANGED <<methods, change>>
  BY DEF CurrentInv, CacheTypes, Stacks, CallMethod
<1>1. Versions' = Versions
  BY <1>0, CurrentStays, VersionsStay
<1>2. Top(t).func # NoValue
  BY <1>0, TopFrame DEF CacheTypes, Sound
<1>3. Shown(Top(t)).chosen # NoValue
  BY <1>0, <1>2 DEF Shown
<1> QED  BY <1>0, <1>1, <1>3, LastShown, CallsPopped, AbstractReturn

(* Every step is an abstract step, or does not show.                       *)
LEMMA CallsStep == CurrentInv /\ [Next]_vars => Abstract!Next \/ UNCHANGED Abstract!vars
<1> SUFFICES ASSUME CurrentInv, [Next]_vars PROVE Abstract!Next \/ UNCHANGED Abstract!vars
  OBVIOUS
<1>0. CacheTypes /\ MetadataLocked
  BY DEF CurrentInv
<1>1. CASE UNCHANGED <<methods, change, stack>>
  BY <1>1, CurrentStays, VersionsStay, CallsStay, AbstractStutter
<1>2. CASE UNCHANGED vars
  BY <1>1, <1>2 DEF vars
<1>3. CASE Next
  <2> PICK t \in Thread :
        \/ StartThread(t) \/ EndThread(t)
        \/ \E k \in Key : CallStep(t, k)
        \/ ComputeBegin(t) \/ ComputeEnd(t) \/ ComputeFails(t) \/ Store(t) \/ CallMethod(t)
        \/ \E g \in Changing, plan \in Plans : BeginChange(t, g, plan)
        \/ ChangeStep(t)
    BY <1>3, NextIs
  <2>1. CASE StartThread(t) \/ EndThread(t)
    BY <1>1, <2>1 DEF StartThread, EndThread
  <2>2. ASSUME NEW g \in Changing, NEW plan \in Plans, BeginChange(t, g, plan)
        PROVE  UNCHANGED Abstract!vars
    <3>1. stack' = stack
      BY <2>2 DEF BeginChange
    <3>2. Versions' = Versions
      BY <1>0, <2>2, CurrentAtBegin, VersionsStay
    <3> QED  BY <3>1, <3>2, CallsStay, AbstractStutter
  <2>3. CASE ChangeStep(t)
    <3>1. stack' = stack
      BY <2>3 DEF ChangeStep
    <3>2. PICK h \in Gf, clears \in BOOLEAN :
            \A g \in Gf : Current(g)' = IF g = h /\ clears THEN Current(g) + 1 ELSE Current(g)
      BY <1>0, <2>3, CurrentAtStep
    <3>3. CASE clears
      <4>1. Versions' = [Versions EXCEPT ![h] = Versions[h] + 1]
        BY <3>2, <3>3 DEF Versions
      <4> QED  BY <3>1, <4>1, CallsStay, AbstractChange
    <3>4. CASE ~clears
      BY <3>1, <3>2, <3>4, VersionsStay, CallsStay, AbstractStutter
    <3> QED  BY <3>3, <3>4
  <2> QED
    BY <2>1, <2>2, <2>3, DispatchShown, ComputeShown, ComputeFailsShown, StoreShown,
       CallMethodShown
<1> QED  BY <1>2, <1>3

(* Where no thread object is used twice and no interrupt function calls    *)
(* generic functions, the caches do not show: every thread sees a change   *)
(* of methods at the same moment, and a call runs an effective method that *)
(* counted at some moment between its beginning and its choice.            *)
THEOREM CachesImplementCalls ==
  ASSUME Reused = {}, Intruding = {}
  PROVE  Spec => CallsAreCurrent
<1>1. CurrentInv /\ [Next]_vars => [Abstract!Next]_(Abstract!vars)
  BY CallsStep
<1>2. Spec => []CurrentInv
  BY CurrentAlways, Reused = {}, Intruding = {}
<1> QED  BY <1>1, <1>2, AbstractInit, PTL DEF Spec, CallsAreCurrent, Abstract!Spec
=============================================================================
