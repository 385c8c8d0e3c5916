---------------------------- MODULE GenericCall ----------------------------
(***************************************************************************)
(* What generic functions promise to the threads that call and change      *)
(* them: the methods of a generic function are changed at one moment for   *)
(* all threads, and a call runs an effective method that was the current   *)
(* one at some moment between its beginning and the choice.                *)
(***************************************************************************)
EXTENDS Naturals, Sequences

CONSTANTS Thread, Gf, Key, GfOf,
  NoValue    \* no effective method is chosen yet

VARIABLES
  current,  \* version of the methods of each generic function
  calls     \* the calls of each thread, the innermost last

vars == <<current, calls>>

Init ==
  /\ current = [g \in Gf |-> 0]
  /\ calls = [t \in Thread |-> <<>>]

Last(t) == calls[t][Len(calls[t])]

(* A call begins; it may choose at once.                                   *)
Call(t, k) ==
  /\ \E v \in {NoValue, current[GfOf[k]]} :
       calls' = [calls EXCEPT ![t] =
                  Append(@, [key |-> k, since |-> current[GfOf[k]], chosen |-> v])]
  /\ UNCHANGED current

Choose(t) ==
  /\ calls[t] # <<>> /\ Last(t).chosen = NoValue
  /\ \E v \in Last(t).since .. current[GfOf[Last(t).key]] :
       calls' = [calls EXCEPT ![t] = [@ EXCEPT ![Len(@)] = [Last(t) EXCEPT !.chosen = v]]]
  /\ UNCHANGED current

(* The chosen effective method runs, and the call is through.              *)
Return(t) ==
  /\ calls[t] # <<>> /\ Last(t).chosen # NoValue
  /\ calls' = [calls EXCEPT ![t] = SubSeq(@, 1, Len(@) - 1)]
  /\ UNCHANGED current

(* The computation of the effective method fails, and so does the call.    *)
Fail(t) ==
  /\ calls[t] # <<>> /\ Last(t).chosen = NoValue
  /\ calls' = [calls EXCEPT ![t] = SubSeq(@, 1, Len(@) - 1)]
  /\ UNCHANGED current

Change(g) ==
  /\ current' = [current EXCEPT ![g] = @ + 1]
  /\ UNCHANGED calls

Next ==
  \/ \E t \in Thread, k \in Key : Call(t, k)
  \/ \E t \in Thread : Choose(t) \/ Return(t) \/ Fail(t)
  \/ \E g \in Gf : Change(g)

Spec == Init /\ [][Next]_vars
=============================================================================
