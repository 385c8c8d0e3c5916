--------------------------- MODULE InterruptStack ---------------------------
(***************************************************************************)
(* What mt:interrupt-thread promises to the code it interrupts.  The       *)
(* pthreads of a thread form a chain, the thread's own at the bottom and   *)
(* above each pthread the one that runs the function of its interrupt.     *)
(* Only the last moves; the others stay where they are in their code until *)
(* the function above them is over, and then go on from there, or unwind   *)
(* if the function left by a non-local exit.  No function is put on top of *)
(* a pthread that is not in Lisp code: one that has not begun, one whose   *)
(* function is over, a thread that is done.                                *)
(*                                                                         *)
(* This is promised until a signal is late, lost or stolen, or a pthread   *)
(* for a function cannot be created (broken).                              *)
(***************************************************************************)
EXTENDS Integers, Sequences

CONSTANTS
  Target,  \* threads, and their own pthreads
  Call,    \* interrupts, and the pthreads of their functions
  Place    \* where Lisp code can be

VARIABLES
  chain,   \* the pthreads of each thread
  code,    \* where the code of each pthread is
  exiting, \* a non-local exit is under way
  broken

vars == <<chain, code, exiting, broken>>

Init ==
  /\ chain = [t \in Target |-> <<t>>]
  /\ code = [p \in Target \cup Call |-> IF p \in Target THEN "run" ELSE "none"]
  /\ exiting = [t \in Target |-> FALSE]
  /\ ~broken

Top(t) == chain[t][Len(chain[t])]

(* The last pthread runs Lisp code, and is not the one in which an exit is *)
(* to go on.                                                               *)
Runs(t) ==
  /\ code[Top(t)] \in Place \ {"unwinding"}
  /\ exiting[t] => \E k \in DOMAIN chain[t] : code[chain[t][k]] = "unwinding"

Goto(t, l) == code' = [code EXCEPT ![Top(t)] = l]

Interrupt(t, c) ==
  /\ code[c] = "none" /\ (Runs(t) \/ code[Top(t)] = "unwinding")
  /\ chain' = [chain EXCEPT ![t] = Append(@, c)]
  /\ code' = [code EXCEPT ![c] = "born"]
  /\ UNCHANGED exiting

Begin(t) ==
  /\ code[Top(t)] = "born" /\ Goto(t, "enabled")
  /\ UNCHANGED <<chain, exiting>>

Run(t) ==
  /\ Runs(t) /\ \E l \in Place \ {"unwinding"} : Goto(t, l)
  /\ UNCHANGED <<chain, exiting>>

Unwind(t) ==
  /\ code[Top(t)] \in Place /\ exiting[t] /\ Goto(t, "unwinding")
  /\ UNCHANGED <<chain, exiting>>

Land(t) ==
  /\ code[Top(t)] = "unwinding" /\ Goto(t, "run")
  /\ exiting' = [exiting EXCEPT ![t] = FALSE]
  /\ UNCHANGED chain

FunctionEnds(t) ==
  /\ Top(t) \in Call /\ Runs(t) /\ Goto(t, "over")
  /\ \E exit \in BOOLEAN : exiting' = [exiting EXCEPT ![t] = exit]
  /\ UNCHANGED chain

(* The function is gone, and the code below it has the env again.          *)
Return(t) ==
  /\ code[Top(t)] = "over" /\ Goto(t, "gone")
  /\ chain' = [chain EXCEPT ![t] = SubSeq(@, 1, Len(@) - 1)]
  /\ UNCHANGED exiting

ThreadEnds(t) ==
  /\ Top(t) = t
  /\ \/ Runs(t) /\ Goto(t, "done")
     \/ code[t] = "done" /\ Goto(t, "gone")
  /\ UNCHANGED <<chain, exiting>>

Step(t) ==
  \/ \E c \in Call : Interrupt(t, c)
  \/ Begin(t) \/ Run(t) \/ Unwind(t) \/ Land(t) \/ FunctionEnds(t) \/ Return(t)
  \/ ThreadEnds(t)

Next ==
  \/ ~broken /\ ~broken' /\ \E t \in Target : Step(t)
  \/ broken'

Spec == Init /\ [][Next]_vars
=============================================================================
