------------------------------ MODULE Semaphore ------------------------------
(***************************************************************************)
(* What common-src/amsemaphore.h promises: an integer that can be set and  *)
(* adjusted at any time, a decrement that takes its amount in one step and *)
(* only when it is there, and a wait until nothing is left.  Module        *)
(* AmSemaphore has the mutex and the condition variables that implement    *)
(* it.                                                                     *)
(***************************************************************************)
EXTENDS Integers

CONSTANTS Threads, Amounts   \* who calls, and by how much

VARIABLES value,   \* the semaphore
          op       \* op[t]: the blocking call thread t is in

Idle == [call |-> "none", n |-> 0]
Calls == [call : {"decrement", "wait_empty"}, n : Amounts \cup {0}]

Init ==
    /\ value \in Int
    /\ op = [t \in Threads |-> Idle]

\* A thread calls amsemaphore_decrement or amsemaphore_wait_empty.
Ask(t, c) ==
    /\ op[t] = Idle
    /\ op' = [op EXCEPT ![t] = c]
    /\ UNCHANGED value

\* The decrement happens and the call returns.
Down(t) ==
    /\ op[t].call = "decrement"
    /\ value >= op[t].n
    /\ value' = value - op[t].n
    /\ op' = [op EXCEPT ![t] = Idle]

\* The wait is over.
Empty(t) ==
    /\ op[t].call = "wait_empty"
    /\ value <= 0
    /\ op' = [op EXCEPT ![t] = Idle]
    /\ UNCHANGED value

\* increment, force_adjust and force_set never block.
Force ==
    /\ value' \in Int
    /\ UNCHANGED op

Next ==
    \/ \E t \in Threads : (\E c \in Calls : Ask(t, c)) \/ Down(t) \/ Empty(t)
    \/ Force

Spec == Init /\ [][Next]_<<value, op>>
=============================================================================
