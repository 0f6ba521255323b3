----------------------------- MODULE AmSemaphore -----------------------------
(***************************************************************************)
(* common-src/amsemaphore.c: the semaphore of the transfer elements, an    *)
(* integer under a mutex, with a condition variable for those who wait to  *)
(* decrement it and one for those who wait for it to reach zero.           *)
(*                                                                         *)
(* Everything between g_mutex_lock and g_mutex_unlock or g_cond_wait is    *)
(* one step.  A thread in a blocking call is in "asleep" from g_cond_wait  *)
(* until a broadcast (or a spurious wakeup, which g_cond_wait allows); it  *)
(* then takes the mutex again and repeats the test of its while loop.      *)
(***************************************************************************)
EXTENDS Integers

CONSTANTS Threads,
          Amounts,     \* the amounts threads decrement, adjust and set by
          MaxValue     \* bound: the largest value of the semaphore

ASSUME AmountsAssumption == Amounts \subseteq Nat /\ MaxValue \in Nat

VARIABLES
    value,     \* o->value
    op,        \* op[t]: the blocking call thread t is in
    asleep     \* threads in g_cond_wait

semVars == <<value, op, asleep>>

Idle == [call |-> "none", n |-> 0]
Calls == [call : {"decrement"}, n : Amounts] \cup {[call |-> "wait_empty", n |-> 0]}

SemTypeOK ==
    /\ value \in Int
    /\ op \in [Threads -> Calls \cup {Idle}]
    /\ asleep \subseteq {t \in Threads : op[t] # Idle}

\* amsemaphore_new_with_value.
SemInit ==
    /\ value \in 0..MaxValue
    /\ op = [t \in Threads |-> Idle]
    /\ asleep = {}

\* g_cond_broadcast of decrement_cond and zero_cond.
Broadcast(call) == asleep \ {t \in asleep : op[t].call = call}

\* check_empty, once the value is v.
CheckEmpty(v) == IF v <= 0 THEN Broadcast("wait_empty") ELSE asleep

\* amsemaphore_decrement or amsemaphore_wait_empty is called.
Call(t, c) ==
    /\ op[t] = Idle
    /\ op' = [op EXCEPT ![t] = c]
    /\ UNCHANGED <<value, asleep>>

\* A thread in a blocking call that has the mutex and tests its condition.
Tests(t, call) ==
    /\ op[t].call = call
    /\ t \notin asleep

\* Mutation: the decrement is not tested again after a wakeup.
DecrementUntested(t) ==
    /\ Tests(t, "decrement")
    /\ value' = value - op[t].n
    /\ op' = [op EXCEPT ![t] = Idle]
    /\ asleep' = CheckEmpty(value')

\* amsemaphore_decrement: enough is there.
Decrement(t) ==
    /\ Tests(t, "decrement")
    /\ value >= op[t].n
    /\ value' = value - op[t].n
    /\ op' = [op EXCEPT ![t] = Idle]
    /\ asleep' = CheckEmpty(value')

\* amsemaphore_decrement: g_cond_wait(o->decrement_cond).
DecrementWaits(t) ==
    /\ Tests(t, "decrement")
    /\ value < op[t].n
    /\ asleep' = asleep \cup {t}
    /\ UNCHANGED <<value, op>>

\* amsemaphore_wait_empty: nothing is left.
WaitEmpty(t) ==
    /\ Tests(t, "wait_empty")
    /\ value <= 0
    /\ op' = [op EXCEPT ![t] = Idle]
    /\ UNCHANGED <<value, asleep>>

\* amsemaphore_wait_empty: g_cond_wait(o->zero_cond).
WaitEmptyWaits(t) ==
    /\ Tests(t, "wait_empty")
    /\ value > 0
    /\ asleep' = asleep \cup {t}
    /\ UNCHANGED <<value, op>>

\* Mutation: force_adjust wakes nobody who waits to decrement.
AdjustSilently(inc) == IF inc < 0 THEN CheckEmpty(value + inc) ELSE asleep

\* Who sleeps on after amsemaphore_force_adjust.
AdjustWakes(inc) ==
    IF inc < 0 THEN CheckEmpty(value + inc) ELSE Broadcast("decrement")

\* amsemaphore_force_adjust; amsemaphore_increment is the case inc > 0.
ForceAdjust(inc) ==
    /\ value + inc \in (- MaxValue)..MaxValue
    /\ value' = value + inc
    /\ asleep' = AdjustWakes(inc)
    /\ UNCHANGED op

\* amsemaphore_force_set.
ForceSet(v) ==
    /\ value' = v
    /\ asleep' = IF v < value THEN CheckEmpty(v) ELSE Broadcast("decrement")
    /\ UNCHANGED op

\* A wakeup without a broadcast.
Spurious(t) ==
    /\ t \in asleep
    /\ asleep' = asleep \ {t}
    /\ UNCHANGED <<value, op>>

Test(t) ==
    \/ Decrement(t)
    \/ DecrementWaits(t)
    \/ WaitEmpty(t)
    \/ WaitEmptyWaits(t)

SemNext ==
    \/ \E t \in Threads : \/ \E c \in Calls : Call(t, c)
                          \/ Test(t)
                          \/ Spurious(t)
    \/ \E a \in Amounts : ForceAdjust(a) \/ ForceAdjust(- a)
    \/ \E v \in Amounts \cap 0..MaxValue : ForceSet(v)

SemSpec == SemInit /\ [][SemNext]_semVars

(***************************************************************************)
(* Properties.                                                             *)
(***************************************************************************)

\* No wakeup is lost: a thread sleeps in amsemaphore_decrement only while too
\* little is there for it, and in amsemaphore_wait_empty only while something
\* is left, whichever of the operations changed the value and however many
\* threads the one broadcast was for.
NoLostWakeup ==
    \A t \in asleep :
        /\ op[t].call = "decrement" => value < op[t].n
        /\ op[t].call = "wait_empty" => value > 0

\* What the header promises.
Promise == INSTANCE Semaphore

\* The mutex and the two condition variables implement the semaphore of the
\* header: a decrement is one step and never takes what is not there.
Implements == Promise!Spec
=============================================================================
