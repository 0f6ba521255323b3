------------------------------ MODULE GlueRing ------------------------------
(***************************************************************************)
(* The ring buffer of xfer-src/element-glue.c: the glue between an element *)
(* that pushes buffers from its thread and one that pulls them from its    *)
(* own (XFER_MECH_PUSH_BUFFER to XFER_MECH_PULL_BUFFER), from its setup to *)
(* its finalisation, with cancellation by the main thread at any time.     *)
(*                                                                         *)
(* A call of push_buffer or pull_buffer reads elt->cancelled once and then *)
(* works in three steps that the other thread may come between: it takes   *)
(* its semaphore, uses its end of the ring, and gives to the other's       *)
(* semaphore.  The semaphores are those of module Semaphore.               *)
(*                                                                         *)
(* The two elements are external, and do what xfer-element.h asks of them: *)
(* upstream pushes buffers and then, at the latest when it notices its own *)
(* cancellation, an EOF; downstream pulls until it gets an EOF.            *)
(***************************************************************************)
EXTENDS Naturals, Sequences

CONSTANTS RingSize,    \* GLUE_RING_BUFFER_SIZE
          NBufs        \* bound: buffers that upstream pushes

ASSUME RingAssumption ==
    /\ RingSize \in Nat \ {0}
    /\ NBufs \in Nat

EOF == 0               \* the NULL buffer
Bufs == 0..NBufs

VARIABLES
    cancelled,   \* elt->cancelled
    ring,        \* self->ring[i].buf
    ring_head, ring_tail,
    used, free,  \* the values of ring_used_sem and ring_free_sem
    pusher,      \* pusher.pc: where upstream is in push_buffer; .buf: its buffer
    puller,      \* puller.pc: where downstream is in pull_buffer; .buf: its buffer
    pushed,      \* history: the buffers stored in the ring
    got,         \* history: the buffers taken from the ring
    finalized    \* finalize_impl has returned

vars == <<cancelled, ring, ring_head, ring_tail, used, free, pusher, puller,
          pushed, got, finalized>>

Slots == 0..(RingSize - 1)
Pcs == {"idle", "down", "ring", "up", "ended"}

RingTypeOK ==
    /\ cancelled \in BOOLEAN
    /\ ring \in [Slots -> Bufs]
    /\ ring_head \in Slots
    /\ ring_tail \in Slots
    /\ used \in 0..RingSize
    /\ free \in 0..RingSize
    /\ pusher \in [pc : Pcs, buf : Bufs]
    /\ puller \in [pc : Pcs, buf : Bufs]
    /\ pushed \in Seq(Bufs)
    /\ got \in Seq(Bufs)
    /\ finalized \in BOOLEAN

\* setup_impl, need_ring.
Init ==
    /\ cancelled = FALSE
    /\ ring = [i \in Slots |-> EOF]
    /\ ring_head = 0
    /\ ring_tail = 0
    /\ used = 0
    /\ free = RingSize
    /\ pusher = [pc |-> "idle", buf |-> EOF]
    /\ puller = [pc |-> "idle", buf |-> EOF]
    /\ pushed = <<>>
    /\ got = <<>>
    /\ finalized = FALSE

\* xfer_element_cancel_impl, from the main thread.
Cancel ==
    /\ ~ cancelled
    /\ ~ finalized
    /\ cancelled' = TRUE
    /\ UNCHANGED <<ring, ring_head, ring_tail, used, free, pusher, puller,
                   pushed, got, finalized>>

(***************************************************************************)
(* push_buffer_impl, PUSH_TO_RING_BUFFER.                                  *)
(***************************************************************************)

\* External: what upstream may push next.
NextBufs == {EOF} \cup (IF pusher.buf < NBufs THEN {pusher.buf + 1} ELSE {})

\* The call returns, and upstream ends if it has pushed an EOF.
PushReturns(b) == [pc |-> IF b = EOF THEN "ended" ELSE "idle", buf |-> b]

\* The transfer has been cancelled: drop the buffer.
PushDrop ==
    /\ pusher.pc = "idle"
    /\ cancelled
    /\ \E b \in NextBufs : pusher' = PushReturns(b)
    /\ UNCHANGED <<cancelled, ring, ring_head, ring_tail, used, free, puller,
                   pushed, got, finalized>>

\* Not cancelled when push_buffer looked.
Push ==
    /\ pusher.pc = "idle"
    /\ ~ cancelled
    /\ \E b \in NextBufs : pusher' = [pc |-> "down", buf |-> b]
    /\ UNCHANGED <<cancelled, ring, ring_head, ring_tail, used, free, puller,
                   pushed, got, finalized>>

\* Mutation: a buffer is stored whether or not one is free.
PushDownUntested ==
    /\ pusher.pc = "down"
    /\ free' = IF free > 0 THEN free - 1 ELSE free
    /\ pusher' = [pusher EXCEPT !.pc = "ring"]
    /\ UNCHANGED <<cancelled, ring, ring_head, ring_tail, used, puller,
                   pushed, got, finalized>>

\* amsemaphore_down(self->ring_free_sem).
PushDown ==
    /\ pusher.pc = "down"
    /\ free > 0
    /\ free' = free - 1
    /\ pusher' = [pusher EXCEPT !.pc = "ring"]
    /\ UNCHANGED <<cancelled, ring, ring_head, ring_tail, used, puller,
                   pushed, got, finalized>>

\* The buffer goes in at the head.
PushStore ==
    /\ pusher.pc = "ring"
    /\ ring' = [ring EXCEPT ![ring_head] = pusher.buf]
    /\ ring_head' = (ring_head + 1) % RingSize
    /\ pusher' = [pusher EXCEPT !.pc = "up"]
    /\ pushed' = Append(pushed, pusher.buf)
    /\ UNCHANGED <<cancelled, ring_tail, used, free, puller, got, finalized>>

\* amsemaphore_up(self->ring_used_sem).
PushUp ==
    /\ pusher.pc = "up"
    /\ used' = used + 1
    /\ pusher' = PushReturns(pusher.buf)
    /\ UNCHANGED <<cancelled, ring, ring_head, ring_tail, free, puller,
                   pushed, got, finalized>>

(***************************************************************************)
(* pull_buffer_impl, PULL_FROM_RING_BUFFER.                                *)
(***************************************************************************)

\* The call returns, and downstream ends when it gets an EOF.
PullReturns(b) == [pc |-> IF b = EOF THEN "ended" ELSE "idle", buf |-> b]

\* The transfer has been cancelled: EOF.
PullCancelled ==
    /\ puller.pc = "idle"
    /\ cancelled
    /\ puller' = PullReturns(EOF)
    /\ UNCHANGED <<cancelled, ring, ring_head, ring_tail, used, free, pusher,
                   pushed, got, finalized>>

\* Not cancelled when pull_buffer looked.
Pull ==
    /\ puller.pc = "idle"
    /\ ~ cancelled
    /\ puller' = [puller EXCEPT !.pc = "down"]
    /\ UNCHANGED <<cancelled, ring, ring_head, ring_tail, used, free, pusher,
                   pushed, got, finalized>>

\* amsemaphore_down(self->ring_used_sem).
PullDown ==
    /\ puller.pc = "down"
    /\ used > 0
    /\ used' = used - 1
    /\ puller' = [puller EXCEPT !.pc = "ring"]
    /\ UNCHANGED <<cancelled, ring, ring_head, ring_tail, free, pusher,
                   pushed, got, finalized>>

\* The buffer at the tail is taken.
PullTake ==
    /\ puller.pc = "ring"
    /\ puller' = [pc |-> "up", buf |-> ring[ring_tail]]
    /\ ring_tail' = (ring_tail + 1) % RingSize
    /\ got' = Append(got, ring[ring_tail])
    /\ UNCHANGED <<cancelled, ring, ring_head, used, free, pusher, pushed,
                   finalized>>

\* Mutation: the slot is never given back.
PullUpForgets ==
    /\ puller.pc = "up"
    /\ puller' = PullReturns(puller.buf)
    /\ UNCHANGED <<cancelled, ring, ring_head, ring_tail, used, free, pusher,
                   pushed, got, finalized>>

\* Mutation: the slot is given back twice.
PullUpTwice ==
    /\ puller.pc = "up"
    /\ free' = free + 2
    /\ puller' = PullReturns(puller.buf)
    /\ UNCHANGED <<cancelled, ring, ring_head, ring_tail, used, pusher,
                   pushed, got, finalized>>

\* amsemaphore_up(self->ring_free_sem).
PullUp ==
    /\ puller.pc = "up"
    /\ free' = free + 1
    /\ puller' = PullReturns(puller.buf)
    /\ UNCHANGED <<cancelled, ring, ring_head, ring_tail, used, pusher,
                   pushed, got, finalized>>

(***************************************************************************)
(* finalize_impl: the transfer is done, so both threads have ended.        *)
(***************************************************************************)
ThreadsEnded == pusher.pc = "ended" /\ puller.pc = "ended"

\* Once around the loop that empties the ring: the slot at the tail is freed
\* (set to NULL by amfree) and the semaphore keeps its value.  Past the used
\* slots the buffer may be one that downstream has had; freeing it again is
\* undefined, and either aborts the program or takes this step.
EmptyRing ==
    /\ ThreadsEnded
    /\ ~ finalized
    /\ used > 0
    /\ ring' = [ring EXCEPT ![ring_tail] = EOF]
    /\ ring_tail' = (ring_tail + 1) % RingSize
    /\ UNCHANGED <<cancelled, ring_head, used, free, pusher, puller, pushed,
                   got, finalized>>

\* The loop ends, and the ring is freed.
Finalize ==
    /\ ThreadsEnded
    /\ ~ finalized
    /\ used = 0
    /\ finalized' = TRUE
    /\ UNCHANGED <<cancelled, ring, ring_head, ring_tail, used, free, pusher,
                   puller, pushed, got>>

Pusher == PushDrop \/ Push \/ PushDown \/ PushStore \/ PushUp
Puller == PullCancelled \/ Pull \/ PullDown \/ PullTake \/ PullUp

Next == Cancel \/ Pusher \/ Puller \/ EmptyRing \/ Finalize

Spec == Init /\ [][Next]_vars

\* Each thread runs on when it can, and so does the main thread once the
\* transfer is done; nobody has to cancel.
Fairness ==
    /\ WF_vars(Pusher)
    /\ WF_vars(Puller)
    /\ WF_vars(EmptyRing \/ Finalize)

FairSpec == Spec /\ Fairness

(***************************************************************************)
(* Properties.                                                             *)
(***************************************************************************)

\* Who holds a slot: a thread between its down and its up.
Holds(thread) == IF thread.pc \in {"ring", "up"} THEN 1 ELSE 0

\* The two semaphores and the slots the two threads hold account for the ring,
\* at every step of push_buffer_impl and pull_buffer_impl, cancelled or not:
\* a slot is never given twice and none leaks.
SlotsAccounted == used + free + Holds(pusher) + Holds(puller) = RingSize

\* What lies between the threads, as a queue: the slots from the tail on, until
\* finalize_impl discards them.
Between ==
    [i \in 1..(Len(pushed) - Len(got)) |->
        IF ThreadsEnded THEN pushed[Len(got) + i]
                        ELSE ring[(ring_tail + i - 1) % RingSize]]

Queue == INSTANCE Fifo WITH queue <- Between, Capacity <- RingSize

\* The ring with its two semaphores implements a bounded queue: no buffer is
\* overwritten before it is pulled, none is pulled before it is stored, and they
\* come out in order, each once.
IsFifo == Queue!Spec

\* Without a cancellation every buffer and the EOF are pulled, both threads end,
\* and the element can be freed: pusher and puller never wait for each other.
Drains ==
    []~ cancelled =>
        <>(finalized /\ got = pushed /\ EOF \in {got[i] : i \in DOMAIN got})

\* xfer-element.h:223-228, cancel: "should drain any remaining data until that
\* EOF arrives and generate an EOF to the downstream element ... important in
\* order to avoid hung threads": after a cancellation both threads end.
CancelEndsThreads == cancelled ~> ThreadsEnded
=============================================================================
