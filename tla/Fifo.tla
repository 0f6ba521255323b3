-------------------------------- MODULE Fifo --------------------------------
(***************************************************************************)
(* What the ring of xfer-src/element-glue.c is for: buffers go from the    *)
(* thread that pushes to the thread that pulls in order, each once, with   *)
(* at most Capacity of them between the two.                               *)
(***************************************************************************)
EXTENDS Naturals, Sequences

CONSTANTS Capacity, Bufs
VARIABLES queue,    \* the buffers between the two threads
          got       \* the buffers that were pulled

Init ==
    /\ queue = <<>>
    /\ got = <<>>

Enqueue(b) ==
    /\ Len(queue) < Capacity
    /\ queue' = Append(queue, b)
    /\ UNCHANGED got

Dequeue ==
    /\ queue # <<>>
    /\ got' = Append(got, Head(queue))
    /\ queue' = Tail(queue)

Next == Dequeue \/ \E b \in Bufs : Enqueue(b)

Spec == Init /\ [][Next]_<<queue, got>>
=============================================================================
