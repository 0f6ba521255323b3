--------------------------- MODULE GlueRingProofs ---------------------------
(***************************************************************************)
(* Proofs about the ring of the glue and the semaphores it is built on.    *)
(*                                                                         *)
(* Module GlueRing: for every size of the ring, every number of buffers    *)
(* and every moment of cancellation, the two semaphores account for every  *)
(* slot, and the ring implements a bounded queue.                          *)
(*                                                                         *)
(* Module AmSemaphore: for every number of threads and every set of        *)
(* amounts, no wakeup is lost and the implementation keeps the promise of  *)
(* module Semaphore.                                                       *)
(***************************************************************************)
EXTENDS GlueRing, AmSemaphore, TLAPS

\* The types and the account of the slots are inductive together: the account
\* is what keeps either semaphore within the ring.
RingInv == RingTypeOK /\ SlotsAccounted

\* An index of the ring stays one.
LEMMA NextSlot == \A i \in Slots : (i + 1) % RingSize \in Slots
BY RingAssumption DEF Slots

LEMMA InitRing == Init => RingInv
<1> SUFFICES ASSUME Init PROVE RingInv
  OBVIOUS
<1>1. 0 \in Slots /\ EOF \in Bufs /\ RingSize \in 0..RingSize
  BY RingAssumption DEF Slots, EOF, Bufs
<1>2. RingTypeOK
  BY <1>1, RingAssumption DEF Init, RingTypeOK, Pcs
<1>3. SlotsAccounted
  BY RingAssumption DEF Init, SlotsAccounted, Holds
<1> QED
  BY <1>2, <1>3 DEF RingInv

\* What upstream pushes next is one of its buffers.
LEMMA NextBufsType == RingTypeOK => NextBufs \subseteq Bufs
BY RingAssumption DEF RingTypeOK, NextBufs, Bufs, EOF

\* A thread holds no slot or one.
LEMMA HoldsType == Holds(pusher) \in {0, 1} /\ Holds(puller) \in {0, 1}
BY DEF Holds

\* The thread that pushes: it holds a slot between its two semaphores.
LEMMA PusherRing == RingInv /\ Pusher => RingInv'
<1> SUFFICES ASSUME RingInv, Pusher PROVE RingInv'
  OBVIOUS
<1> USE RingAssumption DEF RingInv
<1>0. pusher \in [pc : Pcs, buf : Bufs] /\ used \in 0..RingSize /\ free \in 0..RingSize
  BY DEF RingTypeOK
<1>1. CASE PushDrop
  <2>1. PICK b \in NextBufs : pusher' = PushReturns(b)
    BY <1>1 DEF PushDrop
  <2>2. pusher' \in [pc : Pcs, buf : Bufs] /\ Holds(pusher)' = 0 /\ Holds(pusher) = 0
    BY <1>1, <2>1, NextBufsType DEF PushDrop, PushReturns, Pcs, Holds
  <2>3. RingTypeOK'
    BY <1>1, <2>2 DEF PushDrop, RingTypeOK
  <2> QED
    BY <1>1, <2>2, <2>3 DEF PushDrop, SlotsAccounted, Holds
<1>2. CASE Push
  <2>1. PICK b \in NextBufs : pusher' = [pc |-> "down", buf |-> b]
    BY <1>2 DEF Push
  <2>2. pusher' \in [pc : Pcs, buf : Bufs] /\ Holds(pusher)' = 0 /\ Holds(pusher) = 0
    BY <1>2, <2>1, NextBufsType DEF Push, Pcs, Holds
  <2>3. RingTypeOK'
    BY <1>2, <2>2 DEF Push, RingTypeOK
  <2> QED
    BY <1>2, <2>2, <2>3 DEF Push, SlotsAccounted, Holds
<1>3. CASE PushDown
  <2>1. pusher' = [pc |-> "ring", buf |-> pusher.buf]
    BY <1>0, <1>3 DEF PushDown
  <2>2. pusher' \in [pc : Pcs, buf : Bufs] /\ Holds(pusher)' = 1 /\ Holds(pusher) = 0
    BY <1>0, <1>3, <2>1 DEF PushDown, Pcs, Holds
  <2>3. Holds(puller)' = Holds(puller)
    BY <1>3 DEF PushDown, Holds
  <2>4. SlotsAccounted'
    BY <1>0, <1>3, <2>2, <2>3, HoldsType DEF PushDown, SlotsAccounted
  <2>5. free' \in 0..RingSize
    BY <1>0, <1>3 DEF PushDown
  <2> QED
    BY <1>3, <2>2, <2>4, <2>5 DEF PushDown, RingTypeOK
<1>4. CASE PushStore
  <2>1. pusher' = [pc |-> "up", buf |-> pusher.buf]
    BY <1>0, <1>4 DEF PushStore
  <2>2. pusher' \in [pc : Pcs, buf : Bufs] /\ Holds(pusher)' = 1 /\ Holds(pusher) = 1
    BY <1>0, <1>4, <2>1 DEF PushStore, Pcs, Holds
  <2>3. ring_head' \in Slots
    BY <1>4, NextSlot DEF PushStore, RingTypeOK
  <2>4. ring' \in [Slots -> Bufs] /\ pushed' \in Seq(Bufs)
    BY <1>0, <1>4 DEF PushStore, RingTypeOK
  <2>5. RingTypeOK'
    BY <1>4, <2>2, <2>3, <2>4 DEF PushStore, RingTypeOK
  <2> QED
    BY <1>4, <2>2, <2>5 DEF PushStore, SlotsAccounted, Holds
<1>5. CASE PushUp
  <2>1. pusher' \in [pc : Pcs, buf : Bufs] /\ Holds(pusher)' = 0 /\ Holds(pusher) = 1
    BY <1>0, <1>5 DEF PushUp, PushReturns, Pcs, Holds
  <2>2. Holds(puller)' = Holds(puller)
    BY <1>5 DEF PushUp, Holds
  <2>3. SlotsAccounted'
    BY <1>0, <1>5, <2>1, <2>2, HoldsType DEF PushUp, SlotsAccounted
  <2>4. used' \in 0..RingSize
    <3>1. used + free + 1 + Holds(puller) = RingSize
      BY <2>1 DEF SlotsAccounted
    <3> QED
      BY <1>0, <1>5, <3>1, HoldsType DEF PushUp
  <2> QED
    BY <1>5, <2>1, <2>3, <2>4 DEF PushUp, RingTypeOK
<1> QED
  BY <1>1, <1>2, <1>3, <1>4, <1>5 DEF Pusher

\* The thread that pulls, likewise.
LEMMA PullerRing == RingInv /\ Puller => RingInv'
<1> SUFFICES ASSUME RingInv, Puller PROVE RingInv'
  OBVIOUS
<1> USE RingAssumption DEF RingInv
<1>0. puller \in [pc : Pcs, buf : Bufs] /\ used \in 0..RingSize /\ free \in 0..RingSize
  BY DEF RingTypeOK
<1>1. CASE PullCancelled
  <2>1. puller' \in [pc : Pcs, buf : Bufs] /\ Holds(puller)' = 0 /\ Holds(puller) = 0
    BY <1>1 DEF PullCancelled, PullReturns, Pcs, Holds, EOF, Bufs
  <2>2. RingTypeOK'
    BY <1>1, <2>1 DEF PullCancelled, RingTypeOK
  <2> QED
    BY <1>1, <2>1, <2>2 DEF PullCancelled, SlotsAccounted, Holds
<1>2. CASE Pull
  <2>1. puller' = [pc |-> "down", buf |-> puller.buf]
    BY <1>0, <1>2 DEF Pull
  <2>2. puller' \in [pc : Pcs, buf : Bufs] /\ Holds(puller)' = 0 /\ Holds(puller) = 0
    BY <1>0, <1>2, <2>1 DEF Pull, Pcs, Holds
  <2>3. RingTypeOK'
    BY <1>2, <2>2 DEF Pull, RingTypeOK
  <2> QED
    BY <1>2, <2>2, <2>3 DEF Pull, SlotsAccounted, Holds
<1>3. CASE PullDown
  <2>1. puller' = [pc |-> "ring", buf |-> puller.buf]
    BY <1>0, <1>3 DEF PullDown
  <2>2. puller' \in [pc : Pcs, buf : Bufs] /\ Holds(puller)' = 1 /\ Holds(puller) = 0
    BY <1>0, <1>3, <2>1 DEF PullDown, Pcs, Holds
  <2>3. Holds(pusher)' = Holds(pusher)
    BY <1>3 DEF PullDown, Holds
  <2>4. SlotsAccounted'
    BY <1>0, <1>3, <2>2, <2>3, HoldsType DEF PullDown, SlotsAccounted
  <2>5. used' \in 0..RingSize
    BY <1>0, <1>3 DEF PullDown
  <2> QED
    BY <1>3, <2>2, <2>4, <2>5 DEF PullDown, RingTypeOK
<1>4. CASE PullTake
  <2>1. ring_tail' \in Slots /\ ring[ring_tail] \in Bufs
    BY <1>4, NextSlot DEF PullTake, RingTypeOK
  <2>2. puller' \in [pc : Pcs, buf : Bufs] /\ Holds(puller)' = 1 /\ Holds(puller) = 1
    BY <1>4, <2>1 DEF PullTake, Pcs, Holds
  <2>3. got' \in Seq(Bufs)
    BY <1>4, <2>1 DEF PullTake, RingTypeOK
  <2>4. RingTypeOK'
    BY <1>4, <2>1, <2>2, <2>3 DEF PullTake, RingTypeOK
  <2> QED
    BY <1>4, <2>2, <2>4 DEF PullTake, SlotsAccounted, Holds
<1>5. CASE PullUp
  <2>1. puller' \in [pc : Pcs, buf : Bufs] /\ Holds(puller)' = 0 /\ Holds(puller) = 1
    BY <1>0, <1>5 DEF PullUp, PullReturns, Pcs, Holds
  <2>2. Holds(pusher)' = Holds(pusher)
    BY <1>5 DEF PullUp, Holds
  <2>3. SlotsAccounted'
    BY <1>0, <1>5, <2>1, <2>2, HoldsType DEF PullUp, SlotsAccounted
  <2>4. free' \in 0..RingSize
    <3>1. used + free + Holds(pusher) + 1 = RingSize
      BY <2>1 DEF SlotsAccounted
    <3> QED
      BY <1>0, <1>5, <3>1, HoldsType DEF PullUp
  <2> QED
    BY <1>5, <2>1, <2>3, <2>4 DEF PullUp, RingTypeOK
<1> QED
  BY <1>1, <1>2, <1>3, <1>4, <1>5 DEF Puller

\* The main thread moves the tail at most, which holds no slot.
LEMMA MainRing == RingInv /\ (Cancel \/ EmptyRing \/ Finalize) => RingInv'
<1> SUFFICES ASSUME RingInv, Cancel \/ EmptyRing \/ Finalize PROVE RingInv'
  OBVIOUS
<1> USE RingAssumption DEF RingInv, RingTypeOK, SlotsAccounted, Holds
<1>1. CASE Cancel
  BY <1>1 DEF Cancel
<1>2. CASE EmptyRing
  BY <1>2, NextSlot DEF EmptyRing, Bufs, EOF
<1>3. CASE Finalize
  BY <1>3 DEF Finalize
<1> QED
  BY <1>1, <1>2, <1>3

LEMMA StepRing == RingInv /\ [Next]_vars => RingInv'
<1> SUFFICES ASSUME RingInv, [Next]_vars PROVE RingInv'
  OBVIOUS
<1>1. CASE UNCHANGED vars
  BY <1>1 DEF vars, RingInv, RingTypeOK, SlotsAccounted, Holds
<1> QED
  BY <1>1, PusherRing, PullerRing, MainRing DEF Next

\* push_buffer_impl and pull_buffer_impl never give a slot twice and never leak
\* one, wherever a cancellation finds them.
THEOREM SlotsAreAccounted == Spec => []SlotsAccounted
<1>1. RingInv => SlotsAccounted
  BY DEF RingInv
<1> QED
  BY InitRing, StepRing, <1>1, PTL DEF Spec

\* The type invariant of the ring; in particular neither semaphore ever counts
\* more than the ring has slots.
THEOREM RingTypeCorrect == Spec => []RingTypeOK
<1>1. RingInv => RingTypeOK
  BY DEF RingInv
<1> QED
  BY InitRing, StepRing, <1>1, PTL DEF Spec

-----------------------------------------------------------------------------
(* The ring is a queue.                                                    *)

\* The k-th slot from slot t on.
At(t, k) == IF t + k < RingSize THEN t + k ELSE t + k - RingSize

\* It is what the code computes, a slot, and another one for another k.
LEMMA AtIsModulo ==
  ASSUME NEW t \in Slots, NEW k \in 0..RingSize
  PROVE  (t + k) % RingSize = At(t, k) /\ At(t, k) \in Slots
BY RingAssumption DEF Slots, At

LEMMA AtMovesOn ==
  ASSUME NEW t \in Slots, NEW k \in 0..(RingSize - 1)
  PROVE  At(At(t, k), 1) = At(t, k + 1) /\ At(At(t, 1), k) = At(t, k + 1)
BY RingAssumption DEF Slots, At

LEMMA AtDiffers ==
  ASSUME NEW t \in Slots, NEW k \in 0..(RingSize - 1), NEW l \in 0..(RingSize - 1), k # l
  PROVE  At(t, k) # At(t, l)
BY RingAssumption DEF Slots, At

\* How many buffers are stored and not taken.
Stored == Len(pushed) - Len(got)

IsAt(thread, pc) == IF thread.pc = pc THEN 1 ELSE 0

\* They are counted by ring_used_sem, but for the one that upstream has stored and not yet
\* counted, and the one that downstream has discounted and not yet taken.
StoredCounted == Stored = used + IsAt(pusher, "up") + IsAt(puller, "ring")

\* Until finalize_impl empties the ring, they lie in order between tail and head.
StoredInOrder ==
    ~ThreadsEnded =>
        /\ ring_head = At(ring_tail, Stored)
        /\ \A i \in 1..Stored : ring[At(ring_tail, i - 1)] = pushed[Len(got) + i]

FifoInv == RingInv /\ StoredCounted /\ StoredInOrder

\* There are never more of them than slots, and fewer when one is about to be stored.
LEMMA StoredBound ==
  ASSUME FifoInv
  PROVE  /\ Stored \in 0..RingSize
         /\ pusher.pc = "ring" => Stored < RingSize
         /\ puller.pc = "ring" => Stored > 0
<1>1. used \in 0..RingSize /\ free \in 0..RingSize
  BY DEF FifoInv, RingInv, RingTypeOK
<1>2. /\ IsAt(pusher, "up") \in 0..1 /\ IsAt(puller, "ring") \in 0..1
      /\ Holds(pusher) \in 0..1 /\ Holds(puller) \in 0..1
      /\ IsAt(pusher, "up") <= Holds(pusher) /\ IsAt(puller, "ring") <= Holds(puller)
  BY DEF IsAt, Holds
<1>3. /\ pusher.pc = "ring" => IsAt(pusher, "up") = 0 /\ Holds(pusher) = 1
      /\ puller.pc = "ring" => IsAt(puller, "ring") = 1
  BY DEF IsAt, Holds
<1>4. /\ Stored = used + IsAt(pusher, "up") + IsAt(puller, "ring")
      /\ used + free + Holds(pusher) + Holds(puller) = RingSize
  BY DEF FifoInv, RingInv, StoredCounted, SlotsAccounted
<1> QED BY <1>1, <1>2, <1>3, <1>4, RingAssumption

\* A step that leaves the ring alone.
LEMMA FifoFrame ==
  ASSUME FifoInv, RingInv', UNCHANGED <<ring, ring_head, ring_tail, pushed, got>>,
         ThreadsEnded => ThreadsEnded',
         used' + IsAt(pusher', "up") + IsAt(puller', "ring")
            = used + IsAt(pusher, "up") + IsAt(puller, "ring")
  PROVE  FifoInv'
<1>1. Stored' = Stored
  BY DEF Stored
<1>2. StoredCounted'
  BY <1>1 DEF FifoInv, StoredCounted, IsAt
<1>3. StoredInOrder'
  BY <1>1 DEF FifoInv, StoredInOrder
<1> QED BY <1>2, <1>3 DEF FifoInv

\* The semaphores and the main thread.
LEMMA QuietFifo ==
  ASSUME FifoInv, RingInv',
         \/ PushDrop \/ Push \/ PushDown \/ PushUp \/ PullCancelled \/ Pull \/ PullDown \/ PullUp
         \/ Cancel \/ Finalize \/ UNCHANGED vars
  PROVE  FifoInv'
<1>0. /\ pusher \in [pc : Pcs, buf : Bufs] /\ puller \in [pc : Pcs, buf : Bufs] /\ used \in Nat
      /\ pusher' \in [pc : Pcs, buf : Bufs] /\ puller' \in [pc : Pcs, buf : Bufs] /\ used' \in Nat
  BY RingAssumption DEF FifoInv, RingInv, RingTypeOK
<1>1. UNCHANGED <<ring, ring_head, ring_tail, pushed, got>>
  BY DEF PushDrop, Push, PushDown, PushUp, PullCancelled, Pull, PullDown, PullUp, Cancel, Finalize,
         vars
<1>2. ThreadsEnded => ThreadsEnded'
  BY DEF PushDrop, Push, PushDown, PushUp, PullCancelled, Pull, PullDown, PullUp, Cancel, Finalize,
         vars, ThreadsEnded
<1> DEFINE u == IsAt(pusher, "up")
           r == IsAt(puller, "ring")
<1>3. u \in 0..1 /\ r \in 0..1 /\ u' \in 0..1 /\ r' \in 0..1
  BY DEF IsAt
<1>4. CASE PushDrop \/ Push \/ PushDown \/ PullCancelled \/ Pull \/ PullUp \/ Cancel \/ Finalize
           \/ UNCHANGED vars
  <2>1. used' = used
    BY <1>4 DEF PushDrop, Push, PushDown, PullCancelled, Pull, PullUp, Cancel, Finalize, vars
  <2>2. u' = u
    BY <1>0, <1>4 DEF PushDrop, Push, PushDown, PullCancelled, Pull, PullUp, Cancel, Finalize, vars,
                      PushReturns, IsAt
  <2>3. r' = r
    BY <1>0, <1>4 DEF PushDrop, Push, PushDown, PullCancelled, Pull, PullUp, Cancel, Finalize, vars,
                      PullReturns, IsAt
  <2> QED BY <1>1, <1>2, <2>1, <2>2, <2>3, FifoFrame
<1>5. CASE PushUp
  <2>1. used' = used + 1 /\ u = 1 /\ u' = 0 /\ r' = r
    BY <1>0, <1>5 DEF PushUp, PushReturns, IsAt
  <2> HIDE DEF u, r
  <2>2. used' + u' + r' = used + u + r
    BY <1>0, <1>3, <2>1
  <2> QED BY <1>1, <1>2, <2>2, FifoFrame DEF u, r
<1>6. CASE PullDown
  <2>1. used' = used - 1 /\ r = 0 /\ r' = 1 /\ u' = u
    BY <1>0, <1>6 DEF PullDown, IsAt
  <2> HIDE DEF u, r
  <2>2. used' + u' + r' = used + u + r
    BY <1>0, <1>3, <2>1
  <2> QED BY <1>1, <1>2, <2>2, FifoFrame DEF u, r
<1> QED BY <1>4, <1>5, <1>6

\* finalize_impl: nothing is said of the ring any more.
LEMMA EmptyFifo ==
  ASSUME FifoInv, RingInv', EmptyRing
  PROVE  FifoInv'
<1>1. UNCHANGED <<used, pusher, puller, pushed, got>> /\ ThreadsEnded
  BY DEF EmptyRing
<1>2. Stored' = Stored /\ ThreadsEnded'
  BY <1>1 DEF Stored, ThreadsEnded
<1> QED BY <1>1, <1>2 DEF FifoInv, StoredCounted, StoredInOrder, IsAt

\* A buffer is stored behind the others, in a slot that is none of theirs.
LEMMA StoreFifo ==
  ASSUME FifoInv, RingInv', PushStore
  PROVE  FifoInv' /\ Stored < RingSize /\ Stored' = Stored + 1
<1>0. /\ pusher \in [pc : Pcs, buf : Bufs] /\ pushed \in Seq(Bufs) /\ got \in Seq(Bufs)
      /\ ring \in [Slots -> Bufs] /\ ring_tail \in Slots /\ used \in Nat
  BY RingAssumption DEF FifoInv, RingInv, RingTypeOK
<1>1. /\ UNCHANGED <<ring_tail, used, puller, got>> /\ pusher.pc = "ring" /\ pusher'.pc = "up"
      /\ ring' = [ring EXCEPT ![ring_head] = pusher.buf]
      /\ ring_head' = (ring_head + 1) % RingSize
      /\ pushed' = Append(pushed, pusher.buf)
  BY <1>0 DEF PushStore
<1>2. PICK n \in 0..(RingSize - 1) : n = Stored
  BY <1>1, StoredBound, RingAssumption
<1>3. PICK p \in Nat : p = Len(pushed)
  BY <1>0
<1>4. PICK g \in Nat : g = Len(got)
  BY <1>0
<1>5. p = g + n
  BY <1>2, <1>3, <1>4 DEF Stored
<1>6. /\ Len(pushed') = p + 1 /\ pushed'[p + 1] = pusher.buf
      /\ \A i \in 1..p : pushed'[i] = pushed[i]
  BY <1>0, <1>1, <1>3
<1>7. Stored' = n + 1 /\ Len(got') = g
  BY <1>1, <1>2, <1>4, <1>5, <1>6 DEF Stored
<1>8. StoredCounted'
  <2>1. IsAt(pusher, "up") = 0 /\ IsAt(pusher', "up") = 1 /\ IsAt(puller', "ring") = IsAt(puller, "ring")
        /\ IsAt(puller, "ring") \in Nat
    BY <1>1 DEF IsAt
  <2>2. n = used + 0 + IsAt(puller, "ring")
    BY <1>2, <2>1 DEF FifoInv, StoredCounted
  <2>3. Stored' = used' + IsAt(pusher', "up") + IsAt(puller', "ring")
    BY <1>0, <1>1, <1>7, <2>1, <2>2
  <2> QED BY <2>3 DEF StoredCounted, IsAt
<1>9. ring_head = At(ring_tail, n) /\ \A i \in 1..n : ring[At(ring_tail, i - 1)] = pushed[g + i]
  <2>1. ~ThreadsEnded
    BY <1>1 DEF ThreadsEnded
  <2> QED BY <1>2, <1>4, <2>1 DEF FifoInv, StoredInOrder
<1>10. ring_head' = At(ring_tail, n + 1)
  <2>1. At(ring_tail, n) \in Slots /\ 1 \in 0..RingSize
    BY <1>0, <1>2, AtIsModulo, RingAssumption
  <2>2. (At(ring_tail, n) + 1) % RingSize = At(At(ring_tail, n), 1)
    BY <2>1, AtIsModulo
  <2> QED BY <1>0, <1>1, <1>2, <1>9, <2>2, AtMovesOn
<1>11. \A i \in 1..(n + 1) : ring'[At(ring_tail, i - 1)] = pushed'[g + i]
  <2> SUFFICES ASSUME NEW i \in 1..(n + 1)
               PROVE  ring'[At(ring_tail, i - 1)] = pushed'[g + i]
    OBVIOUS
  <2>1. i - 1 \in 0..(RingSize - 1) /\ i - 1 \in 0..RingSize
    BY <1>2, RingAssumption
  <2>2. At(ring_tail, i - 1) \in Slots
    BY <1>0, <2>1, AtIsModulo
  <2>3. CASE i = n + 1
    <3>1. At(ring_tail, i - 1) = ring_head
      BY <1>2, <1>9, <2>3
    <3>2. ring'[ring_head] = pusher.buf
      BY <1>0, <1>1, <2>2, <3>1
    <3>3. g + i = p + 1
      BY <1>5, <2>3
    <3> QED BY <1>6, <3>1, <3>2, <3>3
  <2>4. CASE i # n + 1
    <3>1. i \in 1..n /\ i - 1 # n /\ g + i \in 1..p
      BY <1>5, <2>4
    <3>2. At(ring_tail, i - 1) # ring_head
      BY <1>0, <1>9, <2>1, <3>1, AtDiffers
    <3>3. ring'[At(ring_tail, i - 1)] = ring[At(ring_tail, i - 1)]
      BY <1>0, <1>1, <2>2, <3>2
    <3> QED BY <1>6, <1>9, <3>1, <3>3
  <2> QED BY <2>3, <2>4
<1>12. StoredInOrder'
  BY <1>1, <1>7, <1>10, <1>11 DEF StoredInOrder
<1> QED BY <1>2, RingAssumption, <1>7, <1>8, <1>12 DEF FifoInv

\* The buffer at the tail is the one that was stored first.
LEMMA TakeFifo ==
  ASSUME FifoInv, RingInv', PullTake
  PROVE  /\ FifoInv' /\ Stored > 0 /\ Stored' = Stored - 1
         /\ got' = Append(got, pushed[Len(got) + 1])
<1>0. /\ puller \in [pc : Pcs, buf : Bufs] /\ pushed \in Seq(Bufs) /\ got \in Seq(Bufs)
      /\ ring_tail \in Slots /\ used \in Nat /\ ring[ring_tail] \in Bufs
  BY RingAssumption DEF FifoInv, RingInv, RingTypeOK
<1>1. /\ UNCHANGED <<ring, ring_head, used, pusher, pushed>>
      /\ puller.pc = "ring" /\ puller'.pc = "up"
      /\ ring_tail' = (ring_tail + 1) % RingSize /\ got' = Append(got, ring[ring_tail])
  BY DEF PullTake
<1>2. PICK n \in 1..RingSize : n = Stored
  BY <1>1, StoredBound, RingAssumption
<1>3. PICK g \in Nat : g = Len(got)
  BY <1>0
<1>4. Len(got') = g + 1 /\ Stored' = n - 1
  BY <1>0, <1>1, <1>2, <1>3 DEF Stored
<1>5. ring_head = At(ring_tail, n) /\ \A i \in 1..n : ring[At(ring_tail, i - 1)] = pushed[g + i]
  <2>1. ~ThreadsEnded
    BY <1>1 DEF ThreadsEnded
  <2> QED BY <1>2, <1>3, <2>1 DEF FifoInv, StoredInOrder
<1>6. got' = Append(got, pushed[g + 1])
  <2>1. At(ring_tail, 1 - 1) = ring_tail
    BY <1>0, RingAssumption DEF At, Slots
  <2> QED BY <1>1, <1>2, <1>5, <2>1
<1>7. StoredCounted'
  <2>1. IsAt(puller, "ring") = 1 /\ IsAt(puller', "ring") = 0 /\ IsAt(pusher', "up") = IsAt(pusher, "up")
        /\ IsAt(pusher, "up") \in Nat
    BY <1>1 DEF IsAt
  <2>2. n = used + IsAt(pusher, "up") + 1
    BY <1>2, <2>1 DEF FifoInv, StoredCounted
  <2>3. Stored' = used' + IsAt(pusher', "up") + IsAt(puller', "ring")
    BY <1>0, <1>1, <1>4, <2>1, <2>2
  <2> QED BY <2>3 DEF StoredCounted, IsAt
<1>8. ring_tail' = At(ring_tail, 1)
  BY <1>0, <1>1, AtIsModulo, RingAssumption
<1>9. ring_head' = At(ring_tail', n - 1)
  <2>1. n - 1 \in 0..(RingSize - 1) /\ (n - 1) + 1 = n
    BY <1>2, RingAssumption
  <2> QED BY <1>0, <1>1, <1>5, <1>8, <2>1, AtMovesOn
<1>10. \A i \in 1..(n - 1) : ring'[At(ring_tail', i - 1)] = pushed'[g + 1 + i]
  <2> SUFFICES ASSUME NEW i \in 1..(n - 1)
               PROVE  ring'[At(ring_tail', i - 1)] = pushed'[g + 1 + i]
    OBVIOUS
  <2>1. i - 1 \in 0..(RingSize - 1) /\ (i - 1) + 1 = (i + 1) - 1 /\ i + 1 \in 1..n
        /\ g + (i + 1) = g + 1 + i
    BY <1>2, RingAssumption
  <2>2. At(ring_tail', i - 1) = At(ring_tail, (i + 1) - 1)
    BY <1>0, <1>8, <2>1, AtMovesOn
  <2> QED BY <1>1, <1>5, <2>1, <2>2
<1>11. StoredInOrder'
  BY <1>4, <1>9, <1>10 DEF StoredInOrder
<1> QED BY <1>2, <1>3, <1>4, <1>6, <1>7, <1>11 DEF FifoInv

\* It is so from setup_impl on.
LEMMA InitFifo == Init => FifoInv
<1> SUFFICES ASSUME Init PROVE FifoInv
  OBVIOUS
<1>1. RingInv
  BY InitRing
<1>2. Stored = 0 /\ IsAt(pusher, "up") = 0 /\ IsAt(puller, "ring") = 0 /\ used = 0
  BY DEF Init, Stored, IsAt
<1>3. ring_head = At(ring_tail, 0)
  BY RingAssumption DEF Init, At
<1> QED BY <1>1, <1>2, <1>3 DEF FifoInv, StoredCounted, StoredInOrder

LEMMA StepFifo == FifoInv /\ [Next]_vars => FifoInv'
<1> SUFFICES ASSUME FifoInv, [Next]_vars PROVE FifoInv'
  OBVIOUS
<1>1. RingInv'
  BY StepRing DEF FifoInv
<1> QED BY <1>1, QuietFifo, EmptyFifo, StoreFifo, TakeFifo DEF Next, Pusher, Puller

\* The queue is what was stored and not taken.
Waiting == [i \in 1..Stored |-> pushed[Len(got) + i]]

LEMMA BetweenIsWaiting ==
  ASSUME FifoInv
  PROVE  Between = Waiting
<1>1. CASE ThreadsEnded
  BY <1>1 DEF Between, Waiting, Stored
<1>2. CASE ~ThreadsEnded
  <2>1. PICK n \in 0..RingSize : n = Stored
    BY StoredBound, RingAssumption
  <2>2. ring_tail \in Slots
    BY DEF FifoInv, RingInv, RingTypeOK
  <2>3. ASSUME NEW i \in 1..n
        PROVE  ring[(ring_tail + i - 1) % RingSize] = pushed[Len(got) + i]
    <3>1. i - 1 \in 0..RingSize /\ ring_tail + i - 1 = ring_tail + (i - 1)
      BY <2>2, RingAssumption DEF Slots
    <3>2. (ring_tail + (i - 1)) % RingSize = At(ring_tail, i - 1)
      BY <2>2, <3>1, AtIsModulo
    <3>3. ring[At(ring_tail, i - 1)] = pushed[Len(got) + i]
      BY <1>2, <2>1 DEF FifoInv, StoredInOrder
    <3> QED BY <3>1, <3>2, <3>3
  <2>4. /\ Between = [i \in 1..n |-> ring[(ring_tail + i - 1) % RingSize]]
        /\ Waiting = [i \in 1..n |-> pushed[Len(got) + i]]
    BY <1>2, <2>1 DEF Between, Waiting, Stored
  <2> QED BY <2>3, <2>4
<1> QED BY <1>1, <1>2

\* And after a step.
LEMMA BetweenNext == FifoInv' => (Between = Waiting)'
<1>1. FifoInv => Between = Waiting
  BY BetweenIsWaiting
<1> QED BY <1>1, PTL

\* It is a sequence.
LEMMA WaitingType ==
  ASSUME FifoInv
  PROVE  Waiting \in Seq(Bufs) /\ Len(Waiting) = Stored
<1>1. pushed \in Seq(Bufs) /\ got \in Seq(Bufs)
  BY DEF FifoInv, RingInv, RingTypeOK
<1>2. PICK n \in Nat : n = Stored
  BY StoredBound, RingAssumption
<1>3. PICK g \in Nat : g = Len(got)
  BY <1>1
<1>4. PICK p \in Nat : p = Len(pushed)
  BY <1>1
<1>5. p = g + n
  BY <1>2, <1>3, <1>4 DEF Stored
<1>6. ASSUME NEW i \in 1..n PROVE pushed[g + i] \in Bufs
  <2>1. g + i \in 1..p
    BY <1>5
  <2> QED BY <1>1, <1>4, <2>1
<1>7. Waiting = [i \in 1..n |-> pushed[g + i]]
  BY <1>2, <1>3 DEF Waiting
<1> QED BY <1>2, <1>6, <1>7

\* Storing a buffer is Enqueue.
LEMMA StoreEnqueues ==
  ASSUME FifoInv, FifoInv', PushStore
  PROVE  Queue!Enqueue(pusher.buf) /\ pusher.buf \in Bufs
<1>0. /\ pushed \in Seq(Bufs) /\ got \in Seq(Bufs) /\ pusher.buf \in Bufs /\ RingInv'
      /\ got' = got /\ pushed' = Append(pushed, pusher.buf)
  BY DEF FifoInv, RingInv, RingTypeOK, PushStore
<1>1. Stored < RingSize /\ Stored' = Stored + 1
  BY <1>0, StoreFifo
<1>2. PICK n \in Nat : n = Stored
  BY StoredBound, RingAssumption
<1>3. PICK g \in Nat : g = Len(got)
  BY <1>0
<1>4. Len(pushed) = g + n
  BY <1>0, <1>2, <1>3 DEF Stored
<1>5. /\ Waiting = [i \in 1..n |-> pushed[g + i]] /\ Waiting \in Seq(Bufs) /\ Len(Waiting) = n
      /\ Waiting' = [i \in 1..(n + 1) |-> pushed'[g + i]]
  BY <1>0, <1>1, <1>2, <1>3, WaitingType DEF Waiting
<1>6. \A i \in 1..n : pushed'[g + i] = pushed[g + i]
  BY <1>0, <1>4
<1>7. pushed'[g + (n + 1)] = pusher.buf
  BY <1>0, <1>4
<1>8. Waiting' = Append(Waiting, pusher.buf)
  <2> DEFINE w == Append(Waiting, pusher.buf)
  <2>1. w \in Seq(Bufs) /\ Len(w) = n + 1 /\ w[n + 1] = pusher.buf
        /\ \A i \in 1..n : w[i] = Waiting[i]
    BY <1>0, <1>5
  <2>2. w = [i \in 1..(n + 1) |-> w[i]]
    BY <2>1
  <2> HIDE DEF w
  <2>3. ASSUME NEW i \in 1..(n + 1) PROVE w[i] = pushed'[g + i]
    <3>1. CASE i = n + 1
      BY <1>7, <2>1, <3>1
    <3>2. CASE i # n + 1
      <4>1. i \in 1..n
        BY <3>2
      <4> QED BY <1>5, <1>6, <2>1, <4>1
    <3> QED BY <3>1, <3>2
  <2>4. Waiting' = w
    BY <1>5, <2>2, <2>3
  <2> QED BY <2>4 DEF w
<1>9. Between = Waiting /\ Between' = Waiting'
  BY BetweenIsWaiting, BetweenNext
<1>10. Len(Between) < RingSize
  BY <1>1, <1>2, <1>5, <1>9
<1> QED BY <1>0, <1>8, <1>9, <1>10 DEF Queue!Enqueue

\* What is left of a sequence.
LEMMA TailOf ==
  ASSUME NEW s \in Seq(Bufs), NEW m \in Nat, Len(s) = m + 1
  PROVE  Tail(s) \in Seq(Bufs) /\ Len(Tail(s)) = m /\ \A i \in 1..m : Tail(s)[i] = s[i + 1]
<1>1. s # <<>>
  OBVIOUS
<1>2. Tail(s) \in Seq(Bufs)
  BY <1>1
<1>3. Len(Tail(s)) = m
  BY <1>1
<1>4. \A i \in 1..m : Tail(s)[i] = s[i + 1]
  BY <1>1
<1> QED BY <1>2, <1>3, <1>4

\* Taking one is Dequeue.
LEMMA TakeDequeues ==
  ASSUME FifoInv, FifoInv', PullTake
  PROVE  Queue!Dequeue
<1>0. pushed \in Seq(Bufs) /\ got \in Seq(Bufs) /\ RingInv' /\ pushed' = pushed
  BY DEF FifoInv, RingInv, RingTypeOK, PullTake
<1>1. Stored > 0 /\ Stored' = Stored - 1 /\ got' = Append(got, pushed[Len(got) + 1])
  BY <1>0, TakeFifo
<1>2. PICK n \in Nat \ {0} : n = Stored
  BY <1>1, StoredBound, RingAssumption
<1>3. PICK g \in Nat : g = Len(got)
  BY <1>0
<1>4. Len(got') = g + 1
  BY <1>0, <1>1, <1>3
<1>5. /\ Waiting = [i \in 1..n |-> pushed[g + i]] /\ Waiting \in Seq(Bufs) /\ Len(Waiting) = n
      /\ Waiting' = [i \in 1..(n - 1) |-> pushed[(g + 1) + i]]
  BY <1>0, <1>1, <1>2, <1>3, <1>4, WaitingType DEF Waiting
<1>6. Waiting # <<>> /\ Head(Waiting) = pushed[g + 1]
  BY <1>2, <1>5
<1>7. Waiting' = Tail(Waiting)
  <2>1. PICK m \in Nat : m = n - 1
    BY <1>2
  <2>2. Len(Waiting) = m + 1
    BY <1>2, <1>5, <2>1
  <2>3. PICK w \in Seq(Bufs) : /\ w = Tail(Waiting) /\ Len(w) = m
                              /\ \A i \in 1..m : w[i] = Waiting[i + 1]
    BY <1>5, <2>2, TailOf
  <2>4. ASSUME NEW i \in 1..m PROVE w[i] = pushed[(g + 1) + i] /\ w[i] \in Bufs
    <3>1. i + 1 \in 1..n /\ g + (i + 1) = (g + 1) + i
      BY <1>2, <2>1
    <3>2. w[i] \in Bufs
      BY <2>3
    <3> QED BY <1>5, <2>3, <3>1, <3>2
  <2>5. PICK v : v = [i \in 1..m |-> pushed[(g + 1) + i]]
    OBVIOUS
  <2>6. v \in Seq(Bufs) /\ Len(v) = m /\ \A i \in 1..m : v[i] = w[i]
    <3>1. \A i \in 1..m : pushed[(g + 1) + i] = w[i] /\ w[i] \in Bufs
      BY <2>4
    <3>2. v \in [1..m -> Bufs] /\ \A i \in 1..m : v[i] = w[i]
      BY <2>5, <3>1
    <3>3. v \in Seq(Bufs) /\ Len(v) = m
      BY <3>2
    <3> QED BY <3>2, <3>3
  <2>7. v = w
    BY <2>3, <2>6
  <2> QED BY <1>5, <2>1, <2>3, <2>5, <2>7
<1>8. Between = Waiting /\ Between' = Waiting'
  BY BetweenIsWaiting, BetweenNext
<1>9. got' = Append(got, Head(Between))
  BY <1>1, <1>3, <1>6, <1>8
<1> QED BY <1>6, <1>7, <1>8, <1>9 DEF Queue!Dequeue

\* The other steps leave the queue alone.
LEMMA OthersStutter ==
  ASSUME FifoInv, FifoInv', UNCHANGED <<pushed, got>>
  PROVE  UNCHANGED <<Between, got>>
<1>1. Stored' = Stored
  BY DEF Stored
<1>2. Waiting' = Waiting
  BY <1>1 DEF Waiting
<1> QED BY <1>2, BetweenIsWaiting, BetweenNext

\* The ring, its two semaphores and the three unlocked steps of push_buffer_impl and
\* pull_buffer_impl implement a bounded queue, for every size of the ring and every
\* moment of cancellation: no buffer is overwritten, lost, repeated or overtaken.
THEOREM RingIsFifo == Spec => IsFifo
<1>1. Init => Queue!Init
  <2> SUFFICES ASSUME Init PROVE Between = <<>> /\ got = <<>>
    BY DEF Queue!Init
  <2>1. Between = Waiting /\ Waiting \in Seq(Bufs) /\ Len(Waiting) = Stored
    BY InitFifo, BetweenIsWaiting, WaitingType
  <2>2. Stored = 0 /\ got = <<>>
    BY DEF Init, Stored
  <2> QED BY <2>1, <2>2
<1>2. FifoInv /\ FifoInv' /\ [Next]_vars => [Queue!Next]_<<Between, got>>
  <2> SUFFICES ASSUME FifoInv, FifoInv', [Next]_vars
               PROVE  Queue!Next \/ UNCHANGED <<Between, got>>
    OBVIOUS
  <2>1. CASE PushStore
    BY <2>1, StoreEnqueues DEF Queue!Next
  <2>2. CASE PullTake
    BY <2>2, TakeDequeues DEF Queue!Next
  <2>3. CASE ~PushStore /\ ~PullTake
    <3>1. UNCHANGED <<pushed, got>>
      BY <2>3 DEF Next, Pusher, Puller, Cancel, PushDrop, Push, PushDown, PushUp, PullCancelled,
                  Pull, PullDown, PullUp, EmptyRing, Finalize, vars
    <3> QED BY <3>1, OthersStutter
  <2> QED BY <2>1, <2>2, <2>3
<1> QED BY InitFifo, StepFifo, <1>1, <1>2, PTL DEF Spec, IsFifo, Queue!Spec

-----------------------------------------------------------------------------
(* The semaphores.                                                         *)

\* NoLostWakeup is inductive once the types are known.
SemInv == SemTypeOK /\ NoLostWakeup

LEMMA CallsAreNotIdle == Idle \notin Calls
BY DEF Idle, Calls

\* The initial value wakes and blocks nobody.
LEMMA InitSem == SemInit => SemInv
BY DEF SemInit, SemInv, SemTypeOK, NoLostWakeup

\* One call, test, adjustment or wakeup keeps the invariant.
LEMMA StepSem == SemInv /\ [SemNext]_semVars => SemInv'
<1> SUFFICES ASSUME SemInv, [SemNext]_semVars PROVE SemInv'
  OBVIOUS
<1> USE AmountsAssumption, CallsAreNotIdle DEF SemInv, SemTypeOK, NoLostWakeup
<1>0. \A t \in Threads : op[t].n \in Nat
  <2> SUFFICES ASSUME NEW t \in Threads PROVE op[t].n \in Nat
    OBVIOUS
  <2>1. op[t] \in Calls \/ op[t] = Idle
    OBVIOUS
  <2>2. \A c \in Calls : c.n \in Nat
    <3>1. \A c \in [call : {"decrement"}, n : Amounts] : c.n \in Nat
      OBVIOUS
    <3>2. [call |-> "wait_empty", n |-> 0].n \in Nat
      OBVIOUS
    <3> QED
      BY <3>1, <3>2 DEF Calls
  <2>3. Idle.n \in Nat
    BY DEF Idle
  <2> QED
    BY <2>1, <2>2, <2>3
<1>1. ASSUME NEW t \in Threads, NEW c \in Calls, Call(t, c) PROVE SemInv'
  BY <1>1 DEF Call
<1>2. ASSUME NEW t \in Threads, Decrement(t) PROVE SemInv'
  <2>1. value' \in Int /\ value' <= value
    BY <1>0, <1>2 DEF Decrement
  <2>2. asleep' \subseteq asleep /\ t \notin asleep
    BY <1>2 DEF Decrement, Tests, CheckEmpty, Broadcast
  <2>3. op' = [op EXCEPT ![t] = Idle]
    BY <1>2 DEF Decrement
  <2>4. SemTypeOK'
    BY <2>1, <2>2, <2>3
  <2>5. \A s \in asleep' : op'[s] = op[s] /\ s \in Threads
    BY <2>2, <2>3
  <2>6. value' <= 0 => \A s \in asleep' : op[s].call # "wait_empty"
    BY <1>2 DEF Decrement, CheckEmpty, Broadcast
  <2>7. NoLostWakeup'
    BY <1>0, <2>1, <2>2, <2>5, <2>6
  <2> QED
    BY <2>4, <2>7
<1>3. ASSUME NEW t \in Threads, DecrementWaits(t) PROVE SemInv'
  BY <1>3 DEF DecrementWaits, Tests, Idle
<1>4. ASSUME NEW t \in Threads, WaitEmpty(t) PROVE SemInv'
  BY <1>4 DEF WaitEmpty, Tests
<1>5. ASSUME NEW t \in Threads, WaitEmptyWaits(t) PROVE SemInv'
  BY <1>5 DEF WaitEmptyWaits, Tests, Idle
<1>6. ASSUME NEW inc \in Int, ForceAdjust(inc) PROVE SemInv'
  <2>1. value' = value + inc /\ op' = op /\ asleep' \subseteq asleep
    BY <1>6 DEF ForceAdjust, AdjustWakes, CheckEmpty, Broadcast
  <2>2. inc < 0 /\ value' <= 0 =>
           \A s \in asleep' : op[s].call # "wait_empty"
    BY <1>6 DEF ForceAdjust, AdjustWakes, CheckEmpty, Broadcast
  <2>3. ~ (inc < 0) => \A s \in asleep' : op[s].call # "decrement"
    BY <1>6 DEF ForceAdjust, AdjustWakes, Broadcast
  <2>4. SemTypeOK'
    BY <2>1
  <2>5. NoLostWakeup'
    BY <1>0, <2>1, <2>2, <2>3
  <2> QED
    BY <2>4, <2>5
<1>7. ASSUME NEW v \in Int, ForceSet(v) PROVE SemInv'
  <2>1. value' = v /\ op' = op /\ asleep' \subseteq asleep
    BY <1>7 DEF ForceSet, CheckEmpty, Broadcast
  <2>2. v < value /\ v <= 0 => \A s \in asleep' : op[s].call # "wait_empty"
    BY <1>7 DEF ForceSet, CheckEmpty, Broadcast
  <2>3. ~ (v < value) => \A s \in asleep' : op[s].call # "decrement"
    BY <1>7 DEF ForceSet, Broadcast
  <2>4. SemTypeOK'
    BY <2>1
  <2>5. NoLostWakeup'
    BY <1>0, <2>1, <2>2, <2>3
  <2> QED
    BY <2>4, <2>5
<1>8. ASSUME NEW t \in Threads, Spurious(t) PROVE SemInv'
  BY <1>8 DEF Spurious
<1>9. CASE UNCHANGED semVars
  BY <1>9 DEF semVars
<1> QED
  BY <1>1, <1>2, <1>3, <1>4, <1>5, <1>6, <1>7, <1>8, <1>9 DEF SemNext, Test

\* amsemaphore.c never leaves a thread asleep whose condition holds: neither in
\* amsemaphore_decrement nor in amsemaphore_wait_empty.
THEOREM WakeupsNotLost == SemSpec => []NoLostWakeup
<1>1. SemInv => NoLostWakeup
  BY DEF SemInv
<1> QED
  BY InitSem, StepSem, <1>1, PTL DEF SemSpec

\* The types of the semaphore: the value is an integer, which an adjustment may take
\* below zero; a thread sleeps only within a call.
LEMMA SemTypeCorrect == SemSpec => []SemTypeOK
<1>1. SemInv => SemTypeOK
  BY DEF SemInv
<1> QED
  BY InitSem, StepSem, <1>1, PTL DEF SemSpec

\* The mutex and the condition variables implement the semaphore that
\* amsemaphore.h promises: step by step, with sleeping and waking as stutters.
THEOREM ImplementsPromise == SemSpec => Implements
<1>1. SemInit => Promise!Init
  BY DEF SemInit, Promise!Init, Idle, Promise!Idle
<1>2. ASSUME SemInv, [SemNext]_semVars PROVE [Promise!Next]_<<value, op>>
  <2> USE <1>2, AmountsAssumption DEF SemInv, SemTypeOK
  <2>1. ASSUME NEW t \in Threads, NEW c \in Calls, Call(t, c)
        PROVE  Promise!Next
    <3>1. c \in Promise!Calls
      BY DEF Calls, Promise!Calls
    <3>2. Promise!Ask(t, c)
      BY <2>1 DEF Call, Promise!Ask, Idle, Promise!Idle
    <3> QED
      BY <3>1, <3>2 DEF Promise!Next
  <2>2. ASSUME NEW t \in Threads, Decrement(t) PROVE Promise!Next
    BY <2>2 DEF Decrement, Tests, Promise!Next, Promise!Down, Idle, Promise!Idle
  <2>3. ASSUME NEW t \in Threads, WaitEmpty(t) PROVE Promise!Next
    BY <2>3 DEF WaitEmpty, Tests, Promise!Next, Promise!Empty, Idle, Promise!Idle
  <2>4. ASSUME NEW t \in Threads,
               DecrementWaits(t) \/ WaitEmptyWaits(t) \/ Spurious(t)
        PROVE  UNCHANGED <<value, op>>
    BY <2>4 DEF DecrementWaits, WaitEmptyWaits, Spurious
  <2>5. ASSUME NEW inc \in Int, ForceAdjust(inc) PROVE Promise!Next
    BY <2>5 DEF ForceAdjust, Promise!Next, Promise!Force
  <2>6. ASSUME NEW v \in Int, ForceSet(v) PROVE Promise!Next
    BY <2>6 DEF ForceSet, Promise!Next, Promise!Force
  <2>7. CASE UNCHANGED semVars
    BY <2>7 DEF semVars
  <2> QED
    BY <2>1, <2>2, <2>3, <2>4, <2>5, <2>6, <2>7 DEF SemNext, Test
<1> QED
  BY InitSem, StepSem, <1>1, <1>2, PTL DEF SemSpec, Implements, Promise!Spec
=============================================================================
