----------------------------- MODULE XferProofs -----------------------------
(***************************************************************************)
(* Proofs about module Xfer, for every number of elements and every way in *)
(* which they have threads, pull and generate EOFs: completion counts the  *)
(* XMSG_DONEs correctly, the cancellation reaches every thread before it   *)
(* drains, and nothing that the caller should hear is dropped.             *)
(***************************************************************************)
EXTENDS Xfer, FiniteSetTheorems, TLAPS

-----------------------------------------------------------------------------
(* The inductive invariant, part by part.                                  *)

Indices(q) == 1..Len(q)
DonesIn(q) == {n \in Indices(q) : q[n] = "DONE"}
Living == {i \in Elements : Alive(i)}
Threads == {i \in Elements : pc[i] \notin {"none", "passive"}}

\* The thread of the function pc is always one of the transfer's.
PcType == pc \in [Procs -> MainPcs \cup ThreadPcs]

\* The caller has a reference, and the transfer one to itself while it runs.
References ==
    refcount = (IF held THEN 1 ELSE 0) + (IF status \in {"INIT", "DONE"} THEN 0 ELSE 1)

\* The loops of the main thread are those of the two statuses they end.
MainAt ==
    /\ pc[Main] = "starting" <=> status = "START"
    /\ pc[Main] = "cancelling" <=> status = "CANCELLING"

\* The elements are started from the last to the first, or, after a setup that
\* failed, none is; no thread pulls before all are.
NoneStarted == \A i \in Elements : pc[i] = "none"
Starting ==
    /\ status = "INIT" => NoneStarted
    /\ status = "START" =>
         \/ next \in 0..N /\ \A i \in Elements : i > next <=> pc[i] # "none"
         \/ next = 0 /\ num_active = 0 /\ NoneStarted
    /\ status \notin {"INIT", "START"} =>
         NoneStarted \/ \A i \in Elements : pc[i] # "none"
    /\ \A i \in Pullers : Alive(i) /\ pc[i] # "new" => status \notin {"INIT", "START"}

\* num_active_elements counts the threads that run and the XMSG_DONEs that wait.
Counted ==
    /\ num_active = Cardinality(DonesIn(queue)) + Cardinality(Living)
    /\ \/ num_active <= Cardinality(Threads)
       \/ num_active <= 1 /\ status \notin {"INIT", "START"}
    /\ status \in {"INIT", "DONE"} => num_active = 0

\* The loop that cancels the elements, and what it leaves.
Upstreams(i) == \E j \in Elements : j < i /\ elt[j].can_generate_eof
Marked(i) == elt[i].cancelled /\ elt[i].expect_eof = Upstreams(i)
Cancelling ==
    /\ status = "CANCELLING" =>
         /\ next \in 1..(N + 1)
         /\ expect_eof = Upstreams(next)
         /\ \A i \in Elements : i < next => Marked(i)
    /\ status = "CANCELLED" => \A i \in Elements : Marked(i)
    /\ \A i \in Elements : pc[i] = "draining" => status = "CANCELLED"

\* An XMSG_DONE is in the queue behind the message at n.
DoneBehind(q, n) == \E m \in Indices(q) : n < m /\ q[m] = "DONE"

\* One is still to come: of a thread, or the one that xfer_start sends itself.
DoneToCome ==
    Living # {} \/ (status = "START" /\ next = 0 /\ num_active = 0)

\* An XMSG_DONE follows every XMSG_ERROR, and every XMSG_CANCEL but one, which is the
\* caller's: toCome says that an XMSG_DONE is to come, calling that the caller is in
\* xfer_cancel, and asked that somebody has been.
Followed(q, toCome, calling, asked) ==
    /\ \A n \in Indices(q) : q[n] = "ERROR" => toCome \/ DoneBehind(q, n)
    /\ \A m, n \in Indices(q) :
         m < n /\ q[m] = "CANCEL" /\ q[n] = "CANCEL" => toCome \/ DoneBehind(q, m)
    /\ calling => \A n \in Indices(q) : q[n] = "CANCEL" => toCome \/ DoneBehind(q, n)
    /\ ~ asked => \A n \in Indices(q) : q[n] # "CANCEL"
Heard ==
    /\ Followed(queue, DoneToCome, pc[Main] \in InCancel, cancelled)
    /\ \A p \in Procs : pc[p] = "queue" => cancelled

XferInv ==
    /\ XferTypeOK /\ PcType
    /\ References /\ MainAt /\ Starting /\ Counted /\ Cancelling /\ Heard

-----------------------------------------------------------------------------
(* The queue.                                                              *)

\* What is appended comes last.
LEMMA Appended ==
    ASSUME NEW q \in Seq(Messages), NEW m \in Messages
    PROVE  /\ Append(q, m) \in Seq(Messages)
           /\ Indices(Append(q, m)) = Indices(q) \cup {Len(q) + 1}
           /\ Append(q, m)[Len(q) + 1] = m
           /\ \A n \in Indices(q) : Append(q, m)[n] = q[n]
BY DEF Indices

\* What is popped is the first.
LEMMA Popped ==
    ASSUME NEW q \in Seq(Messages), q # <<>>
    PROVE  /\ Tail(q) \in Seq(Messages)
           /\ Len(q) \in Nat \ {0} /\ Len(Tail(q)) = Len(q) - 1
           /\ Head(q) = q[1]
           /\ \A n \in Indices(Tail(q)) : n + 1 \in Indices(q) /\ Tail(q)[n] = q[n + 1]
           /\ \A n \in Indices(q) : n > 1 => n - 1 \in Indices(Tail(q)) /\ q[n] = Tail(q)[n - 1]
BY DEF Indices

\* There are finitely many XMSG_DONEs.
LEMMA DonesFinite ==
    ASSUME NEW q \in Seq(Messages)
    PROVE  IsFiniteSet(DonesIn(q)) /\ Cardinality(DonesIn(q)) \in Nat
<1>1. IsFiniteSet(Indices(q))
  BY FS_Interval DEF Indices
<1>2. DonesIn(q) \in SUBSET Indices(q)
  BY DEF DonesIn
<1>3. IsFiniteSet(DonesIn(q))
  BY <1>1, <1>2, FS_Subset
<1> QED
  BY <1>3, FS_CardinalityType

\* A message that is appended counts if it is an XMSG_DONE.
LEMMA DonesAppended ==
    ASSUME NEW q \in Seq(Messages), NEW m \in Messages
    PROVE  Cardinality(DonesIn(Append(q, m))) =
             Cardinality(DonesIn(q)) + (IF m = "DONE" THEN 1 ELSE 0)
<1>1. CASE m = "DONE"
  <2>1. DonesIn(Append(q, m)) = DonesIn(q) \cup {Len(q) + 1}
    BY <1>1, Appended DEF DonesIn
  <2>2. Len(q) + 1 \notin DonesIn(q)
    BY DEF DonesIn, Indices
  <2> QED
    BY <1>1, <2>1, <2>2, DonesFinite, FS_AddElement
<1>2. CASE m # "DONE"
  <2>1. Append(q, m)[Len(q) + 1] # "DONE"
    BY <1>2, Appended
  <2>2. DonesIn(Append(q, m)) = DonesIn(q)
    <3> SUFFICES ASSUME NEW r, r = Append(q, m) PROVE DonesIn(r) = DonesIn(q)
      OBVIOUS
    <3>1. /\ Indices(r) = Indices(q) \cup {Len(q) + 1} /\ r[Len(q) + 1] # "DONE"
          /\ \A n \in Indices(q) : r[n] = q[n]
      BY <2>1, Appended
    <3> QED
      BY <3>1 DEF DonesIn
  <2> QED
    BY <1>2, <2>2, DonesFinite
<1> QED
  BY <1>1, <1>2

\* So does one that is popped.
LEMMA DonesPopped ==
    ASSUME NEW q \in Seq(Messages), q # <<>>
    PROVE  Cardinality(DonesIn(Tail(q))) =
             Cardinality(DonesIn(q)) - (IF Head(q) = "DONE" THEN 1 ELSE 0)
<1> DEFINE S == DonesIn(q) \ {1}
           T == DonesIn(Tail(q))
           f == [n \in S |-> n - 1]
<1>1. IsFiniteSet(DonesIn(q)) /\ Cardinality(DonesIn(q)) \in Nat
  BY DonesFinite
<1>2. 1 \in DonesIn(q) <=> Head(q) = "DONE"
  BY Popped DEF DonesIn, Indices
<1>3. IsFiniteSet(S)
      /\ Cardinality(S) = Cardinality(DonesIn(q)) - (IF Head(q) = "DONE" THEN 1 ELSE 0)
  BY <1>1, <1>2, FS_RemoveElement
<1>4. f \in Bijection(S, T)
  <2>1. \A n \in S : n \in Int /\ n - 1 \in T
    BY Popped DEF DonesIn, Indices
  <2>2. f \in [S -> T]
    BY <2>1
  <2>3. \A m, n \in S : f[m] = f[n] => m = n
    BY <2>1
  <2>4. \A n \in T : n \in Int /\ n + 1 \in S /\ (n + 1) - 1 = n
    BY Popped DEF DonesIn, Indices
  <2>5. \A n \in T : \E m \in S : f[m] = n
    BY <2>4
  <2> QED
    BY <2>2, <2>3, <2>5 DEF Bijection, Injection, Surjection, IsInjective
<1>5. ExistsBijection(S, T)
  BY <1>4 DEF ExistsBijection
<1>6. Cardinality(T) = Cardinality(S)
  BY <1>3, <1>5, FS_Bijection
<1> QED
  BY <1>3, <1>6

\* The shape of the queue survives when more is to come, less is called, and more
\* was asked for.
LEMMA FollowedStill ==
    ASSUME NEW q, NEW c1 \in BOOLEAN, NEW c2 \in BOOLEAN, NEW m1 \in BOOLEAN, NEW m2 \in BOOLEAN,
           NEW a1 \in BOOLEAN, NEW a2 \in BOOLEAN,
           Followed(q, c1, m1, a1), c1 => c2, m2 => m1, a1 => a2
    PROVE  Followed(q, c2, m2, a2)
BY DEF Followed

\* An XMSG_DONE follows all there is.
LEMMA FollowedByDone ==
    ASSUME NEW q \in Seq(Messages), NEW c \in BOOLEAN, NEW c2 \in BOOLEAN, NEW m \in BOOLEAN,
           NEW a \in BOOLEAN, Followed(q, c, m, a)
    PROVE  Followed(Append(q, "DONE"), c2, m, a)
<1> SUFFICES ASSUME NEW r, r = Append(q, "DONE")
             PROVE  Followed(r, c2, m, a)
  OBVIOUS
<1>1. /\ Indices(r) = Indices(q) \cup {Len(q) + 1} /\ r[Len(q) + 1] = "DONE"
      /\ \A n \in Indices(q) : r[n] = q[n]
  BY Appended DEF Messages
<1>2. \A n \in Indices(q) : DoneBehind(r, n)
  BY <1>1 DEF DoneBehind, Indices
<1> QED
  BY <1>1, <1>2 DEF Followed

\* While one is to come, anything may be sent once somebody has called xfer_cancel.
LEMMA FollowedLater ==
    ASSUME NEW q, NEW m \in BOOLEAN
    PROVE  Followed(q, TRUE, m, TRUE)
BY DEF Followed

\* The XMSG_CANCEL of the caller is the one that need not be followed.
LEMMA FollowedByCancel ==
    ASSUME NEW q \in Seq(Messages), NEW c \in BOOLEAN, NEW a \in BOOLEAN, Followed(q, c, TRUE, a)
    PROVE  Followed(Append(q, "CANCEL"), c, FALSE, TRUE)
<1> SUFFICES ASSUME NEW r, r = Append(q, "CANCEL")
             PROVE  Followed(r, c, FALSE, TRUE)
  OBVIOUS
<1>1. /\ Indices(r) = Indices(q) \cup {Len(q) + 1} /\ r[Len(q) + 1] = "CANCEL"
      /\ \A n \in Indices(q) : r[n] = q[n]
  BY Appended DEF Messages
<1>2. \A n \in Indices(q) : DoneBehind(q, n) => DoneBehind(r, n)
  BY <1>1 DEF DoneBehind
<1>3. \A n \in Indices(q) : ~ (Len(q) + 1 < n)
  BY DEF Indices
<1>4. ~ (Len(q) + 1 < Len(q) + 1)
  OBVIOUS
<1> QED
  BY <1>1, <1>2, <1>3, <1>4 DEF Followed

\* Popping a message takes nothing from those behind it.
LEMMA FollowedPopped ==
    ASSUME NEW q \in Seq(Messages), q # <<>>, NEW c \in BOOLEAN, NEW m \in BOOLEAN,
           NEW a \in BOOLEAN, Followed(q, c, m, a)
    PROVE  Followed(Tail(q), c, m, a)
<1> SUFFICES ASSUME NEW r, r = Tail(q)
             PROVE  Followed(r, c, m, a)
  OBVIOUS
<1>1. \A n \in Indices(r) : n \in Int /\ n + 1 \in Indices(q) /\ r[n] = q[n + 1]
  BY Popped DEF Indices
<1>2. \A n \in Indices(q) : n \in Int /\ (n > 1 => n - 1 \in Indices(r) /\ q[n] = r[n - 1])
  BY Popped DEF Indices
<1>3. \A n \in Indices(r) : DoneBehind(q, n + 1) => DoneBehind(r, n)
  <2> SUFFICES ASSUME NEW n \in Indices(r), NEW k \in Indices(q), n + 1 < k, q[k] = "DONE"
               PROVE  DoneBehind(r, n)
    BY DEF DoneBehind
  <2>1. k > 1 /\ n < k - 1
    BY <1>1, <1>2 DEF Indices
  <2> QED
    BY <1>2, <2>1 DEF DoneBehind
<1>4. \A k, n \in Indices(r) : k < n => k + 1 < n + 1
  BY <1>1
<1> QED
  BY <1>1, <1>3, <1>4 DEF Followed

-----------------------------------------------------------------------------
(* Threads and elements.                                                   *)

\* Sets of elements are finite.
LEMMA ElementSets ==
    \A S \in SUBSET Elements :
        IsFiniteSet(S) /\ Cardinality(S) \in Nat /\ Cardinality(S) <= N
<1>1. IsFiniteSet(Elements) /\ Cardinality(Elements) = N
  BY NElementsAssumption, FS_Interval DEF Elements
<1> QED
  BY <1>1, FS_Subset, FS_CardinalityType

LEMMA LivingType == Living \in SUBSET Elements /\ Threads \in SUBSET Elements
BY DEF Living, Threads

\* The main thread is none of the elements.
LEMMA MainIsNoElement == Main \notin Elements /\ Main \in Procs /\ Elements \subseteq Procs
BY DEF Main, Elements, Procs

\* A step of the main thread alone.
LEMMA MainGoes ==
    ASSUME PcType, NEW at \in MainPcs, Goes(Main, at)
    PROVE  PcType' /\ pc'[Main] = at /\ \A i \in Elements : pc'[i] = pc[i]
BY MainIsNoElement DEF PcType, Goes

\* A step of one element.
LEMMA ThreadGoes ==
    ASSUME PcType, NEW i \in Elements, NEW at \in ThreadPcs, Goes(i, at)
    PROVE  /\ PcType' /\ pc'[Main] = pc[Main] /\ pc'[i] = at
           /\ \A j \in Elements : j # i => pc'[j] = pc[j]
BY MainIsNoElement DEF PcType, Goes

\* What does not change while no element moves.
LEMMA SameElements ==
    ASSUME \A i \in Elements : pc'[i] = pc[i]
    PROVE  /\ Living' = Living /\ Threads' = Threads
           /\ NoneStarted' <=> NoneStarted
           /\ \A i \in Elements : Alive(i)' <=> Alive(i)
BY DEF Living, Threads, NoneStarted, Alive

\* Nothing of a part of the invariant changes with its variables.
LEMMA StartingKept ==
    ASSUME Starting, \A i \in Elements : pc'[i] = pc[i], UNCHANGED <<status, next, num_active>>
    PROVE  Starting'
<1>1. /\ NoneStarted' <=> NoneStarted
      /\ \A i \in Elements : Alive(i)' <=> Alive(i)
  BY SameElements
<1>2. Pullers \subseteq Elements
  BY NElementsAssumption DEF Elements
<1> QED
  BY <1>1, <1>2 DEF Starting

LEMMA CancellingKept ==
    ASSUME Cancelling, \A i \in Elements : pc'[i] = pc[i],
           UNCHANGED <<status, next, expect_eof, elt>>
    PROVE  Cancelling'
BY DEF Cancelling, Marked, Upstreams

\* A thread that goes on, within xfer_cancel or out of it, disturbs only what is said of
\* the place it comes to.
LEMMA ThreadMoves ==
    ASSUME XferInv, NEW i \in Elements, NEW at \in ThreadPcs, Alive(i), Goes(i, at),
           at \notin {"none", "passive", "ended"},
           at = "draining" => status = "CANCELLED",
           i \in Pullers /\ at # "new" => status \notin {"INIT", "START"},
           UNCHANGED <<status, num_active, refcount, next, expect_eof, elt, held>>
    PROVE  /\ PcType' /\ References' /\ MainAt' /\ Starting' /\ Cancelling'
           /\ pc'[Main] = pc[Main] /\ pc'[i] = at
           /\ \A j \in Elements : j # i => pc'[j] = pc[j]
           /\ Living' = Living /\ Threads' = Threads /\ Living # {}
           /\ DoneToCome' /\ DoneToCome
<1>1. /\ PcType' /\ pc'[Main] = pc[Main] /\ pc'[i] = at
      /\ \A j \in Elements : j # i => pc'[j] = pc[j]
  BY ThreadGoes DEF XferInv
<1>2. Living' = Living /\ Threads' = Threads /\ Living # {}
  BY <1>1 DEF Living, Threads, Alive
<1>3. /\ NoneStarted' <=> NoneStarted
      /\ \A j \in Elements : pc'[j] = "none" <=> pc[j] = "none"
      /\ \A j \in Elements : j # i => (Alive(j)' <=> Alive(j))
  BY <1>1 DEF NoneStarted, Alive
<1>4. Pullers \subseteq Elements
  BY NElementsAssumption DEF Elements
<1>5. Starting'
  BY <1>1, <1>3, <1>4 DEF XferInv, Starting
<1>6. Cancelling'
  BY <1>1 DEF XferInv, Cancelling, Marked, Upstreams
<1>7. References' /\ MainAt'
  BY <1>1 DEF XferInv, References, MainAt
<1>8. DoneToCome' /\ DoneToCome
  BY <1>2 DEF DoneToCome
<1> QED
  BY <1>1, <1>2, <1>5, <1>6, <1>7, <1>8

\* The types of what a step of one thread can change.
LEMMA ThreadTypes ==
    ASSUME XferTypeOK, NEW i \in Elements, NEW at \in ThreadPcs,
           pc'[Main] = pc[Main], pc'[i] = at, \A j \in Elements : j # i => pc'[j] = pc[j],
           queue' \in Seq(Messages), cancelled' \in BOOLEAN,
           UNCHANGED <<status, num_active, refcount, next, expect_eof, elt, held>>
    PROVE  XferTypeOK'
BY DEF XferTypeOK

\* The account, for a step that changes neither the number of threads nor that of the
\* XMSG_DONEs.
LEMMA CountedKept ==
    ASSUME Counted, Living' = Living, Threads' = Threads, UNCHANGED <<status, num_active>>,
           Cardinality(DonesIn(queue)) = Cardinality(DonesIn(queue'))
    PROVE  Counted'
BY DEF Counted

-----------------------------------------------------------------------------
(* The threads of the elements.                                            *)

\* The Booleans by which the shape of the queue is said.
LEMMA FlagTypes ==
    ASSUME XferTypeOK
    PROVE  cancelled \in BOOLEAN /\ DoneToCome \in BOOLEAN /\ (pc[Main] \in InCancel) \in BOOLEAN
BY DEF XferTypeOK, DoneToCome

\* A thread passes on without a message: PullBuffer, CancelTest, WaitUntilCancelled and
\* CancelSet of an element.
LEMMA QuietMove ==
    ASSUME XferInv, NEW i \in Elements, NEW at \in ThreadPcs, Alive(i), Goes(i, at),
           at \notin {"none", "passive", "ended"},
           at = "draining" => status = "CANCELLED",
           i \in Pullers /\ at # "new" => status \notin {"INIT", "START"},
           cancelled' \in BOOLEAN, cancelled => cancelled', at = "queue" => cancelled',
           UNCHANGED <<status, num_active, refcount, queue, next, expect_eof, elt, held>>
    PROVE  XferInv'
<1>1. /\ PcType' /\ References' /\ MainAt' /\ Starting' /\ Cancelling'
      /\ pc'[Main] = pc[Main] /\ pc'[i] = at
      /\ \A j \in Elements : j # i => pc'[j] = pc[j]
      /\ Living' = Living /\ Threads' = Threads /\ DoneToCome' /\ DoneToCome
  BY ThreadMoves
<1>2. XferTypeOK'
  <2>1. XferTypeOK /\ queue' \in Seq(Messages)
    BY DEF XferInv, XferTypeOK
  <2> QED
    BY <1>1, <2>1, ThreadTypes
<1>3. Counted'
  BY <1>1, CountedKept DEF XferInv
<1>4. Followed(queue, DoneToCome, pc[Main] \in InCancel, cancelled)'
  <2>1. Followed(queue, DoneToCome, pc[Main] \in InCancel, cancelled)
    BY DEF XferInv, Heard
  <2> QED
    BY <1>1, <2>1 DEF Followed
<1>5. \A p \in Procs : pc'[p] = "queue" => cancelled'
  BY <1>1 DEF XferInv, Heard, Procs
<1> QED
  BY <1>1, <1>2, <1>3, <1>4, <1>5 DEF XferInv, Heard

\* The places of a thread that is there.
LEMMA AliveAt ==
    ASSUME NEW i \in Elements,
           pc[i] \in {"new", "running", "test", "set", "queue", "waiting", "draining"}
    PROVE  Alive(i)
BY DEF Alive

\* A thread pulls only after the start.
LEMMA Pulling ==
    ASSUME XferInv, NEW i \in Elements, Alive(i), pc[i] # "new", i \in Pullers
    PROVE  status \notin {"INIT", "START"}
BY DEF XferInv, Starting

LEMMA PullBufferInv ==
    ASSUME XferInv, NEW i \in Elements, PullBuffer(i) PROVE XferInv'
<1>1. Alive(i) /\ status # "INIT"
  BY DEF PullBuffer, Alive, XferInv, Starting, NoneStarted
<1> QED
  BY <1>1, QuietMove DEF PullBuffer, ThreadPcs, InCancel, XferInv, XferTypeOK

LEMMA CancelTestInv ==
    ASSUME XferInv, NEW i \in Elements, CancelTest(i) PROVE XferInv'
<1>1. Alive(i) /\ (i \in Pullers => status \notin {"INIT", "START"})
  BY AliveAt, Pulling DEF CancelTest
<1> DEFINE at == IF cancelled THEN "waiting" ELSE "set"
<1>2. at \in {"waiting", "set"}
  OBVIOUS
<1>3. Goes(i, at)
  BY DEF CancelTest
<1>4. at \in ThreadPcs
  BY DEF ThreadPcs, InCancel
<1>5. cancelled \in BOOLEAN
  BY DEF XferInv, XferTypeOK
<1>6. UNCHANGED <<status, cancelled, num_active, refcount, queue, next, expect_eof, elt, held>>
  BY DEF CancelTest
<1> HIDE DEF at
<1> QED
  BY <1>1, <1>2, <1>3, <1>4, <1>5, <1>6, QuietMove

LEMMA WaitUntilCancelledInv ==
    ASSUME XferInv, NEW i \in Elements, WaitUntilCancelled(i) PROVE XferInv'
<1>1. Alive(i) /\ (i \in Pullers => status \notin {"INIT", "START"})
  BY AliveAt, Pulling DEF WaitUntilCancelled
<1>2. status # "DONE"
  <2>1. Living # {}
    BY <1>1 DEF Living
  <2>2. Cardinality(Living) \in Nat \ {0}
    BY <2>1, ElementSets, LivingType, FS_EmptySet
  <2>3. Cardinality(DonesIn(queue)) \in Nat
    BY DonesFinite DEF XferInv, XferTypeOK
  <2> QED
    BY <2>2, <2>3 DEF XferInv, Counted
<1> QED
  BY <1>1, <1>2, QuietMove
  DEF WaitUntilCancelled, ThreadPcs, InCancel, XferInv, XferTypeOK

\* A thread that sends a message, and is still there to send its XMSG_DONE.
LEMMA LoudMove ==
    ASSUME XferInv, NEW i \in Elements, NEW at \in ThreadPcs, Alive(i), Goes(i, at),
           at \in {"test", "waiting"},
           NEW m \in {"CANCEL", "ERROR"}, Send(m), m = "CANCEL" => cancelled,
           i \in Pullers => status \notin {"INIT", "START"},
           UNCHANGED <<status, cancelled, num_active, refcount, next, expect_eof, elt, held>>
    PROVE  XferInv'
<1>1. /\ PcType' /\ References' /\ MainAt' /\ Starting' /\ Cancelling'
      /\ pc'[Main] = pc[Main] /\ pc'[i] = at
      /\ \A j \in Elements : j # i => pc'[j] = pc[j]
      /\ Living' = Living /\ Threads' = Threads /\ DoneToCome' /\ DoneToCome
  BY ThreadMoves
<1>2. queue \in Seq(Messages) /\ m \in Messages /\ queue' = Append(queue, m)
  BY DEF XferInv, XferTypeOK, Messages, Send
<1>3. XferTypeOK'
  <2>1. XferTypeOK /\ queue' \in Seq(Messages) /\ cancelled' \in BOOLEAN
    BY <1>2, Appended DEF XferInv, XferTypeOK
  <2> QED
    BY <1>1, <2>1, ThreadTypes
<1>4. Counted'
  <2>1. Cardinality(DonesIn(queue')) = Cardinality(DonesIn(queue)) /\ Counted
    BY <1>2, DonesAppended, DonesFinite DEF XferInv
  <2> QED
    BY <1>1, <2>1, CountedKept
<1>5. Followed(queue, DoneToCome, pc[Main] \in InCancel, cancelled)'
  <2>1. ~ cancelled => \A n \in Indices(queue') : queue'[n] # "CANCEL"
    <3>1. ~ cancelled => m # "CANCEL" /\ \A n \in Indices(queue) : queue[n] # "CANCEL"
      BY DEF XferInv, Heard, Followed
    <3>2. /\ Indices(queue') = Indices(queue) \cup {Len(queue) + 1}
          /\ queue'[Len(queue) + 1] = m /\ \A n \in Indices(queue) : queue'[n] = queue[n]
      BY <1>2, Appended
    <3> QED
      BY <3>1, <3>2
  <2> QED
    BY <1>1, <2>1 DEF Followed
<1>6. \A p \in Procs : pc'[p] = "queue" => cancelled'
  BY <1>1 DEF XferInv, Heard, Procs
<1> QED
  BY <1>1, <1>3, <1>4, <1>5, <1>6 DEF XferInv, Heard

LEMMA CancelWithErrorInv ==
    ASSUME XferInv, NEW i \in Elements, CancelWithError(i) PROVE XferInv'
<1>1. Alive(i) /\ (i \in Pullers => status \notin {"INIT", "START"})
  BY AliveAt, Pulling DEF CancelWithError
<1> QED
  BY <1>1, LoudMove DEF CancelWithError, ThreadPcs

\* The last message of a thread: one thread less, and one XMSG_DONE more.
LEMMA ThreadEndsInv ==
    ASSUME XferInv, NEW i \in Elements, ThreadEnds(i) PROVE XferInv'
<1>1. Alive(i) /\ (i \in Pullers => status \notin {"INIT", "START"}) /\ pc[i] # "none"
  BY AliveAt, Pulling DEF ThreadEnds
<1>2. /\ PcType' /\ pc'[Main] = pc[Main] /\ pc'[i] = "ended"
      /\ \A j \in Elements : j # i => pc'[j] = pc[j]
  BY ThreadGoes DEF ThreadEnds, XferInv, ThreadPcs
<1>3. queue \in Seq(Messages) /\ "DONE" \in Messages /\ queue' = Append(queue, "DONE")
  BY DEF XferInv, XferTypeOK, Messages, Send, ThreadEnds
<1>4. UNCHANGED <<status, cancelled, num_active, refcount, next, expect_eof, elt, held>>
  BY DEF ThreadEnds
<1>5. XferTypeOK'
  <2>1. XferTypeOK /\ queue' \in Seq(Messages) /\ cancelled' \in BOOLEAN /\ "ended" \in ThreadPcs
    BY <1>3, <1>4, Appended DEF XferInv, XferTypeOK, ThreadPcs
  <2> QED
    BY <1>2, <1>4, <2>1, ThreadTypes
<1>6. Starting'
  <2>1. /\ NoneStarted' <=> NoneStarted
        /\ \A j \in Elements : pc'[j] = "none" <=> pc[j] = "none"
        /\ \A j \in Elements : Alive(j)' => Alive(j) /\ pc'[j] = pc[j]
    BY <1>1, <1>2 DEF NoneStarted, Alive
  <2>2. Pullers \subseteq Elements
    BY NElementsAssumption DEF Elements
  <2> QED
    BY <1>4, <2>1, <2>2 DEF XferInv, Starting
<1>7. Cancelling'
  BY <1>2, <1>4 DEF XferInv, Cancelling, Marked, Upstreams
<1>8. References' /\ MainAt'
  BY <1>2, <1>4 DEF XferInv, References, MainAt
<1>9. Counted'
  <2>1. Threads' = Threads
    BY <1>1, <1>2 DEF Threads, Alive
  <2>2. Living' = Living \ {i} /\ i \in Living
    BY <1>1, <1>2 DEF Living, Alive
  <2>3. Cardinality(Living') = Cardinality(Living) - 1 /\ Cardinality(Living) \in Nat
    BY <2>2, LivingType, ElementSets, FS_RemoveElement
  <2>4. /\ Cardinality(DonesIn(queue')) = Cardinality(DonesIn(queue)) + 1
        /\ Cardinality(DonesIn(queue)) \in Nat
    BY <1>3, DonesAppended, DonesFinite
  <2>5. num_active = Cardinality(DonesIn(queue')) + Cardinality(Living')
    BY <2>3, <2>4 DEF XferInv, Counted
  <2> QED
    BY <1>4, <2>1, <2>5 DEF XferInv, Counted
<1>10. Followed(queue', DoneToCome', pc'[Main] \in InCancel, cancelled')
  <2>1. /\ cancelled \in BOOLEAN /\ DoneToCome \in BOOLEAN /\ (pc[Main] \in InCancel) \in BOOLEAN
        /\ DoneToCome' \in BOOLEAN
    BY FlagTypes DEF XferInv, DoneToCome
  <2> QED
    BY <1>2, <1>3, <1>4, <2>1, FollowedByDone DEF XferInv, Heard
<1>11. \A p \in Procs : pc'[p] = "queue" => cancelled'
  BY <1>2, <1>4 DEF XferInv, Heard, Procs
<1> QED
  BY <1>2, <1>5, <1>6, <1>7, <1>8, <1>9, <1>10, <1>11 DEF XferInv, Heard

-----------------------------------------------------------------------------
(* xfer_cancel: the steps that any thread may take.                        *)

LEMMA CancelSetInv ==
    ASSUME XferInv, NEW p \in Procs, CancelSet(p) PROVE XferInv'
<1>1. CASE p = Main
  <2>1. PcType' /\ pc'[Main] = "queue" /\ \A i \in Elements : pc'[i] = pc[i]
    BY <1>1, MainGoes DEF CancelSet, XferInv, MainPcs, InCancel
  <2>2. UNCHANGED <<status, num_active, refcount, queue, next, expect_eof, elt, held>>
        /\ cancelled' = TRUE
    BY DEF CancelSet
  <2>3. XferTypeOK'
    BY <2>1, <2>2 DEF XferInv, XferTypeOK, MainPcs, InCancel
  <2>4. References' /\ MainAt'
    BY <1>1, <2>1, <2>2 DEF XferInv, References, MainAt, CancelSet
  <2>5. Starting' /\ Cancelling'
    BY <2>1, <2>2, StartingKept, CancellingKept DEF XferInv
  <2>6. Living' = Living /\ Threads' = Threads /\ (DoneToCome' <=> DoneToCome)
    BY <2>1, <2>2, SameElements DEF DoneToCome
  <2>7. Counted'
    BY <2>2, <2>6, CountedKept DEF XferInv
  <2>8. Heard'
    <3>1. Followed(queue, DoneToCome, pc[Main] \in InCancel, cancelled) /\ pc[Main] \in InCancel
      BY <1>1 DEF XferInv, Heard, CancelSet, InCancel
    <3>2. Followed(queue, DoneToCome, pc[Main] \in InCancel, cancelled)'
      BY <2>1, <2>2, <2>6, <3>1 DEF Followed, InCancel
    <3> QED
      BY <2>2, <3>2 DEF Heard
  <2> QED
    BY <2>1, <2>3, <2>4, <2>5, <2>7, <2>8 DEF XferInv
<1>2. CASE p \in Elements
  <2>1. Alive(p) /\ (p \in Pullers => status \notin {"INIT", "START"})
    BY <1>2, AliveAt, Pulling DEF CancelSet
  <2>2. Goes(p, "queue") /\ "queue" \in ThreadPcs /\ cancelled' = TRUE
    BY DEF CancelSet, ThreadPcs, InCancel
  <2>3. UNCHANGED <<status, num_active, refcount, queue, next, expect_eof, elt, held>>
    BY DEF CancelSet
  <2> QED
    BY <1>2, <2>1, <2>2, <2>3, QuietMove
<1> QED
  BY <1>1, <1>2 DEF Procs

LEMMA CancelQueueInv ==
    ASSUME XferInv, NEW p \in Procs, CancelQueue(p) PROVE XferInv'
<1>0. cancelled = TRUE
  BY DEF XferInv, Heard, CancelQueue, XferTypeOK
<1>1. CASE p = Main
  <2>1. PcType' /\ pc'[Main] = "loop" /\ \A i \in Elements : pc'[i] = pc[i]
    BY <1>1, MainGoes DEF CancelQueue, After, XferInv, MainPcs
  <2>2. UNCHANGED <<status, cancelled, num_active, refcount, next, expect_eof, elt, held>>
    BY DEF CancelQueue
  <2>3. queue \in Seq(Messages) /\ "CANCEL" \in Messages /\ queue' = Append(queue, "CANCEL")
    BY DEF XferInv, XferTypeOK, Messages, Send, CancelQueue
  <2>4. XferTypeOK'
    BY <2>1, <2>2, <2>3, Appended DEF XferInv, XferTypeOK, MainPcs
  <2>5. References' /\ MainAt'
    BY <1>1, <2>1, <2>2 DEF XferInv, References, MainAt, CancelQueue
  <2>6. Starting' /\ Cancelling'
    BY <2>1, <2>2, StartingKept, CancellingKept DEF XferInv
  <2>7. Living' = Living /\ Threads' = Threads /\ (DoneToCome' <=> DoneToCome)
    BY <2>1, <2>2, SameElements DEF DoneToCome
  <2>8. Counted'
    <3>1. Cardinality(DonesIn(queue')) = Cardinality(DonesIn(queue)) /\ Counted
      BY <2>3, DonesAppended, DonesFinite DEF XferInv
    <3> QED
      BY <2>2, <2>7, <3>1, CountedKept
  <2>9. Heard'
    <3>1. Followed(queue, DoneToCome, TRUE, cancelled)
      BY <1>1 DEF XferInv, Heard, CancelQueue, InCancel, Followed
    <3>2. Followed(queue', DoneToCome, FALSE, TRUE)
      BY <1>0, <2>3, <3>1, FollowedByCancel DEF DoneToCome
    <3>3. Followed(queue, DoneToCome, pc[Main] \in InCancel, cancelled)'
      BY <2>1, <2>7, <3>2, <1>0, <2>2 DEF Followed, InCancel
    <3> QED
      BY <1>0, <2>2, <3>3 DEF Heard
  <2> QED
    BY <2>1, <2>4, <2>5, <2>6, <2>8, <2>9 DEF XferInv
<1>2. CASE p \in Elements
  <2>1. Alive(p) /\ (p \in Pullers => status \notin {"INIT", "START"})
    BY <1>2, AliveAt, Pulling DEF CancelQueue
  <2>2. Goes(p, "waiting") /\ "waiting" \in ThreadPcs /\ Send("CANCEL")
    BY <1>2, MainIsNoElement DEF CancelQueue, After, ThreadPcs
  <2>3. UNCHANGED <<status, cancelled, num_active, refcount, next, expect_eof, elt, held>>
    BY DEF CancelQueue
  <2> QED
    BY <1>0, <1>2, <2>1, <2>2, <2>3, LoudMove
<1> QED
  BY <1>1, <1>2 DEF Procs

LEMMA CallerCancelInv ==
    ASSUME XferInv, CallerCancel PROVE XferInv'
<1>1. PcType' /\ pc'[Main] = "set" /\ \A i \in Elements : pc'[i] = pc[i]
  BY MainGoes DEF CallerCancel, XferInv, MainPcs, InCancel
<1>2. UNCHANGED <<status, cancelled, num_active, refcount, queue, next, expect_eof, elt, held>>
  BY DEF CallerCancel
<1>3. XferTypeOK'
  BY <1>1, <1>2 DEF XferInv, XferTypeOK, MainPcs, InCancel
<1>4. References' /\ MainAt'
  BY <1>1, <1>2 DEF XferInv, References, MainAt, CallerCancel, InMain
<1>5. Starting' /\ Cancelling'
  BY <1>1, <1>2, StartingKept, CancellingKept DEF XferInv
<1>6. Living' = Living /\ Threads' = Threads /\ (DoneToCome' <=> DoneToCome)
  BY <1>1, <1>2, SameElements DEF DoneToCome
<1>7. Counted'
  BY <1>2, <1>6, CountedKept DEF XferInv
<1>8. Followed(queue, DoneToCome, pc[Main] \in InCancel, cancelled)'
  <2>1. ~ cancelled /\ Followed(queue, DoneToCome, pc[Main] \in InCancel, cancelled)
    BY DEF XferInv, Heard, CallerCancel
  <2> QED
    BY <1>2, <1>6, <2>1 DEF Followed
<1>9. \A p \in Procs : pc'[p] = "queue" => cancelled'
  BY <1>1, <1>2 DEF XferInv, Heard, Procs
<1> QED
  BY <1>1, <1>3, <1>4, <1>5, <1>7, <1>8, <1>9 DEF XferInv, Heard

-----------------------------------------------------------------------------
(* xfer_start.                                                             *)

\* Nothing runs and nothing is counted before the start.
LEMMA BeforeStart ==
    ASSUME XferInv, status = "INIT"
    PROVE  /\ num_active = 0 /\ Living = {} /\ Threads = {} /\ NoneStarted
           /\ Cardinality(Living) = 0 /\ Cardinality(Threads) = 0
           /\ Cardinality(DonesIn(queue)) = 0 /\ ~ DoneToCome
<1>1. NoneStarted /\ num_active = 0
  BY DEF XferInv, Starting, Counted
<1>2. Living = {} /\ Threads = {}
  BY <1>1 DEF Living, Threads, NoneStarted, Alive
<1>3. Cardinality(Living) = 0 /\ Cardinality(Threads) = 0
  BY <1>2, FS_EmptySet
<1>4. Cardinality(DonesIn(queue)) = 0
  BY <1>1, <1>3, DonesFinite DEF XferInv, XferTypeOK, Counted
<1> QED
  BY <1>1, <1>2, <1>3, <1>4 DEF DoneToCome

LEMMA XferStartInv ==
    ASSUME XferInv, XferStart PROVE XferInv'
<1>1. PcType' /\ pc'[Main] = "starting" /\ \A i \in Elements : pc'[i] = pc[i]
  BY MainGoes DEF XferStart, XferInv, MainPcs
<1>2. /\ status = "INIT" /\ held /\ status' = "START" /\ refcount' = refcount + 1
      /\ num_active' = 0 /\ next' = N
      /\ UNCHANGED <<cancelled, queue, expect_eof, elt, held>>
  BY DEF XferStart
<1>3. References' /\ refcount' \in 0..2
  BY <1>2 DEF XferInv, References
<1>4. XferTypeOK'
  BY <1>1, <1>2, <1>3, NElementsAssumption DEF XferInv, XferTypeOK, MainPcs, Statuses
<1>5. MainAt'
  BY <1>1, <1>2 DEF MainAt
<1>6. /\ Living' = Living /\ Threads' = Threads /\ (NoneStarted' <=> NoneStarted)
      /\ \A i \in Elements : Alive(i)' <=> Alive(i)
  BY <1>1, SameElements
<1>7. Starting'
  <2>1. \A i \in Elements : ~ (i > N) /\ pc'[i] = "none"
    BY <1>1, <1>2, BeforeStart, NElementsAssumption DEF NoneStarted, Elements
  <2>2. Pullers \subseteq Elements /\ \A i \in Elements : ~ Alive(i)'
    BY <2>1, NElementsAssumption DEF Elements, Alive
  <2> QED
    BY <1>2, <2>1, <2>2, NElementsAssumption DEF Starting
<1>8. Counted'
  BY <1>2, <1>6, BeforeStart DEF Counted
<1>9. Cancelling'
  BY <1>1, <1>2, BeforeStart DEF Cancelling, NoneStarted
<1>10. ~ DoneToCome' /\ ~ DoneToCome
  BY <1>2, <1>6, BeforeStart, NElementsAssumption DEF DoneToCome
<1>11. Heard'
  <2>1. Followed(queue, DoneToCome, pc[Main] \in InCancel, cancelled)
    BY DEF XferInv, Heard
  <2>2. Followed(queue, DoneToCome, pc[Main] \in InCancel, cancelled)'
    BY <1>1, <1>2, <1>10, <2>1 DEF Followed, InCancel
  <2>3. \A p \in Procs : pc'[p] = "queue" => cancelled'
    BY <1>1, <1>2 DEF XferInv, Heard, Procs
  <2> QED
    BY <2>2, <2>3 DEF Heard
<1> QED
  BY <1>1, <1>3, <1>4, <1>5, <1>7, <1>8, <1>9, <1>11 DEF XferInv

LEMMA SetupFailsInv ==
    ASSUME XferInv, SetupFails PROVE XferInv'
<1>1. PcType' /\ pc'[Main] = "starting" /\ \A i \in Elements : pc'[i] = pc[i]
  BY MainGoes DEF SetupFails, XferInv, MainPcs
<1>2. /\ status = "INIT" /\ held /\ status' = "START" /\ refcount' = refcount + 1
      /\ num_active' = 0 /\ next' = 0 /\ cancelled' = TRUE
      /\ UNCHANGED <<expect_eof, elt, held>>
  BY DEF SetupFails
<1>3. References' /\ refcount' \in 0..2
  BY <1>2 DEF XferInv, References
<1>4. queue' \in Seq(Messages) /\ Cardinality(DonesIn(queue')) = 0
  <2>1. queue \in Seq(Messages) /\ {"ERROR", "CANCEL"} \subseteq Messages
    BY DEF XferInv, XferTypeOK, Messages
  <2> DEFINE e == Append(queue, "ERROR")
  <2>2. e \in Seq(Messages) /\ Cardinality(DonesIn(e)) = 0
    BY <1>2, <2>1, Appended, DonesAppended, BeforeStart
  <2>3. Append(e, "CANCEL") \in Seq(Messages) /\ Cardinality(DonesIn(Append(e, "CANCEL"))) = 0
    <3> HIDE DEF e
    <3> QED
      BY <2>1, <2>2, Appended, DonesAppended
  <2>4. queue' = e \/ queue' = Append(e, "CANCEL")
    <3>1. CASE cancelled
      <4>1. queue' = queue \o <<"ERROR">> \o <<>>
        BY <3>1 DEF SetupFails
      <4> QED
        BY <2>1, <4>1
    <3>2. CASE ~ cancelled
      <4>1. queue' = queue \o <<"ERROR">> \o <<"CANCEL">>
        BY <3>2 DEF SetupFails
      <4> QED
        BY <2>1, <4>1
    <3> QED
      BY <3>1, <3>2
  <2> QED
    BY <2>2, <2>3, <2>4
<1>5. XferTypeOK'
  BY <1>1, <1>2, <1>3, <1>4, NElementsAssumption DEF XferInv, XferTypeOK, MainPcs, Statuses
<1>6. MainAt'
  BY <1>1, <1>2 DEF MainAt
<1>7. /\ Living' = Living /\ Threads' = Threads /\ (NoneStarted' <=> NoneStarted)
      /\ \A i \in Elements : Alive(i)' <=> Alive(i)
  BY <1>1, SameElements
<1>8. Starting'
  <2>1. NoneStarted'
    BY <1>2, <1>7, BeforeStart
  <2>2. Pullers \subseteq Elements /\ \A i \in Elements : ~ Alive(i)'
    BY <2>1, NElementsAssumption DEF Elements, Alive, NoneStarted
  <2> QED
    BY <1>2, <2>1, <2>2 DEF Starting
<1>9. Counted'
  BY <1>2, <1>4, <1>7, BeforeStart DEF Counted
<1>10. Cancelling'
  BY <1>1, <1>2, BeforeStart DEF Cancelling, NoneStarted
<1>11. Heard'
  BY <1>2 DEF Heard, Followed, DoneToCome
<1> QED
  BY <1>1, <1>3, <1>5, <1>6, <1>8, <1>9, <1>10, <1>11 DEF XferInv

\* One more element is started: passive, or with a thread that counts.
LEMMA StartElementInv ==
    ASSUME XferInv, StartElement PROVE XferInv'
<1>1. /\ status = "START" /\ next \in Elements /\ next \in 1..N
      /\ UNCHANGED <<status, cancelled, refcount, queue, expect_eof, elt, held>>
      /\ next' = next - 1
  BY NElementsAssumption
  DEF StartElement, InMain, XferInv, MainAt, Starting, Elements, XferTypeOK
<1>2. \A i \in Elements : i > next <=> pc[i] # "none"
  BY <1>1 DEF XferInv, Starting
<1>3. pc[next] = "none"
  BY <1>1, <1>2
<1>4. PICK at \in {"passive", "new", "running"} :
        /\ Goes(next, at)
        /\ at = "running" => next \notin Pullers
        /\ num_active' = num_active + (IF at = "passive" THEN 0 ELSE 1)
  <2>1. CASE Goes(next, "passive") /\ UNCHANGED num_active
    BY <2>1 DEF XferInv, XferTypeOK
  <2>2. CASE /\ Goes(next, IF next \in Pullers THEN "new" ELSE "running")
             /\ num_active' = num_active + 1
    BY <2>2
  <2> QED
    BY <2>1, <2>2 DEF StartElement
<1>5. /\ PcType' /\ pc'[Main] = pc[Main] /\ pc'[next] = at
      /\ \A j \in Elements : j # next => pc'[j] = pc[j]
  BY <1>1, <1>4, ThreadGoes DEF XferInv, ThreadPcs
<1>6. References' /\ MainAt'
  BY <1>1, <1>5 DEF XferInv, References, MainAt
<1>7. Counted' /\ num_active' \in 0..N
  <2>1. /\ Cardinality(Living) \in Nat /\ Cardinality(Threads) \in Nat
        /\ Cardinality(DonesIn(queue)) \in Nat
        /\ Cardinality(Living') \in Nat /\ Cardinality(Threads') \in Nat
        /\ Cardinality(Threads') <= N
    <3>1. Living' \in SUBSET Elements /\ Threads' \in SUBSET Elements
      BY DEF Living, Threads
    <3> QED
      BY <3>1, LivingType, ElementSets, DonesFinite DEF XferInv, XferTypeOK
  <2>2. CASE at = "passive"
    <3>1. Living' = Living /\ Threads' = Threads
      BY <1>3, <1>5, <2>2 DEF Living, Threads, Alive
    <3> QED
      BY <1>1, <1>4, <2>1, <2>2, <3>1 DEF XferInv, XferTypeOK, Counted
  <2>3. CASE at # "passive"
    <3>1. /\ Living' = Living \cup {next} /\ Threads' = Threads \cup {next}
          /\ next \notin Living /\ next \notin Threads
      BY <1>1, <1>3, <1>4, <1>5, <2>3 DEF Living, Threads, Alive
    <3>2. /\ Cardinality(Living') = Cardinality(Living) + 1
          /\ Cardinality(Threads') = Cardinality(Threads) + 1
      BY <3>1, LivingType, ElementSets, FS_AddElement
    <3>3. num_active' = num_active + 1
      BY <1>4, <2>3
    <3>4. /\ num_active = Cardinality(DonesIn(queue)) + Cardinality(Living)
          /\ num_active <= Cardinality(Threads) /\ queue' = queue
      BY <1>1 DEF XferInv, Counted
    <3>5. /\ num_active' = Cardinality(DonesIn(queue')) + Cardinality(Living')
          /\ num_active' <= Cardinality(Threads') /\ num_active' \in 0..N
      BY <2>1, <3>2, <3>3, <3>4, NElementsAssumption
    <3> QED
      BY <1>1, <3>5 DEF Counted
  <2> QED
    BY <2>2, <2>3
<1>8. XferTypeOK'
  <2>1. next' \in 0..(N + 1)
    BY <1>1, NElementsAssumption
  <2> QED
    BY <1>1, <1>4, <1>5, <1>7, <2>1 DEF XferInv, XferTypeOK, ThreadPcs
<1>9. Starting'
  <2>1. \A i \in Elements : i > next' <=> pc'[i] # "none"
    BY <1>1, <1>2, <1>4, <1>5 DEF Elements
  <2>2. \A i \in Pullers : Alive(i)' => pc'[i] = "new"
    <3>1. Pullers \subseteq Elements
      BY NElementsAssumption DEF Elements
    <3> QED
      BY <1>1, <1>4, <1>5, <3>1 DEF XferInv, Starting, Alive
  <2>3. next' \in 0..N
    BY <1>1, NElementsAssumption
  <2> QED
    BY <1>1, <2>1, <2>2, <2>3 DEF Starting
<1>10. Cancelling'
  BY <1>1, <1>4, <1>5 DEF XferInv, Cancelling
<1>11. DoneToCome => DoneToCome'
  <2>1. Living \subseteq Living'
    BY <1>1, <1>3, <1>5 DEF Living, Alive
  <2> QED
    BY <1>1, <2>1 DEF DoneToCome
<1>12. Heard'
  <2>1. Followed(queue, DoneToCome, pc[Main] \in InCancel, cancelled)
    BY DEF XferInv, Heard
  <2>2. Followed(queue, DoneToCome, pc[Main] \in InCancel, cancelled)'
    BY <1>1, <1>5, <1>11, <2>1 DEF Followed
  <2>3. \A p \in Procs : pc'[p] = "queue" => cancelled'
    BY <1>1, <1>4, <1>5 DEF XferInv, Heard, Procs
  <2> QED
    BY <2>2, <2>3 DEF Heard
<1> QED
  BY <1>5, <1>6, <1>7, <1>8, <1>9, <1>10, <1>12 DEF XferInv

\* The end of xfer_start: a transfer that counts nothing sends itself an XMSG_DONE.
LEMMA StartedInv ==
    ASSUME XferInv, Started PROVE XferInv'
<1>1. PcType' /\ pc'[Main] = "loop" /\ \A i \in Elements : pc'[i] = pc[i]
  BY MainGoes DEF Started, XferInv, MainPcs
<1>2. /\ status = "START" /\ next = 0 /\ status' = "RUNNING"
      /\ UNCHANGED <<cancelled, refcount, next, expect_eof, elt, held>>
  BY DEF Started, InMain, XferInv, MainAt
<1>3. References' /\ MainAt'
  BY <1>1, <1>2 DEF XferInv, References, MainAt
<1>4. /\ Living' = Living /\ Threads' = Threads /\ (NoneStarted' <=> NoneStarted)
      /\ \A i \in Elements : Alive(i)' <=> Alive(i)
  BY <1>1, SameElements
<1>5. Starting'
  <2>1. \A i \in Elements : i > 0
    BY DEF Elements
  <2>2. NoneStarted \/ \A i \in Elements : pc[i] # "none"
    BY <1>2, <2>1 DEF XferInv, Starting
  <2> QED
    BY <1>1, <1>2, <1>4, <2>2 DEF Starting
<1>6. Cancelling'
  BY <1>1, <1>2 DEF XferInv, Cancelling
<1>7. \A p \in Procs : pc'[p] = "queue" => cancelled'
  BY <1>1, <1>2 DEF XferInv, Heard, Procs
<1>8. queue \in Seq(Messages) /\ "DONE" \in Messages
  BY DEF XferInv, XferTypeOK, Messages
<1>9. Followed(queue, DoneToCome, pc[Main] \in InCancel, cancelled)
      /\ Counted /\ XferTypeOK
  BY DEF XferInv, Heard
<1>10. CASE num_active = 0
  <2>1. num_active' = 1 /\ queue' = Append(queue, "DONE")
    BY <1>10 DEF Started, Send
  <2>2. XferTypeOK'
    BY <1>1, <1>2, <1>8, <1>9, <2>1, Appended, NElementsAssumption
    DEF XferTypeOK, MainPcs, Statuses
  <2>3. Counted'
    <3>1. /\ Cardinality(DonesIn(queue')) = Cardinality(DonesIn(queue)) + 1
          /\ Cardinality(DonesIn(queue)) \in Nat /\ Cardinality(Living) \in Nat
      BY <1>8, <2>1, DonesAppended, DonesFinite, LivingType, ElementSets
    <3> QED
      BY <1>2, <1>4, <1>9, <1>10, <2>1, <3>1 DEF Counted
  <2>4. Followed(queue', DoneToCome', pc[Main] \in InCancel, cancelled)
    BY <1>8, <1>9, <2>1, FlagTypes, FollowedByDone DEF DoneToCome
  <2>5. Followed(queue, DoneToCome, pc[Main] \in InCancel, cancelled)'
    BY <1>1, <1>2, <2>4 DEF Followed, InCancel
  <2> QED
    BY <1>1, <1>3, <1>5, <1>6, <1>7, <2>2, <2>3, <2>5 DEF XferInv, Heard
<1>11. CASE num_active # 0
  <2>1. UNCHANGED <<num_active, queue>>
    BY <1>11 DEF Started
  <2>2. XferTypeOK'
    BY <1>1, <1>2, <1>9, <2>1 DEF XferTypeOK, MainPcs, Statuses
  <2>3. Counted'
    BY <1>2, <1>4, <1>9, <2>1 DEF Counted
  <2>4. DoneToCome' <=> DoneToCome
    BY <1>2, <1>4, <1>11, <2>1 DEF DoneToCome
  <2>5. Followed(queue, DoneToCome, pc[Main] \in InCancel, cancelled)'
    BY <1>1, <1>2, <1>9, <2>1, <2>4 DEF Followed, InCancel
  <2> QED
    BY <1>1, <1>3, <1>5, <1>6, <1>7, <2>2, <2>3, <2>5 DEF XferInv, Heard
<1> QED
  BY <1>10, <1>11

-----------------------------------------------------------------------------
(* xmsgsource_dispatch.                                                    *)

\* When a message is popped the transfer runs and the main thread is in no loop.
LEMMA AtDispatch ==
    ASSUME XferInv, NEW t, Pops(t)
    PROVE  /\ status \in {"RUNNING", "CANCELLED"} /\ pc[Main] = "loop"
           /\ queue \in Seq(Messages) /\ queue # <<>> /\ Head(queue) = t
           /\ Tail(queue) \in Seq(Messages)
           /\ Cardinality(DonesIn(queue)) \in Nat /\ Cardinality(Living) \in Nat
           /\ Cardinality(DonesIn(Tail(queue))) =
                Cardinality(DonesIn(queue)) - (IF t = "DONE" THEN 1 ELSE 0)
           /\ Followed(Tail(queue), DoneToCome, pc[Main] \in InCancel, cancelled)
<1>1. /\ status \in {"RUNNING", "CANCELLED"} /\ pc[Main] = "loop"
      /\ queue \in Seq(Messages) /\ queue # <<>> /\ Head(queue) = t
  BY DEF Pops, InMain, XferInv, XferTypeOK, MainAt, Statuses
<1>2. Followed(queue, DoneToCome, pc[Main] \in InCancel, cancelled)
  BY DEF XferInv, Heard
<1>3. Followed(Tail(queue), DoneToCome, pc[Main] \in InCancel, cancelled)
  BY <1>1, <1>2, FollowedPopped, FlagTypes DEF XferInv
<1> QED
  BY <1>1, <1>3, Popped, DonesPopped, DonesFinite, LivingType, ElementSets

\* A message that is only taken from the queue.
LEMMA Eaten ==
    ASSUME XferInv, NEW t, t # "DONE", Pops(t), queue' = Tail(queue),
           UNCHANGED <<status, cancelled, num_active, refcount, pc, next, expect_eof, elt, held>>
    PROVE  XferInv'
<1>1. XferTypeOK' /\ PcType' /\ References' /\ MainAt'
  BY AtDispatch DEF XferInv, XferTypeOK, PcType, References, MainAt
<1>2. Starting' /\ Cancelling'
  BY StartingKept, CancellingKept DEF XferInv
<1>3. Living' = Living /\ Threads' = Threads /\ (DoneToCome' <=> DoneToCome)
  BY SameElements DEF DoneToCome
<1>4. Counted'
  BY <1>3, AtDispatch, CountedKept DEF XferInv
<1>5. Followed(queue, DoneToCome, pc[Main] \in InCancel, cancelled)'
  <2>1. Followed(queue', DoneToCome, pc[Main] \in InCancel, cancelled)
    BY AtDispatch
  <2> QED
    BY <1>3, <2>1 DEF Followed
<1>6. \A p \in Procs : pc'[p] = "queue" => cancelled'
  BY DEF XferInv, Heard
<1> QED
  BY <1>1, <1>2, <1>4, <1>5, <1>6 DEF XferInv, Heard

LEMMA DispatchErrorInv ==
    ASSUME XferInv, DispatchError PROVE XferInv'
BY Eaten DEF DispatchError

LEMMA DispatchDuplicateCancelInv ==
    ASSUME XferInv, DispatchDuplicateCancel PROVE XferInv'
BY Eaten DEF DispatchDuplicateCancel

LEMMA DispatchDoneInv ==
    ASSUME XferInv, DispatchDone PROVE XferInv'
<1>1. /\ Pops("DONE") /\ num_active > 1 /\ num_active' = num_active - 1
      /\ queue' = Tail(queue)
      /\ UNCHANGED <<status, cancelled, refcount, pc, next, expect_eof, elt, held>>
  BY DEF DispatchDone
<1>2. num_active \in 0..N /\ num_active' \in 0..N
  BY <1>1, NElementsAssumption DEF XferInv, XferTypeOK
<1>3. XferTypeOK' /\ PcType' /\ References' /\ MainAt'
  BY <1>1, <1>2, AtDispatch DEF XferInv, XferTypeOK, PcType, References, MainAt
<1>4. /\ Living' = Living /\ Threads' = Threads /\ (NoneStarted' <=> NoneStarted)
      /\ \A i \in Elements : Alive(i)' <=> Alive(i)
  BY <1>1, SameElements
<1>5. status \in {"RUNNING", "CANCELLED"}
  BY <1>1, AtDispatch
<1>6. Starting'
  BY <1>1, <1>4, <1>5 DEF XferInv, Starting
<1>7. Cancelling'
  BY <1>1, CancellingKept DEF XferInv
<1>8. Counted'
  <2>1. /\ num_active = Cardinality(DonesIn(queue)) + Cardinality(Living)
        /\ num_active <= Cardinality(Threads) \/ num_active <= 1
    BY DEF XferInv, Counted
  <2>2. Cardinality(DonesIn(queue')) = Cardinality(DonesIn(queue)) - 1
    BY <1>1, AtDispatch
  <2>3. /\ Cardinality(DonesIn(queue)) \in Nat /\ Cardinality(Living) \in Nat
        /\ Cardinality(Threads) \in Nat
    BY <1>1, AtDispatch, LivingType, ElementSets
  <2>4. num_active' = Cardinality(DonesIn(queue')) + Cardinality(Living')
    BY <1>1, <1>4, <2>1, <2>2, <2>3
  <2>5. num_active' <= Cardinality(Threads')
    BY <1>1, <1>2, <1>4, <2>1, <2>3
  <2> QED
    BY <1>1, <1>5, <2>4, <2>5 DEF Counted
<1>9. DoneToCome' <=> DoneToCome
  BY <1>1, <1>4, <1>5 DEF DoneToCome
<1>10. Followed(queue, DoneToCome, pc[Main] \in InCancel, cancelled)'
  <2>1. Followed(queue', DoneToCome, pc[Main] \in InCancel, cancelled)
    BY <1>1, AtDispatch
  <2> QED
    BY <1>1, <1>9, <2>1 DEF Followed
<1>11. \A p \in Procs : pc'[p] = "queue" => cancelled'
  BY <1>1 DEF XferInv, Heard
<1> QED
  BY <1>3, <1>6, <1>7, <1>8, <1>10, <1>11 DEF XferInv, Heard

\* The XMSG_DONE that is counted last finds no thread and no other XMSG_DONE, and behind
\* it at most the XMSG_CANCEL of the caller.
LEMMA LastDone ==
    ASSUME XferInv, Pops("DONE"), num_active <= 1
    PROVE  /\ num_active = 1 /\ Living = {} /\ Cardinality(DonesIn(queue)) = 1
           /\ queue \in {<<"DONE">>, <<"DONE", "CANCEL">>}
<1>1. /\ status \in {"RUNNING", "CANCELLED"} /\ pc[Main] = "loop"
      /\ queue \in Seq(Messages) /\ queue # <<>> /\ Head(queue) = "DONE"
      /\ Cardinality(DonesIn(queue)) \in Nat /\ Cardinality(Living) \in Nat
  BY AtDispatch
<1>2. 1 \in DonesIn(queue) /\ Len(queue) \in Nat \ {0}
  BY <1>1 DEF DonesIn, Indices
<1>3. Cardinality(DonesIn(queue)) # 0
  BY <1>1, <1>2, DonesFinite, FS_EmptySet
<1>4. num_active = 1 /\ Cardinality(Living) = 0 /\ Cardinality(DonesIn(queue)) = 1
  BY <1>1, <1>3 DEF XferInv, Counted
<1>5. Living = {}
  BY <1>4, LivingType, ElementSets, FS_EmptySet
<1>6. DonesIn(queue) = {1}
  <2>1. PICK x : DonesIn(queue) = {x}
    BY <1>1, <1>4, DonesFinite, FS_Singleton
  <2> QED
    BY <1>2, <2>1
<1>7. \A n \in Indices(queue) : n > 1 => queue[n] # "DONE"
  BY <1>6 DEF DonesIn
<1>8. ~ DoneToCome
  BY <1>1, <1>5 DEF DoneToCome
<1>9. \A n \in Indices(queue) : ~ DoneBehind(queue, n)
  BY <1>7 DEF DoneBehind, Indices
<1>10. /\ \A n \in Indices(queue) : queue[n] # "ERROR"
       /\ \A m, n \in Indices(queue) : ~ (m < n /\ queue[m] = "CANCEL" /\ queue[n] = "CANCEL")
  BY <1>8, <1>9 DEF XferInv, Heard, Followed
<1>11. \A n \in Indices(queue) : n > 1 => queue[n] = "CANCEL"
  BY <1>1, <1>7, <1>10 DEF Messages, Indices
<1>12. Len(queue) <= 2
  <2> SUFFICES ASSUME Len(queue) > 2 PROVE FALSE
    BY <1>2
  <2>1. 2 \in Indices(queue) /\ 3 \in Indices(queue)
    BY <1>2 DEF Indices
  <2> QED
    BY <1>10, <1>11, <2>1
<1>13. queue[1] = "DONE"
  BY <1>1
<1>14. CASE Len(queue) = 1
  <2>1. queue = <<"DONE">>
    BY <1>1, <1>13, <1>14
  <2> QED
    BY <1>4, <1>5, <2>1
<1>15. CASE Len(queue) = 2
  <2>1. queue[2] = "CANCEL"
    BY <1>11, <1>15 DEF Indices
  <2>2. queue = <<"DONE", "CANCEL">>
    BY <1>1, <1>13, <1>15, <2>1
  <2> QED
    BY <1>4, <1>5, <2>2
<1>16. Len(queue) = 1 \/ Len(queue) = 2
  <2>1. \A k \in Nat \ {0} : k <= 2 => k = 1 \/ k = 2
    OBVIOUS
  <2> QED
    BY <1>2, <1>12, <2>1
<1> QED
  BY <1>14, <1>15, <1>16

LEMMA DispatchLastDoneInv ==
    ASSUME XferInv, DispatchLastDone PROVE XferInv'
<1>1. /\ Pops("DONE") /\ num_active <= 1 /\ num_active' = num_active - 1
      /\ status' = "DONE" /\ refcount' = refcount - 1
      /\ UNCHANGED <<cancelled, pc, next, expect_eof, elt, held>>
  BY DEF DispatchLastDone
<1>2. num_active' = 0 /\ Living = {} /\ Cardinality(DonesIn(queue)) = 1
  BY <1>1, LastDone
<1>3. status \in {"RUNNING", "CANCELLED"} /\ pc[Main] = "loop"
  BY <1>1, AtDispatch
<1>4. References' /\ refcount' \in 0..2
  BY <1>1, <1>3 DEF XferInv, References, XferTypeOK
<1>5. queue' = <<>> \/ queue' = Tail(queue)
  BY DEF DispatchLastDone, AfterUnref
<1>6. queue' \in Seq(Messages) /\ Cardinality(DonesIn(queue')) = 0
  <2>1. CASE queue' = Tail(queue)
    BY <1>1, <1>2, <2>1, AtDispatch
  <2>2. CASE queue' = <<>>
    <3>1. queue' \in Seq(Messages) /\ DonesIn(queue') = {}
      BY <2>2 DEF DonesIn, Indices
    <3> QED
      BY <3>1, FS_EmptySet
  <2> QED
    BY <1>5, <2>1, <2>2
<1>7. XferTypeOK' /\ PcType' /\ MainAt'
  BY <1>1, <1>2, <1>3, <1>4, <1>6, NElementsAssumption
  DEF XferInv, XferTypeOK, PcType, MainAt, Statuses
<1>8. /\ Living' = Living /\ Threads' = Threads /\ (NoneStarted' <=> NoneStarted)
      /\ \A i \in Elements : Alive(i)' <=> Alive(i)
  BY <1>1, SameElements
<1>9. Starting'
  BY <1>1, <1>3, <1>8 DEF XferInv, Starting
<1>10. Cancelling'
  <2>1. \A i \in Elements : pc[i] # "draining"
    BY <1>2 DEF Living, Alive
  <2> QED
    BY <1>1, <2>1 DEF Cancelling
<1>11. Counted'
  <2>1. Cardinality(Living') = 0 /\ Cardinality(Threads') \in Nat
    BY <1>2, <1>8, LivingType, ElementSets, FS_EmptySet
  <2>2. num_active' = Cardinality(DonesIn(queue')) + Cardinality(Living')
    BY <1>2, <1>6, <2>1
  <2>3. num_active' <= Cardinality(Threads')
    BY <1>2, <2>1
  <2> QED
    BY <1>2, <2>2, <2>3 DEF Counted
<1>12. DoneToCome' <=> DoneToCome
  BY <1>1, <1>3, <1>8 DEF DoneToCome
<1>13. Followed(queue, DoneToCome, pc[Main] \in InCancel, cancelled)'
  <2>1. CASE queue' = Tail(queue)
    <3>1. Followed(queue', DoneToCome, pc[Main] \in InCancel, cancelled)
      BY <1>1, <2>1, AtDispatch
    <3> QED
      BY <1>1, <1>12, <3>1 DEF Followed
  <2>2. CASE queue' = <<>>
    BY <2>2 DEF Followed, Indices
  <2> QED
    BY <1>5, <2>1, <2>2
<1>14. \A p \in Procs : pc'[p] = "queue" => cancelled'
  BY <1>1 DEF XferInv, Heard
<1> QED
  BY <1>4, <1>7, <1>9, <1>10, <1>11, <1>13, <1>14 DEF XferInv, Heard

LEMMA DispatchCancelInv ==
    ASSUME XferInv, DispatchCancel PROVE XferInv'
<1>1. /\ Pops("CANCEL") /\ status \notin {"CANCELLING", "CANCELLED"}
      /\ status' = "CANCELLING" /\ queue' = Tail(queue) /\ expect_eof' = FALSE /\ next' = 1
      /\ UNCHANGED <<cancelled, num_active, refcount, elt, held>>
  BY DEF DispatchCancel
<1>2. PcType' /\ pc'[Main] = "cancelling" /\ \A i \in Elements : pc'[i] = pc[i]
  BY MainGoes DEF DispatchCancel, XferInv, MainPcs
<1>3. status = "RUNNING" /\ pc[Main] = "loop" /\ queue' \in Seq(Messages)
      /\ Cardinality(DonesIn(queue')) = Cardinality(DonesIn(queue))
  BY <1>1, AtDispatch
<1>4. XferTypeOK' /\ References' /\ MainAt'
  <2>1. expect_eof' \in BOOLEAN
    BY <1>1
  <2>2. next' \in 0..(N + 1)
    BY <1>1, NElementsAssumption
  <2>3. XferTypeOK'
    BY <1>1, <1>2, <1>3, <2>1, <2>2 DEF XferInv, XferTypeOK, Statuses, MainPcs
  <2> QED
    BY <1>1, <1>2, <1>3, <2>3 DEF XferInv, References, MainAt
<1>5. /\ Living' = Living /\ Threads' = Threads /\ (NoneStarted' <=> NoneStarted)
      /\ \A i \in Elements : Alive(i)' <=> Alive(i)
  BY <1>2, SameElements
<1>6. Starting'
  BY <1>1, <1>2, <1>3, <1>5 DEF XferInv, Starting
<1>7. Cancelling'
  <2>1. \A i \in Elements : ~ (i < 1)
    BY DEF Elements
  <2>2. \A i \in Elements : pc[i] # "draining"
    BY <1>3 DEF XferInv, Cancelling
  <2>3. 1 \in 1..(N + 1)
    BY NElementsAssumption
  <2>4. Upstreams(next)' = FALSE
    BY <1>1, <2>1 DEF Upstreams
  <2> QED
    BY <1>1, <1>2, <2>1, <2>2, <2>3, <2>4 DEF Cancelling
<1>8. Counted'
  BY <1>1, <1>3, <1>5 DEF XferInv, Counted
<1>9. DoneToCome' <=> DoneToCome
  BY <1>1, <1>3, <1>5 DEF DoneToCome
<1>10. Followed(queue, DoneToCome, pc[Main] \in InCancel, cancelled)'
  <2>1. Followed(queue', DoneToCome, pc[Main] \in InCancel, cancelled)
    BY <1>1, AtDispatch
  <2> QED
    BY <1>1, <1>2, <1>9, <2>1 DEF Followed, InCancel
<1>11. \A p \in Procs : pc'[p] = "queue" => cancelled'
  BY <1>1, <1>2 DEF XferInv, Heard, Procs
<1> QED
  BY <1>2, <1>4, <1>6, <1>7, <1>8, <1>10, <1>11 DEF XferInv, Heard

\* The loop of the cancellation: the elements before it are marked.
LEMMA CancelElementInv ==
    ASSUME XferInv, CancelElement PROVE XferInv'
<1>1. /\ next <= N /\ next' = next + 1
      /\ expect_eof' = (elt[next].can_generate_eof \/ expect_eof)
      /\ UNCHANGED <<status, cancelled, num_active, refcount, queue, pc, held>>
  BY DEF CancelElement
<1>2. /\ status = "CANCELLING" /\ next \in 1..(N + 1) /\ expect_eof = Upstreams(next)
      /\ \A i \in Elements : i < next => Marked(i)
  BY DEF CancelElement, InMain, XferInv, MainAt, Cancelling
<1>3. next \in Elements /\ next' \in 1..(N + 1)
  BY <1>1, <1>2, NElementsAssumption DEF Elements
<1> DEFINE Elts == [cancelled : BOOLEAN, expect_eof : BOOLEAN, can_generate_eof : BOOLEAN]
<1>4. elt \in [Elements -> Elts] /\ expect_eof \in BOOLEAN
  BY DEF XferInv, XferTypeOK
<1>5. /\ elt' \in [Elements -> Elts]
      /\ elt'[next].cancelled = TRUE /\ elt'[next].expect_eof = expect_eof
      /\ \A i \in Elements : elt'[i].can_generate_eof = elt[i].can_generate_eof
      /\ \A i \in Elements : i # next => elt'[i] = elt[i]
  <2>1. elt' = [elt EXCEPT ![next] = [[@ EXCEPT !.cancelled = TRUE] EXCEPT !.expect_eof = expect_eof]]
    BY <1>3, <1>4 DEF CancelElement
  <2>2. elt[next] \in Elts
    BY <1>3, <1>4
  <2> DEFINE e == [[elt[next] EXCEPT !.cancelled = TRUE] EXCEPT !.expect_eof = expect_eof]
  <2>3. /\ e \in Elts /\ e.cancelled = TRUE /\ e.expect_eof = expect_eof
        /\ e.can_generate_eof = elt[next].can_generate_eof
    BY <1>4, <2>2
  <2>4. elt' = [elt EXCEPT ![next] = e]
    BY <2>1
  <2> HIDE DEF e, Elts
  <2> QED
    BY <1>3, <1>4, <2>3, <2>4
<1>6. expect_eof' \in BOOLEAN /\ elt[next].can_generate_eof \in BOOLEAN
  BY <1>1, <1>3, <1>4
<1>7. XferTypeOK'
  BY <1>1, <1>3, <1>5, <1>6, NElementsAssumption DEF XferInv, XferTypeOK
<1>8. PcType' /\ References' /\ MainAt'
  BY <1>1 DEF XferInv, PcType, References, MainAt
<1>9. /\ Living' = Living /\ Threads' = Threads /\ (NoneStarted' <=> NoneStarted)
      /\ \A i \in Elements : Alive(i)' <=> Alive(i)
  BY <1>1, SameElements
<1>10. Starting'
  BY <1>1, <1>2, <1>9 DEF XferInv, Starting
<1>11. Counted'
  BY <1>1, <1>9, CountedKept DEF XferInv
<1>12. Cancelling'
  <2>1. \A i \in 1..(N + 1) : Upstreams(i)' <=> Upstreams(i)
    BY <1>5 DEF Upstreams
  <2>2. Upstreams(next') <=> (Upstreams(next) \/ elt[next].can_generate_eof)
    BY <1>1, <1>2, <1>3 DEF Upstreams, Elements
  <2>3. expect_eof' = Upstreams(next)'
    BY <1>1, <1>2, <1>3, <1>5, <1>6, <2>2 DEF Upstreams
  <2>4. \A i \in Elements : i < next' => Marked(i)'
    <3> SUFFICES ASSUME NEW i \in Elements, i < next' PROVE Marked(i)'
      OBVIOUS
    <3>1. i \in 1..(N + 1) /\ (i < next \/ i = next)
      BY <1>1, <1>2, NElementsAssumption DEF Elements
    <3>2. CASE i < next
      <4>1. Marked(i) /\ elt'[i] = elt[i]
        BY <1>2, <1>5, <3>2
      <4> QED
        BY <2>1, <3>1, <4>1 DEF Marked, Upstreams
    <3>3. CASE i = next
      <4>1. Upstreams(i)' <=> Upstreams(next)
        BY <2>1, <3>1, <3>3
      <4>2. elt'[i].expect_eof = Upstreams(next) /\ elt'[i].cancelled
        BY <1>2, <1>5, <3>3
      <4> QED
        BY <4>1, <4>2 DEF Marked, Upstreams
    <3> QED
      BY <3>1, <3>2, <3>3
  <2>5. \A i \in Elements : pc[i] # "draining"
    BY <1>2 DEF XferInv, Cancelling
  <2> QED
    BY <1>1, <1>2, <1>3, <2>3, <2>4, <2>5 DEF Cancelling
<1>13. DoneToCome' <=> DoneToCome
  BY <1>1, <1>2, <1>9 DEF DoneToCome
<1>14. Heard'
  BY <1>1, <1>13 DEF XferInv, Heard, Followed
<1> QED
  BY <1>7, <1>8, <1>10, <1>11, <1>12, <1>14 DEF XferInv

LEMMA CancelledInv ==
    ASSUME XferInv, Cancelled PROVE XferInv'
<1>1. /\ next = N + 1 /\ next' = 0 /\ status' = "CANCELLED" /\ expect_eof' = FALSE
      /\ UNCHANGED <<cancelled, num_active, refcount, queue, elt, held>>
  BY DEF Cancelled
<1>2. PcType' /\ pc'[Main] = "loop" /\ \A i \in Elements : pc'[i] = pc[i]
  BY MainGoes DEF Cancelled, XferInv, MainPcs
<1>3. status = "CANCELLING"
  BY DEF Cancelled, InMain, XferInv, MainAt
<1>4. XferTypeOK'
  <2>1. expect_eof' \in BOOLEAN
    BY <1>1
  <2>2. next' \in 0..(N + 1)
    BY <1>1, NElementsAssumption
  <2> QED
    BY <1>1, <1>2, <2>1, <2>2 DEF XferInv, XferTypeOK, Statuses, MainPcs
<1>5. References' /\ MainAt'
  BY <1>1, <1>2, <1>3 DEF XferInv, References, MainAt
<1>6. /\ Living' = Living /\ Threads' = Threads /\ (NoneStarted' <=> NoneStarted)
      /\ \A i \in Elements : Alive(i)' <=> Alive(i)
  BY <1>2, SameElements
<1>7. Starting'
  BY <1>1, <1>2, <1>3, <1>6 DEF XferInv, Starting
<1>8. Counted'
  BY <1>1, <1>3, <1>6 DEF XferInv, Counted
<1>9. Cancelling'
  <2>1. \A i \in Elements : i < next
    BY <1>1, NElementsAssumption DEF Elements
  <2>2. \A i \in Elements : Marked(i)
    BY <1>3, <2>1 DEF XferInv, Cancelling
  <2>3. \A i \in Elements : Marked(i)'
    BY <1>1, <2>2 DEF Marked, Upstreams
  <2> QED
    BY <1>1, <2>3 DEF Cancelling
<1>10. DoneToCome' <=> DoneToCome
  BY <1>1, <1>3, <1>6 DEF DoneToCome
<1>11. Followed(queue, DoneToCome, pc[Main] \in InCancel, cancelled)'
  BY <1>1, <1>2, <1>10 DEF XferInv, Heard, Followed, InCancel
<1>12. \A p \in Procs : pc'[p] = "queue" => cancelled'
  BY <1>1, <1>2 DEF XferInv, Heard, Procs
<1> QED
  BY <1>2, <1>4, <1>5, <1>7, <1>8, <1>9, <1>11, <1>12 DEF XferInv, Heard

\* The caller drops its reference: with the last one the queue is dropped, and the
\* transfer has not begun or is done.
LEMMA CallerUnrefInv ==
    ASSUME XferInv, CallerUnref PROVE XferInv'
<1>1. /\ held /\ held' = FALSE /\ refcount' = refcount - 1
      /\ UNCHANGED <<status, cancelled, num_active, pc, next, expect_eof, elt>>
  BY DEF CallerUnref
<1>2. References' /\ refcount' \in 0..2
  BY <1>1 DEF XferInv, References
<1>3. queue' = queue \/ (queue' = <<>> /\ status \in {"INIT", "DONE"})
  BY <1>1 DEF CallerUnref, AfterUnref, XferInv, References
<1>4. queue' \in Seq(Messages)
      /\ Cardinality(DonesIn(queue')) = Cardinality(DonesIn(queue))
  <2>1. CASE queue' = queue
    BY <2>1 DEF XferInv, XferTypeOK
  <2>2. CASE queue' = <<>> /\ status \in {"INIT", "DONE"}
    <3>1. queue' \in Seq(Messages) /\ DonesIn(queue') = {}
      BY <2>2 DEF DonesIn, Indices
    <3>2. Cardinality(DonesIn(queue')) = 0
      BY <3>1, FS_EmptySet
    <3>3. Cardinality(DonesIn(queue)) \in Nat /\ Cardinality(Living) \in Nat
      BY DonesFinite, LivingType, ElementSets DEF XferInv, XferTypeOK
    <3>4. Cardinality(DonesIn(queue)) = 0
      BY <2>2, <3>3 DEF XferInv, Counted
    <3> QED
      BY <3>1, <3>2, <3>4
  <2> QED
    BY <1>3, <2>1, <2>2
<1>5. XferTypeOK' /\ PcType' /\ MainAt'
  BY <1>1, <1>2, <1>4 DEF XferInv, XferTypeOK, PcType, MainAt
<1>6. Living' = Living /\ Threads' = Threads /\ (DoneToCome' <=> DoneToCome)
  BY <1>1, SameElements DEF DoneToCome
<1>7. Starting' /\ Cancelling'
  BY <1>1, StartingKept, CancellingKept DEF XferInv
<1>8. Counted'
  BY <1>1, <1>4, <1>6, CountedKept DEF XferInv
<1>9. Followed(queue, DoneToCome, pc[Main] \in InCancel, cancelled)'
  <2>1. CASE queue' = queue
    BY <1>1, <1>6, <2>1 DEF XferInv, Heard, Followed
  <2>2. CASE queue' = <<>>
    BY <2>2 DEF Followed, Indices
  <2> QED
    BY <1>3, <2>1, <2>2
<1>10. \A p \in Procs : pc'[p] = "queue" => cancelled'
  BY <1>1 DEF XferInv, Heard
<1> QED
  BY <1>2, <1>5, <1>7, <1>8, <1>9, <1>10 DEF XferInv, Heard

-----------------------------------------------------------------------------
(* The invariant holds.                                                    *)

\* xfer_new.
LEMMA XferInitInv == XferInit => XferInv
<1> SUFFICES ASSUME XferInit PROVE XferInv
  OBVIOUS
<1>1. /\ pc[Main] = "loop" /\ \A i \in Elements : pc[i] = "none"
      /\ PcType
  BY DEF XferInit, Main, Elements, Procs, PcType, MainPcs, ThreadPcs
<1>2. XferTypeOK
  <2>1. elt \in [Elements -> [cancelled : BOOLEAN, expect_eof : BOOLEAN,
                             can_generate_eof : BOOLEAN]]
    BY DEF XferInit
  <2>2. cancelled \in BOOLEAN /\ expect_eof \in BOOLEAN /\ held \in BOOLEAN
    BY DEF XferInit
  <2>3. /\ num_active \in 0..N /\ refcount \in 0..2 /\ next \in 0..(N + 1)
        /\ queue \in Seq(Messages)
    BY NElementsAssumption DEF XferInit
  <2>4. status \in Statuses /\ pc[Main] \in MainPcs /\ \A i \in Elements : pc[i] \in ThreadPcs
    BY <1>1 DEF XferInit, Statuses, MainPcs, ThreadPcs
  <2> QED
    BY <2>1, <2>2, <2>3, <2>4 DEF XferTypeOK
<1>3. References /\ MainAt /\ NoneStarted
  BY <1>1 DEF XferInit, References, MainAt, NoneStarted
<1>4. Starting
  <2>1. \A i \in Pullers : ~ Alive(i)
    BY <1>1, NElementsAssumption DEF Alive, Elements
  <2> QED
    BY <1>3, <2>1 DEF XferInit, Starting
<1>5. Cancelling
  BY <1>1 DEF XferInit, Cancelling
<1>6. Living = {} /\ Threads = {} /\ DonesIn(queue) = {}
  BY <1>1 DEF XferInit, Living, Threads, Alive, DonesIn, Indices
<1>7. Counted
  <2>1. Cardinality(Living) = 0 /\ Cardinality(Threads) = 0 /\ Cardinality(DonesIn(queue)) = 0
    BY <1>6, FS_EmptySet
  <2>2. num_active = 0
    BY DEF XferInit
  <2> QED
    BY <2>1, <2>2 DEF Counted
<1>8. Heard
  <2>1. \A p \in Procs : pc[p] # "queue"
    BY <1>1 DEF Procs
  <2> QED
    BY <2>1 DEF XferInit, Heard, Followed, Indices
<1> QED
  BY <1>1, <1>2, <1>3, <1>4, <1>5, <1>7, <1>8 DEF XferInv

\* Every step of the main thread, of the caller and of the threads keeps it.
LEMMA XferNextInv == XferInv /\ [XferNext]_vars => XferInv'
<1> SUFFICES ASSUME XferInv, [XferNext]_vars PROVE XferInv'
  OBVIOUS
<1>1. CASE StartStep
  BY <1>1, XferStartInv, SetupFailsInv, StartElementInv, StartedInv DEF StartStep
<1>2. CASE Dispatch
  BY <1>2, DispatchErrorInv, DispatchDoneInv, DispatchLastDoneInv, DispatchDuplicateCancelInv,
     DispatchCancelInv DEF Dispatch
<1>3. CASE CancelElement
  BY <1>3, CancelElementInv
<1>4. CASE Cancelled
  BY <1>4, CancelledInv
<1>5. CASE CallerCancel
  BY <1>5, CallerCancelInv
<1>6. CASE CallerUnref
  BY <1>6, CallerUnrefInv
<1>7. ASSUME NEW p \in Procs, CancelStep(p) PROVE XferInv'
  BY <1>7, CancelSetInv, CancelQueueInv DEF CancelStep
<1>8. ASSUME NEW i \in Elements, ThreadStep(i) PROVE XferInv'
  BY <1>8, PullBufferInv, CancelWithErrorInv, CancelTestInv, WaitUntilCancelledInv, ThreadEndsInv
  DEF ThreadStep
<1>9. CASE UNCHANGED vars
  <2>1. /\ XferTypeOK' /\ PcType' /\ References' /\ MainAt'
        /\ \A i \in Elements : pc'[i] = pc[i]
    BY <1>9 DEF vars, XferInv, XferTypeOK, PcType, References, MainAt
  <2>2. Starting' /\ Cancelling'
    BY <1>9, <2>1, StartingKept, CancellingKept DEF vars, XferInv
  <2>3. Living' = Living /\ Threads' = Threads /\ (DoneToCome' <=> DoneToCome)
    BY <1>9, <2>1, SameElements DEF vars, DoneToCome
  <2>4. Counted'
    BY <1>9, <2>3, CountedKept DEF vars, XferInv
  <2>5. Heard'
    BY <1>9, <2>3 DEF vars, XferInv, Heard, Followed
  <2> QED
    BY <2>1, <2>2, <2>4, <2>5 DEF XferInv
<1> QED
  BY <1>1, <1>2, <1>3, <1>4, <1>5, <1>6, <1>7, <1>8, <1>9 DEF XferNext

\* xfer.c keeps the whole account at every step of every thread: references, started
\* elements, XMSG_DONEs, cancellation marks and the order of the queue.
THEOREM XferInvariant == XferSpec => []XferInv
<1> QED
  BY XferInitInv, XferNextInv, PTL DEF XferSpec

\* The variables of xfer.c keep their types: num_active_elements never exceeds the number
\* of elements or falls below zero, and refcount stays within the two references there are.
THEOREM XferTypeCorrect == XferSpec => []XferTypeOK
<1>1. XferInv => XferTypeOK
  BY DEF XferInv
<1> QED
  BY <1>1, XferInvariant, PTL

\* A transfer that is done or freed (xfer_unref) has no thread left that could use it.
THEOREM XferQuietWhenDone == XferSpec => []DoneMeansQuiet
<1>1. XferInv => DoneMeansQuiet
  <2> SUFFICES ASSUME XferInv PROVE DoneMeansQuiet
    OBVIOUS
  <2>1. refcount = 0 => status \in {"INIT", "DONE"}
    BY DEF XferInv, References
  <2>2. Cardinality(DonesIn(queue)) \in Nat /\ Cardinality(Living) \in Nat
    BY DonesFinite, LivingType, ElementSets DEF XferInv, XferTypeOK
  <2>3. status \in {"INIT", "DONE"} => Cardinality(Living) = 0
    BY <2>2 DEF XferInv, Counted
  <2>4. status \in {"INIT", "DONE"} => Living = {}
    BY <2>3, LivingType, ElementSets, FS_EmptySet
  <2> QED
    BY <2>1, <2>4 DEF DoneMeansQuiet, Living
<1> QED
  BY <1>1, XferInvariant, PTL

\* A thread that moves data calls only elements that xfer_start has started
\* (wait_until_xfer_running, and the order of xfer_element_start).
THEOREM XferCallsStarted == XferSpec => []CallsStarted
<1>1. XferInv => CallsStarted
  <2> SUFFICES ASSUME XferInv, NEW i \in Elements, Alive(i), pc[i] # "new",
                      NEW j \in Elements, j > i \/ i \in Pullers
               PROVE  pc[j] # "none"
    BY DEF CallsStarted
  <2>1. pc[i] # "none"
    BY DEF Alive
  <2>2. ~ NoneStarted /\ status # "INIT"
    BY <2>1 DEF NoneStarted, XferInv, Starting
  <2>3. CASE status = "START"
    <3>1. next \in 0..N /\ \A k \in Elements : k > next <=> pc[k] # "none"
      BY <2>2, <2>3 DEF XferInv, Starting
    <3>2. i > next /\ i \notin Pullers
      BY <2>1, <2>3, <3>1 DEF XferInv, Starting
    <3> QED
      BY <3>1, <3>2 DEF Elements
  <2>4. CASE status # "START"
    BY <2>2, <2>4 DEF XferInv, Starting
  <2> QED
    BY <2>3, <2>4
<1> QED
  BY <1>1, XferInvariant, PTL

\* A thread that comes back from wait_until_xfer_cancelled is cancelled, and expects an EOF
\* exactly if an element before it can generate one (the loop of xmsgsource_dispatch).
THEOREM XferDrainsForEof == XferSpec => []DrainsForEof
<1>1. XferInv => DrainsForEof
  BY DEF XferInv, Cancelling, Marked, Upstreams, DrainsForEof
<1> QED
  BY <1>1, XferInvariant, PTL

\* The status of the transfer changes only as xfer.h draws it: the assertions of
\* xfer_set_status never fail.
THEOREM XferStatusOrder == XferSpec => StatusOrder
<1> DEFINE Ordered == status' # status => <<status, status'>> \in Transitions
<1>1. XferInv /\ [XferNext]_vars => [Ordered]_vars
  <2> SUFFICES ASSUME XferInv, XferNext, status' # status
               PROVE  <<status, status'>> \in Transitions
    BY DEF vars
  <2>1. CASE StartStep
    BY <2>1 DEF StartStep, XferStart, SetupFails, StartElement, Started, InMain, XferInv, MainAt,
                Transitions
  <2>2. CASE DispatchLastDone
    <3>1. status \in {"RUNNING", "CANCELLED"} /\ status' = "DONE"
      BY <2>2, AtDispatch DEF DispatchLastDone
    <3> QED
      BY <3>1 DEF Transitions
  <2>3. CASE DispatchCancel
    <3>1. status = "RUNNING" /\ status' = "CANCELLING"
      BY <2>3, AtDispatch DEF DispatchCancel
    <3> QED
      BY <3>1 DEF Transitions
  <2>4. CASE Cancelled
    BY <2>4 DEF Cancelled, InMain, XferInv, MainAt, Transitions
  <2>5. ~ (DispatchError \/ DispatchDone \/ DispatchDuplicateCancel \/ CancelElement
           \/ CallerCancel \/ CallerUnref)
    BY DEF DispatchError, DispatchDone, DispatchDuplicateCancel, CancelElement, CallerCancel,
           CallerUnref
  <2>6. \A p \in Procs : ~ CancelStep(p)
    BY DEF CancelStep, CancelSet, CancelQueue
  <2>7. \A i \in Elements : ~ ThreadStep(i)
    BY DEF ThreadStep, PullBuffer, CancelWithError, CancelTest, WaitUntilCancelled, ThreadEnds
  <2> QED
    BY <2>1, <2>2, <2>3, <2>4, <2>5, <2>6, <2>7 DEF XferNext, Dispatch
<1> QED
  BY <1>1, XferInvariant, PTL DEF XferSpec, StatusOrder

\* The caller hears of every error before the end: when the last XMSG_DONE is dispatched,
\* nothing is behind it in the queue but an XMSG_CANCEL of the caller's.
THEOREM XferNothingBehindDone == XferSpec => NothingBehindDone
<1> DEFINE Last == status' = "DONE" /\ status # "DONE"
                     => queue \in {<<"DONE">>, <<"DONE", "CANCEL">>}
<1>1. XferInv /\ [XferNext]_vars => [Last]_vars
  <2> SUFFICES ASSUME XferInv, XferNext, status' = "DONE", status # "DONE"
               PROVE  queue \in {<<"DONE">>, <<"DONE", "CANCEL">>}
    BY DEF vars
  <2>1. CASE DispatchLastDone
    BY <2>1, LastDone DEF DispatchLastDone
  <2>2. ~ (StartStep \/ DispatchCancel \/ Cancelled)
    BY DEF StartStep, XferStart, SetupFails, StartElement, Started, DispatchCancel, Cancelled
  <2>3. ~ (DispatchError \/ DispatchDone \/ DispatchDuplicateCancel \/ CancelElement
           \/ CallerCancel \/ CallerUnref)
    BY DEF DispatchError, DispatchDone, DispatchDuplicateCancel, CancelElement, CallerCancel,
           CallerUnref
  <2>4. \A p \in Procs : ~ CancelStep(p)
    BY DEF CancelStep, CancelSet, CancelQueue
  <2>5. \A i \in Elements : ~ ThreadStep(i)
    BY DEF ThreadStep, PullBuffer, CancelWithError, CancelTest, WaitUntilCancelled, ThreadEnds
  <2> QED
    BY <2>1, <2>2, <2>3, <2>4, <2>5 DEF XferNext, Dispatch
<1> QED
  BY <1>1, XferInvariant, PTL DEF XferSpec, NothingBehindDone
=============================================================================
