---------------------------- MODULE DriverProofs ----------------------------
(***************************************************************************)
(* Proofs about Driver, for any schedule, flush list and holding disks, any *)
(* number of dumpers, and any children that die.                           *)
(*                                                                         *)
(* The handlers of the driver are compositions of C functions, each an     *)
(* operator from a state s to a state (or a set of states), so the         *)
(* invariant Inv is stated for a state s, and there is one lemma for each  *)
(* of these functions: Good before, Good after.  Most of them are proved   *)
(* from a frame lemma, which says what the operator changes, and a lemma   *)
(* about the change: a dump moves (MovePlaces), a dumper takes up a dump   *)
(* (TakesUpLinks) or lets it go (LetsGoLinks), a child works on its dump   *)
(* (ChildStepGood), or nothing happens that Inv looks at (ViewInv).  The   *)
(* loops over queues and dumpers are folds; FoldFacts gives the states     *)
(* between the rounds, over which the lemmas argue by induction.           *)
(***************************************************************************)
EXTENDS Driver, FiniteSetTheorems, SequenceTheorems, TLAPS

-----------------------------------------------------------------------------
(* The queues, and the loops over them.                                    *)

GrantLoop == INSTANCE FoldFacts WITH op <- GrantRoom
StartLoop == INSTANCE FoldFacts WITH op <- StartRound

Queue(q) == q \in Seq(Dles) /\ IsInjective(q)

\* continue_port_dumps is a loop: one GrantRoom for each dump of roomq.
LEMMA GrantRounds ==
    ASSUME NEW s, NEW q \in Seq(Dles)
    PROVE  \E f : /\ f[0] = s
                  /\ \A n \in 1..Len(q) : f[n] = GrantRoom(f[n - 1], q[n])
                  /\ FoldLeft(GrantRoom, s, q) = f[Len(q)]
<1>1. FoldLeft(GrantRoom, s, q) = GrantLoop!Folded(s, q)
  BY DOMAIN q = 1..Len(q), Zenon DEF FoldLeft, MapThenFoldSet, Max, GrantLoop!Biggest,
     GrantLoop!Iterates, GrantLoop!Folded
<1> QED
  BY <1>1, GrantLoop!FoldRounds

\* start_some_dumps is a loop: one StartRound for each dumper.
LEMMA StartRounds ==
    ASSUME NEW A
    PROVE  \E f : /\ f[0] = A
                  /\ \A n \in Dumpers : f[n] = StartRound(f[n - 1], n)
                  /\ FoldLeft(StartRound, A, [i \in Dumpers |-> i]) = f[InParallel]
<1> DEFINE q == [i \in Dumpers |-> i]
<1>0. InParallel \in Nat
  BY DriverAssumption
<1>1. q \in Seq(Nat) /\ Len(q) = InParallel /\ DOMAIN q = 1..Len(q) /\ DOMAIN q = Dumpers /\ \A n \in Dumpers : q[n] = n
  BY <1>0 DEF Dumpers
<1> HIDE DEF q
<1>2. FoldLeft(StartRound, A, q) = StartLoop!Folded(A, q)
  BY <1>1, Zenon DEF FoldLeft, MapThenFoldSet, Max, StartLoop!Biggest,
     StartLoop!Iterates, StartLoop!Folded
<1>3. \E f : /\ f[0] = A
             /\ \A n \in 1..Len(q) : f[n] = StartRound(f[n - 1], q[n])
             /\ StartLoop!Folded(A, q) = f[Len(q)]
  BY <1>1, StartLoop!FoldRounds
<1>4. \E f : /\ f[0] = A
             /\ \A n \in Dumpers : f[n] = StartRound(f[n - 1], n)
             /\ StartLoop!Folded(A, q) = f[InParallel]
  BY <1>1, <1>3
<1> QED
  BY <1>2, <1>4 DEF q

\* remove_disk takes one dump out of a queue.
LEMMA QueueRemove ==
    ASSUME NEW q, Queue(q), NEW d
    PROVE  Queue(RemoveFirst(q, d)) /\ ToSet(RemoveFirst(q, d)) = ToSet(q) \ {d}
<1> DEFINE I == {i \in 1..Len(q) : q[i] = d}
<1>0. q \in Seq(Dles) /\ Len(q) \in Nat /\ DOMAIN q = 1..Len(q)
  BY DEF Queue
<1>1. CASE ~\E i \in 1..Len(q) : q[i] = d
  <2>1. RemoveFirst(q, d) = q
    BY <1>1, Zenon DEF RemoveFirst
  <2> QED
    BY <1>0, <1>1, <2>1 DEF ToSet
<1>2. CASE \E i \in 1..Len(q) : q[i] = d
  <2>1. PICK k \in 1..Len(q) : q[k] = d
    BY <1>2
  <2>2. \A i \in 1..Len(q) : q[i] = d => i = k
    BY <2>1, <1>0 DEF Queue, IsInjective
  <2>3. SelectInSeq(q, LAMBDA v : v = d) = k
    <3>1. I = {k} /\ k <= k
      BY <2>1, <2>2
    <3>2. Min(I) = k
      BY <3>1, Zenon DEF Min
    <3> QED
      BY <3>1, <3>2, Zenon DEF SelectInSeq
  <2> DEFINE r == SubSeq(q, 1, k - 1) \o SubSeq(q, k + 1, Len(q))
  <2>4. RemoveFirst(q, d) = r
    BY <1>2, <2>3, Zenon DEF RemoveFirst, RemoveAt
  <2>5. /\ r \in Seq(Dles) /\ Len(r) = Len(q) - 1 /\ DOMAIN r = 1..(Len(q) - 1)
        /\ \A i \in 1..(Len(q) - 1) : r[i] = IF i < k THEN q[i] ELSE q[i + 1]
    <3> DEFINE a == SubSeq(q, 1, k - 1)
               b == SubSeq(q, k + 1, Len(q))
    <3>1. a \in Seq(Dles) /\ Len(a) = k - 1 /\ \A i \in 1..(k - 1) : a[i] = q[i]
      BY <1>0
    <3>2. /\ b \in Seq(Dles) /\ Len(b) = Len(q) - k
          /\ \A i \in 1..(Len(q) - k) : b[i] = q[k + i]
      <4>1. k + 1 \in Int /\ Len(q) \in Int /\ \A i \in (k + 1)..Len(q) : q[i] \in Dles
        BY <1>0
      <4>2. /\ b \in Seq(Dles) /\ Len(b) = IF k + 1 <= Len(q) THEN Len(q) - (k + 1) + 1 ELSE 0
            /\ \A i \in 1..(Len(q) - (k + 1) + 1) : b[i] = q[k + 1 + i - 1]
        BY <4>1, SubSeqProperties
      <4> HIDE DEF b
      <4>3. PICK m \in Nat : m = Len(q)
        BY <1>0
      <4>4. k \in Nat /\ k <= m
        BY <4>3
      <4>5. Len(b) = m - k
        <5>1. Len(b) = IF k + 1 <= m THEN m - (k + 1) + 1 ELSE 0
          BY <4>2, <4>3, Zenon
        <5> QED
          BY <5>1, <4>4
      <4>6. ASSUME NEW i \in 1..(m - k) PROVE b[i] = q[k + i]
        <5>1. i \in 1..(m - (k + 1) + 1) /\ k + 1 + i - 1 = k + i
          BY <4>4
        <5> QED
          BY <5>1, <4>2, <4>3, Zenon
      <4> QED
        BY <4>2, <4>3, <4>5, <4>6, Zenon
    <3> HIDE DEF a, b
    <3>3. /\ a \o b \in Seq(Dles) /\ Len(a \o b) = Len(q) - 1
          /\ \A i \in 1..(Len(q) - 1) : (a \o b)[i] = IF i < k THEN a[i] ELSE b[i - (k - 1)]
      <4>1. /\ a \o b \in Seq(Dles) /\ Len(a \o b) = Len(a) + Len(b)
            /\ \A i \in 1..(Len(a) + Len(b)) :
                  (a \o b)[i] = IF i <= Len(a) THEN a[i] ELSE b[i - Len(a)]
        BY <3>1, <3>2, ConcatProperties
      <4>2. Len(a) + Len(b) = Len(q) - 1 /\ \A i \in Int : i <= Len(a) <=> i < k
        BY <3>1, <3>2, <1>0
      <4> QED
        BY <4>1, <4>2, <3>1
    <3>4. \A i \in 1..(Len(q) - 1) : (a \o b)[i] = IF i < k THEN q[i] ELSE q[i + 1]
      <4> SUFFICES ASSUME NEW i \in 1..(Len(q) - 1)
                   PROVE  (a \o b)[i] = IF i < k THEN q[i] ELSE q[i + 1]
        OBVIOUS
      <4>1. CASE i < k
        BY <4>1, <3>1, <3>3, <1>0
      <4>2. CASE ~(i < k)
        <5>1. i - (k - 1) \in 1..(Len(q) - k) /\ k + (i - (k - 1)) = i + 1
          BY <4>2, <1>0
        <5> QED
          BY <5>1, <4>2, <3>2, <3>3
      <4> QED
        BY <4>1, <4>2
    <3>5. DOMAIN (a \o b) = 1..(Len(q) - 1)
      BY <3>3
    <3> QED
      BY <3>3, <3>4, <3>5 DEF a, b
  <2> HIDE DEF r
  <2>6. IsInjective(r)
    <3>1. \A x, y \in 1..Len(q) : q[x] = q[y] => x = y
      BY <1>0 DEF Queue, IsInjective
    <3>2. ASSUME NEW x \in 1..(Len(q) - 1), NEW y \in 1..(Len(q) - 1), r[x] = r[y]
          PROVE  x = y
      <4>1. x \in 1..Len(q) /\ x + 1 \in 1..Len(q) /\ y \in 1..Len(q) /\ y + 1 \in 1..Len(q)
        BY <1>0
      <4>2. CASE x < k /\ y < k
        BY <4>1, <4>2, <3>1, <3>2, <2>5
      <4>3. CASE x < k /\ ~(y < k)
        BY <4>1, <4>3, <3>1, <3>2, <2>5
      <4>4. CASE ~(x < k) /\ y < k
        BY <4>1, <4>4, <3>1, <3>2, <2>5
      <4>5. CASE ~(x < k) /\ ~(y < k)
        BY <4>1, <4>5, <3>1, <3>2, <2>5
      <4> QED
        BY <4>2, <4>3, <4>4, <4>5
    <3> QED
      BY <3>2, <2>5 DEF IsInjective
  <2>7. ToSet(r) = ToSet(q) \ {d}
    <3>1. ASSUME NEW i \in DOMAIN r PROVE r[i] \in ToSet(q) \ {d}
      <4>0. i \in 1..Len(q) /\ i + 1 \in 1..Len(q)
        BY <2>5, <1>0
      <4>1. CASE i < k
        <5>1. r[i] = q[i] /\ q[i] # d
          BY <4>0, <4>1, <2>5, <2>2
        <5> QED
          BY <4>0, <5>1, <1>0 DEF ToSet
      <4>2. CASE ~(i < k)
        <5>1. r[i] = q[i + 1] /\ i + 1 # k
          BY <4>0, <4>2, <2>5
        <5> QED
          BY <4>0, <5>1, <2>2, <1>0 DEF ToSet
      <4> QED
        BY <4>1, <4>2
    <3>2. ASSUME NEW i \in DOMAIN q, q[i] # d PROVE \E j \in DOMAIN r : r[j] = q[i]
      <4>1. CASE i < k
        BY <4>1, <2>5, <1>0
      <4>2. CASE i > k
        <5>1. i - 1 \in DOMAIN r /\ ~(i - 1 < k) /\ (i - 1) + 1 = i
          BY <4>2, <2>5, <1>0
        <5> QED
          BY <5>1, <2>5
      <4> QED
        BY <3>2, <4>1, <4>2, <2>1, <1>0
    <3> QED
      BY <3>1, <3>2 DEF ToSet
  <2> QED
    BY <2>4, <2>5, <2>6, <2>7 DEF Queue
<1> QED
  BY <1>1, <1>2

\* enqueue_disk adds a dump that is not there.
LEMMA QueueAppend ==
    ASSUME NEW q, Queue(q), NEW d \in Dles, d \notin ToSet(q)
    PROVE  Queue(Append(q, d)) /\ ToSet(Append(q, d)) = ToSet(q) \cup {d}
<1>1. q \in Seq(Dles) /\ Len(q) \in Nat /\ DOMAIN q = 1..Len(q)
  BY DEF Queue
<1>2. \A i \in 1..Len(q) : q[i] # d
  BY <1>1 DEF ToSet
<1> DEFINE r == Append(q, d)
<1>3. /\ r \in Seq(Dles) /\ DOMAIN r = 1..(Len(q) + 1) /\ r[Len(q) + 1] = d
      /\ \A i \in 1..Len(q) : r[i] = q[i]
  BY <1>1
<1> HIDE DEF r
<1>4. IsInjective(r)
  BY <1>1, <1>2, <1>3 DEF Queue, IsInjective
<1>5. ToSet(r) = ToSet(q) \cup {d}
  <2>1. \A i \in DOMAIN r : r[i] \in ToSet(q) \cup {d}
    BY <1>1, <1>3 DEF ToSet
  <2>2. \A i \in DOMAIN q : i \in DOMAIN r /\ r[i] = q[i]
    BY <1>1, <1>3
  <2>3. Len(q) + 1 \in DOMAIN r
    BY <1>1, <1>3
  <2> QED
    BY <2>1, <2>2, <2>3, <1>3 DEF ToSet
<1> QED
  BY <1>3, <1>4, <1>5 DEF Queue, r

\* headqueue_disk adds a dump that is not there.
LEMMA QueuePrepend ==
    ASSUME NEW q, Queue(q), NEW d \in Dles, d \notin ToSet(q)
    PROVE  Queue(<<d>> \o q) /\ ToSet(<<d>> \o q) = ToSet(q) \cup {d}
<1>1. q \in Seq(Dles) /\ Len(q) \in Nat /\ DOMAIN q = 1..Len(q)
  BY DEF Queue
<1>2. \A i \in 1..Len(q) : q[i] # d
  BY <1>1 DEF ToSet
<1> DEFINE r == <<d>> \o q
<1>3. /\ r \in Seq(Dles) /\ DOMAIN r = 1..(Len(q) + 1) /\ r[1] = d
      /\ \A i \in 1..Len(q) : r[i + 1] = q[i]
  BY <1>1
<1> HIDE DEF r
<1>3a. \A j \in 2..(Len(q) + 1) : j - 1 \in 1..Len(q) /\ r[j] = q[j - 1]
  <2>1. \A j \in 2..(Len(q) + 1) : j - 1 \in 1..Len(q) /\ (j - 1) + 1 = j
    BY <1>1
  <2> QED BY <2>1, <1>3
<1>4. IsInjective(r)
  <2>1. ASSUME NEW a \in DOMAIN r, NEW b \in DOMAIN r, r[a] = r[b] PROVE a = b
    <3>1. CASE a = 1 /\ b = 1
      BY <3>1
    <3>2. CASE a = 1 /\ b # 1
      BY <3>2, <2>1, <1>1, <1>2, <1>3, <1>3a
    <3>3. CASE a # 1 /\ b = 1
      BY <3>3, <2>1, <1>1, <1>2, <1>3, <1>3a
    <3>4. CASE a # 1 /\ b # 1
      <4>1. a \in 2..(Len(q) + 1) /\ b \in 2..(Len(q) + 1)
        BY <3>4, <1>1, <1>3
      <4>2. q[a - 1] = q[b - 1]
        BY <4>1, <2>1, <1>3a
      <4>3. a - 1 = b - 1
        BY <4>1, <4>2, <1>1, <1>3a DEF Queue, IsInjective
      <4> QED BY <4>1, <4>3
    <3> QED BY <3>1, <3>2, <3>3, <3>4
  <2> QED BY <2>1 DEF IsInjective
<1>5. ToSet(r) = ToSet(q) \cup {d}
  <2>1. \A i \in DOMAIN r : r[i] \in ToSet(q) \cup {d}
    <3>1. \A i \in DOMAIN r : i = 1 \/ i \in 2..(Len(q) + 1)
      BY <1>1, <1>3
    <3> QED BY <3>1, <1>1, <1>3, <1>3a DEF ToSet
  <2>2. \A i \in DOMAIN q : \E j \in DOMAIN r : r[j] = q[i]
    <3>1. \A i \in DOMAIN q : i + 1 \in DOMAIN r /\ r[i + 1] = q[i]
      BY <1>1, <1>3
    <3> QED
      BY <3>1, Zenon
  <2>3. \E j \in DOMAIN r : r[j] = d
    BY <1>1, <1>3
  <2> QED
    BY <2>1, <2>2, <2>3, ZenonT(40) DEF ToSet
<1> QED
  BY <1>3, <1>4, <1>5 DEF Queue, r

\* The empty queue, and only it, has no dump.
LEMMA QueueEmpty ==
    /\ Queue(<<>>) /\ ToSet(<<>>) = {}
    /\ \A q : Queue(q) /\ ToSet(q) = {} => q = <<>>
<1>1. Queue(<<>>) /\ ToSet(<<>>) = {}
  BY DEF Queue, ToSet, IsInjective
<1>2. ASSUME NEW q, Queue(q), ToSet(q) = {} PROVE q = <<>>
  <2>1. q \in Seq(Dles) /\ Len(q) \in Nat /\ DOMAIN q = 1..Len(q)
    BY <1>2 DEF Queue
  <2>2. ~(1 \in DOMAIN q)
    BY <1>2 DEF ToSet
  <2>3. Len(q) = 0
    BY <2>1, <2>2
  <2> QED
    BY <2>1, <2>3
<1> QED
  BY <1>1, <1>2

-----------------------------------------------------------------------------
(* The inductive invariant.                                                *)

Fields == {"runq", "directq", "tapeq", "roomq", "ha", "sched", "dmp", "chk", "taper",
           "inprogress", "input", "taper_started", "need_degraded", "degraded_mode",
           "current_tape", "pending_aborts", "delayed", "timer", "blocked", "broken",
           "ended", "deaths", "noRooms", "outcome"}
SchedFields == {"est_size", "act_size", "holdp", "activehd", "dumper", "dump_attempted",
                "taper_attempted", "no_space", "hold"}
DumperFields == {"busy", "down", "dp", "result", "chunker", "told"}
ChunkerFields == {"result", "sendresult", "proc", "use", "wrote"}
TaperFields == {"mode", "done", "alive", "disk", "dumper", "port", "tape", "result", "err"}

Shape(s) ==
    /\ DOMAIN s = Fields
    /\ DOMAIN s.sched = Dles
    /\ \A d \in Dles : DOMAIN s.sched[d] = SchedFields /\ s.sched[d].est_size \in Nat
    /\ DOMAIN s.dmp = Dumpers /\ \A i \in Dumpers : DOMAIN s.dmp[i] = DumperFields
    /\ DOMAIN s.chk = Dumpers /\ \A i \in Dumpers : DOMAIN s.chk[i] = ChunkerFields
    /\ DOMAIN s.taper = TaperFields
    /\ DOMAIN s.outcome = Dles
    /\ s.deaths \in Nat

Flushing(s) == IF s.taper.mode = "file" THEN {s.taper.disk} ELSE {}

Held(s, d) ==
    \/ d \in ToSet(s.runq) \/ d \in ToSet(s.directq) \/ d \in ToSet(s.tapeq)
    \/ d \in s.inprogress \/ d \in Flushing(s)
Apart(s, d) ==
    /\ d \in ToSet(s.runq) => /\ d \notin ToSet(s.directq) /\ d \notin ToSet(s.tapeq)
                              /\ d \notin s.inprogress /\ d \notin Flushing(s)
    /\ d \in ToSet(s.directq) => /\ d \notin ToSet(s.tapeq) /\ d \notin s.inprogress
                                 /\ d \notin Flushing(s)
    /\ d \in ToSet(s.tapeq) => d \notin s.inprogress /\ d \notin Flushing(s)
    /\ d \in s.inprogress => d \notin Flushing(s)

Queues(s) == /\ Queue(s.runq) /\ Queue(s.directq) /\ Queue(s.tapeq) /\ Queue(s.roomq)
             /\ s.inprogress \subseteq Dles /\ Flushing(s) \subseteq Dles
             /\ ToSet(s.roomq) \subseteq s.inprogress
Placed(s) ==
    /\ \A d \in Dles : Apart(s, d) /\ (s.outcome[d] = None <=> Held(s, d))
    /\ \A d \in Flush : d \notin ToSet(s.runq) /\ d \notin ToSet(s.directq) /\ d \notin s.inprogress
Inputs(s) ==
    /\ s.input \in {"flush", "schedule", "done"}
    /\ s.input = "flush" => \A d \in Dles : s.outcome[d] = "unread"
    /\ s.input = "schedule" => \A d \in ToSet(Schedule) : s.outcome[d] = "unread"

Engaged(s, i) == s.dmp[i].dp \in s.inprogress /\ s.sched[s.dmp[i].dp].dumper = i

DumperLinks(s) ==
    /\ \A d \in s.inprogress : s.sched[d].dumper \in Dumpers /\ s.dmp[s.sched[d].dumper].dp = d
    /\ \A i \in Dumpers :
          /\ Engaged(s, i) => s.dmp[i].busy \/ s.dmp[i].down
          /\ ~Engaged(s, i) => ~s.dmp[i].busy /\ s.dmp[i].result = None /\ s.chk[i] = NoChunker
TaperLinks(s) ==
    /\ \A i \in Dumpers : Engaged(s, i) /\ ~s.dmp[i].chunker =>
          s.chk[i] = NoChunker /\ s.taper.mode = "dump" /\ s.taper.disk = s.dmp[i].dp
    /\ s.taper.mode = "dump" =>
          /\ s.taper.disk \in s.inprogress /\ s.taper.dumper = s.sched[s.taper.disk].dumper
          /\ ~s.dmp[s.taper.dumper].chunker
    /\ s.taper.mode # "dump" => s.taper.dumper = 0
    /\ s.taper.mode \in {"init", "idle", "file", "dump", "down"}
    /\ s.taper.mode \notin {"file", "dump"} => s.taper.disk = None
RoomLinks(s) ==
    /\ \A d \in ToSet(s.roomq) : /\ s.chk[s.sched[d].dumper].proc \in {"room", "dead"}
                                 /\ s.dmp[s.sched[d].dumper].chunker
    /\ \A i \in Dumpers : /\ s.chk[i].proc = "dead" => s.deaths > 0
                          /\ s.chk[i].proc \in {None, "room", "writing"} =>
                                s.chk[i].result = None /\ s.chk[i].sendresult = FALSE

Live(s) == ~s.blocked /\ ~s.broken /\ ~s.ended

Inv(s) == /\ Live(s) /\ Shape(s) /\ Queues(s) /\ Placed(s) /\ Inputs(s)
          /\ DumperLinks(s) /\ TaperLinks(s) /\ RoomLinks(s)

\* views
SameFlags(s, t) == t.blocked = s.blocked /\ t.broken = s.broken /\ t.ended = s.ended
SamePlaces(s, t) ==
    /\ t.runq = s.runq /\ t.directq = s.directq /\ t.tapeq = s.tapeq /\ t.roomq = s.roomq
    /\ t.inprogress = s.inprogress /\ t.taper.mode = s.taper.mode /\ t.taper.disk = s.taper.disk
    /\ t.input = s.input /\ t.outcome = s.outcome
SameLinks(s, t) ==
    /\ t.taper.dumper = s.taper.dumper /\ t.dmp = s.dmp /\ t.chk = s.chk
    /\ \A d \in Dles : t.sched[d].dumper = s.sched[d].dumper
    /\ t.deaths >= s.deaths
View(s, t) == Shape(t) /\ SameFlags(s, t) /\ SamePlaces(s, t) /\ SameLinks(s, t)

\* The places of the dumps depend only on what SamePlaces compares.
LEMMA ViewPlaces ==
    ASSUME NEW s, NEW t, SamePlaces(s, t), Queues(s), Placed(s), Inputs(s)
    PROVE  Queues(t) /\ Placed(t) /\ Inputs(t)
<1>1. Flushing(t) = Flushing(s)
  BY DEF SamePlaces, Flushing
<1>2. Queues(t)
  BY <1>1 DEF SamePlaces, Queues
<1>3. Placed(t)
  BY <1>1, Zenon DEF SamePlaces, Placed, Apart, Held
<1>4. Inputs(t)
  BY DEF SamePlaces, Inputs
<1> QED
  BY <1>2, <1>3, <1>4

\* The links depend only on what SamePlaces and SameLinks compare.
LEMMA ViewLinks ==
    ASSUME NEW s, NEW t, Shape(s), Shape(t), Queues(s), SamePlaces(s, t), SameLinks(s, t),
           DumperLinks(s), TaperLinks(s), RoomLinks(s)
    PROVE  DumperLinks(t) /\ TaperLinks(t) /\ RoomLinks(t)
<1>1. s.inprogress \subseteq Dles /\ ToSet(s.roomq) \subseteq s.inprogress
  BY DEF Queues
<1>2. \A d \in s.inprogress : t.sched[d].dumper = s.sched[d].dumper
  BY <1>1 DEF SameLinks
<1>3. t.dmp = s.dmp /\ t.chk = s.chk /\ t.inprogress = s.inprogress /\ t.roomq = s.roomq
      /\ t.taper.mode = s.taper.mode /\ t.taper.disk = s.taper.disk /\ t.taper.dumper = s.taper.dumper
  BY DEF SamePlaces, SameLinks
<1>4. \A i \in Dumpers : Engaged(t, i) <=> Engaged(s, i)
  BY <1>2, <1>3, Zenon DEF Engaged
<1>5. DumperLinks(t)
  BY <1>2, <1>3, <1>4, Zenon DEF DumperLinks
<1>6. TaperLinks(t)
  BY <1>2, <1>3, <1>4, Zenon DEF TaperLinks
<1>7. RoomLinks(t)
  <2>1. s.deaths > 0 => t.deaths > 0
    BY DEF SameLinks, Shape
  <2> QED
    BY <1>1, <1>2, <1>3, <2>1, Zenon DEF RoomLinks
<1> QED
  BY <1>5, <1>6, <1>7

\* So does the invariant.
LEMMA ViewInv ==
    ASSUME NEW s, NEW t, Inv(s), View(s, t)
    PROVE  Inv(t)
<1>1. Queues(t) /\ Placed(t) /\ Inputs(t)
  BY ViewPlaces DEF Inv, View
<1>2. DumperLinks(t) /\ TaperLinks(t) /\ RoomLinks(t)
  BY ViewLinks DEF Inv, View
<1> QED
  BY <1>1, <1>2 DEF Inv, View, SameFlags, Live

\* one dump moves
Others(s, t, d) ==
    \A e \in Dles : e # d =>
        /\ e \in ToSet(t.runq) <=> e \in ToSet(s.runq)
        /\ e \in ToSet(t.directq) <=> e \in ToSet(s.directq)
        /\ e \in ToSet(t.tapeq) <=> e \in ToSet(s.tapeq)
        /\ e \in t.inprogress <=> e \in s.inprogress
        /\ e \in Flushing(t) <=> e \in Flushing(s)
        /\ t.outcome[e] = s.outcome[e]

\* One dump goes to another place, or is parted with.
LEMMA MovePlaces ==
    ASSUME NEW s, NEW t, NEW d \in Dles, Placed(s), Inputs(s), Held(s, d), t.input = s.input,
           Others(s, t, d),
           Apart(t, d), t.outcome[d] = None <=> Held(t, d),
           d \in Flush => d \notin ToSet(t.runq) /\ d \notin ToSet(t.directq) /\ d \notin t.inprogress
    PROVE  Placed(t) /\ Inputs(t)
<1>0. Flush \subseteq Dles /\ ToSet(Schedule) \subseteq Dles
  BY DEF Dles
<1>1. s.outcome[d] = None
  BY Zenon DEF Placed
<1>2. ASSUME NEW e \in Dles
      PROVE  Apart(t, e) /\ (t.outcome[e] = None <=> Held(t, e))
  <2>1. CASE e = d
    BY <2>1
  <2>2. CASE e # d
    <3>1. Apart(s, e) /\ (s.outcome[e] = None <=> Held(s, e))
      BY Zenon DEF Placed
    <3>2. Apart(t, e)
      BY <2>2, <3>1, Zenon DEF Others, Apart
    <3>3. t.outcome[e] = None <=> Held(t, e)
      BY <2>2, <3>1, Zenon DEF Others, Held
    <3> QED BY <3>2, <3>3
  <2> QED BY <2>1, <2>2
<1>3. ASSUME NEW e \in Flush
      PROVE  e \notin ToSet(t.runq) /\ e \notin ToSet(t.directq) /\ e \notin t.inprogress
  BY <1>0, Zenon DEF Placed, Others
<1>4. None # "unread"
  BY DEF None
<1>5. s.input # "flush" /\ (s.input = "schedule" => d \notin ToSet(Schedule))
  BY <1>1, <1>4, Zenon DEF Inputs
<1>6. Inputs(t)
  BY <1>0, <1>5, Zenon DEF Inputs, Others
<1> QED
  BY <1>2, <1>3, <1>6 DEF Placed

-----------------------------------------------------------------------------
(* What keeps the invariant; parting with a dump; startaflush.             *)

Good(s, c) == Inv(s) /\ s.current_tape = c

\* nothing changes between the driver and its children
SameChildren(s, t) ==
    /\ t.dmp = s.dmp /\ t.chk = s.chk /\ t.inprogress = s.inprogress
    /\ \A d \in Dles : t.sched[d].dumper = s.sched[d].dumper
    /\ t.deaths = s.deaths
SameTaper(s, t) == /\ t.taper.mode = s.taper.mode /\ t.taper.disk = s.taper.disk
                   /\ t.taper.dumper = s.taper.dumper

\* The links hold while nothing changes between the driver and its children.
LEMMA LinksKept ==
    ASSUME NEW s, NEW t, Queues(s), DumperLinks(s), RoomLinks(s), TaperLinks(s),
           SameChildren(s, t), t.roomq = s.roomq
    PROVE  /\ DumperLinks(t) /\ RoomLinks(t)
           /\ \A i \in Dumpers : Engaged(t, i) <=> Engaged(s, i)
           /\ SameTaper(s, t) => TaperLinks(t)
<1>1. s.inprogress \subseteq Dles /\ ToSet(s.roomq) \subseteq s.inprogress
  BY DEF Queues
<1>2. \A d \in s.inprogress : t.sched[d].dumper = s.sched[d].dumper
  BY <1>1 DEF SameChildren
<1>3. t.dmp = s.dmp /\ t.chk = s.chk /\ t.inprogress = s.inprogress /\ t.deaths = s.deaths
  BY DEF SameChildren
<1>4. \A i \in Dumpers : Engaged(t, i) <=> Engaged(s, i)
  BY <1>2, <1>3, Zenon DEF Engaged
<1>5. DumperLinks(t)
  BY <1>2, <1>3, <1>4, Zenon DEF DumperLinks
<1>6. SameTaper(s, t) => TaperLinks(t)
  BY <1>2, <1>3, <1>4, Zenon DEF TaperLinks, SameTaper
<1>7. RoomLinks(t)
  BY <1>1, <1>2, <1>3, Zenon DEF RoomLinks
<1> QED
  BY <1>4, <1>5, <1>6, <1>7

\* A dump moves between the queues or is parted with, and nothing else changes
LEMMA QueueMove ==
    ASSUME NEW s, NEW c, Good(s, c), NEW t, NEW d \in Dles, Held(s, d), d \notin s.inprogress,
           d \notin Flushing(s),
           Shape(t), SameFlags(s, t), SameChildren(s, t), SameTaper(s, t), t.roomq = s.roomq,
           t.input = s.input, t.current_tape = s.current_tape,
           Queue(t.runq), Queue(t.directq), Queue(t.tapeq),
           \A e \in Dles : e # d =>
                /\ e \in ToSet(t.runq) <=> e \in ToSet(s.runq)
                /\ e \in ToSet(t.directq) <=> e \in ToSet(s.directq)
                /\ e \in ToSet(t.tapeq) <=> e \in ToSet(s.tapeq)
                /\ t.outcome[e] = s.outcome[e],
           Apart(t, d), t.outcome[d] = None <=> Held(t, d),
           d \in Flush => d \notin ToSet(t.runq) /\ d \notin ToSet(t.directq)
    PROVE  Good(t, c)
<1>0. Inv(s) /\ s.current_tape = c
  BY DEF Good
<1>1. Flushing(t) = Flushing(s) /\ t.inprogress = s.inprogress
  BY DEF Flushing, SameTaper, SameChildren
<1>2. Queues(t)
  BY <1>0, <1>1 DEF Inv, Queues
<1>3. Others(s, t, d)
  BY <1>1, Zenon DEF Others
<1>4. Placed(t) /\ Inputs(t)
  <2>1. Placed(s) /\ Inputs(s)
    BY <1>0 DEF Inv
  <2> QED
    BY <1>1, <1>3, <2>1, MovePlaces
<1>5. DumperLinks(t) /\ RoomLinks(t) /\ TaperLinks(t)
  BY <1>0, LinksKept DEF Inv
<1> QED
  BY <1>0, <1>2, <1>4, <1>5 DEF Inv, Good, SameFlags, Live

\* ViewInv, for a number of tapes.
LEMMA ViewGood ==
    ASSUME NEW s, NEW c, Good(s, c), NEW t, View(s, t), t.current_tape = s.current_tape
    PROVE  Good(t, c)
BY ViewInv DEF Good

\* The shape of s, with its definitions expanded
LEMMA Shaped ==
    ASSUME NEW s, Shape(s)
    PROVE  /\ DOMAIN s = Fields
           /\ DOMAIN s.sched = Dles /\ DOMAIN s.dmp = Dumpers /\ DOMAIN s.chk = Dumpers
           /\ DOMAIN s.taper = TaperFields /\ DOMAIN s.outcome = Dles /\ s.deaths \in Nat
           /\ \A d \in Dles : DOMAIN s.sched[d] = SchedFields /\ s.sched[d].est_size \in Nat
           /\ \A i \in Dumpers : DOMAIN s.dmp[i] = DumperFields /\ DOMAIN s.chk[i] = ChunkerFields
BY DEF Shape

PartedIn(s, t, d) ==
    /\ t.runq = s.runq /\ t.directq = s.directq /\ t.tapeq = s.tapeq /\ t.roomq = s.roomq
    /\ t.dmp = s.dmp /\ t.chk = s.chk /\ t.inprogress = s.inprogress /\ t.input = s.input
    /\ t.taper = s.taper /\ t.ha = s.ha /\ t.deaths = s.deaths
    /\ \A e \in Dles : t.sched[e].dumper = s.sched[e].dumper
    /\ \A e \in Dles : e # d => t.sched[e] = s.sched[e] /\ t.outcome[e] = s.outcome[e]
    /\ SameFlags(s, t) /\ t.current_tape = s.current_tape

\* Parting with a dump changes its outcome and its sched_t, and no one's dumper.
LEMMA PartedFrame ==
    ASSUME NEW s, Shape(s), NEW d \in Dles, NEW how
    PROVE  LET t == Parted(s, d, how)
           IN  /\ Shape(t) /\ PartedIn(s, t, d) /\ t.outcome[d] = how
<1> DEFINE t == Parted(s, d, how)
<1>1. /\ DOMAIN t = Fields
      /\ t.sched = [s.sched EXCEPT ![d] = [@ EXCEPT !.est_size = 0, !.act_size = 0, !.activehd = 0,
                                     !.dump_attempted = 0, !.taper_attempted = 0,
                                     !.no_space = FALSE, !.hold = "auto"]]
      /\ t.outcome = [s.outcome EXCEPT ![d] = how]
      /\ t.runq = s.runq /\ t.directq = s.directq /\ t.tapeq = s.tapeq /\ t.roomq = s.roomq
      /\ t.dmp = s.dmp /\ t.chk = s.chk /\ t.inprogress = s.inprogress /\ t.input = s.input
      /\ t.taper = s.taper /\ t.ha = s.ha /\ t.deaths = s.deaths
      /\ SameFlags(s, t) /\ t.current_tape = s.current_tape
  BY Shaped DEF Parted, Fields, SameFlags
<1> HIDE DEF t
<1>2. /\ DOMAIN t.sched = Dles /\ DOMAIN t.outcome = Dles /\ t.outcome[d] = how
      /\ \A e \in Dles : e # d => t.sched[e] = s.sched[e] /\ t.outcome[e] = s.outcome[e]
      /\ DOMAIN t.sched[d] = SchedFields /\ t.sched[d].est_size = 0
      /\ t.sched[d].dumper = s.sched[d].dumper
  BY <1>1, Shaped DEF SchedFields
<1>3. \A e \in Dles : DOMAIN t.sched[e] = SchedFields /\ t.sched[e].est_size \in Nat
                      /\ t.sched[e].dumper = s.sched[e].dumper
  BY <1>2, Shaped
<1>4. Shape(t)
  BY <1>1, <1>2, <1>3 DEF Shape
<1> QED
  BY <1>1, <1>2, <1>3, <1>4 DEF PartedIn, t

\* StartAFlush
LEMMA FlushStarts ==
    ASSUME NEW s, NEW c, Good(s, c), CanFlush(s), NEW d \in ToSet(s.tapeq),
           NEW t, t = [s EXCEPT !.tapeq = RemoveFirst(@, d),
                    !.taper = [@ EXCEPT !.mode = "file", !.disk = d, !.dumper = 0,
                                        !.result = None, !.err = None]]
    PROVE  Good(t, c)
<1>0. Inv(s) /\ s.current_tape = c /\ Shape(s) /\ s.taper.mode = "idle" /\ s.taper.disk = None
  BY DEF Good, Inv, CanFlush, TaperLinks
<1>1. d \in Dles /\ Queue(s.tapeq)
  BY <1>0 DEF Inv, Queues, Queue, ToSet
<1>2. /\ DOMAIN t = Fields
      /\ t.runq = s.runq /\ t.directq = s.directq /\ t.tapeq = RemoveFirst(s.tapeq, d) /\ t.roomq = s.roomq
      /\ t.dmp = s.dmp /\ t.chk = s.chk /\ t.inprogress = s.inprogress /\ t.input = s.input
      /\ t.sched = s.sched /\ t.outcome = s.outcome /\ t.deaths = s.deaths
      /\ SameFlags(s, t) /\ t.current_tape = s.current_tape
      /\ DOMAIN t.taper = TaperFields /\ t.taper.mode = "file" /\ t.taper.disk = d /\ t.taper.dumper = 0
  BY <1>0, Shaped, ZenonT(40) DEF Fields, TaperFields, SameFlags
<1>3. Shape(t)
  BY <1>0, <1>2, Shaped DEF Shape
<1>4. Queue(t.tapeq) /\ ToSet(t.tapeq) = ToSet(s.tapeq) \ {d}
  BY <1>1, <1>2, QueueRemove
<1>5. Flushing(t) = {d} /\ Flushing(s) = {}
  BY <1>0, <1>2 DEF Flushing
<1>6. Queues(t)
  BY <1>0, <1>1, <1>2, <1>4, <1>5 DEF Inv, Queues
<1>7. Placed(t) /\ Inputs(t)
  <2>1. Placed(s) /\ Inputs(s) /\ Held(s, d) /\ Apart(s, d)
    BY <1>0, <1>1 DEF Inv, Held, Placed
  <2>2. Others(s, t, d)
    BY <1>2, <1>4, <1>5, Zenon DEF Others
  <2>3. Apart(t, d) /\ Held(t, d)
    BY <2>1, <1>2, <1>4, <1>5 DEF Apart, Held
  <2>4. t.outcome[d] = None
    BY <2>1, <1>1, <1>2 DEF Placed
  <2>5. d \in Flush => d \notin ToSet(t.runq) /\ d \notin ToSet(t.directq) /\ d \notin t.inprogress
    BY <2>1, <1>2 DEF Placed
  <2> QED
    BY <1>1, <1>2, <2>1, <2>2, <2>3, <2>4, <2>5, MovePlaces
<1>8. DumperLinks(t) /\ RoomLinks(t) /\ \A i \in Dumpers : Engaged(t, i) <=> Engaged(s, i)
  <2>1. SameChildren(s, t)
    BY <1>2 DEF SameChildren
  <2> QED
    BY <1>0, <1>2, <2>1, LinksKept DEF Inv
<1>9. TaperLinks(t)
  BY <1>0, <1>2, <1>8 DEF Inv, TaperLinks
<1> QED
  BY <1>0, <1>2, <1>3, <1>6, <1>7, <1>8, <1>9 DEF Inv, Good, SameFlags, Live

\* startaflush keeps the invariant.
LEMMA StartAFlushGood ==
    ASSUME NEW s, NEW c, Good(s, c), NEW t \in StartAFlush(s)
    PROVE  Good(t, c)
<1>1. CASE CanFlush(s) /\ s.tapeq # <<>>
  BY <1>1, FlushStarts DEF StartAFlush
<1>2. CASE ~(CanFlush(s) /\ s.tapeq # <<>>)
  BY <1>2 DEF StartAFlush
<1> QED
  BY <1>1, <1>2

-----------------------------------------------------------------------------
(* allow_dump_dle: dumps that fit on no holding disk leave runq.           *)

OffRunq(s, d) == [s EXCEPT !.runq = RemoveFirst(@, d)]
ToDirectq(s, d) == [s EXCEPT !.runq = RemoveFirst(@, d), !.directq = Append(@, d),
                             !.sched[d].hold = "never"]

\* A dump of runq is parted with.
LEMMA RunqParted ==
    ASSUME NEW s, NEW c, Good(s, c), NEW d \in ToSet(s.runq), NEW how, how # None,
           NEW t, t = Parted(OffRunq(s, d), d, how)
    PROVE  Good(t, c) /\ ToSet(t.runq) = ToSet(s.runq) \ {d} /\ t.ha = s.ha /\ t.dmp = s.dmp
           /\ \A e \in Dles : e # d => t.sched[e] = s.sched[e]
<1> DEFINE r == OffRunq(s, d)
<1>0. Inv(s) /\ s.current_tape = c /\ Shape(s) /\ Queues(s) /\ Placed(s)
  BY DEF Good, Inv
<1>1. d \in Dles /\ Queue(s.runq)
  BY <1>0 DEF Queues, Queue, ToSet
<1>2. /\ DOMAIN r = Fields
      /\ r.runq = RemoveFirst(s.runq, d) /\ r.directq = s.directq /\ r.tapeq = s.tapeq /\ r.roomq = s.roomq
      /\ r.dmp = s.dmp /\ r.chk = s.chk /\ r.inprogress = s.inprogress /\ r.input = s.input
      /\ r.sched = s.sched /\ r.outcome = s.outcome /\ r.deaths = s.deaths /\ r.taper = s.taper
      /\ r.ha = s.ha
      /\ SameFlags(s, r) /\ r.current_tape = s.current_tape
  BY <1>0, Shaped DEF Fields, SameFlags, OffRunq
<1>3. Shape(r)
  BY <1>0, <1>2 DEF Shape
<1> HIDE DEF r
<1>4. Shape(t) /\ PartedIn(r, t, d) /\ t.outcome[d] = how
  BY <1>1, <1>3, PartedFrame DEF r
<1>5. Queue(t.runq) /\ ToSet(t.runq) = ToSet(s.runq) \ {d}
  BY <1>1, <1>2, <1>4, QueueRemove DEF PartedIn
<1>6. Held(s, d) /\ Apart(s, d) /\ (d \notin Flush) /\ Apart(s, d)
  BY <1>0, <1>1 DEF Held, Placed
<1>7. SameFlags(s, t) /\ SameChildren(s, t) /\ SameTaper(s, t)
  BY <1>2, <1>4 DEF PartedIn, SameFlags, SameChildren, SameTaper
<1>8. Flushing(t) = Flushing(s)
  BY <1>7 DEF SameTaper, Flushing
<1>9. /\ t.roomq = s.roomq /\ t.input = s.input /\ t.current_tape = s.current_tape
      /\ t.directq = s.directq /\ t.tapeq = s.tapeq /\ t.inprogress = s.inprogress
      /\ \A e \in Dles : e # d => t.outcome[e] = s.outcome[e]
      /\ t.ha = s.ha /\ t.dmp = s.dmp /\ \A e \in Dles : e # d => t.sched[e] = s.sched[e]
  BY <1>2, <1>4 DEF PartedIn
<1>10. Apart(t, d) /\ ~Held(t, d)
  BY <1>5, <1>6, <1>8, <1>9 DEF Apart, Held
<1>11. d \notin s.inprogress /\ d \notin Flushing(s) /\ Queue(t.directq) /\ Queue(t.tapeq)
  BY <1>0, <1>6, <1>9 DEF Apart, Queues
<1>12. \A e \in Dles : e # d =>
                /\ e \in ToSet(t.runq) <=> e \in ToSet(s.runq)
                /\ e \in ToSet(t.directq) <=> e \in ToSet(s.directq)
                /\ e \in ToSet(t.tapeq) <=> e \in ToSet(s.tapeq)
                /\ t.outcome[e] = s.outcome[e]
  BY <1>5, <1>9
<1>13. t.outcome[d] = None <=> Held(t, d)
  BY <1>4, <1>10
<1>14. Good(t, c)
  BY <1>1, <1>4, <1>5, <1>6, <1>7, <1>9, <1>10, <1>11, <1>12, <1>13, QueueMove
<1> QED
  BY <1>5, <1>9, <1>14

\* A dump goes from runq to directq.
LEMMA RunqToDirect ==
    ASSUME NEW s, NEW c, Good(s, c), NEW d \in ToSet(s.runq),
           NEW t, t = ToDirectq(s, d)
    PROVE  Good(t, c) /\ ToSet(t.runq) = ToSet(s.runq) \ {d} /\ t.ha = s.ha /\ t.dmp = s.dmp
           /\ \A e \in Dles : e # d => t.sched[e] = s.sched[e]
<1>0. Inv(s) /\ s.current_tape = c /\ Shape(s) /\ Queues(s) /\ Placed(s)
  BY DEF Good, Inv
<1>1. d \in Dles /\ Queue(s.runq) /\ Queue(s.directq)
  BY <1>0 DEF Queues, Queue, ToSet
<1>2. /\ DOMAIN t = Fields
      /\ t.runq = RemoveFirst(s.runq, d) /\ t.directq = Append(s.directq, d) /\ t.tapeq = s.tapeq /\ t.roomq = s.roomq
      /\ t.dmp = s.dmp /\ t.chk = s.chk /\ t.inprogress = s.inprogress /\ t.input = s.input
      /\ t.outcome = s.outcome /\ t.deaths = s.deaths /\ t.taper = s.taper
      /\ t.ha = s.ha /\ t.sched = [s.sched EXCEPT ![d].hold = "never"]
      /\ SameFlags(s, t) /\ t.current_tape = s.current_tape
  BY <1>0, Shaped DEF Fields, SameFlags, ToDirectq
<1>3. /\ DOMAIN t.sched = Dles /\ \A e \in Dles : e # d => t.sched[e] = s.sched[e]
      /\ DOMAIN t.sched[d] = SchedFields /\ t.sched[d].est_size = s.sched[d].est_size
      /\ t.sched[d].dumper = s.sched[d].dumper
  BY <1>0, <1>1, <1>2, Shaped DEF SchedFields
<1>3a. \A e \in Dles : t.sched[e].dumper = s.sched[e].dumper /\ DOMAIN t.sched[e] = SchedFields
                       /\ t.sched[e].est_size \in Nat
  BY <1>0, <1>3, Shaped
<1>4. Shape(t)
  BY <1>0, <1>2, <1>3, <1>3a DEF Shape
<1>5. Queue(t.runq) /\ ToSet(t.runq) = ToSet(s.runq) \ {d}
  BY <1>1, <1>2, QueueRemove
<1>6. Held(s, d) /\ Apart(s, d) /\ (d \notin Flush) /\ Apart(s, d)
  BY <1>0, <1>1 DEF Held, Placed
<1>6a. Queue(t.directq) /\ ToSet(t.directq) = ToSet(s.directq) \cup {d}
  BY <1>1, <1>2, <1>6, QueueAppend DEF Apart
<1>7. SameFlags(s, t) /\ SameChildren(s, t) /\ SameTaper(s, t)
  BY <1>2, <1>3a DEF SameFlags, SameChildren, SameTaper
<1>8. Flushing(t) = Flushing(s)
  BY <1>7 DEF SameTaper, Flushing
<1>10. Apart(t, d) /\ Held(t, d)
  BY <1>5, <1>6, <1>6a, <1>8, <1>2 DEF Apart, Held
<1>11. d \notin s.inprogress /\ d \notin Flushing(s) /\ Queue(t.tapeq)
  BY <1>0, <1>6, <1>2 DEF Apart, Queues
<1>12. \A e \in Dles : e # d =>
                /\ e \in ToSet(t.runq) <=> e \in ToSet(s.runq)
                /\ e \in ToSet(t.directq) <=> e \in ToSet(s.directq)
                /\ e \in ToSet(t.tapeq) <=> e \in ToSet(s.tapeq)
                /\ t.outcome[e] = s.outcome[e]
  BY <1>2, <1>5, <1>6a
<1>13. t.outcome[d] = None <=> Held(t, d)
  BY <1>0, <1>1, <1>2, <1>6, <1>10 DEF Placed
<1>14. Good(t, c)
  BY <1>1, <1>2, <1>4, <1>5, <1>6, <1>6a, <1>7, <1>10, <1>11, <1>12, <1>13, QueueMove
<1> QED
  BY <1>2, <1>3, <1>5, <1>14

\* Evict
LEMMA EvictGood ==
    ASSUME NEW s, NEW c, Good(s, c), NEW d \in Dles, NEW t, t = EvictUnfit(s, d)
    PROVE  /\ Good(t, c) /\ t.ha = s.ha /\ t.dmp = s.dmp
           /\ \A e \in Dles : e # d \/ d \notin NoRoom(s) => t.sched[e] = s.sched[e] /\ (e \in ToSet(s.runq) => e \in ToSet(t.runq))
<1>1. CASE d \in NoRoom(s)
  <2>1. d \in ToSet(s.runq) /\ t = Evict(s, d)
    BY <1>1 DEF NoRoom, Candidates, EvictUnfit
  <2>2. CASE s.sched[d].hold = "required"
    <3>1. t = Parted(OffRunq(s, d), d, "lost") /\ "lost" # None
      BY <2>1, <2>2, Zenon DEF Evict, None, OffRunq
    <3>2. /\ Good(t, c) /\ t.ha = s.ha /\ t.dmp = s.dmp /\ ToSet(t.runq) = ToSet(s.runq) \ {d}
          /\ \A e \in Dles : e # d => t.sched[e] = s.sched[e]
      BY <2>1, <3>1, RunqParted
    <3> QED
      BY <1>1, <3>2
  <2>3. CASE s.sched[d].hold # "required"
    <3>1. t = ToDirectq(s, d)
      BY <2>1, <2>3, Zenon DEF Evict, ToDirectq
    <3>2. /\ Good(t, c) /\ t.ha = s.ha /\ t.dmp = s.dmp /\ ToSet(t.runq) = ToSet(s.runq) \ {d}
          /\ \A e \in Dles : e # d => t.sched[e] = s.sched[e]
      BY <2>1, <3>1, RunqToDirect
    <3> QED
      BY <1>1, <3>2
  <2> QED
    BY <2>2, <2>3
<1>2. CASE d \notin NoRoom(s)
  BY <1>2 DEF EvictUnfit
<1> QED
  BY <1>1, <1>2

EvictLoop == INSTANCE FoldFacts WITH op <- EvictUnfit

\* allow_dump_dle is asked for one dump of runq after the other.
LEMMA EvictRounds ==
    ASSUME NEW s, NEW q \in Seq(Dles)
    PROVE  \E f : /\ f[0] = s
                  /\ \A n \in 1..Len(q) : f[n] = EvictUnfit(f[n - 1], q[n])
                  /\ FoldLeft(EvictUnfit, s, q) = f[Len(q)]
<1>1. FoldLeft(EvictUnfit, s, q) = EvictLoop!Folded(s, q)
  BY DOMAIN q = 1..Len(q), Zenon DEF FoldLeft, MapThenFoldSet, Max, EvictLoop!Biggest,
     EvictLoop!Iterates, EvictLoop!Folded
<1> QED
  BY <1>1, EvictLoop!FoldRounds

\* It keeps the invariant, and the dumps that may be started stay in runq.
LEMMA EvictAllGood ==
    ASSUME NEW s, NEW c, Good(s, c), NEW t, t = FoldLeft(EvictUnfit, s, s.runq)
    PROVE  Good(t, c) /\ t.ha = s.ha /\ t.dmp = s.dmp /\
           \A e \in Acceptable(s) : e \in ToSet(t.runq) /\ t.sched[e] = s.sched[e]
<1>0. Inv(s) /\ Shape(s) /\ Queues(s) /\ s.runq \in Seq(Dles) /\ Len(s.runq) \in Nat
  BY DEF Good, Inv, Queues, Queue
<1>1. PICK f : /\ f[0] = s
               /\ \A n \in 1..Len(s.runq) : f[n] = EvictUnfit(f[n - 1], s.runq[n])
               /\ t = f[Len(s.runq)]
  <2>1. \E f : /\ f[0] = s
               /\ \A n \in 1..Len(s.runq) : f[n] = EvictUnfit(f[n - 1], s.runq[n])
               /\ FoldLeft(EvictUnfit, s, s.runq) = f[Len(s.runq)]
    BY <1>0, EvictRounds
  <2> QED
    BY <2>1, Zenon
<1> DEFINE Ok(u) == /\ Good(u, c) /\ u.ha = s.ha /\ u.dmp = s.dmp
                    /\ \A e \in Acceptable(s) : e \in ToSet(u.runq) /\ u.sched[e] = s.sched[e]
           T == {k \in 0..Len(s.runq) : Ok(f[k])}
<1>2. Ok(s)
  BY DEF Acceptable, Candidates
<1>3. ASSUME NEW k \in 0..(Len(s.runq) - 1), Ok(f[k]) PROVE Ok(f[k + 1])
  <2>1. k + 1 \in 1..Len(s.runq) /\ (k + 1) - 1 = k
    BY <1>0
  <2> DEFINE d == s.runq[k + 1]
             u == f[k]
             v == f[k + 1]
  <2>2. d \in Dles
    BY <1>0, <2>1
  <2>3. v = EvictUnfit(u, d)
    BY <1>1, <2>1
  <2> HIDE DEF d, u, v
  <2>4. Good(u, c) /\ u.ha = s.ha /\ u.dmp = s.dmp /\ \A e \in Acceptable(s) : e \in ToSet(u.runq) /\ u.sched[e] = s.sched[e]
    BY <1>3 DEF u
  <2>5. Good(v, c) /\ v.ha = u.ha /\ v.dmp = u.dmp
        /\ \A e \in Dles : e # d \/ d \notin NoRoom(u) => v.sched[e] = u.sched[e] /\ (e \in ToSet(u.runq) => e \in ToSet(v.runq))
    BY <2>2, <2>3, <2>4, EvictGood
  <2>6. ASSUME NEW e \in Acceptable(s)
        PROVE  e \in ToSet(v.runq) /\ v.sched[e] = s.sched[e]
    <3>1. e \in ToSet(u.runq) /\ u.sched[e] = s.sched[e] /\ Space(s, e) # <<>>
      BY <2>4 DEF Acceptable
    <3>2. Space(u, e) = Space(s, e)
      BY <2>4, <3>1, Zenon DEF Space
    <3>3. e \notin NoRoom(u)
      BY <3>1, <3>2 DEF NoRoom
    <3>4. e \in Dles
      BY <1>0 DEF Acceptable, Candidates, ToSet
    <3>5. e # d \/ d \notin NoRoom(u)
      BY <3>3
    <3> QED
      BY <2>5, <3>1, <3>4, <3>5
  <2>7. v.ha = s.ha /\ v.dmp = s.dmp
    BY <2>4, <2>5
  <2> QED
    BY <2>5, <2>6, <2>7, Zenon DEF v
<1> HIDE DEF Ok
<1>4. 0 \in T /\ \A k \in 0..(Len(s.runq) - 1) : k \in T => k + 1 \in T
  <2>1. 0 \in 0..Len(s.runq)
    BY <1>0
  <2>2. \A k \in 0..(Len(s.runq) - 1) : k + 1 \in 0..Len(s.runq)
    BY <1>0
  <2> QED
    BY <2>1, <2>2, <1>1, <1>2, <1>3, Zenon
<1> HIDE DEF T
<1>5. Len(s.runq) \in T
  <2>1. \A k \in 0..Len(s.runq) : k \in T
    BY <1>0, <1>4, EvictLoop!UpTo
  <2> QED
    BY <1>0, <2>1
<1>6. Ok(t)
  BY <1>1, <1>5, Zenon DEF T
<1> QED
  BY <1>6, Zenon DEF Ok

-----------------------------------------------------------------------------
(* start_degraded_mode.                                                    *)

\* s and t differ only in what Inv does not look at
Seen(s, t) ==
    /\ DOMAIN t = Fields
    /\ t.runq = s.runq /\ t.directq = s.directq /\ t.tapeq = s.tapeq /\ t.roomq = s.roomq
    /\ t.dmp = s.dmp /\ t.chk = s.chk /\ t.inprogress = s.inprogress /\ t.input = s.input
    /\ t.outcome = s.outcome /\ t.deaths = s.deaths /\ t.taper = s.taper /\ t.sched = s.sched
    /\ t.ha = s.ha /\ t.blocked = s.blocked /\ t.broken = s.broken /\ t.ended = s.ended
    /\ t.current_tape = s.current_tape

\* The invariant looks at nothing but what Seen compares.
LEMMA SeenGood ==
    ASSUME NEW s, NEW c, Good(s, c), NEW t, Seen(s, t)
    PROVE  Good(t, c)
<1>1. Shape(s)
  BY DEF Good, Inv
<1>2. Shape(t)
  BY <1>1 DEF Shape, Seen
<1>3. View(s, t)
  <2>1. SameFlags(s, t) /\ SamePlaces(s, t)
    BY DEF Seen, SameFlags, SamePlaces
  <2>2. SameLinks(s, t)
    BY <1>1 DEF Seen, SameLinks, Shape
  <2> QED
    BY <1>2, <2>1, <2>2 DEF View
<1> QED
  BY <1>3, ViewGood DEF Seen

\* Degraded mode.
DegradeLoop == INSTANCE FoldFacts WITH op <- DegradeDump

\* start_degraded_mode goes through runq dump by dump.
LEMMA DegradeRounds ==
    ASSUME NEW a, NEW q \in Seq(Dles)
    PROVE  \E f : /\ f[0] = a
                  /\ \A n \in 1..Len(q) : f[n] = DegradeDump(f[n - 1], q[n])
                  /\ FoldLeft(DegradeDump, a, q) = f[Len(q)]
<1>1. FoldLeft(DegradeDump, a, q) = DegradeLoop!Folded(a, q)
  BY DOMAIN q = 1..Len(q), Zenon DEF FoldLeft, MapThenFoldSet, Max, DegradeLoop!Biggest,
     DegradeLoop!Iterates, DegradeLoop!Folded
<1> QED
  BY <1>1, DegradeLoop!FoldRounds

Degrading(a, c) == DOMAIN a = {"s", "full"} /\ Good(a.s, c)

\* It keeps or gives up one dump, and leaves the others in runq.
LEMMA DegradeDumpGood ==
    ASSUME NEW a, NEW c, Degrading(a, c), NEW d \in ToSet(a.s.runq), NEW b, b = DegradeDump(a, d)
    PROVE  Degrading(b, c) /\ \A e \in ToSet(a.s.runq) : e # d => e \in ToSet(b.s.runq)
<1> DEFINE fits == ReservedSpace + a.full + a.s.sched[d].est_size <= TotalDisksize
           u == Parted(OffRunq(a.s, d), d, "failed")
<1>1. CASE d \in Full /\ ~fits /\ d \in NoDegr
  <2>1. b = [a EXCEPT !.s = u]
    BY <1>1, Zenon DEF DegradeDump, OffRunq
  <2>2. Good(u, c) /\ ToSet(u.runq) = ToSet(a.s.runq) \ {d}
    <3>1. "failed" # None /\ Good(a.s, c)
      BY DEF None, Degrading
    <3> QED
      BY <3>1, RunqParted
  <2> HIDE DEF u
  <2>3. b.s = u /\ DOMAIN b = {"s", "full"}
    BY <2>1 DEF Degrading
  <2> QED
    BY <2>2, <2>3 DEF Degrading
<1>2. CASE ~(d \in Full /\ ~fits /\ d \in NoDegr)
  <2>1. \E x : b = [a EXCEPT !.full = x]
    BY <1>2, Zenon DEF DegradeDump
  <2>2. b.s = a.s /\ DOMAIN b = {"s", "full"}
    BY <2>1 DEF Degrading
  <2> QED
    BY <2>2 DEF Degrading
<1> QED
  BY <1>1, <1>2

\* The whole loop keeps the invariant.
LEMMA DegradeRunqGood ==
    ASSUME NEW s, NEW c, Good(s, c)
    PROVE  Good(DegradeRunq(s), c)
<1> DEFINE q == s.runq
           a == [s |-> s, full |-> 0]
<1>0. q \in Seq(Dles) /\ Len(q) \in Nat /\ DOMAIN q = 1..Len(q) /\ IsInjective(q)
  BY DEF Good, Inv, Queues, Queue
<1>1. PICK f : /\ f[0] = a
               /\ \A n \in 1..Len(q) : f[n] = DegradeDump(f[n - 1], q[n])
               /\ FoldLeft(DegradeDump, a, q) = f[Len(q)]
  <2> HIDE DEF a
  <2> QED
    BY <1>0, DegradeRounds
<1>2. DegradeRunq(s) = f[Len(q)].s
  BY <1>1, Zenon DEF DegradeRunq
<1> DEFINE Ok(k) == Degrading(f[k], c) /\ \A j \in (k + 1)..Len(q) : q[j] \in ToSet(f[k].s.runq)
           T == {k \in 0..Len(q) : Ok(k)}
<1>3. Ok(0)
  <2>1. Degrading(a, c) /\ a.s = s
    BY DEF Degrading
  <2>2. \A j \in 1..Len(q) : q[j] \in ToSet(s.runq)
    BY <1>0 DEF ToSet
  <2> HIDE DEF a
  <2>3. \A j \in (0 + 1)..Len(q) : j \in 1..Len(q)
    OBVIOUS
  <2> QED
    BY <1>1, <2>1, <2>2, <2>3, Zenon
<1> HIDE DEF q
<1>4. ASSUME NEW k \in 0..(Len(q) - 1), Ok(k) PROVE Ok(k + 1)
  <2>1. k + 1 \in 1..Len(q) /\ (k + 1) - 1 = k /\ k + 1 \in (k + 1)..Len(q)
    BY <1>0
  <2> DEFINE d == q[k + 1]
             u == f[k]
             v == f[k + 1]
  <2>2. v = DegradeDump(u, d)
    BY <1>1, <2>1
  <2>3. Degrading(u, c) /\ \A j \in (k + 1)..Len(q) : q[j] \in ToSet(u.s.runq)
    BY <1>4
  <2>4. d \in ToSet(u.s.runq)
    BY <2>1, <2>3
  <2> HIDE DEF u, v
  <2>5. Degrading(v, c) /\ \A e \in ToSet(u.s.runq) : e # d => e \in ToSet(v.s.runq)
    BY <2>2, <2>3, <2>4, DegradeDumpGood
  <2>6. ASSUME NEW j \in ((k + 1) + 1)..Len(q) PROVE q[j] \in ToSet(v.s.runq)
    <3>1. j \in (k + 1)..Len(q) /\ j # k + 1 /\ j \in DOMAIN q /\ k + 1 \in DOMAIN q
      BY <1>0
    <3>2. q[j] # d
      BY <1>0, <3>1 DEF IsInjective
    <3> QED
      BY <2>3, <2>5, <3>1, <3>2
  <2> QED
    BY <2>5, <2>6 DEF v
<1> HIDE DEF Ok
<1>5. 0 \in T /\ \A k \in 0..(Len(q) - 1) : k \in T => k + 1 \in T
  <2>1. 0 \in 0..Len(q) /\ \A k \in 0..(Len(q) - 1) : k + 1 \in 0..Len(q)
    BY <1>0
  <2> QED
    BY <2>1, <1>3, <1>4, Zenon
<1> HIDE DEF T
<1>6. \A k \in 0..Len(q) : k \in T
  BY <1>0, <1>5, EvictLoop!UpTo
<1>7. Ok(Len(q))
  <2>1. Len(q) \in 0..Len(q)
    BY <1>0
  <2> QED
    BY <1>6, <2>1 DEF T
<1> QED
  BY <1>2, <1>7 DEF Ok, Degrading

\* start_degraded_mode keeps the invariant.
LEMMA StartDegradedModeGood ==
    ASSUME NEW s, NEW c, Good(s, c)
    PROVE  Good(StartDegradedMode(s), c)
<1> DEFINE need == s.need_degraded \/ s.taper.done
           u == DegradeRunq(s)
<1>1. CASE need /\ schedule_done(s) /\ ~s.degraded_mode
  <2>1. StartDegradedMode(s) = [u EXCEPT !.need_degraded = TRUE, !.degraded_mode = TRUE]
    BY <1>1, Zenon DEF StartDegradedMode
  <2>2. Good(u, c)
    BY DegradeRunqGood
  <2> HIDE DEF u
  <2>3. Seen(u, [u EXCEPT !.need_degraded = TRUE, !.degraded_mode = TRUE])
    <3>1. Shape(u)
      BY <2>2 DEF Good, Inv
    <3> QED
      BY <3>1, Shaped DEF Seen, Fields
  <2> QED
    BY <2>1, <2>2, <2>3, SeenGood
<1>2. CASE ~(need /\ schedule_done(s) /\ ~s.degraded_mode)
  <2>1. StartDegradedMode(s) = [s EXCEPT !.need_degraded = need]
    BY <1>2, Zenon DEF StartDegradedMode
  <2> HIDE DEF need
  <2>2. Shape(s)
    BY DEF Good, Inv
  <2>3. Seen(s, [s EXCEPT !.need_degraded = need])
    BY <2>2, Shaped DEF Seen, Fields
  <2> QED
    BY <2>1, <2>3, SeenGood
<1> QED
  BY <1>1, <1>2

-----------------------------------------------------------------------------
(* continue_port_dumps: the dumps that wait for room.                      *)

\* Fields that granting space leaves alone
Beside(s, t) ==
    /\ t.runq = s.runq /\ t.directq = s.directq /\ t.tapeq = s.tapeq
    /\ t.dmp = s.dmp /\ t.inprogress = s.inprogress /\ t.input = s.input
    /\ t.outcome = s.outcome /\ t.deaths = s.deaths /\ t.taper = s.taper
    /\ t.blocked = s.blocked /\ t.broken = s.broken /\ t.ended = s.ended
    /\ t.current_tape = s.current_tape

\* assign_holdingdisk changes the holding disks and the dump's own files.
LEMMA AssignFrame ==
    ASSUME NEW s, Shape(s), NEW d \in Dles, NEW new, NEW t, t = AssignHoldingdisk(s, d, new)
    PROVE  /\ Shape(t) /\ Beside(s, t) /\ t.roomq = s.roomq /\ t.chk = s.chk
           /\ \A e \in Dles : t.sched[e].dumper = s.sched[e].dumper
           /\ \A e \in Dles : e # d => t.sched[e] = s.sched[e]
<1> DEFINE hp == AssignHoldp(s.sched[d].holdp, new)
           ac == AssignActive(s.sched[d].holdp, new)
           sp == AssignSpace(s.ha, new)
<1>0. t = [s EXCEPT !.ha = sp, !.sched[d].holdp = hp, !.sched[d].activehd = ac]
  BY DEF AssignHoldingdisk
<1> HIDE DEF hp, ac, sp
<1>1. /\ DOMAIN t = Fields /\ Beside(s, t) /\ t.roomq = s.roomq /\ t.chk = s.chk
      /\ t.sched = [s.sched EXCEPT ![d].holdp = hp, ![d].activehd = ac]
  BY <1>0, Shaped DEF Fields, Beside
<1>2. /\ DOMAIN t.sched = Dles
      /\ \A e \in Dles : e # d => t.sched[e] = s.sched[e]
      /\ t.sched[d] = [s.sched[d] EXCEPT !.holdp = hp, !.activehd = ac]
  BY <1>1, Shaped
<1>3. DOMAIN t.sched[d] = SchedFields /\ t.sched[d].est_size \in Nat /\ t.sched[d].dumper = s.sched[d].dumper
  BY <1>2, Shaped DEF SchedFields
<1>4. \A e \in Dles : DOMAIN t.sched[e] = SchedFields /\ t.sched[e].est_size \in Nat /\ t.sched[e].dumper = s.sched[e].dumper
  <2>1. \A e \in Dles : e # d => t.sched[e] = s.sched[e]
    BY <1>2
  <2> QED
    BY <2>1, <1>3, Shaped
<1>5. Shape(t)
  BY <1>1, <1>2, <1>4, Shaped DEF Shape, Beside
<1> QED
  BY <1>1, <1>2, <1>4, <1>5

\* CONTINUE: a chunker that waits for room writes again, and no other changes.
LEMMA ContinueFrame ==
    ASSUME NEW s, Shape(s), NEW i \in Dumpers, NEW d \in Dles, NEW t, t = Continue(s, i, d)
    PROVE  /\ Shape(t) /\ Beside(s, t) /\ t.roomq = s.roomq /\ t.sched = s.sched
           /\ \A j \in Dumpers : j # i => t.chk[j] = s.chk[j]
           /\ t.chk[i].result = s.chk[i].result /\ t.chk[i].sendresult = s.chk[i].sendresult
           /\ s.chk[i].proc # "room" => t.chk[i] = s.chk[i]
           /\ s.chk[i].proc = "room" => t.chk[i].proc = "writing"
<1> DEFINE hd == s.sched[d].holdp[s.sched[d].activehd]
           u == hd.reserved - hd.used
           new == IF s.chk[i].proc = "room"
                  THEN [s.chk[i] EXCEPT !.proc = "writing", !.use = u] ELSE s.chk[i]
<1>0. t = [s EXCEPT !.ha[hd.disk].allocated_dumpers = @ + 1, !.chk[i] = new]
  BY DEF Continue
<1>1. /\ DOMAIN new = ChunkerFields /\ new.result = s.chk[i].result /\ new.sendresult = s.chk[i].sendresult
      /\ s.chk[i].proc # "room" => new = s.chk[i]
      /\ s.chk[i].proc = "room" => new.proc = "writing"
  <2> HIDE DEF u
  <2>1. CASE s.chk[i].proc = "room"
    BY <2>1, Shaped DEF ChunkerFields
  <2>2. CASE s.chk[i].proc # "room"
    BY <2>2, Shaped DEF ChunkerFields
  <2> QED
    BY <2>1, <2>2
<1> HIDE DEF new, hd
<1>2. /\ DOMAIN t = Fields /\ Beside(s, t) /\ t.roomq = s.roomq /\ t.sched = s.sched
      /\ t.chk = [s.chk EXCEPT ![i] = new]
  BY <1>0, Shaped DEF Fields, Beside
<1>3. DOMAIN t.chk = Dumpers /\ t.chk[i] = new /\ \A j \in Dumpers : j # i => t.chk[j] = s.chk[j]
  BY <1>2, Shaped
<1>4. \A j \in Dumpers : DOMAIN t.chk[j] = ChunkerFields
  BY <1>1, <1>3, Shaped
<1>5. Shape(t)
  BY <1>2, <1>3, <1>4, Shaped DEF Shape, Beside
<1> QED
  BY <1>1, <1>2, <1>3, <1>5

\* The chunker of dumper i continues, as t, or it is gone; dump d no longer waits.
Resumed(s, t, i) ==
    /\ \A j \in Dumpers : j # i => t.chk[j] = s.chk[j]
    /\ t.chk[i].result = s.chk[i].result /\ t.chk[i].sendresult = s.chk[i].sendresult
    /\ s.chk[i] = NoChunker => t.chk[i] = NoChunker
    /\ s.chk[i].proc # "room" => t.chk[i].proc = s.chk[i].proc
    /\ s.chk[i].proc = "room" => t.chk[i].proc \in {"writing", "aborting"}

\* A chunker that resumes, and whose dump leaves roomq, keeps the invariant.
LEMMA ResumeGood ==
    ASSUME NEW s, NEW c, Good(s, c), NEW i \in Dumpers, NEW d \in Dles, s.dmp[i].dp = d,
           NEW t, Shape(t), Beside(s, t), Resumed(s, t, i),
           \A e \in Dles : t.sched[e].dumper = s.sched[e].dumper,
           Queue(t.roomq), ToSet(t.roomq) = ToSet(s.roomq) \ {d}
    PROVE  Good(t, c)
<1>0. Inv(s) /\ s.current_tape = c /\ Shape(s) /\ Queues(s)
  BY DEF Good, Inv
<1>1. s.inprogress \subseteq Dles /\ ToSet(s.roomq) \subseteq s.inprogress
  BY <1>0 DEF Queues
<1>2. Flushing(t) = Flushing(s)
  BY DEF Flushing, Beside
<1>3. Queues(t)
  BY <1>0, <1>2 DEF Queues, Beside
<1>4. Placed(t) /\ Inputs(t)
  <2>1. Placed(t)
    BY <1>0, <1>2, Zenon DEF Inv, Placed, Apart, Held, Beside
  <2>2. Inputs(t)
    BY <1>0 DEF Inv, Inputs, Beside
  <2> QED BY <2>1, <2>2
<1>5. \A j \in Dumpers : Engaged(t, j) <=> Engaged(s, j)
  BY <1>1, Zenon DEF Engaged, Beside
<1>6. ASSUME NEW j \in Dumpers, s.chk[j] = NoChunker PROVE t.chk[j] = NoChunker
  BY <1>6 DEF Resumed
<1>7. DumperLinks(t)
  <2>1. DumperLinks(s)
    BY <1>0 DEF Inv
  <2>2. \A e \in t.inprogress : t.sched[e].dumper \in Dumpers /\ t.dmp[t.sched[e].dumper].dp = e
    BY <1>1, <2>1, ZenonT(40) DEF DumperLinks, Beside
  <2>3. ASSUME NEW j \in Dumpers
        PROVE  /\ Engaged(t, j) => t.dmp[j].busy \/ t.dmp[j].down
               /\ ~Engaged(t, j) => ~t.dmp[j].busy /\ t.dmp[j].result = None /\ t.chk[j] = NoChunker
    BY <2>1, <1>5, <1>6, Zenon DEF DumperLinks, Beside
  <2> QED
    BY <2>2, <2>3 DEF DumperLinks
<1>8. TaperLinks(t)
  <2>1. TaperLinks(s)
    BY <1>0 DEF Inv
  <2>2. t.taper = s.taper /\ t.dmp = s.dmp /\ t.inprogress = s.inprogress
    BY DEF Beside
  <2>3. \A j \in Dumpers : Engaged(t, j) /\ ~t.dmp[j].chunker =>
          t.chk[j] = NoChunker /\ t.taper.mode = "dump" /\ t.taper.disk = t.dmp[j].dp
    <3> SUFFICES ASSUME NEW j \in Dumpers, Engaged(s, j), ~s.dmp[j].chunker
                 PROVE  t.chk[j] = NoChunker /\ s.taper.mode = "dump" /\ s.taper.disk = s.dmp[j].dp
      BY <2>2, <1>5, Zenon
    <3>1. s.chk[j] = NoChunker /\ s.taper.mode = "dump" /\ s.taper.disk = s.dmp[j].dp
      BY <2>1, Zenon DEF TaperLinks
    <3> QED
      BY <3>1, <1>6
  <2>4. t.taper.mode = "dump" =>
          /\ t.taper.disk \in t.inprogress /\ t.taper.dumper = t.sched[t.taper.disk].dumper
          /\ ~t.dmp[t.taper.dumper].chunker
    BY <2>1, <2>2, <1>1, ZenonT(40) DEF TaperLinks
  <2> QED
    BY <2>1, <2>2, <2>3, <2>4, Zenon DEF TaperLinks
<1>9. RoomLinks(t)
  <2>0. RoomLinks(s) /\ DumperLinks(s)
    BY <1>0 DEF Inv
  <2>1. ASSUME NEW e \in ToSet(t.roomq)
        PROVE  /\ t.chk[t.sched[e].dumper].proc \in {"room", "dead"}
               /\ t.dmp[t.sched[e].dumper].chunker
    <3>1. e \in ToSet(s.roomq) /\ e # d /\ e \in s.inprogress /\ e \in Dles
      BY <2>1, <1>1
    <3>2. t.sched[e].dumper = s.sched[e].dumper
      BY <3>1
    <3>3. s.sched[e].dumper \in Dumpers /\ s.dmp[s.sched[e].dumper].dp = e
      BY <3>1, <2>0, Zenon DEF DumperLinks
    <3>4. s.sched[e].dumper # i
      BY <3>1, <3>3
    <3>5. t.chk[s.sched[e].dumper] = s.chk[s.sched[e].dumper]
      BY <3>3, <3>4 DEF Resumed
    <3> QED
      BY <3>1, <3>2, <3>5, <2>0, Zenon DEF RoomLinks, Beside
  <2>2. ASSUME NEW j \in Dumpers
        PROVE  /\ t.chk[j].proc = "dead" => t.deaths > 0
               /\ t.chk[j].proc \in {None, "room", "writing"} =>
                        t.chk[j].result = None /\ t.chk[j].sendresult = FALSE
    <3>0. t.deaths = s.deaths
      BY DEF Beside
    <3>1. CASE j # i
      BY <3>0, <3>1, <2>0 DEF RoomLinks, Resumed
    <3>2. CASE j = i
      BY <3>0, <3>2, <2>0 DEF RoomLinks, Resumed
    <3> QED
      BY <3>1, <3>2
  <2> QED
    BY <2>1, <2>2 DEF RoomLinks
<1> QED
  BY <1>0, <1>3, <1>4, <1>7, <1>8, <1>9 DEF Inv, Good, Live, Beside

\* The dumper that DumperOf finds
LEMMA DumperOfIs ==
    ASSUME NEW s, NEW d, NEW k \in Dumpers, s.dmp[k].dp = d
    PROVE  DumperOf(s, d) \in Dumpers /\ s.dmp[DumperOf(s, d)].dp = d
<1> DEFINE T == {i \in Dumpers : s.dmp[i].dp = d}
<1>0. InParallel \in Nat /\ Dumpers \subseteq Nat /\ \A n \in Dumpers : \A j \in 1..(n - 1) : j \in Dumpers
  BY DriverAssumption DEF Dumpers
<1>1. T \in SUBSET Nat /\ T # {}
  BY <1>0
<1> HIDE DEF T
<1>2. PICK i \in T : \A y \in T : i <= y
  BY <1>1, EvictLoop!LeastNat
<1>3. i \in Dumpers /\ s.dmp[i].dp = d
  BY <1>2 DEF T
<1>4. \A j \in 1..(i - 1) : s.dmp[j].dp # d
  <2>1. \A j \in 1..(i - 1) : ~(i <= j) /\ j \in Dumpers
    BY <1>0, <1>3
  <2> QED
    BY <1>2, <2>1 DEF T
<1>5. \E n \in Dumpers : s.dmp[n].dp = d /\ \A j \in 1..(n - 1) : s.dmp[j].dp # d
  BY <1>3, <1>4
<1> QED
  BY <1>5, Zenon DEF DumperOf

\* One round of the loop over roomq keeps the invariant, and the others wait on.
LEMMA GrantRoomGood ==
    ASSUME NEW s, NEW c, Good(s, c), NEW d \in ToSet(s.roomq), NEW t, t = GrantRoom(s, d)
    PROVE  Good(t, c) /\ \A e \in ToSet(s.roomq) : e # d => e \in ToSet(t.roomq)
<1>1. PICK new : t = Granted(s, d, new)
  BY DEF GrantRoom
<1>2. CASE new = <<>>
  BY <1>1, <1>2 DEF Granted
<1>3. CASE new # <<>>
  <2> DEFINE i == DumperOf(s, d)
             u == AssignHoldingdisk(s, d, new)
             v == Continue(u, i, d)
  <2>0. Inv(s) /\ Shape(s) /\ Queues(s) /\ DumperLinks(s)
    BY DEF Good, Inv
  <2>1. d \in s.inprogress /\ d \in Dles /\ Queue(s.roomq)
    BY <2>0 DEF Queues
  <2>2. i \in Dumpers /\ s.dmp[i].dp = d
    <3>1. s.sched[d].dumper \in Dumpers /\ s.dmp[s.sched[d].dumper].dp = d
      BY <2>0, <2>1, Zenon DEF DumperLinks
    <3> QED
      BY <3>1, DumperOfIs
  <2>3. t = [v EXCEPT !.roomq = RemoveFirst(@, d)]
    BY <1>1, <1>3, Zenon DEF Granted
  <2> HIDE DEF i
  <2>4. /\ Shape(u) /\ Beside(s, u) /\ u.roomq = s.roomq /\ u.chk = s.chk
        /\ \A e \in Dles : u.sched[e].dumper = s.sched[e].dumper
    BY <2>0, <2>1, AssignFrame
  <2> HIDE DEF u
  <2>5. /\ Shape(v) /\ Beside(u, v) /\ v.roomq = u.roomq /\ v.sched = u.sched
        /\ \A j \in Dumpers : j # i => v.chk[j] = u.chk[j]
        /\ v.chk[i].result = u.chk[i].result /\ v.chk[i].sendresult = u.chk[i].sendresult
        /\ u.chk[i].proc # "room" => v.chk[i] = u.chk[i]
        /\ u.chk[i].proc = "room" => v.chk[i].proc = "writing"
    BY <2>1, <2>2, <2>4, ContinueFrame
  <2> HIDE DEF v
  <2>6. /\ DOMAIN t = Fields /\ Beside(v, t) /\ t.roomq = RemoveFirst(v.roomq, d)
        /\ t.sched = v.sched /\ t.chk = v.chk
    BY <2>3, <2>5, Shaped DEF Beside, Fields
  <2>7. Shape(t)
    BY <2>5, <2>6 DEF Shape, Beside
  <2>8. Beside(s, t)
    BY <2>4, <2>5, <2>6 DEF Beside
  <2>9. Resumed(s, t, i)
    <3>1. s.chk[i] = NoChunker => s.chk[i].proc # "room"
      BY DEF NoChunker, None
    <3> QED
      BY <2>4, <2>5, <2>6, <3>1 DEF Resumed
  <2>10. Queue(t.roomq) /\ ToSet(t.roomq) = ToSet(s.roomq) \ {d}
    BY <2>1, <2>4, <2>5, <2>6, QueueRemove
  <2>11. \A e \in Dles : t.sched[e].dumper = s.sched[e].dumper
    BY <2>4, <2>5, <2>6
  <2>12. Good(t, c)
    BY <2>1, <2>2, <2>7, <2>8, <2>9, <2>10, <2>11, ResumeGood
  <2> QED
    BY <2>10, <2>12
<1> QED
  BY <1>2, <1>3

\* The whole loop keeps the invariant.
LEMMA GrantAllGood ==
    ASSUME NEW s, NEW c, Good(s, c)
    PROVE  Good(FoldLeft(GrantRoom, s, s.roomq), c)
<1> DEFINE q == s.roomq
<1>0. q \in Seq(Dles) /\ Len(q) \in Nat /\ DOMAIN q = 1..Len(q) /\ IsInjective(q)
  BY DEF Good, Inv, Queues, Queue
<1>1. PICK f : /\ f[0] = s
               /\ \A n \in 1..Len(q) : f[n] = GrantRoom(f[n - 1], q[n])
               /\ FoldLeft(GrantRoom, s, q) = f[Len(q)]
  BY <1>0, GrantRounds
<1> DEFINE Ok(k) == Good(f[k], c) /\ \A j \in (k + 1)..Len(q) : q[j] \in ToSet(f[k].roomq)
           T == {k \in 0..Len(q) : Ok(k)}
<1>3. Ok(0)
  <2>2. \A j \in 1..Len(q) : q[j] \in ToSet(s.roomq)
    BY <1>0 DEF ToSet
  <2>3. \A j \in (0 + 1)..Len(q) : j \in 1..Len(q)
    OBVIOUS
  <2> QED
    BY <1>1, <2>2, <2>3, Zenon
<1> HIDE DEF q
<1>4. ASSUME NEW k \in 0..(Len(q) - 1), Ok(k) PROVE Ok(k + 1)
  <2>1. k + 1 \in 1..Len(q) /\ (k + 1) - 1 = k /\ k + 1 \in (k + 1)..Len(q)
    BY <1>0
  <2> DEFINE d == q[k + 1]
             u == f[k]
             v == f[k + 1]
  <2>2. v = GrantRoom(u, d)
    BY <1>1, <2>1
  <2>3. Good(u, c) /\ \A j \in (k + 1)..Len(q) : q[j] \in ToSet(u.roomq)
    BY <1>4
  <2>4. d \in ToSet(u.roomq)
    BY <2>1, <2>3
  <2> HIDE DEF u, v
  <2>5. Good(v, c) /\ \A e \in ToSet(u.roomq) : e # d => e \in ToSet(v.roomq)
    BY <2>2, <2>3, <2>4, GrantRoomGood
  <2>6. ASSUME NEW j \in ((k + 1) + 1)..Len(q) PROVE q[j] \in ToSet(v.roomq)
    <3>1. j \in (k + 1)..Len(q) /\ j # k + 1 /\ j \in DOMAIN q /\ k + 1 \in DOMAIN q
      BY <1>0
    <3>2. q[j] # d
      BY <1>0, <3>1 DEF IsInjective
    <3> QED
      BY <2>3, <2>5, <3>1, <3>2
  <2> QED
    BY <2>5, <2>6 DEF v
<1> HIDE DEF Ok
<1>5. 0 \in T /\ \A k \in 0..(Len(q) - 1) : k \in T => k + 1 \in T
  <2>1. 0 \in 0..Len(q) /\ \A k \in 0..(Len(q) - 1) : k + 1 \in 0..Len(q)
    BY <1>0
  <2> QED
    BY <2>1, <1>3, <1>4, Zenon
<1> HIDE DEF T
<1>6. \A k \in 0..Len(q) : k \in T
  BY <1>0, <1>5, GrantLoop!UpTo
<1>7. Ok(Len(q))
  <2>1. Len(q) \in 0..Len(q)
    BY <1>0
  <2> QED
    BY <1>6, <2>1 DEF T
<1> QED
  BY <1>1, <1>7, Zenon DEF Ok, q

-----------------------------------------------------------------------------
(* continue_port_dumps: a dump is aborted when all wait.                   *)

\* The smallest of a set of dumpers exists.
LEMMA SmallestIs ==
    ASSUME NEW W, W \subseteq Nat, W # {}, NEW f, \A i \in W : f[i] \in Nat
    PROVE  \E i \in W : \A j \in W : f[i] < f[j] \/ (f[i] = f[j] /\ i <= j)
<1> DEFINE V == {f[i] : i \in W}
<1>1. V \in SUBSET Nat /\ V # {}
  OBVIOUS
<1> HIDE DEF V
<1>2. PICK m \in V : \A y \in V : m <= y
  BY <1>1, EvictLoop!LeastNat
<1> DEFINE M == {i \in W : f[i] = m}
<1>3. M \in SUBSET Nat /\ M # {}
  BY <1>2 DEF V
<1> HIDE DEF M
<1>4. PICK i \in M : \A y \in M : i <= y
  BY <1>3, EvictLoop!LeastNat
<1>5. i \in W /\ f[i] = m /\ m \in Nat
  BY <1>4, <1>1, <1>2 DEF M
<1>6. ASSUME NEW j \in W PROVE f[i] < f[j] \/ (f[i] = f[j] /\ i <= j)
  <2>1. m <= f[j] /\ f[j] \in Nat
    BY <1>2 DEF V
  <2>2. CASE f[j] = m
    BY <2>2, <1>4, <1>5 DEF M
  <2>3. CASE f[j] # m
    BY <2>1, <2>3, <1>5
  <2> QED
    BY <2>2, <2>3
<1> QED
  BY <1>5, <1>6

\* ABORT for a dump of roomq keeps the invariant.
LEMMA AbortGood ==
    ASSUME NEW s, NEW c, Good(s, c), NEW d \in ToSet(s.roomq), NEW t, t = Abort(s, d)
    PROVE  Good(t, c)
<1> DEFINE i == s.sched[d].dumper
           p == IF s.chk[i].proc = "dead" THEN "dead" ELSE "aborting"
<1>0. Inv(s) /\ Shape(s) /\ Queues(s) /\ DumperLinks(s) /\ RoomLinks(s)
  BY DEF Good, Inv
<1>1. d \in s.inprogress /\ d \in Dles /\ Queue(s.roomq)
  BY <1>0 DEF Queues
<1>2. i \in Dumpers /\ s.dmp[i].dp = d
  BY <1>0, <1>1, Zenon DEF DumperLinks
<1>3. s.chk[i].proc \in {"room", "dead"}
  BY <1>0 DEF RoomLinks
<1>4. t = [s EXCEPT !.sched[d].no_space = TRUE, !.roomq = RemoveFirst(@, d),
                    !.chk[i].proc = p, !.pending_aborts = @ + 1]
  BY DEF Abort
<1> HIDE DEF i, p
<1>5. /\ DOMAIN t = Fields /\ Beside(s, t) /\ t.roomq = RemoveFirst(s.roomq, d)
      /\ t.sched = [s.sched EXCEPT ![d].no_space = TRUE]
      /\ t.chk = [s.chk EXCEPT ![i].proc = p]
  BY <1>0, <1>4, Shaped DEF Fields, Beside
<1>6. /\ DOMAIN t.sched = Dles
      /\ \A e \in Dles : e # d => t.sched[e] = s.sched[e]
      /\ DOMAIN t.sched[d] = SchedFields /\ t.sched[d].est_size = s.sched[d].est_size
      /\ t.sched[d].dumper = s.sched[d].dumper
  BY <1>0, <1>1, <1>5, Shaped DEF SchedFields
<1>7. /\ DOMAIN t.chk = Dumpers /\ DOMAIN t.chk[i] = ChunkerFields
      /\ \A j \in Dumpers : j # i => t.chk[j] = s.chk[j]
      /\ t.chk[i].proc = p /\ t.chk[i].result = s.chk[i].result /\ t.chk[i].sendresult = s.chk[i].sendresult
  BY <1>0, <1>2, <1>5, Shaped DEF ChunkerFields
<1>7a. s.chk[i] # NoChunker
  BY <1>3 DEF NoChunker, None
<1>8. \A e \in Dles : DOMAIN t.sched[e] = SchedFields /\ t.sched[e].est_size \in Nat /\ t.sched[e].dumper = s.sched[e].dumper
  BY <1>0, <1>1, <1>6, Shaped
<1>9. Shape(t)
  <2>1. \A j \in Dumpers : DOMAIN t.chk[j] = ChunkerFields
    BY <1>0, <1>7, Shaped
  <2> QED
    BY <1>0, <1>5, <1>6, <1>7, <1>8, <2>1, Shaped DEF Shape, Beside
<1>10. Resumed(s, t, i)
  <2>1. (s.chk[i].proc = "room" => p = "aborting") /\ (s.chk[i].proc # "room" => p = s.chk[i].proc)
    BY <1>3 DEF p
  <2> QED
    BY <1>7, <1>7a, <2>1 DEF Resumed
<1>11. Queue(t.roomq) /\ ToSet(t.roomq) = ToSet(s.roomq) \ {d}
  BY <1>1, <1>5, QueueRemove
<1>12. Beside(s, t) /\ \A e \in Dles : t.sched[e].dumper = s.sched[e].dumper
  BY <1>5, <1>8
<1> QED
  BY <1>1, <1>2, <1>9, <1>10, <1>11, <1>12, ResumeGood

\* The dump that is aborted when all wait is one of roomq.
LEMMA AbortIfAllWaitIs ==
    ASSUME NEW s, NEW c, Good(s, c)
    PROVE  AbortIfAllWait(s) = s \/ \E d \in ToSet(s.roomq) : AbortIfAllWait(s) = Abort(s, d)
<1>1. CASE AllWait(s)
  <2> DEFINE W == Waiting(s)
             f == [i \in Dumpers |-> s.sched[s.dmp[i].dp].est_size]
             k == CHOOSE i \in W : \A j \in W : f[i] < f[j] \/ (f[i] = f[j] /\ i <= j)
  <2>0. Shape(s) /\ Queues(s)
    BY DEF Good, Inv
  <2>1. W \subseteq Dumpers /\ W \subseteq Nat /\ W # {} /\ \A i \in W : s.dmp[i].dp \in ToSet(s.roomq)
    BY <1>1, DriverAssumption DEF AllWait, Waiting, Dumpers
  <2>2. \A i \in W : f[i] \in Nat
    <3>1. \A i \in W : i \in Dumpers /\ s.dmp[i].dp \in Dles
      BY <2>0, <2>1 DEF Queues
    <3> QED
      BY <3>1, <2>0, Shaped
  <2> HIDE DEF f, W
  <2>3. k \in W
    <3>1. \E i \in W : \A j \in W : f[i] < f[j] \/ (f[i] = f[j] /\ i <= j)
      BY <2>1, <2>2, SmallestIs
    <3> QED
      BY <3>1, Zenon
  <2>4. AbortIfAllWait(s) = Abort(s, s.dmp[k].dp)
    <3>1. \A i \in W : f[i] = s.sched[s.dmp[i].dp].est_size
      BY <2>1 DEF f
    <3>2. ASSUME NEW i \in W
          PROVE  (\A j \in W : f[i] < f[j] \/ (f[i] = f[j] /\ i <= j)) <=>
                 \A j \in W : \/ s.sched[s.dmp[i].dp].est_size < s.sched[s.dmp[j].dp].est_size
                              \/ /\ s.sched[s.dmp[i].dp].est_size = s.sched[s.dmp[j].dp].est_size
                                 /\ i <= j
      BY <3>1, Zenon
    <3>3. k = CHOOSE i \in W :
                 \A j \in W : \/ s.sched[s.dmp[i].dp].est_size < s.sched[s.dmp[j].dp].est_size
                              \/ /\ s.sched[s.dmp[i].dp].est_size = s.sched[s.dmp[j].dp].est_size
                                 /\ i <= j
      BY <3>2, Zenon
    <3> HIDE DEF k
    <3> QED
      BY <1>1, <3>3, Zenon DEF AbortIfAllWait, AbortSmallest, W
  <2> HIDE DEF k
  <2> QED
    BY <2>1, <2>3, <2>4
<1>2. CASE ~AllWait(s)
  BY <1>2 DEF AbortIfAllWait
<1> QED
  BY <1>1, <1>2

\* So the choice of the dump to abort keeps the invariant.
LEMMA AbortIfAllWaitGood ==
    ASSUME NEW s, NEW c, Good(s, c)
    PROVE  Good(AbortIfAllWait(s), c)
BY AbortIfAllWaitIs, AbortGood

\* continue_port_dumps keeps the invariant.
LEMMA ContinuePortDumpsGood ==
    ASSUME NEW s, NEW c, Good(s, c)
    PROVE  Good(ContinuePortDumps(s), c)
BY GrantAllGood, AbortIfAllWaitGood DEF ContinuePortDumps

-----------------------------------------------------------------------------
(* start_some_dumps: a dump to the holding disks.                          *)

\* Dumper i takes up dump d.
TakesUp(s, t, i, d) ==
    /\ t.inprogress = s.inprogress \cup {d} /\ t.roomq = s.roomq /\ t.deaths = s.deaths
    /\ \A e \in Dles : e # d => t.sched[e].dumper = s.sched[e].dumper
    /\ t.sched[d].dumper = i
    /\ \A j \in Dumpers : j # i => t.dmp[j] = s.dmp[j] /\ t.chk[j] = s.chk[j]
    /\ t.dmp[i].dp = d /\ t.dmp[i].busy /\ t.chk[i].proc \notin {"room", "dead"}
    /\ t.chk[i].result = None /\ t.chk[i].sendresult = FALSE

\* A dumper without a dump takes one up: the links hold, and the others' are as before.
LEMMA TakesUpLinks ==
    ASSUME NEW s, NEW t, NEW i \in Dumpers, NEW d \in Dles, TakesUp(s, t, i, d),
           Queues(s), DumperLinks(s), RoomLinks(s), d \notin s.inprogress, ~Engaged(s, i)
    PROVE  /\ DumperLinks(t) /\ RoomLinks(t) /\ Engaged(t, i)
           /\ \A j \in Dumpers : j # i => (Engaged(t, j) <=> Engaged(s, j))
<1>1. s.inprogress \subseteq Dles /\ ToSet(s.roomq) \subseteq s.inprogress
  BY DEF Queues
<1>2. \A e \in s.inprogress : e # d /\ t.sched[e].dumper = s.sched[e].dumper
  BY <1>1 DEF TakesUp
<1>3. \A e \in s.inprogress : s.sched[e].dumper \in Dumpers /\ s.dmp[s.sched[e].dumper].dp = e
                              /\ s.sched[e].dumper # i
  <2>1. \A e \in s.inprogress : s.sched[e].dumper \in Dumpers /\ s.dmp[s.sched[e].dumper].dp = e
    BY DEF DumperLinks
  <2>2. \A e \in s.inprogress : s.sched[e].dumper # i
    BY <2>1 DEF Engaged
  <2> QED
    BY <2>1, <2>2
<1>4. Engaged(t, i)
  BY DEF Engaged, TakesUp
<1>5. ASSUME NEW j \in Dumpers, j # i PROVE Engaged(t, j) <=> Engaged(s, j)
  <2>1. t.dmp[j].dp = s.dmp[j].dp
    BY <1>5 DEF TakesUp
  <2>2. CASE s.dmp[j].dp = d
    BY <2>1, <2>2, <1>5 DEF Engaged, TakesUp
  <2>3. CASE s.dmp[j].dp # d
    BY <2>1, <2>3, <1>2 DEF Engaged, TakesUp
  <2> QED
    BY <2>2, <2>3
<1>6. DumperLinks(t)
  <2>1. ASSUME NEW e \in t.inprogress
        PROVE  t.sched[e].dumper \in Dumpers /\ t.dmp[t.sched[e].dumper].dp = e
    <3>1. CASE e = d
      BY <3>1 DEF TakesUp
    <3>2. CASE e # d
      <4>1. e \in s.inprogress
        BY <3>2, <2>1 DEF TakesUp
      <4> QED
        BY <4>1, <1>2, <1>3 DEF TakesUp
    <3> QED
      BY <3>1, <3>2
  <2>2. ASSUME NEW j \in Dumpers
        PROVE  /\ Engaged(t, j) => t.dmp[j].busy \/ t.dmp[j].down
               /\ ~Engaged(t, j) => ~t.dmp[j].busy /\ t.dmp[j].result = None /\ t.chk[j] = NoChunker
    <3>1. CASE j = i
      BY <3>1, <1>4 DEF TakesUp
    <3>2. CASE j # i
      BY <3>2, <1>5 DEF TakesUp, DumperLinks
    <3> QED
      BY <3>1, <3>2
  <2> QED
    BY <2>1, <2>2 DEF DumperLinks
<1>7. RoomLinks(t)
  <2>1. ASSUME NEW e \in ToSet(t.roomq)
        PROVE  /\ t.chk[t.sched[e].dumper].proc \in {"room", "dead"}
               /\ t.dmp[t.sched[e].dumper].chunker
    <3>1. e \in ToSet(s.roomq) /\ e \in s.inprogress
      BY <1>1 DEF TakesUp
    <3>2. s.sched[e].dumper \in Dumpers /\ s.sched[e].dumper # i /\ t.sched[e].dumper = s.sched[e].dumper
      BY <3>1, <1>2, <1>3
    <3> QED
      BY <3>1, <3>2 DEF TakesUp, RoomLinks
  <2>2. ASSUME NEW j \in Dumpers
        PROVE  /\ t.chk[j].proc = "dead" => t.deaths > 0
               /\ t.chk[j].proc \in {None, "room", "writing"} =>
                        t.chk[j].result = None /\ t.chk[j].sendresult = FALSE
    <3>1. CASE j = i
      BY <3>1 DEF TakesUp
    <3>2. CASE j # i
      BY <3>2 DEF TakesUp, RoomLinks
    <3> QED
      BY <3>1, <3>2
  <2> QED
    BY <2>1, <2>2 DEF RoomLinks
<1> QED
  BY <1>4, <1>5, <1>6, <1>7

IsFree(s, i) == ~s.dmp[i].busy /\ ~s.dmp[i].down

\* A dumper that is neither busy nor down has no dump, no result and no chunker.
LEMMA FreeIs ==
    ASSUME NEW s, NEW c, Good(s, c), NEW i \in Dumpers, IsFree(s, i)
    PROVE  ~Engaged(s, i) /\ s.dmp[i].result = None /\ s.chk[i] = NoChunker
BY DEF Good, Inv, DumperLinks, IsFree

\* The start time of a host is not looked at by the invariant.
LEMMA DelayFrame ==
    ASSUME NEW s, Shape(s), NEW d
    PROVE  Seen(s, DelayHost(s, d))
BY Shaped DEF DelayHost, Seen, Fields

\* Nor does setting it change the invariant.
LEMMA DelayGood ==
    ASSUME NEW s, NEW c, Good(s, c), NEW d
    PROVE  Good(DelayHost(s, d), c)
<1>1. Shape(s)
  BY DEF Good, Inv
<1> QED
  BY <1>1, DelayFrame, SeenGood

TookHolding(t, i, d) ==
    LET first == t.sched[d].holdp[1]
    IN  [t EXCEPT
            !.ha[first.disk].allocated_dumpers = @ + 1,
            !.runq = RemoveFirst(@, d), !.inprogress = @ \cup {d},
            !.sched[d].dumper = i,
            !.dmp[i] = [@ EXCEPT !.busy = TRUE, !.dp = d, !.result = None,
                                 !.chunker = TRUE, !.told = TRUE],
            !.chk[i] = [result |-> None, sendresult |-> FALSE, proc |-> "writing",
                        use |-> first.reserved, wrote |-> 0]]

\* What starting a dump to holding disk changes.
LEMMA TookHoldingFrame ==
    ASSUME NEW s, Shape(s), NEW i \in Dumpers, NEW d \in Dles, NEW t, t = TookHolding(s, i, d)
    PROVE  /\ Shape(t) /\ TakesUp(s, t, i, d) /\ t.dmp[i].chunker
           /\ t.runq = RemoveFirst(s.runq, d) /\ t.directq = s.directq /\ t.tapeq = s.tapeq
           /\ t.taper = s.taper /\ t.input = s.input /\ t.outcome = s.outcome
           /\ SameFlags(s, t) /\ t.current_tape = s.current_tape
<1> DEFINE first == s.sched[d].holdp[1]
           nd == [s.dmp[i] EXCEPT !.busy = TRUE, !.dp = d, !.result = None,
                                 !.chunker = TRUE, !.told = TRUE]
           nc == [result |-> None, sendresult |-> FALSE, proc |-> "writing",
                        use |-> first.reserved, wrote |-> 0]
<1>0. t = [s EXCEPT
            !.ha[first.disk].allocated_dumpers = @ + 1,
            !.runq = RemoveFirst(@, d), !.inprogress = @ \cup {d},
            !.sched[d].dumper = i, !.dmp[i] = nd, !.chk[i] = nc]
  BY DEF TookHolding
<1>1. DOMAIN nd = DumperFields /\ nd.busy = TRUE /\ nd.dp = d /\ nd.chunker = TRUE
  BY Shaped DEF DumperFields
<1>2. DOMAIN nc = ChunkerFields /\ nc.proc = "writing" /\ nc.result = None /\ nc.sendresult = FALSE
  BY DEF ChunkerFields
<1> HIDE DEF first, nd, nc
<1>3. /\ DOMAIN t = Fields
      /\ t.runq = RemoveFirst(s.runq, d) /\ t.directq = s.directq /\ t.tapeq = s.tapeq
      /\ t.taper = s.taper /\ t.input = s.input /\ t.outcome = s.outcome
      /\ t.blocked = s.blocked /\ t.broken = s.broken /\ t.ended = s.ended /\ t.current_tape = s.current_tape
      /\ t.inprogress = s.inprogress \cup {d} /\ t.roomq = s.roomq /\ t.deaths = s.deaths
      /\ t.sched = [s.sched EXCEPT ![d].dumper = i]
      /\ t.dmp = [s.dmp EXCEPT ![i] = nd] /\ t.chk = [s.chk EXCEPT ![i] = nc]
  BY <1>0, Shaped DEF Fields
<1>4. /\ DOMAIN t.sched = Dles /\ DOMAIN t.sched[d] = SchedFields /\ t.sched[d].dumper = i
      /\ t.sched[d].est_size = s.sched[d].est_size
      /\ \A e \in Dles : e # d => t.sched[e] = s.sched[e]
  BY <1>3, Shaped DEF SchedFields
<1>5. /\ DOMAIN t.dmp = Dumpers /\ t.dmp[i] = nd /\ DOMAIN t.chk = Dumpers /\ t.chk[i] = nc
      /\ \A j \in Dumpers : j # i => t.dmp[j] = s.dmp[j] /\ t.chk[j] = s.chk[j]
  BY <1>3, Shaped
<1>6. TakesUp(s, t, i, d) /\ t.dmp[i].chunker
  <2>1. t.dmp[i].dp = d /\ t.dmp[i].busy /\ t.dmp[i].chunker /\ t.chk[i].proc = "writing" /\ t.chk[i].result = None /\ t.chk[i].sendresult = FALSE
    BY <1>1, <1>2, <1>5
  <2> QED
    BY <2>1, <1>3, <1>4, <1>5 DEF TakesUp
<1>7. \A e \in Dles : DOMAIN t.sched[e] = SchedFields /\ t.sched[e].est_size \in Nat
  BY <1>4, Shaped
<1>8. \A j \in Dumpers : DOMAIN t.dmp[j] = DumperFields /\ DOMAIN t.chk[j] = ChunkerFields
  BY <1>1, <1>2, <1>5, Shaped
<1>9. Shape(t)
  BY <1>3, <1>4, <1>5, <1>7, <1>8, Shaped DEF Shape
<1> QED
  BY <1>3, <1>6, <1>9 DEF SameFlags

\* A dump to holding disk is started.
StartedHolding(s, i, d, new) ==
    TookHolding(AssignHoldingdisk([s EXCEPT !.sched[d].act_size = 0], d, new), i, d)

\* act_size is not looked at by the invariant.
LEMMA ActSizeFrame ==
    ASSUME NEW s, Shape(s), NEW d \in Dles, NEW t, t = [s EXCEPT !.sched[d].act_size = 0]
    PROVE  /\ Shape(t) /\ Beside(s, t) /\ t.roomq = s.roomq /\ t.chk = s.chk
           /\ \A e \in Dles : t.sched[e].dumper = s.sched[e].dumper
           /\ \A e \in Dles : e # d => t.sched[e] = s.sched[e]
<1>1. /\ DOMAIN t = Fields /\ Beside(s, t) /\ t.roomq = s.roomq /\ t.chk = s.chk
      /\ t.sched = [s.sched EXCEPT ![d].act_size = 0]
  BY Shaped DEF Fields, Beside
<1>2. /\ DOMAIN t.sched = Dles /\ DOMAIN t.sched[d] = SchedFields
      /\ t.sched[d].est_size = s.sched[d].est_size /\ t.sched[d].dumper = s.sched[d].dumper
      /\ \A e \in Dles : e # d => t.sched[e] = s.sched[e]
  BY <1>1, Shaped DEF SchedFields
<1>3. \A e \in Dles : DOMAIN t.sched[e] = SchedFields /\ t.sched[e].est_size \in Nat /\ t.sched[e].dumper = s.sched[e].dumper
  BY <1>2, Shaped
<1>4. Shape(t)
  BY <1>1, <1>2, <1>3, Shaped DEF Shape, Beside
<1> QED
  BY <1>1, <1>2, <1>3, <1>4

\* A dump of runq started to holding disk by a free dumper keeps the invariant.
LEMMA StartedHoldingGood ==
    ASSUME NEW s, NEW c, Good(s, c), NEW i \in Dumpers, IsFree(s, i), NEW d \in ToSet(s.runq),
           NEW new, NEW t, t = StartedHolding(s, i, d, new)
    PROVE  Good(t, c)
<1> DEFINE u == [s EXCEPT !.sched[d].act_size = 0]
           v == AssignHoldingdisk(u, d, new)
<1>0. Inv(s) /\ s.current_tape = c /\ Shape(s) /\ Queues(s) /\ Placed(s) /\ Inputs(s)
      /\ DumperLinks(s) /\ RoomLinks(s) /\ TaperLinks(s)
  BY DEF Good, Inv
<1>1. d \in Dles /\ Queue(s.runq)
  BY <1>0 DEF Queues, Queue, ToSet
<1>2. /\ Shape(u) /\ Beside(s, u) /\ u.roomq = s.roomq /\ u.chk = s.chk
      /\ \A e \in Dles : u.sched[e].dumper = s.sched[e].dumper
  BY <1>0, <1>1, ActSizeFrame
<1>3. t = TookHolding(v, i, d)
  BY DEF StartedHolding
<1> HIDE DEF u
<1>4. /\ Shape(v) /\ Beside(u, v) /\ v.roomq = u.roomq /\ v.chk = u.chk
      /\ \A e \in Dles : v.sched[e].dumper = u.sched[e].dumper
  BY <1>1, <1>2, AssignFrame
<1> HIDE DEF v
<1>5. /\ Shape(t) /\ TakesUp(v, t, i, d) /\ t.dmp[i].chunker
      /\ t.runq = RemoveFirst(v.runq, d) /\ t.directq = v.directq /\ t.tapeq = v.tapeq
      /\ t.taper = v.taper /\ t.input = v.input /\ t.outcome = v.outcome
      /\ SameFlags(v, t) /\ t.current_tape = v.current_tape
  BY <1>1, <1>3, <1>4, TookHoldingFrame
<1>6. TakesUp(s, t, i, d)
  BY <1>2, <1>4, <1>5 DEF TakesUp, Beside
<1>7. /\ t.runq = RemoveFirst(s.runq, d) /\ t.directq = s.directq /\ t.tapeq = s.tapeq
      /\ t.taper = s.taper /\ t.input = s.input /\ t.outcome = s.outcome
      /\ SameFlags(s, t) /\ t.current_tape = s.current_tape
  BY <1>2, <1>4, <1>5 DEF Beside, SameFlags
<1>8. Queue(t.runq) /\ ToSet(t.runq) = ToSet(s.runq) \ {d}
  BY <1>1, <1>7, QueueRemove
<1>9. t.inprogress = s.inprogress \cup {d} /\ t.roomq = s.roomq /\ Flushing(t) = Flushing(s)
  BY <1>6, <1>7 DEF TakesUp, Flushing
<1>10. Apart(s, d) /\ Held(s, d) /\ d \notin Flush /\ s.outcome[d] = None
  BY <1>0, <1>1 DEF Held, Placed
<1>11. Queues(t)
  BY <1>0, <1>1, <1>7, <1>8, <1>9 DEF Queues
<1>12. Placed(t) /\ Inputs(t)
  <2>1. Others(s, t, d)
    BY <1>7, <1>8, <1>9 DEF Others
  <2>2. Apart(t, d) /\ Held(t, d) /\ t.outcome[d] = None
    BY <1>7, <1>8, <1>9, <1>10 DEF Apart, Held
  <2> QED
    BY <1>0, <1>1, <1>7, <1>10, <2>1, <2>2, MovePlaces
<1>13. ~Engaged(s, i) /\ d \notin s.inprogress
  BY <1>10, FreeIs DEF Apart
<1>14. /\ DumperLinks(t) /\ RoomLinks(t) /\ Engaged(t, i)
       /\ \A j \in Dumpers : j # i => (Engaged(t, j) <=> Engaged(s, j))
  BY <1>0, <1>1, <1>6, <1>13, TakesUpLinks
<1>15. TaperLinks(t)
  <2>1. ASSUME NEW j \in Dumpers, Engaged(t, j), ~t.dmp[j].chunker
        PROVE  t.chk[j] = NoChunker /\ t.taper.mode = "dump" /\ t.taper.disk = t.dmp[j].dp
    <3>1. j # i
      BY <1>5, <2>1
    <3>2. Engaged(s, j) /\ t.dmp[j] = s.dmp[j] /\ t.chk[j] = s.chk[j]
      BY <3>1, <1>6, <1>14, <2>1 DEF TakesUp
    <3> QED
      BY <3>2, <2>1, <1>0, <1>7 DEF TaperLinks
  <2>2. ASSUME t.taper.mode = "dump"
        PROVE  /\ t.taper.disk \in t.inprogress /\ t.taper.dumper = t.sched[t.taper.disk].dumper
               /\ ~t.dmp[t.taper.dumper].chunker
    <3>1. /\ s.taper.disk \in s.inprogress /\ s.taper.dumper = s.sched[s.taper.disk].dumper
          /\ ~s.dmp[s.taper.dumper].chunker
      BY <2>2, <1>0, <1>7 DEF TaperLinks
    <3>2. s.taper.disk \in Dles /\ s.taper.disk # d
      BY <3>1, <1>0, <1>13 DEF Queues
    <3>3. s.taper.dumper \in Dumpers /\ s.dmp[s.taper.dumper].dp = s.taper.disk
      BY <3>1, <1>0, Zenon DEF DumperLinks
    <3>4. s.taper.dumper # i
      BY <3>1, <3>3, <1>13 DEF Engaged
    <3>5. t.dmp[s.taper.dumper] = s.dmp[s.taper.dumper] /\ t.sched[s.taper.disk].dumper = s.sched[s.taper.disk].dumper
      BY <3>2, <3>3, <3>4, <1>6 DEF TakesUp
    <3> QED
      BY <3>1, <3>5, <1>7, <1>9
  <2> QED
    BY <2>1, <2>2, <1>0, <1>7 DEF TaperLinks
<1> QED
  BY <1>0, <1>5, <1>7, <1>11, <1>12, <1>14, <1>15 DEF Inv, Good, SameFlags, Live

-----------------------------------------------------------------------------
(* start_some_dumps: the chunker dies before it names its port.            *)

\* The chunker gives no port: the dumper starts again, d is retried or lost.
Unported(s, i, d) ==
    [s EXCEPT !.sched[d].act_size = 0, !.sched[d].dump_attempted = @ + 1,
              !.dmp[i] = IdleDumper, !.runq = RemoveFirst(@, d), !.deaths = @ + 1]

\* What the death of a chunker before its PORT changes.
LEMMA UnportedFrame ==
    ASSUME NEW s, Shape(s), NEW i \in Dumpers, NEW d \in Dles, NEW t, t = Unported(s, i, d)
    PROVE  /\ Shape(t) /\ t.runq = RemoveFirst(s.runq, d)
           /\ t.directq = s.directq /\ t.tapeq = s.tapeq /\ t.roomq = s.roomq
           /\ t.inprogress = s.inprogress /\ t.taper = s.taper /\ t.input = s.input
           /\ t.outcome = s.outcome /\ t.chk = s.chk /\ t.deaths = s.deaths + 1
           /\ SameFlags(s, t) /\ t.current_tape = s.current_tape
           /\ t.dmp[i] = IdleDumper /\ \A j \in Dumpers : j # i => t.dmp[j] = s.dmp[j]
           /\ \A e \in Dles : t.sched[e].dumper = s.sched[e].dumper
<1>1. /\ DOMAIN t = Fields /\ t.runq = RemoveFirst(s.runq, d)
      /\ t.directq = s.directq /\ t.tapeq = s.tapeq /\ t.roomq = s.roomq
      /\ t.inprogress = s.inprogress /\ t.taper = s.taper /\ t.input = s.input
      /\ t.outcome = s.outcome /\ t.chk = s.chk /\ t.deaths = s.deaths + 1
      /\ t.blocked = s.blocked /\ t.broken = s.broken /\ t.ended = s.ended
      /\ t.current_tape = s.current_tape
      /\ t.dmp = [s.dmp EXCEPT ![i] = IdleDumper]
      /\ t.sched = [s.sched EXCEPT ![d].act_size = 0, ![d].dump_attempted = @ + 1]
  BY Shaped DEF Fields, Unported
<1>2. /\ DOMAIN t.sched = Dles /\ DOMAIN t.sched[d] = SchedFields
      /\ t.sched[d].dumper = s.sched[d].dumper /\ t.sched[d].est_size = s.sched[d].est_size
      /\ \A e \in Dles : e # d => t.sched[e] = s.sched[e]
  BY <1>1, Shaped DEF SchedFields
<1>3. /\ DOMAIN t.dmp = Dumpers /\ t.dmp[i] = IdleDumper /\ \A j \in Dumpers : j # i => t.dmp[j] = s.dmp[j]
  BY <1>1, Shaped
<1>4. \A e \in Dles : DOMAIN t.sched[e] = SchedFields /\ t.sched[e].est_size \in Nat
                      /\ t.sched[e].dumper = s.sched[e].dumper
  BY <1>2, Shaped
<1>5. \A j \in Dumpers : DOMAIN t.dmp[j] = DumperFields
  <2>1. DOMAIN IdleDumper = DumperFields
    BY DEF IdleDumper, DumperFields
  <2> QED
    BY <1>3, <2>1, Shaped
<1>6. t.deaths \in Nat
  BY <1>1, Shaped
<1>7. Shape(t)
  BY <1>1, <1>2, <1>3, <1>4, <1>5, <1>6, Shaped DEF Shape
<1> QED
  BY <1>1, <1>3, <1>4, <1>7 DEF SameFlags

\* The dumper is free again and the dump back in runq, or parted with.
LEMMA IdleAgainGood ==
    ASSUME NEW s, NEW c, Good(s, c), NEW i \in Dumpers, IsFree(s, i), NEW d \in ToSet(s.runq),
           NEW t, Shape(t), t.directq = s.directq, t.tapeq = s.tapeq, t.roomq = s.roomq,
           t.inprogress = s.inprogress, t.taper = s.taper, t.input = s.input,
           t.chk = s.chk, t.deaths >= s.deaths, SameFlags(s, t), t.current_tape = s.current_tape,
           t.dmp[i] = IdleDumper, \A j \in Dumpers : j # i => t.dmp[j] = s.dmp[j],
           \A e \in Dles : t.sched[e].dumper = s.sched[e].dumper,
           Queue(t.runq), \A e \in Dles : e # d => (e \in ToSet(t.runq) <=> e \in ToSet(s.runq)),
           \A e \in Dles : e # d => t.outcome[e] = s.outcome[e],
           t.outcome[d] = None <=> d \in ToSet(t.runq)
    PROVE  Good(t, c)
<1>0. Inv(s) /\ s.current_tape = c /\ Shape(s) /\ Queues(s) /\ Placed(s) /\ Inputs(s)
      /\ DumperLinks(s) /\ RoomLinks(s) /\ TaperLinks(s)
  BY DEF Good, Inv
<1>1. d \in Dles /\ s.inprogress \subseteq Dles /\ ToSet(s.roomq) \subseteq s.inprogress
  BY <1>0 DEF Queues, Queue, ToSet
<1>2. Flushing(t) = Flushing(s)
  BY DEF Flushing
<1>3. Queues(t)
  BY <1>0, <1>2 DEF Queues
<1>4. Apart(s, d) /\ Held(s, d) /\ d \notin Flush
  BY <1>0, <1>1 DEF Held, Placed
<1>5. Placed(t) /\ Inputs(t)
  <2>1. Others(s, t, d)
    BY <1>2 DEF Others
  <2>2. Apart(t, d) /\ (Held(t, d) <=> d \in ToSet(t.runq))
    BY <1>2, <1>4 DEF Apart, Held
  <2> QED
    BY <1>0, <1>1, <1>4, <2>1, <2>2, MovePlaces
<1>6. ~Engaged(s, i) /\ s.chk[i] = NoChunker
  BY FreeIs
<1>7. \A e \in s.inprogress : /\ s.sched[e].dumper \in Dumpers /\ s.dmp[s.sched[e].dumper].dp = e
                              /\ t.sched[e].dumper = s.sched[e].dumper
                              /\ s.sched[e].dumper # i
                              /\ t.dmp[s.sched[e].dumper] = s.dmp[s.sched[e].dumper]
  <2>1. \A e \in s.inprogress : s.sched[e].dumper \in Dumpers /\ s.dmp[s.sched[e].dumper].dp = e
    BY <1>0, Zenon DEF DumperLinks
  <2>2. \A e \in s.inprogress : s.sched[e].dumper # i
    BY <1>6, <2>1 DEF Engaged
  <2> QED
    BY <1>1, <2>1, <2>2
<1>8. ~Engaged(t, i) /\ ~t.dmp[i].busy /\ t.dmp[i].result = None
  <2>1. None \notin s.inprogress
    BY <1>1, DriverAssumption
  <2> QED
    BY <2>1 DEF Engaged, IdleDumper
<1>9. \A j \in Dumpers : j # i => (Engaged(t, j) <=> Engaged(s, j))
  BY <1>1 DEF Engaged
<1>10. DumperLinks(t)
  <2>1. \A e \in t.inprogress : t.sched[e].dumper \in Dumpers /\ t.dmp[t.sched[e].dumper].dp = e
    BY <1>7
  <2>2. ASSUME NEW j \in Dumpers
        PROVE  /\ Engaged(t, j) => t.dmp[j].busy \/ t.dmp[j].down
               /\ ~Engaged(t, j) => ~t.dmp[j].busy /\ t.dmp[j].result = None /\ t.chk[j] = NoChunker
    <3>1. CASE j = i
      BY <3>1, <1>6, <1>8
    <3>2. CASE j # i
      BY <3>2, <1>0, <1>9 DEF DumperLinks
    <3> QED
      BY <3>1, <3>2
  <2> QED
    BY <2>1, <2>2 DEF DumperLinks
<1>11. TaperLinks(t)
  <2>1. \A j \in Dumpers : Engaged(t, j) /\ ~t.dmp[j].chunker =>
          t.chk[j] = NoChunker /\ t.taper.mode = "dump" /\ t.taper.disk = t.dmp[j].dp
    BY <1>0, <1>8, <1>9 DEF TaperLinks
  <2>2. t.taper.mode = "dump" =>
          /\ t.taper.disk \in t.inprogress /\ t.taper.dumper = t.sched[t.taper.disk].dumper
          /\ ~t.dmp[t.taper.dumper].chunker
    BY <1>0, <1>7 DEF TaperLinks
  <2> QED
    BY <2>1, <2>2, <1>0 DEF TaperLinks
<1>12. RoomLinks(t)
  <2>1. \A e \in ToSet(t.roomq) : /\ t.chk[t.sched[e].dumper].proc \in {"room", "dead"}
                                  /\ t.dmp[t.sched[e].dumper].chunker
    BY <1>0, <1>1, <1>7 DEF RoomLinks
  <2>2. s.deaths > 0 => t.deaths > 0
    BY <1>0, Shaped DEF Shape
  <2> QED
    BY <2>1, <2>2, <1>0 DEF RoomLinks
<1> QED
  BY <1>0, <1>3, <1>5, <1>10, <1>11, <1>12 DEF Inv, Good, SameFlags, Live

\* The death of a chunker before its PORT keeps the invariant.
LEMMA NoPortGood ==
    ASSUME NEW s, NEW c, Good(s, c), NEW i \in Dumpers, IsFree(s, i), NEW d \in ToSet(s.runq)
    PROVE  Good(NoPort(Unported(s, i, d), d), c)
<1> DEFINE u == Unported(s, i, d)
           a == [u EXCEPT !.runq = Append(@, d)]
           b == Parted(u, d, "lost")
<1>0. Shape(s) /\ Queues(s) /\ Placed(s)
  BY DEF Good, Inv
<1>1. d \in Dles /\ Queue(s.runq)
  BY <1>0 DEF Queues, Queue, ToSet
<1>2. /\ Shape(u) /\ u.runq = RemoveFirst(s.runq, d)
      /\ u.directq = s.directq /\ u.tapeq = s.tapeq /\ u.roomq = s.roomq
      /\ u.inprogress = s.inprogress /\ u.taper = s.taper /\ u.input = s.input
      /\ u.outcome = s.outcome /\ u.chk = s.chk /\ u.deaths = s.deaths + 1
      /\ SameFlags(s, u) /\ u.current_tape = s.current_tape
      /\ u.dmp[i] = IdleDumper /\ \A j \in Dumpers : j # i => u.dmp[j] = s.dmp[j]
  BY <1>0, <1>1, UnportedFrame
<1>2a. \A e \in Dles : u.sched[e].dumper = s.sched[e].dumper
  BY <1>0, <1>1, UnportedFrame
<1>3. NoPort(u, d) = DelayHost(IF u.sched[d].dump_attempted < 2 THEN a ELSE b, d)
  BY DEF NoPort
<1> HIDE DEF u
<1>4. Queue(u.runq) /\ ToSet(u.runq) = ToSet(s.runq) \ {d} /\ s.outcome[d] = None /\ "lost" # None
  <2>1. Queue(u.runq) /\ ToSet(u.runq) = ToSet(s.runq) \ {d}
    BY <1>1, <1>2, QueueRemove
  <2>2. s.outcome[d] = None
    BY <1>0, <1>1 DEF Placed, Held
  <2> QED
    BY <2>1, <2>2 DEF None
<1>4a. u.deaths >= s.deaths
  BY <1>0, <1>2 DEF Shape
<1>5. Good(a, c)
  <2>1. Seen(u, [a EXCEPT !.runq = u.runq]) /\ a.runq = Append(u.runq, d) /\ DOMAIN a = Fields
       /\ a.directq = u.directq /\ a.tapeq = u.tapeq /\ a.roomq = u.roomq
       /\ a.inprogress = u.inprogress /\ a.taper = u.taper /\ a.input = u.input
       /\ a.outcome = u.outcome /\ a.chk = u.chk /\ a.deaths = u.deaths
       /\ a.blocked = u.blocked /\ a.broken = u.broken /\ a.ended = u.ended
       /\ a.current_tape = u.current_tape /\ a.dmp = u.dmp /\ a.sched = u.sched
    BY <1>2, Shaped DEF Fields, Seen
  <2> HIDE DEF a
  <2>2. Shape(a)
    BY <1>2, <2>1 DEF Shape
  <2>3. Queue(a.runq) /\ ToSet(a.runq) = ToSet(u.runq) \cup {d}
    BY <1>1, <1>4, <2>1, QueueAppend
  <2>4. SameFlags(s, a)
    BY <1>2, <2>1 DEF SameFlags
  <2>5. \A e \in Dles : e # d => (e \in ToSet(a.runq) <=> e \in ToSet(s.runq))
    BY <2>3, <1>4
  <2>6. a.dmp[i] = IdleDumper /\ (\A j \in Dumpers : j # i => a.dmp[j] = s.dmp[j]) /\ a.deaths >= s.deaths
    BY <1>2, <1>4a, <2>1
  <2>7. (\A e \in Dles : e # d => a.outcome[e] = s.outcome[e]) /\ (a.outcome[d] = None <=> d \in ToSet(a.runq))
    BY <1>2, <1>4, <2>1, <2>3
  <2>8. \A e \in Dles : a.sched[e].dumper = s.sched[e].dumper
    BY <1>2a, <2>1
  <2>9. a.directq = s.directq /\ a.tapeq = s.tapeq /\ a.roomq = s.roomq
           /\ a.inprogress = s.inprogress /\ a.taper = s.taper /\ a.input = s.input
           /\ a.chk = s.chk /\ a.current_tape = s.current_tape
    BY <1>2, <2>1
  <2> QED
    BY <2>2, <2>3, <2>4, <2>5, <2>6, <2>7, <2>8, <2>9, IdleAgainGood
<1>6. Good(b, c)
  <2>1. Shape(b) /\ PartedIn(u, b, d) /\ b.outcome[d] = "lost"
    BY <1>1, <1>2, PartedFrame
  <2> HIDE DEF b
  <2>4. SameFlags(s, b)
    BY <1>2, <2>1 DEF SameFlags, PartedIn
  <2>5. Queue(b.runq) /\ ToSet(b.runq) = ToSet(s.runq) \ {d}
    BY <2>1, <1>4 DEF PartedIn
  <2>6. b.dmp[i] = IdleDumper /\ (\A j \in Dumpers : j # i => b.dmp[j] = s.dmp[j]) /\ b.deaths >= s.deaths
    BY <1>2, <1>4a, <2>1 DEF PartedIn
  <2>7. (\A e \in Dles : e # d => b.outcome[e] = s.outcome[e]) /\ (b.outcome[d] = None <=> d \in ToSet(b.runq))
    BY <1>2, <1>4, <2>1, <2>5 DEF PartedIn
  <2>8. \A e \in Dles : b.sched[e].dumper = s.sched[e].dumper
    BY <1>2a, <2>1 DEF PartedIn
  <2>9. b.directq = s.directq /\ b.tapeq = s.tapeq /\ b.roomq = s.roomq
           /\ b.inprogress = s.inprogress /\ b.taper = s.taper /\ b.input = s.input
           /\ b.chk = s.chk /\ b.current_tape = s.current_tape
    BY <1>2, <2>1 DEF PartedIn
  <2>10. \A e \in Dles : e # d => (e \in ToSet(b.runq) <=> e \in ToSet(s.runq))
    BY <2>5
  <2> QED
    BY <2>1, <2>4, <2>5, <2>6, <2>7, <2>8, <2>9, <2>10, IdleAgainGood
<1> HIDE DEF a, b
<1>7. Good(IF u.sched[d].dump_attempted < 2 THEN a ELSE b, c)
  BY <1>5, <1>6
<1> QED
  BY <1>3, <1>7, DelayGood DEF u

-----------------------------------------------------------------------------
(* start_some_dumps: a dump directly to tape; one idle dumper.             *)

TookTape(s, i, d) ==
    [s EXCEPT
        !.directq = RemoveFirst(@, d), !.inprogress = @ \cup {d},
        !.sched[d].act_size = 0, !.sched[d].dumper = i,
        !.dmp[i] = [@ EXCEPT !.busy = TRUE, !.dp = d, !.result = None,
                             !.chunker = FALSE, !.told = FALSE],
        !.taper = [@ EXCEPT !.mode = "dump", !.disk = d, !.dumper = i, !.port = FALSE,
                            !.result = None, !.err = None]]

\* What starting a dump directly to tape changes.
LEMMA TookTapeFrame ==
    ASSUME NEW s, Shape(s), NEW i \in Dumpers, NEW d \in Dles, s.chk[i] = NoChunker,
           NEW t, t = TookTape(s, i, d)
    PROVE  /\ Shape(t) /\ TakesUp(s, t, i, d) /\ ~t.dmp[i].chunker /\ t.chk = s.chk
           /\ t.directq = RemoveFirst(s.directq, d) /\ t.runq = s.runq /\ t.tapeq = s.tapeq
           /\ t.taper.mode = "dump" /\ t.taper.disk = d /\ t.taper.dumper = i
           /\ t.input = s.input /\ t.outcome = s.outcome
           /\ SameFlags(s, t) /\ t.current_tape = s.current_tape
<1> DEFINE nd == [s.dmp[i] EXCEPT !.busy = TRUE, !.dp = d, !.result = None,
                                 !.chunker = FALSE, !.told = FALSE]
           nt == [s.taper EXCEPT !.mode = "dump", !.disk = d, !.dumper = i, !.port = FALSE,
                            !.result = None, !.err = None]
<1>0. t = [s EXCEPT
            !.directq = RemoveFirst(@, d), !.inprogress = @ \cup {d},
            !.sched[d].act_size = 0, !.sched[d].dumper = i, !.dmp[i] = nd, !.taper = nt]
  BY DEF TookTape
<1>1. DOMAIN nd = DumperFields /\ nd.busy = TRUE /\ nd.dp = d /\ nd.chunker = FALSE
  BY Shaped DEF DumperFields
<1>2. DOMAIN nt = TaperFields /\ nt.mode = "dump" /\ nt.disk = d /\ nt.dumper = i
  BY Shaped DEF TaperFields
<1> HIDE DEF nd, nt
<1>3. /\ DOMAIN t = Fields
      /\ t.directq = RemoveFirst(s.directq, d) /\ t.runq = s.runq /\ t.tapeq = s.tapeq
      /\ t.taper = nt /\ t.input = s.input /\ t.outcome = s.outcome
      /\ t.blocked = s.blocked /\ t.broken = s.broken /\ t.ended = s.ended /\ t.current_tape = s.current_tape
      /\ t.inprogress = s.inprogress \cup {d} /\ t.roomq = s.roomq /\ t.deaths = s.deaths
      /\ t.sched = [s.sched EXCEPT ![d].act_size = 0, ![d].dumper = i]
      /\ t.dmp = [s.dmp EXCEPT ![i] = nd] /\ t.chk = s.chk
  BY <1>0, Shaped DEF Fields
<1>4. /\ DOMAIN t.sched = Dles /\ DOMAIN t.sched[d] = SchedFields /\ t.sched[d].dumper = i
      /\ t.sched[d].est_size = s.sched[d].est_size
      /\ \A e \in Dles : e # d => t.sched[e] = s.sched[e]
  BY <1>3, Shaped DEF SchedFields
<1>5. /\ DOMAIN t.dmp = Dumpers /\ t.dmp[i] = nd
      /\ \A j \in Dumpers : j # i => t.dmp[j] = s.dmp[j]
  BY <1>3, Shaped
<1>6. TakesUp(s, t, i, d) /\ ~t.dmp[i].chunker
  <2>1. t.dmp[i].dp = d /\ t.dmp[i].busy /\ ~t.dmp[i].chunker
    BY <1>1, <1>5
  <2>2. t.chk[i].proc \notin {"room", "dead"} /\ t.chk[i].result = None /\ t.chk[i].sendresult = FALSE
    BY <1>3 DEF NoChunker, None
  <2> QED
    BY <2>1, <2>2, <1>3, <1>4, <1>5 DEF TakesUp
<1>7. \A e \in Dles : DOMAIN t.sched[e] = SchedFields /\ t.sched[e].est_size \in Nat
  BY <1>4, Shaped
<1>8. \A j \in Dumpers : DOMAIN t.dmp[j] = DumperFields
  BY <1>1, <1>5, Shaped
<1>9. Shape(t)
  BY <1>2, <1>3, <1>4, <1>5, <1>7, <1>8, Shaped DEF Shape
<1> QED
  BY <1>2, <1>3, <1>6, <1>9 DEF SameFlags

\* A dump of directq started to an idle taper keeps the invariant.
LEMMA DumpToTapeGood ==
    ASSUME NEW s, NEW c, Good(s, c), NEW i \in Dumpers, IsFree(s, i), NEW d \in ToSet(s.directq),
           CanFlush(s)
    PROVE  Good(DumpToTape(s, i, d), c)
<1> DEFINE t == TookTape(s, i, d)
<1>0. Inv(s) /\ s.current_tape = c /\ Shape(s) /\ Queues(s) /\ Placed(s) /\ Inputs(s)
      /\ DumperLinks(s) /\ RoomLinks(s) /\ TaperLinks(s)
  BY DEF Good, Inv
<1>1. d \in Dles /\ Queue(s.directq) /\ s.taper.mode = "idle"
  BY <1>0 DEF Queues, Queue, ToSet, CanFlush
<1>2. ~Engaged(s, i) /\ s.chk[i] = NoChunker
  BY FreeIs
<1>3. /\ Shape(t) /\ TakesUp(s, t, i, d) /\ ~t.dmp[i].chunker /\ t.chk = s.chk
      /\ t.directq = RemoveFirst(s.directq, d) /\ t.runq = s.runq /\ t.tapeq = s.tapeq
      /\ t.taper.mode = "dump" /\ t.taper.disk = d /\ t.taper.dumper = i
      /\ t.input = s.input /\ t.outcome = s.outcome
      /\ SameFlags(s, t) /\ t.current_tape = s.current_tape
  BY <1>0, <1>1, <1>2, TookTapeFrame
<1>4. DumpToTape(s, i, d) = DelayHost(t, d)
  BY DEF DumpToTape, TookTape
<1> HIDE DEF t
<1>8. Queue(t.directq) /\ ToSet(t.directq) = ToSet(s.directq) \ {d}
  BY <1>1, <1>3, QueueRemove
<1>9. t.inprogress = s.inprogress \cup {d} /\ t.roomq = s.roomq /\ Flushing(t) = {} /\ Flushing(s) = {}
  BY <1>1, <1>3 DEF TakesUp, Flushing
<1>10. Apart(s, d) /\ Held(s, d) /\ d \notin Flush /\ s.outcome[d] = None
  BY <1>0, <1>1 DEF Held, Placed
<1>11. Queues(t)
  BY <1>0, <1>1, <1>3, <1>8, <1>9 DEF Queues
<1>12. Placed(t) /\ Inputs(t)
  <2>1. Others(s, t, d)
    BY <1>3, <1>8, <1>9 DEF Others
  <2>2. Apart(t, d) /\ Held(t, d) /\ t.outcome[d] = None
    BY <1>3, <1>8, <1>9, <1>10 DEF Apart, Held
  <2> QED
    BY <1>0, <1>1, <1>3, <1>10, <2>1, <2>2, MovePlaces
<1>13. d \notin s.inprogress
  BY <1>10 DEF Apart
<1>14. /\ DumperLinks(t) /\ RoomLinks(t) /\ Engaged(t, i)
       /\ \A j \in Dumpers : j # i => (Engaged(t, j) <=> Engaged(s, j))
  <2>1. /\ d \in Dles /\ TakesUp(s, t, i, d) /\ Queues(s) /\ DumperLinks(s) /\ RoomLinks(s)
        /\ d \notin s.inprogress /\ ~Engaged(s, i)
    BY <1>0, <1>1, <1>2, <1>3, <1>13
  <2> QED
    BY <2>1, TakesUpLinks
<1>15. TaperLinks(t)
  <2>1. ASSUME NEW j \in Dumpers, Engaged(t, j), ~t.dmp[j].chunker
        PROVE  t.chk[j] = NoChunker /\ t.taper.mode = "dump" /\ t.taper.disk = t.dmp[j].dp
    <3>1. CASE j = i
      BY <3>1, <1>2, <1>3 DEF TakesUp
    <3>2. CASE j # i
      BY <3>2, <2>1, <1>0, <1>1, <1>3, <1>14 DEF TakesUp, TaperLinks
    <3> QED
      BY <3>1, <3>2
  <2>2. /\ t.taper.disk \in t.inprogress /\ t.taper.dumper = t.sched[t.taper.disk].dumper
        /\ ~t.dmp[t.taper.dumper].chunker
    BY <1>3, <1>9 DEF TakesUp
  <2> QED
    BY <2>1, <2>2, <1>3 DEF TaperLinks
<1>16. Good(t, c)
  BY <1>0, <1>3, <1>11, <1>12, <1>14, <1>15 DEF Inv, Good, SameFlags, Live
<1> QED
  BY <1>4, <1>16, DelayGood

\* A dump of runq given to a free dumper keeps the invariant.
LEMMA DumpToHoldingGood ==
    ASSUME NEW s, NEW c, Good(s, c), NEW i \in Dumpers, IsFree(s, i), NEW d \in ToSet(s.runq),
           NEW t \in DumpToHolding(s, i, d)
    PROVE  Good(t, c)
<1> DEFINE u == StartedHolding(s, i, d, Space(s, d))
           v == NoPort(Unported(s, i, d), d)
<1>1. t = DelayHost(u, d) \/ t = v
  <2>1. \/ t = ToHolding(AssignHoldingdisk([s EXCEPT !.sched[d].act_size = 0], d, Space(s, d)), i, d)
        \/ t \in IF ~MayFault(s) THEN {} ELSE {v}
    BY Zenon DEF DumpToHolding, Unported
  <2>2. \A x : ToHolding(x, i, d) = DelayHost(TookHolding(x, i, d), d)
    BY DEF ToHolding, TookHolding
  <2>3. t \in (IF ~MayFault(s) THEN {} ELSE {v}) => t = v
    <3> HIDE DEF v
    <3> QED
      OBVIOUS
  <2> QED
    BY <2>1, <2>2, <2>3, Zenon DEF StartedHolding
<1>2. Good(DelayHost(u, d), c)
  BY StartedHoldingGood, DelayGood
<1>3. Good(v, c)
  BY NoPortGood
<1> QED
  BY <1>1, <1>2, <1>3

\* The rounds of start_some_dumps.
Starting(a, c) == DOMAIN a = {"s", "toHolding", "noSpace", "stop"} /\ Good(a.s, c)

\* One dumper of start_some_dumps keeps the invariant.
LEMMA StartDumperGood ==
    ASSUME NEW a, NEW c, Starting(a, c), NEW i \in Dumpers, NEW b \in StartDumper(a, i)
    PROVE  Starting(b, c)
<1> DEFINE s == a.s
           tapeable == IF CanFlush(s) THEN ToSet(s.directq) ELSE {}
           direct == {d \in tapeable : ~Delayed(s, d) /\ ~client_constrained(s, d)}
           late == SelectSeq(s.delayed, LAMBDA h :
                    \E d \in tapeable \cup ToSet(s.runq) : Host[d] = h)
           after(t, noSpace, D) ==
            IF D # {}
            THEN {[a EXCEPT !.s = u, !.noSpace = noSpace] :
                    u \in UNION {DumpToHolding(t, i, d) : d \in D}}
            ELSE {[a EXCEPT !.s = IF late = <<>> THEN u ELSE [u EXCEPT !.timer = Head(late)],
                            !.noSpace = noSpace, !.stop = late # <<>>] :
                    u \in IF noSpace THEN StartAFlush(t) ELSE {t}}
           ev == s.tapeq = <<>> /\ ~a.toHolding /\ no_taper_flushing(s)
           t == IF ev THEN FoldLeft(EvictUnfit, s, s.runq) ELSE s
           ns == a.noSpace \/ Unfit(s) # {}
           D == Acceptable(s)
<1>0. Good(s, c) /\ DOMAIN a = {"s", "toHolding", "noSpace", "stop"}
  BY DEF Starting
<1>1. CASE a.stop \/ s.dmp[i].busy \/ s.dmp[i].down
  BY <1>1 DEF StartDumper
<1>2. CASE ~(a.stop \/ s.dmp[i].busy \/ s.dmp[i].down) /\ direct # {}
  <2>1. b \in {[a EXCEPT !.s = DumpToTape(s, i, d)] : d \in direct}
    BY <1>2, Zenon DEF StartDumper
  <2>2. PICK d \in direct : b = [a EXCEPT !.s = DumpToTape(s, i, d)]
    BY <2>1
  <2>3. CanFlush(s) /\ d \in ToSet(s.directq)
    BY <2>2
  <2>4. IsFree(s, i)
    BY <1>2 DEF IsFree
  <2>5. Good(DumpToTape(s, i, d), c)
    BY <1>0, <2>3, <2>4, DumpToTapeGood
  <2> QED
    BY <1>0, <2>2, <2>5 DEF Starting
<1>3. CASE ~(a.stop \/ s.dmp[i].busy \/ s.dmp[i].down) /\ direct = {}
  <2>1. b \in after(t, ns, D)
    BY <1>3, Zenon DEF StartDumper
  <2>2. IsFree(s, i)
    BY <1>3 DEF IsFree
  <2>3. Good(t, c) /\ IsFree(t, i) /\ \A d \in D : d \in ToSet(t.runq)
    <3>1. CASE ev
      <4>1. t = FoldLeft(EvictUnfit, s, s.runq)
        BY <3>1
      <4>2. Good(t, c) /\ \A d \in D : d \in ToSet(t.runq)
        BY <1>0, <4>1, EvictAllGood
      <4>3. t.dmp = s.dmp
        BY <1>0, <4>1, EvictAllGood
      <4> QED
        BY <4>2, <4>3, <2>2 DEF IsFree
    <3>2. CASE ~ev
      <4>1. t = s
        BY <3>2
      <4> QED
        BY <4>1, <1>0, <2>2 DEF Acceptable, Candidates
    <3> QED
      BY <3>1, <3>2
  <2> HIDE DEF t, ns, D, late
  <2>4. CASE D # {}
    <3>1. b \in {[a EXCEPT !.s = u, !.noSpace = ns] : u \in UNION {DumpToHolding(t, i, d) : d \in D}}
      BY <2>1, <2>4, Zenon
    <3>2. PICK u \in UNION {DumpToHolding(t, i, d) : d \in D} : b = [a EXCEPT !.s = u, !.noSpace = ns]
      BY <3>1
    <3>3. PICK d \in D : u \in DumpToHolding(t, i, d)
      BY <3>2
    <3>4. Good(u, c)
      BY <2>3, <3>3, DumpToHoldingGood
    <3> QED
      BY <1>0, <3>2, <3>4 DEF Starting
  <2>5. CASE D = {}
    <3> DEFINE w(u) == IF late = <<>> THEN u ELSE [u EXCEPT !.timer = Head(late)]
               last == late # <<>>
    <3>1. b \in {[a EXCEPT !.s = w(u), !.noSpace = ns, !.stop = last] :
                    u \in IF ns THEN StartAFlush(t) ELSE {t}}
      BY <2>1, <2>5, Zenon
    <3>2. PICK u \in IF ns THEN StartAFlush(t) ELSE {t} :
                b = [a EXCEPT !.s = w(u), !.noSpace = ns, !.stop = last]
      BY <3>1
    <3>3. Good(u, c)
      <4>1. u \in StartAFlush(t) \/ u = t
        BY <3>2, Zenon
      <4> QED
        BY <4>1, <2>3, StartAFlushGood
    <3>4. Good(w(u), c)
      <4>1. CASE late = <<>>
        BY <4>1, <3>3
      <4>2. CASE late # <<>>
        <5>1. Shape(u)
          BY <3>3 DEF Good, Inv
        <5>2. Seen(u, [u EXCEPT !.timer = Head(late)])
          BY <5>1, Shaped DEF Seen, Fields
        <5> QED
          BY <4>2, <3>3, <5>2, SeenGood
      <4> QED
        BY <4>1, <4>2
    <3> HIDE DEF w, last
    <3> QED
      BY <1>0, <3>2, <3>4 DEF Starting
  <2> QED
    BY <2>4, <2>5
<1> QED
  BY <1>1, <1>2, <1>3

-----------------------------------------------------------------------------
(* start_some_dumps over all dumpers.  The end of a dump: deletion.        *)

\* All dumpers of start_some_dumps keep the invariant.
LEMMA StartAllGood ==
    ASSUME NEW c, NEW A, \A a \in A : Starting(a, c),
           NEW b \in FoldLeft(StartRound, A, [i \in Dumpers |-> i])
    PROVE  Starting(b, c)
<1>0. InParallel \in Nat /\ Dumpers = 1..InParallel
  BY DriverAssumption DEF Dumpers
<1>1. PICK f : /\ f[0] = A
               /\ \A n \in Dumpers : f[n] = StartRound(f[n - 1], n)
               /\ FoldLeft(StartRound, A, [i \in Dumpers |-> i]) = f[InParallel]
  BY StartRounds
<1> DEFINE Ok(k) == \A a \in f[k] : Starting(a, c)
           T == {k \in 0..InParallel : Ok(k)}
<1>2. Ok(0)
  BY <1>1
<1>3. ASSUME NEW k \in 0..(InParallel - 1), Ok(k) PROVE Ok(k + 1)
  <2>1. k + 1 \in Dumpers /\ (k + 1) - 1 = k
    BY <1>0
  <2>2. f[k + 1] = UNION {StartDumper(a, k + 1) : a \in f[k]}
    BY <1>1, <2>1 DEF StartRound
  <2> SUFFICES ASSUME NEW a \in f[k], NEW x \in StartDumper(a, k + 1)
               PROVE  Starting(x, c)
    BY <2>2
  <2> QED
    BY <1>3, <2>1, StartDumperGood
<1> HIDE DEF Ok
<1>4. 0 \in T /\ \A k \in 0..(InParallel - 1) : k \in T => k + 1 \in T
  <2>1. 0 \in 0..InParallel /\ \A k \in 0..(InParallel - 1) : k + 1 \in 0..InParallel
    BY <1>0
  <2> QED
    BY <2>1, <1>2, <1>3, Zenon
<1> HIDE DEF T
<1>5. \A k \in 0..InParallel : k \in T
  BY <1>0, <1>4, StartLoop!UpTo
<1>6. Ok(InParallel)
  <2>1. InParallel \in 0..InParallel
    BY <1>0
  <2> QED
    BY <1>5, <2>1 DEF T
<1> QED
  BY <1>1, <1>6, Zenon DEF Ok

\* start_some_dumps keeps the invariant.
LEMMA StartSomeDumpsGood ==
    ASSUME NEW s, NEW c, Good(s, c), NEW t \in StartSomeDumps(s)
    PROVE  Good(t, c)
<1> DEFINE toHolding == \E i \in Dumpers : s.dmp[i].busy /\ s.sched[s.dmp[i].dp].hold # "never"
           A == {[s |-> [u EXCEPT !.timer = None], toHolding |-> toHolding,
                  noSpace |-> FALSE, stop |-> FALSE] : u \in Elapsed(s)}
<1>1. CASE ~s.taper_started
  BY <1>1 DEF StartSomeDumps
<1>2. CASE s.taper_started
  <2>1. t \in {a.s : a \in FoldLeft(StartRound, A, [i \in Dumpers |-> i])}
    BY <1>2, Zenon DEF StartSomeDumps
  <2> HIDE DEF toHolding
  <2>2. ASSUME NEW u \in Elapsed(s)
        PROVE  Good([u EXCEPT !.timer = None], c)
    <3>1. PICK e : u = [s EXCEPT !.delayed = SubSeq(@, e + 1, Len(@))]
      BY DEF Elapsed
    <3>2. PICK x : u = [s EXCEPT !.delayed = x]
      BY <3>1
    <3>3. Shape(s)
      BY DEF Good, Inv
    <3>4. Seen(s, [u EXCEPT !.timer = None])
      BY <3>2, <3>3, Shaped DEF Seen, Fields
    <3> QED
      BY <3>4, SeenGood
  <2>3. \A a \in A : Starting(a, c)
    <3> SUFFICES ASSUME NEW u \in Elapsed(s)
                 PROVE  Starting([s |-> [u EXCEPT !.timer = None], toHolding |-> toHolding,
                                  noSpace |-> FALSE, stop |-> FALSE], c)
      BY Zenon
    <3> DEFINE v == [u EXCEPT !.timer = None]
    <3>1. Good(v, c)
      BY <2>2
    <3> HIDE DEF v
    <3>2. Starting([s |-> v, toHolding |-> toHolding, noSpace |-> FALSE, stop |-> FALSE], c)
      BY <3>1 DEF Starting
    <3> QED
      BY <3>2 DEF v
  <2> HIDE DEF A
  <2>4. PICK a \in FoldLeft(StartRound, A, [i \in Dumpers |-> i]) : t = a.s
    BY <2>1, Zenon
  <2>5. Starting(a, c)
    BY <2>3, <2>4, StartAllGood
  <2> QED
    BY <2>4, <2>5 DEF Starting
<1> QED
  BY <1>1, <1>2

\* start_some_dumps and startaflush keep the invariant.
LEMMA RescheduleGood ==
    ASSUME NEW s, NEW c, Good(s, c), NEW t \in Reschedule(s)
    PROVE  Good(t, c)
<1>1. PICK u \in StartSomeDumps(s) : t \in StartAFlush(u)
  BY DEF Reschedule
<1>2. Good(u, c)
  BY <1>1, StartSomeDumpsGood
<1> QED
  BY <1>1, <1>2, StartAFlushGood

\* The same, from any of several states.
LEMMA RescheduleAllGood ==
    ASSUME NEW S, NEW c, \A s \in S : Good(s, c), NEW t \in RescheduleAll(S)
    PROVE  Good(t, c)
<1>1. PICK s \in S : t \in Reschedule(s)
  BY DEF RescheduleAll
<1> QED
  BY <1>1, RescheduleGood

\* The end of a dump.

DeletedIn(s, t, d) ==
    /\ Beside(s, t) /\ t.roomq = s.roomq /\ t.chk = s.chk
    /\ \A e \in Dles : t.sched[e].dumper = s.sched[e].dumper
    /\ \A e \in Dles : e # d => t.sched[e] = s.sched[e]

\* delete_diskspace changes the holding disks and the dump's own files.
LEMMA DeletedFrame ==
    ASSUME NEW s, Shape(s), NEW d \in Dles, NEW t, t = Deleted(s, d)
    PROVE  Shape(t) /\ DeletedIn(s, t, d)
<1> DEFINE sp == DeleteSpace(s.ha, s.sched[d].holdp)
<1>0. t = [s EXCEPT !.ha = sp, !.sched[d].holdp = <<>>, !.sched[d].activehd = 0,
                    !.sched[d].act_size = 0]
  BY DEF Deleted
<1> HIDE DEF sp
<1>1. /\ DOMAIN t = Fields /\ Beside(s, t) /\ t.roomq = s.roomq /\ t.chk = s.chk
      /\ t.sched = [s.sched EXCEPT ![d].holdp = <<>>, ![d].activehd = 0, ![d].act_size = 0]
  BY <1>0, Shaped DEF Fields, Beside
<1>2. /\ DOMAIN t.sched = Dles /\ DOMAIN t.sched[d] = SchedFields
      /\ t.sched[d].est_size = s.sched[d].est_size /\ t.sched[d].dumper = s.sched[d].dumper
      /\ \A e \in Dles : e # d => t.sched[e] = s.sched[e]
  BY <1>1, Shaped DEF SchedFields
<1>3. \A e \in Dles : DOMAIN t.sched[e] = SchedFields /\ t.sched[e].est_size \in Nat /\ t.sched[e].dumper = s.sched[e].dumper
  BY <1>2, Shaped
<1>4. Shape(t)
  <2>1. t.dmp = s.dmp /\ t.chk = s.chk /\ t.taper = s.taper /\ t.outcome = s.outcome
        /\ t.deaths = s.deaths
    BY <1>1 DEF Beside
  <2>2. /\ DOMAIN t.dmp = Dumpers /\ DOMAIN t.chk = Dumpers /\ DOMAIN t.taper = TaperFields
        /\ DOMAIN t.outcome = Dles /\ t.deaths \in Nat
        /\ \A i \in Dumpers : DOMAIN t.dmp[i] = DumperFields /\ DOMAIN t.chk[i] = ChunkerFields
    BY <2>1, Shaped
  <2> QED
    BY <1>1, <1>2, <1>3, <2>2 DEF Shape
<1> QED
  BY <1>1, <1>2, <1>3, <1>4 DEF DeletedIn

\* Dumper i lets go of dump d.
LetsGo(s, t, i, d) ==
    /\ t.inprogress = s.inprogress \ {d} /\ t.roomq = s.roomq /\ t.deaths = s.deaths
    /\ \A e \in Dles : e # d => t.sched[e].dumper = s.sched[e].dumper
    /\ \A j \in Dumpers : j # i => t.dmp[j] = s.dmp[j] /\ t.chk[j] = s.chk[j]
    /\ ~t.dmp[i].busy /\ t.dmp[i].result = None /\ t.dmp[i].dp = d /\ t.chk[i] = NoChunker

\* A dumper lets go of its dump: the links hold, and the others' are as before.
LEMMA LetsGoLinks ==
    ASSUME NEW s, NEW t, NEW i \in Dumpers, NEW d \in s.inprogress, LetsGo(s, t, i, d),
           s.sched[d].dumper = i, s.dmp[i].dp = d,
           Queues(s), DumperLinks(s), RoomLinks(s), d \notin ToSet(s.roomq)
    PROVE  /\ DumperLinks(t) /\ RoomLinks(t) /\ ~Engaged(t, i)
           /\ \A j \in Dumpers : j # i => (Engaged(t, j) <=> Engaged(s, j))
<1>1. s.inprogress \subseteq Dles /\ ToSet(s.roomq) \subseteq s.inprogress
  BY DEF Queues
<1>3. \A e \in s.inprogress : e # d =>
        /\ t.sched[e].dumper = s.sched[e].dumper
        /\ s.sched[e].dumper \in Dumpers /\ s.dmp[s.sched[e].dumper].dp = e
        /\ s.sched[e].dumper # i
  <2>1. \A e \in s.inprogress : s.sched[e].dumper \in Dumpers /\ s.dmp[s.sched[e].dumper].dp = e
    BY DEF DumperLinks
  <2> QED
    BY <2>1, <1>1 DEF LetsGo
<1>4. ~Engaged(t, i)
  BY DEF Engaged, LetsGo
<1>5. ASSUME NEW j \in Dumpers, j # i PROVE Engaged(t, j) <=> Engaged(s, j)
  <2>1. t.dmp[j].dp = s.dmp[j].dp
    BY <1>5 DEF LetsGo
  <2>2. CASE s.dmp[j].dp = d
    BY <2>1, <2>2, <1>5 DEF Engaged, LetsGo
  <2>3. CASE s.dmp[j].dp # d
    BY <2>1, <2>3, <1>3 DEF Engaged, LetsGo
  <2> QED
    BY <2>2, <2>3
<1>6. DumperLinks(t)
  <2>1. ASSUME NEW e \in t.inprogress
        PROVE  t.sched[e].dumper \in Dumpers /\ t.dmp[t.sched[e].dumper].dp = e
    <3>1. e # d /\ e \in s.inprogress
      BY DEF LetsGo
    <3> QED
      BY <3>1, <1>3 DEF LetsGo
  <2>2. ASSUME NEW j \in Dumpers
        PROVE  /\ Engaged(t, j) => t.dmp[j].busy \/ t.dmp[j].down
               /\ ~Engaged(t, j) => ~t.dmp[j].busy /\ t.dmp[j].result = None /\ t.chk[j] = NoChunker
    <3>1. CASE j = i
      BY <3>1, <1>4 DEF LetsGo
    <3>2. CASE j # i
      BY <3>2, <1>5 DEF LetsGo, DumperLinks
    <3> QED
      BY <3>1, <3>2
  <2> QED
    BY <2>1, <2>2 DEF DumperLinks
<1>7. RoomLinks(t)
  <2>1. ASSUME NEW e \in ToSet(t.roomq)
        PROVE  /\ t.chk[t.sched[e].dumper].proc \in {"room", "dead"}
               /\ t.dmp[t.sched[e].dumper].chunker
    <3>1. e \in ToSet(s.roomq) /\ e \in s.inprogress /\ e # d
      BY <1>1 DEF LetsGo
    <3>2. s.sched[e].dumper \in Dumpers /\ s.sched[e].dumper # i /\ t.sched[e].dumper = s.sched[e].dumper
      BY <3>1, <1>3
    <3> QED
      BY <3>1, <3>2 DEF LetsGo, RoomLinks
  <2>2. ASSUME NEW j \in Dumpers
        PROVE  /\ t.chk[j].proc = "dead" => t.deaths > 0
               /\ t.chk[j].proc \in {None, "room", "writing"} =>
                        t.chk[j].result = None /\ t.chk[j].sendresult = FALSE
    <3>1. CASE j = i
      BY <3>1 DEF LetsGo, NoChunker, None
    <3>2. CASE j # i
      BY <3>2 DEF LetsGo, RoomLinks
    <3> QED
      BY <3>1, <3>2
  <2> QED
    BY <2>1, <2>2 DEF RoomLinks
<1> QED
  BY <1>4, <1>5, <1>6, <1>7

-----------------------------------------------------------------------------
(* The end of a dump: adjust_diskspace, and where the dump goes next.      *)

\* What adjust_diskspace and the end of the dumper change.
LEMMA AdjustedFrame ==
    ASSUME NEW s, Shape(s), NEW d \in Dles, NEW i \in Dumpers, s.sched[d].dumper = i,
           NEW holdp, NEW t, t = Adjusted(s, d, holdp)
    PROVE  /\ Shape(t)
           /\ t.runq = s.runq /\ t.directq = s.directq /\ t.tapeq = s.tapeq /\ t.roomq = s.roomq
           /\ t.inprogress = s.inprogress \ {d} /\ t.taper = s.taper /\ t.input = s.input
           /\ t.outcome = s.outcome /\ t.chk = s.chk /\ t.deaths = s.deaths
           /\ SameFlags(s, t) /\ t.current_tape = s.current_tape
           /\ ~t.dmp[i].busy /\ t.dmp[i].result = None /\ t.dmp[i].dp = d
           /\ \A j \in Dumpers : j # i => t.dmp[j] = s.dmp[j]
           /\ \A e \in Dles : e # d => t.sched[e] = s.sched[e]
<1> DEFINE h == holdp[s.sched[d].activehd].disk
           sp == AdjustSpace([s.ha EXCEPT ![h].allocated_dumpers = @ - 1], holdp)
           hp == AdjustHoldp(holdp)
           us == Used(holdp)
           nd == [IdleDumper EXCEPT !.down = s.dmp[i].down, !.dp = d]
           da == s.sched[d].dump_attempted + 1
<1>0. t = [s EXCEPT !.ha = sp, !.sched[d].holdp = hp, !.sched[d].act_size = us,
                    !.sched[d].dump_attempted = da, !.sched[d].dumper = 0,
                    !.dmp[i] = nd, !.inprogress = @ \ {d}]
  BY DEF Adjusted
<1>1. DOMAIN nd = DumperFields /\ nd.busy = FALSE /\ nd.result = None /\ nd.dp = d
  BY DEF IdleDumper, DumperFields
<1> HIDE DEF sp, hp, us, nd, da
<1>2. /\ DOMAIN t = Fields
      /\ t.runq = s.runq /\ t.directq = s.directq /\ t.tapeq = s.tapeq /\ t.roomq = s.roomq
      /\ t.inprogress = s.inprogress \ {d} /\ t.taper = s.taper /\ t.input = s.input
      /\ t.outcome = s.outcome /\ t.chk = s.chk /\ t.deaths = s.deaths
      /\ t.blocked = s.blocked /\ t.broken = s.broken /\ t.ended = s.ended
      /\ t.current_tape = s.current_tape
      /\ t.dmp = [s.dmp EXCEPT ![i] = nd]
      /\ t.sched = [s.sched EXCEPT ![d].holdp = hp, ![d].act_size = us,
                                   ![d].dump_attempted = da, ![d].dumper = 0]
  BY <1>0, Shaped DEF Fields
<1>3. /\ DOMAIN t.sched = Dles /\ DOMAIN t.sched[d] = SchedFields
      /\ t.sched[d].est_size = s.sched[d].est_size
      /\ \A e \in Dles : e # d => t.sched[e] = s.sched[e]
  BY <1>2, Shaped, SMTT(30) DEF SchedFields
<1>4. DOMAIN t.dmp = Dumpers /\ t.dmp[i] = nd /\ \A j \in Dumpers : j # i => t.dmp[j] = s.dmp[j]
  BY <1>2, Shaped
<1>5. \A e \in Dles : DOMAIN t.sched[e] = SchedFields /\ t.sched[e].est_size \in Nat
  BY <1>3, Shaped
<1>6. \A j \in Dumpers : DOMAIN t.dmp[j] = DumperFields
  BY <1>1, <1>4, Shaped
<1>7. Shape(t)
  <2>1. DOMAIN t = Fields /\ t.chk = s.chk /\ t.taper = s.taper /\ t.outcome = s.outcome /\ t.deaths = s.deaths
    BY <1>2
  <2>2. DOMAIN t.sched = Dles /\ DOMAIN t.dmp = Dumpers
    BY <1>3, <1>4
  <2> QED
    BY <2>1, <2>2, <1>5, <1>6, Shaped DEF Shape
<1> QED
  BY <1>1, <1>2, <1>3, <1>4, <1>7 DEF SameFlags

\* t is s with dump d, which was in no queue, in one of the queues or parted with
Requeued(s, t, d) ==
    /\ Shape(t) /\ Queue(t.runq) /\ Queue(t.directq) /\ Queue(t.tapeq)
    /\ \A e \in Dles : e # d =>
          /\ e \in ToSet(t.runq) <=> e \in ToSet(s.runq)
          /\ e \in ToSet(t.directq) <=> e \in ToSet(s.directq)
          /\ e \in ToSet(t.tapeq) <=> e \in ToSet(s.tapeq)
          /\ t.outcome[e] = s.outcome[e]
    /\ d \in ToSet(t.runq) => d \notin ToSet(t.directq) /\ d \notin ToSet(t.tapeq)
    /\ d \in ToSet(t.directq) => d \notin ToSet(t.tapeq)
    /\ d \in ToSet(t.runq) \/ d \in ToSet(t.directq) \/ d \in ToSet(t.tapeq) <=> t.outcome[d] = None
    /\ d \in Flush => d \notin ToSet(t.runq) /\ d \notin ToSet(t.directq)
    /\ t.roomq = s.roomq /\ t.inprogress = s.inprogress /\ t.taper = s.taper
    /\ t.input = s.input /\ t.chk = s.chk /\ t.dmp = s.dmp /\ t.deaths = s.deaths
    /\ SameFlags(s, t) /\ t.current_tape = s.current_tape
    /\ \A e \in Dles : t.sched[e].dumper = s.sched[e].dumper

Unqueued(s, d) ==
    /\ Shape(s) /\ Queue(s.runq) /\ Queue(s.directq) /\ Queue(s.tapeq) /\ s.outcome[d] = None
    /\ d \notin ToSet(s.runq) /\ d \notin ToSet(s.directq) /\ d \notin ToSet(s.tapeq)

\* the ways in which a dump is put into a queue
InRunq(s, d) == [s EXCEPT !.runq = Append(@, d)]
InDirectq(s, d) == [s EXCEPT !.directq = Append(@, d)]
InTapeq(s, d) == [s EXCEPT !.tapeq = Append(@, d)]
FirstDirectq(s, d) == [s EXCEPT !.directq = <<d>> \o @, !.sched[d].hold = "never",
                                !.sched[d].dump_attempted = @ - 1]
FirstTapeq(s, d) == [s EXCEPT !.tapeq = <<d>> \o @]

\* Each way to put a dump in a queue, and to part with it.
LEMMA RequeueEnds ==
    ASSUME NEW s, NEW d \in Dles, Unqueued(s, d)
    PROVE  /\ d \notin Flush => Requeued(s, InRunq(s, d), d)
           /\ d \notin Flush => Requeued(s, InDirectq(s, d), d)
           /\ Requeued(s, InTapeq(s, d), d) /\ Requeued(s, FirstTapeq(s, d), d)
           /\ d \notin Flush => Requeued(s, FirstDirectq(s, d), d)
           /\ \A how : how # None => Requeued(s, Parted(s, d, how), d)
<1>0. /\ Shape(s) /\ Queue(s.runq) /\ Queue(s.directq) /\ Queue(s.tapeq) /\ s.outcome[d] = None
      /\ d \notin ToSet(s.runq) /\ d \notin ToSet(s.directq) /\ d \notin ToSet(s.tapeq)
  BY DEF Unqueued
<1>1. ASSUME d \notin Flush PROVE Requeued(s, InRunq(s, d), d)
  <2> DEFINE t == InRunq(s, d)
  <2>1. /\ DOMAIN t = Fields /\ t.runq = Append(s.runq, d) /\ t.directq = s.directq /\ t.tapeq = s.tapeq
        /\ t.roomq = s.roomq /\ t.inprogress = s.inprogress /\ t.taper = s.taper
        /\ t.input = s.input /\ t.chk = s.chk /\ t.dmp = s.dmp /\ t.deaths = s.deaths
        /\ SameFlags(s, t) /\ t.current_tape = s.current_tape /\ t.sched = s.sched /\ t.outcome = s.outcome
    BY <1>0, Shaped DEF Fields, InRunq, SameFlags
  <2> HIDE DEF t
  <2>2. Queue(t.runq) /\ ToSet(t.runq) = ToSet(s.runq) \cup {d}
    BY <1>0, <2>1, QueueAppend
  <2>3. Shape(t)
    BY <1>0, <2>1 DEF Shape
  <2> QED
    BY <1>0, <1>1, <2>1, <2>2, <2>3 DEF Requeued, t
<1>2. ASSUME d \notin Flush PROVE Requeued(s, InDirectq(s, d), d)
  <2> DEFINE t == InDirectq(s, d)
  <2>1. /\ DOMAIN t = Fields /\ t.runq = s.runq /\ t.directq = Append(s.directq, d) /\ t.tapeq = s.tapeq
        /\ t.roomq = s.roomq /\ t.inprogress = s.inprogress /\ t.taper = s.taper
        /\ t.input = s.input /\ t.chk = s.chk /\ t.dmp = s.dmp /\ t.deaths = s.deaths
        /\ SameFlags(s, t) /\ t.current_tape = s.current_tape /\ t.sched = s.sched /\ t.outcome = s.outcome
    BY <1>0, Shaped DEF Fields, InDirectq, SameFlags
  <2> HIDE DEF t
  <2>2. Queue(t.directq) /\ ToSet(t.directq) = ToSet(s.directq) \cup {d}
    BY <1>0, <2>1, QueueAppend
  <2>3. Shape(t)
    BY <1>0, <2>1 DEF Shape
  <2> QED
    BY <1>0, <1>2, <2>1, <2>2, <2>3 DEF Requeued, t
<1>3. Requeued(s, InTapeq(s, d), d)
  <2> DEFINE t == InTapeq(s, d)
  <2>1. /\ DOMAIN t = Fields /\ t.runq = s.runq /\ t.directq = s.directq /\ t.tapeq = Append(s.tapeq, d)
        /\ t.roomq = s.roomq /\ t.inprogress = s.inprogress /\ t.taper = s.taper
        /\ t.input = s.input /\ t.chk = s.chk /\ t.dmp = s.dmp /\ t.deaths = s.deaths
        /\ SameFlags(s, t) /\ t.current_tape = s.current_tape /\ t.sched = s.sched /\ t.outcome = s.outcome
    BY <1>0, Shaped DEF Fields, InTapeq, SameFlags
  <2> HIDE DEF t
  <2>2. Queue(t.tapeq) /\ ToSet(t.tapeq) = ToSet(s.tapeq) \cup {d}
    BY <1>0, <2>1, QueueAppend
  <2>3. Shape(t)
    BY <1>0, <2>1 DEF Shape
  <2> QED
    BY <1>0, <2>1, <2>2, <2>3 DEF Requeued, t
<1>4. Requeued(s, FirstTapeq(s, d), d)
  <2> DEFINE t == FirstTapeq(s, d)
  <2>1. /\ DOMAIN t = Fields /\ t.runq = s.runq /\ t.directq = s.directq /\ t.tapeq = <<d>> \o s.tapeq
        /\ t.roomq = s.roomq /\ t.inprogress = s.inprogress /\ t.taper = s.taper
        /\ t.input = s.input /\ t.chk = s.chk /\ t.dmp = s.dmp /\ t.deaths = s.deaths
        /\ SameFlags(s, t) /\ t.current_tape = s.current_tape /\ t.sched = s.sched /\ t.outcome = s.outcome
    BY <1>0, Shaped DEF Fields, FirstTapeq, SameFlags
  <2> HIDE DEF t
  <2>2. Queue(t.tapeq) /\ ToSet(t.tapeq) = ToSet(s.tapeq) \cup {d}
    BY <1>0, <2>1, QueuePrepend
  <2>3. Shape(t)
    BY <1>0, <2>1 DEF Shape
  <2> QED
    BY <1>0, <2>1, <2>2, <2>3 DEF Requeued, t
<1>5. ASSUME d \notin Flush PROVE Requeued(s, FirstDirectq(s, d), d)
  <2> DEFINE t == FirstDirectq(s, d)
  <2>1. /\ DOMAIN t = Fields /\ t.runq = s.runq /\ t.directq = <<d>> \o s.directq /\ t.tapeq = s.tapeq
        /\ t.roomq = s.roomq /\ t.inprogress = s.inprogress /\ t.taper = s.taper
        /\ t.input = s.input /\ t.chk = s.chk /\ t.dmp = s.dmp /\ t.deaths = s.deaths
        /\ SameFlags(s, t) /\ t.current_tape = s.current_tape /\ t.outcome = s.outcome
        /\ t.sched = [s.sched EXCEPT ![d].hold = "never", ![d].dump_attempted = @ - 1]
    BY <1>0, Shaped DEF Fields, FirstDirectq, SameFlags
  <2> HIDE DEF t
  <2>2. Queue(t.directq) /\ ToSet(t.directq) = ToSet(s.directq) \cup {d}
    BY <1>0, <2>1, QueuePrepend
  <2>3. /\ DOMAIN t.sched = Dles /\ DOMAIN t.sched[d] = SchedFields
        /\ t.sched[d].est_size = s.sched[d].est_size /\ t.sched[d].dumper = s.sched[d].dumper
        /\ \A e \in Dles : e # d => t.sched[e] = s.sched[e]
    BY <1>0, <2>1, Shaped DEF SchedFields
  <2>4. \A e \in Dles : DOMAIN t.sched[e] = SchedFields /\ t.sched[e].est_size \in Nat
                        /\ t.sched[e].dumper = s.sched[e].dumper
    BY <1>0, <2>3, Shaped
  <2>5. Shape(t)
    BY <1>0, <2>1, <2>3, <2>4, Shaped DEF Shape
  <2> QED
    BY <1>0, <1>5, <2>1, <2>2, <2>4, <2>5 DEF Requeued, t
<1>6. ASSUME NEW how, how # None PROVE Requeued(s, Parted(s, d, how), d)
  <2> DEFINE t == Parted(s, d, how)
  <2>1. Shape(t) /\ PartedIn(s, t, d) /\ t.outcome[d] = how
    BY <1>0, PartedFrame
  <2> HIDE DEF t
  <2> QED
    BY <1>0, <1>6, <2>1 DEF Requeued, PartedIn, t
<1> QED
  BY <1>1, <1>2, <1>3, <1>4, <1>5, <1>6

\* The files of the dump may be deleted before.
LEMMA DeletedRequeue ==
    ASSUME NEW s, NEW d \in Dles, Unqueued(s, d)
    PROVE  /\ Unqueued(Deleted(s, d), d)
           /\ \A t : Requeued(Deleted(s, d), t, d) => Requeued(s, t, d)
<1> DEFINE u == Deleted(s, d)
<1>1. Shape(u) /\ DeletedIn(s, u, d)
  BY DeletedFrame DEF Unqueued
<1> HIDE DEF u
<1>2. Unqueued(u, d)
  BY <1>1 DEF Unqueued, DeletedIn, Beside
<1>3. ASSUME NEW t, Requeued(u, t, d) PROVE Requeued(s, t, d)
  BY <1>1, <1>3 DEF Requeued, DeletedIn, Beside, SameFlags
<1> QED
  BY <1>2, <1>3 DEF u

\* dumper_chunker_result puts its dump in one queue or parts with it.
LEMMA QueuedFrame ==
    ASSUME NEW s, NEW d \in Dles, d \notin Flush, Unqueued(s, d), NEW failed, NEW wrote
    PROVE  Requeued(s, Queued(s, d, failed, wrote), d)
<1> DEFINE u == Deleted(s, d)
<1>1. Unqueued(u, d) /\ \A t : Requeued(u, t, d) => Requeued(s, t, d)
  BY DeletedRequeue
<1> HIDE DEF u
<1>2. Requeued(s, InDirectq(u, d), d) /\ Requeued(s, InRunq(u, d), d)
  BY <1>1, RequeueEnds
<1>3. Requeued(s, Parted(u, d, "failed"), d)
  <2>1. "failed" # None
    BY DEF None
  <2> QED
    BY <1>1, <2>1, RequeueEnds
<1>4. Requeued(s, InTapeq(s, d), d)
  BY RequeueEnds
<1>5. Queued(s, d, failed, wrote) \in
        {InDirectq(u, d), InRunq(u, d), InTapeq(s, d), Parted(u, d, "failed")}
  BY Zenon DEF Queued, InDirectq, InRunq, InTapeq, u
<1> QED
  BY <1>2, <1>3, <1>4, <1>5, Zenon

-----------------------------------------------------------------------------
(* dumper_chunker_result.                                                  *)

Stopped(s) ==
    /\ s.blocked \/ s.broken
    /\ ~s.ended /\ Queues(s) /\ Placed(s) /\ (s.broken => s.deaths > 0)

\* The dump leaves a dumper's or the taper's hands for one queue, or is parted with.
LEMMA ReleasedPlaces ==
    ASSUME NEW s, Queues(s), Placed(s), Inputs(s), NEW d \in Dles, Held(s, d),
           NEW u, u.runq = s.runq, u.directq = s.directq, u.tapeq = s.tapeq, u.roomq = s.roomq,
           u.outcome = s.outcome, u.input = s.input, u.inprogress = s.inprogress \ {d},
           \A e \in Dles : e \in Flushing(u) <=> e \in Flushing(s) /\ e # d,
           Flushing(u) \subseteq Dles,
           d \notin ToSet(s.roomq), NEW t, Requeued(u, t, d)
    PROVE  Queues(t) /\ Placed(t) /\ Inputs(t)
<1>1. Flushing(t) = Flushing(u)
  BY DEF Flushing, Requeued
<1>2. Queues(t)
  BY <1>1 DEF Queues, Requeued
<1>3. Others(s, t, d)
  BY <1>1 DEF Others, Requeued
<1>4. d \notin t.inprogress /\ d \notin Flushing(t)
  BY <1>1 DEF Requeued
<1>5. Apart(t, d) /\ (t.outcome[d] = None <=> Held(t, d))
  BY <1>4 DEF Apart, Held, Requeued
<1>6. (d \in Flush => d \notin ToSet(t.runq) /\ d \notin ToSet(t.directq) /\ d \notin t.inprogress) /\ t.input = s.input
  BY <1>4 DEF Requeued
<1>7. Placed(t) /\ Inputs(t)
  BY <1>3, <1>5, <1>6, MovePlaces
<1> QED
  BY <1>2, <1>7

\* A chunker with a result is that of a dump in progress.
LEMMA ChunkerOfDump ==
    ASSUME NEW s, NEW c, Good(s, c), NEW i \in Dumpers, s.chk[i].result # None, NEW d, d = s.dmp[i].dp
    PROVE  /\ d \in s.inprogress /\ d \in Dles /\ s.sched[d].dumper = i /\ s.dmp[i].chunker
           /\ Held(s, d) /\ Apart(s, d) /\ s.outcome[d] = None /\ d \notin Flush
           /\ s.chk[i].proc \notin {None, "room", "writing"}
<1>0. Queues(s) /\ Placed(s) /\ DumperLinks(s) /\ RoomLinks(s) /\ TaperLinks(s)
  BY DEF Good, Inv
<1>1. s.chk[i] # NoChunker
  BY DEF NoChunker
<1>2. Engaged(s, i)
  BY <1>0, <1>1 DEF DumperLinks
<1>3. d \in s.inprogress /\ d \in Dles /\ s.sched[d].dumper = i /\ s.dmp[i].chunker
  BY <1>0, <1>1, <1>2 DEF Engaged, Queues, TaperLinks
<1>4. Held(s, d) /\ Apart(s, d) /\ s.outcome[d] = None /\ d \notin Flush
  BY <1>0, <1>3 DEF Held, Placed
<1>5. s.chk[i].proc \notin {None, "room", "writing"}
  BY <1>0 DEF RoomLinks
<1> QED
  BY <1>3, <1>4, <1>5

\* waitpid has returned.
Collected(t, i) ==
    [t EXCEPT !.chk[i] = NoChunker,
              !.pending_aborts = IF t.chk[i].result = "ABORT-FINISHED" THEN @ - 1 ELSE @]

\* What the end of a dump leaves to be queued.
LEMMA AdjustedUnqueued ==
    ASSUME NEW s, NEW c, Good(s, c), NEW i \in Dumpers, s.chk[i].result # None, NEW d, d = s.dmp[i].dp,
           NEW hp
    PROVE  Unqueued(Adjusted(s, d, hp), d)
<1> DEFINE u == Adjusted(s, d, hp)
<1>0. Shape(s) /\ Queues(s)
  BY DEF Good, Inv
<1>1. d \in Dles /\ s.sched[d].dumper = i /\ Held(s, d) /\ Apart(s, d) /\ s.outcome[d] = None
      /\ d \in s.inprogress
  BY ChunkerOfDump
<1>2. Shape(u) /\ u.runq = s.runq /\ u.directq = s.directq /\ u.tapeq = s.tapeq /\ u.outcome = s.outcome
  BY <1>0, <1>1, AdjustedFrame
<1> HIDE DEF u
<1>3. Unqueued(u, d)
  BY <1>0, <1>1, <1>2 DEF Unqueued, Queues, Apart
<1> QED
  BY <1>3 DEF u

\* The dump is in one queue, or parted with, and the chunker is collected.
LEMMA FinishedGood ==
    ASSUME NEW s, NEW c, Good(s, c), NEW i \in Dumpers, s.chk[i].result # None, NEW d, d = s.dmp[i].dp,
           d \notin ToSet(s.roomq), NEW hp, NEW v, Requeued(Adjusted(s, d, hp), v, d)
    PROVE  /\ Shape(v) /\ Queues(v) /\ Placed(v) /\ SameFlags(s, v) /\ v.chk = s.chk
           /\ Good(Collected(v, i), c)
<1> DEFINE u == Adjusted(s, d, hp)
<1>0. Inv(s) /\ s.current_tape = c /\ Shape(s) /\ Queues(s) /\ Placed(s) /\ Inputs(s)
      /\ DumperLinks(s) /\ RoomLinks(s) /\ TaperLinks(s) /\ Live(s)
  BY DEF Good, Inv
<1>2. d \in s.inprogress /\ d \in Dles /\ s.sched[d].dumper = i /\ s.dmp[i].dp = d /\ s.dmp[i].chunker
      /\ Held(s, d) /\ Apart(s, d) /\ s.outcome[d] = None /\ d \notin Flush
  BY ChunkerOfDump
<1>13. /\ Shape(u)
       /\ u.runq = s.runq /\ u.directq = s.directq /\ u.tapeq = s.tapeq /\ u.roomq = s.roomq
       /\ u.inprogress = s.inprogress \ {d} /\ u.taper = s.taper /\ u.input = s.input
       /\ u.outcome = s.outcome /\ u.chk = s.chk /\ u.deaths = s.deaths
       /\ SameFlags(s, u) /\ u.current_tape = s.current_tape
       /\ ~u.dmp[i].busy /\ u.dmp[i].result = None /\ u.dmp[i].dp = d
       /\ \A j \in Dumpers : j # i => u.dmp[j] = s.dmp[j]
       /\ \A e \in Dles : e # d => u.sched[e] = s.sched[e]
  BY <1>0, <1>2, AdjustedFrame
<1>15. Requeued(u, v, d)
  OBVIOUS
<1> HIDE DEF u
<1>16. Flushing(u) = Flushing(s) /\ d \notin Flushing(s)
  BY <1>13, <1>2 DEF Flushing, Apart
<1>16a. Flushing(s) \subseteq Dles
  BY <1>0 DEF Queues
<1>16b. \A e \in Dles : e \in Flushing(u) <=> e \in Flushing(s) /\ e # d
  BY <1>16
<1>17. Queues(v) /\ Placed(v) /\ Inputs(v)
  <2>1. u.runq = s.runq /\ u.directq = s.directq /\ u.tapeq = s.tapeq /\ u.roomq = s.roomq /\
         u.outcome = s.outcome /\ u.input = s.input /\ u.inprogress = s.inprogress \ {d} /\ Flushing(u) \subseteq Dles
    BY <1>13, <1>16, <1>16a
  <2> QED
    BY <2>1, <1>0, <1>2, <1>15, <1>16b, ReleasedPlaces
<1>18. /\ v.roomq = s.roomq /\ v.inprogress = s.inprogress \ {d} /\ v.taper = s.taper
       /\ v.input = s.input /\ v.chk = s.chk /\ v.deaths = s.deaths /\ v.dmp = u.dmp
       /\ SameFlags(s, v) /\ v.current_tape = s.current_tape /\ Shape(v)
       /\ \A e \in Dles : e # d => v.sched[e].dumper = s.sched[e].dumper
  BY <1>13, <1>15 DEF Requeued, SameFlags
<1> DEFINE pa == IF v.chk[i].result = "ABORT-FINISHED" THEN v.pending_aborts - 1 ELSE v.pending_aborts
           w == [v EXCEPT !.chk[i] = NoChunker, !.pending_aborts = pa]
<1>30. w = Collected(v, i)
  BY Zenon DEF Collected
<1> HIDE DEF pa
<1>32. /\ DOMAIN w = Fields /\ SamePlaces(v, w) /\ w.taper = v.taper /\ w.dmp = v.dmp /\ w.sched = v.sched
       /\ w.deaths = v.deaths /\ SameFlags(v, w) /\ w.current_tape = v.current_tape
       /\ w.outcome = v.outcome
       /\ w.chk = [v.chk EXCEPT ![i] = NoChunker]
  BY <1>18, Shaped DEF Fields, SamePlaces, SameFlags
<1> HIDE DEF w
<1>33. DOMAIN w.chk = Dumpers /\ w.chk[i] = NoChunker /\ \A j \in Dumpers : j # i => w.chk[j] = v.chk[j]
  BY <1>18, <1>32, Shaped
<1>34. Shape(w)
  <2>1. DOMAIN NoChunker = ChunkerFields
    BY DEF NoChunker, ChunkerFields
  <2>2. \A j \in Dumpers : DOMAIN w.chk[j] = ChunkerFields
    BY <2>1, <1>33, <1>18, Shaped
  <2> QED
    BY <1>18, <1>32, <1>33, <2>2 DEF Shape
<1>35. Queues(w) /\ Placed(w) /\ Inputs(w)
  BY <1>17, <1>32, ViewPlaces
<1>36. LetsGo(s, w, i, d)
  <2>1. w.inprogress = v.inprogress /\ w.roomq = v.roomq
    BY <1>32 DEF SamePlaces
  <2> QED
    BY <2>1, <1>13, <1>18, <1>32, <1>33 DEF LetsGo
<1>37. /\ DumperLinks(w) /\ RoomLinks(w) /\ ~Engaged(w, i)
       /\ \A j \in Dumpers : j # i => (Engaged(w, j) <=> Engaged(s, j))
  BY <1>0, <1>2, <1>36, LetsGoLinks
<1>38. TaperLinks(w)
  <2>0. w.taper = s.taper /\ w.inprogress = s.inprogress \ {d}
    BY <1>18, <1>32 DEF SamePlaces
  <2>1. ASSUME NEW j \in Dumpers, Engaged(w, j), ~w.dmp[j].chunker
        PROVE  w.chk[j] = NoChunker /\ w.taper.mode = "dump" /\ w.taper.disk = w.dmp[j].dp
    <3>1. j # i
      BY <2>1, <1>37
    <3>2. Engaged(s, j) /\ w.dmp[j] = s.dmp[j] /\ w.chk[j] = s.chk[j]
      BY <3>1, <2>1, <1>36, <1>37 DEF LetsGo
    <3> QED
      BY <3>2, <2>0, <2>1, <1>0 DEF TaperLinks
  <2>2. ASSUME w.taper.mode = "dump"
        PROVE  /\ w.taper.disk \in w.inprogress /\ w.taper.dumper = w.sched[w.taper.disk].dumper
               /\ ~w.dmp[w.taper.dumper].chunker
    <3>1. /\ s.taper.disk \in s.inprogress /\ s.taper.dumper = s.sched[s.taper.disk].dumper
          /\ ~s.dmp[s.taper.dumper].chunker
      BY <2>0, <2>2, <1>0 DEF TaperLinks
    <3>2. s.taper.dumper # i /\ s.taper.disk # d /\ s.taper.disk \in Dles /\ s.taper.dumper \in Dumpers
      BY <3>1, <1>0, <1>2 DEF Queues, DumperLinks
    <3>3. w.dmp[s.taper.dumper] = s.dmp[s.taper.dumper] /\ w.sched[s.taper.disk].dumper = s.sched[s.taper.disk].dumper
      BY <3>2, <1>36 DEF LetsGo
    <3> QED
      BY <3>1, <3>2, <3>3, <2>0
  <2> QED
    BY <2>0, <2>1, <2>2, <1>0 DEF TaperLinks
<1>39. Good(w, c)
  <2>1. Live(w) /\ w.current_tape = c
    BY <1>0, <1>18, <1>32 DEF Live, SameFlags
  <2> QED
    BY <2>1, <1>34, <1>35, <1>37, <1>38 DEF Inv, Good
<1> QED
  BY <1>17, <1>18, <1>30, <1>39

\* dumper_chunker_result keeps the invariant, or waitpid blocks, or queue links break
\* after a death.
LEMMA DumperChunkerGood ==
    ASSUME NEW s, NEW c, Good(s, c), NEW i \in Dumpers, s.chk[i].result # None,
           NEW t \in DumperChunkerResult(s, s.dmp[i].dp)
    PROVE  Good(t, c) \/ Stopped(t)
<1> DEFINE d == s.dmp[i].dp
           k == s.sched[d].activehd
           old == s.sched[d].holdp
           failed == s.dmp[i].result # "DONE" \/ s.chk[i].result # "DONE"
           wrote == s.chk[i].wrote
           hp == [old EXCEPT ![k].used = wrote - Used(SubSeq(old, 1, k - 1))]
           u == Adjusted(s, d, hp)
           v == Queued(u, d, failed, wrote)
<1>0. Shape(s) /\ Queues(s) /\ Placed(s) /\ Inputs(s) /\ RoomLinks(s) /\ Live(s)
  BY DEF Good, Inv
<1>2. d \in s.inprogress /\ d \in Dles /\ s.sched[d].dumper = i /\ d \notin Flush
  BY ChunkerOfDump
<1>3. CASE d \in ToSet(s.roomq)
  <2>1. t = [s EXCEPT !.broken = TRUE]
    BY <1>3 DEF DumperChunkerResult
  <2>2. /\ t.broken /\ ~t.ended /\ t.deaths = s.deaths /\ SamePlaces(s, t)
    BY <1>0, <2>1, Shaped DEF Fields, SamePlaces, Live
  <2>3. s.deaths > 0
    <3>1. s.chk[i].proc \in {"room", "dead"}
      BY <1>0, <1>2, <1>3 DEF RoomLinks
    <3>2. s.chk[i].proc # "room"
      BY <1>0 DEF RoomLinks
    <3> QED
      BY <1>0, <3>1, <3>2 DEF RoomLinks
  <2>4. Queues(t) /\ Placed(t)
    BY <1>0, <2>2, ViewPlaces
  <2> QED
    BY <2>2, <2>3, <2>4 DEF Stopped
<1>4. CASE d \notin ToSet(s.roomq)
  <2>1. t \in Waited(v, i)
    <3>1. DumperChunkerResult(s, d) = Waited(v, i)
      BY <1>2, <1>4, Zenon DEF DumperChunkerResult
    <3> QED
      BY <3>1
  <2> HIDE DEF hp
  <2>2. Unqueued(u, d)
    BY AdjustedUnqueued
  <2> HIDE DEF u
  <2>3. Requeued(u, v, d)
    BY <1>2, <2>2, QueuedFrame
  <2> HIDE DEF v
  <2>4. /\ Shape(v) /\ Queues(v) /\ Placed(v) /\ SameFlags(s, v) /\ v.chk = s.chk
        /\ Good(Collected(v, i), c)
    BY <1>4, <2>3, FinishedGood DEF u
  <2>9. CASE v.chk[i].proc \notin {"quit", "dead"}
    <3>1. t = [v EXCEPT !.blocked = TRUE]
      BY <2>1, <2>9 DEF Waited
    <3>2. t.blocked /\ ~t.ended /\ ~t.broken /\ t.runq = v.runq /\ t.directq = v.directq /\ t.tapeq = v.tapeq
          /\ t.roomq = v.roomq /\ t.inprogress = v.inprogress /\ t.outcome = v.outcome /\ t.taper = v.taper
      BY <1>0, <2>4, <3>1, Shaped DEF Fields, SameFlags, Live
    <3>3. Flushing(t) = Flushing(v)
      BY <3>2 DEF Flushing
    <3>4. Queues(t)
      BY <2>4, <3>2, <3>3 DEF Queues
    <3>5. Placed(t)
      BY <2>4, <3>2, <3>3, Zenon DEF Placed, Apart, Held
    <3> QED
      BY <3>2, <3>4, <3>5 DEF Stopped
  <2>10. CASE v.chk[i].proc \in {"quit", "dead"}
    <3>1. t \in Reschedule(ContinuePortDumps(Collected(v, i)))
      BY <2>1, <2>10, Zenon DEF Waited, Collected
    <3>2. Good(ContinuePortDumps(Collected(v, i)), c)
      BY <2>4, ContinuePortDumpsGood
    <3> QED
      BY <3>1, <3>2, RescheduleGood
  <2> QED
    BY <2>9, <2>10
<1> QED
  BY <1>3, <1>4

\* So does a result that waits for the other child's.
LEMMA ConcludeGood ==
    ASSUME NEW s, NEW c, Good(s, c), NEW i \in Dumpers, NEW t \in Conclude(s, i)
    PROVE  Good(t, c) \/ Stopped(t)
<1>1. CASE s.chk[i].result # None /\ s.dmp[i].result # None
  BY <1>1, DumperChunkerGood DEF Conclude
<1>2. CASE ~(s.chk[i].result # None /\ s.dmp[i].result # None)
  BY <1>2 DEF Conclude
<1> QED
  BY <1>1, <1>2

-----------------------------------------------------------------------------
(* file_taper_result and dumper_taper_result.                              *)

\* the taper is done with the file of dump d
FileDone(s, d, tries) ==
    [s EXCEPT !.sched[d].taper_attempted = tries,
              !.taper = [@ EXCEPT !.mode = "idle", !.disk = None, !.result = None, !.err = None]]

\* What the end of a flush changes.
LEMMA FileDoneFrame ==
    ASSUME NEW s, Shape(s), NEW d \in Dles, NEW tries, NEW t, t = FileDone(s, d, tries)
    PROVE  /\ Shape(t)
           /\ t.runq = s.runq /\ t.directq = s.directq /\ t.tapeq = s.tapeq /\ t.roomq = s.roomq
           /\ t.inprogress = s.inprogress /\ t.input = s.input
           /\ t.outcome = s.outcome /\ t.chk = s.chk /\ t.deaths = s.deaths /\ t.dmp = s.dmp
           /\ SameFlags(s, t) /\ t.current_tape = s.current_tape
           /\ t.taper.mode = "idle" /\ t.taper.disk = None /\ t.taper.dumper = s.taper.dumper
           /\ \A e \in Dles : t.sched[e].dumper = s.sched[e].dumper
<1>1. /\ DOMAIN t = Fields
      /\ t.runq = s.runq /\ t.directq = s.directq /\ t.tapeq = s.tapeq /\ t.roomq = s.roomq
      /\ t.inprogress = s.inprogress /\ t.input = s.input
      /\ t.outcome = s.outcome /\ t.chk = s.chk /\ t.deaths = s.deaths /\ t.dmp = s.dmp
      /\ t.blocked = s.blocked /\ t.broken = s.broken /\ t.ended = s.ended
      /\ t.current_tape = s.current_tape
      /\ t.taper = [s.taper EXCEPT !.mode = "idle", !.disk = None, !.result = None, !.err = None]
      /\ t.sched = [s.sched EXCEPT ![d].taper_attempted = tries]
  BY Shaped DEF Fields, FileDone
<1>2. /\ DOMAIN t.sched = Dles /\ DOMAIN t.sched[d] = SchedFields
      /\ t.sched[d].est_size = s.sched[d].est_size /\ t.sched[d].dumper = s.sched[d].dumper
      /\ \A e \in Dles : e # d => t.sched[e] = s.sched[e]
  BY <1>1, Shaped DEF SchedFields
<1>3. /\ DOMAIN t.taper = TaperFields /\ t.taper.mode = "idle" /\ t.taper.disk = None
      /\ t.taper.dumper = s.taper.dumper
  BY <1>1, Shaped DEF TaperFields
<1>4. \A e \in Dles : DOMAIN t.sched[e] = SchedFields /\ t.sched[e].est_size \in Nat
                      /\ t.sched[e].dumper = s.sched[e].dumper
  BY <1>2, Shaped
<1>5. Shape(t)
  BY <1>1, <1>2, <1>3, <1>4, Shaped DEF Shape
<1> QED
  BY <1>1, <1>3, <1>4, <1>5 DEF SameFlags

\* The dump goes from the taper to one queue, or is parted with.
LEMMA FileDoneGood ==
    ASSUME NEW s, NEW c, Good(s, c), s.taper.mode = "file", NEW tries, NEW t,
           Requeued(FileDone(s, s.taper.disk, tries), t, s.taper.disk)
    PROVE  Good(t, c)
<1> DEFINE d == s.taper.disk
           u == FileDone(s, d, tries)
<1>0. Inv(s) /\ s.current_tape = c /\ Shape(s) /\ Queues(s) /\ Placed(s) /\ Inputs(s)
      /\ DumperLinks(s) /\ RoomLinks(s) /\ TaperLinks(s) /\ Live(s)
  BY DEF Good, Inv
<1>1. Flushing(s) = {d} /\ d \in Dles
  BY <1>0 DEF Flushing, Queues
<1>2. Held(s, d) /\ Apart(s, d) /\ d \notin s.inprogress /\ d \notin ToSet(s.roomq)
  BY <1>0, <1>1 DEF Held, Placed, Apart, Queues
<1> HIDE DEF d
<1>3. /\ Shape(u)
      /\ u.runq = s.runq /\ u.directq = s.directq /\ u.tapeq = s.tapeq /\ u.roomq = s.roomq
      /\ u.inprogress = s.inprogress /\ u.input = s.input
      /\ u.outcome = s.outcome /\ u.chk = s.chk /\ u.deaths = s.deaths /\ u.dmp = s.dmp
      /\ SameFlags(s, u) /\ u.current_tape = s.current_tape
      /\ u.taper.mode = "idle" /\ u.taper.disk = None /\ u.taper.dumper = s.taper.dumper
      /\ \A e \in Dles : u.sched[e].dumper = s.sched[e].dumper
  BY <1>0, <1>1, FileDoneFrame
<1>4. Requeued(u, t, d)
  BY DEF d
<1> HIDE DEF u
<1>5. Queues(t) /\ Placed(t) /\ Inputs(t)
  <2>1. u.inprogress = s.inprogress \ {d}
    BY <1>2, <1>3
  <2>2. Flushing(u) = {}
    BY <1>3 DEF Flushing
  <2>3. (\A e \in Dles : e \in Flushing(u) <=> e \in Flushing(s) /\ e # d) /\ Flushing(u) \subseteq Dles
    BY <2>2, <1>1
  <2>4. u.runq = s.runq /\ u.directq = s.directq /\ u.tapeq = s.tapeq /\ u.roomq = s.roomq /\
        u.outcome = s.outcome /\ u.input = s.input
    BY <1>3
  <2> QED
    BY <1>0, <1>1, <1>2, <1>4, <2>1, <2>3, <2>4, ReleasedPlaces
<1>6. SameChildren(s, t) /\ t.roomq = s.roomq /\ t.taper = u.taper /\ SameFlags(s, t) /\ Shape(t)
      /\ t.current_tape = s.current_tape
  BY <1>3, <1>4 DEF SameChildren, Requeued, SameFlags
<1>7. DumperLinks(t) /\ RoomLinks(t) /\ \A i \in Dumpers : Engaged(t, i) <=> Engaged(s, i)
  BY <1>0, <1>6, LinksKept
<1>8. TaperLinks(t)
  <2>1. \A i \in Dumpers : Engaged(s, i) => s.dmp[i].chunker
    BY <1>0 DEF TaperLinks
  <2>2. s.taper.dumper = 0 /\ t.dmp = s.dmp
    BY <1>0, <1>6 DEF TaperLinks, SameChildren
  <2> QED
    BY <2>1, <2>2, <1>3, <1>6, <1>7 DEF TaperLinks
<1> QED
  BY <1>0, <1>5, <1>6, <1>7, <1>8 DEF Inv, Good, SameFlags, Live

\* Where file_taper_result puts the dump.
PlacedByTaper(u, p, d) ==
    \/ p = Parted(u, d, "held") \/ p = Parted(u, d, "failed")
    \/ p = Parted(Deleted(u, d), d, "taped")
    \/ p = FirstTapeq(u, d)
    \/ p = FirstDirectq(u, d) /\ d \notin Flush

LEMMA FileTaperPlaced ==
    ASSUME NEW s, NEW c, Good(s, c), s.taper.mode = "file", NEW t \in FileTaperResult(s)
    PROVE  \E tries, p : /\ Unqueued(FileDone(s, s.taper.disk, tries), s.taper.disk)
                         /\ PlacedByTaper(FileDone(s, s.taper.disk, tries), p, s.taper.disk)
                         /\ Good(p, c) /\ t \in Reschedule(ContinuePortDumps(p))
<1> DEFINE d == s.taper.disk
           tries == s.sched[d].taper_attempted + 1
           u == FileDone(s, d, tries)
           placed ==
            CASE s.taper.err = "input" /\ d \in Flush -> Parted(u, d, "held")
              [] s.taper.err = "input" /\ d \notin Flush ->
                    IF tries >= 2 THEN Parted(u, d, "failed")
                    ELSE IF s.sched[d].hold = "required" THEN Parted(u, d, "held")
                    ELSE FirstDirectq(u, d)
              [] s.taper.err = "tape" ->
                    IF tries >= 2 THEN Parted(u, d, "failed")
                    ELSE FirstTapeq(u, d)
              [] OTHER -> IF s.taper.result = "DONE"
                          THEN Parted(Deleted(u, d), d, "taped")
                          ELSE Parted(u, d, "held")
<1>0. t \in Reschedule(ContinuePortDumps(placed))
  BY Zenon DEF FileTaperResult, FileDone, FirstDirectq, FirstTapeq
<1>1. Shape(s) /\ Queues(s) /\ Placed(s)
  BY DEF Good, Inv
<1>2. Flushing(s) = {d} /\ d \in Dles
  BY <1>1 DEF Flushing, Queues
<1>3. Unqueued(u, d)
  <2>1. Held(s, d) /\ Apart(s, d) /\ s.outcome[d] = None
    BY <1>1, <1>2 DEF Held, Placed
  <2>2. /\ Shape(u)
        /\ u.runq = s.runq /\ u.directq = s.directq /\ u.tapeq = s.tapeq /\ u.outcome = s.outcome
    <3> HIDE DEF tries, d
    <3> QED
      BY <1>1, <1>2, FileDoneFrame
  <2> HIDE DEF u
  <2> QED
    BY <1>1, <1>2, <2>1, <2>2 DEF Unqueued, Queues, Apart
<1> HIDE DEF u, d, tries
<1>4. PlacedByTaper(u, placed, d)
  BY DEF PlacedByTaper
<1> HIDE DEF placed
<1>5. Requeued(u, placed, d)
  <2>0. \A how \in {"held", "failed", "taped"} : how # None
    BY DEF None
  <2>1. \A how \in {"held", "failed"} : Requeued(u, Parted(u, d, how), d)
    BY <1>2, <1>3, <2>0, RequeueEnds
  <2>2. Requeued(u, Parted(Deleted(u, d), d, "taped"), d)
    <3>1. Unqueued(Deleted(u, d), d)
      BY <1>2, <1>3, DeletedRequeue
    <3>2. Requeued(Deleted(u, d), Parted(Deleted(u, d), d, "taped"), d)
      BY <3>1, <1>2, <2>0, RequeueEnds
    <3> QED
      BY <1>2, <1>3, <3>2, DeletedRequeue
  <2>3. Requeued(u, FirstTapeq(u, d), d) /\ (d \notin Flush => Requeued(u, FirstDirectq(u, d), d))
    BY <1>2, <1>3, RequeueEnds
  <2> QED
    BY <1>4, <2>1, <2>2, <2>3 DEF PlacedByTaper
<1>6. Good(placed, c)
  BY <1>5, FileDoneGood DEF u, d
<1> WITNESS tries, placed
<1> QED
  BY <1>0, <1>3, <1>4, <1>6 DEF u, d

\* file_taper_result keeps the invariant.
LEMMA FileTaperResultGood ==
    ASSUME NEW s, NEW c, Good(s, c), s.taper.mode = "file", NEW t \in FileTaperResult(s)
    PROVE  Good(t, c)
<1>1. PICK p : Good(p, c) /\ t \in Reschedule(ContinuePortDumps(p))
  BY FileTaperPlaced
<1> QED
  BY <1>1, ContinuePortDumpsGood, RescheduleGood

\* the dumper and the taper are done with dump d
TapeDone(s, d, i) ==
    [s EXCEPT
        !.sched[d].dump_attempted = @ + 1, !.sched[d].taper_attempted = @ + 1,
        !.sched[d].dumper = 0,
        !.dmp[i] = [IdleDumper EXCEPT !.down = s.dmp[i].down, !.dp = d],
        !.inprogress = @ \ {d},
        !.taper = [@ EXCEPT !.mode = "idle", !.disk = None, !.dumper = 0,
                            !.port = FALSE, !.result = None, !.err = None]]

\* What the end of a dump directly to tape changes.
LEMMA TapeDoneFrame ==
    ASSUME NEW s, Shape(s), NEW d \in Dles, NEW i \in Dumpers, NEW t, t = TapeDone(s, d, i)
    PROVE  /\ Shape(t)
           /\ t.runq = s.runq /\ t.directq = s.directq /\ t.tapeq = s.tapeq /\ t.roomq = s.roomq
           /\ t.inprogress = s.inprogress \ {d} /\ t.input = s.input
           /\ t.outcome = s.outcome /\ t.chk = s.chk /\ t.deaths = s.deaths
           /\ SameFlags(s, t) /\ t.current_tape = s.current_tape
           /\ t.taper.mode = "idle" /\ t.taper.disk = None /\ t.taper.dumper = 0
           /\ ~t.dmp[i].busy /\ t.dmp[i].result = None /\ t.dmp[i].dp = d
           /\ \A j \in Dumpers : j # i => t.dmp[j] = s.dmp[j]
           /\ \A e \in Dles : e # d => t.sched[e] = s.sched[e]
<1> DEFINE nd == [IdleDumper EXCEPT !.down = s.dmp[i].down, !.dp = d]
           nt == [s.taper EXCEPT !.mode = "idle", !.disk = None, !.dumper = 0,
                            !.port = FALSE, !.result = None, !.err = None]
           da == s.sched[d].dump_attempted + 1
           ta == s.sched[d].taper_attempted + 1
<1>0. t = [s EXCEPT !.sched[d].dump_attempted = da, !.sched[d].taper_attempted = ta,
                    !.sched[d].dumper = 0, !.dmp[i] = nd, !.inprogress = @ \ {d}, !.taper = nt]
  BY DEF TapeDone
<1>1. DOMAIN nd = DumperFields /\ nd.busy = FALSE /\ nd.result = None /\ nd.dp = d
  BY DEF IdleDumper, DumperFields
<1>1a. DOMAIN nt = TaperFields /\ nt.mode = "idle" /\ nt.disk = None /\ nt.dumper = 0
  BY Shaped DEF TaperFields
<1> HIDE DEF nd, nt, da, ta
<1>2. /\ DOMAIN t = Fields
      /\ t.runq = s.runq /\ t.directq = s.directq /\ t.tapeq = s.tapeq /\ t.roomq = s.roomq
      /\ t.inprogress = s.inprogress \ {d} /\ t.taper = nt /\ t.input = s.input
      /\ t.outcome = s.outcome /\ t.chk = s.chk /\ t.deaths = s.deaths
      /\ t.blocked = s.blocked /\ t.broken = s.broken /\ t.ended = s.ended
      /\ t.current_tape = s.current_tape
      /\ t.dmp = [s.dmp EXCEPT ![i] = nd]
      /\ t.sched = [s.sched EXCEPT ![d].dump_attempted = da, ![d].taper_attempted = ta, ![d].dumper = 0]
  BY <1>0, Shaped DEF Fields
<1>3. /\ DOMAIN t.sched = Dles /\ DOMAIN t.sched[d] = SchedFields
      /\ t.sched[d].est_size = s.sched[d].est_size
      /\ \A e \in Dles : e # d => t.sched[e] = s.sched[e]
  BY <1>2, Shaped DEF SchedFields
<1>4. DOMAIN t.dmp = Dumpers /\ t.dmp[i] = nd /\ \A j \in Dumpers : j # i => t.dmp[j] = s.dmp[j]
  BY <1>2, Shaped
<1>5. \A e \in Dles : DOMAIN t.sched[e] = SchedFields /\ t.sched[e].est_size \in Nat
  BY <1>3, Shaped
<1>6. \A j \in Dumpers : DOMAIN t.dmp[j] = DumperFields
  BY <1>1, <1>4, Shaped
<1>7. Shape(t)
  <2>1. DOMAIN t = Fields /\ t.chk = s.chk /\ DOMAIN t.taper = TaperFields /\ t.outcome = s.outcome /\ t.deaths = s.deaths
    BY <1>1a, <1>2
  <2>2. DOMAIN t.sched = Dles /\ DOMAIN t.dmp = Dumpers
    BY <1>3, <1>4
  <2> QED
    BY <2>1, <2>2, <1>5, <1>6, Shaped DEF Shape
<1> QED
  BY <1>1, <1>1a, <1>2, <1>3, <1>4, <1>7 DEF SameFlags

\* Where dumper_taper_result puts the dump.
LEMMA DumperTaperPlaced ==
    ASSUME NEW s, NEW c, Good(s, c), s.taper.mode = "dump", NEW t \in DumperTaperResult(s)
    PROVE  \E i \in Dumpers : \E v :
              /\ s.taper.disk \in s.inprogress \ Flush /\ s.sched[s.taper.disk].dumper = i
              /\ s.dmp[i].dp = s.taper.disk /\ ~s.dmp[i].chunker /\ s.chk[i] = NoChunker
              /\ \/ v = InDirectq(TapeDone(s, s.taper.disk, i), s.taper.disk)
                 \/ \E how \in {"taped", "failed"} : v = Parted(TapeDone(s, s.taper.disk, i), s.taper.disk, how)
              /\ Good(v, c) /\ t \in StartSomeDumps(v)
<1> DEFINE d == s.taper.disk
           i == s.sched[d].dumper
           ok == s.dmp[i].result = "DONE" /\ s.taper.result = "DONE"
           again == ~ok /\ s.sched[d].dump_attempted <= 0 /\ s.sched[d].taper_attempted <= 0
           u == TapeDone(s, d, i)
           how == IF ok THEN "taped" ELSE "failed"
           v == IF again THEN InDirectq(u, d) ELSE Parted(u, d, how)
<1>0. Inv(s) /\ s.current_tape = c /\ Shape(s) /\ Queues(s) /\ Placed(s) /\ Inputs(s)
      /\ DumperLinks(s) /\ RoomLinks(s) /\ TaperLinks(s) /\ Live(s)
  BY DEF Good, Inv
<1>1. t \in StartSomeDumps(v)
  BY Zenon DEF DumperTaperResult, TapeDone, InDirectq
<1>1a. how # None /\ how \in {"taped", "failed"}
  BY DEF None
<1> HIDE DEF again, how
<1>1b. v = InDirectq(u, d) \/ v = Parted(u, d, how)
  OBVIOUS
<1>2. d \in s.inprogress /\ i \in Dumpers /\ s.dmp[i].dp = d /\ s.taper.dumper = i /\ ~s.dmp[i].chunker /\ d \in Dles
  BY <1>0 DEF TaperLinks, DumperLinks, Queues
<1>3. Engaged(s, i) /\ s.chk[i] = NoChunker
  BY <1>0, <1>2 DEF Engaged, TaperLinks
<1>4. Held(s, d) /\ Apart(s, d) /\ d \notin Flush /\ s.outcome[d] = None
  BY <1>0, <1>2 DEF Held, Placed
<1>5. d \notin ToSet(s.roomq)
  <2>1. s.chk[i].proc \notin {"room", "dead"}
    BY <1>3 DEF NoChunker, None
  <2> QED
    BY <2>1, <1>0 DEF RoomLinks
<1>6. s.sched[d].dumper = i
  OBVIOUS
<1> HIDE DEF i, d
<1>7. /\ Shape(u)
      /\ u.runq = s.runq /\ u.directq = s.directq /\ u.tapeq = s.tapeq /\ u.roomq = s.roomq
      /\ u.inprogress = s.inprogress \ {d} /\ u.input = s.input
      /\ u.outcome = s.outcome /\ u.chk = s.chk /\ u.deaths = s.deaths
      /\ SameFlags(s, u) /\ u.current_tape = s.current_tape
      /\ u.taper.mode = "idle" /\ u.taper.disk = None /\ u.taper.dumper = 0
      /\ ~u.dmp[i].busy /\ u.dmp[i].result = None /\ u.dmp[i].dp = d
      /\ \A j \in Dumpers : j # i => u.dmp[j] = s.dmp[j]
      /\ \A e \in Dles : e # d => u.sched[e] = s.sched[e]
  BY <1>0, <1>2, TapeDoneFrame
<1> HIDE DEF u
<1>8. Unqueued(u, d)
  BY <1>0, <1>2, <1>4, <1>7 DEF Unqueued, Queues, Apart
<1>9. Requeued(u, v, d)
  <2>1. Requeued(u, InDirectq(u, d), d) /\ Requeued(u, Parted(u, d, how), d)
    BY <1>1a, <1>2, <1>4, <1>8, RequeueEnds
  <2> QED
    BY <2>1
<1> HIDE DEF v
<1>10. Flushing(u) = {} /\ Flushing(s) = {}
  BY <1>7 DEF Flushing
<1>11. Queues(v) /\ Placed(v) /\ Inputs(v)
  <2>1. (\A e \in Dles : e \in Flushing(u) <=> e \in Flushing(s) /\ e # d) /\ Flushing(u) \subseteq Dles
    BY <1>10
  <2>2. u.runq = s.runq /\ u.directq = s.directq /\ u.tapeq = s.tapeq /\ u.roomq = s.roomq /\
        u.outcome = s.outcome /\ u.input = s.input /\ u.inprogress = s.inprogress \ {d}
    BY <1>7
  <2> QED
    BY <1>0, <1>2, <1>4, <1>5, <1>9, <2>1, <2>2, ReleasedPlaces
<1>12. LetsGo(s, v, i, d)
  BY <1>3, <1>7, <1>9 DEF LetsGo, Requeued
<1>13. /\ DumperLinks(v) /\ RoomLinks(v) /\ ~Engaged(v, i)
       /\ \A j \in Dumpers : j # i => (Engaged(v, j) <=> Engaged(s, j))
  BY <1>0, <1>2, <1>5, <1>6, <1>12, LetsGoLinks
<1>14. v.taper.mode = "idle" /\ v.taper.disk = None /\ v.taper.dumper = 0 /\ Shape(v)
       /\ SameFlags(s, v) /\ v.current_tape = s.current_tape
  BY <1>7, <1>9 DEF Requeued, SameFlags
<1>15. TaperLinks(v)
  <2>1. ASSUME NEW j \in Dumpers, Engaged(v, j) PROVE v.dmp[j].chunker
    <3>1. j # i /\ Engaged(s, j) /\ v.dmp[j] = s.dmp[j]
      BY <1>12, <1>13, <2>1 DEF LetsGo
    <3>2. s.dmp[j].dp # d
      BY <3>1, <1>6 DEF Engaged
    <3> QED
      BY <3>1, <3>2, <1>0 DEF TaperLinks, d
  <2> QED
    BY <2>1, <1>14 DEF TaperLinks
<1>16. Good(v, c)
  BY <1>0, <1>11, <1>13, <1>14, <1>15 DEF Inv, Good, SameFlags, Live
<1>17. /\ d \in s.inprogress \ Flush /\ s.sched[d].dumper = i
       /\ s.dmp[i].dp = d /\ ~s.dmp[i].chunker /\ s.chk[i] = NoChunker
       /\ v = InDirectq(u, d) \/ \E how2 \in {"taped", "failed"} : v = Parted(u, d, how2)
  BY <1>1a, <1>1b, <1>2, <1>3, <1>4, <1>6
<1>18. i \in Dumpers
  BY <1>2
<1> WITNESS i \in Dumpers, v
<1> QED
  BY <1>1, <1>16, <1>17 DEF u, d

\* dumper_taper_result keeps the invariant.
LEMMA DumperTaperResultGood ==
    ASSUME NEW s, NEW c, Good(s, c), s.taper.mode = "dump", NEW t \in DumperTaperResult(s)
    PROVE  Good(t, c)
<1>1. PICK v : Good(v, c) /\ t \in StartSomeDumps(v)
  BY DumperTaperPlaced
<1> QED
  BY <1>1, StartSomeDumpsGood

-----------------------------------------------------------------------------
(* A child says something about the dump it works on.                      *)

\* The dumper that has dump dp is at work, and only it, its chunker and what the
\* driver counts for its dump change.
ChildSteps(s, t, i) ==
    /\ SamePlaces(s, t) /\ t.taper.dumper = s.taper.dumper /\ t.current_tape = s.current_tape
    /\ \A d \in Dles : t.sched[d].dumper = s.sched[d].dumper
    /\ \A j \in Dumpers : j # i => t.dmp[j] = s.dmp[j] /\ t.chk[j] = s.chk[j]
    /\ t.dmp[i].dp = s.dmp[i].dp /\ t.dmp[i].chunker = s.dmp[i].chunker
    /\ t.dmp[i].busy \/ t.dmp[i].down
    /\ t.chk[i] = s.chk[i] \/ s.dmp[i].chunker
    /\ s.chk[i].proc \in {"room", "dead"} => t.chk[i].proc \in {"room", "dead"}
    /\ t.chk[i].proc = "dead" => t.deaths > 0
    /\ t.chk[i].proc \in {None, "room", "writing"} =>
            t.chk[i].result = None /\ t.chk[i].sendresult = FALSE

\* A step of the dumper and the chunker of a dump in progress keeps the invariant.
LEMMA ChildStepGood ==
    ASSUME NEW s, NEW c, Good(s, c), NEW i \in Dumpers, Engaged(s, i),
           NEW t, Shape(t), SameFlags(s, t), ChildSteps(s, t, i), t.deaths >= s.deaths
    PROVE  Good(t, c)
<1>0. Inv(s) /\ s.current_tape = c /\ Shape(s) /\ Queues(s) /\ Placed(s) /\ Inputs(s)
      /\ DumperLinks(s) /\ RoomLinks(s) /\ TaperLinks(s) /\ Live(s)
  BY DEF Good, Inv
<1>1. s.inprogress \subseteq Dles /\ ToSet(s.roomq) \subseteq s.inprogress
  BY <1>0 DEF Queues
<1>2. Queues(t) /\ Placed(t) /\ Inputs(t)
  BY <1>0, ViewPlaces DEF ChildSteps
<1>3. t.inprogress = s.inprogress /\ t.roomq = s.roomq /\ t.taper.mode = s.taper.mode
      /\ t.taper.disk = s.taper.disk /\ t.taper.dumper = s.taper.dumper
      /\ \A j \in Dumpers : t.dmp[j].dp = s.dmp[j].dp /\ t.dmp[j].chunker = s.dmp[j].chunker
      /\ \A e \in s.inprogress : t.sched[e].dumper = s.sched[e].dumper
  BY <1>1 DEF ChildSteps, SamePlaces
<1>4. \A j \in Dumpers : Engaged(t, j) <=> Engaged(s, j)
  BY <1>3, Zenon DEF Engaged
<1>5. DumperLinks(t)
  <2>1. \A e \in t.inprogress : t.sched[e].dumper \in Dumpers /\ t.dmp[t.sched[e].dumper].dp = e
    <3>1. ASSUME NEW e \in s.inprogress
          PROVE  t.sched[e].dumper \in Dumpers /\ t.dmp[t.sched[e].dumper].dp = e
      <4>1. s.sched[e].dumper \in Dumpers /\ s.dmp[s.sched[e].dumper].dp = e
        BY <1>0, Zenon DEF DumperLinks
      <4> QED
        BY <4>1, <1>3
    <3> QED
      BY <3>1, <1>3
  <2>2. ASSUME NEW j \in Dumpers
        PROVE  /\ Engaged(t, j) => t.dmp[j].busy \/ t.dmp[j].down
               /\ ~Engaged(t, j) => ~t.dmp[j].busy /\ t.dmp[j].result = None /\ t.chk[j] = NoChunker
    <3>1. CASE j = i
      BY <3>1, <1>4 DEF ChildSteps
    <3>2. CASE j # i
      <4>1. t.dmp[j] = s.dmp[j] /\ t.chk[j] = s.chk[j]
        BY <3>2 DEF ChildSteps
      <4> QED
        BY <4>1, <1>0, <1>4, Zenon DEF DumperLinks
    <3> QED
      BY <3>1, <3>2
  <2> QED
    BY <2>1, <2>2 DEF DumperLinks
<1>6. TaperLinks(t)
  <2>1. ASSUME NEW j \in Dumpers, Engaged(t, j), ~t.dmp[j].chunker
        PROVE  t.chk[j] = NoChunker /\ t.taper.mode = "dump" /\ t.taper.disk = t.dmp[j].dp
    <3>1. Engaged(s, j) /\ ~s.dmp[j].chunker
      BY <2>1, <1>3, <1>4
    <3>2. s.chk[j] = NoChunker /\ s.taper.mode = "dump" /\ s.taper.disk = s.dmp[j].dp
      BY <3>1, <1>0, Zenon DEF TaperLinks
    <3>3. t.chk[j] = s.chk[j]
      BY <3>1 DEF ChildSteps
    <3> QED
      BY <3>2, <3>3, <1>3
  <2>2. ASSUME t.taper.mode = "dump"
        PROVE  /\ t.taper.disk \in t.inprogress /\ t.taper.dumper = t.sched[t.taper.disk].dumper
               /\ ~t.dmp[t.taper.dumper].chunker
    <3>1. /\ s.taper.disk \in s.inprogress /\ s.taper.dumper = s.sched[s.taper.disk].dumper
          /\ ~s.dmp[s.taper.dumper].chunker
      BY <2>2, <1>0, <1>3, Zenon DEF TaperLinks
    <3>2. s.taper.dumper \in Dumpers
      BY <3>1, <1>0, Zenon DEF DumperLinks
    <3> QED
      BY <3>1, <3>2, <1>3
  <2> QED
    BY <2>1, <2>2, <1>0, <1>3 DEF TaperLinks
<1>7. RoomLinks(t)
  <2>1. ASSUME NEW e \in ToSet(t.roomq)
        PROVE  /\ t.chk[t.sched[e].dumper].proc \in {"room", "dead"}
               /\ t.dmp[t.sched[e].dumper].chunker
    <3>1. e \in s.inprogress /\ e \in ToSet(s.roomq)
      BY <2>1, <1>1, <1>3
    <3>2. t.sched[e].dumper = s.sched[e].dumper /\ s.sched[e].dumper \in Dumpers
      BY <3>1, <1>0, <1>3, Zenon DEF DumperLinks
    <3>3. s.chk[s.sched[e].dumper].proc \in {"room", "dead"} /\ s.dmp[s.sched[e].dumper].chunker
      BY <3>1, <1>0, Zenon DEF RoomLinks
    <3> QED
      BY <3>2, <3>3, <1>3 DEF ChildSteps
  <2>2. ASSUME NEW j \in Dumpers
        PROVE  /\ t.chk[j].proc = "dead" => t.deaths > 0
               /\ t.chk[j].proc \in {None, "room", "writing"} =>
                        t.chk[j].result = None /\ t.chk[j].sendresult = FALSE
    <3>1. CASE j = i
      BY <3>1 DEF ChildSteps
    <3>2. CASE j # i
      <4>1. t.chk[j] = s.chk[j] /\ (s.deaths > 0 => t.deaths > 0)
        BY <3>2, <1>0, Shaped DEF ChildSteps, Shape
      <4> QED
        BY <4>1, <1>0 DEF RoomLinks
    <3> QED
      BY <3>1, <3>2
  <2> QED
    BY <2>1, <2>2 DEF RoomLinks
<1> QED
  BY <1>0, <1>2, <1>5, <1>6, <1>7 DEF Inv, Good, SameFlags, Live, ChildSteps

\* Only the chunker of dumper i, and what is counted for its dump, change.
NewChunker(s, t, i) ==
    /\ DOMAIN t = Fields /\ SamePlaces(s, t) /\ SameFlags(s, t) /\ t.taper = s.taper
    /\ t.current_tape = s.current_tape /\ t.dmp = s.dmp
    /\ DOMAIN t.sched = Dles
    /\ \A d \in Dles : DOMAIN t.sched[d] = SchedFields /\ t.sched[d].est_size \in Nat
                       /\ t.sched[d].dumper = s.sched[d].dumper
    /\ DOMAIN t.chk = Dumpers /\ DOMAIN t.chk[i] = ChunkerFields
    /\ \A j \in Dumpers : j # i => t.chk[j] = s.chk[j]
    /\ s.chk[i].proc \in {"room", "dead"} => t.chk[i].proc \in {"room", "dead"}
    /\ t.chk[i].proc = "dead" => t.deaths > 0
    /\ t.chk[i].proc \in {None, "room", "writing"} =>
            t.chk[i].result = None /\ t.chk[i].sendresult = FALSE

\* A chunker process that exists works on a dump in progress.
LEMMA ChunkerAtWork ==
    ASSUME NEW s, NEW c, Good(s, c), NEW i \in Dumpers, s.chk[i].proc # None
    PROVE  Engaged(s, i) /\ s.dmp[i].chunker /\ s.dmp[i].dp \in s.inprogress /\ s.dmp[i].dp \in Dles
           /\ s.sched[s.dmp[i].dp].dumper = i
<1>1. DumperLinks(s) /\ TaperLinks(s) /\ Queues(s)
  BY DEF Good, Inv
<1>2. s.chk[i] # NoChunker
  BY DEF NoChunker
<1>3. Engaged(s, i)
  BY <1>1, <1>2 DEF DumperLinks
<1> QED
  BY <1>1, <1>2, <1>3 DEF TaperLinks, Engaged, Queues

\* A step of such a chunker keeps the invariant.
LEMMA NewChunkerGood ==
    ASSUME NEW s, NEW c, Good(s, c), NEW i \in Dumpers, s.chk[i].proc # None,
           NEW t, NewChunker(s, t, i), t.deaths \in Nat, t.deaths >= s.deaths
    PROVE  Good(t, c)
<1>0. Shape(s) /\ DumperLinks(s)
  BY DEF Good, Inv
<1>1. Engaged(s, i) /\ s.dmp[i].chunker
  BY ChunkerAtWork
<1>2. \A j \in Dumpers : DOMAIN t.chk[j] = ChunkerFields
  BY <1>0, Shaped DEF NewChunker
<1>3. Shape(t)
  BY <1>0, <1>2, Shaped DEF Shape, NewChunker, SamePlaces
<1>4. s.dmp[i].busy \/ s.dmp[i].down
  BY <1>0, <1>1 DEF DumperLinks
<1>5. ChildSteps(s, t, i)
  BY <1>1, <1>4 DEF ChildSteps, NewChunker
<1> QED
  BY <1>1, <1>3, <1>5, ChildStepGood DEF NewChunker

-----------------------------------------------------------------------------
(* The chunker's record; what a chunker is told of its dumper.             *)

\* The chunker of dumper i becomes ch.
ChunkerIn(s, t, i, ch) ==
    /\ DOMAIN t = Fields /\ SamePlaces(s, t) /\ SameFlags(s, t) /\ t.taper = s.taper
    /\ t.current_tape = s.current_tape /\ t.dmp = s.dmp /\ t.sched = s.sched /\ t.ha = s.ha
    /\ t.chk = [s.chk EXCEPT ![i] = ch] /\ t.deaths \in Nat /\ t.deaths >= s.deaths

\* It writes no more, after n blocks at most.
Stops(s, t, i, n) ==
    \E ch : /\ ChunkerIn(s, t, i, ch) /\ ch.proc \notin {None, "room", "writing"}
            /\ \/ ch.wrote = s.chk[i].wrote /\ ch.use = s.chk[i].use
               \/ ch.wrote = s.chk[i].wrote + n /\ ch.use = 0

\* The same for a chunker whose new record is ch.
LEMMA ChunkerGood ==
    ASSUME NEW s, NEW c, Good(s, c), NEW i \in Dumpers, s.chk[i].proc # None,
           NEW ch, DOMAIN ch = ChunkerFields,
           s.chk[i].proc \in {"room", "dead"} => ch.proc \in {"room", "dead"},
           ch.proc \in {None, "room", "writing"} => ch.result = None /\ ch.sendresult = FALSE,
           NEW t, ChunkerIn(s, t, i, ch), ch.proc = "dead" => t.deaths > 0
    PROVE  Good(t, c) /\ t.chk[i] = ch /\ t.dmp = s.dmp
<1>0. Shape(s) /\ RoomLinks(s)
  BY DEF Good, Inv
<1>2. DOMAIN t.chk = Dumpers /\ t.chk[i] = ch /\ \A j \in Dumpers : j # i => t.chk[j] = s.chk[j]
  BY <1>0, Shaped DEF ChunkerIn
<1>5. NewChunker(s, t, i)
  BY <1>0, <1>2, Shaped DEF NewChunker, ChunkerIn
<1> QED
  BY <1>2, <1>5, NewChunkerGood DEF ChunkerIn

\* Setting a chunker's record changes nothing else.
LEMMA OnlyChunker ==
    ASSUME NEW s, Shape(s), NEW i \in Dumpers, NEW ch, NEW t, t = [s EXCEPT !.chk[i] = ch]
    PROVE  ChunkerIn(s, t, i, ch) /\ t.deaths = s.deaths
BY Shaped DEF ChunkerIn, Fields, SamePlaces, SameFlags

\* Tell
LEMMA TellGood ==
    ASSUME NEW s, NEW c, Good(s, c), NEW i \in Dumpers, s.chk[i].proc \notin {None, "room"},
           NEW t, t = Tell(s, i)
    PROVE  Good(t, c) /\ Stops(s, t, i, 0)
<1> DEFINE p == IF s.chk[i].proc = "dead" THEN "dead"
                ELSE IF s.dmp[i].result = "DONE" THEN "toldDONE" ELSE "toldFAILED"
           ch == [s.chk[i] EXCEPT !.proc = p, !.sendresult = FALSE]
<1>0. Shape(s) /\ RoomLinks(s)
  BY DEF Good, Inv
<1>1. t = [s EXCEPT !.chk[i] = ch]
  BY <1>0, Shaped, ZenonT(40) DEF Tell, Fields
<1>2. p \in {"dead", "toldDONE", "toldFAILED"} /\ (p = "dead" <=> s.chk[i].proc = "dead")
  OBVIOUS
<1> HIDE DEF p
<1>3. DOMAIN ch = ChunkerFields /\ ch.proc = p /\ ch.wrote = s.chk[i].wrote /\ ch.use = s.chk[i].use
  BY <1>0, Shaped DEF ChunkerFields
<1> HIDE DEF ch
<1>4. ChunkerIn(s, t, i, ch) /\ t.deaths = s.deaths
  BY <1>0, <1>1, OnlyChunker
<1>5. ch.proc = "dead" => t.deaths > 0
  BY <1>0, <1>2, <1>3, <1>4 DEF RoomLinks
<1>6. /\ ch.proc \notin {None, "room", "writing"} /\ s.chk[i].proc # None
      /\ s.chk[i].proc \in {"room", "dead"} => ch.proc \in {"room", "dead"}
  BY <1>2, <1>3 DEF None
<1>7. Good(t, c)
  BY <1>3, <1>4, <1>5, <1>6, ChunkerGood
<1> QED
  BY <1>3, <1>4, <1>6, <1>7 DEF Stops

\* The chunker is told, if it asked.
Told(s, t, i) == t = s \/ (t = Tell(s, i) /\ s.chk[i].proc \notin {None, "room"})

\* The chunker is told the dumper's result, or the dump is concluded.
LEMMA ForwardIs ==
    ASSUME NEW s, NEW c, Good(s, c), NEW i \in Dumpers, s.dmp[i].busy \/ s.dmp[i].result # None,
           NEW t \in Forward(s, i)
    PROVE  \/ \E u : Told(s, u, i) /\ t \in Conclude(u, i)
           \/ s.taper.mode = "dump" /\ t \in DumperTaperResult(s)
           \/ t = s
<1>0. DumperLinks(s) /\ TaperLinks(s) /\ RoomLinks(s)
  BY DEF Good, Inv
<1>1. Engaged(s, i)
  BY <1>0 DEF DumperLinks
<1>2. CASE s.dmp[i].chunker
  <2>1. CASE s.chk[i].sendresult
    <3>1. t \in Conclude(Tell(s, i), i)
      BY <1>2, <2>1 DEF Forward
    <3>2. s.chk[i].proc \notin {None, "room"}
      <4>1. s.chk[i].proc # "room"
        BY <1>0, <2>1 DEF RoomLinks
      <4>2. s.chk[i].proc # None
        BY <1>0, <2>1 DEF RoomLinks
      <4> QED BY <4>1, <4>2
    <3> QED
      BY <3>1, <3>2, Zenon DEF Told
  <2>2. CASE ~s.chk[i].sendresult
    <3>1. t \in Conclude(s, i)
      BY <1>2, <2>2 DEF Forward
    <3> QED
      BY <3>1, Zenon DEF Told
  <2> QED
    BY <2>1, <2>2
<1>3. CASE ~s.dmp[i].chunker
  <2>1. CASE s.taper.dumper = i /\ s.taper.result # None
    <3>1. t \in DumperTaperResult(s)
      BY <1>3, <2>1 DEF Forward
    <3>2. s.taper.mode = "dump"
      BY <1>0, <1>1, <1>3 DEF TaperLinks
    <3> QED
      BY <3>1, <3>2
  <2>2. CASE ~(s.taper.dumper = i /\ s.taper.result # None)
    BY <1>3, <2>2 DEF Forward
  <2> QED
    BY <2>1, <2>2
<1> QED
  BY <1>2, <1>3

LEMMA ToldGood ==
    ASSUME NEW s, NEW c, Good(s, c), NEW i \in Dumpers, NEW t, Told(s, t, i)
    PROVE  Good(t, c)
BY TellGood DEF Told

\* Neither breaks the invariant.
LEMMA ForwardGood ==
    ASSUME NEW s, NEW c, Good(s, c), NEW i \in Dumpers, s.dmp[i].busy \/ s.dmp[i].result # None,
           NEW t \in Forward(s, i)
    PROVE  Good(t, c) \/ Stopped(t)
<1>1. ASSUME NEW u, Told(s, u, i), t \in Conclude(u, i) PROVE Good(t, c) \/ Stopped(t)
  BY <1>1, ToldGood, ConcludeGood
<1>2. CASE s.taper.mode = "dump" /\ t \in DumperTaperResult(s)
  BY <1>2, DumperTaperResultGood
<1> QED
  BY <1>1, <1>2, ForwardIs

-----------------------------------------------------------------------------
(* The messages of a chunker.                                              *)

Left(s, c) == Good(s, c) \/ Stopped(s)

\* The last part of a dump is written.
LEMMA ChunkEofIs ==
    ASSUME NEW c, Good(drv, c), NEW i \in Dumpers, NEW n, ChunkEof(i, n)
    PROVE  \E s : Good(s, c) /\ Stops(drv, s, i, n) /\ Told(s, drv', i)
<1> DEFINE w == drv.chk[i].wrote + n
           ch == [drv.chk[i] EXCEPT !.wrote = w, !.use = 0, !.proc = "status"]
           dh == [drv.chk[i] EXCEPT !.wrote = w, !.use = 0, !.proc = "status", !.sendresult = TRUE]
           s == [drv EXCEPT !.chk[i] = ch]
           t == [drv EXCEPT !.chk[i] = dh]
<1>0. Shape(drv) /\ drv.chk[i].proc = "writing"
  BY DEF Good, Inv, ChunkEof
<1>1. drv' = IF s.dmp[i].result = None THEN [s EXCEPT !.chk[i].sendresult = TRUE] ELSE Tell(s, i)
  <2> DEFINE u == [drv EXCEPT !.chk[i].wrote = w, !.chk[i].use = 0, !.chk[i].proc = "status"]
  <2>1. u = s
    <3> HIDE DEF w
    <3> QED
      BY <1>0, Shaped, ZenonT(40) DEF Fields, ChunkerFields
  <2>2. drv' = IF u.dmp[i].result = None THEN [u EXCEPT !.chk[i].sendresult = TRUE] ELSE Tell(u, i)
    BY DEF ChunkEof
  <2> HIDE DEF u, s
  <2> QED
    BY <2>1, <2>2
<1>2. [s EXCEPT !.chk[i].sendresult = TRUE] = t
  <2> HIDE DEF w
  <2> QED
    BY <1>0, Shaped, ZenonT(40) DEF Fields, ChunkerFields
<1>3. /\ DOMAIN ch = ChunkerFields /\ ch.proc = "status" /\ ch.wrote = w /\ ch.use = 0
      /\ DOMAIN dh = ChunkerFields /\ dh.proc = "status" /\ dh.wrote = w /\ dh.use = 0
  <2> HIDE DEF w
  <2> QED
    BY <1>0, Shaped DEF ChunkerFields
<1> HIDE DEF ch, dh
<1>4. ChunkerIn(drv, s, i, ch)
  BY <1>0, OnlyChunker
<1>4a. ChunkerIn(drv, t, i, dh)
  BY <1>0, OnlyChunker
<1> HIDE DEF s, t
<1>5. Good(s, c) /\ s.chk[i] = ch
  <2>1. ch.proc \notin {None, "room", "writing", "dead"} /\ drv.chk[i].proc \notin {None, "room", "dead"}
    BY <1>0, <1>3 DEF None
  <2>2. DOMAIN ch = ChunkerFields
    BY <1>3
  <2>3. Good(s, c)
    BY <1>4, <2>1, <2>2, ChunkerGood
  <2>4. s.chk[i] = ch
    BY <1>0, <1>4, Shaped DEF ChunkerIn
  <2> QED
    BY <2>3, <2>4
<1>5a. Good(t, c)
  <2>1. dh.proc \notin {None, "room", "writing", "dead"} /\ drv.chk[i].proc \notin {None, "room", "dead"}
    BY <1>0, <1>3 DEF None
  <2>2. DOMAIN dh = ChunkerFields
    BY <1>3
  <2> QED
    BY <1>4a, <2>1, <2>2, ChunkerGood
<1>6. s.chk[i].proc \notin {None, "room"}
  BY <1>3, <1>5 DEF None
<1>7. Stops(drv, s, i, n) /\ Stops(drv, t, i, n)
  <2>1. ch.proc \notin {None, "room", "writing"} /\ dh.proc \notin {None, "room", "writing"}
    BY <1>3 DEF None
  <2> QED
    BY <1>3, <1>4, <1>4a, <2>1 DEF Stops
<1>8. drv' = t \/ drv' = Tell(s, i)
  BY <1>1, <1>2
<1> QED
  BY <1>5, <1>5a, <1>6, <1>7, <1>8, Zenon DEF Told

LEMMA ChunkEofGood ==
    ASSUME NEW c, Good(drv, c), NEW i \in Dumpers, NEW n, ChunkEof(i, n)
    PROVE  Good(drv', c)
BY ChunkEofIs, ToldGood

\* DONE, PARTIAL or FAILED of a chunker.
LEMMA ChunkAnswersIs ==
    ASSUME NEW c, Good(drv, c), NEW i \in Dumpers, NEW r, ChunkAnswers(i, r)
    PROVE  \E s : Good(s, c) /\ Stops(drv, s, i, 0) /\ drv' \in Conclude(s, i)
<1> DEFINE ch == [drv.chk[i] EXCEPT !.result = r, !.proc = "quit"]
           s == [drv EXCEPT !.chk[i] = ch]
<1>0. Shape(drv) /\ drv.chk[i].proc \in {"toldDONE", "toldFAILED"}
  BY DEF Good, Inv, ChunkAnswers
<1>1. drv' \in Conclude(s, i)
  <2>1. [drv EXCEPT !.chk[i].result = r, !.chk[i].proc = "quit"] = s
    BY <1>0, Shaped DEF Fields, ChunkerFields
  <2> QED
    BY <2>1 DEF ChunkAnswers, Becomes
<1>2. /\ DOMAIN ch = ChunkerFields /\ ch.proc = "quit"
      /\ ch.wrote = drv.chk[i].wrote /\ ch.use = drv.chk[i].use
  BY <1>0, Shaped DEF ChunkerFields
<1> HIDE DEF ch
<1>3. ChunkerIn(drv, s, i, ch)
  BY <1>0, OnlyChunker
<1> HIDE DEF s
<1>4. ch.proc \notin {None, "room", "writing", "dead"} /\ drv.chk[i].proc \notin {None, "room", "dead"}
  BY <1>0, <1>2 DEF None
<1>5. Good(s, c)
  BY <1>2, <1>3, <1>4, ChunkerGood
<1>6. Stops(drv, s, i, 0)
  BY <1>2, <1>3, <1>4 DEF Stops
<1> QED
  BY <1>1, <1>5, <1>6

LEMMA ChunkAnswersGood ==
    ASSUME NEW c, Good(drv, c), NEW i \in Dumpers, NEW r, ChunkAnswers(i, r)
    PROVE  Left(drv', c)
BY ChunkAnswersIs, ConcludeGood DEF Left

\* FAILED of a chunker that has had no header.
LEMMA ChunkNoHeaderIs ==
    ASSUME NEW c, Good(drv, c), NEW i \in Dumpers, ChunkNoHeader(i)
    PROVE  \E s : Good(s, c) /\ Stops(drv, s, i, 0) /\ drv' \in Conclude(s, i)
<1> DEFINE ch == [drv.chk[i] EXCEPT !.result = "FAILED", !.use = 0, !.proc = "quit"]
           s == [drv EXCEPT !.chk[i].result = "FAILED", !.chk[i].use = 0, !.chk[i].proc = "quit"]
<1>0. Shape(drv) /\ drv.chk[i].proc = "writing" /\ drv.chk[i].wrote = 0
  BY DEF Good, Inv, ChunkNoHeader
<1>1. drv' \in Conclude(s, i)
  BY DEF ChunkNoHeader, Becomes
<1>2. DOMAIN ch = ChunkerFields /\ ch.proc = "quit" /\ ch.wrote = 0 /\ ch.use = 0
  BY <1>0, Shaped DEF ChunkerFields
<1>3. [drv.chk EXCEPT ![i].result = "FAILED", ![i].use = 0, ![i].proc = "quit"]
            = [drv.chk EXCEPT ![i] = ch]
  BY <1>0, Shaped DEF ChunkerFields
<1>4. /\ DOMAIN s = Fields /\ SamePlaces(drv, s) /\ SameFlags(drv, s) /\ s.taper = drv.taper
      /\ s.current_tape = drv.current_tape /\ s.dmp = drv.dmp /\ s.sched = drv.sched
      /\ s.ha = drv.ha /\ s.deaths = drv.deaths
      /\ s.chk = [drv.chk EXCEPT ![i].result = "FAILED", ![i].use = 0, ![i].proc = "quit"]
  BY <1>0, Shaped DEF Fields, SamePlaces, SameFlags
<1> HIDE DEF s, ch
<1>5. ChunkerIn(drv, s, i, ch)
  BY <1>0, <1>3, <1>4, Shaped DEF ChunkerIn
<1>6. ch.proc \notin {None, "room", "writing", "dead"} /\ drv.chk[i].proc \notin {None, "room", "dead"}
  BY <1>0, <1>2 DEF None
<1>7. Good(s, c)
  BY <1>2, <1>5, <1>6, ChunkerGood
<1>8. Stops(drv, s, i, 0)
  BY <1>0, <1>2, <1>5, <1>6 DEF Stops
<1> QED
  BY <1>1, <1>7, <1>8

LEMMA ChunkNoHeaderGood ==
    ASSUME NEW c, Good(drv, c), NEW i \in Dumpers, ChunkNoHeader(i)
    PROVE  Left(drv', c)
BY ChunkNoHeaderIs, ConcludeGood DEF Left

\* ABORT-FINISHED of a chunker.
LEMMA ChunkAbortFinishedIs ==
    ASSUME NEW c, Good(drv, c), NEW i \in Dumpers, ChunkAbortFinished(i)
    PROVE  \E s : Good(s, c) /\ Stops(drv, s, i, 0) /\ drv' \in Conclude(s, i)
<1> DEFINE ch == [drv.chk[i] EXCEPT !.result = "ABORT-FINISHED", !.proc = "idle"]
           s == [drv EXCEPT !.chk[i] = ch]
<1>0. Shape(drv) /\ drv.chk[i].proc = "aborting"
  BY DEF Good, Inv, ChunkAbortFinished
<1>1. drv' \in Conclude(s, i)
  <2>1. [drv EXCEPT !.chk[i].result = "ABORT-FINISHED", !.chk[i].proc = "idle"] = s
    BY <1>0, Shaped DEF Fields, ChunkerFields
  <2> QED
    BY <2>1 DEF ChunkAbortFinished, Becomes
<1>2. /\ DOMAIN ch = ChunkerFields /\ ch.proc = "idle"
      /\ ch.wrote = drv.chk[i].wrote /\ ch.use = drv.chk[i].use
  BY <1>0, Shaped DEF ChunkerFields
<1> HIDE DEF ch
<1>3. ChunkerIn(drv, s, i, ch)
  BY <1>0, OnlyChunker
<1> HIDE DEF s
<1>4. ch.proc \notin {None, "room", "writing", "dead"} /\ drv.chk[i].proc \notin {None, "room", "dead"}
  BY <1>0, <1>2 DEF None
<1>5. Good(s, c)
  BY <1>2, <1>3, <1>4, ChunkerGood
<1>6. Stops(drv, s, i, 0)
  BY <1>2, <1>3, <1>4 DEF Stops
<1> QED
  BY <1>1, <1>5, <1>6

LEMMA ChunkAbortFinishedGood ==
    ASSUME NEW c, Good(drv, c), NEW i \in Dumpers, ChunkAbortFinished(i)
    PROVE  Left(drv', c)
BY ChunkAbortFinishedIs, ConcludeGood DEF Left

\* BOGUS of a chunker.
LEMMA ChunkDiesIs ==
    ASSUME NEW c, Good(drv, c), NEW i \in Dumpers, NEW n, ChunkDies(i, n)
    PROVE  \E s : Good(s, c) /\ Stops(drv, s, i, n) /\ drv' \in Conclude(s, i)
<1> DEFINE w == drv.chk[i].wrote + n
           k == drv.deaths + 1
           ch == [drv.chk[i] EXCEPT !.result = "BOGUS", !.use = 0, !.proc = "dead", !.wrote = w]
           s == [drv EXCEPT !.chk[i].result = "BOGUS", !.chk[i].use = 0, !.chk[i].proc = "dead",
                            !.chk[i].wrote = w, !.deaths = k]
<1>0. Shape(drv) /\ drv.chk[i].proc # None
  BY DEF Good, Inv, ChunkDies
<1>1. drv' \in Conclude(s, i)
  BY DEF ChunkDies, Becomes
<1>1a. k \in Nat /\ k > 0 /\ k >= drv.deaths
  BY <1>0, Shaped
<1> HIDE DEF w, k
<1>2. DOMAIN ch = ChunkerFields /\ ch.proc = "dead" /\ ch.wrote = w /\ ch.use = 0
  BY <1>0, Shaped DEF ChunkerFields
<1>3. [drv.chk EXCEPT ![i].result = "BOGUS", ![i].use = 0, ![i].proc = "dead", ![i].wrote = w]
            = [drv.chk EXCEPT ![i] = ch]
  BY <1>0, Shaped DEF ChunkerFields
<1>4. /\ DOMAIN s = Fields /\ SamePlaces(drv, s) /\ SameFlags(drv, s) /\ s.taper = drv.taper
      /\ s.current_tape = drv.current_tape /\ s.dmp = drv.dmp /\ s.sched = drv.sched
      /\ s.ha = drv.ha
      /\ s.chk = [drv.chk EXCEPT ![i].result = "BOGUS", ![i].use = 0, ![i].proc = "dead",
                                 ![i].wrote = w]
      /\ s.deaths = k
  BY <1>0, Shaped DEF Fields, SamePlaces, SameFlags
<1> HIDE DEF s, ch
<1>5. ChunkerIn(drv, s, i, ch) /\ s.deaths > 0
  BY <1>1a, <1>3, <1>4 DEF ChunkerIn
<1>6. ch.proc \notin {None, "room", "writing"}
  BY <1>2 DEF None
<1>7. Good(s, c)
  BY <1>0, <1>2, <1>5, <1>6, ChunkerGood
<1>8. Stops(drv, s, i, n)
  BY <1>2, <1>5, <1>6 DEF Stops, w
<1> QED
  BY <1>1, <1>7, <1>8

LEMMA ChunkDiesGood ==
    ASSUME NEW c, Good(drv, c), NEW i \in Dumpers, NEW n, ChunkDies(i, n)
    PROVE  Left(drv', c)
BY ChunkDiesIs, ConcludeGood DEF Left

-----------------------------------------------------------------------------
(* The messages of a dumper, and the start of the taper.                   *)

\* Dumper i becomes nd.
DumperIn(s, t, i, nd) ==
    /\ DOMAIN t = Fields /\ SamePlaces(s, t) /\ SameFlags(s, t) /\ t.taper = s.taper
    /\ t.current_tape = s.current_tape /\ t.chk = s.chk /\ t.sched = s.sched /\ t.ha = s.ha
    /\ t.dmp = [s.dmp EXCEPT ![i] = nd] /\ t.deaths \in Nat /\ t.deaths >= s.deaths

\* A dumper's record becomes nd while it has its dump.
LEMMA DumperGood ==
    ASSUME NEW s, NEW c, Good(s, c), NEW i \in Dumpers, Engaged(s, i),
           NEW nd, DOMAIN nd = DumperFields, nd.dp = s.dmp[i].dp, nd.chunker = s.dmp[i].chunker,
           nd.busy \/ nd.down, NEW t, DumperIn(s, t, i, nd)
    PROVE  Good(t, c)
<1>0. Shape(s) /\ RoomLinks(s)
  BY DEF Good, Inv
<1>1. DOMAIN t.dmp = Dumpers /\ t.dmp[i] = nd /\ \A j \in Dumpers : j # i => t.dmp[j] = s.dmp[j]
  BY <1>0, Shaped DEF DumperIn
<1>2. \A j \in Dumpers : DOMAIN t.dmp[j] = DumperFields
  BY <1>0, <1>1, Shaped
<1>3. Shape(t)
  BY <1>0, <1>1, <1>2, Shaped DEF Shape, DumperIn, SamePlaces
<1>4. s.chk[i].proc = "dead" => t.deaths > 0
  BY <1>0, Shaped DEF RoomLinks, DumperIn
<1>5. s.chk[i].proc \in {None, "room", "writing"} => s.chk[i].result = None /\ s.chk[i].sendresult = FALSE
  BY <1>0 DEF RoomLinks
<1>6. ChildSteps(s, t, i)
  BY <1>1, <1>4, <1>5 DEF ChildSteps, DumperIn
<1> QED
  BY <1>3, <1>6, ChildStepGood DEF DumperIn

\* Dumper i says something of its dump, which has the same chunker.
Says(s, t, i) ==
    \E nd : DumperIn(s, t, i, nd) /\ nd.dp = s.dmp[i].dp /\ nd.chunker = s.dmp[i].chunker
Answered(s, i) == s.dmp[i].busy \/ s.dmp[i].result # None

\* DONE or FAILED of a dumper.
LEMMA DumperResultIs ==
    ASSUME NEW c, Good(drv, c), NEW i \in Dumpers, NEW r, DumperResult(i, r)
    PROVE  \E s : Good(s, c) /\ Says(drv, s, i) /\ Answered(s, i) /\ drv' \in Forward(s, i)
<1> DEFINE nd == [drv.dmp[i] EXCEPT !.result = r]
           s == [drv EXCEPT !.dmp[i].result = r]
<1>0. Shape(drv) /\ DumperLinks(drv) /\ drv.dmp[i].busy
  BY DEF Good, Inv, DumperResult
<1>1. drv' \in Forward(s, i)
  BY DEF DumperResult, Becomes
<1>2. Engaged(drv, i)
  BY <1>0 DEF DumperLinks
<1>3. /\ DOMAIN nd = DumperFields /\ nd.dp = drv.dmp[i].dp /\ nd.chunker = drv.dmp[i].chunker
      /\ nd.busy = drv.dmp[i].busy
  <2>1. Shape(drv)
    BY <1>0
  <2> QED
    BY <2>1, Shaped DEF DumperFields
<1>4. DumperIn(drv, s, i, nd)
  BY <1>0, Shaped DEF DumperIn, Fields, SamePlaces, SameFlags
<1> HIDE DEF nd, s
<1>5. Good(s, c)
  BY <1>0, <1>2, <1>3, <1>4, DumperGood
<1>6. s.dmp[i].busy
  <2>1. s.dmp[i] = nd
    BY <1>0, <1>4, Shaped DEF DumperIn
  <2> QED
    BY <2>1, <1>0, <1>3
<1>7. Says(drv, s, i)
  BY <1>3, <1>4 DEF Says
<1> QED
  BY <1>1, <1>5, <1>6, <1>7 DEF Answered

LEMMA DumperResultGood ==
    ASSUME NEW c, Good(drv, c), NEW i \in Dumpers, NEW r, DumperResult(i, r)
    PROVE  Left(drv', c)
BY DumperResultIs, ForwardGood DEF Left, Answered

\* BOGUS of a dumper.
LEMMA DumperDiesIs ==
    ASSUME NEW c, Good(drv, c), NEW i \in Dumpers, DumperDies(i)
    PROVE  \E s : Good(s, c) /\ Says(drv, s, i) /\ Answered(s, i) /\ drv' \in Forward(s, i)
<1> DEFINE nd == [drv.dmp[i] EXCEPT !.busy = FALSE, !.down = TRUE, !.result = "BOGUS"]
           k == drv.deaths + 1
           s == [drv EXCEPT !.dmp[i] = nd, !.deaths = k]
<1>0. Shape(drv) /\ DumperLinks(drv) /\ drv.dmp[i].busy
  BY DEF Good, Inv, DumperDies
<1>1. drv' \in Forward(s, i)
  BY DEF DumperDies, Becomes
<1>2. Engaged(drv, i)
  BY <1>0 DEF DumperLinks
<1>3. /\ DOMAIN nd = DumperFields /\ nd.dp = drv.dmp[i].dp /\ nd.chunker = drv.dmp[i].chunker
      /\ nd.down = TRUE /\ nd.result = "BOGUS"
  BY <1>0, Shaped DEF DumperFields
<1>4. k \in Nat /\ k >= drv.deaths
  BY <1>0, Shaped
<1> HIDE DEF nd, k
<1>5. DumperIn(drv, s, i, nd)
  BY <1>0, <1>4, Shaped DEF DumperIn, Fields, SamePlaces, SameFlags
<1> HIDE DEF s
<1>6. Good(s, c)
  BY <1>2, <1>3, <1>5, DumperGood
<1>7. s.dmp[i].result # None
  <2>1. s.dmp[i] = nd
    BY <1>0, <1>5, Shaped DEF DumperIn
  <2> QED
    BY <2>1, <1>3 DEF None
<1>8. Says(drv, s, i)
  BY <1>3, <1>5 DEF Says
<1> QED
  BY <1>1, <1>6, <1>7, <1>8 DEF Answered

LEMMA DumperDiesGood ==
    ASSUME NEW c, Good(drv, c), NEW i \in Dumpers, DumperDies(i)
    PROVE  Left(drv', c)
BY DumperDiesIs, ForwardGood DEF Left, Answered

\* The taper.  It does not change what it does, or starts, or stops before it started.
TaperIn(s, t) ==
    /\ DOMAIN t = Fields /\ SameFlags(s, t)
    /\ t.runq = s.runq /\ t.directq = s.directq /\ t.tapeq = s.tapeq /\ t.roomq = s.roomq
    /\ t.inprogress = s.inprogress /\ t.input = s.input /\ t.outcome = s.outcome
    /\ t.dmp = s.dmp /\ t.chk = s.chk /\ t.sched = s.sched /\ t.ha = s.ha
    /\ DOMAIN t.taper = TaperFields /\ t.taper.disk = s.taper.disk /\ t.taper.dumper = s.taper.dumper
    /\ \/ t.taper.mode = s.taper.mode
       \/ s.taper.mode = "init" /\ t.taper.mode \in {"idle", "down"}
    /\ t.deaths \in Nat /\ t.deaths >= s.deaths

\* The taper changes none of its duties.
LEMMA TaperGood ==
    ASSUME NEW s, NEW c, Good(s, c), NEW t, TaperIn(s, t)
    PROVE  Good(t, t.current_tape)
<1>0. Inv(s) /\ Shape(s) /\ Queues(s) /\ Placed(s) /\ Inputs(s)
      /\ DumperLinks(s) /\ RoomLinks(s) /\ TaperLinks(s) /\ Live(s)
  BY DEF Good, Inv
<1>1. Shape(t)
  BY <1>0, Shaped DEF Shape, TaperIn
<1>2. Flushing(t) = Flushing(s)
  BY DEF Flushing, TaperIn
<1>3. Queues(t) /\ Placed(t) /\ Inputs(t)
  <2>1. Queues(t)
    BY <1>0, <1>2 DEF TaperIn, Queues
  <2>2. Placed(t)
    BY <1>0, <1>2, Zenon DEF TaperIn, Placed, Apart, Held
  <2>3. Inputs(t)
    BY <1>0 DEF TaperIn, Inputs
  <2> QED
    BY <2>1, <2>2, <2>3
<1>4. \A i \in Dumpers : Engaged(t, i) <=> Engaged(s, i)
  BY Zenon DEF Engaged, TaperIn
<1>5. DumperLinks(t)
  BY <1>0, <1>4, ZenonT(40) DEF DumperLinks, TaperIn
<1>6. RoomLinks(t)
  <2>1. s.deaths > 0 => t.deaths > 0
    BY <1>0, Shaped DEF TaperIn
  <2> QED
    BY <1>0, <2>1, Zenon DEF RoomLinks, TaperIn
<1>7. TaperLinks(t)
  <2>1. CASE t.taper.mode = s.taper.mode
    BY <1>0, <1>4, <2>1, Zenon DEF TaperLinks, TaperIn
  <2>2. CASE s.taper.mode = "init" /\ t.taper.mode \in {"idle", "down"}
    BY <1>0, <1>4, <2>2 DEF TaperLinks, TaperIn
  <2> QED
    BY <2>1, <2>2 DEF TaperIn
<1> QED
  BY <1>0, <1>1, <1>3, <1>5, <1>6, <1>7 DEF Inv, Good, SameFlags, Live, TaperIn

\* The taper says something, and changes none of its duties.
TaperSays(s, t) == TaperIn(s, t) /\ t.current_tape = s.current_tape

LEMMA TaperSaysGood ==
    ASSUME NEW s, NEW c, Good(s, c), NEW t, TaperSays(s, t)
    PROVE  Good(t, c)
BY TaperGood DEF TaperSays, Good

\* TAPER-OK.
LEMMA TaperOkIs ==
    ASSUME Shape(drv), TaperOk
    PROVE  \E s : TaperSays(drv, s) /\ drv' \in RescheduleAll(Reschedule(s))
<1> DEFINE s == [drv EXCEPT !.taper_started = TRUE, !.taper.mode = "idle"]
<1>0. Shape(drv) /\ drv.taper.mode = "init"
  BY DEF TaperOk
<1>1. drv' \in RescheduleAll(Reschedule(s))
  BY DEF TaperOk, Becomes
<1>2. /\ DOMAIN s = Fields /\ SameFlags(drv, s)
      /\ s.runq = drv.runq /\ s.directq = drv.directq /\ s.tapeq = drv.tapeq /\ s.roomq = drv.roomq
      /\ s.inprogress = drv.inprogress /\ s.input = drv.input /\ s.outcome = drv.outcome
      /\ s.dmp = drv.dmp /\ s.chk = drv.chk /\ s.sched = drv.sched /\ s.deaths = drv.deaths
      /\ s.ha = drv.ha /\ s.taper = [drv.taper EXCEPT !.mode = "idle"] /\ s.current_tape = drv.current_tape
  BY <1>0, Shaped DEF Fields, SameFlags
<1> HIDE DEF s
<1>3. TaperIn(drv, s)
  BY <1>0, <1>2, Shaped DEF TaperIn, TaperFields
<1> QED
  BY <1>1, <1>2, <1>3 DEF TaperSays

LEMMA TaperOkGood ==
    ASSUME NEW c, Good(drv, c), TaperOk
    PROVE  Good(drv', c)
<1>1. PICK s : TaperSays(drv, s) /\ drv' \in RescheduleAll(Reschedule(s))
  BY TaperOkIs DEF Good, Inv
<1>2. \A t \in Reschedule(s) : Good(t, c)
  BY <1>1, TaperSaysGood, RescheduleGood
<1> QED
  BY <1>1, <1>2, RescheduleAllGood

\* TAPE-ERROR at the start.
LEMMA TapeErrorIs ==
    ASSUME Shape(drv), TapeError
    PROVE  \E s : /\ TaperSays(drv, s)
                  /\ drv' \in RescheduleAll(StartSomeDumps(StartDegradedMode(s)))
<1> DEFINE s == [drv EXCEPT !.taper_started = TRUE, !.need_degraded = TRUE,
                            !.taper.mode = "down", !.taper.done = TRUE]
<1>0. Shape(drv) /\ drv.taper.mode = "init"
  BY DEF TapeError
<1>1. drv' \in RescheduleAll(StartSomeDumps(StartDegradedMode(s)))
  BY DEF TapeError, Becomes
<1>2. /\ DOMAIN s = Fields /\ SameFlags(drv, s)
      /\ s.runq = drv.runq /\ s.directq = drv.directq /\ s.tapeq = drv.tapeq /\ s.roomq = drv.roomq
      /\ s.inprogress = drv.inprogress /\ s.input = drv.input /\ s.outcome = drv.outcome
      /\ s.dmp = drv.dmp /\ s.chk = drv.chk /\ s.sched = drv.sched /\ s.deaths = drv.deaths
      /\ s.ha = drv.ha /\ s.taper = [drv.taper EXCEPT !.mode = "down", !.done = TRUE]
      /\ s.current_tape = drv.current_tape
  BY <1>0, Shaped DEF Fields, SameFlags
<1> HIDE DEF s
<1>3. TaperIn(drv, s)
  BY <1>0, <1>2, Shaped DEF TaperIn, TaperFields
<1> QED
  BY <1>1, <1>2, <1>3 DEF TaperSays

LEMMA TapeErrorGood ==
    ASSUME NEW c, Good(drv, c), TapeError
    PROVE  Good(drv', c)
<1>1. PICK s : /\ TaperSays(drv, s)
               /\ drv' \in RescheduleAll(StartSomeDumps(StartDegradedMode(s)))
  BY TapeErrorIs DEF Good, Inv
<1>2. Good(StartDegradedMode(s), c)
  BY <1>1, TaperSaysGood, StartDegradedModeGood
<1>3. \A t \in StartSomeDumps(StartDegradedMode(s)) : Good(t, c)
  BY <1>2, StartSomeDumpsGood
<1> QED
  BY <1>1, <1>3, RescheduleAllGood

-----------------------------------------------------------------------------
(* PORT of the taper, and the end of the taper's queue.                    *)

\* PORT of the taper, for a dump directly to tape.
LEMMA TaperPortIs ==
    ASSUME NEW c, Good(drv, c), TaperPort
    PROVE  \E u, s, k : /\ TaperSays(drv, u) /\ k \in Dumpers /\ Says(u, s, k) /\ Good(s, c)
                        /\ drv' \in Reschedule(DelayHost(s, drv.taper.disk))
<1> DEFINE k == drv.taper.dumper
           nt == [drv.taper EXCEPT !.port = TRUE]
           u == [drv EXCEPT !.taper = nt]
           nd == [drv.dmp[k] EXCEPT !.told = TRUE]
           s == [drv EXCEPT !.taper.port = TRUE, !.dmp[k].told = TRUE]
<1>0. Shape(drv) /\ drv.taper.mode = "dump" /\ drv.current_tape = c
      /\ DumperLinks(drv) /\ TaperLinks(drv)
  BY DEF Good, Inv, TaperPort
<1>1. drv' \in Reschedule(DelayHost(s, drv.taper.disk))
  BY DEF TaperPort, Becomes
<1>2. k \in Dumpers /\ Engaged(drv, k)
  BY <1>0 DEF DumperLinks, TaperLinks, Engaged
<1>3. drv.dmp[k].busy \/ drv.dmp[k].down
  BY <1>0, <1>2 DEF DumperLinks
<1>4. /\ DOMAIN nd = DumperFields /\ nd.dp = drv.dmp[k].dp /\ nd.chunker = drv.dmp[k].chunker
      /\ nd.busy = drv.dmp[k].busy /\ nd.down = drv.dmp[k].down
  <2>1. Shape(drv) /\ k \in Dumpers
    BY <1>0, <1>2
  <2> HIDE DEF k
  <2> QED
    BY <2>1, Shaped DEF DumperFields
<1>5. /\ DOMAIN nt = TaperFields /\ nt.disk = drv.taper.disk /\ nt.dumper = drv.taper.dumper
      /\ nt.mode = drv.taper.mode
  BY <1>0, Shaped DEF TaperFields
<1> HIDE DEF nt
<1>6. TaperSays(drv, u) /\ Good(u, c) /\ Shape(u) /\ u.dmp = drv.dmp /\ u.sched = drv.sched /\ u.inprogress = drv.inprogress
  <2>1. TaperIn(drv, u) /\ u.current_tape = c
    BY <1>0, <1>5, Shaped DEF TaperIn, Fields, SameFlags
  <2>2. u.dmp = drv.dmp /\ u.sched = drv.sched /\ u.inprogress = drv.inprogress
    BY <2>1 DEF TaperIn
  <2>3. Good(u, c)
    BY <2>1, TaperGood
  <2> QED
    BY <1>0, <2>1, <2>2, <2>3 DEF Good, Inv, TaperSays
<1>7. s = [u EXCEPT !.dmp[k] = nd]
  BY <1>0, <1>2, Shaped DEF Fields, TaperFields, DumperFields, nt
<1> HIDE DEF u
<1>8. DumperIn(u, s, k, nd)
  <2> HIDE DEF nd, s, k
  <2> QED
    BY <1>6, <1>7, Shaped DEF DumperIn, Fields, SamePlaces, SameFlags
<1>9. Engaged(u, k)
  BY <1>2, <1>6 DEF Engaged
<1>10. Good(s, c)
  <2>1. DOMAIN nd = DumperFields /\ nd.dp = u.dmp[k].dp /\ nd.chunker = u.dmp[k].chunker
        /\ (nd.busy \/ nd.down)
    BY <1>3, <1>4, <1>6
  <2> HIDE DEF nd, s, k
  <2> QED
    BY <2>1, <1>2, <1>6, <1>8, <1>9, DumperGood
<1>11. Says(u, s, k)
  BY <1>4, <1>6, <1>8 DEF Says
<1> QED
  BY <1>1, <1>2, <1>6, <1>10, <1>11

LEMMA TaperPortGood ==
    ASSUME NEW c, Good(drv, c), TaperPort
    PROVE  Good(drv', c)
BY TaperPortIs, DelayGood, RescheduleGood

KeepLoop == INSTANCE FoldFacts WITH op <- Keep

\* The loop that zaps tapeq, dump by dump.
LEMMA KeepRounds ==
    ASSUME NEW s, NEW q \in Seq(Dles)
    PROVE  \E f : /\ f[0] = s
                  /\ \A n \in 1..Len(q) : f[n] = Keep(f[n - 1], q[n])
                  /\ FoldLeft(Keep, s, q) = f[Len(q)]
<1>1. FoldLeft(Keep, s, q) = KeepLoop!Folded(s, q)
  BY DOMAIN q = 1..Len(q), Zenon DEF FoldLeft, MapThenFoldSet, Max, KeepLoop!Biggest,
     KeepLoop!Iterates, KeepLoop!Folded
<1> QED
  BY <1>1, KeepLoop!FoldRounds

\* The driver has parted with the dumps of D, and changed nothing else.
Kept(s, t, D) ==
    /\ t.runq = s.runq /\ t.directq = s.directq /\ t.tapeq = s.tapeq /\ t.roomq = s.roomq
    /\ t.dmp = s.dmp /\ t.chk = s.chk /\ t.inprogress = s.inprogress /\ t.input = s.input
    /\ t.taper = s.taper /\ t.ha = s.ha /\ t.deaths = s.deaths
    /\ \A e \in Dles : t.sched[e].dumper = s.sched[e].dumper
    /\ \A e \in Dles : t.outcome[e] = IF e \in D THEN "held" ELSE s.outcome[e]
    /\ SameFlags(s, t) /\ t.current_tape = s.current_tape

\* It parts with the dumps of the queue and with no other.
LEMMA KeepAll ==
    ASSUME NEW s, Shape(s), NEW q, Queue(q)
    PROVE  Shape(FoldLeft(Keep, s, q)) /\ Kept(s, FoldLeft(Keep, s, q), ToSet(q))
<1>0. q \in Seq(Dles) /\ Len(q) \in Nat /\ DOMAIN q = 1..Len(q)
  BY DEF Queue
<1>1. PICK f : /\ f[0] = s
               /\ \A n \in 1..Len(q) : f[n] = Keep(f[n - 1], q[n])
               /\ FoldLeft(Keep, s, q) = f[Len(q)]
  BY <1>0, KeepRounds
<1> DEFINE D(k) == {q[j] : j \in 1..k}
           Ok(k) == Shape(f[k]) /\ Kept(s, f[k], D(k))
           T == {k \in 0..Len(q) : Ok(k)}
<1>2. Ok(0)
  <2>1. \A e : e \notin D(0)
    OBVIOUS
  <2> HIDE DEF D
  <2> QED
    BY <1>1, <2>1 DEF Kept, SameFlags
<1>3. ASSUME NEW k \in 0..(Len(q) - 1), Ok(k) PROVE Ok(k + 1)
  <2>1. k + 1 \in 1..Len(q) /\ (k + 1) - 1 = k
    BY <1>0
  <2> DEFINE d == q[k + 1]
             u == f[k]
             v == f[k + 1]
  <2>2. v = Parted(u, d, "held") /\ d \in Dles
    <3>1. v = Keep(u, d) /\ d \in Dles
      BY <1>0, <1>1, <2>1
    <3> QED
      BY <3>1, Zenon DEF Keep
  <2>3. Shape(u) /\ Kept(s, u, D(k))
    BY <1>3
  <2>4. \A e : e \in D(k + 1) <=> e = d \/ e \in D(k)
    <3>1. \A j : j \in 1..(k + 1) <=> j = k + 1 \/ j \in 1..k
      OBVIOUS
    <3> QED
      BY <3>1, Zenon
  <2> HIDE DEF D, d, u
  <2>5. Shape(v) /\ PartedIn(u, v, d) /\ v.outcome[d] = "held"
    <3>1. LET t == Parted(u, d, "held")
          IN  /\ Shape(t) /\ PartedIn(u, t, d) /\ t.outcome[d] = "held"
      BY <2>2, <2>3, PartedFrame
    <3> QED
      BY <2>2, <3>1
  <2> HIDE DEF v
  <2>6. ASSUME NEW e \in Dles
        PROVE  /\ v.sched[e].dumper = s.sched[e].dumper
               /\ v.outcome[e] = IF e \in D(k + 1) THEN "held" ELSE s.outcome[e]
    BY <2>3, <2>4, <2>5 DEF Kept, PartedIn
  <2>7. Kept(s, v, D(k + 1))
    BY <2>3, <2>5, <2>6 DEF Kept, PartedIn, SameFlags
  <2> QED
    BY <2>5, <2>7 DEF v
<1>4. D(Len(q)) = ToSet(q)
  BY <1>0 DEF ToSet
<1> HIDE DEF Ok
<1>5. 0 \in T /\ \A k \in 0..(Len(q) - 1) : k \in T => k + 1 \in T
  <2>1. 0 \in 0..Len(q) /\ \A k \in 0..(Len(q) - 1) : k + 1 \in 0..Len(q)
    BY <1>0
  <2> QED
    BY <2>1, <1>2, <1>3, Zenon
<1> HIDE DEF T
<1>6. \A k \in 0..Len(q) : k \in T
  BY <1>0, <1>5, KeepLoop!UpTo
<1>7. Ok(Len(q))
  <2>1. Len(q) \in 0..Len(q)
    BY <1>0
  <2> QED
    BY <1>6, <2>1 DEF T
<1> HIDE DEF D
<1> QED
  BY <1>1, <1>4, <1>7 DEF Ok

\* Zapping tapeq keeps the invariant.
LEMMA ZapTapeqGood ==
    ASSUME NEW s, NEW c, Good(s, c)
    PROVE  Good(ZapTapeq(s), c)
<1> DEFINE u == FoldLeft(Keep, s, s.tapeq)
           t == [u EXCEPT !.tapeq = <<>>]
<1>0. Inv(s) /\ s.current_tape = c /\ Shape(s) /\ Queues(s) /\ Placed(s) /\ Inputs(s)
      /\ DumperLinks(s) /\ RoomLinks(s) /\ TaperLinks(s) /\ Live(s) /\ Queue(s.tapeq)
  BY DEF Good, Inv, Queues
<1>1. Shape(u) /\ Kept(s, u, ToSet(s.tapeq))
  BY <1>0, KeepAll
<1> HIDE DEF u
<1>2. /\ DOMAIN t = Fields /\ t.tapeq = <<>> /\ t.runq = u.runq /\ t.directq = u.directq
      /\ t.roomq = u.roomq /\ t.dmp = u.dmp /\ t.chk = u.chk /\ t.inprogress = u.inprogress
      /\ t.input = u.input /\ t.taper = u.taper /\ t.deaths = u.deaths /\ t.sched = u.sched
      /\ t.outcome = u.outcome /\ SameFlags(u, t) /\ t.current_tape = u.current_tape
  BY <1>1, Shaped DEF Fields, SameFlags
<1> HIDE DEF t
<1>3. Shape(t)
  BY <1>1, <1>2, Shaped DEF Shape
<1>4. /\ t.runq = s.runq /\ t.directq = s.directq /\ t.roomq = s.roomq
      /\ t.inprogress = s.inprogress /\ t.input = s.input /\ t.taper = s.taper
      /\ \A e \in Dles : t.outcome[e] = IF e \in ToSet(s.tapeq) THEN "held" ELSE s.outcome[e]
  BY <1>1, <1>2 DEF Kept
<1>5. Flushing(t) = Flushing(s) /\ Queue(t.tapeq) /\ ToSet(t.tapeq) = {}
  BY <1>2, <1>4, QueueEmpty DEF Flushing
<1>6. Queues(t)
  BY <1>0, <1>4, <1>5 DEF Queues
<1>7. Placed(t)
  <2>1. ASSUME NEW e \in Dles
        PROVE  Apart(t, e) /\ (t.outcome[e] = None <=> Held(t, e))
    <3>1. Apart(s, e) /\ (s.outcome[e] = None <=> Held(s, e))
      BY <1>0 DEF Placed
    <3>2. Apart(t, e)
      BY <3>1, <1>4, <1>5 DEF Apart
    <3>3. CASE e \in ToSet(s.tapeq)
      <4>1. t.outcome[e] # None
        BY <3>3, <1>4 DEF None
      <4>2. ~Held(t, e)
        BY <3>1, <3>3, <1>4, <1>5 DEF Apart, Held
      <4> QED
        BY <3>2, <4>1, <4>2
    <3>4. CASE e \notin ToSet(s.tapeq)
      BY <3>1, <3>2, <3>4, <1>4, <1>5 DEF Held
    <3> QED
      BY <3>3, <3>4
  <2> QED
    BY <2>1, <1>0, <1>4 DEF Placed
<1>8. Inputs(t)
  <2>1. \A e \in ToSet(s.tapeq) : e \in Dles /\ s.outcome[e] = None
    BY <1>0 DEF Placed, Held, Queue, ToSet
  <2>2. None # "unread" /\ ToSet(Schedule) \subseteq Dles
    BY DEF None, Dles
  <2> QED
    BY <2>1, <2>2, <1>0, <1>4 DEF Inputs
<1>9. DumperLinks(t) /\ RoomLinks(t) /\ TaperLinks(t)
  <2>1. SameChildren(s, t) /\ SameTaper(s, t)
    BY <1>1, <1>2 DEF SameChildren, SameTaper, Kept
  <2> QED
    BY <1>0, <1>4, <2>1, LinksKept
<1>10. Live(t) /\ t.current_tape = c
  BY <1>0, <1>1, <1>2 DEF Live, SameFlags, Kept
<1> QED
  BY <1>3, <1>6, <1>7, <1>8, <1>9, <1>10 DEF Inv, Good, ZapTapeq, t, u

-----------------------------------------------------------------------------
(* Tapes, and the results and the death of the taper.                      *)

\* A tape is asked for, loaded or refused.
TapeIs(s, x) == [s EXCEPT !.taper.tape = x]
TapeRefused(s) == [s EXCEPT !.taper.tape = "refused", !.taper.done = TRUE]

\* The state of the tape is not looked at by the invariant.
LEMMA TapeIsSays ==
    ASSUME NEW s, Shape(s), NEW x
    PROVE  TaperSays(s, TapeIs(s, x)) /\ TaperSays(s, TapeRefused(s))
<1> DEFINE t == TapeIs(s, x)
           u == TapeRefused(s)
<1>0. Shape(s)
  OBVIOUS
<1>1. TaperIn(s, t) /\ t.current_tape = s.current_tape
  BY <1>0, Shaped DEF TaperIn, Fields, TaperFields, SameFlags, TapeIs
<1>2. TaperIn(s, u) /\ u.current_tape = s.current_tape
  <2>1. /\ DOMAIN u = Fields /\ SameFlags(s, u)
        /\ u.runq = s.runq /\ u.directq = s.directq /\ u.tapeq = s.tapeq /\ u.roomq = s.roomq
        /\ u.inprogress = s.inprogress /\ u.input = s.input /\ u.outcome = s.outcome
        /\ u.dmp = s.dmp /\ u.chk = s.chk /\ u.sched = s.sched /\ u.deaths = s.deaths
        /\ u.ha = s.ha /\ u.taper = [s.taper EXCEPT !.tape = "refused", !.done = TRUE]
        /\ u.current_tape = s.current_tape
    BY <1>0, Shaped DEF Fields, SameFlags, TapeRefused
  <2> HIDE DEF u
  <2> QED
    BY <1>0, <2>1, Shaped DEF TaperIn, TaperFields
<1> QED
  BY <1>1, <1>2 DEF TaperSays

LEMMA TapeIsGood ==
    ASSUME NEW s, NEW c, Good(s, c), NEW x
    PROVE  Good(TapeIs(s, x), c) /\ Good(TapeRefused(s), c)
<1>1. Shape(s)
  BY DEF Good, Inv
<1> QED
  BY <1>1, TapeIsSays, TaperSaysGood

\* REQUEST-NEW-TAPE.
LEMMA TaperRequestsTapeGood ==
    ASSUME NEW c, Good(drv, c), TaperRequestsTape
    PROVE  Good(drv', c)
<1>1. CASE drv.taper.done
  <2>1. drv' \in Reschedule(TapeIs(drv, "refused"))
    BY <1>1 DEF TaperRequestsTape, Becomes, TapeIs
  <2> QED
    BY <2>1, TapeIsGood, RescheduleGood
<1>2. CASE ~drv.taper.done
  <2> DEFINE S == {IF drv.current_tape < RunTapes THEN TapeIs(s, "asked")
                   ELSE StartDegradedMode(TapeRefused(s)) : s \in StartSomeDumps(TapeIs(drv, None))}
  <2>1. drv' \in RescheduleAll(S)
    BY <1>2, Zenon DEF TaperRequestsTape, Becomes, TapeIs, TapeRefused
  <2>2. ASSUME NEW s \in StartSomeDumps(TapeIs(drv, None))
        PROVE  Good(TapeIs(s, "asked"), c) /\ Good(StartDegradedMode(TapeRefused(s)), c)
    <3>1. Good(s, c)
      BY TapeIsGood, StartSomeDumpsGood
    <3>2. Good(TapeIs(s, "asked"), c) /\ Good(TapeRefused(s), c)
      BY <3>1, TapeIsGood
    <3> QED
      BY <3>2, StartDegradedModeGood
  <2>3. \A s \in S : Good(s, c)
    BY <2>2
  <2> HIDE DEF S
  <2> QED
    BY <2>1, <2>3, RescheduleAllGood
<1> QED
  BY <1>1, <1>2

\* NEW-TAPE: one more tape.
LEMMA TaperNewTapeIs ==
    ASSUME NEW c \in Nat, Good(drv, c), TaperNewTape
    PROVE  \E s : TaperIn(drv, s) /\ s.current_tape = c + 1 /\ drv' \in Reschedule(s)
<1> DEFINE k == drv.current_tape + 1
           s == [drv EXCEPT !.taper.tape = "loaded", !.current_tape = k]
<1>0. Shape(drv) /\ drv.current_tape = c
  BY DEF Good, Inv
<1>1. drv' \in Reschedule(s)
  BY DEF TaperNewTape, Becomes
<1> HIDE DEF k
<1>2. TaperIn(drv, s) /\ s.current_tape = k
  BY <1>0, Shaped DEF TaperIn, Fields, TaperFields, SameFlags
<1> HIDE DEF s
<1> QED
  BY <1>0, <1>1, <1>2 DEF k

LEMMA TaperNewTapeGood ==
    ASSUME NEW c \in Nat, Good(drv, c), TaperNewTape
    PROVE  Good(drv', c + 1)
<1> DEFINE k == c + 1
<1>1. PICK s : TaperIn(drv, s) /\ s.current_tape = k /\ drv' \in Reschedule(s)
  BY TaperNewTapeIs
<1> HIDE DEF k
<1>2. Good(s, k)
  BY <1>1, TaperGood
<1>3. Good(drv', k)
  BY <1>1, <1>2, RescheduleGood
<1> QED
  BY <1>3 DEF k

\* NO-NEW-TAPE.
LEMMA TaperNoNewTapeGood ==
    ASSUME NEW c, Good(drv, c), TaperNoNewTape
    PROVE  Good(drv', c)
<1>1. drv' \in Reschedule(StartDegradedMode(TapeRefused(drv)))
  BY DEF TaperNoNewTape, Becomes, TapeRefused
<1>2. Good(TapeRefused(drv), c)
  BY TapeIsGood
<1>3. Good(StartDegradedMode(TapeRefused(drv)), c)
  BY <1>2, StartDegradedModeGood
<1> QED
  BY <1>1, <1>3, RescheduleGood

\* The taper's result is dealt with, unless the dumper's is missing.
TaperDealt(s, t) ==
    \/ t = s
    \/ s.taper.mode = "file" /\ t \in FileTaperResult(s)
    \/ s.taper.mode = "dump" /\ t \in DumperTaperResult(s)

LEMMA TaperDealtGood ==
    ASSUME NEW s, NEW c, Good(s, c), NEW t, TaperDealt(s, t)
    PROVE  Good(t, c)
BY FileTaperResultGood, DumperTaperResultGood DEF TaperDealt

\* DONE, PARTIAL or FAILED of the taper.
LEMMA TaperResultIs ==
    ASSUME Shape(drv), NEW r, NEW err, TaperResult(r, err)
    PROVE  \E s, S : /\ TaperSays(drv, s) /\ drv' \in RescheduleAll(S)
                     /\ \A t \in S : TaperDealt(s, t)
<1> DEFINE told == IF drv.taper.mode = "file" THEN "DONE" ELSE drv.dmp[drv.taper.dumper].result
           x == IF err = "tape" THEN None ELSE drv.taper.tape
           s == [drv EXCEPT !.taper.result = r, !.taper.err = err, !.taper.tape = x]
           S == IF drv.taper.mode = "file" THEN FileTaperResult(s)
                ELSE IF told # None THEN DumperTaperResult(s) ELSE {s}
<1>0. Shape(drv) /\ drv.taper.mode \in {"file", "dump"}
  BY DEF TaperResult, Writing
<1>1. drv' \in RescheduleAll(S)
  BY DEF TaperResult, Becomes
<1> HIDE DEF told, x
<1>2. TaperIn(drv, s) /\ s.current_tape = drv.current_tape /\ s.taper.mode = drv.taper.mode
  <2>1. /\ DOMAIN s = Fields /\ SameFlags(drv, s)
        /\ s.runq = drv.runq /\ s.directq = drv.directq /\ s.tapeq = drv.tapeq /\ s.roomq = drv.roomq
        /\ s.inprogress = drv.inprogress /\ s.input = drv.input /\ s.outcome = drv.outcome
        /\ s.dmp = drv.dmp /\ s.chk = drv.chk /\ s.sched = drv.sched /\ s.deaths = drv.deaths
        /\ s.ha = drv.ha /\ s.taper = [drv.taper EXCEPT !.result = r, !.err = err, !.tape = x]
        /\ s.current_tape = drv.current_tape
    BY <1>0, Shaped DEF Fields, SameFlags
  <2> HIDE DEF s
  <2> QED
    BY <1>0, <2>1, Shaped DEF TaperIn, TaperFields
<1> HIDE DEF s
<1>3. ASSUME NEW t \in S PROVE TaperDealt(s, t)
  <2>1. CASE drv.taper.mode = "file"
    BY <2>1, <1>2 DEF TaperDealt
  <2>2. CASE drv.taper.mode # "file" /\ told # None
    BY <2>2, <1>0, <1>2 DEF TaperDealt
  <2>3. CASE drv.taper.mode # "file" /\ told = None
    BY <2>3 DEF TaperDealt
  <2> QED
    BY <2>1, <2>2, <2>3
<1> HIDE DEF S
<1> QED
  BY <1>1, <1>2, <1>3 DEF TaperSays

LEMMA TaperResultGood ==
    ASSUME NEW c, Good(drv, c), NEW r, NEW err, TaperResult(r, err)
    PROVE  Good(drv', c)
<1>1. PICK s, S : /\ TaperSays(drv, s) /\ drv' \in RescheduleAll(S)
                  /\ \A t \in S : TaperDealt(s, t)
  BY TaperResultIs DEF Good, Inv
<1>2. \A t \in S : Good(t, c)
  BY <1>1, TaperSaysGood, TaperDealtGood
<1> QED
  BY <1>1, <1>2, RescheduleAllGood

\* What the driver does then with tapeq, before it degrades the schedule.
Zapped(s) == [ZapTapeq(s) EXCEPT !.need_degraded = TRUE]

LEMMA ZappedSeen ==
    ASSUME NEW s, Shape(ZapTapeq(s))
    PROVE  Seen(ZapTapeq(s), Zapped(s))
<1> DEFINE z == ZapTapeq(s)
           v == [z EXCEPT !.need_degraded = TRUE]
<1>1. v = Zapped(s)
  BY DEF Zapped
<1> HIDE DEF z
<1>2. Seen(z, v)
  BY Shaped DEF Seen, Fields, z
<1> QED
  BY <1>1, <1>2 DEF z

\* BOGUS of the taper.
LEMMA TaperDiesIs ==
    ASSUME Shape(drv), TaperDies
    PROVE  \E s, U : /\ TaperSays(drv, s) /\ \A t \in U : TaperDealt(s, t)
                     /\ drv' \in RescheduleAll({StartDegradedMode(Zapped(t)) : t \in U})
<1> DEFINE x == IF drv.taper.disk = None THEN drv.taper.result ELSE "BOGUS"
           y == IF drv.taper.disk = None THEN drv.taper.err ELSE "tape"
           k == drv.deaths + 1
           s == [drv EXCEPT !.taper_started = TRUE, !.taper.alive = FALSE, !.deaths = k,
                            !.taper.result = x, !.taper.err = y]
           U == IF drv.taper.mode = "file" THEN FileTaperResult(s)
                ELSE IF drv.taper.mode = "dump" /\ drv.dmp[drv.taper.dumper].result # None
                THEN DumperTaperResult(s)
                ELSE {s}
           S == {StartDegradedMode(Zapped(t)) : t \in U}
<1>0. Shape(drv)
  OBVIOUS
<1>1. drv' \in RescheduleAll(S)
  BY DEF TaperDies, Becomes, Zapped
<1>2. k \in Nat /\ k >= drv.deaths
  BY <1>0, Shaped
<1> HIDE DEF x, y, k
<1>3. TaperIn(drv, s) /\ s.current_tape = drv.current_tape /\ s.taper.mode = drv.taper.mode
  <2>1. /\ DOMAIN s = Fields /\ SameFlags(drv, s)
        /\ s.runq = drv.runq /\ s.directq = drv.directq /\ s.tapeq = drv.tapeq /\ s.roomq = drv.roomq
        /\ s.inprogress = drv.inprogress /\ s.input = drv.input /\ s.outcome = drv.outcome
        /\ s.dmp = drv.dmp /\ s.chk = drv.chk /\ s.sched = drv.sched /\ s.deaths = k
        /\ s.ha = drv.ha /\ s.taper = [drv.taper EXCEPT !.alive = FALSE, !.result = x, !.err = y]
        /\ s.current_tape = drv.current_tape
    BY <1>0, Shaped DEF Fields, SameFlags
  <2> HIDE DEF s
  <2> QED
    BY <1>0, <1>2, <2>1, Shaped DEF TaperIn, TaperFields
<1> HIDE DEF s
<1>4. ASSUME NEW t \in U PROVE TaperDealt(s, t)
  BY <1>3 DEF TaperDealt
<1> HIDE DEF U
<1> QED
  BY <1>1, <1>3, <1>4 DEF TaperSays

LEMMA TaperDiesGood ==
    ASSUME NEW c, Good(drv, c), TaperDies
    PROVE  Good(drv', c)
<1>1. PICK s, U : /\ TaperSays(drv, s) /\ \A t \in U : TaperDealt(s, t)
                  /\ drv' \in RescheduleAll({StartDegradedMode(Zapped(t)) : t \in U})
  BY TaperDiesIs DEF Good, Inv
<1>2. ASSUME NEW t \in U PROVE Good(StartDegradedMode(Zapped(t)), c)
  <2>1. Good(ZapTapeq(t), c)
    BY <1>1, TaperSaysGood, TaperDealtGood, ZapTapeqGood
  <2>2. Shape(ZapTapeq(t))
    BY <2>1 DEF Good, Inv
  <2>3. Good(Zapped(t), c)
    BY <2>1, <2>2, ZappedSeen, SeenGood
  <2> QED
    BY <2>3, StartDegradedModeGood
<1>3. \A t \in {StartDegradedMode(Zapped(u)) : u \in U} : Good(t, c)
  BY <1>2
<1> QED
  BY <1>1, <1>3, RescheduleAllGood

-----------------------------------------------------------------------------
(* RQ-MORE-DISK.                                                           *)

\* Dump d waits for room.
WaitsForRoom(s, d) == [s EXCEPT !.roomq = Append(@, d)]

\* A dump whose chunker waits for room goes to roomq.
LEMMA WaitsForRoomGood ==
    ASSUME NEW s, NEW c, Good(s, c), NEW i \in Dumpers, NEW d, d = s.dmp[i].dp,
           s.chk[i].proc = "room", d \notin ToSet(s.roomq), NEW t, t = WaitsForRoom(s, d)
    PROVE  Good(t, c)
<1>0. Inv(s) /\ s.current_tape = c /\ Shape(s) /\ Queues(s) /\ Placed(s) /\ Inputs(s)
      /\ DumperLinks(s) /\ RoomLinks(s) /\ TaperLinks(s) /\ Live(s)
  BY DEF Good, Inv
<1>1. Engaged(s, i) /\ s.dmp[i].chunker /\ d \in s.inprogress /\ d \in Dles /\ s.sched[d].dumper = i
  BY ChunkerAtWork DEF None
<1>2. /\ DOMAIN t = Fields /\ t.roomq = Append(s.roomq, d)
      /\ t.runq = s.runq /\ t.directq = s.directq /\ t.tapeq = s.tapeq
      /\ t.inprogress = s.inprogress /\ t.input = s.input /\ t.outcome = s.outcome
      /\ t.dmp = s.dmp /\ t.chk = s.chk /\ t.sched = s.sched /\ t.taper = s.taper
      /\ t.deaths = s.deaths /\ SameFlags(s, t) /\ t.current_tape = s.current_tape
  BY <1>0, Shaped DEF Fields, SameFlags, WaitsForRoom
<1>3. Shape(t)
  BY <1>0, <1>2, Shaped DEF Shape
<1>4. Queue(t.roomq) /\ ToSet(t.roomq) = ToSet(s.roomq) \cup {d}
  BY <1>0, <1>1, <1>2, QueueAppend DEF Queues
<1>5. Flushing(t) = Flushing(s)
  BY <1>2 DEF Flushing
<1>6. Queues(t)
  BY <1>0, <1>1, <1>2, <1>4, <1>5 DEF Queues
<1>7. Placed(t)
  BY <1>0, <1>2, <1>5, Zenon DEF Placed, Apart, Held
<1>8. Inputs(t)
  BY <1>0, <1>2 DEF Inputs
<1>9. \A j \in Dumpers : Engaged(t, j) <=> Engaged(s, j)
  BY <1>2, Zenon DEF Engaged
<1>10. DumperLinks(t) /\ TaperLinks(t)
  <2>0. /\ t.dmp = s.dmp /\ t.chk = s.chk /\ t.sched = s.sched
        /\ t.inprogress = s.inprogress /\ t.taper = s.taper
    BY <1>2
  <2>1. DumperLinks(t)
    <3>1. \A e \in s.inprogress : s.sched[e].dumper \in Dumpers /\ s.dmp[s.sched[e].dumper].dp = e
      BY <1>0, Zenon DEF DumperLinks
    <3>2. \A j \in Dumpers :
            /\ Engaged(s, j) => s.dmp[j].busy \/ s.dmp[j].down
            /\ ~Engaged(s, j) => ~s.dmp[j].busy /\ s.dmp[j].result = None /\ s.chk[j] = NoChunker
      BY <1>0, Zenon DEF DumperLinks
    <3> QED
      BY <3>1, <3>2, <2>0, <1>9 DEF DumperLinks
  <2>2. TaperLinks(t)
    BY <1>0, <2>0, <1>9, Zenon DEF TaperLinks
  <2> QED BY <2>1, <2>2
<1>11. RoomLinks(t)
  <2>0. t.dmp = s.dmp /\ t.chk = s.chk /\ t.sched = s.sched /\ t.deaths = s.deaths
    BY <1>2
  <2>1. ASSUME NEW e \in ToSet(t.roomq)
        PROVE  s.chk[s.sched[e].dumper].proc \in {"room", "dead"} /\ s.dmp[s.sched[e].dumper].chunker
    <3>1. CASE e = d
      BY <3>1, <1>1
    <3>2. CASE e # d
      BY <3>2, <2>1, <1>0, <1>4 DEF RoomLinks
    <3> QED
      BY <3>1, <3>2
  <2> QED
    BY <2>0, <2>1, <1>0, Zenon DEF RoomLinks
<1> QED
  BY <1>0, <1>2, <1>3, <1>6, <1>7, <1>8, <1>10, <1>11 DEF Inv, Good, SameFlags, Live

\* CONTINUE for a dump that is not in roomq.
LEMMA ContinueGood ==
    ASSUME NEW s, NEW c, Good(s, c), NEW i \in Dumpers, NEW d \in Dles, d = s.dmp[i].dp,
           s.chk[i].proc = "room", d \notin ToSet(s.roomq), NEW t, t = Continue(s, i, d)
    PROVE  Good(t, c)
<1>0. Shape(s) /\ Queues(s)
  BY DEF Good, Inv
<1>1. /\ Shape(t) /\ Beside(s, t) /\ t.roomq = s.roomq /\ t.sched = s.sched
      /\ \A j \in Dumpers : j # i => t.chk[j] = s.chk[j]
      /\ t.chk[i].result = s.chk[i].result /\ t.chk[i].sendresult = s.chk[i].sendresult
      /\ s.chk[i].proc # "room" => t.chk[i] = s.chk[i]
      /\ s.chk[i].proc = "room" => t.chk[i].proc = "writing"
  BY <1>0, ContinueFrame
<1>2. Resumed(s, t, i)
  <2>1. s.chk[i] # NoChunker
    BY DEF NoChunker, None
  <2> QED
    BY <1>1, <2>1 DEF Resumed
<1>3. Queue(t.roomq) /\ ToSet(t.roomq) = ToSet(s.roomq) \ {d}
  BY <1>0, <1>1 DEF Queues
<1>4. \A e \in Dles : t.sched[e].dumper = s.sched[e].dumper
  BY <1>1
<1> QED
  BY <1>1, <1>2, <1>3, <1>4, ResumeGood

\* assign_holdingdisk keeps the invariant.
LEMMA AssignGood ==
    ASSUME NEW s, NEW c, Good(s, c), NEW d \in Dles, NEW new, NEW t, t = AssignHoldingdisk(s, d, new)
    PROVE  Good(t, c) /\ t.roomq = s.roomq /\ t.chk = s.chk /\ t.dmp = s.dmp
<1>0. Shape(s)
  BY DEF Good, Inv
<1>1. /\ Shape(t) /\ Beside(s, t) /\ t.roomq = s.roomq /\ t.chk = s.chk
      /\ \A e \in Dles : t.sched[e].dumper = s.sched[e].dumper
  BY <1>0, AssignFrame
<1>2. View(s, t) /\ t.current_tape = s.current_tape
  <2>1. SameFlags(s, t) /\ SamePlaces(s, t)
    BY <1>1 DEF Beside, SameFlags, SamePlaces
  <2>2. SameLinks(s, t)
    BY <1>0, <1>1, Shaped DEF Beside, SameLinks
  <2> QED
    BY <1>1, <2>1, <2>2 DEF View, Beside
<1> QED
  BY <1>1, <1>2, ViewGood DEF Beside

\* The space asked for once more is a size.
LEMMA MoreSizeNat ==
    ASSUME NEW n \in Nat
    PROVE  MoreSize(n) \in Nat
<1> DEFINE a == (32 * n) \div 20
           b == (a * 21 + 31) \div 32
<1>1. a \in Nat
  OBVIOUS
<1> HIDE DEF a
<1>2. b \in Nat
  BY <1>1
<1> HIDE DEF b
<1>3. MoreSize(n) = IF b < n + 2 THEN b + 2 ELSE b
  BY DEF MoreSize, a, b
<1> QED
  BY <1>2, <1>3

FullIn(s, t, i) ==
    NewChunker(s, t, i) /\ t.deaths = s.deaths /\ t.chk[i].proc = "room" /\ t.roomq = s.roomq

\* What closing the full entry changes.
LEMMA EntryFullFrame ==
    ASSUME NEW s, Shape(s), NEW i \in Dumpers, NEW d \in Dles, NEW k, s.chk[i].proc = "writing",
           s.chk[i].result = None, s.chk[i].sendresult = FALSE,
           NEW t, t = EntryFull(s, i, d, k)
    PROVE  FullIn(s, t, i)
<1> DEFINE hd == s.sched[d].holdp[k]
           n == s.ha[hd.disk].allocated_dumpers - 1
<1>0. t = [s EXCEPT !.ha[hd.disk].allocated_dumpers = n, !.sched[d].holdp[k].used = hd.reserved,
              !.chk[i].proc = "room", !.chk[i].use = 0]
  BY DEF EntryFull
<1> HIDE DEF n, hd
<1>1. /\ DOMAIN t = Fields /\ SamePlaces(s, t) /\ SameFlags(s, t) /\ t.taper = s.taper
      /\ t.current_tape = s.current_tape /\ t.dmp = s.dmp /\ t.deaths = s.deaths /\ t.roomq = s.roomq
      /\ t.sched = [s.sched EXCEPT ![d].holdp[k].used = hd.reserved]
      /\ t.chk = [s.chk EXCEPT ![i].proc = "room", ![i].use = 0]
  BY <1>0, Shaped DEF Fields, SamePlaces, SameFlags
<1>2. /\ DOMAIN t.sched = Dles
      /\ \A e \in Dles : e # d => t.sched[e] = s.sched[e]
      /\ DOMAIN t.sched[d] = SchedFields /\ t.sched[d].est_size = s.sched[d].est_size
      /\ t.sched[d].dumper = s.sched[d].dumper
  BY <1>1, Shaped DEF SchedFields
<1>3. /\ DOMAIN t.chk = Dumpers /\ DOMAIN t.chk[i] = ChunkerFields
      /\ \A j \in Dumpers : j # i => t.chk[j] = s.chk[j]
      /\ t.chk[i].proc = "room" /\ t.chk[i].result = s.chk[i].result
      /\ t.chk[i].sendresult = s.chk[i].sendresult
  BY <1>1, Shaped DEF ChunkerFields
<1>4. \A e \in Dles : DOMAIN t.sched[e] = SchedFields /\ t.sched[e].est_size \in Nat
                      /\ t.sched[e].dumper = s.sched[e].dumper
  BY <1>2, Shaped
<1> QED
  BY <1>1, <1>2, <1>3, <1>4 DEF NewChunker, FullIn

\* What going to the next entry changes.
LEMMA NextEntryFrame ==
    ASSUME NEW s, Shape(s), NEW d \in Dles, NEW k, NEW t, t = NextEntry(s, d, k)
    PROVE  View(s, t) /\ t.current_tape = s.current_tape /\ t.chk = s.chk /\ t.dmp = s.dmp /\ t.roomq = s.roomq
<1> DEFINE n == k + 1
<1>0. t = [s EXCEPT !.sched[d].activehd = n]
  BY DEF NextEntry
<1> HIDE DEF n
<1>1. /\ DOMAIN t = Fields /\ SamePlaces(s, t) /\ SameFlags(s, t) /\ t.taper = s.taper
      /\ t.current_tape = s.current_tape /\ t.dmp = s.dmp /\ t.deaths = s.deaths /\ t.roomq = s.roomq
      /\ t.sched = [s.sched EXCEPT ![d].activehd = n] /\ t.chk = s.chk /\ t.outcome = s.outcome
  BY <1>0, Shaped DEF Fields, SamePlaces, SameFlags
<1>2. /\ DOMAIN t.sched = Dles
      /\ \A e \in Dles : e # d => t.sched[e] = s.sched[e]
      /\ DOMAIN t.sched[d] = SchedFields /\ t.sched[d].est_size = s.sched[d].est_size
      /\ t.sched[d].dumper = s.sched[d].dumper
  BY <1>1, Shaped DEF SchedFields
<1>4. \A e \in Dles : DOMAIN t.sched[e] = SchedFields /\ t.sched[e].est_size \in Nat
                      /\ t.sched[e].dumper = s.sched[e].dumper
  BY <1>2, Shaped
<1>5. Shape(t)
  BY <1>1, <1>2, <1>4, Shaped DEF Shape
<1>6. SameLinks(s, t)
  BY <1>1, <1>4, Shaped DEF SameLinks
<1> QED
  BY <1>1, <1>5, <1>6 DEF View

\* What raising the estimate changes.
LEMMA GrownFrame ==
    ASSUME NEW s, Shape(s), NEW d \in Dles, NEW est \in Nat, NEW t, t = Grown(s, d, est)
    PROVE  View(s, t) /\ t.current_tape = s.current_tape /\ t.chk = s.chk /\ t.dmp = s.dmp /\ t.roomq = s.roomq
<1> DEFINE n == MoreSize(est)
<1>0. t = [s EXCEPT !.sched[d].act_size = est, !.sched[d].est_size = n] /\ n \in Nat
  BY MoreSizeNat DEF Grown
<1> HIDE DEF n
<1>1. /\ DOMAIN t = Fields /\ SamePlaces(s, t) /\ SameFlags(s, t) /\ t.taper = s.taper
      /\ t.current_tape = s.current_tape /\ t.dmp = s.dmp /\ t.deaths = s.deaths /\ t.roomq = s.roomq
      /\ t.sched = [s.sched EXCEPT ![d].act_size = est, ![d].est_size = n] /\ t.chk = s.chk
      /\ t.outcome = s.outcome
  BY <1>0, Shaped DEF Fields, SamePlaces, SameFlags
<1>2. /\ DOMAIN t.sched = Dles
      /\ \A e \in Dles : e # d => t.sched[e] = s.sched[e]
      /\ DOMAIN t.sched[d] = SchedFields /\ t.sched[d].est_size = n
      /\ t.sched[d].dumper = s.sched[d].dumper
  BY <1>1, Shaped DEF SchedFields
<1>4. \A e \in Dles : DOMAIN t.sched[e] = SchedFields /\ t.sched[e].est_size \in Nat
                      /\ t.sched[e].dumper = s.sched[e].dumper
  BY <1>0, <1>2, Shaped
<1>5. Shape(t)
  BY <1>1, <1>2, <1>4, Shaped DEF Shape
<1>6. SameLinks(s, t)
  BY <1>1, <1>4, Shaped DEF SameLinks
<1> QED
  BY <1>1, <1>5, <1>6 DEF View

\* The active entry is full, and the chunker waits for an answer.
LEMMA EntryFullGood ==
    ASSUME NEW s, NEW c, Good(s, c), NEW i \in Dumpers, s.chk[i].proc = "writing",
           NEW d, d = s.dmp[i].dp, NEW k, NEW t, t = EntryFull(s, i, d, k)
    PROVE  /\ Good(t, c) /\ t.dmp = s.dmp /\ t.roomq = s.roomq /\ t.chk[i].proc = "room"
           /\ d \in Dles /\ d \notin ToSet(s.roomq) /\ NewChunker(s, t, i)
<1>0. Shape(s) /\ RoomLinks(s) /\ s.chk[i].result = None /\ s.chk[i].sendresult = FALSE
  BY DEF Good, Inv, RoomLinks
<1>1. s.dmp[i].chunker /\ d \in s.inprogress /\ d \in Dles /\ s.sched[d].dumper = i
  BY ChunkerAtWork DEF None
<1>2. d \notin ToSet(s.roomq)
  BY <1>0, <1>1 DEF RoomLinks
<1>3. FullIn(s, t, i)
  BY <1>0, <1>1, EntryFullFrame
<1>4. NewChunker(s, t, i) /\ t.deaths = s.deaths /\ t.chk[i].proc = "room" /\ t.roomq = s.roomq
  BY <1>3 DEF FullIn
<1>5. t.deaths \in Nat /\ t.deaths >= s.deaths
  BY <1>0, <1>4, Shaped
<1>6. s.chk[i].proc # None
  BY DEF None
<1>7. Good(t, c)
  BY <1>4, <1>5, <1>6, NewChunkerGood
<1> QED
  BY <1>1, <1>2, <1>4, <1>7 DEF NewChunker

\* RQ-MORE-DISK: the next entry, more space, or a place in roomq.
LEMMA MoreDiskGood ==
    ASSUME NEW s, NEW c, Good(s, c), NEW i \in Dumpers, s.chk[i].proc = "writing",
           NEW t \in MoreDisk(s, i)
    PROVE  Good(t, c)
<1> DEFINE d == s.dmp[i].dp
           k == s.sched[d].activehd
           full == EntryFull(s, i, d, k)
           est == s.sched[d].est_size
           new == FindDiskspace(full.ha, MoreSize(est) - est, s.sched[d].holdp[k].disk)
           u == NextEntry(full, d, k)
           v == Grown(full, d, est)
<1>1. t \in IF k < Len(s.sched[d].holdp) THEN {Continue(u, i, d)} ELSE MoreOrWait(v, i, d, new)
  BY DEF MoreDisk
<1>2. /\ Good(full, c) /\ full.dmp = s.dmp /\ full.roomq = s.roomq /\ full.chk[i].proc = "room"
      /\ d \in Dles /\ d \notin ToSet(s.roomq)
  <2>1. d = s.dmp[i].dp /\ full = EntryFull(s, i, d, k)
    OBVIOUS
  <2> HIDE DEF d, k, full
  <2> QED
    BY <2>1, EntryFullGood
<1>3. est \in Nat /\ Shape(full)
  BY <1>2, Shaped DEF Good, Inv
<1> HIDE DEF k, est, full, new
<1>4. d = full.dmp[i].dp
  BY <1>2
<1> HIDE DEF d
<1>5. CASE k < Len(s.sched[d].holdp)
  <2>1. t = Continue(u, i, d)
    BY <1>1, <1>5
  <2>2. View(full, u) /\ u.current_tape = full.current_tape /\ u.chk = full.chk /\ u.dmp = full.dmp /\ u.roomq = full.roomq
    BY <1>3, <1>2, NextEntryFrame
  <2> HIDE DEF u
  <2>3. Good(u, c)
    BY <1>2, <2>2, ViewGood
  <2> QED
    BY <2>1, <2>2, <2>3, <1>2, <1>4, ContinueGood
<1>6. CASE ~(k < Len(s.sched[d].holdp))
  <2>1. t \in MoreOrWait(v, i, d, new)
    BY <1>1, <1>6
  <2>2. View(full, v) /\ v.current_tape = full.current_tape /\ v.chk = full.chk /\ v.dmp = full.dmp /\ v.roomq = full.roomq
    BY <1>3, <1>2, GrownFrame
  <2> HIDE DEF v
  <2>3. Good(v, c)
    BY <1>2, <2>2, ViewGood
  <2>4. CASE new # <<>>
    <3> DEFINE w == AssignHoldingdisk(v, d, new)
    <3>1. t = Continue(w, i, d)
      BY <2>1, <2>4, Zenon DEF MoreOrWait
    <3>2. Good(w, c) /\ w.roomq = v.roomq /\ w.chk = v.chk /\ w.dmp = v.dmp
      BY <2>3, <1>2, AssignGood
    <3> HIDE DEF w
    <3> QED
      BY <3>1, <3>2, <2>2, <1>2, <1>4, ContinueGood
  <2>5. CASE new = <<>>
    <3> DEFINE w == WaitsForRoom(v, d)
    <3>1. t \in StartAFlush(ContinuePortDumps(w))
      BY <2>1, <2>5, Zenon DEF MoreOrWait, WaitsForRoom
    <3>2. Good(w, c)
      BY <2>2, <2>3, <1>2, <1>4, WaitsForRoomGood
    <3> HIDE DEF w
    <3>3. Good(ContinuePortDumps(w), c)
      BY <3>2, ContinuePortDumpsGood
    <3> QED
      BY <3>1, <3>3, StartAFlushGood
  <2> QED
    BY <2>4, <2>5
<1> QED
  BY <1>5, <1>6

-----------------------------------------------------------------------------
(* RQ-MORE-DISK and NO-ROOM of a chunker; the timer.                       *)

\* What the message of a full chunker changes before RQ-MORE-DISK is handled.
LEMMA ChunkFullIs ==
    ASSUME NEW c, Good(drv, c), NEW i \in Dumpers, ChunkFull(i)
    PROVE  \E s : /\ drv' \in MoreDisk(s, i) /\ NewChunker(drv, s, i) /\ s.deaths = drv.deaths
                  /\ s.chk[i].proc = "writing" /\ s.sched = drv.sched /\ s.ha = drv.ha
                  /\ s.chk[i].wrote = drv.chk[i].wrote + drv.chk[i].use
<1> DEFINE w == drv.chk[i].wrote + drv.chk[i].use
           s == [drv EXCEPT !.chk[i].wrote = w]
<1>0. Shape(drv) /\ drv.chk[i].proc = "writing" /\ RoomLinks(drv)
  BY DEF Good, Inv, ChunkFull
<1>1. drv' \in MoreDisk(s, i)
  BY DEF ChunkFull, Becomes
<1>2. drv.chk[i].result = None /\ drv.chk[i].sendresult = FALSE
  BY <1>0 DEF RoomLinks
<1> HIDE DEF w
<1>3. /\ DOMAIN s = Fields /\ SamePlaces(drv, s) /\ SameFlags(drv, s) /\ s.taper = drv.taper
      /\ s.current_tape = drv.current_tape /\ s.dmp = drv.dmp /\ s.deaths = drv.deaths
      /\ s.sched = drv.sched /\ s.ha = drv.ha /\ s.chk = [drv.chk EXCEPT ![i].wrote = w]
  BY <1>0, Shaped DEF Fields, SamePlaces, SameFlags
<1> HIDE DEF s
<1>4. /\ DOMAIN s.chk = Dumpers /\ DOMAIN s.chk[i] = ChunkerFields /\ s.chk[i].wrote = w
      /\ \A j \in Dumpers : j # i => s.chk[j] = drv.chk[j]
      /\ s.chk[i].proc = "writing" /\ s.chk[i].result = None /\ s.chk[i].sendresult = FALSE
  BY <1>0, <1>2, <1>3, Shaped DEF ChunkerFields
<1>5. NewChunker(drv, s, i)
  BY <1>0, <1>3, <1>4, Shaped DEF NewChunker
<1> QED
  BY <1>1, <1>3, <1>4, <1>5 DEF w

\* RQ-MORE-DISK after what was granted is written.
LEMMA ChunkFullGood ==
    ASSUME NEW c, Good(drv, c), NEW i \in Dumpers, ChunkFull(i)
    PROVE  Good(drv', c)
<1>1. PICK s : /\ drv' \in MoreDisk(s, i) /\ NewChunker(drv, s, i) /\ s.deaths = drv.deaths
               /\ s.chk[i].proc = "writing"
  BY ChunkFullIs
<1>2. drv.chk[i].proc # None /\ drv.deaths \in Nat
  BY Shaped DEF ChunkFull, None, Good, Inv
<1>3. s.deaths \in Nat /\ s.deaths >= drv.deaths
  BY <1>1, <1>2
<1>4. Good(s, c)
  BY <1>1, <1>2, <1>3, NewChunkerGood
<1> QED
  BY <1>1, <1>4, MoreDiskGood

\* The same for NO-ROOM.
LEMMA ChunkNoRoomIs ==
    ASSUME NEW c, Good(drv, c), NEW i \in Dumpers, NEW n, ChunkNoRoom(i, n)
    PROVE  LET d == drv.dmp[i].dp
               k == drv.sched[d].activehd
               hd == drv.sched[d].holdp[k]
           IN  \E s : /\ drv' \in MoreDisk(s, i) /\ NewChunker(drv, s, i) /\ s.deaths = drv.deaths
                      /\ s.chk[i].proc = "writing" /\ s.ha = ShortDisk(drv.ha, hd.disk, n)
                      /\ s.sched = [drv.sched EXCEPT ![d].holdp[k] = ShortEntry(hd, n)]
                      /\ s.chk[i].wrote = drv.chk[i].wrote + drv.chk[i].use - n
<1> DEFINE d == drv.dmp[i].dp
           k == drv.sched[d].activehd
           hd == drv.sched[d].holdp[k]
           w == drv.chk[i].wrote + drv.chk[i].use - n
           sh == ShortEntry(hd, n)
           sp == ShortDisk(drv.ha, hd.disk, n)
           nr == drv.noRooms + 1
           s == [drv EXCEPT !.chk[i].wrote = w, !.sched[d].holdp[k] = sh, !.ha = sp,
                            !.noRooms = nr]
<1>0. Shape(drv) /\ drv.chk[i].proc = "writing" /\ RoomLinks(drv)
  BY DEF Good, Inv, ChunkNoRoom
<1>1. drv' \in MoreDisk(s, i)
  BY DEF ChunkNoRoom, Becomes
<1>2. drv.chk[i].result = None /\ drv.chk[i].sendresult = FALSE /\ drv.chk[i].proc # None
  BY <1>0 DEF RoomLinks, None
<1>3. d \in Dles
  BY <1>2, ChunkerAtWork
<1> HIDE DEF w, sh, sp, nr, hd, k, d
<1>4. /\ DOMAIN s = Fields /\ SamePlaces(drv, s) /\ SameFlags(drv, s) /\ s.taper = drv.taper
      /\ s.current_tape = drv.current_tape /\ s.dmp = drv.dmp /\ s.deaths = drv.deaths
      /\ s.sched = [drv.sched EXCEPT ![d].holdp[k] = sh]
      /\ s.chk = [drv.chk EXCEPT ![i].wrote = w] /\ s.ha = sp
  BY <1>0, Shaped DEF Fields, SamePlaces, SameFlags
<1> HIDE DEF s
<1>5. /\ DOMAIN s.sched = Dles
      /\ \A e \in Dles : e # d => s.sched[e] = drv.sched[e]
      /\ DOMAIN s.sched[d] = SchedFields /\ s.sched[d].est_size = drv.sched[d].est_size
      /\ s.sched[d].dumper = drv.sched[d].dumper
  BY <1>0, <1>3, <1>4, Shaped DEF SchedFields
<1>6. /\ DOMAIN s.chk = Dumpers /\ DOMAIN s.chk[i] = ChunkerFields /\ s.chk[i].wrote = w
      /\ \A j \in Dumpers : j # i => s.chk[j] = drv.chk[j]
      /\ s.chk[i].proc = "writing" /\ s.chk[i].result = None /\ s.chk[i].sendresult = FALSE
  BY <1>0, <1>2, <1>4, Shaped DEF ChunkerFields
<1>7. \A e \in Dles : DOMAIN s.sched[e] = SchedFields /\ s.sched[e].est_size \in Nat
                      /\ s.sched[e].dumper = drv.sched[e].dumper
  BY <1>0, <1>3, <1>5, Shaped
<1>8. NewChunker(drv, s, i)
  BY <1>0, <1>4, <1>5, <1>6, <1>7 DEF NewChunker
<1>9. /\ drv' \in MoreDisk(s, i) /\ NewChunker(drv, s, i) /\ s.deaths = drv.deaths
      /\ s.chk[i].proc = "writing" /\ s.ha = ShortDisk(drv.ha, hd.disk, n)
      /\ s.sched = [drv.sched EXCEPT ![d].holdp[k] = ShortEntry(hd, n)]
      /\ s.chk[i].wrote = drv.chk[i].wrote + drv.chk[i].use - n
  BY <1>1, <1>4, <1>6, <1>8 DEF w, sh, sp
<1> QED
  BY <1>9, Zenon DEF d, k, hd
\* NO-ROOM, and then RQ-MORE-DISK.
LEMMA ChunkNoRoomGood ==
    ASSUME NEW c, Good(drv, c), NEW i \in Dumpers, NEW n, ChunkNoRoom(i, n)
    PROVE  Good(drv', c)
<1>1. PICK s : /\ drv' \in MoreDisk(s, i) /\ NewChunker(drv, s, i) /\ s.deaths = drv.deaths
               /\ s.chk[i].proc = "writing"
  BY ChunkNoRoomIs
<1>2. drv.chk[i].proc # None /\ drv.deaths \in Nat
  BY Shaped DEF ChunkNoRoom, None, Good, Inv
<1>3. s.deaths \in Nat /\ s.deaths >= drv.deaths
  BY <1>1, <1>2
<1>4. Good(s, c)
  BY <1>1, <1>2, <1>3, NewChunkerGood
<1> QED
  BY <1>1, <1>4, MoreDiskGood

\* The timer of start_some_dumps.
LEMMA HandleDumpersTimeGood ==
    ASSUME NEW c, Good(drv, c), HandleDumpersTime
    PROVE  Good(drv', c)
<1>1. PICK x : drv' \in StartSomeDumps([drv EXCEPT !.delayed = x])
  BY DEF HandleDumpersTime, Becomes
<1> DEFINE s == [drv EXCEPT !.delayed = x]
<1>2. Shape(drv)
  BY DEF Good, Inv
<1>3. Seen(drv, s)
  BY <1>2, Shaped DEF Seen, Fields
<1> HIDE DEF s
<1>4. Good(s, c)
  BY <1>3, SeenGood
<1> QED
  BY <1>1, <1>4, StartSomeDumpsGood DEF s

-----------------------------------------------------------------------------
(* A dump is read, from the list to flush or from the schedule.            *)

\* Inv while the flush list or the schedule is being read, when Inputs does not hold.
Reading(s) == /\ Live(s) /\ Shape(s) /\ Queues(s) /\ Placed(s)
              /\ DumperLinks(s) /\ TaperLinks(s) /\ RoomLinks(s)

\* t is s with a dump appended to one of the queues.
Appended(s, t, d) ==
    \/ t.tapeq = Append(s.tapeq, d) /\ t.runq = s.runq /\ t.directq = s.directq /\ d \in Flush
    \/ t.runq = Append(s.runq, d) /\ t.tapeq = s.tapeq /\ t.directq = s.directq /\ d \notin Flush
    \/ t.directq = Append(s.directq, d) /\ t.tapeq = s.tapeq /\ t.runq = s.runq /\ d \notin Flush
ReadIn(s, t, d) ==
    /\ DOMAIN t = Fields /\ Appended(s, t, d) /\ t.roomq = s.roomq
    /\ t.dmp = s.dmp /\ t.chk = s.chk /\ t.inprogress = s.inprogress /\ t.taper = s.taper
    /\ t.deaths = s.deaths /\ t.sched = s.sched /\ t.input = s.input /\ t.ha = s.ha
    /\ t.outcome = [s.outcome EXCEPT ![d] = None]
    /\ SameFlags(s, t) /\ t.current_tape = s.current_tape

\* What reading a dump to flush changes.
LEMMA ReadHeldFrame ==
    ASSUME NEW s, Shape(s), NEW d \in Flush
    PROVE  ReadIn(s, ReadHeld(s, d), d)
<1> DEFINE q == Append(s.tapeq, d)
           o == [s.outcome EXCEPT ![d] = None]
           t == [s EXCEPT !.outcome = o, !.tapeq = q]
<1>1. ReadHeld(s, d) = t
  BY Shaped DEF ReadHeld, Fields
<1> HIDE DEF q, o
<1>2. /\ DOMAIN t = Fields /\ t.roomq = s.roomq
      /\ t.dmp = s.dmp /\ t.chk = s.chk /\ t.inprogress = s.inprogress /\ t.taper = s.taper
      /\ t.deaths = s.deaths /\ t.sched = s.sched /\ t.input = s.input /\ t.ha = s.ha
      /\ t.outcome = o /\ t.tapeq = q /\ t.runq = s.runq /\ t.directq = s.directq
      /\ SameFlags(s, t) /\ t.current_tape = s.current_tape
  BY Shaped DEF Fields, SameFlags
<1> HIDE DEF t
<1> QED
  BY <1>1, <1>2 DEF ReadIn, Appended, q, o

\* What reading a dump of the schedule changes.
LEMMA ReadDumpFrame ==
    ASSUME NEW s, Shape(s), NEW d, d \notin Flush
    PROVE  ReadIn(s, ReadDump(s, d), d)
<1> DEFINE q == Append(s.runq, d)
           r == Append(s.directq, d)
           o == [s.outcome EXCEPT ![d] = None]
           t == [s EXCEPT !.outcome = o, !.runq = q]
           u == [s EXCEPT !.outcome = o, !.directq = r]
<1>1. ReadDump(s, d) = IF Holding[d] = "never" THEN u ELSE t
  BY Shaped DEF ReadDump, Fields
<1> HIDE DEF q, r, o
<1>2. /\ DOMAIN t = Fields /\ t.roomq = s.roomq
      /\ t.dmp = s.dmp /\ t.chk = s.chk /\ t.inprogress = s.inprogress /\ t.taper = s.taper
      /\ t.deaths = s.deaths /\ t.sched = s.sched /\ t.input = s.input /\ t.ha = s.ha
      /\ t.outcome = o /\ t.runq = q /\ t.tapeq = s.tapeq /\ t.directq = s.directq
      /\ SameFlags(s, t) /\ t.current_tape = s.current_tape
  BY Shaped DEF Fields, SameFlags
<1>3. /\ DOMAIN u = Fields /\ u.roomq = s.roomq
      /\ u.dmp = s.dmp /\ u.chk = s.chk /\ u.inprogress = s.inprogress /\ u.taper = s.taper
      /\ u.deaths = s.deaths /\ u.sched = s.sched /\ u.input = s.input /\ u.ha = s.ha
      /\ u.outcome = o /\ u.directq = r /\ u.tapeq = s.tapeq /\ u.runq = s.runq
      /\ SameFlags(s, u) /\ u.current_tape = s.current_tape
  BY Shaped DEF Fields, SameFlags
<1> HIDE DEF t, u
<1>4. ReadIn(s, t, d) /\ ReadIn(s, u, d)
  BY <1>2, <1>3 DEF ReadIn, Appended, q, r, o
<1> QED
  BY <1>1, <1>4, Zenon

\* A dump that was not read goes to one queue.
LEMMA ReadOne ==
    ASSUME NEW s, Reading(s), NEW d \in Dles, s.outcome[d] = "unread", NEW t, ReadIn(s, t, d)
    PROVE  /\ Reading(t) /\ t.current_tape = s.current_tape /\ t.input = s.input
           /\ \A e \in Dles : e # d => t.outcome[e] = s.outcome[e]
<1>0. /\ Live(s) /\ Shape(s) /\ Queues(s) /\ Placed(s)
      /\ DumperLinks(s) /\ TaperLinks(s) /\ RoomLinks(s)
  BY DEF Reading
<1>1. t.outcome[d] = None /\ DOMAIN t.outcome = Dles
      /\ \A e \in Dles : e # d => t.outcome[e] = s.outcome[e]
  BY <1>0, Shaped DEF ReadIn
<1>2. Shape(t)
  BY <1>0, <1>1 DEF ReadIn, Shape
<1>3. Live(t)
  BY <1>0 DEF Live, ReadIn, SameFlags
<1>4. ~Held(s, d) /\ Flushing(t) = Flushing(s) /\ t.inprogress = s.inprogress
  <2>1. s.outcome[d] # None
    BY DEF None
  <2> QED
    BY <1>0, <2>1 DEF Placed, ReadIn, Flushing
<1>5. Queue(s.runq) /\ Queue(s.tapeq) /\ Queue(s.directq)
  BY <1>0 DEF Queues
<1>6. d \notin ToSet(s.runq) /\ d \notin ToSet(s.directq) /\ d \notin ToSet(s.tapeq)
      /\ d \notin s.inprogress /\ d \notin Flushing(s)
  BY <1>4 DEF Held
<1>7. /\ Queue(t.runq) /\ Queue(t.tapeq) /\ Queue(t.directq)
      /\ \A e : e # d => /\ e \in ToSet(t.runq) <=> e \in ToSet(s.runq)
                         /\ e \in ToSet(t.directq) <=> e \in ToSet(s.directq)
                         /\ e \in ToSet(t.tapeq) <=> e \in ToSet(s.tapeq)
      /\ Apart(t, d) /\ Held(t, d)
      /\ d \in Flush => d \notin ToSet(t.runq) /\ d \notin ToSet(t.directq)
  <2>0. Appended(s, t, d)
    BY DEF ReadIn
  <2>1. CASE t.tapeq = Append(s.tapeq, d) /\ t.runq = s.runq /\ t.directq = s.directq
    <3>1. Queue(t.tapeq) /\ ToSet(t.tapeq) = ToSet(s.tapeq) \cup {d}
      BY <2>1, <1>5, <1>6, QueueAppend
    <3> QED
      BY <2>1, <3>1, <1>4, <1>5, <1>6 DEF Apart, Held
  <2>2. CASE t.runq = Append(s.runq, d) /\ t.tapeq = s.tapeq /\ t.directq = s.directq /\ d \notin Flush
    <3>1. Queue(t.runq) /\ ToSet(t.runq) = ToSet(s.runq) \cup {d}
      BY <2>2, <1>5, <1>6, QueueAppend
    <3> QED
      BY <2>2, <3>1, <1>4, <1>5, <1>6 DEF Apart, Held
  <2>3. CASE t.directq = Append(s.directq, d) /\ t.tapeq = s.tapeq /\ t.runq = s.runq /\ d \notin Flush
    <3>1. Queue(t.directq) /\ ToSet(t.directq) = ToSet(s.directq) \cup {d}
      BY <2>3, <1>5, <1>6, QueueAppend
    <3> QED
      BY <2>3, <3>1, <1>4, <1>5, <1>6 DEF Apart, Held
  <2> QED
    BY <2>0, <2>1, <2>2, <2>3 DEF Appended
<1>8. Queues(t)
  BY <1>0, <1>4, <1>7 DEF Queues, ReadIn
<1>9. ASSUME NEW e \in Dles
      PROVE  Apart(t, e) /\ (t.outcome[e] = None <=> Held(t, e))
  <2>1. CASE e = d
    BY <2>1, <1>1, <1>7
  <2>2. CASE e # d
    <3>1. Apart(s, e) /\ (s.outcome[e] = None <=> Held(s, e))
      BY <1>0 DEF Placed
    <3>2. t.outcome[e] = s.outcome[e]
      BY <2>2, <1>1
    <3>3. Apart(t, e)
      BY <2>2, <3>1, <1>4, <1>7, Zenon DEF Apart
    <3>4. t.outcome[e] = None <=> Held(t, e)
      BY <2>2, <3>1, <3>2, <1>4, <1>7, Zenon DEF Held
    <3> QED BY <3>3, <3>4
  <2> QED BY <2>1, <2>2
<1>10. ASSUME NEW e \in Flush
       PROVE  e \notin ToSet(t.runq) /\ e \notin ToSet(t.directq) /\ e \notin t.inprogress
  BY <1>0, <1>4, <1>6, <1>7, Zenon DEF Placed
<1>11. Placed(t)
  BY <1>9, <1>10 DEF Placed
<1>12. DumperLinks(t) /\ RoomLinks(t) /\ TaperLinks(t)
  <2>1. SameChildren(s, t) /\ SameTaper(s, t) /\ t.roomq = s.roomq
    BY DEF SameChildren, SameTaper, ReadIn
  <2> QED
    BY <1>0, <2>1, LinksKept
<1> QED
  BY <1>1, <1>2, <1>3, <1>8, <1>11, <1>12 DEF Reading, ReadIn

-----------------------------------------------------------------------------
(* read_flush and read_schedule.                                           *)

HeldLoop == INSTANCE FoldFacts WITH op <- ReadHeld
DumpLoop == INSTANCE FoldFacts WITH op <- ReadDump

\* read_flush reads dump by dump.
LEMMA HeldRounds ==
    ASSUME NEW s, NEW q \in Seq(Dles)
    PROVE  \E f : /\ f[0] = s
                  /\ \A n \in 1..Len(q) : f[n] = ReadHeld(f[n - 1], q[n])
                  /\ FoldLeft(ReadHeld, s, q) = f[Len(q)]
<1>1. FoldLeft(ReadHeld, s, q) = HeldLoop!Folded(s, q)
  BY DOMAIN q = 1..Len(q), Zenon DEF FoldLeft, MapThenFoldSet, Max, HeldLoop!Biggest,
     HeldLoop!Iterates, HeldLoop!Folded
<1> QED
  BY <1>1, HeldLoop!FoldRounds

\* read_schedule reads dump by dump.
LEMMA DumpRounds ==
    ASSUME NEW s, NEW q \in Seq(Dles)
    PROVE  \E f : /\ f[0] = s
                  /\ \A n \in 1..Len(q) : f[n] = ReadDump(f[n - 1], q[n])
                  /\ FoldLeft(ReadDump, s, q) = f[Len(q)]
<1>1. FoldLeft(ReadDump, s, q) = DumpLoop!Folded(s, q)
  BY DOMAIN q = 1..Len(q), Zenon DEF FoldLeft, MapThenFoldSet, Max, DumpLoop!Biggest,
     DumpLoop!Iterates, DumpLoop!Folded
<1> QED
  BY <1>1, DumpLoop!FoldRounds

\* f: the states of a loop that reads the dumps of q one by one.
ReadsOn(f, q) == \A n \in 1..Len(q) : Shape(f[n - 1]) => ReadIn(f[n - 1], f[n], q[n])

\* Each round reads a dump that was not read.
Reads(f, q) ==
    \A n \in 1..Len(q) : /\ Shape(f[n - 1]) /\ f[n - 1].outcome[q[n]] = "unread"
                         /\ q[n] \in Dles /\ ReadIn(f[n - 1], f[n], q[n])

\* All dumps of a list are read; the others are not.
LEMMA ReadAll ==
    ASSUME NEW f, NEW q, Queue(q), ReadsOn(f, q), Reading(f[0]),
           \A d \in ToSet(q) : f[0].outcome[d] = "unread"
    PROVE  /\ Reading(f[Len(q)]) /\ Reads(f, q)
           /\ f[Len(q)].current_tape = f[0].current_tape /\ f[Len(q)].input = f[0].input
           /\ \A e \in Dles : e \notin ToSet(q) => f[Len(q)].outcome[e] = f[0].outcome[e]
<1>0. q \in Seq(Dles) /\ Len(q) \in Nat /\ DOMAIN q = 1..Len(q)
  BY DEF Queue
<1> DEFINE D(k) == {q[j] : j \in 1..k}
           Ok(k) == /\ Reading(f[k])
                    /\ f[k].current_tape = f[0].current_tape /\ f[k].input = f[0].input
                    /\ \A e \in Dles : e \notin D(k) => f[k].outcome[e] = f[0].outcome[e]
           Next1(k) == /\ Shape(f[k]) /\ f[k].outcome[q[k + 1]] = "unread" /\ q[k + 1] \in Dles
                       /\ ReadIn(f[k], f[k + 1], q[k + 1])
           T == {k \in 0..Len(q) : Ok(k)}
<1>2. Ok(0)
  OBVIOUS
<1>3. ASSUME NEW k \in 0..(Len(q) - 1), Ok(k) PROVE Ok(k + 1) /\ Next1(k)
  <2>1. k + 1 \in 1..Len(q) /\ (k + 1) - 1 = k
    BY <1>0
  <2> DEFINE d == q[k + 1]
  <2>2. d \in Dles /\ d \in ToSet(q) /\ d \notin D(k)
    <3>1. d \in Dles /\ d \in ToSet(q)
      BY <1>0, <2>1 DEF ToSet
    <3>2. \A j \in 1..k : q[j] # d
      <4>1. \A j \in 1..k : j \in 1..Len(q) /\ j # k + 1
        BY <1>0
      <4> QED
        BY <1>0, <2>1, <4>1 DEF Queue, IsInjective
    <3> QED
      BY <3>1, <3>2
  <2>3. \A e : e \notin D(k + 1) => e # d /\ e \notin D(k)
    <3>1. k + 1 \in 1..(k + 1) /\ \A j \in 1..k : j \in 1..(k + 1)
      OBVIOUS
    <3> QED
      BY <3>1, Zenon
  <2> HIDE DEF D
  <2>4. Reading(f[k]) /\ Shape(f[k]) /\ f[k].outcome[d] = "unread"
    BY <1>3, <2>2 DEF Reading
  <2>5. ReadIn(f[k], f[k + 1], d)
    BY <2>1, <2>4 DEF ReadsOn
  <2>5a. Next1(k)
    BY <2>2, <2>4, <2>5
  <2> HIDE DEF d, Next1
  <2>6. /\ Reading(f[k + 1]) /\ f[k + 1].current_tape = f[k].current_tape
        /\ f[k + 1].input = f[k].input
        /\ \A e \in Dles : e # d => f[k + 1].outcome[e] = f[k].outcome[e]
    BY <2>2, <2>4, <2>5, ReadOne
  <2> QED
    BY <1>3, <2>3, <2>5a, <2>6
<1>4. D(Len(q)) = ToSet(q)
  BY <1>0 DEF ToSet
<1> HIDE DEF Ok, Next1
<1>5. 0 \in T /\ \A k \in 0..(Len(q) - 1) : k \in T => k + 1 \in T
  <2>1. 0 \in 0..Len(q) /\ \A k \in 0..(Len(q) - 1) : k + 1 \in 0..Len(q)
    BY <1>0
  <2> QED
    BY <2>1, <1>2, <1>3, Zenon
<1> HIDE DEF T
<1>6. \A k \in 0..Len(q) : k \in T
  BY <1>0, <1>5, HeldLoop!UpTo
<1>7. Ok(Len(q))
  <2>1. Len(q) \in 0..Len(q)
    BY <1>0
  <2> QED
    BY <1>6, <2>1 DEF T
<1>8. Reads(f, q)
  <2>1. ASSUME NEW n \in 1..Len(q)
        PROVE  /\ Shape(f[n - 1]) /\ f[n - 1].outcome[q[n]] = "unread"
               /\ q[n] \in Dles /\ ReadIn(f[n - 1], f[n], q[n])
    <3> DEFINE k == n - 1
    <3>1. k \in 0..Len(q) /\ k \in 0..(Len(q) - 1) /\ k + 1 = n
      BY <1>0
    <3> HIDE DEF k
    <3>2. Next1(k)
      BY <3>1, <1>3, <1>6 DEF T
    <3>3. Shape(f[k]) /\ f[k].outcome[q[n]] = "unread" /\ q[n] \in Dles /\ ReadIn(f[k], f[n], q[n])
      BY <3>1, <3>2 DEF Next1
    <3> QED
      BY <3>3 DEF k
  <2> QED
    BY <2>1 DEF Reads
<1> HIDE DEF D
<1> QED
  BY <1>4, <1>7, <1>8 DEF Ok

\* the list of the dumps to flush
LEMMA FlushList ==
    LET q == SetToSeq(Flush) IN Queue(q) /\ ToSet(q) = Flush
<1> DEFINE q == SetToSeq(Flush)
           n == Cardinality(Flush)
<1>1. IsFiniteSet(Flush) /\ n \in Nat /\ ExistsBijection(1..n, Flush)
  BY DriverAssumption, FS_CardinalityType
<1>2. PICK f : f \in Bijection(1..n, Flush)
  BY <1>1 DEF ExistsBijection
<1>3. f \in [1..n -> Flush] /\ IsInjective(f)
  BY <1>2 DEF Bijection, Injection
<1>4. q \in [1..n -> Flush] /\ IsInjective(q)
  BY <1>3 DEF SetToSeq
<1> HIDE DEF q
<1>5. q \in Surjection(1..n, Flush)
  <2>1. q \in Injection(1..n, Flush)
    BY <1>4 DEF Injection
  <2>2. Cardinality(1..n) = n
    BY <1>1, FS_Interval
  <2> QED
    BY <1>1, <2>1, <2>2, FS_Injection
<1> HIDE DEF n
<1>6. \A d \in Flush : \E j \in 1..n : q[j] = d
  BY <1>5 DEF Surjection
<1>7. Flush \subseteq Dles
  BY DEF Dles
<1>8. q \in Seq(Dles)
  <2>1. q \in [1..n -> Dles]
    BY <1>4, <1>7
  <2> QED
    BY <1>1, <2>1
<1>9. ToSet(q) = Flush
  BY <1>4, <1>6 DEF ToSet
<1> QED
  BY <1>4, <1>8, <1>9 DEF Queue, q

\* t is s once the input was read.
InputIn(s, t, x) ==
    /\ DOMAIN t = Fields /\ t.input = x
    /\ t.tapeq = s.tapeq /\ t.runq = s.runq /\ t.directq = s.directq /\ t.roomq = s.roomq
    /\ t.dmp = s.dmp /\ t.chk = s.chk /\ t.inprogress = s.inprogress /\ t.taper = s.taper
    /\ t.deaths = s.deaths /\ t.sched = s.sched /\ t.outcome = s.outcome /\ t.ha = s.ha
    /\ SameFlags(s, t) /\ t.current_tape = s.current_tape

\* The end of the input changes nothing else.
LEMMA InputFrame ==
    ASSUME NEW s, Shape(s), NEW x
    PROVE  InputIn(s, [s EXCEPT !.input = x], x)
  BY Shaped DEF InputIn, Fields, SameFlags

\* The invariant holds once the input was read.
LEMMA ReadDone ==
    ASSUME NEW s, NEW c, Reading(s), s.current_tape = c, NEW t, NEW x, InputIn(s, t, x),
           x = "done" \/ (x = "schedule" /\ \A e \in Dles : e \notin Flush => s.outcome[e] = "unread")
    PROVE  Good(t, c)
<1>0. /\ Live(s) /\ Shape(s) /\ Queues(s) /\ Placed(s)
      /\ DumperLinks(s) /\ TaperLinks(s) /\ RoomLinks(s)
  BY DEF Reading
<1>1. Shape(t)
  BY <1>0, Shaped DEF InputIn, Shape
<1>2. Live(t) /\ t.current_tape = c
  BY <1>0 DEF Live, InputIn, SameFlags
<1>3. Flushing(t) = Flushing(s)
  BY DEF InputIn, Flushing
<1>4. Queues(t)
  BY <1>0, <1>3 DEF Queues, InputIn
<1>5. Placed(t)
  BY <1>0, <1>3, Zenon DEF Placed, Apart, Held, InputIn
<1>6. Inputs(t)
  <2>1. ToSet(Schedule) \cap Flush = {} /\ ToSet(Schedule) \subseteq Dles
    BY DriverAssumption DEF Dles
  <2> QED
    BY <2>1 DEF Inputs, InputIn
<1>7. DumperLinks(t) /\ RoomLinks(t) /\ TaperLinks(t)
  <2>1. SameChildren(s, t) /\ SameTaper(s, t) /\ t.roomq = s.roomq
    BY DEF SameChildren, SameTaper, InputIn
  <2> QED
    BY <1>0, <2>1, LinksKept
<1> QED
  BY <1>1, <1>2, <1>4, <1>5, <1>6, <1>7 DEF Good, Inv

\* read_flush keeps the invariant.
LEMMA ReadFlushIs ==
    ASSUME NEW c, Good(drv, c), ReadFlush
    PROVE  \E f, q, u : /\ f[0] = drv /\ Len(q) \in Nat /\ Reads(f, q)
                        /\ InputIn(f[Len(q)], u, "schedule") /\ Good(u, c)
                        /\ drv' \in StartAFlush(u)
<1> DEFINE q == SetToSeq(Flush)
           v == FoldLeft(ReadHeld, drv, q)
           u == [v EXCEPT !.input = "schedule"]
<1>0. Inv(drv) /\ drv.current_tape = c /\ drv.input = "flush" /\ Inputs(drv) /\ Reading(drv)
  BY DEF Good, Inv, Reading, ReadFlush
<1>1. drv' \in StartAFlush(u)
  BY DEF ReadFlush, Becomes
<1>2. Queue(q) /\ ToSet(q) = Flush /\ q \in Seq(Dles) /\ DOMAIN q = 1..Len(q)
  BY FlushList DEF Queue
<1> HIDE DEF q
<1>3. PICK f : /\ f[0] = drv
               /\ \A n \in 1..Len(q) : f[n] = ReadHeld(f[n - 1], q[n])
               /\ v = f[Len(q)]
  BY <1>2, HeldRounds
<1>4. ReadsOn(f, q)
  <2>1. \A n \in 1..Len(q) : q[n] \in Flush
    BY <1>2 DEF ToSet
  <2> QED
    BY <1>3, <2>1, ReadHeldFrame DEF ReadsOn
<1>5. \A d \in ToSet(q) : f[0].outcome[d] = "unread"
  BY <1>0, <1>2, <1>3 DEF Inputs, Dles
<1>6. /\ Reading(v) /\ v.current_tape = c /\ Reads(f, q)
      /\ \A e \in Dles : e \notin Flush => v.outcome[e] = "unread"
  <2>1. Reading(f[0])
    BY <1>0, <1>3
  <2>2. /\ Reading(f[Len(q)]) /\ Reads(f, q)
        /\ f[Len(q)].current_tape = f[0].current_tape
        /\ \A e \in Dles : e \notin ToSet(q) => f[Len(q)].outcome[e] = f[0].outcome[e]
    BY <1>2, <1>4, <1>5, <2>1, ReadAll
  <2> QED
    BY <2>2, <1>0, <1>2, <1>3 DEF Inputs
<1> HIDE DEF v
<1>7. /\ Shape(v) /\ ToSet(Schedule) \cap Flush = {} /\ ToSet(Schedule) \subseteq Dles
  BY <1>6, DriverAssumption DEF Reading, Dles
<1>8. InputIn(v, u, "schedule")
  BY <1>7, InputFrame
<1>9. Good(u, c)
  BY <1>6, <1>7, <1>8, ReadDone
<1>10. Len(q) \in Nat
  BY <1>2
<1> HIDE DEF u
<1> QED
  BY <1>1, <1>3, <1>6, <1>8, <1>9, <1>10

LEMMA ReadFlushGood ==
    ASSUME NEW c, Good(drv, c), ReadFlush
    PROVE  Good(drv', c)
BY ReadFlushIs, StartAFlushGood

\* read_schedule keeps the invariant.
LEMMA ReadScheduleIs ==
    ASSUME NEW c, Good(drv, c), ReadSchedule
    PROVE  \E f, q, u : /\ f[0] = drv /\ Len(q) \in Nat /\ Reads(f, q)
                        /\ InputIn(f[Len(q)], u, "done") /\ Good(u, c)
                        /\ drv' \in Reschedule(StartDegradedMode(u))
<1> DEFINE q == Schedule
           v == FoldLeft(ReadDump, drv, q)
           u == [v EXCEPT !.input = "done"]
<1>0. Inv(drv) /\ drv.current_tape = c /\ drv.input = "schedule" /\ Inputs(drv) /\ Reading(drv)
  BY DEF Good, Inv, Reading, ReadSchedule
<1>1. drv' \in Reschedule(StartDegradedMode(u))
  BY DEF ReadSchedule, Becomes
<1>2. Queue(q) /\ q \in Seq(Dles) /\ DOMAIN q = 1..Len(q) /\ ToSet(Schedule) \cap Flush = {}
  BY DriverAssumption DEF Queue
<1>3. PICK f : /\ f[0] = drv
               /\ \A n \in 1..Len(q) : f[n] = ReadDump(f[n - 1], q[n])
               /\ v = f[Len(q)]
  BY <1>2, DumpRounds
<1>4. ReadsOn(f, q)
  <2>1. \A n \in 1..Len(q) : q[n] \notin Flush
    BY <1>2 DEF ToSet
  <2> QED
    BY <1>3, <2>1, ReadDumpFrame DEF ReadsOn
<1>5. \A d \in ToSet(q) : f[0].outcome[d] = "unread"
  BY <1>0, <1>2, <1>3 DEF Inputs
<1>6. Reading(v) /\ v.current_tape = c /\ Reads(f, q)
  <2>1. Reading(f[0])
    BY <1>0, <1>3
  <2>2. Reading(f[Len(q)]) /\ Reads(f, q) /\ f[Len(q)].current_tape = f[0].current_tape
    BY <1>2, <1>4, <1>5, <2>1, ReadAll
  <2> QED
    BY <2>2, <1>0, <1>3
<1> HIDE DEF v
<1>7. Shape(v)
  BY <1>6 DEF Reading
<1>8. InputIn(v, u, "done")
  BY <1>7, InputFrame
<1>9. Good(u, c)
  BY <1>6, <1>8, ReadDone
<1>10. Len(q) \in Nat
  BY <1>2
<1> HIDE DEF u
<1> QED
  BY <1>1, <1>3, <1>6, <1>8, <1>9, <1>10

LEMMA ReadScheduleGood ==
    ASSUME NEW c, Good(drv, c), ReadSchedule
    PROVE  Good(drv', c)
BY ReadScheduleIs, StartDegradedModeGood, RescheduleGood

-----------------------------------------------------------------------------
(* The invariant is inductive.                                             *)

\* The event loop has ended.
Over(s) == s.ended /\ ToSet(s.roomq) \subseteq s.inprogress /\ s.inprogress \subseteq Dles /\ ~s.broken

IInv == \/ Inv(drv) /\ drv.current_tape \in Nat
        \/ Stopped(drv)
        \/ Over(drv)

\* The invariant holds at the start.
LEMMA InitGood == Init => Good(drv, 0)
<1> SUFFICES ASSUME Init PROVE Good(drv, 0)
  OBVIOUS
<1> DEFINE hh == [h \in Hdisks |-> [disksize |-> DiskSize[h], allocated_space |-> 0,
                                    allocated_dumpers |-> 0]]
           sc == [d \in Dles |->
                        [est_size |-> IF d \in Flush THEN 0 ELSE EstSize[d],
                         act_size |-> IF d \in Flush THEN Used(FlushHoldp[d]) ELSE 0,
                         holdp |-> IF d \in Flush THEN FlushHoldp[d] ELSE <<>>,
                         activehd |-> 0, dumper |-> 0,
                         dump_attempted |-> 0, taper_attempted |-> 0,
                         no_space |-> FALSE,
                         hold |-> IF d \in Flush THEN "auto" ELSE Holding[d]]]
           dm == [i \in Dumpers |-> IdleDumper]
           ck == [i \in Dumpers |-> NoChunker]
           tp == [mode |-> "init", done |-> FALSE, alive |-> TRUE, disk |-> None,
                  dumper |-> 0, port |-> FALSE, tape |-> None,
                  result |-> None, err |-> None]
           oc == [d \in Dles |-> "unread"]
<1>1. drv = [runq |-> <<>>, directq |-> <<>>, tapeq |-> <<>>, roomq |-> <<>>,
             ha |-> hh, sched |-> sc, dmp |-> dm, chk |-> ck, taper |-> tp,
             inprogress |-> {}, input |-> "flush", taper_started |-> FALSE,
             need_degraded |-> FALSE, degraded_mode |-> FALSE, current_tape |-> 0,
             pending_aborts |-> 0, delayed |-> <<>>, timer |-> None,
             blocked |-> FALSE, broken |-> FALSE, ended |-> FALSE,
             deaths |-> 0, noRooms |-> 0, outcome |-> oc]
  BY Zenon DEF Init
<1>2. \A d \in Dles : DOMAIN sc[d] = SchedFields /\ sc[d].est_size \in Nat
  <2>1. \A d \in Dles : d \notin Flush => EstSize[d] \in Nat
    BY DriverAssumption DEF Dles
  <2> QED
    BY <2>1 DEF SchedFields
<1>3. DOMAIN sc = Dles
  OBVIOUS
<1>4. DOMAIN dm = Dumpers /\ \A i \in Dumpers : /\ DOMAIN dm[i] = DumperFields
                                                /\ dm[i].dp = None /\ dm[i].result = None
                                                /\ ~dm[i].busy
  BY DEF IdleDumper, DumperFields
<1>5. DOMAIN ck = Dumpers /\ \A i \in Dumpers : DOMAIN ck[i] = ChunkerFields /\ ck[i] = NoChunker
  BY DEF NoChunker, ChunkerFields
<1>6. /\ DOMAIN tp = TaperFields /\ tp.mode = "init" /\ tp.disk = None /\ tp.dumper = 0
  BY DEF TaperFields
<1>7. DOMAIN oc = Dles /\ \A d \in Dles : oc[d] = "unread"
  OBVIOUS
<1> HIDE DEF hh, sc, dm, ck, tp, oc
<1>8. /\ DOMAIN drv = Fields /\ drv.sched = sc /\ drv.dmp = dm /\ drv.chk = ck /\ drv.taper = tp
      /\ drv.outcome = oc /\ drv.inprogress = {} /\ drv.runq = <<>> /\ drv.directq = <<>>
      /\ drv.tapeq = <<>> /\ drv.roomq = <<>> /\ drv.input = "flush" /\ drv.deaths = 0
      /\ drv.current_tape = 0 /\ ~drv.blocked /\ ~drv.broken /\ ~drv.ended
  BY <1>1 DEF Fields
<1>9. Shape(drv)
  <2> HIDE <1>1
  <2> QED
  BY <1>2, <1>3, <1>4, <1>5, <1>6, <1>7, <1>8 DEF Shape
<1>10. Flushing(drv) = {} /\ ToSet(<<>>) = {} /\ Queue(<<>>)
  BY <1>6, <1>8, QueueEmpty DEF Flushing
<1>11. Queues(drv)
  BY <1>8, <1>10 DEF Queues
<1>12. Placed(drv)
  <2>1. Flush \subseteq Dles /\ None # "unread"
    BY DEF Dles, None
  <2> QED
    BY <1>7, <1>8, <1>10, <2>1 DEF Placed, Apart, Held
<1>13. Inputs(drv)
  BY <1>7, <1>8 DEF Inputs
<1>14. DumperLinks(drv) /\ TaperLinks(drv) /\ RoomLinks(drv)
  <2>1. \A i \in Dumpers : ~Engaged(drv, i)
    BY <1>8 DEF Engaged
  <2>2. NoChunker.proc = None /\ NoChunker.result = None /\ NoChunker.sendresult = FALSE
        /\ None # "dead"
    BY DEF NoChunker, None
  <2>3. DumperLinks(drv)
    BY <1>4, <1>5, <1>8, <2>1 DEF DumperLinks
  <2>4. TaperLinks(drv)
    BY <1>6, <1>8, <2>1 DEF TaperLinks
  <2>5. RoomLinks(drv)
    BY <1>5, <1>8, <1>10, <2>2 DEF RoomLinks
  <2> QED
    BY <2>3, <2>4, <2>5
<1> QED
  BY <1>8, <1>9, <1>11, <1>12, <1>13, <1>14 DEF Good, Inv, Live

\* The end of the event loop.
LEMMA EventLoopEndsOver ==
    ASSUME NEW c, Good(drv, c), EventLoopEnds
    PROVE  Over(drv')
<1>0. Shape(drv) /\ Queues(drv) /\ ~drv.broken
  BY DEF Good, Inv, Live
<1>1. PICK o : drv' = [drv EXCEPT !.ended = TRUE, !.outcome = o]
  BY Zenon DEF EventLoopEnds
<1>2. drv'.ended /\ drv'.roomq = drv.roomq /\ drv'.inprogress = drv.inprogress
      /\ drv'.broken = drv.broken
  BY <1>0, <1>1, Shaped DEF Fields
<1> QED
  BY <1>0, <1>2 DEF Over, Queues

\* A step from a state of the event loop.
LEMMA NextLeft ==
    ASSUME NEW c \in Nat, Good(drv, c), Next
    PROVE  Left(drv', c) \/ Good(drv', c + 1) \/ Over(drv')
<1>1. CASE ReadFlush \/ ReadSchedule \/ HandleDumpersTime \/ EventLoopEnds
  BY <1>1, ReadFlushGood, ReadScheduleGood, HandleDumpersTimeGood, EventLoopEndsOver DEF Left
<1>2. ASSUME NEW i \in Dumpers, ChunkWrites(i) \/ ChunkSpeaks(i) \/ DumperSpeaks(i)
                                \/ (\E n \in Blocks : ChunkNoRoom(i, n))
                                \/ (\E n \in Blocks \cup {0} : ChunkDies(i, n)) \/ DumperDies(i)
      PROVE  Left(drv', c)
  <2>1. CASE ChunkWrites(i)
    BY <2>1, ChunkFullGood, ChunkEofGood DEF ChunkWrites, Left
  <2>2. CASE ChunkSpeaks(i)
    BY <2>2, ChunkAnswersGood, ChunkNoHeaderGood, ChunkAbortFinishedGood DEF ChunkSpeaks
  <2>3. CASE DumperSpeaks(i)
    BY <2>3, DumperResultGood DEF DumperSpeaks
  <2>4. CASE \E n \in Blocks : ChunkNoRoom(i, n)
    BY <2>4, ChunkNoRoomGood DEF Left
  <2>5. CASE \E n \in Blocks \cup {0} : ChunkDies(i, n)
    BY <2>5, ChunkDiesGood
  <2>6. CASE DumperDies(i)
    BY <2>6, DumperDiesGood
  <2> QED
    BY <1>2, <2>1, <2>2, <2>3, <2>4, <2>5, <2>6
<1>3. CASE TaperSpeaks
  BY <1>3, TaperOkGood, TapeErrorGood, TaperPortGood, TaperNewTapeGood, TaperNoNewTapeGood
     DEF TaperSpeaks, Left
<1>4. CASE TaperRequestsTape \/ TaperEnds \/ TaperDies
  BY <1>4, TaperRequestsTapeGood, TaperResultGood, TaperDiesGood DEF TaperEnds, Left
<1> QED
  BY <1>1, <1>2, <1>3, <1>4 DEF Next

\* Every action waits for an event of the loop.
LEMMA NextRunning == Next => Running
<1>1. ReadFlush \/ ReadSchedule \/ HandleDumpersTime \/ EventLoopEnds => Running
  BY Zenon DEF ReadFlush, ReadSchedule, HandleDumpersTime, EventLoopEnds
<1>2. ASSUME NEW i \in Dumpers PROVE ChunkWrites(i) \/ ChunkSpeaks(i) \/ DumperSpeaks(i) => Running
  BY Zenon DEF ChunkWrites, ChunkFull, ChunkEof, ChunkSpeaks, ChunkAnswers, ChunkNoHeader,
     ChunkAbortFinished, DumperSpeaks, DumperResult
<1>3. ASSUME NEW i \in Dumpers, NEW n PROVE ChunkNoRoom(i, n) \/ ChunkDies(i, n) \/ DumperDies(i) => Running
  BY Zenon DEF ChunkNoRoom, ChunkDies, DumperDies
<1>4. TaperSpeaks \/ TaperRequestsTape \/ TaperDies => Running
  BY Zenon DEF TaperSpeaks, TaperOk, TapeError, TaperPort, TaperNewTape, TaperNoNewTape,
     TaperRequestsTape, TaperDies
<1>5. TaperEnds => Running
  BY Zenon DEF TaperEnds, TaperResult
<1> QED
  BY <1>1, <1>2, <1>3, <1>4, <1>5, Zenon DEF Next

\* The invariant is inductive.
LEMMA IInvStep == IInv /\ [Next]_drv => IInv'
<1> SUFFICES ASSUME IInv, [Next]_drv PROVE IInv'
  OBVIOUS
<1>1. CASE Next
  <2>1. Running
    BY <1>1, NextRunning
  <2>2. ~Stopped(drv) /\ ~Over(drv)
    BY <2>1 DEF Running, Stopped, Over
  <2>3. PICK c \in Nat : Good(drv, c)
    BY <2>2 DEF IInv, Good
  <2>4. Left(drv', c) \/ Good(drv', c + 1) \/ Over(drv')
    BY <1>1, <2>3, NextLeft
  <2> QED
    BY <2>4 DEF IInv, Left, Good
<1>2. CASE UNCHANGED drv
  <2>1. IInv' = IInv
    BY <1>2, Zenon DEF IInv
  <2> QED
    BY <2>1
<1> QED
  BY <1>1, <1>2

\* The set of the places of a dump, in the terms of Held and Apart.
LEMMA OnePlaceOf ==
    ASSUME Queues(drv), Placed(drv), NEW d \in Dles
    PROVE  Cardinality(Places(d)) = IF drv.outcome[d] = None THEN 1 ELSE 0
<1>1. Apart(drv, d) /\ (drv.outcome[d] = None <=> Held(drv, d))
  BY DEF Placed
<1>2. d # None
  BY DriverAssumption
<1>3. \A x : x \in Places(d) <=>
          \/ x = "runq" /\ d \in ToSet(drv.runq)
          \/ x = "directq" /\ d \in ToSet(drv.directq)
          \/ x = "tapeq" /\ d \in ToSet(drv.tapeq)
          \/ x = "dumping" /\ d \in drv.inprogress
          \/ x = "flushing" /\ d \in Flushing(drv)
  BY <1>2 DEF Places, Flushing
<1>4. CASE Held(drv, d)
  <2>1. \E y : Places(d) = {y}
    <3>1. CASE d \in ToSet(drv.runq)
      <4>1. \A x : x \in Places(d) <=> x = "runq"
        BY <3>1, <1>1, <1>3 DEF Apart
      <4>2. Places(d) = {"runq"}
        BY <4>1
      <4> QED BY <4>2
    <3>2. CASE d \in ToSet(drv.directq)
      <4>1. \A x : x \in Places(d) <=> x = "directq"
        BY <3>2, <1>1, <1>3 DEF Apart
      <4>2. Places(d) = {"directq"}
        BY <4>1
      <4> QED BY <4>2
    <3>3. CASE d \in ToSet(drv.tapeq)
      <4>1. \A x : x \in Places(d) <=> x = "tapeq"
        BY <3>3, <1>1, <1>3 DEF Apart
      <4>2. Places(d) = {"tapeq"}
        BY <4>1
      <4> QED BY <4>2
    <3>4. CASE d \in drv.inprogress
      <4>1. \A x : x \in Places(d) <=> x = "dumping"
        BY <3>4, <1>1, <1>3 DEF Apart
      <4>2. Places(d) = {"dumping"}
        BY <4>1
      <4> QED BY <4>2
    <3>5. CASE d \in Flushing(drv)
      <4>1. \A x : x \in Places(d) <=> x = "flushing"
        BY <3>5, <1>1, <1>3 DEF Apart
      <4>2. Places(d) = {"flushing"}
        BY <4>1
      <4> QED BY <4>2
    <3> QED
      BY <1>4, <3>1, <3>2, <3>3, <3>4, <3>5 DEF Held
  <2> QED
    BY <1>1, <1>4, <2>1, FS_Singleton
<1>5. CASE ~Held(drv, d)
  <2>1. Places(d) = {}
    BY <1>3, <1>5 DEF Held
  <2> QED
    BY <1>1, <1>5, <2>1, FS_EmptySet
<1> QED
  BY <1>4, <1>5

\* It implies that every dump is in one place.
LEMMA IInvOnePlace == IInv => OnePlace
<1>1. ASSUME Queues(drv), Placed(drv), drv.broken => drv.deaths > 0 PROVE OnePlace
  BY <1>1, OnePlaceOf DEF OnePlace, Queues
<1>2. CASE Inv(drv)
  BY <1>1, <1>2 DEF Inv, Live
<1>3. CASE Stopped(drv)
  BY <1>1, <1>3 DEF Stopped
<1>4. CASE Over(drv)
  BY <1>4 DEF Over, OnePlace
<1> QED
  BY <1>2, <1>3, <1>4 DEF IInv

\* In every state the driver reaches, for any schedule, flush list, holding disks and
\* number of dumpers, and whichever children die: a dump that was read and not parted with
\* is in exactly one of the queues, a dumper's hands and the taper's; a dump that waits for
\* room is being dumped; and queue links break only after the death of a child.
THEOREM DumpInOnePlace == Spec => []OnePlace
<1>1. Init => IInv
  BY InitGood DEF IInv, Good
<1> QED
  BY <1>1, IInvStep, IInvOnePlace, PTL DEF Spec
=============================================================================
