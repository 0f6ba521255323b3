------------------------- MODULE DriverSpaceProofs --------------------------
(***************************************************************************)
(* The space the driver gives to dumps is accounted for, and its chunkers  *)
(* use what they were given.  DriverProofs has the places of the dumps and *)
(* the links between dumps, dumpers and the taper, HoldingDiskProofs what  *)
(* the functions on entries and accounts do; here each state also keeps    *)
(* Books: the page of each dump relates its entries, what its chunker      *)
(* wrote and may write, and the queue it waits in, and the account of each *)
(* holding disk is the sum of the entries.                                 *)
(*                                                                         *)
(* For each C function, a lemma says that it keeps the books of a state of *)
(* the event loop, and then one for each action of Driver.                 *)
(***************************************************************************)
EXTENDS DriverProofs, HoldingDiskProofs
-----------------------------------------------------------------------------
(* The books of the driver.                                                *)

\* A chunker writes dump d.
Works(s, d) == d \in s.inprogress /\ s.dmp[s.sched[d].dumper].chunker

\* What the driver keeps about the space of dump d: its entries are as big as its
\* files while no chunker writes them; the chunker is where the driver thinks it
\* is; a dump waits for room when its entries are full, and for a dumper without
\* any; a dump of an earlier run has the entries it came with until it is taped.
Page(s, d) ==
    /\ Holdp(s.sched[d].holdp) /\ s.sched[d].act_size \in Nat
    /\ ~Works(s, d) => Settled(s.sched[d].holdp)
    /\ Works(s, d) => AtWork(s.sched[d].holdp, s.sched[d].activehd, s.chk[s.sched[d].dumper])
    /\ d \in ToSet(s.roomq) => Filled(s.sched[d].holdp, s.sched[d].activehd)
    /\ d \in ToSet(s.runq) => s.sched[d].holdp = <<>>
    /\ d \in Flush /\ s.outcome[d] # "taped" => s.sched[d].holdp = FlushHoldp[d]
    /\ d \notin Flush /\ s.outcome[d] = "unread" => s.sched[d].holdp = <<>>

\* A chunker that writes or waits for room has its dump from a dumper.
Hands(s) ==
    \A i \in Dumpers : s.chk[i].proc \in {"writing", "room"} => Engaged(s, i) /\ s.dmp[i].chunker

Reserved(s, h) == [d \in Dles \ Flush |-> OnDisk(s.sched[d].holdp, "reserved", h)]
Freed(s, h) == [d \in {d \in Flush : s.outcome[d] = "taped"} |-> OnDisk(FlushHoldp[d], "used", h)]
Balanced(s) ==
    \A h \in Hdisks :
        /\ s.ha[h].allocated_space = SumFunction(Reserved(s, h)) - SumFunction(Freed(s, h))
        /\ s.ha[h].allocated_space <= s.ha[h].disksize

Books(s) == Accounts(s.ha) /\ (\A d \in Dles : Page(s, d)) /\ Hands(s) /\ Balanced(s)

\* What a chunker may do without a word to the driver: end, before its entry is full.
Calmer(a, b) ==
    \/ b.proc = a.proc /\ b.wrote = a.wrote /\ b.use = a.use
    \/ /\ b.proc \notin {"writing", "room"} /\ b.wrote \in Nat /\ b.use \in Nat
       /\ a.wrote <= b.wrote /\ b.wrote + b.use <= a.wrote + a.use

\* The page of dump d says the same in s and t.
SamePage(s, t, d) ==
    /\ t.sched[d].holdp = s.sched[d].holdp /\ t.sched[d].act_size \in Nat
    /\ Works(s, d) <=> Works(t, d)
    /\ Works(t, d) => /\ t.sched[d].activehd = s.sched[d].activehd
                      /\ Calmer(s.chk[s.sched[d].dumper], t.chk[t.sched[d].dumper])
    /\ d \in ToSet(t.roomq) => d \in ToSet(s.roomq) /\ t.sched[d].activehd = s.sched[d].activehd
    /\ d \in ToSet(t.runq) => d \in ToSet(s.runq) \/ s.sched[d].holdp = <<>>
    /\ d \in Flush => (t.outcome[d] = "taped" <=> s.outcome[d] = "taped")
    /\ d \notin Flush /\ t.outcome[d] = "unread" => s.outcome[d] = "unread"

LEMMA CalmAtWork ==
    ASSUME NEW q, Holdp(q), NEW a, NEW x, AtWork(q, a, x), NEW y, Calmer(x, y)
    PROVE  AtWork(q, a, y)
<1>1. Position(q, a) /\ x.wrote \in Nat /\ x.use \in Nat
  BY DEF AtWork
<1>2. Before(q, a) \in Nat /\ q[a].used \in Nat /\ q[a].reserved \in Nat
  BY <1>1, EntryOf
<1>3. CASE y.proc = x.proc /\ y.wrote = x.wrote /\ y.use = x.use
  BY <1>3 DEF AtWork
<1>4. CASE /\ y.proc \notin {"writing", "room"} /\ y.wrote \in Nat /\ y.use \in Nat
           /\ x.wrote <= y.wrote /\ y.wrote + y.use <= x.wrote + x.use
  <2>1. Before(q, a) + q[a].used <= x.wrote /\ x.wrote + x.use <= Before(q, a) + q[a].reserved
    BY DEF AtWork
  <2>2. Before(q, a) + q[a].used <= y.wrote /\ y.wrote + y.use <= Before(q, a) + q[a].reserved
    <3>1. PICK b, u, v, xw, xu, yw, yu :
            /\ b = Before(q, a) /\ u = q[a].used /\ v = q[a].reserved
            /\ xw = x.wrote /\ xu = x.use /\ yw = y.wrote /\ yu = y.use
      OBVIOUS
    <3>2. /\ {b, u, v, xw, xu, yw, yu} \subseteq Nat
          /\ b + u <= xw /\ xw + xu <= b + v /\ xw <= yw /\ yw + yu <= xw + xu
      BY <1>1, <1>2, <1>4, <2>1, <3>1
    <3>3. b + u <= yw /\ yw + yu <= b + v
      BY <3>2
    <3> QED
      BY <3>1, <3>3
  <2> QED
    BY <1>1, <1>4, <2>2 DEF AtWork
<1> QED
  BY <1>3, <1>4 DEF Calmer

LEMMA PageSame ==
    ASSUME NEW s, NEW t, NEW d, Page(s, d), SamePage(s, t, d)
    PROVE  Page(t, d)
<1>1. Holdp(t.sched[d].holdp) /\ t.sched[d].act_size \in Nat
  BY DEF Page, SamePage
<1>2. ~Works(t, d) => Settled(t.sched[d].holdp)
  BY DEF Page, SamePage
<1>3. Works(t, d) => AtWork(t.sched[d].holdp, t.sched[d].activehd, t.chk[t.sched[d].dumper])
  BY CalmAtWork DEF Page, SamePage
<1>4. d \in ToSet(t.roomq) => Filled(t.sched[d].holdp, t.sched[d].activehd)
  BY DEF Page, SamePage
<1>5. d \in ToSet(t.runq) => t.sched[d].holdp = <<>>
  BY DEF Page, SamePage
<1>6. d \in Flush /\ t.outcome[d] # "taped" => t.sched[d].holdp = FlushHoldp[d]
  BY DEF Page, SamePage
<1>7. d \notin Flush /\ t.outcome[d] = "unread" => t.sched[d].holdp = <<>>
  BY DEF Page, SamePage
<1> QED
  BY <1>1, <1>2, <1>3, <1>4, <1>5, <1>6, <1>7 DEF Page

\* the same space on the holding disks
SameSpace(s, t) ==
    /\ Accounts(t.ha)
    /\ \A h \in Hdisks : /\ t.ha[h].allocated_space = s.ha[h].allocated_space
                         /\ t.ha[h].disksize = s.ha[h].disksize

\* Nothing happens that the books look at.
LEMMA BooksSame ==
    ASSUME NEW s, NEW t, Books(s), SameSpace(s, t), \A d \in Dles : SamePage(s, t, d), Hands(t)
    PROVE  Books(t)
<1>1. \A d \in Dles : Page(t, d)
  BY PageSame DEF Books
<1>2. Flush \subseteq Dles
  BY DEF Dles
<1>3. ASSUME NEW h \in Hdisks
      PROVE  Reserved(t, h) = Reserved(s, h) /\ Freed(t, h) = Freed(s, h)
  <2>1. \A d \in Dles : t.sched[d].holdp = s.sched[d].holdp
    BY DEF SamePage
  <2>2. {d \in Flush : t.outcome[d] = "taped"} = {d \in Flush : s.outcome[d] = "taped"}
    BY <1>2 DEF SamePage
  <2> QED
    BY <2>1, <2>2, Zenon DEF Reserved, Freed
<1>4. Balanced(t)
  BY <1>3 DEF Books, Balanced, SameSpace
<1> QED
  BY <1>1, <1>4 DEF Books, SameSpace

LEMMA DlesFinite == IsFiniteSet(Dles \ Flush) /\ IsFiniteSet(Flush) /\ Flush \subseteq Dles
<1>1. IsFiniteSet(Flush)
  BY DriverAssumption
<1>2. Schedule \in Seq(Dles)
  BY DriverAssumption
<1>3. IsFiniteSet(ToSet(Schedule))
  <2>1. DOMAIN Schedule = 1..Len(Schedule) /\ Len(Schedule) \in Nat
    BY <1>2
  <2>2. IsFiniteSet(1..Len(Schedule))
    BY <2>1, FS_Interval
  <2>3. Schedule \in Surjection(1..Len(Schedule), ToSet(Schedule))
    BY <1>2, <2>1 DEF ToSet, Surjection
  <2> QED
    BY <2>2, <2>3, FS_Surjection
<1>4. IsFiniteSet(Dles)
  BY <1>1, <1>3, FS_Union DEF Dles
<1> QED
  BY <1>1, <1>4, FS_Subset DEF Dles

LEMMA ReservedInts ==
    ASSUME NEW s, \A d \in Dles : Page(s, d), NEW h
    PROVE  Ints(Reserved(s, h), Dles \ Flush)
<1>1. \A d \in Dles \ Flush : OnDisk(s.sched[d].holdp, "reserved", h) \in Int
  BY OnDiskIs DEF Page, Holdp, Amount
<1> QED
  BY <1>1, DlesFinite DEF Ints, Reserved

LEMMA FreedInts ==
    ASSUME NEW s, NEW h
    PROVE  Ints(Freed(s, h), {d \in Flush : s.outcome[d] = "taped"})
<1>1. \A d \in Flush : FlushHoldp[d] \in Seq(HdEntry)
  BY DriverAssumption DEF HdEntry
<1>2. \A d \in Flush : OnDisk(FlushHoldp[d], "used", h) \in Int
  BY <1>1, OnDiskIs DEF Amount
<1>3. IsFiniteSet({d \in Flush : s.outcome[d] = "taped"})
  BY DlesFinite, FS_Subset
<1> QED
  BY <1>2, <1>3 DEF Ints, Freed
\* The books but for dump d, whose entries are e now
OtherPages(s, t, d) == \A e \in Dles : e # d => SamePage(s, t, e)

\* The page of one dump changes, and the space taken by as much.
LEMMA BooksChange ==
    ASSUME NEW s, NEW t, Books(s), NEW d \in Dles \ Flush, OtherPages(s, t, d),
           Page(t, d), Hands(t), Accounts(t.ha),
           \A h \in Hdisks :
              /\ t.ha[h].allocated_space = s.ha[h].allocated_space
                    + OnDisk(t.sched[d].holdp, "reserved", h) - OnDisk(s.sched[d].holdp, "reserved", h)
              /\ t.ha[h].allocated_space <= t.ha[h].disksize
    PROVE  Books(t)
<1>0. Flush \subseteq Dles /\ \A e \in Dles : Page(s, e)
  BY DlesFinite DEF Books
<1>1. \A e \in Dles : Page(t, e)
  BY <1>0, PageSame DEF OtherPages
<1>2. ASSUME NEW h \in Hdisks
      PROVE  t.ha[h].allocated_space = SumFunction(Reserved(t, h)) - SumFunction(Freed(t, h))
  <2>1. {e \in Flush : t.outcome[e] = "taped"} = {e \in Flush : s.outcome[e] = "taped"}
    BY <1>0 DEF SamePage, OtherPages
  <2>2. Freed(t, h) = Freed(s, h)
    BY <2>1, Zenon DEF Freed
  <2> DEFINE f == Reserved(s, h)
             g == Reserved(t, h)
  <2>3. Ints(f, Dles \ Flush) /\ Ints(g, Dles \ Flush)
    BY <1>0, <1>1, ReservedInts
  <2>4. /\ f[d] = OnDisk(s.sched[d].holdp, "reserved", h) /\ g[d] = OnDisk(t.sched[d].holdp, "reserved", h)
        /\ \A e \in Dles \ Flush : e # d => g[e] = f[e]
    BY DEF Reserved, OtherPages, SamePage
  <2> HIDE DEF f, g
  <2>5. SumFunction(g) = SumFunction(f) - f[d] + g[d]
    BY <2>3, <2>4, SumChange
  <2>6. SumFunction(f) \in Int /\ f[d] \in Int /\ g[d] \in Int
    BY <2>3, SumSplit DEF Ints
  <2>7. Ints(Freed(s, h), {e \in Flush : s.outcome[e] = "taped"})
    BY FreedInts
  <2>8. SumFunction(Freed(s, h)) \in Int
    BY <2>7, SumSplit
  <2>9. s.ha[h].allocated_space = SumFunction(f) - SumFunction(Freed(s, h))
    BY DEF Books, Balanced, f
  <2>10. t.ha[h].allocated_space = s.ha[h].allocated_space + g[d] - f[d]
    BY <2>4
  <2>11. t.ha[h].allocated_space = SumFunction(g) - SumFunction(Freed(s, h))
    BY <2>5, <2>6, <2>8, <2>9, <2>10
  <2> QED
    BY <2>2, <2>11 DEF g
<1>3. Balanced(t)
  BY <1>2 DEF Balanced
<1> QED
  BY <1>1, <1>3 DEF Books

\* A dump of an earlier run is taped, and its files are unlinked.
LEMMA BooksTaped ==
    ASSUME NEW s, NEW t, Books(s), NEW d \in Flush, OtherPages(s, t, d), Page(t, d), Hands(t),
           Accounts(t.ha), s.outcome[d] # "taped", t.outcome[d] = "taped",
           \A h \in Hdisks :
              /\ t.ha[h].allocated_space = s.ha[h].allocated_space - OnDisk(FlushHoldp[d], "used", h)
              /\ t.ha[h].allocated_space <= t.ha[h].disksize
    PROVE  Books(t)
<1>0. Flush \subseteq Dles /\ d \in Dles
  BY DlesFinite
<1>1. \A e \in Dles : Page(t, e)
  BY PageSame DEF OtherPages, Books
<1>2. ASSUME NEW h \in Hdisks
      PROVE  t.ha[h].allocated_space = SumFunction(Reserved(t, h)) - SumFunction(Freed(t, h))
  <2>1. Reserved(t, h) = Reserved(s, h)
    <3>1. \A e \in Dles \ Flush : t.sched[e].holdp = s.sched[e].holdp
      BY DEF OtherPages, SamePage
    <3> QED
      BY <3>1, Zenon DEF Reserved
  <2> DEFINE A == {e \in Flush : s.outcome[e] = "taped"}
             B == {e \in Flush : t.outcome[e] = "taped"}
             f == Freed(t, h)
             g == Freed(s, h)
  <2>2. A = B \ {d} /\ d \in B
    BY <1>0 DEF OtherPages, SamePage
  <2>3. Ints(f, B) /\ Ints(g, A)
    BY FreedInts
  <2>4. f[d] = OnDisk(FlushHoldp[d], "used", h) /\ \A e \in A : f[e] = g[e]
    BY <2>2 DEF Freed
  <2> HIDE DEF A, B, f, g
  <2>5. SumFunction(g) \in Int /\ SumFunction(f) = f[d] + SumFunction(g)
    <3>1. Ints(g, B \ {d}) /\ \A e \in B \ {d} : g[e] = f[e]
      BY <2>2, <2>3, <2>4
    <3>2. d \in B /\ Ints(f, B)
      BY <2>2, <2>3
    <3>3. SumFunction(g) \in Int
      BY <3>1, SumSplit
    <3>4. SumFunction(f) = f[d] + SumFunction(g)
      <4>1. SumFunction(f) = f[d] + SumFunction([y \in B \ {d} |-> f[y]])
        BY <3>2, SumSplit
      <4>2. g = [y \in B \ {d} |-> g[y]]
        BY <3>1 DEF Ints
      <4>3. g = [y \in B \ {d} |-> f[y]]
        BY <3>1, <4>2
      <4> QED
        BY <4>1, <4>3
    <3> QED
      BY <3>3, <3>4
  <2>6. f[d] \in Int
    BY <2>2, <2>3 DEF Ints
  <2>7. s.ha[h].allocated_space = SumFunction(Reserved(s, h)) - SumFunction(g)
    BY DEF Books, Balanced, g
  <2>8. SumFunction(Reserved(s, h)) \in Int
    <3>1. Ints(Reserved(s, h), Dles \ Flush)
      BY ReservedInts DEF Books
    <3> QED
      BY <3>1, SumSplit
  <2>9. t.ha[h].allocated_space = s.ha[h].allocated_space - f[d]
    BY <2>4
  <2>10. t.ha[h].allocated_space = SumFunction(Reserved(s, h)) - SumFunction(f)
    BY <2>5, <2>6, <2>7, <2>8, <2>9
  <2> QED
    BY <2>1, <2>10 DEF f
<1>3. Balanced(t)
  BY <1>2 DEF Balanced
<1> QED
  BY <1>1, <1>3 DEF Books

\* A live driver knows its chunkers.
LEMMA GoodHands ==
    ASSUME NEW s, NEW c, Good(s, c)
    PROVE  Hands(s)
<1> SUFFICES ASSUME NEW i \in Dumpers, s.chk[i].proc \in {"writing", "room"}
             PROVE  Engaged(s, i) /\ s.dmp[i].chunker
  BY DEF Hands
<1>1. s.chk[i] # NoChunker
  BY DEF NoChunker, None
<1>2. Engaged(s, i)
  BY <1>1 DEF Good, Inv, DumperLinks
<1>3. s.dmp[i].chunker
  BY <1>1, <1>2 DEF Good, Inv, TaperLinks
<1> QED
  BY <1>2, <1>3

Fine(s, c) == Good(s, c) /\ Books(s)

\* A step the books do not look at
LEMMA FineSame ==
    ASSUME NEW s, NEW c, Fine(s, c), NEW t, Good(t, c), t.ha = s.ha, \A d \in Dles : SamePage(s, t, d)
    PROVE  Fine(t, c)
<1>1. SameSpace(s, t)
  BY DEF SameSpace, Fine, Books
<1> QED
  BY <1>1, GoodHands, BooksSame DEF Fine

-----------------------------------------------------------------------------
(* Handlers that do not touch the space.                                   *)

\* The chunkers go on, and no dump comes into runq.
Plain(s, t) ==
    /\ t.ha = s.ha /\ t.chk = s.chk /\ t.dmp = s.dmp
    /\ t.inprogress = s.inprogress /\ t.roomq = s.roomq
    /\ ToSet(t.runq) \subseteq ToSet(s.runq)
    /\ \A e \in Dles :
          /\ t.sched[e].holdp = s.sched[e].holdp /\ t.sched[e].dumper = s.sched[e].dumper
          /\ t.sched[e].act_size = s.sched[e].act_size \/ t.sched[e].act_size = 0
          /\ e \in s.inprogress => t.sched[e].activehd = s.sched[e].activehd
          /\ \/ t.outcome[e] = s.outcome[e]
             \/ /\ t.outcome[e] # "unread"
                /\ e \in Flush => s.outcome[e] # "taped" /\ t.outcome[e] # "taped"

LEMMA PlainFine ==
    ASSUME NEW s, NEW c, Fine(s, c), NEW t, Good(t, c), Plain(s, t)
    PROVE  Fine(t, c)
<1>1. ASSUME NEW d \in Dles PROVE SamePage(s, t, d)
  <2>1. s.sched[d].act_size \in Nat
    BY DEF Fine, Books, Page
  <2>2. t.sched[d].holdp = s.sched[d].holdp /\ t.sched[d].act_size \in Nat
    BY <2>1 DEF Plain
  <2>3. Works(s, d) <=> Works(t, d)
    BY DEF Plain, Works
  <2>4. Works(t, d) => /\ t.sched[d].activehd = s.sched[d].activehd
                       /\ Calmer(s.chk[s.sched[d].dumper], t.chk[t.sched[d].dumper])
    BY DEF Plain, Works, Calmer
  <2>5. d \in ToSet(t.roomq) => d \in ToSet(s.roomq) /\ t.sched[d].activehd = s.sched[d].activehd
    BY DEF Plain, Fine, Good, Inv, Queues
  <2>6. d \in ToSet(t.runq) => d \in ToSet(s.runq)
    BY DEF Plain
  <2>7. d \in Flush => (t.outcome[d] = "taped" <=> s.outcome[d] = "taped")
    BY DEF Plain
  <2>8. t.outcome[d] = "unread" => s.outcome[d] = "unread"
    BY DEF Plain
  <2> QED
    BY <2>2, <2>3, <2>4, <2>5, <2>6, <2>7, <2>8 DEF SamePage
<1> QED
  BY <1>1, FineSame DEF Plain

\* Nothing happens but to fields that the books never look at.
LEMMA SeenFine ==
    ASSUME NEW s, NEW c, Fine(s, c), NEW t, Seen(s, t)
    PROVE  Fine(t, c)
<1>1. Good(t, c)
  BY SeenGood DEF Fine
<1>2. Plain(s, t)
  BY DEF Seen, Plain
<1> QED
  BY <1>1, <1>2, PlainFine

LEMMA PartedPlain ==
    ASSUME NEW s, Shape(s), NEW d \in Dles, d \notin s.inprogress, NEW how, how # "unread",
           d \in Flush => s.outcome[d] # "taped" /\ how # "taped"
    PROVE  Plain(s, Parted(s, d, how))
<1> DEFINE t == Parted(s, d, how)
<1>1. PartedIn(s, t, d) /\ t.outcome[d] = how
  BY PartedFrame
<1>2. t.sched[d] = [s.sched[d] EXCEPT !.est_size = 0, !.act_size = 0, !.activehd = 0,
                                      !.dump_attempted = 0, !.taper_attempted = 0,
                                      !.no_space = FALSE, !.hold = "auto"]
  <2>1. t.sched = [s.sched EXCEPT ![d] = [@ EXCEPT !.est_size = 0, !.act_size = 0, !.activehd = 0,
                                     !.dump_attempted = 0, !.taper_attempted = 0,
                                     !.no_space = FALSE, !.hold = "auto"]]
    BY Shaped DEF Parted, Fields
  <2> QED
    BY <2>1, Shaped
<1> HIDE DEF t
<1>3. t.sched[d].holdp = s.sched[d].holdp /\ t.sched[d].act_size = 0
  BY <1>2, Shaped DEF SchedFields
<1>4. t.sched[d].dumper = s.sched[d].dumper
  BY <1>1 DEF PartedIn
<1>5. ASSUME NEW e \in Dles
      PROVE  /\ t.sched[e].holdp = s.sched[e].holdp /\ t.sched[e].dumper = s.sched[e].dumper
             /\ t.sched[e].act_size = s.sched[e].act_size \/ t.sched[e].act_size = 0
             /\ e \in s.inprogress => t.sched[e].activehd = s.sched[e].activehd
             /\ \/ t.outcome[e] = s.outcome[e]
                \/ /\ t.outcome[e] # "unread"
                   /\ e \in Flush => s.outcome[e] # "taped" /\ t.outcome[e] # "taped"
  <2>1. CASE e = d
    BY <1>1, <1>3, <1>4, <2>1
  <2>2. CASE e # d
    BY <1>1, <2>2 DEF PartedIn
  <2> QED
    BY <2>1, <2>2
<1>6. Plain(s, t)
  BY <1>1, <1>5 DEF PartedIn, Plain
<1> QED
  BY <1>6 DEF t

LEMMA PlainTrans ==
    ASSUME NEW s, NEW t, NEW u, Plain(s, t), Plain(t, u)
    PROVE  Plain(s, u)
<1>1. ASSUME NEW e \in Dles
      PROVE  /\ u.sched[e].holdp = s.sched[e].holdp /\ u.sched[e].dumper = s.sched[e].dumper
             /\ u.sched[e].act_size = s.sched[e].act_size \/ u.sched[e].act_size = 0
             /\ e \in s.inprogress => u.sched[e].activehd = s.sched[e].activehd
             /\ \/ u.outcome[e] = s.outcome[e]
                \/ /\ u.outcome[e] # "unread"
                   /\ e \in Flush => s.outcome[e] # "taped" /\ u.outcome[e] # "taped"
  BY DEF Plain
<1> QED
  BY <1>1 DEF Plain

\* startaflush
LEMMA StartAFlushFine ==
    ASSUME NEW s, NEW c, Fine(s, c), NEW t \in StartAFlush(s)
    PROVE  Fine(t, c)
<1>1. CASE CanFlush(s) /\ s.tapeq # <<>>
  <2>1. PICK d \in ToSet(s.tapeq) :
           t = [s EXCEPT !.tapeq = RemoveFirst(@, d),
                    !.taper = [@ EXCEPT !.mode = "file", !.disk = d, !.dumper = 0,
                                        !.result = None, !.err = None]]
    BY <1>1 DEF StartAFlush
  <2>2. Good(t, c)
    BY StartAFlushGood DEF Fine
  <2>3. Shape(s)
    BY DEF Fine, Good, Inv
  <2>4. Plain(s, t)
    BY <2>1, <2>3, Shaped DEF Plain, Fields
  <2> QED
    BY <2>2, <2>4, PlainFine
<1>2. CASE ~(CanFlush(s) /\ s.tapeq # <<>>)
  BY <1>2 DEF StartAFlush
<1> QED
  BY <1>1, <1>2

\* A dump of runq is parted with, or goes to directq.
LEMMA RunqPartedFine ==
    ASSUME NEW s, NEW c, Fine(s, c), NEW d \in ToSet(s.runq), NEW how, how \notin {None, "unread"},
           NEW t, t = Parted(OffRunq(s, d), d, how)
    PROVE  Fine(t, c)
<1> DEFINE r == OffRunq(s, d)
<1>0. Good(s, c) /\ Shape(s) /\ Queues(s) /\ Placed(s)
  BY DEF Fine, Good, Inv
<1>1. d \in Dles /\ Queue(s.runq)
  BY <1>0 DEF Queues, Queue, ToSet
<1>2. d \notin s.inprogress /\ d \notin Flush
  BY <1>0, <1>1 DEF Placed, Apart
<1>3. /\ DOMAIN r = Fields /\ r.runq = RemoveFirst(s.runq, d)
      /\ r.dmp = s.dmp /\ r.chk = s.chk /\ r.inprogress = s.inprogress /\ r.sched = s.sched
      /\ r.outcome = s.outcome /\ r.taper = s.taper /\ r.ha = s.ha /\ r.deaths = s.deaths
      /\ r.roomq = s.roomq
  BY <1>0, Shaped DEF Fields, OffRunq
<1>4. Shape(r)
  BY <1>0, <1>3 DEF Shape
<1> HIDE DEF r
<1>5. ToSet(r.runq) \subseteq ToSet(s.runq)
  BY <1>1, <1>3, QueueRemove
<1>6. Plain(s, r)
  BY <1>3, <1>5 DEF Plain
<1>7. Plain(r, t)
  BY <1>1, <1>2, <1>3, <1>4, PartedPlain DEF r
<1>8. Good(t, c)
  BY <1>0, RunqParted
<1> QED
  BY <1>6, <1>7, <1>8, PlainTrans, PlainFine

LEMMA RunqToDirectFine ==
    ASSUME NEW s, NEW c, Fine(s, c), NEW d \in ToSet(s.runq), NEW t, t = ToDirectq(s, d)
    PROVE  Fine(t, c)
<1>0. Good(s, c) /\ Shape(s) /\ Queues(s)
  BY DEF Fine, Good, Inv
<1>1. d \in Dles
  BY <1>0 DEF Queues, Queue, ToSet
<1>2. Good(t, c) /\ ToSet(t.runq) = ToSet(s.runq) \ {d}
  BY <1>0, RunqToDirect
<1>3. /\ t.dmp = s.dmp /\ t.chk = s.chk /\ t.inprogress = s.inprogress /\ t.roomq = s.roomq
      /\ t.outcome = s.outcome /\ t.ha = s.ha /\ t.sched = [s.sched EXCEPT ![d].hold = "never"]
  BY <1>0, Shaped DEF Fields, ToDirectq
<1>4. \A e \in Dles :
          /\ t.sched[e].holdp = s.sched[e].holdp /\ t.sched[e].dumper = s.sched[e].dumper
          /\ t.sched[e].act_size = s.sched[e].act_size /\ t.sched[e].activehd = s.sched[e].activehd
  BY <1>0, <1>1, <1>3, Shaped DEF SchedFields
<1>5. Plain(s, t)
  BY <1>2, <1>3, <1>4 DEF Plain
<1> QED
  BY <1>2, <1>5, PlainFine

LEMMA EvictFine ==
    ASSUME NEW s, NEW c, Fine(s, c), NEW d \in Dles, NEW t, t = EvictUnfit(s, d)
    PROVE  Fine(t, c)
<1>1. CASE d \in NoRoom(s)
  <2>1. d \in ToSet(s.runq) /\ t = Evict(s, d)
    BY <1>1 DEF NoRoom, Candidates, EvictUnfit
  <2>2. CASE s.sched[d].hold = "required"
    <3>1. t = Parted(OffRunq(s, d), d, "lost") /\ "lost" \notin {None, "unread"}
      BY <2>1, <2>2, Zenon DEF Evict, None, OffRunq
    <3> QED
      BY <2>1, <3>1, RunqPartedFine
  <2>3. CASE s.sched[d].hold # "required"
    <3>1. t = ToDirectq(s, d)
      BY <2>1, <2>3, Zenon DEF Evict, ToDirectq
    <3> QED
      BY <2>1, <3>1, RunqToDirectFine
  <2> QED
    BY <2>2, <2>3
<1>2. CASE d \notin NoRoom(s)
  BY <1>2 DEF EvictUnfit
<1> QED
  BY <1>1, <1>2

LEMMA EvictAllFine ==
    ASSUME NEW s, NEW c, Fine(s, c), NEW t, t = FoldLeft(EvictUnfit, s, s.runq)
    PROVE  Fine(t, c)
<1> DEFINE q == s.runq
<1>0. q \in Seq(Dles) /\ Len(q) \in Nat
  BY DEF Fine, Good, Inv, Queues, Queue
<1>1. PICK f : /\ f[0] = s
               /\ \A n \in 1..Len(q) : f[n] = EvictUnfit(f[n - 1], q[n])
               /\ FoldLeft(EvictUnfit, s, q) = f[Len(q)]
  BY <1>0, EvictRounds
<1> HIDE DEF q
<1> DEFINE T == {k \in 0..Len(q) : Fine(f[k], c)}
<1>2. 0 \in T
  BY <1>0, <1>1
<1>3. ASSUME NEW k \in 0..(Len(q) - 1), k \in T PROVE k + 1 \in T
  <2>1. k + 1 \in 1..Len(q) /\ (k + 1) - 1 = k /\ k + 1 \in 0..Len(q)
    BY <1>0
  <2>2. q[k + 1] \in Dles /\ f[k + 1] = EvictUnfit(f[k], q[k + 1]) /\ Fine(f[k], c)
    BY <1>0, <1>1, <1>3, <2>1
  <2> QED
    BY <2>1, <2>2, EvictFine
<1> HIDE DEF T
<1>4. \A k \in 0..Len(q) : k \in T
  BY <1>0, <1>2, <1>3, EvictLoop!UpTo
<1>5. Len(q) \in T
  BY <1>0, <1>4
<1> QED
  BY <1>1, <1>5 DEF T, q
\* start_degraded_mode
LEMMA DegradeDumpFine ==
    ASSUME NEW a, NEW c, Degrading(a, c), Fine(a.s, c), NEW d \in ToSet(a.s.runq), NEW b, b = DegradeDump(a, d)
    PROVE  Fine(b.s, c)
<1> DEFINE fits == ReservedSpace + a.full + a.s.sched[d].est_size <= TotalDisksize
           u == Parted(OffRunq(a.s, d), d, "failed")
<1>1. CASE d \in Full /\ ~fits /\ d \in NoDegr
  <2>1. b = [a EXCEPT !.s = u]
    BY <1>1, Zenon DEF DegradeDump, OffRunq
  <2>2. Fine(u, c)
    <3>1. "failed" \notin {None, "unread"}
      BY DEF None
    <3> QED
      BY <3>1, RunqPartedFine
  <2> HIDE DEF u
  <2>3. b.s = u
    BY <2>1 DEF Degrading
  <2> QED
    BY <2>2, <2>3
<1>2. CASE ~(d \in Full /\ ~fits /\ d \in NoDegr)
  <2>1. \E x : b = [a EXCEPT !.full = x]
    BY <1>2, Zenon DEF DegradeDump
  <2>2. b.s = a.s
    BY <2>1 DEF Degrading
  <2> QED
    BY <2>2
<1> QED
  BY <1>1, <1>2

LEMMA DegradeRunqFine ==
    ASSUME NEW s, NEW c, Fine(s, c)
    PROVE  Fine(DegradeRunq(s), c)
<1> DEFINE q == s.runq
           a == [s |-> s, full |-> 0]
<1>0. q \in Seq(Dles) /\ Len(q) \in Nat /\ DOMAIN q = 1..Len(q) /\ IsInjective(q)
  BY DEF Fine, Good, Inv, Queues, Queue
<1>1. PICK f : /\ f[0] = a
               /\ \A n \in 1..Len(q) : f[n] = DegradeDump(f[n - 1], q[n])
               /\ FoldLeft(DegradeDump, a, q) = f[Len(q)]
  <2> HIDE DEF a
  <2> QED
    BY <1>0, DegradeRounds
<1>2. DegradeRunq(s) = f[Len(q)].s
  BY <1>1, Zenon DEF DegradeRunq
<1> DEFINE Ok(k) == Degrading(f[k], c) /\ Fine(f[k].s, c) /\ \A j \in (k + 1)..Len(q) : q[j] \in ToSet(f[k].s.runq)
           T == {k \in 0..Len(q) : Ok(k)}
<1>3. Ok(0)
  <2>1. Degrading(a, c) /\ a.s = s
    BY DEF Degrading, Fine
  <2>2. \A j \in 1..Len(q) : q[j] \in ToSet(s.runq)
    BY <1>0 DEF ToSet
  <2> HIDE DEF a
  <2>3. \A j \in (0 + 1)..Len(q) : j \in 1..Len(q)
    OBVIOUS
  <2> QED
    BY <1>1, <2>1, <2>2, <2>3, Zenon
<1> HIDE DEF q
<1>4. ASSUME NEW k \in 0..(Len(q) - 1), Ok(k) PROVE Ok(k + 1)
  <2>1. k + 1 \in 1..Len(q) /\ (k + 1) - 1 = k /\ k + 1 \in (k + 1)..Len(q)
    BY <1>0
  <2> DEFINE d == q[k + 1]
             u == f[k]
             v == f[k + 1]
  <2>2. v = DegradeDump(u, d)
    BY <1>1, <2>1
  <2>3. Degrading(u, c) /\ Fine(u.s, c) /\ \A j \in (k + 1)..Len(q) : q[j] \in ToSet(u.s.runq)
    BY <1>4
  <2>4. d \in ToSet(u.s.runq)
    BY <2>1, <2>3
  <2> HIDE DEF u, v
  <2>5. Degrading(v, c) /\ \A e \in ToSet(u.s.runq) : e # d => e \in ToSet(v.s.runq)
    BY <2>2, <2>3, <2>4, DegradeDumpGood
  <2>6. Fine(v.s, c)
    BY <2>2, <2>3, <2>4, DegradeDumpFine
  <2>7. ASSUME NEW j \in ((k + 1) + 1)..Len(q) PROVE q[j] \in ToSet(v.s.runq)
    <3>1. j \in (k + 1)..Len(q) /\ j # k + 1 /\ j \in DOMAIN q /\ k + 1 \in DOMAIN q
      BY <1>0
    <3>2. q[j] # d
      BY <1>0, <3>1 DEF IsInjective
    <3> QED
      BY <2>3, <2>5, <3>1, <3>2
  <2> QED
    BY <2>5, <2>6, <2>7 DEF v
<1> HIDE DEF Ok
<1>5. 0 \in T /\ \A k \in 0..(Len(q) - 1) : k \in T => k + 1 \in T
  <2>1. 0 \in 0..Len(q) /\ \A k \in 0..(Len(q) - 1) : k + 1 \in 0..Len(q)
    BY <1>0
  <2> QED
    BY <2>1, <1>3, <1>4, Zenon
<1> HIDE DEF T
<1>6. \A k \in 0..Len(q) : k \in T
  BY <1>0, <1>5, EvictLoop!UpTo
<1>7. Ok(Len(q))
  <2>1. Len(q) \in 0..Len(q)
    BY <1>0
  <2> QED
    BY <1>6, <2>1 DEF T
<1> QED
  BY <1>2, <1>7 DEF Ok

LEMMA StartDegradedModeFine ==
    ASSUME NEW s, NEW c, Fine(s, c)
    PROVE  Fine(StartDegradedMode(s), c)
<1> DEFINE need == s.need_degraded \/ s.taper.done
           u == DegradeRunq(s)
<1>1. CASE need /\ schedule_done(s) /\ ~s.degraded_mode
  <2>1. StartDegradedMode(s) = [u EXCEPT !.need_degraded = TRUE, !.degraded_mode = TRUE]
    BY <1>1, Zenon DEF StartDegradedMode
  <2>2. Fine(u, c)
    BY DegradeRunqFine
  <2> HIDE DEF u
  <2>3. Seen(u, [u EXCEPT !.need_degraded = TRUE, !.degraded_mode = TRUE])
    <3>1. Shape(u)
      BY <2>2 DEF Fine, Good, Inv
    <3> QED
      BY <3>1, Shaped DEF Seen, Fields
  <2> QED
    BY <2>1, <2>2, <2>3, SeenFine
<1>2. CASE ~(need /\ schedule_done(s) /\ ~s.degraded_mode)
  <2>1. StartDegradedMode(s) = [s EXCEPT !.need_degraded = need]
    BY <1>2, Zenon DEF StartDegradedMode
  <2> HIDE DEF need
  <2>2. Shape(s)
    BY DEF Fine, Good, Inv
  <2>3. Seen(s, [s EXCEPT !.need_degraded = need])
    BY <2>2, Shaped DEF Seen, Fields
  <2> QED
    BY <2>1, <2>3, SeenFine
<1> QED
  BY <1>1, <1>2

-----------------------------------------------------------------------------
(* Granting holding-disk space.                                            *)

\* new entries for which there is room
Fits(ha, new) ==
    /\ Fresh(new)
    /\ \A h \in Hdisks : LET n == OnDisk(new, "reserved", h)
                         IN  n \in Nat /\ (n = 0 \/ n <= Free(ha, h))

LEMMA FindFits ==
    ASSUME NEW ha, Accounts(ha), NEW want \in Int, NEW pref
    PROVE  Fits(ha, FindDiskspace(ha, want, pref))
BY FindDiskspaceIs, Zenon DEF Fits

LEMMA AssignSpaceIs ==
    ASSUME NEW ha, Accounts(ha), NEW new, Fits(ha, new)
    PROVE  LET hb == AssignSpace(ha, new)
           IN  /\ Accounts(hb)
               /\ \A h \in Hdisks :
                     /\ hb[h].allocated_space = ha[h].allocated_space + OnDisk(new, "reserved", h)
                     /\ hb[h].disksize = ha[h].disksize /\ hb[h].allocated_dumpers = ha[h].allocated_dumpers
<1> DEFINE hb == AssignSpace(ha, new)
<1>1. DOMAIN hb = Hdisks
  BY DEF AssignSpace
<1>2. ASSUME NEW h \in Hdisks
      PROVE  /\ hb[h].allocated_space = ha[h].allocated_space + OnDisk(new, "reserved", h)
             /\ hb[h].disksize = ha[h].disksize /\ hb[h].allocated_dumpers = ha[h].allocated_dumpers
             /\ hb[h].allocated_space \in Int /\ DOMAIN hb[h] = {"disksize", "allocated_space", "allocated_dumpers"}
  <2>1. PICK n : n = OnDisk(new, "reserved", h)
    OBVIOUS
  <2>2. n \in Nat
    BY <2>1 DEF Fits
  <2>3. hb[h] = [ha[h] EXCEPT !.allocated_space = @ + n]
    BY <2>1 DEF AssignSpace
  <2> HIDE DEF hb
  <2> QED
    BY <2>1, <2>2, <2>3 DEF Accounts
<1> HIDE DEF hb
<1>3. Accounts(hb)
  BY <1>1, <1>2 DEF Accounts
<1> QED
  BY <1>2, <1>3 DEF hb

\* assign_holdingdisk
LEMMA AssignIs ==
    ASSUME NEW s, Shape(s), NEW d \in Dles, NEW new, NEW t, t = AssignHoldingdisk(s, d, new)
    PROVE  /\ t.ha = AssignSpace(s.ha, new)
           /\ t.sched[d].holdp = AssignHoldp(s.sched[d].holdp, new)
           /\ t.sched[d].activehd = AssignActive(s.sched[d].holdp, new)
           /\ t.sched[d].act_size = s.sched[d].act_size
<1> DEFINE hp == AssignHoldp(s.sched[d].holdp, new)
           ac == AssignActive(s.sched[d].holdp, new)
           sp == AssignSpace(s.ha, new)
<1>0. t = [s EXCEPT !.ha = sp, !.sched[d].holdp = hp, !.sched[d].activehd = ac]
  BY DEF AssignHoldingdisk
<1> HIDE DEF hp, ac, sp
<1>1. t.ha = sp /\ t.sched = [s.sched EXCEPT ![d].holdp = hp, ![d].activehd = ac]
  BY <1>0, Shaped DEF Fields
<1>2. t.sched[d].holdp = hp /\ t.sched[d].activehd = ac /\ t.sched[d].act_size = s.sched[d].act_size
  BY <1>1, Shaped DEF SchedFields
<1> QED
  BY <1>1, <1>2 DEF hp, ac, sp

\* One dumper more on a holding disk takes no space.
LEMMA DumpersSpace ==
    ASSUME NEW s, NEW t, Accounts(s.ha), NEW g \in Hdisks, NEW x \in Int,
           t.ha = [s.ha EXCEPT ![g].allocated_dumpers = x]
    PROVE  SameSpace(s, t)
<1>1. DOMAIN t.ha = Hdisks /\ \A h \in Hdisks : h # g => t.ha[h] = s.ha[h]
  BY DEF Accounts
<1>2. t.ha[g] = [s.ha[g] EXCEPT !.allocated_dumpers = x]
  BY DEF Accounts
<1>3. /\ t.ha[g].allocated_space = s.ha[g].allocated_space /\ t.ha[g].disksize = s.ha[g].disksize
      /\ t.ha[g].allocated_dumpers \in Int
      /\ DOMAIN t.ha[g] = {"disksize", "allocated_space", "allocated_dumpers"}
  BY <1>2 DEF Accounts
<1>4. Accounts(t.ha)
  BY <1>1, <1>3 DEF Accounts
<1> QED
  BY <1>1, <1>3, <1>4 DEF SameSpace

\* CONTINUE
LEMMA ContinueIs ==
    ASSUME NEW s, Shape(s), Accounts(s.ha), NEW i \in Dumpers, NEW d \in Dles, NEW t, t = Continue(s, i, d),
           NEW hd, hd = s.sched[d].holdp[s.sched[d].activehd], hd.disk \in Hdisks
    PROVE  /\ SameSpace(s, t)
           /\ s.chk[i].proc = "room" => /\ t.chk[i].proc = "writing" /\ t.chk[i].wrote = s.chk[i].wrote
                                        /\ t.chk[i].use = hd.reserved - hd.used
<1> DEFINE u == hd.reserved - hd.used
           new == IF s.chk[i].proc = "room"
                  THEN [s.chk[i] EXCEPT !.proc = "writing", !.use = u] ELSE s.chk[i]
<1>0. t = [s EXCEPT !.ha[hd.disk].allocated_dumpers = @ + 1, !.chk[i] = new]
  BY DEF Continue
<1> HIDE DEF u
<1>1. s.chk[i].proc = "room" => new.proc = "writing" /\ new.wrote = s.chk[i].wrote /\ new.use = u
  BY Shaped DEF ChunkerFields
<1> HIDE DEF new
<1>2. PICK g, n : g = hd.disk /\ n = s.ha[g].allocated_dumpers + 1
  OBVIOUS
<1>3. t = [s EXCEPT !.ha[g].allocated_dumpers = n, !.chk[i] = new]
  BY <1>0, <1>2
<1>4. t.ha = [s.ha EXCEPT ![g].allocated_dumpers = n] /\ t.chk = [s.chk EXCEPT ![i] = new]
  BY <1>3, Shaped DEF Fields
<1>5. g \in Hdisks /\ n \in Int
  BY <1>2 DEF Accounts
<1>6. SameSpace(s, t)
  BY <1>4, <1>5, DumpersSpace
<1>7. t.chk[i] = new
  BY <1>4, Shaped
<1> QED
  BY <1>1, <1>6, <1>7 DEF u

\* The dump of a chunker without room gets new entries, and the chunker goes on.
LEMMA GrantFine ==
    ASSUME NEW s, NEW c, Fine(s, c), NEW d \in s.inprogress, NEW i \in Dumpers, s.dmp[i].dp = d,
           Works(s, d), Filled(s.sched[d].holdp, s.sched[d].activehd),
           s.chk[s.sched[d].dumper].proc \in {"room", "dead"},
           NEW new, Fits(s.ha, new), new # <<>>,
           NEW v, v = Continue(AssignHoldingdisk(s, d, new), i, d),
           NEW t, Good(t, c), Beside(v, t), t.ha = v.ha, t.sched = v.sched, t.chk = v.chk,
           ToSet(t.roomq) \subseteq ToSet(s.roomq) \ {d}
    PROVE  Fine(t, c)
<1> DEFINE u == AssignHoldingdisk(s, d, new)
           q == s.sched[d].holdp
           a == s.sched[d].activehd
           j == s.sched[d].dumper
           ch == s.chk[j]
           w == Before(q, a) + q[a].used
           p == AssignHoldp(q, new)
           b == AssignActive(q, new)
<1>0. Good(s, c) /\ Books(s) /\ Shape(s) /\ Queues(s) /\ Placed(s) /\ DumperLinks(s) /\ Accounts(s.ha)
  BY DEF Fine, Good, Inv, Books
<1>1. d \in Dles /\ d \notin Flush /\ d \notin ToSet(s.runq) /\ s.outcome[d] = None
  BY <1>0 DEF Queues, Placed, Apart, Held
<1>2. Page(s, d)
  BY <1>1 DEF Fine, Books
<1>3. Holdp(q) /\ AtWork(q, a, ch) /\ Position(q, a) /\ s.sched[d].act_size \in Nat
  BY <1>2 DEF Page, AtWork
<1>4. /\ Before(q, a) \in Nat /\ q[a].used \in Nat /\ q[a].used = q[a].reserved /\ q \in Seq(HdEntry)
      /\ ch.wrote \in Nat /\ ch.use \in Nat
      /\ Before(q, a) + q[a].used <= ch.wrote /\ ch.wrote + ch.use <= Before(q, a) + q[a].reserved
  BY <1>3, EntryOf DEF Filled, AtWork
<1>5. ch.wrote = w /\ ch.use = 0
  <2>1. PICK x, y, z, r, m : x = Before(q, a) /\ y = q[a].used /\ z = q[a].reserved /\ r = ch.wrote /\ m = ch.use
    OBVIOUS
  <2>2. {x, y, r, m} \subseteq Nat /\ y = z /\ x + y <= r /\ r + m <= x + z
    BY <1>4, <2>1
  <2>3. r = x + y /\ m = 0
    BY <2>2
  <2> QED
    BY <2>1, <2>3
<1>6. j \in Dumpers /\ s.dmp[j].dp = d
  BY <1>0, Zenon DEF DumperLinks
<1> HIDE DEF p, b, w
<1>7. /\ Holdp(p) /\ Position(p, b) /\ w = Before(p, b) + p[b].used /\ w \in Nat
      /\ \A h : OnDisk(p, "reserved", h) = OnDisk(q, "reserved", h) + OnDisk(new, "reserved", h)
  BY <1>3, MoreWork DEF Fits, p, b, w
<1>8. /\ p[b].used \in Nat /\ p[b].reserved \in Nat /\ p[b].used <= p[b].reserved /\ Before(p, b) \in Nat
      /\ p[b].disk \in Hdisks /\ p \in Seq(HdEntry)
  BY <1>7, EntryOf
<1>9. /\ Shape(u) /\ Beside(s, u) /\ u.roomq = s.roomq /\ u.chk = s.chk
      /\ \A e \in Dles : u.sched[e].dumper = s.sched[e].dumper
      /\ \A e \in Dles : e # d => u.sched[e] = s.sched[e]
  BY <1>0, <1>1, AssignFrame
<1>10. u.ha = AssignSpace(s.ha, new) /\ u.sched[d].holdp = p /\ u.sched[d].activehd = b /\ u.sched[d].act_size = s.sched[d].act_size
  BY <1>0, <1>1, AssignIs DEF p, b
<1>11. /\ Accounts(u.ha)
       /\ \A h \in Hdisks : /\ u.ha[h].allocated_space = s.ha[h].allocated_space + OnDisk(new, "reserved", h)
                            /\ u.ha[h].disksize = s.ha[h].disksize
  BY <1>0, <1>10, AssignSpaceIs
<1> HIDE DEF u
<1>12. v = Continue(u, i, d)
  BY DEF u
<1>13. /\ Beside(u, v) /\ v.sched = u.sched /\ \A k \in Dumpers : k # i => v.chk[k] = u.chk[k]
       /\ u.chk[i].proc # "room" => v.chk[i] = u.chk[i]
  BY <1>1, <1>9, <1>12, ContinueFrame
<1>14. /\ SameSpace(u, v)
       /\ u.chk[i].proc = "room" => /\ v.chk[i].proc = "writing" /\ v.chk[i].wrote = u.chk[i].wrote
                                    /\ v.chk[i].use = p[b].reserved - p[b].used
  BY <1>1, <1>8, <1>9, <1>10, <1>11, <1>12, ContinueIs
<1>15. /\ t.inprogress = s.inprogress /\ t.dmp = s.dmp /\ t.runq = s.runq /\ t.outcome = s.outcome
  BY <1>9, <1>13 DEF Beside
<1>16. OtherPages(s, t, d)
  <2> SUFFICES ASSUME NEW e \in Dles, e # d PROVE SamePage(s, t, e)
    BY DEF OtherPages
  <2>1. t.sched[e] = s.sched[e]
    BY <1>9, <1>13
  <2>2. e \in s.inprogress => /\ s.sched[e].dumper \in Dumpers /\ s.sched[e].dumper # i
    <3>1. e \in s.inprogress => s.sched[e].dumper \in Dumpers /\ s.dmp[s.sched[e].dumper].dp = e
      BY <1>0, Zenon DEF DumperLinks
    <3> QED
      BY <3>1
  <2>3. e \in s.inprogress => t.chk[s.sched[e].dumper] = s.chk[s.sched[e].dumper]
    BY <2>2, <1>9, <1>13
  <2>4. s.sched[e].act_size \in Nat
    BY <1>0 DEF Books, Page
  <2>5. Works(s, e) <=> Works(t, e)
    BY <2>1, <1>15 DEF Works
  <2>6. Works(t, e) => Calmer(s.chk[s.sched[e].dumper], t.chk[t.sched[e].dumper])
    BY <2>1, <2>3, <1>15 DEF Works, Calmer
  <2> QED
    BY <2>1, <2>4, <2>5, <2>6, <1>15 DEF SamePage
<1>17. AtWork(p, b, t.chk[j])
  <2>1. CASE i = j /\ ch.proc = "room"
    <3>1. t.chk[j].proc = "writing" /\ t.chk[j].wrote = w /\ t.chk[j].use = p[b].reserved - p[b].used
      BY <2>1, <1>5, <1>9, <1>14
    <3>2. PICK x, y, z : x = Before(p, b) /\ y = p[b].used /\ z = p[b].reserved
      OBVIOUS
    <3>3. {x, y, z, w} \subseteq Nat /\ y <= z /\ w = x + y
      BY <1>7, <1>8, <3>2
    <3>4. w \in Nat /\ z - y \in Nat /\ x + y <= w /\ w + (z - y) <= x + z
      BY <3>3
    <3> QED
      BY <3>1, <3>2, <3>3, <3>4, <1>7 DEF AtWork
  <2>2. CASE ~(i = j /\ ch.proc = "room")
    <3>1. t.chk[j] = ch
      BY <2>2, <1>6, <1>9, <1>13
    <3>2. PICK x, y, z : x = Before(p, b) /\ y = p[b].used /\ z = p[b].reserved
      OBVIOUS
    <3>3. {x, y, z, w} \subseteq Nat /\ y <= z /\ w = x + y
      BY <1>7, <1>8, <3>2
    <3>4. w \in Nat /\ x + y <= w /\ w + 0 <= x + z
      BY <3>3
    <3> QED
      BY <3>1, <3>2, <3>3, <3>4, <1>5, <1>7 DEF AtWork
  <2> QED
    BY <2>1, <2>2
<1>18. Page(t, d)
  <2>1. t.sched[d].holdp = p /\ t.sched[d].activehd = b /\ t.sched[d].act_size \in Nat /\ t.sched[d].dumper = j
    BY <1>1, <1>3, <1>9, <1>10, <1>13
  <2>2. Works(t, d)
    BY <2>1, <1>15 DEF Works
  <2>3. d \notin ToSet(t.roomq) /\ d \notin ToSet(t.runq) /\ t.outcome[d] # "unread"
    BY <1>1, <1>15 DEF None
  <2> QED
    BY <2>1, <2>2, <2>3, <1>1, <1>7, <1>17 DEF Page
<1>19. Accounts(t.ha)
  BY <1>14 DEF SameSpace
<1>20. ASSUME NEW h \in Hdisks
       PROVE  /\ t.ha[h].allocated_space = s.ha[h].allocated_space
                    + OnDisk(t.sched[d].holdp, "reserved", h) - OnDisk(s.sched[d].holdp, "reserved", h)
              /\ t.ha[h].allocated_space <= t.ha[h].disksize
  <2>1. PICK n, x, y, z : /\ n = OnDisk(new, "reserved", h) /\ x = OnDisk(p, "reserved", h)
                          /\ y = OnDisk(q, "reserved", h) /\ z = s.ha[h].allocated_space
    OBVIOUS
  <2>2. n \in Nat /\ (n = 0 \/ n <= s.ha[h].disksize - z) /\ z \in Int /\ s.ha[h].disksize \in Int
    BY <2>1, <1>0 DEF Fits, Free, Accounts
  <2>3. z <= s.ha[h].disksize
    BY <2>1 DEF Fine, Books, Balanced
  <2>4. "reserved" \in Amount
    BY DEF Amount
  <2>5. y \in Nat /\ x = y + n
    BY <2>1, <2>4, <1>4, <1>7, OnDiskIs
  <2>6. t.ha[h].allocated_space = z + n /\ t.ha[h].disksize = s.ha[h].disksize
    BY <2>1, <1>11, <1>14 DEF SameSpace
  <2>7. t.sched[d].holdp = p
    BY <1>10, <1>13
  <2>8. z + n = z + x - y /\ z + n <= s.ha[h].disksize
    <3>1. PICK m : m = s.ha[h].disksize
      OBVIOUS
    <3>2. m \in Int /\ z \in Int /\ n \in Nat /\ y \in Nat /\ x = y + n /\ z <= m /\ (n = 0 \/ n <= m - z)
      BY <2>2, <2>3, <2>5, <3>1
    <3>3. z + n = z + x - y /\ z + n <= m
      BY <3>2
    <3> QED
      BY <3>1, <3>3
  <2>9. OnDisk(t.sched[d].holdp, "reserved", h) = x /\ OnDisk(s.sched[d].holdp, "reserved", h) = y
    BY <2>1, <2>7
  <2> QED
    BY <2>1, <2>6, <2>8, <2>9
<1>21. Hands(t)
  BY GoodHands
<1>22. Books(t)
  BY <1>0, <1>1, <1>16, <1>18, <1>19, <1>20, <1>21, BooksChange
<1> QED
  BY <1>22 DEF Fine

\* continue_port_dumps
LEMMA RoomFilled ==
    ASSUME NEW s, NEW c, Fine(s, c), NEW d \in ToSet(s.roomq)
    PROVE  /\ d \in s.inprogress /\ d \in Dles /\ Works(s, d) /\ s.sched[d].dumper \in Dumpers
           /\ Filled(s.sched[d].holdp, s.sched[d].activehd)
           /\ AtWork(s.sched[d].holdp, s.sched[d].activehd, s.chk[s.sched[d].dumper])
           /\ s.chk[s.sched[d].dumper].proc \in {"room", "dead"} /\ s.dmp[s.sched[d].dumper].dp = d
<1>0. Queues(s) /\ DumperLinks(s) /\ RoomLinks(s)
  BY DEF Fine, Good, Inv
<1>1. d \in s.inprogress /\ d \in Dles
  BY <1>0 DEF Queues
<1>2. s.sched[d].dumper \in Dumpers /\ s.dmp[s.sched[d].dumper].dp = d
  BY <1>0, <1>1, Zenon DEF DumperLinks
<1>3. s.chk[s.sched[d].dumper].proc \in {"room", "dead"} /\ Works(s, d)
  BY <1>0, <1>1 DEF RoomLinks, Works
<1>4. Page(s, d)
  BY <1>1 DEF Fine, Books
<1> QED
  BY <1>1, <1>2, <1>3, <1>4 DEF Page

LEMMA GrantRoomFine ==
    ASSUME NEW s, NEW c, Fine(s, c), NEW d \in ToSet(s.roomq), NEW t, t = GrantRoom(s, d)
    PROVE  Fine(t, c)
<1>0. Good(s, c) /\ Shape(s) /\ Queues(s) /\ Accounts(s.ha)
  BY DEF Fine, Good, Inv, Books
<1>1. /\ d \in s.inprogress /\ d \in Dles /\ Works(s, d) /\ s.sched[d].dumper \in Dumpers
      /\ Filled(s.sched[d].holdp, s.sched[d].activehd)
      /\ s.chk[s.sched[d].dumper].proc \in {"room", "dead"} /\ s.dmp[s.sched[d].dumper].dp = d
  BY RoomFilled
<1>2. s.sched[d].est_size - s.sched[d].act_size \in Int
  <2>1. s.sched[d].est_size \in Nat /\ s.sched[d].act_size \in Nat
    BY <1>0, <1>1, Shaped DEF Fine, Books, Page
  <2> QED
    BY <2>1
<1>3. PICK new : new = FindDiskspace(s.ha, s.sched[d].est_size - s.sched[d].act_size, Last(s.sched[d].holdp).disk)
  OBVIOUS
<1>4. Fits(s.ha, new)
  BY <1>0, <1>2, <1>3, FindFits
<1>5. t = Granted(s, d, new)
  BY <1>3, Zenon DEF GrantRoom
<1>6. CASE new = <<>>
  BY <1>5, <1>6 DEF Granted
<1>7. CASE new # <<>>
  <2>1. PICK i : i = DumperOf(s, d)
    OBVIOUS
  <2>2. i \in Dumpers /\ s.dmp[i].dp = d
    BY <1>1, <2>1, DumperOfIs
  <2>3. PICK v : v = Continue(AssignHoldingdisk(s, d, new), i, d)
    OBVIOUS
  <2>4. t = [v EXCEPT !.roomq = RemoveFirst(@, d)]
    BY <1>5, <1>7, <2>1, <2>3, Zenon DEF Granted
  <2>5. Shape(v) /\ v.roomq = s.roomq
    BY <1>0, <1>1, <2>2, <2>3, AssignFrame, ContinueFrame
  <2>6. Beside(v, t) /\ t.ha = v.ha /\ t.sched = v.sched /\ t.chk = v.chk /\ t.roomq = RemoveFirst(s.roomq, d)
    BY <2>4, <2>5, Shaped DEF Beside, Fields
  <2>7. ToSet(t.roomq) = ToSet(s.roomq) \ {d}
    BY <1>0, <2>6, QueueRemove DEF Queues
  <2>8. Good(t, c)
    BY <1>0, GrantRoomGood
  <2>9. ToSet(t.roomq) \subseteq ToSet(s.roomq) \ {d}
    BY <2>7
  <2> QED
    BY <1>1, <1>4, <1>7, <2>2, <2>3, <2>6, <2>8, <2>9, GrantFine
<1> QED
  BY <1>6, <1>7

LEMMA GrantAllFine ==
    ASSUME NEW s, NEW c, Fine(s, c)
    PROVE  Fine(FoldLeft(GrantRoom, s, s.roomq), c)
<1> DEFINE q == s.roomq
<1>0. q \in Seq(Dles) /\ Len(q) \in Nat /\ DOMAIN q = 1..Len(q) /\ IsInjective(q)
  BY DEF Fine, Good, Inv, Queues, Queue
<1>1. PICK f : /\ f[0] = s
               /\ \A n \in 1..Len(q) : f[n] = GrantRoom(f[n - 1], q[n])
               /\ FoldLeft(GrantRoom, s, q) = f[Len(q)]
  BY <1>0, GrantRounds
<1> DEFINE Ok(k) == Fine(f[k], c) /\ \A j \in (k + 1)..Len(q) : q[j] \in ToSet(f[k].roomq)
           T == {k \in 0..Len(q) : Ok(k)}
<1>3. Ok(0)
  <2>2. \A j \in 1..Len(q) : q[j] \in ToSet(s.roomq)
    BY <1>0 DEF ToSet
  <2>3. \A j \in (0 + 1)..Len(q) : j \in 1..Len(q)
    OBVIOUS
  <2> QED
    BY <1>1, <2>2, <2>3, Zenon
<1> HIDE DEF q
<1>4. ASSUME NEW k \in 0..(Len(q) - 1), Ok(k) PROVE Ok(k + 1)
  <2>1. k + 1 \in 1..Len(q) /\ (k + 1) - 1 = k /\ k + 1 \in (k + 1)..Len(q)
    BY <1>0
  <2> DEFINE d == q[k + 1]
             u == f[k]
             v == f[k + 1]
  <2>2. v = GrantRoom(u, d)
    BY <1>1, <2>1
  <2>3. Fine(u, c) /\ \A j \in (k + 1)..Len(q) : q[j] \in ToSet(u.roomq)
    BY <1>4
  <2>4. d \in ToSet(u.roomq)
    BY <2>1, <2>3
  <2> HIDE DEF u, v
  <2>5. Fine(v, c) /\ \A e \in ToSet(u.roomq) : e # d => e \in ToSet(v.roomq)
    BY <2>2, <2>3, <2>4, GrantRoomGood, GrantRoomFine DEF Fine
  <2>6. ASSUME NEW j \in ((k + 1) + 1)..Len(q) PROVE q[j] \in ToSet(v.roomq)
    <3>1. j \in (k + 1)..Len(q) /\ j # k + 1 /\ j \in DOMAIN q /\ k + 1 \in DOMAIN q
      BY <1>0
    <3>2. q[j] # d
      BY <1>0, <3>1 DEF IsInjective
    <3> QED
      BY <2>3, <2>5, <3>1, <3>2
  <2> QED
    BY <2>5, <2>6 DEF v
<1> HIDE DEF Ok
<1>5. 0 \in T /\ \A k \in 0..(Len(q) - 1) : k \in T => k + 1 \in T
  <2>1. 0 \in 0..Len(q) /\ \A k \in 0..(Len(q) - 1) : k + 1 \in 0..Len(q)
    BY <1>0
  <2> QED
    BY <2>1, <1>3, <1>4, Zenon
<1> HIDE DEF T
<1>6. \A k \in 0..Len(q) : k \in T
  BY <1>0, <1>5, GrantLoop!UpTo
<1>7. Ok(Len(q))
  <2>1. Len(q) \in 0..Len(q)
    BY <1>0
  <2> QED
    BY <1>6, <2>1 DEF T
<1> QED
  BY <1>1, <1>7, Zenon DEF Ok, q

\* ABORT
LEMMA AbortFine ==
    ASSUME NEW s, NEW c, Fine(s, c), NEW d \in ToSet(s.roomq), NEW t, t = Abort(s, d)
    PROVE  Fine(t, c)
<1> DEFINE i == s.sched[d].dumper
           p == IF s.chk[i].proc = "dead" THEN "dead" ELSE "aborting"
<1>0. Good(s, c) /\ Shape(s) /\ Queues(s) /\ DumperLinks(s) /\ \A e \in Dles : Page(s, e)
  BY DEF Fine, Good, Inv, Books
<1>1. /\ d \in s.inprogress /\ d \in Dles /\ Works(s, d) /\ i \in Dumpers /\ s.dmp[i].dp = d
      /\ AtWork(s.sched[d].holdp, s.sched[d].activehd, s.chk[i]) /\ Queue(s.roomq)
  BY <1>0, RoomFilled DEF Queues
<1>2. s.chk[i].wrote \in Nat /\ s.chk[i].use \in Nat
  BY <1>1 DEF AtWork
<1>3. Good(t, c)
  BY <1>0, AbortGood
<1>4. t = [s EXCEPT !.sched[d].no_space = TRUE, !.roomq = RemoveFirst(@, d),
                    !.chk[i].proc = p, !.pending_aborts = @ + 1]
  BY DEF Abort
<1>5. p \notin {"writing", "room"}
  OBVIOUS
<1> HIDE DEF i, p
<1>6. /\ t.roomq = RemoveFirst(s.roomq, d) /\ t.inprogress = s.inprogress /\ t.dmp = s.dmp
      /\ t.runq = s.runq /\ t.outcome = s.outcome /\ t.ha = s.ha
      /\ t.sched = [s.sched EXCEPT ![d].no_space = TRUE]
      /\ t.chk = [s.chk EXCEPT ![i].proc = p]
  BY <1>0, <1>4, Shaped DEF Fields
<1>7. \A e \in Dles : /\ t.sched[e].holdp = s.sched[e].holdp /\ t.sched[e].act_size = s.sched[e].act_size
                      /\ t.sched[e].activehd = s.sched[e].activehd /\ t.sched[e].dumper = s.sched[e].dumper
  BY <1>0, <1>1, <1>6, Shaped DEF SchedFields
<1>8. \A j \in Dumpers : Calmer(s.chk[j], t.chk[j])
  <2>1. \A j \in Dumpers : j # i => t.chk[j] = s.chk[j]
    BY <1>0, <1>6, Shaped
  <2>2. t.chk[i].proc = p /\ t.chk[i].wrote = s.chk[i].wrote /\ t.chk[i].use = s.chk[i].use
    BY <1>0, <1>1, <1>6, Shaped DEF ChunkerFields
  <2>3. Calmer(s.chk[i], t.chk[i])
    BY <1>2, <1>5, <2>2 DEF Calmer
  <2> QED
    BY <2>1, <2>3 DEF Calmer
<1>9. ToSet(t.roomq) \subseteq ToSet(s.roomq)
  BY <1>1, <1>6, QueueRemove
<1>10. ASSUME NEW e \in Dles PROVE SamePage(s, t, e)
  <2>1. e \in s.inprogress => s.sched[e].dumper \in Dumpers
    BY <1>0, Zenon DEF DumperLinks
  <2>2. Works(s, e) <=> Works(t, e)
    BY <1>6, <1>7, Zenon DEF Works
  <2>3. Works(t, e) => Calmer(s.chk[s.sched[e].dumper], t.chk[t.sched[e].dumper])
    BY <1>6, <1>7, <1>8, <2>1 DEF Works
  <2>4. s.sched[e].act_size \in Nat
    BY <1>0 DEF Page
  <2> QED
    BY <1>6, <1>7, <1>9, <2>2, <2>3, <2>4 DEF SamePage
<1> QED
  BY <1>3, <1>6, <1>10, FineSame

LEMMA AbortIfAllWaitFine ==
    ASSUME NEW s, NEW c, Fine(s, c)
    PROVE  Fine(AbortIfAllWait(s), c)
BY AbortIfAllWaitIs, AbortFine DEF Fine

LEMMA ContinuePortDumpsFine ==
    ASSUME NEW s, NEW c, Fine(s, c)
    PROVE  Fine(ContinuePortDumps(s), c)
BY GrantAllFine, AbortIfAllWaitFine DEF ContinuePortDumps

-----------------------------------------------------------------------------
(* start_some_dumps.                                                       *)

\* Nothing changes but for dumper i and dump d.
Elsewhere(s, t, i, d) ==
    /\ \A e \in Dles : e # d =>
          /\ t.sched[e] = s.sched[e] /\ t.outcome[e] = s.outcome[e]
          /\ e \in t.inprogress <=> e \in s.inprogress
          /\ e \in ToSet(t.roomq) => e \in ToSet(s.roomq)
          /\ e \in ToSet(t.runq) => e \in ToSet(s.runq)
    /\ \A j \in Dumpers : j # i => t.dmp[j] = s.dmp[j] /\ t.chk[j] = s.chk[j]

\* Dumper i has no dump but d, and d no dumper but i.
Pair(s, i, d) ==
    /\ d \in s.inprogress => s.sched[d].dumper = i
    /\ Engaged(s, i) => s.dmp[i].dp = d

LEMMA ElsewherePages ==
    ASSUME NEW s, NEW c, Good(s, c), Books(s), NEW t, NEW i \in Dumpers, NEW d \in Dles,
           Elsewhere(s, t, i, d), Pair(s, i, d)
    PROVE  /\ OtherPages(s, t, d)
           /\ \A j \in Dumpers : j # i /\ t.chk[j].proc \in {"writing", "room"}
                                    => Engaged(t, j) /\ t.dmp[j].chunker
<1>0. Queues(s) /\ DumperLinks(s) /\ Hands(s) /\ \A e \in Dles : Page(s, e)
  BY DEF Good, Inv, Books
<1>1. ASSUME NEW e \in Dles, e # d PROVE SamePage(s, t, e)
  <2>1. /\ t.sched[e] = s.sched[e] /\ t.outcome[e] = s.outcome[e]
        /\ e \in t.inprogress <=> e \in s.inprogress
        /\ e \in ToSet(t.roomq) => e \in ToSet(s.roomq)
        /\ e \in ToSet(t.runq) => e \in ToSet(s.runq)
    BY <1>1 DEF Elsewhere
  <2>2. e \in s.inprogress => s.sched[e].dumper \in Dumpers /\ s.dmp[s.sched[e].dumper].dp = e
    BY <1>0, Zenon DEF DumperLinks
  <2>3. e \in s.inprogress => s.sched[e].dumper # i
    BY <1>1, <2>2 DEF Pair, Engaged
  <2>4. e \in s.inprogress => /\ t.dmp[s.sched[e].dumper] = s.dmp[s.sched[e].dumper]
                              /\ t.chk[s.sched[e].dumper] = s.chk[s.sched[e].dumper]
    BY <2>2, <2>3 DEF Elsewhere
  <2>5. Works(s, e) <=> Works(t, e)
    BY <2>1, <2>4, Zenon DEF Works
  <2>6. Works(t, e) => Calmer(s.chk[s.sched[e].dumper], t.chk[t.sched[e].dumper])
    BY <2>1, <2>4 DEF Works, Calmer
  <2>7. s.sched[e].act_size \in Nat
    BY <1>0 DEF Page
  <2> QED
    BY <2>1, <2>5, <2>6, <2>7 DEF SamePage
<1>2. ASSUME NEW j \in Dumpers, j # i, t.chk[j].proc \in {"writing", "room"}
      PROVE  Engaged(t, j) /\ t.dmp[j].chunker
  <2>1. t.dmp[j] = s.dmp[j] /\ t.chk[j] = s.chk[j]
    BY <1>2 DEF Elsewhere
  <2>2. Engaged(s, j) /\ s.dmp[j].chunker
    BY <1>0, <1>2, <2>1 DEF Hands
  <2>3. s.dmp[j].dp \in Dles /\ s.dmp[j].dp # d
    BY <1>0, <1>2, <2>2 DEF Engaged, Pair, Queues
  <2>4. t.sched[s.dmp[j].dp] = s.sched[s.dmp[j].dp] /\ s.dmp[j].dp \in t.inprogress
    BY <2>2, <2>3 DEF Elsewhere, Engaged
  <2> QED
    BY <2>1, <2>2, <2>4 DEF Engaged
<1> QED
  BY <1>1, <1>2 DEF OtherPages

\* A dumper without a dump, and a dump of a queue
LEMMA FreePair ==
    ASSUME NEW s, NEW c, Good(s, c), NEW i \in Dumpers, IsFree(s, i), NEW d, d \notin s.inprogress
    PROVE  Pair(s, i, d)
BY FreeIs DEF Pair

\* Plain, for the books alone
LEMMA PlainBooks ==
    ASSUME NEW s, NEW t, Books(s), Plain(s, t), s.inprogress \subseteq Dles,
           ToSet(s.roomq) \subseteq s.inprogress
    PROVE  Books(t)
<1>1. ASSUME NEW d \in Dles PROVE SamePage(s, t, d)
  <2>1. s.sched[d].act_size \in Nat
    BY DEF Books, Page
  <2>2. t.sched[d].holdp = s.sched[d].holdp /\ t.sched[d].act_size \in Nat
    BY <2>1 DEF Plain
  <2>3. Works(s, d) <=> Works(t, d)
    BY DEF Plain, Works
  <2>4. Works(t, d) => /\ t.sched[d].activehd = s.sched[d].activehd
                       /\ Calmer(s.chk[s.sched[d].dumper], t.chk[t.sched[d].dumper])
    BY DEF Plain, Works, Calmer
  <2>5. d \in ToSet(t.roomq) => d \in ToSet(s.roomq) /\ t.sched[d].activehd = s.sched[d].activehd
    BY DEF Plain
  <2>6. d \in ToSet(t.runq) => d \in ToSet(s.runq)
    BY DEF Plain
  <2>7. d \in Flush => (t.outcome[d] = "taped" <=> s.outcome[d] = "taped")
    BY DEF Plain
  <2>8. t.outcome[d] = "unread" => s.outcome[d] = "unread"
    BY DEF Plain
  <2> QED
    BY <2>2, <2>3, <2>4, <2>5, <2>6, <2>7, <2>8 DEF SamePage
<1>2. SameSpace(s, t)
  BY DEF SameSpace, Books, Plain
<1>3. Hands(t)
  <2> SUFFICES ASSUME NEW i \in Dumpers, t.chk[i].proc \in {"writing", "room"}
               PROVE  Engaged(t, i) /\ t.dmp[i].chunker
    BY DEF Hands
  <2>1. t.chk[i] = s.chk[i] /\ t.dmp[i] = s.dmp[i] /\ t.inprogress = s.inprogress
    BY DEF Plain
  <2>2. Engaged(s, i) /\ s.dmp[i].chunker
    BY <2>1 DEF Books, Hands
  <2>3. t.sched[s.dmp[i].dp].dumper = s.sched[s.dmp[i].dp].dumper
    BY <2>2 DEF Engaged, Plain
  <2> QED
    BY <2>1, <2>2, <2>3 DEF Engaged
<1> QED
  BY <1>1, <1>2, <1>3, BooksSame

\* Fields that Seen does not compare are not in the books.
LEMMA SeenBooks ==
    ASSUME NEW s, NEW t, Books(s), Seen(s, t), s.inprogress \subseteq Dles,
           ToSet(s.roomq) \subseteq s.inprogress
    PROVE  Books(t)
<1>1. Plain(s, t)
  BY DEF Seen, Plain
<1> QED
  BY <1>1, PlainBooks

\* What the start of a dump to holding disk changes
LEMMA TookHoldingIs ==
    ASSUME NEW s, Shape(s), Accounts(s.ha), NEW i \in Dumpers, NEW d \in Dles,
           NEW t, t = TookHolding(s, i, d), s.sched[d].holdp[1].disk \in Hdisks
    PROVE  /\ SameSpace(s, t)
           /\ t.sched[d].holdp = s.sched[d].holdp /\ t.sched[d].activehd = s.sched[d].activehd
           /\ t.sched[d].act_size = s.sched[d].act_size
           /\ \A e \in Dles : e # d => t.sched[e] = s.sched[e]
           /\ t.chk[i].proc = "writing" /\ t.chk[i].wrote = 0
           /\ t.chk[i].use = s.sched[d].holdp[1].reserved
           /\ t.roomq = s.roomq
<1> DEFINE first == s.sched[d].holdp[1]
           nd == [s.dmp[i] EXCEPT !.busy = TRUE, !.dp = d, !.result = None,
                                 !.chunker = TRUE, !.told = TRUE]
           nc == [result |-> None, sendresult |-> FALSE, proc |-> "writing",
                        use |-> first.reserved, wrote |-> 0]
<1>0. t = [s EXCEPT
            !.ha[first.disk].allocated_dumpers = @ + 1,
            !.runq = RemoveFirst(@, d), !.inprogress = @ \cup {d},
            !.sched[d].dumper = i, !.dmp[i] = nd, !.chk[i] = nc]
  BY DEF TookHolding
<1>1. nc.proc = "writing" /\ nc.wrote = 0 /\ nc.use = first.reserved
  OBVIOUS
<1> HIDE DEF nd, nc
<1>2. PICK g, n : g = first.disk /\ n = s.ha[g].allocated_dumpers + 1
  OBVIOUS
<1>3. t = [s EXCEPT
            !.ha[g].allocated_dumpers = n,
            !.runq = RemoveFirst(@, d), !.inprogress = @ \cup {d},
            !.sched[d].dumper = i, !.dmp[i] = nd, !.chk[i] = nc]
  BY <1>0, <1>2
<1>4. /\ t.ha = [s.ha EXCEPT ![g].allocated_dumpers = n] /\ t.roomq = s.roomq
      /\ t.sched = [s.sched EXCEPT ![d].dumper = i] /\ t.chk = [s.chk EXCEPT ![i] = nc]
  BY <1>3, Shaped DEF Fields
<1>5. g \in Hdisks /\ n \in Int
  BY <1>2 DEF Accounts
<1>6. SameSpace(s, t)
  BY <1>4, <1>5, DumpersSpace
<1>7. /\ t.sched[d].holdp = s.sched[d].holdp /\ t.sched[d].activehd = s.sched[d].activehd
      /\ t.sched[d].act_size = s.sched[d].act_size
      /\ \A e \in Dles : e # d => t.sched[e] = s.sched[e]
  BY <1>4, Shaped DEF SchedFields
<1>8. t.chk[i] = nc
  BY <1>4, Shaped
<1> QED
  BY <1>1, <1>4, <1>6, <1>7, <1>8

\* A dump that is given its first space has this, less the space it had.
LEMMA StartedHoldingFine ==
    ASSUME NEW s, NEW c, Fine(s, c), NEW i \in Dumpers, IsFree(s, i), NEW d \in ToSet(s.runq),
           NEW new, Fits(s.ha, new), new # <<>>, NEW t, t = StartedHolding(s, i, d, new)
    PROVE  Fine(t, c)
<1> DEFINE u == [s EXCEPT !.sched[d].act_size = 0]
           v == AssignHoldingdisk(u, d, new)
<1>0. Good(s, c) /\ Books(s) /\ Shape(s) /\ Queues(s) /\ Placed(s) /\ Accounts(s.ha)
  BY DEF Fine, Good, Inv, Books
<1>1. d \in Dles /\ d \notin Flush /\ d \notin s.inprogress /\ s.outcome[d] = None /\ Page(s, d)
  <2>1. d \in Dles
    BY <1>0 DEF Queues, Queue, ToSet
  <2> QED
    BY <1>0, <2>1 DEF Placed, Apart, Held, Books
<1>2. s.sched[d].holdp = <<>>
  BY <1>1 DEF Page
<1>3. /\ Shape(u) /\ Beside(s, u) /\ u.roomq = s.roomq /\ u.chk = s.chk
      /\ \A e \in Dles : e # d => u.sched[e] = s.sched[e]
  BY <1>0, <1>1, ActSizeFrame
<1>4. u.ha = s.ha /\ u.sched[d].holdp = <<>> /\ u.sched[d].act_size = 0
  <2>1. u.ha = s.ha /\ u.sched = [s.sched EXCEPT ![d].act_size = 0]
    BY <1>0, Shaped DEF Fields
  <2> HIDE DEF u
  <2> QED
    BY <1>0, <1>1, <1>2, <2>1, Shaped DEF SchedFields
<1>5. t = TookHolding(v, i, d)
  BY DEF StartedHolding
<1> HIDE DEF u
<1>6. /\ Shape(v) /\ Beside(u, v) /\ v.roomq = u.roomq /\ v.chk = u.chk
      /\ \A e \in Dles : e # d => v.sched[e] = u.sched[e]
  BY <1>1, <1>3, AssignFrame
<1>7. /\ v.ha = AssignSpace(s.ha, new) /\ v.sched[d].holdp = AssignHoldp(<<>>, new)
      /\ v.sched[d].activehd = AssignActive(<<>>, new) /\ v.sched[d].act_size = 0
  BY <1>1, <1>3, <1>4, AssignIs
<1> HIDE DEF v
<1>8. /\ Accounts(v.ha)
      /\ \A h \in Hdisks : /\ v.ha[h].allocated_space = s.ha[h].allocated_space + OnDisk(new, "reserved", h)
                           /\ v.ha[h].disksize = s.ha[h].disksize
  BY <1>0, <1>7, AssignSpaceIs
<1>9. Fresh(new)
  BY DEF Fits
<1>10. AssignHoldp(<<>>, new) = new /\ AssignActive(<<>>, new) = 1
  <2>1. [proc |-> "writing", wrote |-> 0, use |-> new[1].reserved].proc = "writing"
        /\ [proc |-> "writing", wrote |-> 0, use |-> new[1].reserved].wrote = 0
        /\ [proc |-> "writing", wrote |-> 0, use |-> new[1].reserved].use = new[1].reserved
    OBVIOUS
  <2> QED
    BY <1>9, <2>1, StartWork
<1>11. v.sched[d].holdp = new /\ v.sched[d].activehd = 1
  BY <1>7, <1>10
<1>12. new[1].disk \in Hdisks
  <2>1. new \in Seq(HdEntry) /\ 1 \in 1..Len(new)
    BY <1>9 DEF Fresh
  <2>2. new[1] \in HdEntry
    BY <2>1
  <2> QED
    BY <2>2 DEF HdEntry
<1>13. /\ SameSpace(v, t)
       /\ t.sched[d].holdp = new /\ t.sched[d].activehd = 1 /\ t.sched[d].act_size = 0
       /\ \A e \in Dles : e # d => t.sched[e] = v.sched[e]
       /\ t.chk[i].proc = "writing" /\ t.chk[i].wrote = 0 /\ t.chk[i].use = new[1].reserved
       /\ t.roomq = v.roomq
  BY <1>1, <1>5, <1>6, <1>7, <1>8, <1>11, <1>12, TookHoldingIs
<1>14. /\ TakesUp(v, t, i, d) /\ t.dmp[i].chunker /\ t.runq = RemoveFirst(v.runq, d) /\ t.outcome = v.outcome
  BY <1>1, <1>5, <1>6, TookHoldingFrame
<1>15. Good(t, c)
  BY <1>0, StartedHoldingGood
<1>16. Elsewhere(s, t, i, d)
  <2>1. ToSet(t.runq) = ToSet(s.runq) \ {d}
    BY <1>0, <1>3, <1>6, <1>14, QueueRemove DEF Beside, Queues
  <2>2. t.inprogress = s.inprogress \cup {d} /\ t.outcome = s.outcome /\ t.roomq = s.roomq
    BY <1>3, <1>6, <1>13, <1>14 DEF TakesUp, Beside
  <2>3. \A j \in Dumpers : j # i => t.dmp[j] = s.dmp[j] /\ t.chk[j] = s.chk[j]
    BY <1>3, <1>6, <1>14 DEF TakesUp, Beside
  <2>4. \A e \in Dles : e # d => t.sched[e] = s.sched[e]
    BY <1>3, <1>6, <1>13
  <2> QED
    BY <2>1, <2>2, <2>3, <2>4 DEF Elsewhere
<1>17. OtherPages(s, t, d)
  BY <1>0, <1>1, <1>16, FreePair, ElsewherePages
<1>18. Holdp(new) /\ AtWork(new, 1, t.chk[i])
  BY <1>9, <1>13, StartWork
<1>19. Page(t, d)
  <2>1. d \in t.inprogress /\ t.sched[d].dumper = i /\ t.outcome[d] = None
    BY <1>1, <1>3, <1>6, <1>14 DEF TakesUp, Beside
  <2>2. Works(t, d)
    BY <1>14, <2>1 DEF Works
  <2>3. d \notin ToSet(t.runq)
    BY <1>1, <1>15, <2>1 DEF Good, Inv, Placed, Apart
  <2>4. d \notin ToSet(t.roomq)
    BY <1>0, <1>1, <1>3, <1>6, <1>13 DEF Queues
  <2>5. t.outcome[d] # "unread" /\ 0 \in Nat
    BY <2>1 DEF None
  <2> QED
    BY <1>1, <1>13, <1>18, <2>1, <2>2, <2>3, <2>4, <2>5 DEF Page
<1>20. ASSUME NEW h \in Hdisks
       PROVE  /\ t.ha[h].allocated_space = s.ha[h].allocated_space
                    + OnDisk(t.sched[d].holdp, "reserved", h) - OnDisk(s.sched[d].holdp, "reserved", h)
              /\ t.ha[h].allocated_space <= t.ha[h].disksize
  <2>1. PICK n, z, m : n = OnDisk(new, "reserved", h) /\ z = s.ha[h].allocated_space /\ m = s.ha[h].disksize
    OBVIOUS
  <2>2. n \in Nat /\ (n = 0 \/ n <= m - z) /\ z \in Int /\ m \in Int
    BY <2>1, <1>0 DEF Fits, Free, Accounts
  <2>3. z <= m
    BY <2>1, <1>0 DEF Books, Balanced
  <2>4. OnDisk(s.sched[d].holdp, "reserved", h) = 0
    BY <1>2, OnDiskEmpty
  <2>5. t.ha[h].allocated_space = z + n /\ t.ha[h].disksize = m
    BY <2>1, <1>8, <1>13 DEF SameSpace
  <2>6. z + n = z + n - 0 /\ z + n <= m
    BY <2>2, <2>3
  <2>7. OnDisk(t.sched[d].holdp, "reserved", h) = n
    BY <2>1, <1>13
  <2> QED
    BY <2>1, <2>4, <2>5, <2>6, <2>7
<1>21. Accounts(t.ha) /\ Hands(t)
  BY <1>13, <1>15, GoodHands DEF SameSpace
<1>22. Books(t)
  BY <1>0, <1>1, <1>17, <1>19, <1>20, <1>21, BooksChange
<1> QED
  BY <1>15, <1>22 DEF Fine

\* A dumper that has no dump does nothing for the books.
LEMMA FreeHands ==
    ASSUME NEW s, NEW c, Good(s, c), Books(s), NEW t, NEW i \in Dumpers, NEW d \in Dles,
           Elsewhere(s, t, i, d), Pair(s, i, d), t.chk[i].proc \notin {"writing", "room"}
    PROVE  Hands(t)
BY ElsewherePages DEF Hands

\* The chunker gives no port.
LEMMA UnportedBooks ==
    ASSUME NEW s, NEW c, Fine(s, c), NEW i \in Dumpers, IsFree(s, i), NEW d \in ToSet(s.runq),
           NEW t, t = Unported(s, i, d)
    PROVE  Books(t)
<1>0. Good(s, c) /\ Books(s) /\ Shape(s) /\ Queues(s) /\ Placed(s) /\ Accounts(s.ha)
  BY DEF Fine, Good, Inv, Books
<1>1. d \in Dles /\ d \notin Flush /\ d \notin s.inprogress /\ s.outcome[d] = None /\ Page(s, d)
  <2>1. d \in Dles
    BY <1>0 DEF Queues, Queue, ToSet
  <2> QED
    BY <1>0, <2>1 DEF Placed, Apart, Held, Books
<1>2. t.ha = s.ha /\ t.sched = [s.sched EXCEPT ![d].act_size = 0, ![d].dump_attempted = @ + 1]
  BY <1>0, Shaped DEF Fields, Unported
<1>3. /\ t.sched[d].holdp = s.sched[d].holdp /\ t.sched[d].activehd = s.sched[d].activehd
      /\ t.sched[d].act_size = 0
      /\ \A e \in Dles : e # d => t.sched[e] = s.sched[e]
  BY <1>0, <1>1, <1>2, Shaped DEF SchedFields
<1>4. /\ t.runq = RemoveFirst(s.runq, d) /\ t.roomq = s.roomq /\ t.inprogress = s.inprogress
      /\ t.outcome = s.outcome /\ t.chk = s.chk
      /\ t.dmp[i] = IdleDumper /\ \A j \in Dumpers : j # i => t.dmp[j] = s.dmp[j]
  BY <1>0, <1>1, UnportedFrame
<1>5. ToSet(t.runq) = ToSet(s.runq) \ {d}
  BY <1>0, <1>4, QueueRemove DEF Queues
<1>6. Elsewhere(s, t, i, d)
  BY <1>3, <1>4, <1>5 DEF Elsewhere
<1>7. Pair(s, i, d) /\ t.chk[i].proc \notin {"writing", "room"}
  <2>1. s.chk[i] = NoChunker
    BY <1>0, FreeIs
  <2>2. t.chk[i].proc = None
    BY <2>1, <1>4 DEF NoChunker
  <2> QED
    BY <1>0, <1>1, <2>2, FreePair DEF None
<1>8. OtherPages(s, t, d) /\ Hands(t)
  BY <1>0, <1>1, <1>6, <1>7, ElsewherePages, FreeHands
<1>9. SamePage(s, t, d)
  <2>1. ~Works(s, d) /\ ~Works(t, d)
    BY <1>1, <1>4 DEF Works
  <2>2. 0 \in Nat
    OBVIOUS
  <2> QED
    BY <1>1, <1>3, <1>4, <1>5, <2>1, <2>2 DEF SamePage
<1>10. SameSpace(s, t)
  BY <1>0, <1>2 DEF SameSpace
<1> QED
  BY <1>0, <1>8, <1>9, <1>10, BooksSame DEF OtherPages

LEMMA NoPortFine ==
    ASSUME NEW s, NEW c, Fine(s, c), NEW i \in Dumpers, IsFree(s, i), NEW d \in ToSet(s.runq)
    PROVE  Fine(NoPort(Unported(s, i, d), d), c)
<1> DEFINE u == Unported(s, i, d)
           a == [u EXCEPT !.runq = Append(@, d)]
           b == Parted(u, d, "lost")
           w == IF u.sched[d].dump_attempted < 2 THEN a ELSE b
<1>0. Good(s, c) /\ Books(s) /\ Shape(s) /\ Queues(s) /\ Placed(s)
  BY DEF Fine, Good, Inv
<1>1. d \in Dles /\ d \notin Flush /\ d \notin s.inprogress /\ Page(s, d)
  <2>1. d \in Dles
    BY <1>0 DEF Queues, Queue, ToSet
  <2> QED
    BY <1>0, <2>1 DEF Placed, Apart, Books
<1>2. /\ Shape(u) /\ u.roomq = s.roomq /\ u.inprogress = s.inprogress /\ u.runq = RemoveFirst(s.runq, d)
  BY <1>0, <1>1, UnportedFrame
<1>3. Books(u)
  BY UnportedBooks
<1>4. NoPort(u, d) = DelayHost(w, d)
  BY DEF NoPort
<1>5. Good(NoPort(u, d), c)
  BY <1>0, NoPortGood
<1>5a. u.sched[d].holdp = <<>> /\ Queue(u.runq)
  <2>1. u.sched = [s.sched EXCEPT ![d].act_size = 0, ![d].dump_attempted = @ + 1]
    BY <1>0, Shaped DEF Fields, Unported
  <2>2. u.sched[d].holdp = s.sched[d].holdp
    BY <1>0, <1>1, <2>1, Shaped DEF SchedFields
  <2> QED
    BY <1>0, <1>1, <1>2, <2>2, QueueRemove DEF Page, Queues
<1> HIDE DEF u
<1>6. s.inprogress \subseteq Dles /\ ToSet(s.roomq) \subseteq s.inprogress
  BY <1>0 DEF Queues
<1>7. Books(a) /\ Shape(a) /\ a.inprogress = u.inprogress /\ a.roomq = u.roomq
  <2>1. /\ DOMAIN a = Fields /\ a.runq = Append(u.runq, d) /\ a.roomq = u.roomq
        /\ a.inprogress = u.inprogress /\ a.outcome = u.outcome /\ a.chk = u.chk /\ a.dmp = u.dmp
        /\ a.sched = u.sched /\ a.ha = u.ha /\ a.taper = u.taper /\ a.deaths = u.deaths
    BY <1>2, Shaped DEF Fields
  <2> HIDE DEF a
  <2>2. Shape(a)
    BY <1>2, <2>1 DEF Shape
  <2>3. \A e \in ToSet(a.runq) : e \in ToSet(u.runq) \/ e = d
    <3>1. d \notin ToSet(u.runq)
      BY <1>0, <1>2, QueueRemove DEF Queues
    <3>2. ToSet(a.runq) = ToSet(u.runq) \cup {d}
      BY <1>1, <1>5a, <2>1, <3>1, QueueAppend
    <3> QED
      BY <3>2
  <2>4. ASSUME NEW e \in Dles PROVE SamePage(u, a, e)
    <3>1. u.sched[e].act_size \in Nat
      BY <1>3 DEF Books, Page
    <3>2. Works(u, e) <=> Works(a, e)
      BY <2>1, Zenon DEF Works
    <3>3. Calmer(u.chk[u.sched[e].dumper], a.chk[a.sched[e].dumper])
      BY <2>1 DEF Calmer
    <3>4. e \in ToSet(a.runq) => e \in ToSet(u.runq) \/ u.sched[e].holdp = <<>>
      BY <1>5a, <2>3
    <3> QED
      BY <2>1, <3>1, <3>2, <3>3, <3>4 DEF SamePage
  <2>5. SameSpace(u, a) /\ Hands(a)
    <3>1. Accounts(u.ha) /\ Hands(u)
      BY <1>3 DEF Books
    <3>2. Hands(a)
      BY <2>1, <3>1, Zenon DEF Hands, Engaged
    <3> QED
      BY <2>1, <3>1, <3>2 DEF SameSpace
  <2> QED
    BY <1>3, <2>1, <2>2, <2>4, <2>5, BooksSame
<1>8. Books(b) /\ Shape(b) /\ b.inprogress = u.inprogress /\ b.roomq = u.roomq
  <2>1. Shape(b) /\ PartedIn(u, b, d)
    BY <1>1, <1>2, PartedFrame
  <2>2. Plain(u, b)
    <3>1. d \notin u.inprogress /\ "lost" # "unread" /\ d \notin Flush
      BY <1>1, <1>2
    <3> QED
      BY <1>1, <1>2, <3>1, PartedPlain
  <2> HIDE DEF b
  <2>3. u.inprogress \subseteq Dles /\ ToSet(u.roomq) \subseteq u.inprogress
    BY <1>2, <1>6
  <2>4. Books(b)
    BY <1>3, <2>2, <2>3, PlainBooks
  <2> QED
    BY <2>1, <2>4 DEF PartedIn
<1> HIDE DEF a, b
<1>9. Books(w) /\ Shape(w) /\ w.inprogress = s.inprogress /\ w.roomq = s.roomq
  BY <1>2, <1>7, <1>8
<1> HIDE DEF w
<1>10. Seen(w, DelayHost(w, d))
  BY <1>9, DelayFrame
<1>11. Books(DelayHost(w, d))
  BY <1>6, <1>9, <1>10, SeenBooks
<1> QED
  BY <1>4, <1>5, <1>11 DEF Fine, u

LEMMA DumpToTapeFine ==
    ASSUME NEW s, NEW c, Fine(s, c), NEW i \in Dumpers, IsFree(s, i), NEW d \in ToSet(s.directq),
           CanFlush(s)
    PROVE  Fine(DumpToTape(s, i, d), c)
<1> DEFINE t == TookTape(s, i, d)
<1>0. Good(s, c) /\ Books(s) /\ Shape(s) /\ Queues(s) /\ Placed(s) /\ Accounts(s.ha)
  BY DEF Fine, Good, Inv, Books
<1>1. d \in Dles /\ d \notin Flush /\ d \notin s.inprogress /\ d \notin ToSet(s.roomq) /\ Page(s, d)
  <2>1. d \in Dles
    BY <1>0 DEF Queues, Queue, ToSet
  <2> QED
    BY <1>0, <2>1 DEF Placed, Apart, Books, Queues
<1>2. ~Engaged(s, i) /\ s.chk[i] = NoChunker
  BY <1>0, FreeIs
<1>3. /\ Shape(t) /\ TakesUp(s, t, i, d) /\ ~t.dmp[i].chunker /\ t.chk = s.chk
      /\ t.runq = s.runq /\ t.outcome = s.outcome
  BY <1>0, <1>1, <1>2, TookTapeFrame
<1>4. DumpToTape(s, i, d) = DelayHost(t, d)
  BY DEF DumpToTape, TookTape
<1>5. Good(DumpToTape(s, i, d), c)
  BY <1>0, DumpToTapeGood
<1>6. t.ha = s.ha /\ t.sched = [s.sched EXCEPT ![d].act_size = 0, ![d].dumper = i]
  BY <1>0, Shaped DEF Fields, TookTape
<1> HIDE DEF t
<1>7. /\ t.sched[d].holdp = s.sched[d].holdp /\ t.sched[d].act_size = 0 /\ t.sched[d].dumper = i
      /\ \A e \in Dles : e # d => t.sched[e] = s.sched[e]
  BY <1>0, <1>1, <1>6, Shaped DEF SchedFields
<1>8. t.inprogress = s.inprogress \cup {d} /\ t.roomq = s.roomq
  BY <1>3 DEF TakesUp
<1>9. Elsewhere(s, t, i, d)
  BY <1>3, <1>7, <1>8 DEF Elsewhere, TakesUp
<1>10. Pair(s, i, d)
  BY <1>0, <1>1, FreePair
<1>11. OtherPages(s, t, d) /\ Hands(t)
  <2>1. t.chk[i].proc \notin {"writing", "room"}
    BY <1>2, <1>3 DEF NoChunker, None
  <2> QED
    BY <1>0, <1>1, <1>9, <1>10, <2>1, ElsewherePages, FreeHands
<1>12. SamePage(s, t, d)
  <2>1. ~Works(s, d) /\ ~Works(t, d)
    BY <1>1, <1>3, <1>7 DEF Works
  <2>2. 0 \in Nat
    OBVIOUS
  <2> QED
    BY <1>1, <1>3, <1>7, <1>8, <2>1, <2>2 DEF SamePage
<1>13. SameSpace(s, t)
  BY <1>0, <1>6 DEF SameSpace
<1>14. Books(t)
  BY <1>0, <1>11, <1>12, <1>13, BooksSame DEF OtherPages
<1>15. Seen(t, DelayHost(t, d))
  BY <1>3, DelayFrame
<1>16. t.inprogress \subseteq Dles /\ ToSet(t.roomq) \subseteq t.inprogress
  BY <1>0, <1>1, <1>8 DEF Queues
<1>17. Books(DelayHost(t, d))
  BY <1>14, <1>15, <1>16, SeenBooks
<1> QED
  BY <1>4, <1>5, <1>17 DEF Fine

LEMMA DelayFine ==
    ASSUME NEW s, NEW c, Fine(s, c), NEW d
    PROVE  Fine(DelayHost(s, d), c)
<1>1. Shape(s)
  BY DEF Fine, Good, Inv
<1> QED
  BY <1>1, DelayFrame, SeenFine

LEMMA DumpToHoldingFine ==
    ASSUME NEW s, NEW c, Fine(s, c), NEW i \in Dumpers, IsFree(s, i), NEW d \in ToSet(s.runq),
           Space(s, d) # <<>>, NEW t \in DumpToHolding(s, i, d)
    PROVE  Fine(t, c)
<1> DEFINE u == StartedHolding(s, i, d, Space(s, d))
           v == NoPort(Unported(s, i, d), d)
<1>1. t = DelayHost(u, d) \/ t = v
  <2>1. \/ t = ToHolding(AssignHoldingdisk([s EXCEPT !.sched[d].act_size = 0], d, Space(s, d)), i, d)
        \/ t \in IF ~MayFault(s) THEN {} ELSE {v}
    BY Zenon DEF DumpToHolding, Unported
  <2>2. \A x : ToHolding(x, i, d) = DelayHost(TookHolding(x, i, d), d)
    BY DEF ToHolding, TookHolding
  <2>3. t \in (IF ~MayFault(s) THEN {} ELSE {v}) => t = v
    <3> HIDE DEF v
    <3> QED
      OBVIOUS
  <2> QED
    BY <2>1, <2>2, <2>3, Zenon DEF StartedHolding
<1>2. Fits(s.ha, Space(s, d))
  <2>1. d \in Dles /\ Accounts(s.ha) /\ Shape(s)
    BY DEF Fine, Good, Inv, Queues, Queue, ToSet, Books
  <2>2. s.sched[d].est_size \in Int
    BY <2>1, Shaped
  <2> QED
    BY <2>1, <2>2, FindFits DEF Space
<1>3. Fine(DelayHost(u, d), c)
  BY <1>2, StartedHoldingFine, DelayFine
<1>4. Fine(v, c)
  BY NoPortFine
<1> QED
  BY <1>1, <1>3, <1>4

\* The rounds of start_some_dumps.
Begun(a, c) == DOMAIN a = {"s", "toHolding", "noSpace", "stop"} /\ Fine(a.s, c)

\* One dumper of start_some_dumps keeps the books.
LEMMA StartDumperFine ==
    ASSUME NEW a, NEW c, Begun(a, c), NEW i \in Dumpers, NEW b \in StartDumper(a, i)
    PROVE  Begun(b, c)
<1> DEFINE s == a.s
           tapeable == IF CanFlush(s) THEN ToSet(s.directq) ELSE {}
           direct == {d \in tapeable : ~Delayed(s, d) /\ ~client_constrained(s, d)}
           late == SelectSeq(s.delayed, LAMBDA h :
                    \E d \in tapeable \cup ToSet(s.runq) : Host[d] = h)
           after(t, noSpace, D) ==
            IF D # {}
            THEN {[a EXCEPT !.s = u, !.noSpace = noSpace] :
                    u \in UNION {DumpToHolding(t, i, d) : d \in D}}
            ELSE {[a EXCEPT !.s = IF late = <<>> THEN u ELSE [u EXCEPT !.timer = Head(late)],
                            !.noSpace = noSpace, !.stop = late # <<>>] :
                    u \in IF noSpace THEN StartAFlush(t) ELSE {t}}
           ev == s.tapeq = <<>> /\ ~a.toHolding /\ no_taper_flushing(s)
           t == IF ev THEN FoldLeft(EvictUnfit, s, s.runq) ELSE s
           ns == a.noSpace \/ Unfit(s) # {}
           D == Acceptable(s)
<1>0. Fine(s, c) /\ DOMAIN a = {"s", "toHolding", "noSpace", "stop"}
  BY DEF Begun
<1>1. CASE a.stop \/ s.dmp[i].busy \/ s.dmp[i].down
  BY <1>1 DEF StartDumper
<1>2. CASE ~(a.stop \/ s.dmp[i].busy \/ s.dmp[i].down) /\ direct # {}
  <2>1. b \in {[a EXCEPT !.s = DumpToTape(s, i, d)] : d \in direct}
    BY <1>2, Zenon DEF StartDumper
  <2>2. PICK d \in direct : b = [a EXCEPT !.s = DumpToTape(s, i, d)]
    BY <2>1
  <2>3. CanFlush(s) /\ d \in ToSet(s.directq)
    BY <2>2
  <2>4. IsFree(s, i)
    BY <1>2 DEF IsFree
  <2>5. Fine(DumpToTape(s, i, d), c)
    BY <1>0, <2>3, <2>4, DumpToTapeFine
  <2> QED
    BY <1>0, <2>2, <2>5 DEF Begun
<1>3. CASE ~(a.stop \/ s.dmp[i].busy \/ s.dmp[i].down) /\ direct = {}
  <2>1. b \in after(t, ns, D)
    BY <1>3, Zenon DEF StartDumper
  <2>2. IsFree(s, i)
    BY <1>3 DEF IsFree
  <2>3. Fine(t, c) /\ IsFree(t, i) /\ \A d \in D : d \in ToSet(t.runq) /\ Space(t, d) # <<>>
    <3>0. \A d \in D : Space(s, d) # <<>> /\ d \in ToSet(s.runq)
      BY DEF Acceptable, Candidates
    <3>1. CASE ev
      <4>1. t = FoldLeft(EvictUnfit, s, s.runq)
        BY <3>1
      <4>2. Fine(t, c)
        BY <1>0, <4>1, EvictAllFine
      <4>3. t.dmp = s.dmp /\ t.ha = s.ha /\ \A d \in D : d \in ToSet(t.runq) /\ t.sched[d] = s.sched[d]
        BY <1>0, <4>1, EvictAllGood DEF Fine
      <4> HIDE DEF t, D
      <4>4. \A d \in D : Space(t, d) = Space(s, d)
        BY <4>3, Zenon DEF Space
      <4> QED
        BY <3>0, <4>2, <4>3, <4>4, <2>2 DEF IsFree
    <3>2. CASE ~ev
      <4>1. t = s
        BY <3>2
      <4> QED
        BY <3>0, <4>1, <1>0, <2>2
    <3> QED
      BY <3>1, <3>2
  <2> HIDE DEF t, ns, D, late
  <2>4. CASE D # {}
    <3>1. b \in {[a EXCEPT !.s = u, !.noSpace = ns] : u \in UNION {DumpToHolding(t, i, d) : d \in D}}
      BY <2>1, <2>4, Zenon
    <3>2. PICK u \in UNION {DumpToHolding(t, i, d) : d \in D} : b = [a EXCEPT !.s = u, !.noSpace = ns]
      BY <3>1
    <3>3. PICK d \in D : u \in DumpToHolding(t, i, d)
      BY <3>2
    <3>4. Fine(u, c)
      BY <2>3, <3>3, DumpToHoldingFine
    <3> QED
      BY <1>0, <3>2, <3>4 DEF Begun
  <2>5. CASE D = {}
    <3> DEFINE w(u) == IF late = <<>> THEN u ELSE [u EXCEPT !.timer = Head(late)]
               last == late # <<>>
    <3>1. b \in {[a EXCEPT !.s = w(u), !.noSpace = ns, !.stop = last] :
                    u \in IF ns THEN StartAFlush(t) ELSE {t}}
      BY <2>1, <2>5, Zenon
    <3>2. PICK u \in IF ns THEN StartAFlush(t) ELSE {t} :
                b = [a EXCEPT !.s = w(u), !.noSpace = ns, !.stop = last]
      BY <3>1
    <3>3. Fine(u, c)
      <4>1. u \in StartAFlush(t) \/ u = t
        BY <3>2, Zenon
      <4> QED
        BY <4>1, <2>3, StartAFlushFine
    <3>4. Fine(w(u), c)
      <4>1. CASE late = <<>>
        BY <4>1, <3>3
      <4>2. CASE late # <<>>
        <5>1. Shape(u)
          BY <3>3 DEF Fine, Good, Inv
        <5>2. Seen(u, [u EXCEPT !.timer = Head(late)])
          BY <5>1, Shaped DEF Seen, Fields
        <5> QED
          BY <4>2, <3>3, <5>2, SeenFine
      <4> QED
        BY <4>1, <4>2
    <3> HIDE DEF w, last
    <3> QED
      BY <1>0, <3>2, <3>4 DEF Begun
  <2> QED
    BY <2>4, <2>5
<1> QED
  BY <1>1, <1>2, <1>3

-----------------------------------------------------------------------------
(* start_some_dumps over all dumpers.          *)

\* All dumpers of start_some_dumps keep the books.
LEMMA StartAllFine ==
    ASSUME NEW c, NEW A, \A a \in A : Begun(a, c),
           NEW b \in FoldLeft(StartRound, A, [i \in Dumpers |-> i])
    PROVE  Begun(b, c)
<1>0. InParallel \in Nat /\ Dumpers = 1..InParallel
  BY DriverAssumption DEF Dumpers
<1>1. PICK f : /\ f[0] = A
               /\ \A n \in Dumpers : f[n] = StartRound(f[n - 1], n)
               /\ FoldLeft(StartRound, A, [i \in Dumpers |-> i]) = f[InParallel]
  BY StartRounds
<1> DEFINE Ok(k) == \A a \in f[k] : Begun(a, c)
           T == {k \in 0..InParallel : Ok(k)}
<1>2. Ok(0)
  BY <1>1
<1>3. ASSUME NEW k \in 0..(InParallel - 1), Ok(k) PROVE Ok(k + 1)
  <2>1. k + 1 \in Dumpers /\ (k + 1) - 1 = k
    BY <1>0
  <2>2. f[k + 1] = UNION {StartDumper(a, k + 1) : a \in f[k]}
    BY <1>1, <2>1 DEF StartRound
  <2> SUFFICES ASSUME NEW a \in f[k], NEW x \in StartDumper(a, k + 1)
               PROVE  Begun(x, c)
    BY <2>2
  <2> QED
    BY <1>3, <2>1, StartDumperFine
<1> HIDE DEF Ok
<1>4. 0 \in T /\ \A k \in 0..(InParallel - 1) : k \in T => k + 1 \in T
  <2>1. 0 \in 0..InParallel /\ \A k \in 0..(InParallel - 1) : k + 1 \in 0..InParallel
    BY <1>0
  <2> QED
    BY <2>1, <1>2, <1>3, Zenon
<1> HIDE DEF T
<1>5. \A k \in 0..InParallel : k \in T
  BY <1>0, <1>4, StartLoop!UpTo
<1>6. Ok(InParallel)
  <2>1. InParallel \in 0..InParallel
    BY <1>0
  <2> QED
    BY <1>5, <2>1 DEF T
<1> QED
  BY <1>1, <1>6, Zenon DEF Ok

\* start_some_dumps keeps the books.
LEMMA StartSomeDumpsFine ==
    ASSUME NEW s, NEW c, Fine(s, c), NEW t \in StartSomeDumps(s)
    PROVE  Fine(t, c)
<1> DEFINE toHolding == \E i \in Dumpers : s.dmp[i].busy /\ s.sched[s.dmp[i].dp].hold # "never"
           A == {[s |-> [u EXCEPT !.timer = None], toHolding |-> toHolding,
                  noSpace |-> FALSE, stop |-> FALSE] : u \in Elapsed(s)}
<1>1. CASE ~s.taper_started
  BY <1>1 DEF StartSomeDumps
<1>2. CASE s.taper_started
  <2>1. t \in {a.s : a \in FoldLeft(StartRound, A, [i \in Dumpers |-> i])}
    BY <1>2, Zenon DEF StartSomeDumps
  <2> HIDE DEF toHolding
  <2>2. ASSUME NEW u \in Elapsed(s)
        PROVE  Fine([u EXCEPT !.timer = None], c)
    <3>1. PICK e : u = [s EXCEPT !.delayed = SubSeq(@, e + 1, Len(@))]
      BY DEF Elapsed
    <3>2. PICK x : u = [s EXCEPT !.delayed = x]
      BY <3>1
    <3>3. Shape(s)
      BY DEF Fine, Good, Inv
    <3>4. Seen(s, [u EXCEPT !.timer = None])
      BY <3>2, <3>3, Shaped DEF Seen, Fields
    <3> QED
      BY <3>4, SeenFine
  <2>3. \A a \in A : Begun(a, c)
    <3> SUFFICES ASSUME NEW u \in Elapsed(s)
                 PROVE  Begun([s |-> [u EXCEPT !.timer = None], toHolding |-> toHolding,
                                  noSpace |-> FALSE, stop |-> FALSE], c)
      BY Zenon
    <3> DEFINE v == [u EXCEPT !.timer = None]
    <3>1. Fine(v, c)
      BY <2>2
    <3> HIDE DEF v
    <3>2. Begun([s |-> v, toHolding |-> toHolding, noSpace |-> FALSE, stop |-> FALSE], c)
      BY <3>1 DEF Begun
    <3> QED
      BY <3>2 DEF v
  <2> HIDE DEF A
  <2>4. PICK a \in FoldLeft(StartRound, A, [i \in Dumpers |-> i]) : t = a.s
    BY <2>1, Zenon
  <2>5. Begun(a, c)
    BY <2>3, <2>4, StartAllFine
  <2> QED
    BY <2>4, <2>5 DEF Begun
<1> QED
  BY <1>1, <1>2

\* start_some_dumps and startaflush keep the books.
LEMMA RescheduleFine ==
    ASSUME NEW s, NEW c, Fine(s, c), NEW t \in Reschedule(s)
    PROVE  Fine(t, c)
<1>1. PICK u \in StartSomeDumps(s) : t \in StartAFlush(u)
  BY DEF Reschedule
<1>2. Fine(u, c)
  BY <1>1, StartSomeDumpsFine
<1> QED
  BY <1>1, <1>2, StartAFlushFine

\* The same, from any of several states.
LEMMA RescheduleAllFine ==
    ASSUME NEW S, NEW c, \A s \in S : Fine(s, c), NEW t \in RescheduleAll(S)
    PROVE  Fine(t, c)
<1>1. PICK s \in S : t \in Reschedule(s)
  BY DEF RescheduleAll
<1> QED
  BY <1>1, RescheduleFine

-----------------------------------------------------------------------------
(* The end of a dump.                                                      *)

\* Nothing changes but the sched_t, the outcome and the queue of dump d.
Aside(s, t, d) ==
    /\ t.chk = s.chk /\ t.dmp = s.dmp /\ t.inprogress = s.inprogress /\ t.roomq = s.roomq
    /\ \A e \in Dles : t.sched[e].dumper = s.sched[e].dumper
    /\ \A e \in Dles : e # d =>
          /\ t.sched[e] = s.sched[e] /\ t.outcome[e] = s.outcome[e]
          /\ e \in ToSet(t.runq) => e \in ToSet(s.runq)

\* All dumps in progress are dumps of the run.
Rooms(s) == s.inprogress \subseteq Dles /\ ToSet(s.roomq) \subseteq s.inprogress

LEMMA AsidePages ==
    ASSUME NEW s, NEW t, NEW d, Books(s), Rooms(s), Aside(s, t, d)
    PROVE  OtherPages(s, t, d) /\ Hands(t)
<1>1. ASSUME NEW e \in Dles, e # d PROVE SamePage(s, t, e)
  <2>1. t.sched[e] = s.sched[e] /\ t.outcome[e] = s.outcome[e] /\ (e \in ToSet(t.runq) => e \in ToSet(s.runq))
    BY <1>1 DEF Aside
  <2>2. t.chk = s.chk /\ t.dmp = s.dmp /\ t.inprogress = s.inprogress /\ t.roomq = s.roomq
    BY DEF Aside
  <2>3. s.sched[e].act_size \in Nat
    BY DEF Books, Page
  <2>4. Works(s, e) <=> Works(t, e)
    BY <2>1, <2>2, Zenon DEF Works
  <2>5. Calmer(s.chk[s.sched[e].dumper], t.chk[t.sched[e].dumper])
    BY <2>1, <2>2 DEF Calmer
  <2> QED
    BY <2>1, <2>2, <2>3, <2>4, <2>5 DEF SamePage
<1>2. ASSUME NEW i \in Dumpers, t.chk[i].proc \in {"writing", "room"}
      PROVE  Engaged(t, i) /\ t.dmp[i].chunker
  <2>1. Engaged(s, i) /\ s.dmp[i].chunker
    BY <1>2 DEF Books, Hands, Aside
  <2>2. s.dmp[i].dp \in Dles
    BY <2>1 DEF Engaged, Rooms
  <2> QED
    BY <2>1, <2>2 DEF Engaged, Aside
<1> QED
  BY <1>1, <1>2 DEF OtherPages, Hands

\* delete_diskspace
LEMMA DeletedIs ==
    ASSUME NEW s, Shape(s), Accounts(s.ha), NEW d \in Dles, Holdp(s.sched[d].holdp), NEW t, t = Deleted(s, d)
    PROVE  /\ t.sched[d].holdp = <<>> /\ t.sched[d].act_size = 0
           /\ Accounts(t.ha)
           /\ \A h \in Hdisks :
                 /\ t.ha[h].disksize = s.ha[h].disksize
                 /\ t.ha[h].allocated_space = s.ha[h].allocated_space - OnDisk(s.sched[d].holdp, "used", h)
<1> DEFINE sp == DeleteSpace(s.ha, s.sched[d].holdp)
<1>1. /\ DOMAIN sp = Hdisks
      /\ \A h \in Hdisks : sp[h] = [s.ha[h] EXCEPT !.allocated_space = @ - OnDisk(s.sched[d].holdp, "used", h)]
  BY DEF DeleteSpace
<1> HIDE DEF sp
<1>2. ASSUME NEW h \in Hdisks
      PROVE  /\ sp[h].allocated_space = s.ha[h].allocated_space - OnDisk(s.sched[d].holdp, "used", h)
             /\ sp[h].disksize = s.ha[h].disksize /\ sp[h].disksize \in Int
             /\ sp[h].allocated_dumpers \in Int /\ sp[h].allocated_space \in Int
             /\ DOMAIN sp[h] = {"disksize", "allocated_space", "allocated_dumpers"}
  <2>1. PICK n : n = OnDisk(s.sched[d].holdp, "used", h)
    OBVIOUS
  <2>2. n \in Nat
    BY <2>1, OnDiskIs DEF Holdp, Amount
  <2>3. sp[h] = [s.ha[h] EXCEPT !.allocated_space = @ - n]
    BY <1>1, <2>1
  <2> QED
    BY <2>1, <2>2, <2>3 DEF Accounts
<1>3. t = [s EXCEPT !.ha = sp, !.sched[d].holdp = <<>>, !.sched[d].activehd = 0, !.sched[d].act_size = 0]
  BY DEF Deleted, sp
<1>4. t.ha = sp /\ t.sched = [s.sched EXCEPT ![d].holdp = <<>>, ![d].activehd = 0, ![d].act_size = 0]
  BY <1>3, Shaped DEF Fields
<1>5. t.sched[d].holdp = <<>> /\ t.sched[d].act_size = 0
  BY <1>4, Shaped DEF SchedFields
<1>6. Accounts(sp)
  BY <1>1, <1>2 DEF Accounts
<1> QED
  BY <1>2, <1>4, <1>5, <1>6

LEMMA DeletedAside ==
    ASSUME NEW s, Shape(s), NEW d \in Dles
    PROVE  Shape(Deleted(s, d)) /\ Beside(s, Deleted(s, d)) /\ Aside(s, Deleted(s, d), d)
<1>1. Shape(Deleted(s, d)) /\ DeletedIn(s, Deleted(s, d), d)
  BY DeletedFrame
<1> QED
  BY <1>1 DEF DeletedIn, Beside, Aside

LEMMA NoEntries == Holdp(<<>>) /\ Settled(<<>>)
<1>1. <<>> \in Seq(HdEntry) /\ Len(<<>>) = 0 /\ 1..0 = {}
  OBVIOUS
<1> QED
  BY <1>1 DEF Holdp, Settled

\* The files of a dump of this run are unlinked.
LEMMA DeletedBooks ==
    ASSUME NEW s, Shape(s), Books(s), Rooms(s), NEW d \in Dles \ Flush, d \notin s.inprogress
    PROVE  Books(Deleted(s, d))
<1> DEFINE t == Deleted(s, d)
           q == s.sched[d].holdp
<1>0. Accounts(s.ha) /\ Page(s, d) /\ ~Works(s, d) /\ Holdp(q)
  BY DEF Books, Page, Works
<1>1. /\ t.sched[d].holdp = <<>> /\ t.sched[d].act_size = 0
      /\ Accounts(t.ha)
      /\ \A h \in Hdisks : /\ t.ha[h].disksize = s.ha[h].disksize
                           /\ t.ha[h].allocated_space = s.ha[h].allocated_space - OnDisk(q, "used", h)
  BY <1>0, DeletedIs
<1>2. Shape(t) /\ Beside(s, t) /\ Aside(s, t, d)
  BY DeletedAside
<1> HIDE DEF t
<1>3. OtherPages(s, t, d) /\ Hands(t)
  BY <1>2, AsidePages
<1>4. Page(t, d)
  <2>1. ~Works(t, d) /\ d \notin ToSet(t.roomq)
    BY <1>2 DEF Works, Aside, Rooms
  <2>2. 0 \in Nat
    OBVIOUS
  <2> QED
    BY <1>1, <2>1, <2>2, NoEntries DEF Page
<1>5. ASSUME NEW h \in Hdisks
      PROVE  /\ t.ha[h].allocated_space = s.ha[h].allocated_space
                    + OnDisk(t.sched[d].holdp, "reserved", h) - OnDisk(s.sched[d].holdp, "reserved", h)
             /\ t.ha[h].allocated_space <= t.ha[h].disksize
  <2>1. PICK n, z, m : n = OnDisk(q, "used", h) /\ z = s.ha[h].allocated_space /\ m = s.ha[h].disksize
    OBVIOUS
  <2>2. OnDisk(q, "reserved", h) = n /\ n \in Nat
    BY <1>0, <2>1, SettledOnDisk DEF Page
  <2>3. z \in Int /\ m \in Int /\ z <= m
    BY <1>0, <2>1 DEF Accounts, Books, Balanced
  <2>4. t.ha[h].allocated_space = z - n /\ t.ha[h].disksize = m
    BY <1>1, <2>1
  <2>5. OnDisk(t.sched[d].holdp, "reserved", h) = 0
    BY <1>1, OnDiskEmpty
  <2>6. z - n = z + 0 - n /\ z - n <= m
    BY <2>2, <2>3
  <2> QED
    BY <2>1, <2>2, <2>4, <2>5, <2>6
<1>6. Books(t)
  BY <1>1, <1>3, <1>4, <1>5, BooksChange
<1> QED
  BY <1>6 DEF t

\* A dump that goes to directq or to tapeq moves no space.
LEMMA QueuedPlain ==
    ASSUME NEW s, Shape(s), NEW d \in Dles
    PROVE  /\ Plain(s, InDirectq(s, d)) /\ Plain(s, InTapeq(s, d))
           /\ Plain(s, FirstTapeq(s, d)) /\ Plain(s, FirstDirectq(s, d))
<1>1. Plain(s, InDirectq(s, d))
  <2> DEFINE t == InDirectq(s, d)
  <2>1. /\ t.ha = s.ha /\ t.chk = s.chk /\ t.dmp = s.dmp /\ t.runq = s.runq
        /\ t.inprogress = s.inprogress /\ t.roomq = s.roomq /\ t.sched = s.sched /\ t.outcome = s.outcome
    BY Shaped DEF Fields, InDirectq
  <2> QED
    BY <2>1 DEF Plain
<1>2. Plain(s, InTapeq(s, d))
  <2> DEFINE t == InTapeq(s, d)
  <2>1. /\ t.ha = s.ha /\ t.chk = s.chk /\ t.dmp = s.dmp /\ t.runq = s.runq
        /\ t.inprogress = s.inprogress /\ t.roomq = s.roomq /\ t.sched = s.sched /\ t.outcome = s.outcome
    BY Shaped DEF Fields, InTapeq
  <2> QED
    BY <2>1 DEF Plain
<1>3. Plain(s, FirstTapeq(s, d))
  <2> DEFINE t == FirstTapeq(s, d)
  <2>1. /\ t.ha = s.ha /\ t.chk = s.chk /\ t.dmp = s.dmp /\ t.runq = s.runq
        /\ t.inprogress = s.inprogress /\ t.roomq = s.roomq /\ t.sched = s.sched /\ t.outcome = s.outcome
    BY Shaped DEF Fields, FirstTapeq
  <2> QED
    BY <2>1 DEF Plain
<1>4. Plain(s, FirstDirectq(s, d))
  <2> DEFINE t == FirstDirectq(s, d)
             da == s.sched[d].dump_attempted - 1
  <2>1. /\ t.ha = s.ha /\ t.chk = s.chk /\ t.dmp = s.dmp /\ t.runq = s.runq
        /\ t.inprogress = s.inprogress /\ t.roomq = s.roomq /\ t.outcome = s.outcome
        /\ t.sched = [s.sched EXCEPT ![d].hold = "never", ![d].dump_attempted = da]
    BY Shaped DEF Fields, FirstDirectq
  <2> HIDE DEF t, da
  <2>2. /\ t.sched[d].holdp = s.sched[d].holdp /\ t.sched[d].act_size = s.sched[d].act_size
        /\ t.sched[d].dumper = s.sched[d].dumper /\ t.sched[d].activehd = s.sched[d].activehd
        /\ \A e \in Dles : e # d => t.sched[e] = s.sched[e]
    BY <2>1, Shaped DEF SchedFields
  <2>3. \A e \in Dles : /\ t.sched[e].holdp = s.sched[e].holdp /\ t.sched[e].act_size = s.sched[e].act_size
                        /\ t.sched[e].dumper = s.sched[e].dumper /\ t.sched[e].activehd = s.sched[e].activehd
    BY <2>2
  <2> QED
    BY <2>1, <2>3 DEF Plain, t
<1> QED
  BY <1>1, <1>2, <1>3, <1>4

\* A dump without files comes back to runq.
LEMMA RunqBooks ==
    ASSUME NEW s, Shape(s), Books(s), Rooms(s), NEW d \in Dles, s.sched[d].holdp = <<>>,
           Queue(s.runq), d \notin ToSet(s.runq)
    PROVE  Books(InRunq(s, d))
<1> DEFINE t == InRunq(s, d)
<1>1. /\ t.runq = Append(s.runq, d) /\ t.roomq = s.roomq
      /\ t.inprogress = s.inprogress /\ t.outcome = s.outcome /\ t.chk = s.chk /\ t.dmp = s.dmp
      /\ t.sched = s.sched /\ t.ha = s.ha
  BY Shaped DEF Fields, InRunq
<1> HIDE DEF t
<1>2. ToSet(t.runq) = ToSet(s.runq) \cup {d}
  BY <1>1, QueueAppend
<1>3. Aside(s, t, d)
  BY <1>1, <1>2 DEF Aside
<1>4. OtherPages(s, t, d) /\ Hands(t)
  BY <1>3, AsidePages
<1>5. SamePage(s, t, d)
  <2>1. s.sched[d].act_size \in Nat
    BY DEF Books, Page
  <2>2. Works(s, d) <=> Works(t, d)
    BY <1>1, Zenon DEF Works
  <2>3. Calmer(s.chk[s.sched[d].dumper], t.chk[t.sched[d].dumper])
    BY <1>1 DEF Calmer
  <2> QED
    BY <1>1, <2>1, <2>2, <2>3 DEF SamePage
<1>6. SameSpace(s, t)
  BY <1>1 DEF SameSpace, Books
<1>7. \A e \in Dles : SamePage(s, t, e)
  BY <1>4, <1>5 DEF OtherPages
<1>8. Books(t)
  BY <1>4, <1>6, <1>7, BooksSame
<1> QED
  BY <1>8 DEF t

LEMMA PartedBooks ==
    ASSUME NEW s, Shape(s), Books(s), Rooms(s), NEW d \in Dles, d \notin s.inprogress, NEW how, how # "unread",
           d \in Flush => s.outcome[d] # "taped" /\ how # "taped"
    PROVE  Books(Parted(s, d, how))
<1>1. Plain(s, Parted(s, d, how))
  BY PartedPlain
<1> QED
  BY <1>1, PlainBooks DEF Rooms

\* dumper_chunker_result puts its dump in a queue, or parts with it.
LEMMA QueuedBooks ==
    ASSUME NEW s, NEW d \in Dles \ Flush, Unqueued(s, d), Books(s), Rooms(s), d \notin s.inprogress,
           NEW failed, NEW wrote
    PROVE  Books(Queued(s, d, failed, wrote))
<1> DEFINE u == Deleted(s, d)
<1>1. Books(u) /\ Shape(u) /\ u.runq = s.runq /\ u.inprogress = s.inprogress /\ u.roomq = s.roomq
  BY DeletedBooks, DeletedAside DEF Unqueued, Beside, Aside
<1>1a. u.sched[d].holdp = <<>>
  <2>1. Accounts(s.ha) /\ Holdp(s.sched[d].holdp)
    BY DEF Books, Page
  <2> QED
    BY <2>1, DeletedIs DEF Unqueued
<1> HIDE DEF u
<1>2. Rooms(u)
  BY <1>1 DEF Rooms
<1>3. Books(InDirectq(u, d)) /\ Books(InTapeq(s, d))
  <2>1. Plain(u, InDirectq(u, d)) /\ Plain(s, InTapeq(s, d))
    BY <1>1, QueuedPlain DEF Unqueued
  <2> QED
    BY <2>1, <1>1, <1>2, PlainBooks DEF Rooms
<1>4. Books(InRunq(u, d))
  BY <1>1, <1>1a, <1>2, RunqBooks DEF Unqueued
<1>5. Books(Parted(u, d, "failed"))
  <2>1. "failed" # "unread"
    OBVIOUS
  <2> QED
    BY <2>1, <1>1, <1>2, PartedBooks
<1>6. Queued(s, d, failed, wrote) \in
        {InDirectq(u, d), InRunq(u, d), InTapeq(s, d), Parted(u, d, "failed")}
  BY Zenon DEF Queued, InDirectq, InRunq, InTapeq, u
<1> QED
  BY <1>3, <1>4, <1>5, <1>6, Zenon

\* A chunker that has no dump is collected.
LEMMA CollectedBooks ==
    ASSUME NEW s, Shape(s), Books(s), Rooms(s), NEW i \in Dumpers, s.dmp[i].dp \notin s.inprogress,
           DumperLinks(Collected(s, i))
    PROVE  Books(Collected(s, i))
<1> DEFINE pa == IF s.chk[i].result = "ABORT-FINISHED" THEN s.pending_aborts - 1 ELSE s.pending_aborts
           t == [s EXCEPT !.chk[i] = NoChunker, !.pending_aborts = pa]
<1>1. t = Collected(s, i)
  BY Zenon DEF Collected
<1> HIDE DEF pa
<1>2. /\ t.ha = s.ha /\ t.dmp = s.dmp /\ t.sched = s.sched /\ t.inprogress = s.inprogress
      /\ t.roomq = s.roomq /\ t.runq = s.runq /\ t.outcome = s.outcome
      /\ t.chk = [s.chk EXCEPT ![i] = NoChunker]
  BY Shaped DEF Fields
<1>3. DumperLinks(t)
  BY <1>1
<1> HIDE DEF t
<1>4. t.chk[i] = NoChunker /\ \A j \in Dumpers : j # i => t.chk[j] = s.chk[j]
  BY <1>2, Shaped
<1>5. \A e \in s.inprogress : s.sched[e].dumper \in Dumpers /\ s.sched[e].dumper # i
  BY <1>2, <1>3 DEF DumperLinks
<1>6. ASSUME NEW e \in Dles PROVE SamePage(s, t, e)
  <2>1. s.sched[e].act_size \in Nat
    BY DEF Books, Page
  <2>2. Works(s, e) <=> Works(t, e)
    BY <1>2, Zenon DEF Works
  <2>3. Works(t, e) => Calmer(s.chk[s.sched[e].dumper], t.chk[t.sched[e].dumper])
    BY <1>2, <1>4, <1>5 DEF Calmer, Works
  <2> QED
    BY <1>2, <2>1, <2>2, <2>3 DEF SamePage
<1>7. SameSpace(s, t)
  BY <1>2 DEF SameSpace, Books
<1>8. Hands(t)
  <2> SUFFICES ASSUME NEW j \in Dumpers, t.chk[j].proc \in {"writing", "room"}
               PROVE  Engaged(t, j) /\ t.dmp[j].chunker
    BY DEF Hands
  <2>1. j # i
    BY <1>4 DEF NoChunker, None
  <2>2. Engaged(s, j) /\ s.dmp[j].chunker
    BY <1>4, <2>1 DEF Books, Hands
  <2> QED
    BY <1>2, <2>2, Zenon DEF Engaged
<1> QED
  BY <1>1, <1>6, <1>7, <1>8, BooksSame

LEMMA UsedNat ==
    ASSUME NEW p \in Seq(HdEntry)
    PROVE  Used(p) \in Nat
<1>1. Len(p) \in Nat /\ Len(p) \in 0..Len(p) /\ DOMAIN p = 1..Len(p)
  OBVIOUS
<1>2. SumFunction(UsedUp(p, Len(p))) \in Nat
  BY <1>1, BeforeIs
<1> QED
  BY <1>1, <1>2, Zenon DEF Used, UsedUp

\* adjust_diskspace, for entries p whose sizes are known
OneLess(ha, g) == [ha EXCEPT ![g].allocated_dumpers = @ - 1]

LEMMA AdjustSpaceIs ==
    ASSUME NEW ha, Accounts(ha), NEW g \in Hdisks, NEW p,
           \A h \in Hdisks : OnDisk(p, "used", h) \in Nat /\ OnDisk(p, "reserved", h) \in Nat
    PROVE  /\ Accounts(AdjustSpace(OneLess(ha, g), p))
           /\ \A h \in Hdisks :
                 /\ AdjustSpace(OneLess(ha, g), p)[h].disksize = ha[h].disksize
                 /\ AdjustSpace(OneLess(ha, g), p)[h].allocated_space =
                       ha[h].allocated_space + OnDisk(p, "used", h) - OnDisk(p, "reserved", h)
<1>1. PICK n : n = ha[g].allocated_dumpers - 1
  OBVIOUS
<1>2. n \in Int
  BY <1>1 DEF Accounts
<1> DEFINE hc == [ha EXCEPT ![g].allocated_dumpers = n]
           hb == AdjustSpace(hc, p)
<1>3. DOMAIN hc = Hdisks /\ hc[g] = [ha[g] EXCEPT !.allocated_dumpers = n] /\ \A h \in Hdisks : h # g => hc[h] = ha[h]
  BY DEF Accounts
<1> HIDE DEF hc
<1>4. \A h \in Hdisks : /\ hc[h].disksize = ha[h].disksize /\ hc[h].allocated_space = ha[h].allocated_space
                        /\ hc[h].disksize \in Int /\ hc[h].allocated_space \in Int /\ hc[h].allocated_dumpers \in Int
                        /\ DOMAIN hc[h] = {"disksize", "allocated_space", "allocated_dumpers"}
  BY <1>2, <1>3 DEF Accounts
<1>5. DOMAIN hb = Hdisks
  BY DEF AdjustSpace
<1>6. ASSUME NEW h \in Hdisks
      PROVE  /\ hb[h].disksize = ha[h].disksize
             /\ hb[h].allocated_space = ha[h].allocated_space + OnDisk(p, "used", h) - OnDisk(p, "reserved", h)
             /\ hb[h].disksize \in Int /\ hb[h].allocated_space \in Int /\ hb[h].allocated_dumpers \in Int
             /\ DOMAIN hb[h] = {"disksize", "allocated_space", "allocated_dumpers"}
  <2>1. PICK x, y : x = OnDisk(p, "used", h) /\ y = OnDisk(p, "reserved", h)
    OBVIOUS
  <2>2. x \in Nat /\ y \in Nat
    BY <2>1
  <2>3. hb[h] = [hc[h] EXCEPT !.allocated_space = @ + x - y]
    BY <2>1 DEF AdjustSpace
  <2> HIDE DEF hb
  <2> QED
    BY <1>4, <2>1, <2>2, <2>3
<1> HIDE DEF hb
<1>7. Accounts(hb)
  BY <1>5, <1>6 DEF Accounts
<1> QED
  BY <1>1, <1>6, <1>7 DEF hb, hc, OneLess

\* What adjust_diskspace changes
LEMMA AdjustedIs ==
    ASSUME NEW s, Shape(s), NEW d \in Dles, NEW p, NEW t, t = Adjusted(s, d, p)
    PROVE  /\ t.ha = AdjustSpace(OneLess(s.ha, p[s.sched[d].activehd].disk), p)
           /\ t.sched[d].holdp = AdjustHoldp(p) /\ t.sched[d].act_size = Used(p)
<1> DEFINE i == s.sched[d].dumper
           h == p[s.sched[d].activehd].disk
           sp == AdjustSpace([s.ha EXCEPT ![h].allocated_dumpers = @ - 1], p)
           hp == AdjustHoldp(p)
           us == Used(p)
           nd == [IdleDumper EXCEPT !.down = s.dmp[i].down, !.dp = d]
           da == s.sched[d].dump_attempted + 1
<1>0. t = [s EXCEPT !.ha = sp, !.sched[d].holdp = hp, !.sched[d].act_size = us,
                    !.sched[d].dump_attempted = da, !.sched[d].dumper = 0,
                    !.dmp[i] = nd, !.inprogress = @ \ {d}]
  BY DEF Adjusted
<1> HIDE DEF sp, hp, us, nd, da
<1>1. t.ha = sp /\ t.sched = [s.sched EXCEPT ![d].holdp = hp, ![d].act_size = us,
                                   ![d].dump_attempted = da, ![d].dumper = 0]
  BY <1>0, Shaped DEF Fields
<1>2. t.sched[d].holdp = hp /\ t.sched[d].act_size = us
  BY <1>1, Shaped DEF SchedFields
<1> QED
  BY <1>1, <1>2 DEF sp, hp, us, OneLess

\* What the sizes of the files say of the entries p of a dump whose entries were q
Sizes(q, a, p) ==
    /\ p \in Seq(HdEntry) /\ p[a].disk \in Hdisks
    /\ Holdp(AdjustHoldp(p)) /\ Settled(AdjustHoldp(p))
    /\ \A h : /\ OnDisk(AdjustHoldp(p), "reserved", h) = OnDisk(p, "used", h)
              /\ OnDisk(p, "reserved", h) = OnDisk(q, "reserved", h)
              /\ OnDisk(p, "used", h) \in Nat /\ OnDisk(p, "reserved", h) \in Nat
              /\ OnDisk(p, "used", h) <= OnDisk(p, "reserved", h)

LEMMA SizesOf ==
    ASSUME NEW q, Holdp(q), NEW a, NEW ch, AtWork(q, a, ch)
    PROVE  Sizes(q, a, Sized(q, a, ch.wrote - Before(q, a)))
<1>1. PICK p, r :
              /\ p = Sized(q, a, ch.wrote - Before(q, a)) /\ r = AdjustHoldp(p)
              /\ p \in Seq(HdEntry) /\ a \in 1..Len(p) /\ p[a].disk = q[a].disk /\ q[a].disk \in Hdisks
              /\ Holdp(r) /\ Settled(r)
              /\ \A h : /\ OnDisk(r, "reserved", h) = OnDisk(p, "used", h)
                        /\ OnDisk(p, "reserved", h) = OnDisk(q, "reserved", h)
                        /\ OnDisk(p, "used", h) \in Nat /\ OnDisk(p, "reserved", h) \in Nat
                        /\ OnDisk(p, "used", h) <= OnDisk(p, "reserved", h)
  BY FinishWork
<1>2. Sizes(q, a, p)
  BY <1>1 DEF Sizes
<1> QED
  BY <1>1, <1>2, Zenon

\* The entries of the dump get the sizes of its files, and the rest is given back.
LEMMA AdjustedBooks ==
    ASSUME NEW s, NEW c, Fine(s, c), NEW d \in s.inprogress, NEW i \in Dumpers, s.sched[d].dumper = i,
           s.dmp[i].dp = d, s.chk[i].proc \notin {"writing", "room"}, d \notin Flush,
           d \notin ToSet(s.roomq),
           NEW p, Sizes(s.sched[d].holdp, s.sched[d].activehd, p)
    PROVE  Books(Adjusted(s, d, p))
<1> DEFINE t == Adjusted(s, d, p)
           r == AdjustHoldp(p)
<1>0. Good(s, c) /\ Books(s) /\ Shape(s) /\ Queues(s) /\ Accounts(s.ha)
  BY DEF Fine, Good, Inv, Books
<1>1. d \in Dles /\ Apart(s, d) /\ s.outcome[d] = None
  <2>1. d \in Dles
    BY <1>0 DEF Queues
  <2> QED
    BY <1>0, <2>1 DEF Good, Inv, Placed, Held
<1>3. /\ p \in Seq(HdEntry) /\ Holdp(r) /\ Settled(r)
      /\ \A h : /\ OnDisk(r, "reserved", h) = OnDisk(p, "used", h)
                /\ OnDisk(p, "reserved", h) = OnDisk(s.sched[d].holdp, "reserved", h)
                /\ OnDisk(p, "used", h) \in Nat /\ OnDisk(p, "reserved", h) \in Nat
                /\ OnDisk(p, "used", h) <= OnDisk(p, "reserved", h)
  BY DEF Sizes
<1>4. PICK g : g = p[s.sched[d].activehd].disk /\ g \in Hdisks
  BY DEF Sizes
<1>5. PICK u : u = t
  OBVIOUS
<1>51. /\ u.ha = AdjustSpace(OneLess(s.ha, p[s.sched[d].activehd].disk), p)
       /\ u.sched[d].holdp = AdjustHoldp(p) /\ u.sched[d].act_size = Used(p)
  BY <1>0, <1>1, <1>5, AdjustedIs
<1> HIDE DEF r
<1>52. u.ha = AdjustSpace(OneLess(s.ha, g), p) /\ u.sched[d].holdp = r /\ u.sched[d].act_size = Used(p)
  BY <1>4, <1>51, Zenon DEF r
<1>6. /\ t.ha = u.ha /\ t.sched[d] = u.sched[d]
      /\ t.runq = s.runq /\ t.roomq = s.roomq
      /\ t.inprogress = s.inprogress \ {d} /\ t.outcome = s.outcome /\ t.chk = s.chk
      /\ \A j \in Dumpers : j # i => t.dmp[j] = s.dmp[j]
      /\ \A e \in Dles : e # d => t.sched[e] = s.sched[e]
  BY <1>0, <1>1, <1>5, AdjustedFrame
<1> HIDE DEF t
<1>7. Elsewhere(s, t, i, d)
  BY <1>6 DEF Elsewhere
<1>8. Pair(s, i, d)
  BY <1>1 DEF Pair
<1>9. OtherPages(s, t, d) /\ Hands(t)
  <2>1. t.chk[i].proc \notin {"writing", "room"}
    BY <1>6
  <2> QED
    BY <1>0, <1>1, <1>7, <1>8, <2>1, ElsewherePages, FreeHands
<1>10. Page(t, d)
  <2>1. ~Works(t, d)
    BY <1>6 DEF Works
  <2>2. d \notin ToSet(t.roomq) /\ d \notin ToSet(t.runq) /\ d \notin Flush
    BY <1>1, <1>6 DEF Apart
  <2>3. t.outcome[d] # "unread"
    BY <1>1, <1>6 DEF None
  <2>4. t.sched[d].act_size \in Nat
    BY <1>3, <1>52, <1>6, UsedNat
  <2> QED
    BY <1>1, <1>3, <1>52, <1>6, <2>1, <2>2, <2>3, <2>4 DEF Page
<1>11. /\ Accounts(t.ha)
       /\ \A h \in Hdisks :
             /\ t.ha[h].disksize = s.ha[h].disksize
             /\ t.ha[h].allocated_space =
                   s.ha[h].allocated_space + OnDisk(p, "used", h) - OnDisk(p, "reserved", h)
  <2>1. \A h \in Hdisks : OnDisk(p, "used", h) \in Nat /\ OnDisk(p, "reserved", h) \in Nat
    BY <1>3
  <2>2. t.ha = AdjustSpace(OneLess(s.ha, g), p)
    BY <1>52, <1>6
  <2> QED
    BY <1>0, <1>4, <2>1, <2>2, AdjustSpaceIs
<1>12. ASSUME NEW h \in Hdisks
       PROVE  /\ t.ha[h].allocated_space = s.ha[h].allocated_space
                    + OnDisk(t.sched[d].holdp, "reserved", h) - OnDisk(s.sched[d].holdp, "reserved", h)
              /\ t.ha[h].allocated_space <= t.ha[h].disksize
  <2>1. PICK x, y, z, m : /\ x = OnDisk(p, "used", h) /\ y = OnDisk(p, "reserved", h)
                          /\ z = s.ha[h].allocated_space /\ m = s.ha[h].disksize
    OBVIOUS
  <2>2. x \in Nat /\ y \in Nat /\ x <= y
    BY <1>3, <2>1
  <2>3. z \in Int /\ m \in Int /\ z <= m
    BY <1>0, <2>1 DEF Accounts, Balanced, Books
  <2>4. t.ha[h].allocated_space = z + x - y /\ t.ha[h].disksize = m
    BY <1>11, <2>1
  <2>5. OnDisk(t.sched[d].holdp, "reserved", h) = x /\ OnDisk(s.sched[d].holdp, "reserved", h) = y
    BY <1>3, <1>52, <1>6, <2>1
  <2>6. z + x - y <= m
    BY <2>2, <2>3
  <2> QED
    BY <2>1, <2>4, <2>5, <2>6
<1>13. Books(t)
  BY <1>0, <1>1, <1>9, <1>10, <1>11, <1>12, BooksChange
<1> QED
  BY <1>13 DEF t

\* dumper_chunker_result: the books stay right, even when waitpid blocks the driver.
LEMMA DumperChunkerBooks ==
    ASSUME NEW s, NEW c, Fine(s, c), NEW i \in Dumpers, s.chk[i].result # None,
           NEW t \in DumperChunkerResult(s, s.dmp[i].dp)
    PROVE  Books(t)
<1> DEFINE d == s.dmp[i].dp
           k == s.sched[d].activehd
           old == s.sched[d].holdp
           failed == s.dmp[i].result # "DONE" \/ s.chk[i].result # "DONE"
           wrote == s.chk[i].wrote
           hp == Sized(old, k, wrote - Before(old, k))
           u == Adjusted(s, d, hp)
           v == Queued(u, d, failed, wrote)
<1>0. Good(s, c) /\ Books(s) /\ Shape(s) /\ Queues(s) /\ Rooms(s)
  BY DEF Fine, Good, Inv, Queues, Rooms
<1>2. d \in s.inprogress /\ d \in Dles /\ s.sched[d].dumper = i /\ d \notin Flush
  BY <1>0, ChunkerOfDump
<1>3. CASE d \in ToSet(s.roomq)
  <2>1. t = [s EXCEPT !.broken = TRUE]
    BY <1>3 DEF DumperChunkerResult
  <2>2. Plain(s, t)
    BY <1>0, <2>1, Shaped DEF Fields, Plain
  <2> QED
    BY <1>0, <2>2, PlainBooks DEF Rooms
<1>4. CASE d \notin ToSet(s.roomq)
  <2>1. t \in Waited(v, i)
    <3>1. DumperChunkerResult(s, d) = Waited(v, i)
      BY <1>2, <1>4, Zenon DEF DumperChunkerResult, Sized, Before
    <3> QED
      BY <3>1
  <2>2. Books(u)
    <3>1. s.dmp[i].chunker /\ s.chk[i].proc \notin {"writing", "room"}
      BY <1>0, ChunkerOfDump
    <3>2. Page(s, d) /\ Works(s, d)
      BY <1>0, <1>2, <3>1 DEF Books, Works
    <3>3. Holdp(old) /\ AtWork(old, k, s.chk[i])
      BY <1>2, <3>2 DEF Page
    <3>4. Sizes(old, k, hp)
      BY <3>3, SizesOf
    <3> HIDE DEF hp
    <3> QED
      BY <1>2, <1>4, <3>1, <3>4, AdjustedBooks
  <2> HIDE DEF hp
  <2>3. Unqueued(u, d)
    BY <1>0, AdjustedUnqueued
  <2>4. u.inprogress = s.inprogress \ {d} /\ u.roomq = s.roomq /\ u.dmp[i].dp = d
    BY <1>0, <1>2, AdjustedFrame
  <2> HIDE DEF u
  <2>5. Rooms(u)
    BY <1>0, <1>4, <2>4 DEF Rooms
  <2>6. Books(v) /\ Requeued(u, v, d)
    BY <1>2, <2>2, <2>3, <2>4, <2>5, QueuedBooks, QueuedFrame
  <2> HIDE DEF v
  <2>7. v.inprogress = u.inprogress /\ v.roomq = u.roomq /\ v.dmp = u.dmp
    BY <2>6 DEF Requeued
  <2>8. Shape(v) /\ Good(Collected(v, i), c)
    BY <1>0, <1>4, <2>6, FinishedGood DEF u
  <2>9. Rooms(v)
    BY <2>5, <2>7 DEF Rooms
  <2>10. CASE v.chk[i].proc \notin {"quit", "dead"}
    <3>1. t = [v EXCEPT !.blocked = TRUE]
      BY <2>1, <2>10 DEF Waited
    <3>2. Plain(v, t)
      BY <2>8, <3>1, Shaped DEF Fields, Plain
    <3> QED
      BY <2>6, <2>9, <3>2, PlainBooks DEF Rooms
  <2>11. CASE v.chk[i].proc \in {"quit", "dead"}
    <3>1. t \in Reschedule(ContinuePortDumps(Collected(v, i)))
      BY <2>1, <2>11, Zenon DEF Waited, Collected
    <3>2. Books(Collected(v, i))
      <4>1. DumperLinks(Collected(v, i))
        BY <2>8 DEF Good, Inv
      <4>2. v.dmp[i].dp \notin v.inprogress
        BY <2>4, <2>7
      <4> QED
        BY <2>6, <2>8, <2>9, <4>1, <4>2, CollectedBooks
    <3>3. Fine(ContinuePortDumps(Collected(v, i)), c)
      BY <2>8, <3>2, ContinuePortDumpsFine DEF Fine
    <3> QED
      BY <3>1, <3>3, RescheduleFine DEF Fine
  <2> QED
    BY <2>10, <2>11
<1> QED
  BY <1>3, <1>4

LEMMA ConcludeBooks ==
    ASSUME NEW s, NEW c, Fine(s, c), NEW i \in Dumpers, NEW t \in Conclude(s, i)
    PROVE  Books(t)
<1>1. CASE s.chk[i].result # None /\ s.dmp[i].result # None
  BY <1>1, DumperChunkerBooks DEF Conclude
<1>2. CASE ~(s.chk[i].result # None /\ s.dmp[i].result # None)
  BY <1>2 DEF Conclude, Fine
<1> QED
  BY <1>1, <1>2

-----------------------------------------------------------------------------
(* The taper ends with a dump.                                             *)

\* The end of a flush moves no space.
LEMMA FileDonePlain ==
    ASSUME NEW s, Shape(s), NEW d \in Dles, NEW tries
    PROVE  Plain(s, FileDone(s, d, tries))
<1> DEFINE t == FileDone(s, d, tries)
<1>1. /\ t.ha = s.ha /\ t.chk = s.chk /\ t.dmp = s.dmp /\ t.runq = s.runq
      /\ t.inprogress = s.inprogress /\ t.roomq = s.roomq /\ t.outcome = s.outcome
      /\ t.sched = [s.sched EXCEPT ![d].taper_attempted = tries]
  BY Shaped DEF Fields, FileDone
<1> HIDE DEF t
<1>2. /\ t.sched[d].holdp = s.sched[d].holdp /\ t.sched[d].act_size = s.sched[d].act_size
      /\ t.sched[d].dumper = s.sched[d].dumper /\ t.sched[d].activehd = s.sched[d].activehd
      /\ \A e \in Dles : e # d => t.sched[e] = s.sched[e]
  BY <1>1, Shaped DEF SchedFields
<1>3. \A e \in Dles : /\ t.sched[e].holdp = s.sched[e].holdp /\ t.sched[e].act_size = s.sched[e].act_size
                      /\ t.sched[e].dumper = s.sched[e].dumper /\ t.sched[e].activehd = s.sched[e].activehd
  BY <1>2
<1> QED
  BY <1>1, <1>3 DEF Plain, t

\* Parting with a dump empties its account, and leaves its files.
LEMMA PartedIs ==
    ASSUME NEW s, Shape(s), NEW d \in Dles, NEW how
    PROVE  /\ Parted(s, d, how).sched[d].holdp = s.sched[d].holdp
           /\ Parted(s, d, how).sched[d].act_size = 0
           /\ PartedIn(s, Parted(s, d, how), d) /\ Parted(s, d, how).outcome[d] = how
<1> DEFINE t == Parted(s, d, how)
<1>1. PartedIn(s, t, d) /\ t.outcome[d] = how
  BY PartedFrame
<1>2. t.sched[d] = [s.sched[d] EXCEPT !.est_size = 0, !.act_size = 0, !.activehd = 0,
                                      !.dump_attempted = 0, !.taper_attempted = 0,
                                      !.no_space = FALSE, !.hold = "auto"]
  <2>1. t.sched = [s.sched EXCEPT ![d] = [@ EXCEPT !.est_size = 0, !.act_size = 0, !.activehd = 0,
                                     !.dump_attempted = 0, !.taper_attempted = 0,
                                     !.no_space = FALSE, !.hold = "auto"]]
    BY Shaped DEF Parted, Fields
  <2> QED
    BY <2>1, Shaped
<1> HIDE DEF t
<1>3. t.sched[d].holdp = s.sched[d].holdp /\ t.sched[d].act_size = 0
  BY <1>2, Shaped DEF SchedFields
<1> QED
  BY <1>1, <1>3 DEF t

\* A dump of an earlier run is on tape: its files are unlinked.
LEMMA FlushTapedBooks ==
    ASSUME NEW s, NEW d \in Flush, Unqueued(s, d), Books(s), Rooms(s), d \notin s.inprogress
    PROVE  Books(Parted(Deleted(s, d), d, "taped"))
<1> DEFINE u == Deleted(s, d)
           t == Parted(u, d, "taped")
           q == FlushHoldp[d]
<1>0. Shape(s) /\ Accounts(s.ha) /\ d \in Dles /\ d \notin ToSet(s.runq) /\ s.outcome[d] # "taped"
  BY DlesFinite DEF Books, Unqueued, None
<1>1. Page(s, d) /\ ~Works(s, d) /\ s.sched[d].holdp = q /\ Holdp(q) /\ Settled(q)
  <2>1. Page(s, d) /\ ~Works(s, d)
    BY <1>0 DEF Books, Works
  <2> QED
    BY <1>0, <2>1 DEF Page
<1>2. /\ u.sched[d].holdp = <<>> /\ Accounts(u.ha)
      /\ \A h \in Hdisks :
            /\ u.ha[h].disksize = s.ha[h].disksize
            /\ u.ha[h].allocated_space = s.ha[h].allocated_space - OnDisk(q, "used", h)
  <2>1. Holdp(s.sched[d].holdp)
    BY <1>1
  <2> HIDE DEF q
  <2> QED
    BY <1>0, <1>1, <2>1, DeletedIs
<1>3. Shape(u) /\ Aside(s, u, d)
  BY <1>0, DeletedAside
<1> HIDE DEF u
<1>4. t.sched[d].holdp = <<>> /\ t.sched[d].act_size = 0 /\ PartedIn(u, t, d) /\ t.outcome[d] = "taped"
  BY <1>0, <1>2, <1>3, PartedIs
<1> HIDE DEF t
<1>5. Aside(s, t, d)
  BY <1>3, <1>4 DEF Aside, PartedIn
<1>6. OtherPages(s, t, d) /\ Hands(t)
  BY <1>5, AsidePages
<1>7. Page(t, d)
  <2>1. ~Works(t, d) /\ d \notin ToSet(t.roomq)
    BY <1>5 DEF Works, Aside, Rooms
  <2>2. 0 \in Nat
    OBVIOUS
  <2> QED
    BY <1>4, <2>1, <2>2, NoEntries DEF Page
<1>8. Accounts(t.ha)
  BY <1>2, <1>4 DEF PartedIn
<1>9. ASSUME NEW h \in Hdisks
      PROVE  /\ t.ha[h].allocated_space = s.ha[h].allocated_space - OnDisk(FlushHoldp[d], "used", h)
             /\ t.ha[h].allocated_space <= t.ha[h].disksize
  <2>1. PICK n, z, m : n = OnDisk(q, "used", h) /\ z = s.ha[h].allocated_space /\ m = s.ha[h].disksize
    OBVIOUS
  <2>2. n \in Nat
    BY <1>1, <2>1, SettledOnDisk
  <2>3. z \in Int /\ m \in Int /\ z <= m
    BY <1>0, <2>1 DEF Accounts, Books, Balanced
  <2>4. t.ha[h].allocated_space = z - n /\ t.ha[h].disksize = m
    BY <1>2, <1>4, <2>1 DEF PartedIn
  <2>5. z - n <= m
    BY <2>2, <2>3
  <2> QED
    BY <2>1, <2>4, <2>5
<1>10. Books(t)
  BY <1>0, <1>4, <1>6, <1>7, <1>8, <1>9, BooksTaped
<1> QED
  BY <1>10 DEF t, u

\* Wherever file_taper_result puts the dump
LEMMA PlacedByTaperBooks ==
    ASSUME NEW u, NEW d \in Dles, Unqueued(u, d), Books(u), Rooms(u), d \notin u.inprogress,
           NEW p, PlacedByTaper(u, p, d)
    PROVE  Books(p)
<1>1. Shape(u) /\ u.outcome[d] # "taped"
  BY DEF Unqueued, None
<1>2. CASE p = Parted(u, d, "held") \/ p = Parted(u, d, "failed")
  <2>1. \A how \in {"held", "failed"} : how # "unread" /\ how # "taped"
    OBVIOUS
  <2> QED
    BY <1>1, <1>2, <2>1, PartedBooks
<1>3. CASE p = FirstTapeq(u, d) \/ p = FirstDirectq(u, d)
  <2>1. Plain(u, p)
    BY <1>1, <1>3, QueuedPlain
  <2> QED
    BY <2>1, PlainBooks DEF Rooms
<1>4. CASE p = Parted(Deleted(u, d), d, "taped")
  <2>1. CASE d \in Flush
    BY <1>4, <2>1, FlushTapedBooks
  <2>2. CASE d \notin Flush
    <3> DEFINE w == Deleted(u, d)
    <3>1. Books(w)
      BY <1>1, <2>2, DeletedBooks
    <3>2. Shape(w) /\ Aside(u, w, d)
      BY <1>1, DeletedAside
    <3> HIDE DEF w
    <3>3. Rooms(w) /\ d \notin w.inprogress
      BY <3>2 DEF Aside, Rooms
    <3>4. "taped" # "unread"
      OBVIOUS
    <3>5. Books(Parted(w, d, "taped"))
      BY <2>2, <3>1, <3>2, <3>3, <3>4, PartedBooks
    <3> QED
      BY <1>4, <3>5 DEF w
  <2> QED
    BY <2>1, <2>2
<1> QED
  BY <1>2, <1>3, <1>4 DEF PlacedByTaper

\* file_taper_result keeps the books.
LEMMA FileTaperFine ==
    ASSUME NEW s, NEW c, Fine(s, c), s.taper.mode = "file", NEW t \in FileTaperResult(s)
    PROVE  Fine(t, c)
<1> DEFINE d == s.taper.disk
<1>0. Good(s, c) /\ Books(s) /\ Shape(s) /\ Queues(s) /\ Placed(s) /\ Rooms(s)
  BY DEF Fine, Good, Inv, Queues, Rooms
<1>1. PICK tries, p : /\ Unqueued(FileDone(s, d, tries), d)
                      /\ PlacedByTaper(FileDone(s, d, tries), p, d)
                      /\ Good(p, c) /\ t \in Reschedule(ContinuePortDumps(p))
  BY <1>0, FileTaperPlaced
<1>2. d \in Dles /\ d \notin s.inprogress
  <2>1. Flushing(s) = {d} /\ d \in Dles
    BY <1>0 DEF Flushing, Queues
  <2> QED
    BY <1>0, <2>1 DEF Placed, Apart
<1> HIDE DEF d
<1> DEFINE u == FileDone(s, d, tries)
<1>3. Plain(s, u)
  BY <1>0, <1>2, FileDonePlain
<1>4. Unqueued(u, d) /\ PlacedByTaper(u, p, d)
  BY <1>1
<1> HIDE DEF u
<1>5. Books(u) /\ Rooms(u) /\ d \notin u.inprogress
  <2>1. Books(u)
    BY <1>0, <1>3, PlainBooks DEF Rooms
  <2> QED
    BY <1>0, <1>2, <1>3, <2>1 DEF Plain, Rooms
<1>6. Books(p)
  BY <1>2, <1>4, <1>5, PlacedByTaperBooks
<1>7. Fine(ContinuePortDumps(p), c)
  BY <1>1, <1>6, ContinuePortDumpsFine DEF Fine
<1> QED
  BY <1>1, <1>7, RescheduleFine

\* The dumper and the taper end with a dump, which has no files.
LEMMA TapeDoneBooks ==
    ASSUME NEW s, NEW c, Fine(s, c), NEW i \in Dumpers, NEW d \in s.inprogress \ Flush,
           s.sched[d].dumper = i, s.dmp[i].dp = d, ~s.dmp[i].chunker, s.chk[i] = NoChunker
    PROVE  Books(TapeDone(s, d, i))
<1> DEFINE t == TapeDone(s, d, i)
           nd == [IdleDumper EXCEPT !.down = s.dmp[i].down, !.dp = d]
           nt == [s.taper EXCEPT !.mode = "idle", !.disk = None, !.dumper = 0,
                            !.port = FALSE, !.result = None, !.err = None]
           da == s.sched[d].dump_attempted + 1
           ta == s.sched[d].taper_attempted + 1
<1>0. Good(s, c) /\ Books(s) /\ Shape(s) /\ Queues(s) /\ Placed(s) /\ RoomLinks(s) /\ Accounts(s.ha)
  BY DEF Fine, Good, Inv, Books
<1>1. d \in Dles /\ d \notin ToSet(s.runq)
  BY <1>0 DEF Queues, Placed, Apart
<1>2. d \notin ToSet(s.roomq) /\ Page(s, d)
  <2>1. s.chk[i].proc \notin {"room", "dead"}
    BY DEF NoChunker, None
  <2> QED
    BY <1>0, <1>1, <2>1 DEF RoomLinks, Books
<1>3. /\ Shape(t) /\ t.runq = s.runq /\ t.roomq = s.roomq
      /\ t.inprogress = s.inprogress \ {d} /\ t.outcome = s.outcome /\ t.chk = s.chk
      /\ \A j \in Dumpers : j # i => t.dmp[j] = s.dmp[j]
      /\ \A e \in Dles : e # d => t.sched[e] = s.sched[e]
  BY <1>0, <1>1, TapeDoneFrame
<1>4. t = [s EXCEPT !.sched[d].dump_attempted = da, !.sched[d].taper_attempted = ta,
                    !.sched[d].dumper = 0, !.dmp[i] = nd, !.inprogress = @ \ {d}, !.taper = nt]
  BY DEF TapeDone
<1> HIDE DEF t, nd, nt, da, ta
<1>5. /\ t.ha = s.ha
      /\ t.sched = [s.sched EXCEPT ![d].dump_attempted = da, ![d].taper_attempted = ta, ![d].dumper = 0]
  BY <1>0, <1>4, Shaped DEF Fields
<1>6. t.sched[d].holdp = s.sched[d].holdp /\ t.sched[d].act_size = s.sched[d].act_size
  BY <1>0, <1>1, <1>5, Shaped DEF SchedFields
<1>7. Elsewhere(s, t, i, d)
  BY <1>3 DEF Elsewhere
<1>8. Pair(s, i, d)
  BY DEF Pair
<1>9. OtherPages(s, t, d) /\ Hands(t)
  <2>1. t.chk[i].proc \notin {"writing", "room"}
    BY <1>3 DEF NoChunker, None
  <2> QED
    BY <1>0, <1>1, <1>7, <1>8, <2>1, ElsewherePages, FreeHands
<1>10. SamePage(s, t, d)
  <2>1. ~Works(s, d) /\ ~Works(t, d)
    BY <1>3 DEF Works
  <2>2. t.sched[d].act_size \in Nat
    BY <1>2, <1>6 DEF Page
  <2> QED
    BY <1>1, <1>2, <1>3, <1>6, <2>1, <2>2 DEF SamePage
<1>11. SameSpace(s, t)
  BY <1>0, <1>5 DEF SameSpace
<1>12. Books(t)
  BY <1>0, <1>9, <1>10, <1>11, BooksSame DEF OtherPages
<1> QED
  BY <1>12 DEF t

\* dumper_taper_result keeps the books.
LEMMA DumperTaperFine ==
    ASSUME NEW s, NEW c, Fine(s, c), s.taper.mode = "dump", NEW t \in DumperTaperResult(s)
    PROVE  Fine(t, c)
<1> DEFINE d == s.taper.disk
<1>0. Good(s, c) /\ Books(s) /\ Shape(s) /\ Queues(s)
  BY DEF Fine, Good, Inv
<1>1. PICK i \in Dumpers : \E v :
              /\ d \in s.inprogress \ Flush /\ s.sched[d].dumper = i
              /\ s.dmp[i].dp = d /\ ~s.dmp[i].chunker /\ s.chk[i] = NoChunker
              /\ \/ v = InDirectq(TapeDone(s, d, i), d)
                 \/ \E how \in {"taped", "failed"} : v = Parted(TapeDone(s, d, i), d, how)
              /\ Good(v, c) /\ t \in StartSomeDumps(v)
  BY <1>0, DumperTaperPlaced
<1>1a. PICK v :
              /\ \/ v = InDirectq(TapeDone(s, d, i), d)
                 \/ \E how \in {"taped", "failed"} : v = Parted(TapeDone(s, d, i), d, how)
              /\ Good(v, c) /\ t \in StartSomeDumps(v)
  BY <1>1
<1> HIDE DEF d
<1>2. d \in Dles
  BY <1>0, <1>1 DEF Queues
<1> DEFINE u == TapeDone(s, d, i)
<1>3. Books(u)
  BY <1>1, TapeDoneBooks
<1>4. Shape(u) /\ u.inprogress = s.inprogress \ {d} /\ u.roomq = s.roomq
  BY <1>0, <1>2, TapeDoneFrame
<1>5. v = InDirectq(u, d) \/ \E how \in {"taped", "failed"} : v = Parted(u, d, how)
  BY <1>1a
<1>6. d \notin ToSet(s.roomq)
  <2>1. s.chk[i].proc \notin {"room", "dead"}
    BY <1>1 DEF NoChunker, None
  <2> QED
    BY <1>0, <1>1, <2>1 DEF RoomLinks, Fine, Good, Inv
<1> HIDE DEF u
<1>7. Rooms(u)
  BY <1>0, <1>4, <1>6 DEF Rooms, Queues
<1>8. Books(v)
  <2>1. CASE v = InDirectq(u, d)
    <3>1. Plain(u, v)
      BY <1>2, <1>4, <2>1, QueuedPlain
    <3> QED
      BY <1>3, <1>7, <3>1, PlainBooks DEF Rooms
  <2>2. ASSUME NEW how \in {"taped", "failed"}, v = Parted(u, d, how) PROVE Books(v)
    <3>1. how # "unread" /\ d \notin Flush /\ d \notin u.inprogress
      BY <1>1, <1>4
    <3> QED
      BY <1>2, <1>3, <1>4, <1>7, <2>2, <3>1, PartedBooks
  <2> QED
    BY <1>5, <2>1, <2>2
<1> QED
  BY <1>1a, <1>8, StartSomeDumpsFine DEF Fine

-----------------------------------------------------------------------------
(* The messages of the children.                                           *)

\* The dump of a chunker, and where it is in it.
LEMMA WriterIs ==
    ASSUME NEW s, NEW c, Fine(s, c), NEW i \in Dumpers, s.chk[i].proc # None,
           NEW d, d = s.dmp[i].dp
    PROVE  /\ d \in s.inprogress /\ d \in Dles /\ s.sched[d].dumper = i /\ Works(s, d)
           /\ Page(s, d) /\ Holdp(s.sched[d].holdp)
           /\ AtWork(s.sched[d].holdp, s.sched[d].activehd, s.chk[i])
           /\ s.chk[i].wrote \in Nat /\ s.chk[i].use \in Nat
<1>1. Engaged(s, i) /\ s.dmp[i].chunker /\ d \in s.inprogress /\ d \in Dles /\ s.sched[d].dumper = i
  BY ChunkerAtWork DEF Fine
<1>2. Works(s, d) /\ Page(s, d)
  BY <1>1 DEF Works, Fine, Books
<1>3. Holdp(s.sched[d].holdp) /\ AtWork(s.sched[d].holdp, s.sched[d].activehd, s.chk[i])
  BY <1>1, <1>2 DEF Page
<1> QED
  BY <1>1, <1>2, <1>3 DEF AtWork

\* A chunker that ends, or dies, has no more than it had.
LEMMA StopsFine ==
    ASSUME NEW s, NEW c, Fine(s, c), NEW i \in Dumpers, s.chk[i].proc # None,
           NEW n \in Nat, n <= s.chk[i].use, NEW t, Good(t, c), Stops(s, t, i, n)
    PROVE  Fine(t, c)
<1>0. Good(s, c) /\ Shape(s) /\ Queues(s) /\ DumperLinks(s) /\ \A d \in Dles : Page(s, d)
  BY DEF Fine, Good, Inv, Books
<1>1. PICK ch : /\ ChunkerIn(s, t, i, ch) /\ ch.proc \notin {None, "room", "writing"}
                /\ \/ ch.wrote = s.chk[i].wrote /\ ch.use = s.chk[i].use
                   \/ ch.wrote = s.chk[i].wrote + n /\ ch.use = 0
  BY DEF Stops
<1>2. s.chk[i].wrote \in Nat /\ s.chk[i].use \in Nat
  BY WriterIs
<1>3. /\ t.ha = s.ha /\ t.sched = s.sched /\ t.dmp = s.dmp /\ t.inprogress = s.inprogress
      /\ t.roomq = s.roomq /\ t.runq = s.runq /\ t.outcome = s.outcome
      /\ t.chk = [s.chk EXCEPT ![i] = ch]
  BY <1>1 DEF ChunkerIn, SamePlaces
<1>4. t.chk[i] = ch /\ \A j \in Dumpers : j # i => t.chk[j] = s.chk[j]
  BY <1>0, <1>3 DEF Shape
<1>5. Calmer(s.chk[i], ch)
  <2>1. ch.wrote \in Nat /\ ch.use \in Nat /\ s.chk[i].wrote <= ch.wrote
        /\ ch.wrote + ch.use <= s.chk[i].wrote + s.chk[i].use
    BY <1>1, <1>2
  <2> QED
    BY <1>1, <2>1 DEF Calmer
<1>6. ASSUME NEW e \in Dles PROVE SamePage(s, t, e)
  <2>1. t.sched[e].act_size \in Nat
    BY <1>0, <1>3 DEF Page
  <2>2. Works(s, e) <=> Works(t, e)
    BY <1>3 DEF Works
  <2>3. ASSUME Works(t, e) PROVE Calmer(s.chk[s.sched[e].dumper], t.chk[t.sched[e].dumper])
    <3>1. s.sched[e].dumper \in Dumpers /\ t.sched[e].dumper = s.sched[e].dumper
      BY <1>0, <1>3, <2>3 DEF Works, DumperLinks
    <3>2. CASE s.sched[e].dumper = i
      BY <1>4, <1>5, <3>1, <3>2
    <3>3. CASE s.sched[e].dumper # i
      BY <1>4, <3>1, <3>3 DEF Calmer
    <3> QED
      BY <3>2, <3>3
  <2> QED
    BY <1>3, <2>1, <2>2, <2>3 DEF SamePage
<1> QED
  BY <1>3, <1>6, FineSame

LEMMA ToldFine ==
    ASSUME NEW s, NEW c, Fine(s, c), NEW i \in Dumpers, NEW t, Told(s, t, i)
    PROVE  Fine(t, c)
<1>1. CASE t = s
  BY <1>1
<1>2. CASE t = Tell(s, i) /\ s.chk[i].proc \notin {None, "room"}
  <2>1. Good(t, c) /\ Stops(s, t, i, 0)
    BY <1>2, TellGood DEF Fine
  <2>2. s.chk[i].proc # None /\ 0 \in Nat
    BY <1>2
  <2>3. 0 <= s.chk[i].use
    BY <2>2, WriterIs
  <2> QED
    BY <2>1, <2>2, <2>3, StopsFine
<1> QED
  BY <1>1, <1>2 DEF Told

LEMMA SaysFine ==
    ASSUME NEW s, NEW c, Fine(s, c), NEW i \in Dumpers, NEW t, Good(t, c), Says(s, t, i)
    PROVE  Fine(t, c)
<1>0. Good(s, c) /\ Shape(s) /\ \A d \in Dles : Page(s, d)
  BY DEF Fine, Good, Inv, Books
<1>1. PICK nd : DumperIn(s, t, i, nd) /\ nd.dp = s.dmp[i].dp /\ nd.chunker = s.dmp[i].chunker
  BY DEF Says
<1>3. /\ t.ha = s.ha /\ t.sched = s.sched /\ t.chk = s.chk /\ t.inprogress = s.inprogress
      /\ t.roomq = s.roomq /\ t.runq = s.runq /\ t.outcome = s.outcome
      /\ t.dmp = [s.dmp EXCEPT ![i] = nd]
  BY <1>1 DEF DumperIn, SamePlaces
<1>4. DumperLinks(s)
  BY <1>0 DEF Good, Inv
<1>5. \A j \in Dumpers : t.dmp[j].chunker = s.dmp[j].chunker
  BY <1>0, <1>1, <1>3 DEF Shape
<1>6. ASSUME NEW e \in Dles PROVE SamePage(s, t, e)
  <2>1. t.sched[e].act_size \in Nat
    BY <1>0, <1>3 DEF Page
  <2>2. Works(s, e) <=> Works(t, e)
    BY <1>3, <1>4, <1>5 DEF Works, DumperLinks
  <2>3. Calmer(s.chk[s.sched[e].dumper], t.chk[t.sched[e].dumper])
    BY <1>3 DEF Calmer
  <2> QED
    BY <1>3, <2>1, <2>2, <2>3 DEF SamePage
<1> QED
  BY <1>3, <1>6, FineSame

LEMMA TaperInPlain ==
    ASSUME NEW s, NEW t, TaperIn(s, t)
    PROVE  Plain(s, t)
BY DEF TaperIn, Plain

LEMMA TaperInFine ==
    ASSUME NEW s, NEW c, Fine(s, c), NEW t, TaperIn(s, t)
    PROVE  Fine(t, t.current_tape)
<1>1. Good(t, t.current_tape)
  BY TaperGood DEF Fine
<1>2. Books(t)
  BY TaperInPlain, PlainBooks DEF Fine, Good, Inv, Queues
<1> QED
  BY <1>1, <1>2 DEF Fine

LEMMA TaperSaysFine ==
    ASSUME NEW s, NEW c, Fine(s, c), NEW t, TaperSays(s, t)
    PROVE  Fine(t, c)
<1>1. t.current_tape = c
  BY DEF TaperSays, Fine, Good
<1> QED
  BY <1>1, TaperInFine DEF TaperSays

LEMMA ForwardBooks ==
    ASSUME NEW s, NEW c, Fine(s, c), NEW i \in Dumpers, Answered(s, i), NEW t \in Forward(s, i)
    PROVE  Books(t)
<1>0. Good(s, c) /\ (s.dmp[i].busy \/ s.dmp[i].result # None)
  BY DEF Fine, Answered
<1>1. \/ \E u : Told(s, u, i) /\ t \in Conclude(u, i)
      \/ s.taper.mode = "dump" /\ t \in DumperTaperResult(s)
      \/ t = s
  BY <1>0, ForwardIs
<1>2. ASSUME NEW u, Told(s, u, i), t \in Conclude(u, i) PROVE Books(t)
  BY <1>2, ToldFine, ConcludeBooks
<1>3. CASE s.taper.mode = "dump" /\ t \in DumperTaperResult(s)
  BY <1>3, DumperTaperFine DEF Fine
<1>4. CASE t = s
  BY <1>4 DEF Fine
<1> QED
  BY <1>1, <1>2, <1>3, <1>4

LEMMA ChunkEofBooks ==
    ASSUME NEW c, Fine(drv, c), NEW i \in Dumpers, NEW n \in Nat, ChunkEof(i, n)
    PROVE  Books(drv')
<1>0. Good(drv, c) /\ drv.chk[i].proc # None /\ n <= drv.chk[i].use
  BY DEF Fine, ChunkEof, None
<1>1. PICK s : Good(s, c) /\ Stops(drv, s, i, n) /\ Told(s, drv', i)
  BY <1>0, ChunkEofIs
<1>2. Fine(s, c)
  BY <1>0, <1>1, StopsFine
<1>3. Fine(drv', c)
  BY <1>1, <1>2, ToldFine
<1> QED
  BY <1>3 DEF Fine

LEMMA ChunkAnswersBooks ==
    ASSUME NEW c, Fine(drv, c), NEW i \in Dumpers, NEW r, ChunkAnswers(i, r)
    PROVE  Books(drv')
<1>0. Good(drv, c) /\ drv.chk[i].proc # None /\ 0 \in Nat
  BY DEF Fine, ChunkAnswers, None
<1>1. PICK s : Good(s, c) /\ Stops(drv, s, i, 0) /\ drv' \in Conclude(s, i)
  BY <1>0, ChunkAnswersIs
<1>2. 0 <= drv.chk[i].use
  BY <1>0, WriterIs
<1>3. Fine(s, c)
  BY <1>0, <1>1, <1>2, StopsFine
<1> QED
  BY <1>1, <1>3, ConcludeBooks

LEMMA ChunkNoHeaderBooks ==
    ASSUME NEW c, Fine(drv, c), NEW i \in Dumpers, ChunkNoHeader(i)
    PROVE  Books(drv')
<1>0. Good(drv, c) /\ drv.chk[i].proc # None /\ 0 \in Nat
  BY DEF Fine, ChunkNoHeader, None
<1>1. PICK s : Good(s, c) /\ Stops(drv, s, i, 0) /\ drv' \in Conclude(s, i)
  BY <1>0, ChunkNoHeaderIs
<1>2. 0 <= drv.chk[i].use
  BY <1>0, WriterIs
<1>3. Fine(s, c)
  BY <1>0, <1>1, <1>2, StopsFine
<1> QED
  BY <1>1, <1>3, ConcludeBooks

LEMMA ChunkAbortFinishedBooks ==
    ASSUME NEW c, Fine(drv, c), NEW i \in Dumpers, ChunkAbortFinished(i)
    PROVE  Books(drv')
<1>0. Good(drv, c) /\ drv.chk[i].proc # None /\ 0 \in Nat
  BY DEF Fine, ChunkAbortFinished, None
<1>1. PICK s : Good(s, c) /\ Stops(drv, s, i, 0) /\ drv' \in Conclude(s, i)
  BY <1>0, ChunkAbortFinishedIs
<1>2. 0 <= drv.chk[i].use
  BY <1>0, WriterIs
<1>3. Fine(s, c)
  BY <1>0, <1>1, <1>2, StopsFine
<1> QED
  BY <1>1, <1>3, ConcludeBooks

LEMMA ChunkDiesBooks ==
    ASSUME NEW c, Fine(drv, c), NEW i \in Dumpers, NEW n \in Nat, ChunkDies(i, n)
    PROVE  Books(drv')
<1>0. Good(drv, c) /\ drv.chk[i].proc # None /\ n <= drv.chk[i].use
  BY DEF Fine, ChunkDies
<1>1. PICK s : Good(s, c) /\ Stops(drv, s, i, n) /\ drv' \in Conclude(s, i)
  BY <1>0, ChunkDiesIs
<1>2. Fine(s, c)
  BY <1>0, <1>1, StopsFine
<1> QED
  BY <1>1, <1>2, ConcludeBooks

LEMMA DumperResultBooks ==
    ASSUME NEW c, Fine(drv, c), NEW i \in Dumpers, NEW r, DumperResult(i, r)
    PROVE  Books(drv')
<1>1. PICK s : Good(s, c) /\ Says(drv, s, i) /\ Answered(s, i) /\ drv' \in Forward(s, i)
  BY DumperResultIs DEF Fine
<1>2. Fine(s, c)
  BY <1>1, SaysFine
<1> QED
  BY <1>1, <1>2, ForwardBooks

LEMMA DumperDiesBooks ==
    ASSUME NEW c, Fine(drv, c), NEW i \in Dumpers, DumperDies(i)
    PROVE  Books(drv')
<1>1. PICK s : Good(s, c) /\ Says(drv, s, i) /\ Answered(s, i) /\ drv' \in Forward(s, i)
  BY DumperDiesIs DEF Fine
<1>2. Fine(s, c)
  BY <1>1, SaysFine
<1> QED
  BY <1>1, <1>2, ForwardBooks

-----------------------------------------------------------------------------
(* The messages of the taper.                                              *)

LEMMA RescheduleAllBooks ==
    ASSUME NEW S, NEW c, \A s \in S : Fine(s, c), NEW t \in RescheduleAll(S)
    PROVE  Books(t)
BY RescheduleAllFine DEF Fine

LEMMA TaperOkBooks ==
    ASSUME NEW c, Fine(drv, c), TaperOk
    PROVE  Books(drv')
<1>1. PICK s : TaperSays(drv, s) /\ drv' \in RescheduleAll(Reschedule(s))
  BY TaperOkIs DEF Fine, Good, Inv
<1>2. Fine(s, c)
  BY <1>1, TaperSaysFine
<1>3. \A t \in Reschedule(s) : Fine(t, c)
  BY <1>2, RescheduleFine
<1> QED
  BY <1>1, <1>3, RescheduleAllBooks

LEMMA TapeErrorBooks ==
    ASSUME NEW c, Fine(drv, c), TapeError
    PROVE  Books(drv')
<1>1. PICK s : /\ TaperSays(drv, s)
               /\ drv' \in RescheduleAll(StartSomeDumps(StartDegradedMode(s)))
  BY TapeErrorIs DEF Fine, Good, Inv
<1>2. Fine(StartDegradedMode(s), c)
  BY <1>1, TaperSaysFine, StartDegradedModeFine
<1>3. \A t \in StartSomeDumps(StartDegradedMode(s)) : Fine(t, c)
  BY <1>2, StartSomeDumpsFine
<1> QED
  BY <1>1, <1>3, RescheduleAllBooks

LEMMA TaperPortBooks ==
    ASSUME NEW c, Fine(drv, c), TaperPort
    PROVE  Books(drv')
<1>1. PICK u, s, k : /\ TaperSays(drv, u) /\ k \in Dumpers /\ Says(u, s, k) /\ Good(s, c)
                     /\ drv' \in Reschedule(DelayHost(s, drv.taper.disk))
  BY TaperPortIs DEF Fine
<1>2. Fine(s, c)
  BY <1>1, TaperSaysFine, SaysFine
<1>3. Fine(DelayHost(s, drv.taper.disk), c)
  BY <1>2, DelayFine
<1> QED
  BY <1>1, <1>3, RescheduleFine DEF Fine

LEMMA TapeIsFine ==
    ASSUME NEW s, NEW c, Fine(s, c), NEW x
    PROVE  Fine(TapeIs(s, x), c) /\ Fine(TapeRefused(s), c)
BY TapeIsSays, TaperSaysFine DEF Fine, Good, Inv

LEMMA TaperRequestsTapeBooks ==
    ASSUME NEW c, Fine(drv, c), TaperRequestsTape
    PROVE  Books(drv')
<1>1. CASE drv.taper.done
  <2>1. drv' \in Reschedule(TapeIs(drv, "refused"))
    BY <1>1 DEF TaperRequestsTape, Becomes, TapeIs
  <2> QED
    BY <2>1, TapeIsFine, RescheduleFine DEF Fine
<1>2. CASE ~drv.taper.done
  <2> DEFINE S == {IF drv.current_tape < RunTapes THEN TapeIs(s, "asked")
                   ELSE StartDegradedMode(TapeRefused(s)) : s \in StartSomeDumps(TapeIs(drv, None))}
  <2>1. drv' \in RescheduleAll(S)
    BY <1>2, Zenon DEF TaperRequestsTape, Becomes, TapeIs, TapeRefused
  <2>2. ASSUME NEW s \in StartSomeDumps(TapeIs(drv, None))
        PROVE  Fine(TapeIs(s, "asked"), c) /\ Fine(StartDegradedMode(TapeRefused(s)), c)
    <3>1. Fine(s, c)
      BY TapeIsFine, StartSomeDumpsFine
    <3>2. Fine(TapeIs(s, "asked"), c) /\ Fine(TapeRefused(s), c)
      BY <3>1, TapeIsFine
    <3> QED
      BY <3>2, StartDegradedModeFine
  <2>3. \A s \in S : Fine(s, c)
    BY <2>2
  <2> HIDE DEF S
  <2> QED
    BY <2>1, <2>3, RescheduleAllBooks
<1> QED
  BY <1>1, <1>2

LEMMA TaperNewTapeBooks ==
    ASSUME NEW c \in Nat, Fine(drv, c), TaperNewTape
    PROVE  Books(drv')
<1>1. PICK s : TaperIn(drv, s) /\ s.current_tape = c + 1 /\ drv' \in Reschedule(s)
  BY TaperNewTapeIs DEF Fine
<1>2. Fine(s, s.current_tape)
  BY <1>1, TaperInFine
<1> QED
  BY <1>1, <1>2, RescheduleFine DEF Fine

LEMMA TaperNoNewTapeBooks ==
    ASSUME NEW c, Fine(drv, c), TaperNoNewTape
    PROVE  Books(drv')
<1>1. drv' \in Reschedule(StartDegradedMode(TapeRefused(drv)))
  BY DEF TaperNoNewTape, Becomes, TapeRefused
<1>2. Fine(StartDegradedMode(TapeRefused(drv)), c)
  BY TapeIsFine, StartDegradedModeFine
<1> QED
  BY <1>1, <1>2, RescheduleFine DEF Fine

LEMMA TaperDealtFine ==
    ASSUME NEW s, NEW c, Fine(s, c), NEW t, TaperDealt(s, t)
    PROVE  Fine(t, c)
BY FileTaperFine, DumperTaperFine DEF TaperDealt

LEMMA TaperResultBooks ==
    ASSUME NEW c, Fine(drv, c), NEW r, NEW err, TaperResult(r, err)
    PROVE  Books(drv')
<1>1. PICK s, S : /\ TaperSays(drv, s) /\ drv' \in RescheduleAll(S)
                  /\ \A t \in S : TaperDealt(s, t)
  BY TaperResultIs DEF Fine, Good, Inv
<1>2. \A t \in S : Fine(t, c)
  BY <1>1, TaperSaysFine, TaperDealtFine
<1> QED
  BY <1>1, <1>2, RescheduleAllBooks

\* The files of the dumps in tapeq stay on the holding disks, and in the books.
LEMMA KeepPlain ==
    ASSUME NEW s, Shape(s), NEW q, Queue(q), \A d \in ToSet(q) : d \notin s.inprogress,
           \A d \in ToSet(q) \cap Flush : s.outcome[d] # "taped"
    PROVE  Plain(s, FoldLeft(Keep, s, q))
<1>0. q \in Seq(Dles) /\ Len(q) \in Nat /\ DOMAIN q = 1..Len(q)
  BY DEF Queue
<1>1. PICK f : /\ f[0] = s
               /\ \A n \in 1..Len(q) : f[n] = Keep(f[n - 1], q[n])
               /\ FoldLeft(Keep, s, q) = f[Len(q)]
  BY <1>0, KeepRounds
<1> DEFINE Ok(k) == /\ Shape(f[k]) /\ Plain(s, f[k])
                    /\ \A e \in Dles : f[k].outcome[e] = s.outcome[e] \/ f[k].outcome[e] = "held"
           T == {k \in 0..Len(q) : Ok(k)}
<1>2. Ok(0)
  BY <1>1 DEF Plain
<1>3. ASSUME NEW k \in 0..(Len(q) - 1), Ok(k) PROVE Ok(k + 1)
  <2>1. k + 1 \in 1..Len(q) /\ (k + 1) - 1 = k
    BY <1>0
  <2> DEFINE d == q[k + 1]
             u == f[k]
             v == f[k + 1]
  <2>2. v = Parted(u, d, "held") /\ d \in Dles /\ d \in ToSet(q)
    <3>1. v = Keep(u, d) /\ d \in Dles /\ d \in ToSet(q)
      BY <1>0, <1>1, <2>1 DEF ToSet
    <3> QED
      BY <3>1, Zenon DEF Keep
  <2>3. /\ Shape(u) /\ Plain(s, u)
        /\ \A e \in Dles : u.outcome[e] = s.outcome[e] \/ u.outcome[e] = "held"
    BY <1>3
  <2> HIDE DEF d, u
  <2>4. d \notin u.inprogress /\ (d \in Flush => u.outcome[d] # "taped")
    BY <2>2, <2>3 DEF Plain
  <2>5. Shape(v) /\ PartedIn(u, v, d) /\ v.outcome[d] = "held"
    <3>1. LET t == Parted(u, d, "held")
          IN  /\ Shape(t) /\ PartedIn(u, t, d) /\ t.outcome[d] = "held"
      BY <2>2, <2>3, PartedFrame
    <3> QED
      BY <2>2, <3>1
  <2>6. Plain(u, v)
    <3>1. "held" # "unread" /\ (d \in Flush => u.outcome[d] # "taped" /\ "held" # "taped")
      BY <2>4
    <3> QED
      BY <2>2, <2>3, <2>4, <3>1, PartedPlain
  <2> HIDE DEF v
  <2>7. Plain(s, v)
    BY <2>3, <2>6, PlainTrans
  <2>8. \A e \in Dles : v.outcome[e] = s.outcome[e] \/ v.outcome[e] = "held"
    BY <2>3, <2>5 DEF PartedIn
  <2> QED
    BY <2>5, <2>7, <2>8 DEF v
<1> HIDE DEF Ok
<1>4. \A k \in 0..Len(q) : k \in T
  <2>1. 0 \in T
    BY <1>0, <1>2
  <2>2. \A k \in 0..(Len(q) - 1) : k \in T => k + 1 \in T
    BY <1>0, <1>3
  <2> HIDE DEF T
  <2> QED
    BY <1>0, <2>1, <2>2, KeepLoop!UpTo
<1>5. Len(q) \in 0..Len(q)
  BY <1>0
<1>6. Ok(Len(q))
  BY <1>4, <1>5
<1> QED
  BY <1>1, <1>6 DEF Ok

LEMMA ZapTapeqFine ==
    ASSUME NEW s, NEW c, Fine(s, c)
    PROVE  Fine(ZapTapeq(s), c)
<1>0. Good(s, c) /\ Shape(s) /\ Queues(s) /\ Placed(s)
  BY DEF Fine, Good, Inv
<1> DEFINE u == FoldLeft(Keep, s, s.tapeq)
<1>1. ASSUME NEW d \in ToSet(s.tapeq) PROVE d \notin s.inprogress /\ s.outcome[d] # "taped"
  <2>1. d \in Dles
    BY <1>0 DEF Queues, Queue, ToSet
  <2> QED
    BY <1>0, <2>1 DEF Placed, Apart, Held, None
<1>2. Plain(s, u) /\ Shape(u)
  <2>1. Queue(s.tapeq) /\ (\A d \in ToSet(s.tapeq) : d \notin s.inprogress)
        /\ \A d \in ToSet(s.tapeq) \cap Flush : s.outcome[d] # "taped"
    BY <1>0, <1>1 DEF Queues
  <2> QED
    BY <1>0, <2>1, KeepAll, KeepPlain
<1> HIDE DEF u
<1>3. Plain(u, [u EXCEPT !.tapeq = <<>>])
  BY <1>2, Shaped DEF Plain, Fields
<1>4. Plain(s, ZapTapeq(s))
  BY <1>2, <1>3, PlainTrans DEF ZapTapeq, u
<1> QED
  BY <1>0, <1>4, ZapTapeqGood, PlainFine

LEMMA TaperDiesBooks ==
    ASSUME NEW c, Fine(drv, c), TaperDies
    PROVE  Books(drv')
<1>1. PICK s, U : /\ TaperSays(drv, s) /\ \A t \in U : TaperDealt(s, t)
                  /\ drv' \in RescheduleAll({StartDegradedMode(Zapped(t)) : t \in U})
  BY TaperDiesIs DEF Fine, Good, Inv
<1>2. ASSUME NEW t \in U PROVE Fine(StartDegradedMode(Zapped(t)), c)
  <2>1. Fine(ZapTapeq(t), c)
    BY <1>1, TaperSaysFine, TaperDealtFine, ZapTapeqFine
  <2>2. Seen(ZapTapeq(t), Zapped(t))
    BY <2>1, ZappedSeen DEF Fine, Good, Inv
  <2>3. Fine(Zapped(t), c)
    BY <2>1, <2>2, SeenFine
  <2> QED
    BY <2>3, StartDegradedModeFine
<1>3. \A t \in {StartDegradedMode(Zapped(u)) : u \in U} : Fine(t, c)
  BY <1>2
<1> QED
  BY <1>1, <1>3, RescheduleAllBooks

\* The timer, which lets time pass.
LEMMA HandleDumpersTimeBooks ==
    ASSUME NEW c, Fine(drv, c), HandleDumpersTime
    PROVE  Books(drv')
<1>1. PICK x : drv' \in StartSomeDumps([drv EXCEPT !.delayed = x])
  BY DEF HandleDumpersTime, Becomes
<1> DEFINE s == [drv EXCEPT !.delayed = x]
<1>2. Shape(drv)
  BY DEF Fine, Good, Inv
<1>3. Seen(drv, s)
  BY <1>2, Shaped DEF Seen, Fields
<1> HIDE DEF s
<1>4. Fine(s, c)
  BY <1>3, SeenFine
<1> QED
  BY <1>1, <1>4, StartSomeDumpsFine DEF s, Fine

-----------------------------------------------------------------------------
(* The flush list and the schedule, the start and the end.                 *)

\* A dump that is read is as the earlier run left it, or new.
LEMMA ReadBooks ==
    ASSUME NEW s, Reading(s), Books(s), NEW d \in Dles, s.outcome[d] = "unread", NEW t, ReadIn(s, t, d)
    PROVE  Books(t)
<1>0. Queue(s.runq) /\ d \notin ToSet(s.runq) /\ DOMAIN s.outcome = Dles
  <2>1. s.outcome[d] # None
    BY DEF None
  <2> QED
    BY <2>1 DEF Reading, Queues, Placed, Held, Shape
<1>1. /\ t.ha = s.ha /\ t.sched = s.sched /\ t.dmp = s.dmp /\ t.chk = s.chk
      /\ t.inprogress = s.inprogress /\ t.roomq = s.roomq
      /\ t.outcome = [s.outcome EXCEPT ![d] = None]
  BY DEF ReadIn
<1>2. \A e \in Dles : t.outcome[e] = IF e = d THEN None ELSE s.outcome[e]
  BY <1>0, <1>1
<1>3. ToSet(t.runq) \subseteq ToSet(s.runq) \/ (ToSet(t.runq) = ToSet(s.runq) \cup {d} /\ d \notin Flush)
  <2>1. CASE t.runq = s.runq
    BY <2>1
  <2>2. CASE t.runq = Append(s.runq, d) /\ d \notin Flush
    BY <1>0, <2>2, QueueAppend
  <2> QED
    BY <2>1, <2>2 DEF ReadIn, Appended
<1>4. ASSUME NEW e \in Dles PROVE SamePage(s, t, e)
  <2>1. Page(s, e)
    BY DEF Books
  <2>2. t.sched[e].act_size \in Nat
    BY <1>1, <2>1 DEF Page
  <2>3. Works(s, e) <=> Works(t, e)
    BY <1>1 DEF Works
  <2>4. Calmer(s.chk[s.sched[e].dumper], t.chk[t.sched[e].dumper])
    BY <1>1 DEF Calmer
  <2>5. e \in ToSet(t.runq) => e \in ToSet(s.runq) \/ s.sched[e].holdp = <<>>
    <3>1. d \notin Flush => s.sched[d].holdp = <<>>
      BY DEF Books, Page
    <3> QED
      BY <1>3, <3>1
  <2>6. e \in Flush => (t.outcome[e] = "taped" <=> s.outcome[e] = "taped")
    BY <1>2 DEF None
  <2>7. e \notin Flush /\ t.outcome[e] = "unread" => s.outcome[e] = "unread"
    BY <1>2 DEF None
  <2> QED
    BY <1>1, <2>2, <2>3, <2>4, <2>5, <2>6, <2>7 DEF SamePage
<1>5. Hands(t)
  BY <1>1 DEF Books, Hands, Engaged
<1>6. SameSpace(s, t)
  BY <1>1 DEF SameSpace, Books
<1> QED
  BY <1>4, <1>5, <1>6, BooksSame

LEMMA ReadsBooks ==
    ASSUME NEW f, NEW q, Len(q) \in Nat, Reads(f, q), Reading(f[0]), Books(f[0])
    PROVE  Reading(f[Len(q)]) /\ Books(f[Len(q)])
<1> DEFINE T == {k \in 0..Len(q) : Reading(f[k]) /\ Books(f[k])}
<1>1. 0 \in T
  OBVIOUS
<1>2. ASSUME NEW k \in 0..(Len(q) - 1), k \in T PROVE k + 1 \in T
  <2>1. k + 1 \in 1..Len(q) /\ (k + 1) - 1 = k /\ k + 1 \in 0..Len(q)
    OBVIOUS
  <2>2. /\ f[k].outcome[q[k + 1]] = "unread" /\ q[k + 1] \in Dles
        /\ ReadIn(f[k], f[k + 1], q[k + 1])
    BY <2>1 DEF Reads
  <2>3. Reading(f[k]) /\ Books(f[k])
    BY <1>2
  <2>4. Reading(f[k + 1])
    BY <2>2, <2>3, ReadOne
  <2>5. Books(f[k + 1])
    BY <2>2, <2>3, ReadBooks
  <2> QED
    BY <2>1, <2>4, <2>5
<1> HIDE DEF T
<1>3. \A k \in 0..Len(q) : k \in T
  BY <1>1, <1>2, KeepLoop!UpTo
<1>4. Len(q) \in 0..Len(q)
  OBVIOUS
<1>5. Len(q) \in T
  BY <1>3, <1>4
<1> QED
  BY <1>5 DEF T

LEMMA ReadUpBooks ==
    ASSUME NEW c, Fine(drv, c), NEW f, f[0] = drv, NEW q, Len(q) \in Nat, Reads(f, q),
           NEW u, NEW x, InputIn(f[Len(q)], u, x), Good(u, c)
    PROVE  Fine(u, c)
<1>1. Reading(f[0]) /\ Books(f[0])
  BY DEF Fine, Good, Inv, Reading
<1>2. Reading(f[Len(q)]) /\ Books(f[Len(q)])
  BY <1>1, ReadsBooks
<1> DEFINE v == f[Len(q)]
<1>3. Plain(v, u)
  BY DEF InputIn, Plain
<1> HIDE DEF v
<1>4. v.inprogress \subseteq Dles /\ ToSet(v.roomq) \subseteq v.inprogress /\ Books(v)
  BY <1>2 DEF Reading, Queues, v
<1> QED
  BY <1>3, <1>4, PlainBooks DEF Fine

LEMMA ReadFlushBooks ==
    ASSUME NEW c, Fine(drv, c), ReadFlush
    PROVE  Books(drv')
<1>1. PICK f, q, u : /\ f[0] = drv /\ Len(q) \in Nat /\ Reads(f, q)
                     /\ InputIn(f[Len(q)], u, "schedule") /\ Good(u, c)
                     /\ drv' \in StartAFlush(u)
  BY ReadFlushIs DEF Fine
<1>2. Fine(u, c)
  BY <1>1, ReadUpBooks
<1> QED
  BY <1>1, <1>2, StartAFlushFine DEF Fine

LEMMA ReadScheduleBooks ==
    ASSUME NEW c, Fine(drv, c), ReadSchedule
    PROVE  Books(drv')
<1>1. PICK f, q, u : /\ f[0] = drv /\ Len(q) \in Nat /\ Reads(f, q)
                     /\ InputIn(f[Len(q)], u, "done") /\ Good(u, c)
                     /\ drv' \in Reschedule(StartDegradedMode(u))
  BY ReadScheduleIs DEF Fine
<1>2. Fine(StartDegradedMode(u), c)
  BY <1>1, ReadUpBooks, StartDegradedModeFine
<1> QED
  BY <1>1, <1>2, RescheduleFine DEF Fine

\* The event loop ends: what is left stays where it is.
LEMMA EventLoopEndsBooks ==
    ASSUME NEW c, Fine(drv, c), EventLoopEnds
    PROVE  Books(drv')
<1> DEFINE o == [d \in Dles |->
                   IF drv.outcome[d] # None THEN drv.outcome[d]
                   ELSE IF d \in ToSet(drv.runq \o drv.directq) THEN "failed"
                   ELSE IF drv.sched[d].holdp # <<>> THEN "held" ELSE "lost"]
<1>0. Shape(drv) /\ Queues(drv) /\ Books(drv)
  BY DEF Fine, Good, Inv
<1>1. drv' = [drv EXCEPT !.ended = TRUE, !.outcome = o]
  BY Zenon DEF EventLoopEnds
<1>2. \A d \in Dles : \/ o[d] = drv.outcome[d]
                      \/ drv.outcome[d] = None /\ o[d] \in {"failed", "held", "lost"}
  OBVIOUS
<1> HIDE DEF o
<1>3. /\ drv'.ha = drv.ha /\ drv'.chk = drv.chk /\ drv'.dmp = drv.dmp
      /\ drv'.inprogress = drv.inprogress /\ drv'.roomq = drv.roomq /\ drv'.runq = drv.runq
      /\ drv'.sched = drv.sched /\ drv'.outcome = o
  BY <1>0, <1>1, Shaped DEF Fields
<1>4. \A e \in Dles : \/ o[e] = drv.outcome[e]
                      \/ o[e] # "unread" /\ (e \in Flush => drv.outcome[e] # "taped" /\ o[e] # "taped")
  BY <1>2 DEF None
<1>5. Plain(drv, drv')
  BY <1>3, <1>4 DEF Plain
<1> QED
  BY <1>0, <1>5, PlainBooks DEF Queues

\* The books of the start: the holding disks are empty, but for the files of earlier runs.
LEMMA InitBooks == Init => Books(drv)
<1> SUFFICES ASSUME Init PROVE Books(drv)
  OBVIOUS
<1> DEFINE hh == [h \in Hdisks |-> [disksize |-> DiskSize[h], allocated_space |-> 0,
                                    allocated_dumpers |-> 0]]
           hp(d) == IF d \in Flush THEN FlushHoldp[d] ELSE <<>>
           ac(d) == IF d \in Flush THEN Used(FlushHoldp[d]) ELSE 0
           es(d) == IF d \in Flush THEN 0 ELSE EstSize[d]
           ho(d) == IF d \in Flush THEN "auto" ELSE Holding[d]
           sc == [d \in Dles |->
                        [est_size |-> es(d), act_size |-> ac(d), holdp |-> hp(d),
                         activehd |-> 0, dumper |-> 0,
                         dump_attempted |-> 0, taper_attempted |-> 0,
                         no_space |-> FALSE, hold |-> ho(d)]]
           ck == [i \in Dumpers |-> NoChunker]
           oc == [d \in Dles |-> "unread"]
<1>1. /\ drv.ha = hh /\ drv.sched = sc /\ drv.chk = ck /\ drv.outcome = oc
      /\ drv.inprogress = {} /\ drv.runq = <<>> /\ drv.roomq = <<>>
  BY Zenon DEF Init
<1>2. Accounts(hh) /\ \A h \in Hdisks : hh[h].allocated_space = 0 /\ 0 <= hh[h].disksize
  <2>1. \A h \in Hdisks : DiskSize[h] \in Nat
    BY HoldingAssumption DEF Hdisks
  <2> QED
    BY <2>1 DEF Accounts
<1>3. ASSUME NEW d \in Dles
      PROVE  /\ Holdp(hp(d)) /\ Settled(hp(d)) /\ ac(d) \in Nat
             /\ d \notin Flush => hp(d) = <<>>
             /\ d \in Flush => hp(d) = FlushHoldp[d]
  <2>1. CASE d \in Flush
    <3>1. /\ FlushHoldp[d] \in Seq(HdEntry)
          /\ \A k \in DOMAIN FlushHoldp[d] : FlushHoldp[d][k].used = FlushHoldp[d][k].reserved
      BY <2>1, DriverAssumption DEF HdEntry
    <3>2. Used(FlushHoldp[d]) \in Nat
      BY <3>1, UsedNat
    <3>3. Holdp(FlushHoldp[d]) /\ Settled(FlushHoldp[d])
      <4> DEFINE q == FlushHoldp[d]
      <4>1. q \in Seq(HdEntry) /\ DOMAIN q = 1..Len(q) /\ \A k \in DOMAIN q : q[k].used = q[k].reserved
        BY <3>1
      <4> HIDE DEF q
      <4>2. \A k \in 1..Len(q) : q[k] \in HdEntry /\ q[k].used = q[k].reserved
        BY <4>1
      <4>3. \A k \in 1..Len(q) : q[k].used <= q[k].reserved
        BY <4>2 DEF HdEntry
      <4>4. Holdp(q) /\ Settled(q)
        BY <4>1, <4>2, <4>3 DEF Holdp, Settled
      <4> QED
        BY <4>4 DEF q
    <3> QED
      BY <2>1, <3>2, <3>3
  <2>2. CASE d \notin Flush
    BY <2>2, NoEntries
  <2> QED
    BY <2>1, <2>2
<1>4. \A d \in Dles : sc[d].holdp = hp(d) /\ sc[d].act_size = ac(d)
  BY DEF es, ho
<1>5. \A d \in Dles : oc[d] = "unread"
  OBVIOUS
<1>6. \A i \in Dumpers : ck[i] = NoChunker
  OBVIOUS
<1> HIDE DEF hh, hp, ac, es, ho, sc, ck, oc
<1>7. ASSUME NEW d \in Dles PROVE Page(drv, d)
  <2>1. ~Works(drv, d) /\ d \notin ToSet(drv.roomq) /\ d \notin ToSet(drv.runq)
    BY <1>1, QueueEmpty DEF Works
  <2> QED
    BY <1>1, <1>3, <1>4, <2>1 DEF Page
<1>8. Hands(drv)
  BY <1>1, <1>6 DEF Hands, NoChunker, None
<1>9. ASSUME NEW h \in Hdisks PROVE SumFunction(Reserved(drv, h)) = 0 /\ SumFunction(Freed(drv, h)) = 0
  <2>1. \A d \in Dles \ Flush : OnDisk(drv.sched[d].holdp, "reserved", h) = 0
    BY <1>1, <1>3, <1>4, OnDiskEmpty
  <2>2. Reserved(drv, h) = [d \in Dles \ Flush |-> 0]
    BY <2>1 DEF Reserved
  <2>3. DOMAIN Freed(drv, h) = {}
    <3>1. {d \in Flush : drv.outcome[d] = "taped"} = {}
      BY <1>1, <1>5, DlesFinite
    <3> QED
      BY <3>1 DEF Freed
  <2> QED
    BY <2>2, <2>3, DlesFinite, SumZero, SumEmpty
<1>10. Balanced(drv)
  BY <1>1, <1>2, <1>9 DEF Balanced
<1> QED
  BY <1>1, <1>2, <1>7, <1>8, <1>10 DEF Books

-----------------------------------------------------------------------------
(* RQ-MORE-DISK: an entry is full.                                         *)

\* f is r with what the chunker of dumper i may write written, but for n blocks that
\* do not exist, and the entry it wrote to full: p are the entries of its dump.
Brimming(r, f, i, n, p) ==
    LET d == r.dmp[i].dp
        q == r.sched[d].holdp
        a == r.sched[d].activehd
    IN  /\ f.runq = r.runq /\ f.roomq = r.roomq /\ f.inprogress = r.inprogress
        /\ f.dmp = r.dmp /\ f.outcome = r.outcome
        /\ \A e \in Dles : e # d => f.sched[e] = r.sched[e]
        /\ f.sched[d].dumper = r.sched[d].dumper /\ f.sched[d].activehd = a
        /\ f.sched[d].act_size = r.sched[d].act_size /\ f.sched[d].holdp = p
        /\ \A j \in Dumpers : j # i => f.chk[j] = r.chk[j]
        /\ f.chk[i].proc = "room" /\ f.chk[i].use = 0
        /\ f.chk[i].wrote = r.chk[i].wrote + r.chk[i].use - n
        /\ p \in Seq(HdEntry) /\ Len(p) = Len(q) /\ \A j \in 1..Len(q) : j # a => p[j] = q[j]
        /\ p[a].disk = q[a].disk /\ p[a].used = q[a].reserved - n /\ p[a].reserved = q[a].reserved - n
        /\ Accounts(f.ha)
        /\ \A h \in Hdisks : LET m == IF h = q[a].disk THEN n ELSE 0 IN
              /\ f.ha[h].allocated_space = r.ha[h].allocated_space - m
              /\ f.ha[h].disksize = r.ha[h].disksize - m

LEMMA BrimmingBooks ==
    ASSUME NEW r, NEW c, Fine(r, c), NEW i \in Dumpers, r.chk[i].proc = "writing",
           NEW n \in Nat, n <= r.chk[i].use, NEW f, NEW p, Brimming(r, f, i, n, p)
    PROVE  Books(f) /\ p[r.sched[r.dmp[i].dp].activehd].used = p[r.sched[r.dmp[i].dp].activehd].reserved
<1> DEFINE d == r.dmp[i].dp
           q == r.sched[d].holdp
           a == r.sched[d].activehd
           ch == r.chk[i]
<1>0. Good(r, c) /\ Books(r) /\ Placed(r) /\ Balanced(r) /\ Accounts(r.ha)
  BY DEF Fine, Good, Inv, Books
<1>1. /\ d \in r.inprogress /\ d \in Dles /\ r.sched[d].dumper = i /\ Page(r, d) /\ Holdp(q)
      /\ AtWork(q, a, ch) /\ ch.wrote \in Nat /\ ch.use \in Nat
  BY WriterIs DEF None
<1>2. Engaged(r, i) /\ r.dmp[i].chunker
  BY <1>0, ChunkerAtWork DEF None
<1>3. d \notin Flush /\ d \notin ToSet(r.runq) /\ r.outcome[d] = None
  BY <1>0, <1>1 DEF Placed, Apart, Held
<1>4. d \notin ToSet(r.roomq)
  BY <1>0, <1>1 DEF Good, Inv, RoomLinks
<1>5. /\ f.runq = r.runq /\ f.roomq = r.roomq /\ f.inprogress = r.inprogress
      /\ f.dmp = r.dmp /\ f.outcome = r.outcome
      /\ \A e \in Dles : e # d => f.sched[e] = r.sched[e]
      /\ f.sched[d].dumper = r.sched[d].dumper /\ f.sched[d].activehd = a
      /\ f.sched[d].act_size = r.sched[d].act_size /\ f.sched[d].holdp = p
      /\ \A j \in Dumpers : j # i => f.chk[j] = r.chk[j]
      /\ f.chk[i].proc = "room" /\ f.chk[i].use = 0
      /\ f.chk[i].wrote = ch.wrote + ch.use - n
  BY DEF Brimming
<1>6. /\ p \in Seq(HdEntry) /\ Len(p) = Len(q) /\ \A j \in 1..Len(q) : j # a => p[j] = q[j]
      /\ p[a].disk = q[a].disk /\ p[a].used = q[a].reserved - n /\ p[a].reserved = q[a].reserved - n
  BY DEF Brimming
<1>7. Accounts(f.ha) /\ \A h \in Hdisks :
         /\ f.ha[h].allocated_space = r.ha[h].allocated_space - (IF h = q[a].disk THEN n ELSE 0)
         /\ f.ha[h].disksize = r.ha[h].disksize - (IF h = q[a].disk THEN n ELSE 0)
  BY DEF Brimming
<1>8. ch.proc = "writing" /\ n <= ch.use
  OBVIOUS
<1> HIDE DEF d, q, a, ch
<1>9. /\ Holdp(p) /\ Position(p, a) /\ ch.wrote + ch.use - n \in Nat
      /\ ch.wrote + ch.use - n = Before(p, a) + p[a].used
      /\ \A h : OnDisk(p, "reserved", h) = OnDisk(q, "reserved", h) - (IF h = q[a].disk THEN n ELSE 0)
  <2>1. /\ Holdp(q) /\ AtWork(q, a, ch) /\ ch.proc = "writing" /\ n <= ch.use
        /\ p \in Seq(HdEntry) /\ Len(p) = Len(q) /\ \A j \in 1..Len(q) : j # a => p[j] = q[j]
        /\ p[a].disk = q[a].disk /\ p[a].used = q[a].reserved - n /\ p[a].reserved = q[a].reserved - n
    BY <1>1, <1>6, <1>8, Zenon
  <2>2. Holdp(p) /\ Position(p, a)
    BY <2>1, FillEntry
  <2>3. ch.wrote + ch.use - n \in Nat
    BY <2>1, FillEntry
  <2>4. ch.wrote + ch.use - n = Before(p, a) + p[a].used
    BY <2>1, FillEntry
  <2>5. \A h : OnDisk(p, "reserved", h) = OnDisk(q, "reserved", h) - (IF h = q[a].disk THEN n ELSE 0)
    BY <2>1, FillEntry
  <2> QED
    BY <2>2, <2>3, <2>4, <2>5
<1>10. /\ Before(p, a) \in Nat /\ p[a].used \in Nat /\ p[a].reserved \in Nat
       /\ p[a].used = p[a].reserved
  BY <1>6, <1>9, EntryOf
<1>11. AtWork(p, a, f.chk[i])
  <2>1. f.chk[i].wrote = Before(p, a) + p[a].used /\ f.chk[i].wrote \in Nat /\ f.chk[i].use = 0
    BY <1>5, <1>9
  <2>2. Before(p, a) + p[a].used <= f.chk[i].wrote
        /\ f.chk[i].wrote + f.chk[i].use <= Before(p, a) + p[a].reserved
    BY <1>10, <2>1
  <2> QED
    BY <1>5, <1>9, <2>1, <2>2 DEF AtWork
<1>12. Page(f, d)
  <2>1. Works(f, d) /\ f.sched[d].dumper = i
    BY <1>1, <1>2, <1>5 DEF Works
  <2>2. f.sched[d].act_size \in Nat
    BY <1>1, <1>5 DEF Page
  <2> QED
    BY <1>3, <1>4, <1>5, <1>9, <1>11, <2>1, <2>2 DEF Page, None
<1>13. Elsewhere(r, f, i, d)
  BY <1>5 DEF Elsewhere
<1>14. Pair(r, i, d)
  BY <1>1 DEF Pair, d
<1>15. /\ OtherPages(r, f, d)
       /\ \A j \in Dumpers : j # i /\ f.chk[j].proc \in {"writing", "room"}
                               => Engaged(f, j) /\ f.dmp[j].chunker
  BY <1>0, <1>1, <1>13, <1>14, ElsewherePages
<1>16. Hands(f)
  <2>1. Engaged(f, i) /\ f.dmp[i].chunker
    BY <1>1, <1>2, <1>5 DEF Engaged, d
  <2> QED
    BY <1>15, <2>1 DEF Hands
<1>17. ASSUME NEW h \in Hdisks
       PROVE  /\ f.ha[h].allocated_space = r.ha[h].allocated_space
                    + OnDisk(f.sched[d].holdp, "reserved", h) - OnDisk(r.sched[d].holdp, "reserved", h)
              /\ f.ha[h].allocated_space <= f.ha[h].disksize
  <2>1. PICK m : m = IF h = q[a].disk THEN n ELSE 0
    OBVIOUS
  <2>2. m \in Nat
    BY <2>1
  <2>3. /\ f.ha[h].allocated_space = r.ha[h].allocated_space - m
        /\ f.ha[h].disksize = r.ha[h].disksize - m
        /\ OnDisk(p, "reserved", h) = OnDisk(q, "reserved", h) - m
    BY <1>7, <1>9, <2>1
  <2>4. /\ r.ha[h].allocated_space \in Int /\ r.ha[h].disksize \in Int
        /\ r.ha[h].allocated_space <= r.ha[h].disksize
    BY <1>0 DEF Accounts, Balanced
  <2>5. OnDisk(q, "reserved", h) \in Int /\ f.sched[d].holdp = p /\ r.sched[d].holdp = q
    BY <1>1, <1>5, OnDiskIs DEF Holdp, Amount, q
  <2> QED
    BY <2>2, <2>3, <2>4, <2>5
<1>18. Books(f)
  BY <1>0, <1>1, <1>3, <1>7, <1>12, <1>15, <1>16, <1>17, BooksChange
<1> QED
  BY <1>10, <1>18 DEF a, d

\* What the operators of RQ-MORE-DISK change.
LEMMA EntryFullIs ==
    ASSUME NEW s, Shape(s), NEW i \in Dumpers, NEW d \in Dles, NEW k, NEW t, t = EntryFull(s, i, d, k)
    PROVE  /\ t.ha = OneLess(s.ha, s.sched[d].holdp[k].disk)
           /\ t.sched[d].holdp = Sized(s.sched[d].holdp, k, s.sched[d].holdp[k].reserved)
           /\ t.sched[d].activehd = s.sched[d].activehd /\ t.sched[d].act_size = s.sched[d].act_size
           /\ \A e \in Dles : e # d => t.sched[e] = s.sched[e]
           /\ t.chk[i].wrote = s.chk[i].wrote /\ t.chk[i].use = 0
<1> DEFINE hp == s.sched[d].holdp
           v == hp[k].reserved
           g == hp[k].disk
           hq == [hp EXCEPT ![k].used = v]
           hb == [s.ha EXCEPT ![g].allocated_dumpers = @ - 1]
<1>0. t = [s EXCEPT !.ha = hb, !.sched[d].holdp = hq, !.chk[i].proc = "room", !.chk[i].use = 0]
  BY DEF EntryFull
<1>1. hq = Sized(hp, k, v) /\ hb = OneLess(s.ha, g)
  BY DEF Sized, OneLess
<1> HIDE DEF hq, hb
<1>2. t.ha = hb /\ t.sched = [s.sched EXCEPT ![d].holdp = hq]
      /\ t.chk = [s.chk EXCEPT ![i].proc = "room", ![i].use = 0]
  BY <1>0, Shaped DEF Fields
<1>3. /\ t.sched[d].holdp = hq /\ t.sched[d].activehd = s.sched[d].activehd
      /\ t.sched[d].act_size = s.sched[d].act_size
      /\ \A e \in Dles : e # d => t.sched[e] = s.sched[e]
  BY <1>2, Shaped DEF SchedFields
<1>4. t.chk[i].wrote = s.chk[i].wrote /\ t.chk[i].use = 0
  BY <1>2, Shaped DEF ChunkerFields
<1> QED
  BY <1>1, <1>2, <1>3, <1>4

LEMMA NextEntryIs ==
    ASSUME NEW s, Shape(s), NEW d \in Dles, NEW k, NEW t, t = NextEntry(s, d, k)
    PROVE  /\ t.ha = s.ha /\ t.sched[d].activehd = k + 1 /\ t.sched[d].holdp = s.sched[d].holdp
           /\ t.sched[d].act_size = s.sched[d].act_size
           /\ \A e \in Dles : e # d => t.sched[e] = s.sched[e]
<1> DEFINE n == k + 1
<1>0. t = [s EXCEPT !.sched[d].activehd = n]
  BY DEF NextEntry
<1> HIDE DEF n
<1>1. t.ha = s.ha /\ t.sched = [s.sched EXCEPT ![d].activehd = n]
  BY <1>0, Shaped DEF Fields
<1>2. /\ t.sched[d].activehd = n /\ t.sched[d].holdp = s.sched[d].holdp
      /\ t.sched[d].act_size = s.sched[d].act_size /\ \A e \in Dles : e # d => t.sched[e] = s.sched[e]
  BY <1>1, Shaped DEF SchedFields
<1> QED
  BY <1>1, <1>2 DEF n

LEMMA GrownIs ==
    ASSUME NEW s, Shape(s), NEW d \in Dles, NEW est \in Nat, NEW t, t = Grown(s, d, est)
    PROVE  /\ t.ha = s.ha /\ t.sched[d].activehd = s.sched[d].activehd
           /\ t.sched[d].holdp = s.sched[d].holdp /\ t.sched[d].act_size = est
           /\ \A e \in Dles : e # d => t.sched[e] = s.sched[e]
<1> DEFINE n == MoreSize(est)
<1>0. t = [s EXCEPT !.sched[d].act_size = est, !.sched[d].est_size = n]
  BY DEF Grown
<1> HIDE DEF n
<1>1. t.ha = s.ha /\ t.sched = [s.sched EXCEPT ![d].act_size = est, ![d].est_size = n]
  BY <1>0, Shaped DEF Fields
<1> QED
  BY <1>1, Shaped DEF SchedFields

\* BooksChange for a dump that keeps its entries.
LEMMA BooksKept ==
    ASSUME NEW s, NEW t, Books(s), NEW d \in Dles \ Flush, OtherPages(s, t, d),
           Page(t, d), Hands(t), SameSpace(s, t), t.sched[d].holdp = s.sched[d].holdp
    PROVE  Books(t)
<1>1. Accounts(s.ha) /\ Accounts(t.ha) /\ Balanced(s) /\ Holdp(t.sched[d].holdp)
  BY DEF Books, SameSpace, Page
<1>2. ASSUME NEW h \in Hdisks
      PROVE  /\ t.ha[h].allocated_space = s.ha[h].allocated_space
                   + OnDisk(t.sched[d].holdp, "reserved", h) - OnDisk(s.sched[d].holdp, "reserved", h)
             /\ t.ha[h].allocated_space <= t.ha[h].disksize
  <2>1. /\ t.ha[h].allocated_space = s.ha[h].allocated_space /\ t.ha[h].disksize = s.ha[h].disksize
        /\ s.ha[h].allocated_space <= s.ha[h].disksize /\ s.ha[h].allocated_space \in Int
    BY <1>1 DEF SameSpace, Balanced, Accounts
  <2>2. PICK q : q = t.sched[d].holdp /\ q \in Seq(HdEntry) /\ "reserved" \in Amount
    BY <1>1 DEF Holdp, Amount
  <2>3. PICK x \in Nat : x = OnDisk(q, "reserved", h)
    BY <2>2, OnDiskIs
  <2>4. OnDisk(t.sched[d].holdp, "reserved", h) = x /\ OnDisk(s.sched[d].holdp, "reserved", h) = x
    BY <2>2, <2>3
  <2> QED
    BY <2>1, <2>3, <2>4
<1> QED
  BY <1>1, <1>2, BooksChange

\* The active entry k of dump d is full, and not the last one.
HasNext(f, d, k) ==
    /\ k = f.sched[d].activehd /\ k < Len(f.sched[d].holdp)
    /\ f.sched[d].holdp[k].used = f.sched[d].holdp[k].reserved

\* The chunker goes on with the next entry.
LEMMA NextEntryFine ==
    ASSUME NEW f, NEW c, Fine(f, c), NEW i \in Dumpers, f.chk[i].proc = "room",
           NEW d, d = f.dmp[i].dp, d \notin ToSet(f.roomq), NEW k, HasNext(f, d, k),
           NEW t, t = Continue(NextEntry(f, d, k), i, d), Good(t, c)
    PROVE  Fine(t, c)
<1> DEFINE p == f.sched[d].holdp
           u == NextEntry(f, d, k)
           hd == p[k + 1]
<1>0. Good(f, c) /\ Shape(f) /\ Books(f) /\ Placed(f) /\ Balanced(f) /\ Accounts(f.ha)
  BY DEF Fine, Good, Inv, Books
<1>1a. k = f.sched[d].activehd
  BY DEF HasNext
<1>1b. k < Len(p) /\ p[k].used = p[k].reserved
  BY DEF HasNext
<1> HIDE DEF hd
<1>1. /\ d \in f.inprogress /\ d \in Dles /\ f.sched[d].dumper = i /\ Works(f, d) /\ Page(f, d) /\ Holdp(p)
      /\ AtWork(p, k, f.chk[i])
  <2>1. f.chk[i].proc # None /\ d = f.dmp[i].dp
    BY DEF None
  <2> HIDE DEF p, u
  <2>2. /\ d \in f.inprogress /\ d \in Dles /\ f.sched[d].dumper = i /\ Works(f, d) /\ Page(f, d)
        /\ Holdp(f.sched[d].holdp) /\ AtWork(f.sched[d].holdp, f.sched[d].activehd, f.chk[i])
    BY <2>1, WriterIs
  <2> QED
    BY <2>2, <1>1a, Zenon DEF p
<1>1c. u = NextEntry(f, d, k) /\ p = f.sched[d].holdp
  OBVIOUS
<1> HIDE DEF p, u
<1>2. d \notin Flush /\ d \notin ToSet(f.runq) /\ f.outcome[d] = None
  BY <1>0, <1>1 DEF Placed, Apart, Held
<1>3. Position(p, k) /\ f.chk[i].wrote = Before(p, k) + p[k].used
  BY <1>1 DEF AtWork
<1>4. /\ k \in Nat /\ k + 1 \in 1..Len(p) /\ hd \in HdEntry /\ hd.disk \in Hdisks
  <2>1. k \in 1..Len(p) /\ p \in Seq(HdEntry) /\ Len(p) \in Nat
    BY <1>1, <1>3, EntryOf
  <2>2. k + 1 \in 1..Len(p)
    BY <1>1b, <2>1
  <2>3. hd \in HdEntry
    BY <2>1, <2>2 DEF hd
  <2> QED
    BY <2>1, <2>2, <2>3 DEF HdEntry
<1>5. View(f, u) /\ u.chk = f.chk /\ u.dmp = f.dmp /\ u.roomq = f.roomq
  BY <1>0, <1>1, <1>1c, NextEntryFrame
<1>6. /\ u.ha = f.ha /\ u.sched[d].activehd = k + 1 /\ u.sched[d].holdp = p
      /\ u.sched[d].act_size = f.sched[d].act_size
      /\ \A e \in Dles : e # d => u.sched[e] = f.sched[e]
  <2>1. /\ u.ha = f.ha /\ u.sched[d].activehd = k + 1 /\ u.sched[d].holdp = f.sched[d].holdp
        /\ u.sched[d].act_size = f.sched[d].act_size
        /\ \A e \in Dles : e # d => u.sched[e] = f.sched[e]
    <3>1. u.ha = f.ha
      BY <1>0, <1>1, <1>1c, NextEntryIs
    <3>2. u.sched[d].activehd = k + 1
      BY <1>0, <1>1, <1>1c, NextEntryIs
    <3>3. u.sched[d].holdp = f.sched[d].holdp
      BY <1>0, <1>1, <1>1c, NextEntryIs
    <3>4. u.sched[d].act_size = f.sched[d].act_size
      BY <1>0, <1>1, <1>1c, NextEntryIs
    <3>5. \A e \in Dles : e # d => u.sched[e] = f.sched[e]
      BY <1>0, <1>1, <1>1c, NextEntryIs
    <3> QED
      BY <3>1, <3>2, <3>3, <3>4, <3>5
  <2> QED
    BY <1>1c, <2>1
<1>7. /\ Shape(u) /\ SamePlaces(f, u) /\ u.sched[d].dumper = i
  BY <1>1, <1>5 DEF View, SameLinks
<1>8. t = Continue(u, i, d)
  BY <1>1c
<1>9. /\ Shape(t) /\ Beside(u, t) /\ t.roomq = u.roomq /\ t.sched = u.sched
      /\ \A j \in Dumpers : j # i => t.chk[j] = u.chk[j]
  BY <1>1, <1>7, <1>8, ContinueFrame
<1>10. /\ SameSpace(u, t) /\ t.chk[i].proc = "writing" /\ t.chk[i].wrote = f.chk[i].wrote
       /\ t.chk[i].use = hd.reserved - hd.used
  <2>1. PICK b : b = k + 1
    OBVIOUS
  <2>2. /\ Accounts(u.ha) /\ u.sched[d].holdp = p /\ u.sched[d].activehd = b /\ u.chk[i].proc = "room"
        /\ p[b].disk \in Hdisks /\ p[b].reserved \in Nat /\ p[b].used \in Nat
    BY <1>0, <1>4, <1>5, <1>6, <2>1 DEF hd, HdEntry
  <2>3. d \in Dles /\ Shape(u) /\ t = Continue(u, i, d)
    BY <1>1, <1>7, <1>8
  <2>4. /\ SameSpace(u, t)
        /\ u.chk[i].proc = "room" => /\ t.chk[i].proc = "writing" /\ t.chk[i].wrote = u.chk[i].wrote
                                     /\ t.chk[i].use = p[b].reserved - p[b].used
    BY <2>2, <2>3, ContinueIs
  <2> QED
    BY <1>5, <2>1, <2>2, <2>4 DEF hd
<1>11. AtWork(p, k + 1, t.chk[i])
  <2>1. p[k].used = p[k].reserved /\ k < Len(p)
    BY <1>1b
  <2>2. PICK w : w = Before(p, k) + p[k].used
    OBVIOUS
  <2>3. t.chk[i].wrote = w
    BY <1>3, <1>10, <2>2
  <2>4. k < Len(p) /\ t.chk[i].use = p[k + 1].reserved - p[k + 1].used /\ t.chk[i].proc = "writing"
    BY <1>10, <2>1 DEF hd
  <2> QED
    BY <1>1, <1>3, <2>1, <2>2, <2>3, <2>4, NextOrWait
<1>12. /\ t.inprogress = f.inprogress /\ t.dmp = f.dmp /\ t.roomq = f.roomq /\ t.runq = f.runq
       /\ t.outcome = f.outcome
  BY <1>5, <1>7, <1>9 DEF Beside, SamePlaces
<1>13. Page(t, d)
  <2>1. /\ t.sched[d].holdp = p /\ t.sched[d].activehd = k + 1 /\ t.sched[d].dumper = i
        /\ t.sched[d].act_size \in Nat
    BY <1>1, <1>6, <1>7, <1>9 DEF Page
  <2>2. Works(t, d)
    BY <1>1, <1>12, <2>1 DEF Works
  <2> QED
    BY <1>1, <1>2, <1>11, <1>12, <2>1, <2>2 DEF Page, None
<1>14. Elsewhere(f, t, i, d)
  BY <1>5, <1>6, <1>9, <1>12 DEF Elsewhere
<1>15. Pair(f, i, d)
  BY <1>1 DEF Pair
<1>16. OtherPages(f, t, d)
  BY <1>0, <1>1, <1>14, <1>15, ElsewherePages
<1>17. Hands(t)
  BY GoodHands
<1>18. SameSpace(f, t) /\ t.sched[d].holdp = f.sched[d].holdp
  <2>1. SameSpace(f, t)
    BY <1>6, <1>10 DEF SameSpace
  <2>2. t.sched[d].holdp = p
    BY <1>6, <1>9
  <2> QED
    BY <1>1c, <2>1, <2>2
<1>19. Books(t)
  <2>1. d \in Dles \ Flush
    BY <1>1, <1>2
  <2> QED
    BY <1>0, <1>13, <1>16, <1>17, <1>18, <2>1, BooksKept
<1> QED
  BY <1>19 DEF Fine

\* The estimate is raised.
LEMMA GrownFine ==
    ASSUME NEW f, NEW c, Fine(f, c), NEW d \in Dles, NEW est \in Nat, NEW t, t = Grown(f, d, est)
    PROVE  Fine(t, c)
<1>0. Good(f, c) /\ Shape(f) /\ \A e \in Dles : Page(f, e)
  BY DEF Fine, Good, Inv, Books
<1>1. View(f, t) /\ t.current_tape = f.current_tape /\ t.chk = f.chk /\ t.dmp = f.dmp /\ t.roomq = f.roomq
  BY <1>0, GrownFrame
<1>2. /\ t.ha = f.ha /\ t.sched[d].activehd = f.sched[d].activehd
      /\ t.sched[d].holdp = f.sched[d].holdp /\ t.sched[d].act_size = est
      /\ \A e \in Dles : e # d => t.sched[e] = f.sched[e]
  BY <1>0, GrownIs
<1>3. Good(t, c)
  BY <1>0, <1>1, ViewGood
<1>4. ASSUME NEW e \in Dles PROVE SamePage(f, t, e)
  <2>1. /\ t.sched[e].holdp = f.sched[e].holdp /\ t.sched[e].activehd = f.sched[e].activehd
        /\ t.sched[e].act_size \in Nat /\ t.sched[e].dumper = f.sched[e].dumper
    BY <1>0, <1>1, <1>2 DEF Page, View, SameLinks
  <2>2. t.inprogress = f.inprogress /\ t.runq = f.runq /\ t.outcome = f.outcome
    BY <1>1 DEF View, SamePlaces
  <2>3. Works(f, e) <=> Works(t, e)
    BY <1>1, <2>1, <2>2 DEF Works
  <2>4. Calmer(f.chk[f.sched[e].dumper], t.chk[t.sched[e].dumper])
    BY <1>1, <2>1 DEF Calmer
  <2> QED
    BY <1>1, <2>1, <2>2, <2>3, <2>4 DEF SamePage
<1> QED
  BY <1>2, <1>3, <1>4, FineSame

\* No space is found: the dump waits in roomq.
LEMMA WaitsForRoomFine ==
    ASSUME NEW f, NEW c, Fine(f, c), NEW i \in Dumpers, f.chk[i].proc = "room",
           NEW d, d = f.dmp[i].dp, d \notin ToSet(f.roomq),
           Filled(f.sched[d].holdp, f.sched[d].activehd), NEW t, t = WaitsForRoom(f, d)
    PROVE  Fine(t, c)
<1>0. Good(f, c) /\ Shape(f) /\ Books(f) /\ Placed(f) /\ Balanced(f) /\ Accounts(f.ha) /\ Queues(f)
  BY DEF Fine, Good, Inv, Books
<1>1. /\ d \in f.inprogress /\ d \in Dles /\ f.sched[d].dumper = i /\ Works(f, d) /\ Page(f, d)
      /\ Holdp(f.sched[d].holdp)
  BY WriterIs DEF None
<1>2. d \notin Flush /\ d \notin ToSet(f.runq) /\ f.outcome[d] = None
  BY <1>0, <1>1 DEF Placed, Apart, Held
<1>3. /\ t.ha = f.ha /\ t.sched = f.sched /\ t.chk = f.chk /\ t.dmp = f.dmp /\ t.runq = f.runq
      /\ t.inprogress = f.inprogress /\ t.outcome = f.outcome /\ t.roomq = Append(f.roomq, d)
  BY <1>0, Shaped DEF WaitsForRoom, Fields
<1>4. ToSet(t.roomq) = ToSet(f.roomq) \cup {d}
  BY <1>0, <1>1, <1>3, QueueAppend DEF Queues
<1>5. Good(t, c)
  BY <1>0, <1>1, WaitsForRoomGood
<1>6. OtherPages(f, t, d)
  <2> SUFFICES ASSUME NEW e \in Dles, e # d PROVE SamePage(f, t, e)
    BY DEF OtherPages
  <2>1. f.sched[e].act_size \in Nat
    BY <1>0 DEF Books, Page
  <2> QED
    BY <1>3, <1>4, <2>1 DEF SamePage, Works, Calmer
<1>7. Page(t, d)
  <2>1. Works(t, d)
    BY <1>1, <1>3 DEF Works
  <2> QED
    BY <1>1, <1>2, <1>3, <2>1 DEF Page, None
<1>8. Hands(t)
  BY <1>5, GoodHands
<1>9. SameSpace(f, t) /\ t.sched[d].holdp = f.sched[d].holdp
  BY <1>0, <1>3 DEF SameSpace
<1>10. Books(t)
  <2>1. d \in Dles \ Flush
    BY <1>1, <1>2
  <2> QED
    BY <1>0, <1>6, <1>7, <1>8, <1>9, <2>1, BooksKept
<1> QED
  BY <1>5, <1>10 DEF Fine

\* Space is found: the chunker goes on with it.
LEMMA MoreSpaceFine ==
    ASSUME NEW f, NEW c, Fine(f, c), NEW i \in Dumpers, f.chk[i].proc = "room",
           NEW d, d = f.dmp[i].dp, d \notin ToSet(f.roomq),
           Filled(f.sched[d].holdp, f.sched[d].activehd),
           NEW new, Fits(f.ha, new), new # <<>>,
           NEW t, t = Continue(AssignHoldingdisk(f, d, new), i, d), Good(t, c)
    PROVE  Fine(t, c)
<1>0. Shape(f)
  BY DEF Fine, Good, Inv
<1>1. d \in f.inprogress /\ d \in Dles /\ f.sched[d].dumper = i /\ Works(f, d)
  BY WriterIs DEF None
<1>2. PICK u : u = AssignHoldingdisk(f, d, new)
  OBVIOUS
<1>3. Shape(u) /\ u.roomq = f.roomq
  BY <1>0, <1>1, <1>2, AssignFrame
<1>4. t.roomq = u.roomq
  BY <1>1, <1>2, <1>3, ContinueFrame
<1>5. ToSet(t.roomq) \subseteq ToSet(f.roomq) \ {d}
  BY <1>3, <1>4
<1>6. Beside(t, t)
  BY DEF Beside
<1>7. f.chk[f.sched[d].dumper].proc \in {"room", "dead"}
  BY <1>1
<1> QED
  BY <1>1, <1>5, <1>6, <1>7, GrantFine

\* f is s with the active entry k of dump d full.
FullEntry(s, f, d, k) ==
    /\ k = s.sched[d].activehd /\ k = f.sched[d].activehd
    /\ Len(f.sched[d].holdp) = Len(s.sched[d].holdp)
    /\ f.sched[d].holdp[k].used = f.sched[d].holdp[k].reserved

\* RQ-MORE-DISK: the next entry, more space, or a place in roomq.
LEMMA MoreDiskBooks ==
    ASSUME NEW s, NEW c, Good(s, c), NEW i \in Dumpers, s.chk[i].proc = "writing",
           NEW d, d = s.dmp[i].dp, NEW k, NEW f, f = EntryFull(s, i, d, k), FullEntry(s, f, d, k),
           Books(f), NEW t \in MoreDisk(s, i)
    PROVE  Books(t)
<1> DEFINE est == s.sched[d].est_size
           want == MoreSize(est) - est
           new == FindDiskspace(f.ha, want, s.sched[d].holdp[k].disk)
           u == NextEntry(f, d, k)
           v == Grown(f, d, est)
           q == s.sched[d].holdp
<1>0. k = s.sched[d].activehd
  BY DEF FullEntry
<1>1. t \in IF k < Len(q) THEN {Continue(u, i, d)} ELSE MoreOrWait(v, i, d, new)
  BY <1>0 DEF MoreDisk
<1>2. /\ Good(f, c) /\ f.dmp = s.dmp /\ f.roomq = s.roomq /\ f.chk[i].proc = "room"
      /\ d \in Dles /\ d \notin ToSet(s.roomq)
  BY EntryFullGood
<1>3. Good(t, c) /\ Shape(s)
  BY MoreDiskGood DEF Good, Inv
<1>4. Fine(f, c)
  BY <1>2 DEF Fine
<1>5. est \in Nat
  BY <1>2, <1>3, Shaped
<1>6. MoreSize(est) \in Nat
  BY <1>5, MoreSizeNat
<1>7. want \in Int
  BY <1>5, <1>6
<1> HIDE DEF est, want, q
<1>8. d = f.dmp[i].dp /\ d \notin ToSet(f.roomq)
  BY <1>2
<1>9. CASE k < Len(q)
  <2>1. t = Continue(u, i, d)
    BY <1>1, <1>9
  <2>2. HasNext(f, d, k)
    BY <1>9 DEF FullEntry, HasNext, q
  <2> QED
    BY <1>2, <1>3, <1>4, <1>8, <2>1, <2>2, NextEntryFine DEF Fine
<1>10. CASE ~(k < Len(q))
  <2>1. t \in MoreOrWait(v, i, d, new)
    BY <1>1, <1>10
  <2> HIDE DEF new
  <2>2. Fine(v, c)
    BY <1>2, <1>4, <1>5, GrownFine
  <2>3. /\ v.chk = f.chk /\ v.dmp = f.dmp /\ v.roomq = f.roomq
    BY <1>2, <1>5, GrownFrame DEF Good, Inv
  <2>4. /\ v.ha = f.ha /\ v.sched[d].activehd = f.sched[d].activehd /\ v.sched[d].holdp = f.sched[d].holdp
    BY <1>2, <1>5, GrownIs DEF Good, Inv
  <2> HIDE DEF v
  <2>5. Filled(v.sched[d].holdp, v.sched[d].activehd)
    <3>1. Position(f.sched[d].holdp, f.sched[d].activehd)
      <4>1. f.chk[i].proc # None
        BY <1>2 DEF None
      <4>2. AtWork(f.sched[d].holdp, f.sched[d].activehd, f.chk[i])
        BY <1>4, <1>8, <4>1, WriterIs
      <4> QED
        BY <4>2 DEF AtWork
    <3>2. k \in 1..Len(f.sched[d].holdp)
      BY <3>1 DEF Position, FullEntry
    <3>3. k = Len(f.sched[d].holdp)
      <4>1. PICK n : n = Len(f.sched[d].holdp)
        OBVIOUS
      <4>2. n = Len(q)
        BY <4>1 DEF FullEntry, q
      <4>3. k \in 1..n /\ ~(k < n)
        BY <1>10, <3>2, <4>1, <4>2
      <4>4. n \in Nat
        <5>1. Holdp(f.sched[d].holdp)
          BY <1>2, <1>4 DEF Fine, Books, Page
        <5> QED
          BY <3>1, <4>1, <5>1, EntryOf
      <4> QED
        BY <4>1, <4>3, <4>4
    <3>4. f.sched[d].holdp[k].used = f.sched[d].holdp[k].reserved /\ k = f.sched[d].activehd
      BY DEF FullEntry
    <3> QED
      BY <2>4, <3>3, <3>4 DEF Filled
  <2>6. v.chk[i].proc = "room" /\ d = v.dmp[i].dp /\ d \notin ToSet(v.roomq)
    BY <1>2, <1>8, <2>3
  <2>7. CASE new # <<>>
    <3>1. t = Continue(AssignHoldingdisk(v, d, new), i, d)
      BY <2>1, <2>7, Zenon DEF MoreOrWait
    <3>2. Fits(v.ha, new)
      BY <1>4, <1>7, <2>4, FindFits DEF new, Fine, Books
    <3> QED
      BY <1>3, <2>2, <2>5, <2>6, <2>7, <3>1, <3>2, MoreSpaceFine DEF Fine
  <2>8. CASE new = <<>>
    <3> DEFINE w == WaitsForRoom(v, d)
    <3>1. t \in StartAFlush(ContinuePortDumps(w))
      BY <2>1, <2>8, Zenon DEF MoreOrWait, WaitsForRoom
    <3>2. Fine(w, c)
      BY <2>2, <2>5, <2>6, WaitsForRoomFine
    <3> HIDE DEF w
    <3>3. Fine(ContinuePortDumps(w), c)
      BY <3>2, ContinuePortDumpsFine
    <3> QED
      BY <3>1, <3>3, StartAFlushFine DEF Fine
  <2> QED
    BY <2>7, <2>8
<1> QED
  BY <1>9, <1>10

\* s is r after a message of a chunker and before RQ-MORE-DISK is handled: it wrote all it
\* may but the n blocks that do not exist.  p are the entries of its dump with the active
\* one closed.
Written(r, s, i, n, p) ==
    LET d == r.dmp[i].dp
        q == r.sched[d].holdp
        a == r.sched[d].activehd
        hp == s.sched[d].holdp
    IN  /\ NewChunker(r, s, i) /\ s.deaths = r.deaths /\ s.chk[i].proc = "writing"
        /\ s.chk[i].wrote = r.chk[i].wrote + r.chk[i].use - n
        /\ \A e \in Dles : e # d => s.sched[e] = r.sched[e]
        /\ s.sched[d].activehd = a /\ s.sched[d].act_size = r.sched[d].act_size
        /\ Len(hp) = Len(q) /\ hp[a].disk = q[a].disk /\ Sized(hp, a, hp[a].reserved) = p
        /\ p \in Seq(HdEntry) /\ Len(p) = Len(q) /\ \A j \in 1..Len(q) : j # a => p[j] = q[j]
        /\ p[a].disk = q[a].disk /\ p[a].used = q[a].reserved - n /\ p[a].reserved = q[a].reserved - n
        /\ Accounts(s.ha)
        /\ \A h \in Hdisks : LET m == IF h = q[a].disk THEN n ELSE 0 IN
              /\ s.ha[h].allocated_space = r.ha[h].allocated_space - m
              /\ s.ha[h].disksize = r.ha[h].disksize - m

LEMMA WrittenBooks ==
    ASSUME NEW r, NEW c, Fine(r, c), NEW i \in Dumpers, r.chk[i].proc = "writing",
           NEW n \in Nat, n <= r.chk[i].use, NEW s, NEW p, Written(r, s, i, n, p),
           NEW t \in MoreDisk(s, i)
    PROVE  Books(t)
<1> DEFINE d == r.dmp[i].dp
           q == r.sched[d].holdp
           a == r.sched[d].activehd
           f == EntryFull(s, i, d, a)
<1>0. Good(r, c) /\ Shape(r) /\ r.chk[i].proc # None
  BY DEF Fine, Good, Inv, None
<1>1. NewChunker(r, s, i) /\ s.deaths = r.deaths /\ s.chk[i].proc = "writing" /\ s.dmp = r.dmp
  BY Zenon DEF Written, NewChunker
<1>2. Good(s, c)
  <2>1. r.deaths \in Nat
    BY <1>0, Shaped
  <2>2. s.deaths \in Nat /\ s.deaths >= r.deaths
    BY <1>1, <2>1
  <2> QED
    BY <1>0, <1>1, <2>2, NewChunkerGood
<1>3. d = s.dmp[i].dp
  BY <1>1
<1>4. /\ d \in Dles /\ Holdp(q) /\ AtWork(q, a, r.chk[i])
  BY <1>0, WriterIs
<1>5. q[a].disk \in Hdisks
  BY <1>4, EntryOf DEF AtWork
<1>6. /\ Good(f, c) /\ f.dmp = s.dmp /\ f.roomq = s.roomq /\ f.chk[i].proc = "room" /\ NewChunker(s, f, i)
  BY <1>1, <1>2, <1>3, EntryFullGood
<1>8. f = EntryFull(s, i, d, a) /\ a = r.sched[d].activehd
  OBVIOUS
<1> HIDE DEF f, d, a, q
<1>7. /\ f.ha = OneLess(s.ha, s.sched[d].holdp[a].disk)
      /\ f.sched[d].holdp = Sized(s.sched[d].holdp, a, s.sched[d].holdp[a].reserved)
      /\ f.sched[d].activehd = s.sched[d].activehd /\ f.sched[d].act_size = s.sched[d].act_size
      /\ \A e \in Dles : e # d => f.sched[e] = s.sched[e]
      /\ f.chk[i].wrote = s.chk[i].wrote /\ f.chk[i].use = 0
  <2>1. Shape(s)
    BY <1>2 DEF Good, Inv
  <2> QED
    BY <1>4, <1>8, <2>1, EntryFullIs
<1>9. SameSpace(s, f)
  <2>1. Accounts(s.ha) /\ s.sched[d].holdp[a].disk = q[a].disk
    BY Zenon DEF Written, d, q, a
  <2>2. PICK g \in Hdisks : g = q[a].disk
    BY <1>5
  <2>3. PICK y \in Int : y = s.ha[g].allocated_dumpers
    BY <2>1 DEF Accounts
  <2>4. PICK x \in Int : x = y - 1
    OBVIOUS
  <2>5. f.ha = [s.ha EXCEPT ![g].allocated_dumpers = x]
    BY <1>7, <2>1, <2>2, <2>3, <2>4 DEF OneLess
  <2> QED
    BY <2>1, <2>5, DumpersSpace
<1>10. Brimming(r, f, i, n, p)
  <2>1. /\ f.runq = r.runq /\ f.roomq = r.roomq /\ f.inprogress = r.inprogress
        /\ f.dmp = r.dmp /\ f.outcome = r.outcome
    BY <1>1, <1>6 DEF NewChunker, SamePlaces
  <2>2. \A e \in Dles : e # d => f.sched[e] = r.sched[e]
    <3>1. \A e \in Dles : e # d => s.sched[e] = r.sched[e]
      BY Zenon DEF Written, d, q, a
    <3> QED
      BY <1>7, <3>1
  <2>3. f.sched[d].dumper = r.sched[d].dumper
    BY <1>1, <1>4, <1>6 DEF NewChunker
  <2>4. /\ f.sched[d].activehd = a /\ f.sched[d].act_size = r.sched[d].act_size /\ f.sched[d].holdp = p
    <3>1. /\ s.sched[d].activehd = a /\ s.sched[d].act_size = r.sched[d].act_size
          /\ Sized(s.sched[d].holdp, a, s.sched[d].holdp[a].reserved) = p
      BY Zenon DEF Written, d, q, a
    <3> QED
      BY <1>7, <3>1
  <2>5. \A j \in Dumpers : j # i => f.chk[j] = r.chk[j]
    BY <1>1, <1>6 DEF NewChunker
  <2>6. /\ f.chk[i].proc = "room" /\ f.chk[i].use = 0
        /\ f.chk[i].wrote = r.chk[i].wrote + r.chk[i].use - n
    <3>1. s.chk[i].wrote = r.chk[i].wrote + r.chk[i].use - n
      BY Zenon DEF Written, d, q, a
    <3> QED
      BY <1>6, <1>7, <3>1
  <2>7. /\ p \in Seq(HdEntry) /\ Len(p) = Len(q) /\ \A j \in 1..Len(q) : j # a => p[j] = q[j]
        /\ p[a].disk = q[a].disk /\ p[a].used = q[a].reserved - n /\ p[a].reserved = q[a].reserved - n
    BY Zenon DEF Written, d, q, a
  <2>8. Accounts(f.ha)
    BY <1>9 DEF SameSpace
  <2>9. \A h \in Hdisks : LET m == IF h = q[a].disk THEN n ELSE 0 IN
           /\ f.ha[h].allocated_space = r.ha[h].allocated_space - m
           /\ f.ha[h].disksize = r.ha[h].disksize - m
    <3>1. \A h \in Hdisks : LET m == IF h = q[a].disk THEN n ELSE 0 IN
             /\ s.ha[h].allocated_space = r.ha[h].allocated_space - m
             /\ s.ha[h].disksize = r.ha[h].disksize - m
      BY Zenon DEF Written, d, q, a
    <3> QED
      BY <1>9, <3>1 DEF SameSpace
  <2> QED
    BY <2>1, <2>2, <2>3, <2>4, <2>5, <2>6, <2>7, <2>8, <2>9, Zenon DEF Brimming, d, q, a
<1>11. Books(f) /\ p[a].used = p[a].reserved
  BY <1>10, BrimmingBooks DEF d, a
<1>12. FullEntry(s, f, d, a)
  <2>1. f.sched[d].holdp = p
    BY <1>10 DEF Brimming, d
  <2>2. s.sched[d].activehd = a /\ Len(s.sched[d].holdp) = Len(q) /\ Len(p) = Len(q)
    BY Zenon DEF Written, d, q, a
  <2>3. f.sched[d].activehd = a
    BY <1>7, <2>2
  <2> QED
    BY <1>11, <2>1, <2>2, <2>3 DEF FullEntry
<1> QED
  BY <1>1, <1>2, <1>3, <1>8, <1>11, <1>12, MoreDiskBooks

\* RQ-MORE-DISK keeps the books.
LEMMA ChunkFullBooks ==
    ASSUME NEW c, Fine(drv, c), NEW i \in Dumpers, ChunkFull(i)
    PROVE  Books(drv')
<1> DEFINE d == drv.dmp[i].dp
           q == drv.sched[d].holdp
           a == drv.sched[d].activehd
<1>0. Good(drv, c) /\ Accounts(drv.ha) /\ drv.chk[i].proc = "writing" /\ drv.chk[i].proc # None
  BY DEF Fine, Books, ChunkFull, None
<1>1. PICK s : /\ drv' \in MoreDisk(s, i) /\ NewChunker(drv, s, i) /\ s.deaths = drv.deaths
               /\ s.chk[i].proc = "writing" /\ s.sched = drv.sched /\ s.ha = drv.ha
               /\ s.chk[i].wrote = drv.chk[i].wrote + drv.chk[i].use
  BY <1>0, ChunkFullIs
<1>2. Holdp(q) /\ AtWork(q, a, drv.chk[i]) /\ drv.chk[i].wrote \in Nat /\ drv.chk[i].use \in Nat
  BY <1>0, WriterIs
<1>3. s.sched[d].activehd = a /\ s.sched[d].act_size = drv.sched[d].act_size /\ s.sched[d].holdp = q
      /\ \A e \in Dles : e # d => s.sched[e] = drv.sched[e]
  BY <1>1
<1> HIDE DEF d, q, a
<1>4. q \in Seq(HdEntry) /\ a \in 1..Len(q) /\ q[a].reserved \in Nat
  BY <1>2, EntryOf DEF AtWork
<1>5. PICK v \in Nat : v = q[a].reserved
  BY <1>4
<1>6. PICK p : /\ p = Sized(q, a, v) /\ p \in Seq(HdEntry) /\ Len(p) = Len(q)
               /\ \A j \in 1..Len(q) : j # a => p[j] = q[j]
               /\ p[a].disk = q[a].disk /\ p[a].used = v /\ p[a].reserved = v
  BY <1>4, <1>5, SizedEntry
<1>7. Written(drv, s, i, 0, p)
  <2>1. Len(s.sched[d].holdp) = Len(q) /\ s.sched[d].holdp[a].disk = q[a].disk
        /\ Sized(s.sched[d].holdp, a, s.sched[d].holdp[a].reserved) = p
    BY <1>3, <1>5, <1>6
  <2>2. p[a].used = q[a].reserved - 0 /\ p[a].reserved = q[a].reserved - 0
    BY <1>5, <1>6
  <2>3. s.chk[i].wrote = drv.chk[i].wrote + drv.chk[i].use - 0
    BY <1>1, <1>2
  <2>4. ASSUME NEW h \in Hdisks
        PROVE  LET m == IF h = q[a].disk THEN 0 ELSE 0 IN
                  /\ s.ha[h].allocated_space = drv.ha[h].allocated_space - m
                  /\ s.ha[h].disksize = drv.ha[h].disksize - m
    <3>1. drv.ha[h].allocated_space \in Int /\ drv.ha[h].disksize \in Int
      BY <1>0 DEF Accounts
    <3> QED
      BY <1>1, <3>1
  <2>5. Accounts(s.ha)
    BY <1>0, <1>1
  <2>6. NewChunker(drv, s, i) /\ s.deaths = drv.deaths /\ s.chk[i].proc = "writing"
    BY <1>1
  <2> QED
    BY <1>3, <1>6, <2>1, <2>2, <2>3, <2>4, <2>5, <2>6, Zenon DEF Written, d, q, a
<1>8. 0 \in Nat /\ 0 <= drv.chk[i].use
  BY <1>2
<1> QED
  BY <1>0, <1>1, <1>7, <1>8, WrittenBooks

\* An entry that is closed n blocks short.
LEMMA ShortSized ==
    ASSUME NEW q \in Seq(HdEntry), NEW k \in 1..Len(q), NEW n \in Nat, n <= q[k].reserved
    PROVE  LET hp == [q EXCEPT ![k] = ShortEntry(q[k], n)]
           IN  /\ Len(hp) = Len(q) /\ hp[k].disk = q[k].disk
               /\ \E p : /\ p = Sized(hp, k, hp[k].reserved) /\ p \in Seq(HdEntry) /\ Len(p) = Len(q)
                         /\ \A j \in 1..Len(q) : j # k => p[j] = q[j]
                         /\ p[k].disk = q[k].disk /\ p[k].used = q[k].reserved - n
                         /\ p[k].reserved = q[k].reserved - n
<1> DEFINE x == q[k]
           e == ShortEntry(x, n)
           hp == [q EXCEPT ![k] = e]
           v == x.reserved - n
           y == [e EXCEPT !.used = v]
           p == Sized(hp, k, hp[k].reserved)
<1>1. x \in HdEntry /\ DOMAIN q = 1..Len(q) /\ Len(q) \in Nat
  OBVIOUS
<1>2. x.reserved \in Nat /\ x.disk \in Hdisks /\ DOMAIN x = {"disk", "used", "reserved"}
  BY <1>1 DEF HdEntry
<1>3. v \in Nat
  BY <1>2
<1>4. e.disk = x.disk /\ e.reserved = v /\ DOMAIN e = DOMAIN x
  BY <1>2 DEF ShortEntry
<1> HIDE DEF e, v
<1>5. y \in HdEntry /\ y.disk = x.disk /\ y.used = v /\ y.reserved = v
  <2>1. DOMAIN y = {"disk", "used", "reserved"} /\ y.disk = x.disk /\ y.used = v /\ y.reserved = v
    BY <1>2, <1>4
  <2>2. y = [disk |-> y.disk, used |-> y.used, reserved |-> y.reserved]
    BY <2>1
  <2> QED
    BY <1>2, <1>3, <2>1, <2>2 DEF HdEntry
<1>6. hp[k] = e /\ DOMAIN hp = 1..Len(q) /\ \A j \in 1..Len(q) : j # k => hp[j] = q[j]
  BY <1>1
<1>7. Len(hp) = Len(q)
  BY <1>1, <1>6
<1>8. p = [hp EXCEPT ![k].used = v]
  BY <1>4, <1>6 DEF Sized
<1>9. p = [q EXCEPT ![k] = y]
  BY <1>1, <1>6, <1>8
<1> HIDE DEF y, p
<1>10. p \in Seq(HdEntry) /\ Len(p) = Len(q) /\ p[k] = y /\ \A j \in 1..Len(q) : j # k => p[j] = q[j]
  BY <1>5, <1>9, Replaced
<1>11. p[k].disk = x.disk /\ p[k].used = x.reserved - n /\ p[k].reserved = x.reserved - n
  BY <1>5, <1>10 DEF v
<1>12. hp[k].disk = x.disk
  BY <1>4, <1>6
<1>13. p = Sized(hp, k, hp[k].reserved)
  BY DEF p
<1> HIDE DEF hp, x
<1>14. \E z : /\ z = Sized(hp, k, hp[k].reserved) /\ z \in Seq(HdEntry) /\ Len(z) = Len(q)
              /\ \A j \in 1..Len(q) : j # k => z[j] = q[j]
              /\ z[k].disk = x.disk /\ z[k].used = x.reserved - n /\ z[k].reserved = x.reserved - n
  BY <1>10, <1>11, <1>13, Zenon
<1> QED
  BY <1>7, <1>12, <1>14, Zenon DEF hp, x, e

\* A holding disk with n blocks less than it promised.
LEMMA ShortDiskIs ==
    ASSUME NEW ha, Accounts(ha), NEW g \in Hdisks, NEW n \in Nat
    PROVE  /\ Accounts(ShortDisk(ha, g, n))
           /\ \A h \in Hdisks : LET m == IF h = g THEN n ELSE 0 IN
                 /\ ShortDisk(ha, g, n)[h].allocated_space = ha[h].allocated_space - m
                 /\ ShortDisk(ha, g, n)[h].disksize = ha[h].disksize - m
<1> DEFINE x == ha[g].allocated_space - n
           y == ha[g].disksize - n
           hb == ShortDisk(ha, g, n)
<1>1. hb = [ha EXCEPT ![g].allocated_space = x, ![g].disksize = y]
  BY DEF ShortDisk, Accounts
<1>2. x \in Int /\ y \in Int
  BY DEF Accounts
<1> HIDE DEF x, y, hb
<1>3. /\ DOMAIN hb = Hdisks /\ \A h \in Hdisks : h # g => hb[h] = ha[h]
      /\ DOMAIN hb[g] = {"disksize", "allocated_space", "allocated_dumpers"}
      /\ hb[g].allocated_space = x /\ hb[g].disksize = y
      /\ hb[g].allocated_dumpers = ha[g].allocated_dumpers
  BY <1>1 DEF Accounts
<1>4. Accounts(hb)
  <2> SUFFICES ASSUME NEW h \in Hdisks
               PROVE  /\ DOMAIN hb[h] = {"disksize", "allocated_space", "allocated_dumpers"}
                      /\ hb[h].disksize \in Int /\ hb[h].allocated_space \in Int
                      /\ hb[h].allocated_dumpers \in Int
    BY <1>3 DEF Accounts
  <2>1. CASE h = g
    BY <1>2, <1>3, <2>1 DEF Accounts
  <2>2. CASE h # g
    BY <1>3, <2>2 DEF Accounts
  <2> QED
    BY <2>1, <2>2
<1>5. ASSUME NEW h \in Hdisks
      PROVE  LET m == IF h = g THEN n ELSE 0 IN
                /\ hb[h].allocated_space = ha[h].allocated_space - m
                /\ hb[h].disksize = ha[h].disksize - m
  <2>1. ha[h].allocated_space \in Int /\ ha[h].disksize \in Int
    BY DEF Accounts
  <2>2. CASE h = g
    BY <1>3, <2>2 DEF x, y
  <2>3. CASE h # g
    BY <1>3, <2>1, <2>3
  <2> QED
    BY <2>2, <2>3
<1> QED
  BY <1>4, <1>5 DEF hb

\* NO-ROOM and RQ-MORE-DISK keep the books.
LEMMA ChunkNoRoomBooks ==
    ASSUME NEW c, Fine(drv, c), NEW i \in Dumpers, NEW n \in Nat, ChunkNoRoom(i, n)
    PROVE  Books(drv')
<1> DEFINE d == drv.dmp[i].dp
           q == drv.sched[d].holdp
           a == drv.sched[d].activehd
           hd == q[a]
           hp == [q EXCEPT ![a] = ShortEntry(hd, n)]
<1>0. /\ Good(drv, c) /\ Shape(drv) /\ Accounts(drv.ha)
      /\ drv.chk[i].proc = "writing" /\ drv.chk[i].proc # None /\ n <= drv.chk[i].use
  BY DEF Fine, Good, Inv, Books, ChunkNoRoom, None
<1>1. PICK s : /\ drv' \in MoreDisk(s, i) /\ NewChunker(drv, s, i) /\ s.deaths = drv.deaths
               /\ s.chk[i].proc = "writing" /\ s.ha = ShortDisk(drv.ha, hd.disk, n)
               /\ s.sched = [drv.sched EXCEPT ![d].holdp[a] = ShortEntry(hd, n)]
               /\ s.chk[i].wrote = drv.chk[i].wrote + drv.chk[i].use - n
  BY <1>0, ChunkNoRoomIs
<1>2. /\ d \in Dles /\ Holdp(q) /\ AtWork(q, a, drv.chk[i])
      /\ drv.chk[i].wrote \in Nat /\ drv.chk[i].use \in Nat
  BY <1>0, WriterIs
<1>3. /\ s.sched[d].activehd = a /\ s.sched[d].act_size = drv.sched[d].act_size /\ s.sched[d].holdp = hp
      /\ \A e \in Dles : e # d => s.sched[e] = drv.sched[e]
  <2>1. PICK x : x = ShortEntry(hd, n)
    OBVIOUS
  <2>2. PICK y : y = [q EXCEPT ![a] = x]
    OBVIOUS
  <2>3. s.sched = [drv.sched EXCEPT ![d].holdp = y]
    BY <1>1, <2>1, <2>2
  <2>4. y = hp
    BY <2>1, <2>2
  <2> HIDE DEF d, q, a, hd, hp
  <2>5. /\ s.sched[d].activehd = drv.sched[d].activehd /\ s.sched[d].act_size = drv.sched[d].act_size
        /\ s.sched[d].holdp = y /\ \A e \in Dles : e # d => s.sched[e] = drv.sched[e]
    BY <1>0, <1>2, <2>3, Shaped DEF SchedFields
  <2> QED
    BY <2>4, <2>5 DEF a
<1> HIDE DEF d, q, a, hp
<1>4. q \in Seq(HdEntry) /\ a \in 1..Len(q) /\ hd.disk \in Hdisks /\ n <= hd.reserved
  <2>1. /\ q \in Seq(HdEntry) /\ a \in 1..Len(q) /\ hd.disk \in Hdisks
        /\ hd.used \in Nat /\ hd.reserved \in Nat
    BY <1>2, EntryOf DEF AtWork
  <2>2. drv.chk[i].use = hd.reserved - hd.used
    BY <1>0, <1>2 DEF AtWork
  <2>3. PICK x, y, z : x = hd.reserved /\ y = hd.used /\ z = drv.chk[i].use
    OBVIOUS
  <2>4. x \in Nat /\ y \in Nat /\ z = x - y /\ n <= z
    BY <1>0, <2>1, <2>2, <2>3
  <2>5. n <= x
    BY <2>4
  <2> QED
    BY <2>1, <2>3, <2>5
<1>5. /\ Len(hp) = Len(q) /\ hp[a].disk = q[a].disk
      /\ \E p : /\ p = Sized(hp, a, hp[a].reserved) /\ p \in Seq(HdEntry) /\ Len(p) = Len(q)
                /\ \A j \in 1..Len(q) : j # a => p[j] = q[j]
                /\ p[a].disk = q[a].disk /\ p[a].used = q[a].reserved - n
                /\ p[a].reserved = q[a].reserved - n
  BY <1>4, ShortSized DEF hp
<1>6. PICK p : /\ p = Sized(hp, a, hp[a].reserved) /\ p \in Seq(HdEntry) /\ Len(p) = Len(q)
               /\ \A j \in 1..Len(q) : j # a => p[j] = q[j]
               /\ p[a].disk = q[a].disk /\ p[a].used = q[a].reserved - n
               /\ p[a].reserved = q[a].reserved - n
  BY <1>5, Zenon
<1>7. /\ Accounts(s.ha)
      /\ \A h \in Hdisks : LET m == IF h = q[a].disk THEN n ELSE 0 IN
            /\ s.ha[h].allocated_space = drv.ha[h].allocated_space - m
            /\ s.ha[h].disksize = drv.ha[h].disksize - m
  BY <1>0, <1>1, <1>4, ShortDiskIs
<1>8. Written(drv, s, i, n, p)
  <2>1. /\ Len(s.sched[d].holdp) = Len(q) /\ s.sched[d].holdp[a].disk = q[a].disk
        /\ Sized(s.sched[d].holdp, a, s.sched[d].holdp[a].reserved) = p
    BY <1>3, <1>5, <1>6
  <2>2. /\ NewChunker(drv, s, i) /\ s.deaths = drv.deaths /\ s.chk[i].proc = "writing"
        /\ s.chk[i].wrote = drv.chk[i].wrote + drv.chk[i].use - n
    BY <1>1
  <2> QED
    BY <1>3, <1>6, <1>7, <2>1, <2>2, Zenon DEF Written, d, q, a
<1> QED
  BY <1>0, <1>1, <1>8, WrittenBooks

-----------------------------------------------------------------------------
(* The books are kept.                                                     *)

\* A step from a state of the event loop keeps the books.
LEMMA NextBooks ==
    ASSUME NEW c \in Nat, Fine(drv, c), Next
    PROVE  Books(drv')
<1>0. Blocks \subseteq Nat
  BY DriverAssumption
<1>1. CASE ReadFlush \/ ReadSchedule \/ HandleDumpersTime \/ EventLoopEnds
  BY <1>1, ReadFlushBooks, ReadScheduleBooks, HandleDumpersTimeBooks, EventLoopEndsBooks
<1>2. ASSUME NEW i \in Dumpers, ChunkWrites(i) \/ ChunkSpeaks(i) \/ DumperSpeaks(i)
                                \/ (\E n \in Blocks : ChunkNoRoom(i, n))
                                \/ (\E n \in Blocks \cup {0} : ChunkDies(i, n)) \/ DumperDies(i)
      PROVE  Books(drv')
  <2>1. CASE ChunkWrites(i)
    BY <1>0, <2>1, ChunkFullBooks, ChunkEofBooks DEF ChunkWrites
  <2>2. CASE ChunkSpeaks(i)
    BY <2>2, ChunkAnswersBooks, ChunkNoHeaderBooks, ChunkAbortFinishedBooks DEF ChunkSpeaks
  <2>3. CASE DumperSpeaks(i)
    BY <2>3, DumperResultBooks DEF DumperSpeaks
  <2>4. CASE \E n \in Blocks : ChunkNoRoom(i, n)
    BY <1>0, <2>4, ChunkNoRoomBooks
  <2>5. CASE \E n \in Blocks \cup {0} : ChunkDies(i, n)
    BY <1>0, <2>5, ChunkDiesBooks
  <2>6. CASE DumperDies(i)
    BY <2>6, DumperDiesBooks
  <2> QED
    BY <1>2, <2>1, <2>2, <2>3, <2>4, <2>5, <2>6
<1>3. CASE TaperSpeaks
  BY <1>3, TaperOkBooks, TapeErrorBooks, TaperPortBooks, TaperNewTapeBooks, TaperNoNewTapeBooks
     DEF TaperSpeaks
<1>4. CASE TaperRequestsTape \/ TaperEnds \/ TaperDies
  BY <1>4, TaperRequestsTapeBooks, TaperResultBooks, TaperDiesBooks DEF TaperEnds
<1> QED
  BY <1>1, <1>2, <1>3, <1>4 DEF Next

\* The invariant of DriverProofs with the books is inductive.
BInv == IInv /\ Books(drv)

LEMMA BInvStep == BInv /\ [Next]_drv => BInv'
<1> SUFFICES ASSUME BInv, [Next]_drv PROVE BInv'
  OBVIOUS
<1>1. IInv'
  BY IInvStep DEF BInv
<1>2. CASE Next
  <2>1. Running
    BY <1>2, NextRunning
  <2>2. ~Stopped(drv) /\ ~Over(drv)
    BY <2>1 DEF Running, Stopped, Over
  <2>3. PICK c \in Nat : Fine(drv, c)
    BY <2>2 DEF BInv, IInv, Good, Fine
  <2>4. Books(drv')
    BY <1>2, <2>3, NextBooks
  <2> QED
    BY <1>1, <2>4 DEF BInv
<1>3. CASE UNCHANGED drv
  <2>1. BInv' = BInv
    BY <1>3, Zenon DEF BInv, IInv
  <2> QED
    BY <2>1
<1> QED
  BY <1>2, <1>3

LEMMA InitBInv == Init => BInv
BY InitGood, InitBooks DEF BInv, IInv, Good

LEMMA BInvSpace == BInv => SpaceAccounted
<1> SUFFICES ASSUME Balanced(drv) PROVE SpaceAccounted
  BY DEF BInv, Books
<1> QED
  BY DEF Balanced, Reserved, Freed, SpaceAccounted

\* What a chunker wrote and may write is what is reserved up to the entry it writes to.
LEMMA WorkReserved ==
    ASSUME NEW q, Holdp(q), NEW a, NEW ch, AtWork(q, a, ch),
           ch.proc = "writing" \/ (ch.proc = "room" /\ Filled(q, a))
    PROVE  LET p == SubSeq(q, 1, a)
           IN  ch.wrote + ch.use = SumFunction([k \in DOMAIN p |-> p[k].reserved])
<1>1. /\ q \in Seq(HdEntry) /\ a \in 1..Len(q) /\ q[a].used \in Nat /\ q[a].reserved \in Nat
      /\ Before(q, a) \in Nat /\ \A k \in 1..(a - 1) : q[k].used = q[k].reserved
  <2>1. Position(q, a)
    BY DEF AtWork
  <2>2. /\ q \in Seq(HdEntry) /\ a \in 1..Len(q) /\ Len(q) \in Nat /\ q[a].used \in Nat
        /\ q[a].reserved \in Nat /\ Before(q, a) \in Nat
    BY <2>1, EntryOf
  <2>3. \A k \in 1..(a - 1) : k \in 1..Len(q) /\ k < a
    BY <2>2
  <2> QED
    BY <2>1, <2>2, <2>3 DEF Position
<1>2. LET p == SubSeq(q, 1, a)
      IN  SumFunction([k \in DOMAIN p |-> p[k].reserved]) = Before(q, a) + q[a].reserved
  BY <1>1, ReservedUpTo
<1>3. ch.wrote = Before(q, a) + q[a].used /\ ch.wrote \in Nat /\ ch.use \in Nat
  BY DEF AtWork
<1>4. ch.use = q[a].reserved - q[a].used
  <2>1. CASE ch.proc = "writing"
    BY <2>1 DEF AtWork
  <2>2. CASE ch.proc = "room" /\ Filled(q, a)
    BY <1>1, <2>2 DEF AtWork, Filled
  <2> QED
    BY <2>1, <2>2
<1>5. ch.wrote + ch.use = Before(q, a) + q[a].reserved
  <2>1. PICK x, y, z : x = Before(q, a) /\ y = q[a].used /\ z = q[a].reserved
    OBVIOUS
  <2>2. {x, y, z} \subseteq Nat /\ ch.wrote = x + y /\ ch.use = z - y
    BY <1>1, <1>3, <1>4, <2>1
  <2>3. ch.wrote + ch.use = x + z
    BY <2>2
  <2> QED
    BY <2>1, <2>3
<1> QED
  BY <1>2, <1>5

LEMMA BInvUse == BInv => UseMatchesReservation
<1> SUFFICES ASSUME BInv PROVE UseMatchesReservation
  OBVIOUS
<1>1. drv.inprogress \subseteq Dles
  BY DEF BInv, IInv, Inv, Stopped, Queues, Over
<1>2. (\A d \in Dles : Page(drv, d)) /\ Hands(drv)
  BY DEF BInv, Books
<1>3. ASSUME NEW i \in Dumpers, NEW d, d = drv.dmp[i].dp,
             drv.chk[i].proc = "writing" \/ (drv.chk[i].proc = "room" /\ d \in ToSet(drv.roomq))
      PROVE  LET holdp == SubSeq(drv.sched[d].holdp, 1, drv.sched[d].activehd)
             IN  drv.chk[i].wrote + drv.chk[i].use =
                    SumFunction([k \in DOMAIN holdp |-> holdp[k].reserved])
  <2>1. Engaged(drv, i) /\ drv.dmp[i].chunker
    BY <1>2, <1>3 DEF Hands
  <2>2. d \in Dles /\ d \in drv.inprogress /\ drv.sched[d].dumper = i
    BY <1>1, <1>3, <2>1 DEF Engaged
  <2>3. Works(drv, d) /\ Page(drv, d)
    BY <1>2, <2>1, <2>2 DEF Works
  <2>4. /\ Holdp(drv.sched[d].holdp)
        /\ AtWork(drv.sched[d].holdp, drv.sched[d].activehd, drv.chk[i])
        /\ d \in ToSet(drv.roomq) => Filled(drv.sched[d].holdp, drv.sched[d].activehd)
    BY <2>2, <2>3 DEF Page
  <2> QED
    BY <1>3, <2>4, WorkReserved
<1>4. ASSUME NEW d \in Dles, NEW k \in DOMAIN drv.sched[d].holdp
      PROVE  LET e == drv.sched[d].holdp[k] IN 0 <= e.used /\ e.used <= e.reserved
  <2>1. PICK q : q = drv.sched[d].holdp
    OBVIOUS
  <2>2. q \in Seq(HdEntry) /\ \A j \in 1..Len(q) : q[j].used <= q[j].reserved
    BY <1>2, <2>1 DEF Page, Holdp
  <2>3. k \in 1..Len(q) /\ q[k] \in HdEntry
    BY <2>1, <2>2
  <2>4. 0 <= q[k].used /\ q[k].used <= q[k].reserved
    BY <2>2, <2>3 DEF HdEntry
  <2> QED
    BY <2>1, <2>4
<1> QED
  BY <1>3, <1>4, Zenon DEF UseMatchesReservation

\* In every state the driver reaches, for any holding disks, schedule, flush list and
\* number of dumpers, whichever children die and whatever space turns out not to exist:
\* what the driver counts as allocated on a holding disk is what the dumps of this run have
\* reserved there, less the flushed files of earlier runs, and is within the disk.
THEOREM SpaceIsAccounted == Spec => []SpaceAccounted
<1> QED
  BY InitBInv, BInvStep, BInvSpace, PTL DEF Spec

\* In every such state the driver and a chunker that writes, or waits in roomq, agree on
\* the space of its dump: what it wrote and may write is what is reserved up to the active
\* entry; and no entry of a dump is used beyond its reservation.
THEOREM UseIsReserved == Spec => []UseMatchesReservation
<1> QED
  BY InitBInv, BInvStep, BInvUse, PTL DEF Spec
=============================================================================
