-------------------------- MODULE TaperCacherProofs --------------------------
(***************************************************************************)
(* Proofs about TaperCacher, for every length of the dump and of its       *)
(* parts, every limit of memory and any number of failures: the slab train *)
(* stays linked and its reference counts are the number of pointers        *)
(* (CacherTypeOK, SlabsAccounted), the Scribe never starts a part that     *)
(* start_part_impl would not accept (ScribeAgrees), and with a cache in    *)
(* memory the successful parts join to the dump (TapeHoldsDump).           *)
(*                                                                         *)
(* Train is the invariant of what slab_mutex protects.  It is stated for a *)
(* train t, as the operators of the model take and return one, and there   *)
(* is one lemma for each of them.  Agreement is the invariant of what      *)
(* state_mutex protects, of the queue and of the Scribe; Doomed carries    *)
(* the order of the messages that keeps a slab from being lost.  TapeInv   *)
(* is what was written of the dump, and of the part, at each step.         *)
(***************************************************************************)
EXTENDS TaperCacher, FiniteSetTheorems, TLAPS

-----------------------------------------------------------------------------
(* The invariant of the train.                                             *)

Addr == 0..MaxSlabCount

SlabType == [refcount : Nat, serial : 0..Slabs, next : Addr, data : -1..Slabs]

TrainType == [slab : [Addresses -> SlabType],
              oldest : Addr, newest : Addr, device : Addr, disk : Addr, mem : Addr,
              reader : Addr, tmp : Addr,
              waiting : SUBSET {"device", "disk"}, starved : BOOLEAN]

\* The slabs from oldest_slab to newest_slab.
Linked(t) == {a \in Addresses : t.slab[a].refcount > 0 /\ a \notin {t.reader, t.tmp}}

\* A pointer leads into the train or nowhere; the slab the reader fills and the one to
\* read the cache into belong to nobody else.
Placed(t) ==
    /\ \A p \in {"oldest", "newest", "device", "disk", "mem"} : t[p] \in Linked(t) \cup {Null}
    /\ \A p \in {"reader", "tmp"} :
          t[p] # Null => t.slab[t[p]].refcount = 1 /\ t.slab[t[p]].next = Null
    /\ t.reader # Null => t.reader # t.tmp
    /\ t.oldest = Null \/ t.newest = Null => Linked(t) = {}

\* The slabs of the train follow one another with consecutive serials.
Ordered(t) ==
    /\ \A a \in Linked(t) :
          /\ t.slab[t.oldest].serial <= t.slab[a].serial
          /\ t.slab[a].serial <= t.slab[t.newest].serial
          /\ t.slab[a].data = t.slab[a].serial
          /\ IF a = t.newest THEN t.slab[a].next = Null
             ELSE /\ t.slab[a].next \in Linked(t)
                  /\ t.slab[t.slab[a].next].serial = t.slab[a].serial + 1
    /\ \A a, b \in Linked(t) : t.slab[a].serial = t.slab[b].serial => a = b
    /\ t.oldest # Null =>
          \A k \in t.slab[t.oldest].serial .. t.slab[t.newest].serial :
             \E a \in Linked(t) : t.slab[a].serial = k

One(P) == IF P THEN 1 ELSE 0

\* One reference is oldest_slab or the next pointer of the slab before it.
RefsOf(t, a) == 1 + One(t.newest = a) + One(t.device = a) + One(t.disk = a) + One(t.mem = a)

Referenced(t) == \A a \in Linked(t) : t.slab[a].refcount = RefsOf(t, a)

TrainLength(t) ==
    IF t.oldest = Null THEN 0 ELSE t.slab[t.newest].serial - t.slab[t.oldest].serial + 1

\* The train and the slab the reader fills are within max_slabs, and the serials go on.
Fits(t, next_serial) ==
    /\ TrainLength(t) + One(t.reader # Null) <= max_slabs
    /\ t.reader # Null => t.slab[t.reader].serial = next_serial - 1
    /\ t.newest # Null =>
          t.slab[t.newest].serial = next_serial - 1 - One(t.reader # Null)
    /\ t.newest = Null => next_serial = One(t.reader # Null)
    /\ t.mem # Null => config.cache = "memory"
    /\ t.disk # Null => config.cache = "disk"

Train(t, next_serial) ==
    t \in TrainType /\ Placed(t) /\ Ordered(t) /\ Referenced(t) /\ Fits(t, next_serial)

\* Where the reader and the disk cache thread are.
ReaderAt ==
    /\ reader \in [pc : {"alloc", "push", "stopped", "done"}, next_serial : 0..(Slabs + 1)]
    /\ reader.pc = "push" => train.reader # Null
    /\ reader.pc = "alloc" => train.reader = Null /\ reader.next_serial <= Slabs

DiskAt ==
    /\ disk.pc \in {"open", "slab", "current", "next", "write", "advance", "ended"}
    /\ DOMAIN disk = {"pc", "stop"}
    /\ disk.pc \in {"current", "write", "advance"} => train.disk # Null
    /\ file \in [data : Seq(-1..Slabs), wpos : Nat, rpos : Nat]

TrainInv == Train(train, reader.next_serial) /\ ReaderAt /\ DiskAt

-----------------------------------------------------------------------------
(* The invariant of the parts.                                             *)

Setting == {"start", "setup"}
Writing == {"get", "refill", "wait", "read", "write", "next"}
Working == Setting \cup {"fd", "prebuffer", "done", "crashed"} \cup Writing

StateType == [paused : BOOLEAN, retry_part : BOOLEAN, successful : BOOLEAN,
              no_more_parts : BOOLEAN, first : Nat, stop : Nat, fd : BOOLEAN,
              waiting : SUBSET {"device", "disk"}]

DevType == [pc : Working \cup {"paused", "join", "ended"}, serial : 0..(Slabs + 1),
            slab : Addr, eof : BOOLEAN, set : BOOLEAN, failed : BOOLEAN]

PartTypes ==
    /\ config \in [cache : Caches, streaming : Streamings]
    /\ state \in StateType
    /\ dev \in DevType
    /\ scribe \in [pc : {"volume", "running"}, successful : BOOLEAN]
    /\ queue \in Seq(XMsg)
    /\ main \in {"loop", "slab_cond", "state_cond"}
    /\ cancelled \in BOOLEAN /\ asked \in BOOLEAN

Dones == {i \in DOMAIN queue : queue[i].type = "PART_DONE"}

\* The element waits for the Scribe, and they agree about the last part, if the Scribe has
\* a part to start: it looks for a volume, or a message will tell it to.
Waits(successful) ==
    state.paused /\ ~state.no_more_parts /\ successful = state.successful

Agreement ==
    /\ scribe.pc = "volume" => Waits(scribe.successful) /\ Dones = {}
    /\ \A i \in Dones :
          IF queue[i].eof THEN dev.pc \in {"join", "ended"}
          ELSE /\ Waits(queue[i].successful)
               /\ \A j \in Dones : i = j
    /\ dev.pc \in Working => ~state.paused
    /\ dev.pc \in Working \ {"start"} => ~state.successful
    /\ dev.pc \in {"join", "ended"} => cancelled \/ state.no_more_parts

\* The transfer is cancelled before the next part can be started.
Doomed ==
    \/ cancelled
    \/ \E i \in Dones : \E j \in 1..(i - 1) : queue[j].type = "CANCEL"

CancelComes == cancelled \/ \E j \in DOMAIN queue : queue[j].type = "CANCEL"

\* The serial a pointer is at; it waits for the next slab if it is null.
Position(t, next_serial, p) ==
    IF t[p] = Null THEN next_serial - One(t.reader # Null) ELSE t.slab[t[p]].serial

Pos(p) == Position(train, reader.next_serial, p)

\* The last part is on the medium, or there was none, and the next one is not begun.
Fresh == dev.pc = "paused" /\ state.paused /\ state.successful

\* A part is written, or will be.
Underway == dev.pc \in Working \/ (dev.pc = "paused" /\ ~Doomed)

\* As long as a part is written or will be, the device is within the part, and the memory
\* cache begins where the part does.
Aligned ==
    /\ Underway =>
          /\ state.first <= Pos("device") /\ Pos("device") <= state.stop
          /\ Fresh => Pos("device") = state.stop
          /\ config.cache = "memory" =>
                Pos("mem") = IF Fresh THEN state.stop ELSE state.first
          /\ dev.pc \in Setting \cup {"paused"} /\ ~state.paused /\ ~state.retry_part =>
                Pos("device") = state.first
          /\ Fresh => state.stop <= Slabs
    /\ state.first < state.stop \/ (state.paused /\ state.successful)
    /\ state.first <= Slabs \/ cancelled

\* Where the device thread is: with the slab it writes, and the serial it is at.
DeviceAt ==
    /\ dev.pc = "start" => state.first <= Slabs
    /\ dev.pc \in {"setup", "fd", "prebuffer"} => dev.serial = state.first /\ ~dev.set
    /\ dev.pc \in {"setup", "fd", "prebuffer"} \cup Writing =>
          dev.serial <= Slabs /\ dev.serial < state.stop
    /\ dev.pc \in {"fd", "prebuffer"} \cup Writing =>
          /\ dev.serial <= Pos("device")
          /\ train.tmp = Null => dev.serial = Pos("device")
    /\ dev.pc \in Writing => dev.set
    /\ dev.pc = "read" => train.tmp # Null /\ dev.serial < Slabs /\ dev.serial < Pos("device")
    /\ dev.pc = "refill" => ~state.retry_part
    /\ dev.pc \in {"write", "next"} =>
          \/ dev.slab = train.device /\ train.device # Null /\ dev.serial = Pos("device")
          \/ dev.slab = train.tmp /\ train.tmp # Null /\ dev.serial < Slabs
                /\ dev.serial < Pos("device")
    /\ dev.pc = "next" /\ dev.serial = Slabs => dev.eof
    /\ dev.pc = "done" /\ ~dev.failed =>
          CancelComes \/ dev.eof \/ (Pos("device") = state.stop /\ state.stop <= Slabs)

\* slab_source_free frees the slab the cache was read into, or the transfer is cancelled.
TmpFreed ==
    /\ dev.pc \in Setting => train.tmp = Null
    /\ dev.pc \in {"fd", "prebuffer"} => state.retry_part \/ train.tmp = Null
    /\ dev.pc = "done" /\ ~dev.set /\ train.tmp # Null => CancelComes
    /\ dev.pc = "paused" /\ train.tmp # Null => Doomed
    /\ asked => CancelComes
    /\ config.cache = "memory" => train.tmp = Null

PartInv == PartTypes /\ Agreement /\ Aligned /\ DeviceAt /\ TmpFreed

CacherInv == TrainInv /\ PartInv

-----------------------------------------------------------------------------
(* The operators of the train.                                             *)

TrainPointers == {"oldest", "newest", "device", "disk", "mem"}

SameLinks(t, u) ==
    \A a \in Addresses : /\ u.slab[a].serial = t.slab[a].serial
                         /\ u.slab[a].next = t.slab[a].next
                         /\ u.slab[a].data = t.slab[a].data

SamePointers(t, u, P) == \A p \in P : u[p] = t[p]

\* u is t but for the reference counts and the pointers of the threads.
Repointed(t, u) ==
    /\ u \in TrainType
    /\ SameLinks(t, u)
    /\ SamePointers(t, u, {"oldest", "newest", "reader", "tmp"})
    /\ \A p \in {"device", "disk", "mem"} : u[p] \in Linked(t) \cup {Null}
    /\ \A a \in Addresses :
          u.slab[a].refcount = IF a \in Linked(t) THEN RefsOf(u, a) ELSE t.slab[a].refcount
    /\ u.mem # Null => config.cache = "memory"
    /\ u.disk # Null => config.cache = "disk"

\* The number of references is a number.
LEMMA RefsType ==
  ASSUME NEW t, NEW a
  PROVE  RefsOf(t, a) \in Nat /\ RefsOf(t, a) >= 1 /\ RefsOf(t, a) <= 5
BY DEF RefsOf, One

\* A train is a train again when the threads have other pointers and are counted.
LEMMA RepointedTrain ==
  ASSUME NEW t, NEW u, NEW ns, Train(t, ns), Repointed(t, u)
  PROVE  /\ Train(u, ns)
         /\ Linked(u) = Linked(t)
<1>t. t \in TrainType /\ u \in TrainType
  BY DEF Train, Repointed
<1>1. Linked(u) = Linked(t)
  <2>1. \A a \in Addresses : u.slab[a].refcount > 0 <=> t.slab[a].refcount > 0
    BY RefsType DEF Repointed, Linked
  <2>2. u.reader = t.reader /\ u.tmp = t.tmp
    BY DEF Repointed, SamePointers
  <2> QED BY <2>1, <2>2 DEF Linked
<1>2. Placed(u)
  <2>1. \A p \in {"oldest", "newest", "device", "disk", "mem"} : u[p] \in Linked(u) \cup {Null}
    BY <1>1 DEF Repointed, SamePointers, Train, Placed
  <2>2. \A p \in {"reader", "tmp"} : u[p] = t[p] /\ u[p] \notin Linked(t) /\ u[p] \in Addr
    BY <1>t DEF Repointed, SamePointers, Linked, TrainType
  <2>3. \A p \in {"reader", "tmp"} :
          u[p] # Null => u.slab[u[p]].refcount = 1 /\ u.slab[u[p]].next = Null
    BY <2>2, CacherAssumption DEF Repointed, SameLinks, Train, Placed, Addr, Addresses, Null
  <2>4. u.reader # Null => u.reader # u.tmp
    BY DEF Repointed, SamePointers, Train, Placed
  <2>5. u.oldest = Null \/ u.newest = Null => Linked(u) = {}
    BY <1>1 DEF Repointed, SamePointers, Train, Placed
  <2> QED BY <2>1, <2>3, <2>4, <2>5 DEF Placed
<1>3. u.oldest = t.oldest /\ u.newest = t.newest /\ u.reader = t.reader /\ u.tmp = t.tmp
  BY DEF Repointed, SamePointers
<1>4. Linked(t) \subseteq Addresses
  BY DEF Linked
<1>5. Ordered(u)
  <2>1. \A a \in Linked(t) : /\ u.slab[a].serial = t.slab[a].serial
                             /\ u.slab[a].next = t.slab[a].next
                             /\ u.slab[a].data = t.slab[a].data
    BY <1>4 DEF Repointed, SameLinks
  <2>2. t.oldest # Null => t.oldest \in Linked(t) /\ t.newest \in Linked(t)
    BY DEF Train, Placed
  <2>3. Linked(t) # {} => t.oldest \in Linked(t) /\ t.newest \in Linked(t)
    BY DEF Train, Placed
  <2>4. Ordered(t)
    BY DEF Train
  <2> QED BY <1>1, <1>3, <2>1, <2>2, <2>3, <2>4 DEF Ordered
<1>6. Referenced(u)
  BY <1>1, <1>4 DEF Referenced, Repointed
<1>7. Fits(u, ns)
  <2>1. \A a \in Addresses : u.slab[a].serial = t.slab[a].serial
    BY DEF Repointed, SameLinks
  <2>2. \A p \in {"oldest", "newest", "reader"} : t[p] # Null => t[p] \in Addresses
    BY <1>t, CacherAssumption DEF TrainType, Addr, Addresses, Null
  <2>3. t.oldest # Null => t.newest # Null
    BY DEF Train, Placed
  <2>4. TrainLength(u) = TrainLength(t)
    BY <1>3, <2>1, <2>2, <2>3 DEF TrainLength
  <2>5. Fits(t, ns)
    BY DEF Train
  <2> QED BY <1>3, <2>1, <2>2, <2>4, <2>5 DEF Fits, Repointed
<1> QED BY <1>1, <1>2, <1>5, <1>6, <1>7, <1>t DEF Train

\* Another slab, or the same, is where the pointer p is.
LEMMA RepointedPosition ==
  ASSUME NEW t, NEW u, NEW ns, Repointed(t, u), t \in TrainType,
         NEW p \in {"device", "disk", "mem"}
  PROVE  Position(u, ns, p) = IF u[p] = Null THEN ns - One(t.reader # Null)
                              ELSE t.slab[u[p]].serial
<1>1. u.reader = t.reader
  BY DEF Repointed, SamePointers
<1>2. u[p] # Null => u[p] \in Addresses
  BY DEF Repointed, Linked
<1>3. u[p] # Null => u.slab[u[p]].serial = t.slab[u[p]].serial
  BY <1>2 DEF Repointed, SameLinks
<1> QED BY <1>1, <1>3 DEF Position

\* u is t but for the count of the slab s, which has k references more.
Recounted(t, u, s, k) ==
    /\ u \in TrainType
    /\ SameLinks(t, u)
    /\ SamePointers(t, u, Pointers)
    /\ \A a \in Addresses :
          u.slab[a].refcount = t.slab[a].refcount + IF a = s THEN k ELSE 0

\* u is t but for the pointer p, which is at s.
Pointed(t, u, p, s) ==
    /\ u \in TrainType
    /\ u.slab = t.slab
    /\ u[p] = s
    /\ SamePointers(t, u, Pointers \ {p})

\* refcount++, and a pointer that is set.
Ref(t, s) == [t EXCEPT !.slab[s].refcount = @ + 1]
Point(t, p, s) == [t EXCEPT ![p] = s]

\* unref_slab changes one count.
LEMMA UnrefShape ==
  ASSUME NEW t \in TrainType, NEW s \in Addresses, t.slab[s].refcount > 0
  PROVE  Recounted(t, UnrefSlab(t, s), s, -1)
<1> DEFINE n == t.slab[s].refcount - 1
           f == [t.slab EXCEPT ![s].refcount = n]
           u == UnrefSlab(t, s)
           st == t.starved /\ ~(n = 1 /\ s = t.oldest)
<1>1. u = [t EXCEPT !.slab = f, !.starved = st]
  BY DEF UnrefSlab, TrainType
<1>2. t.slab \in [Addresses -> SlabType]
  BY DEF TrainType
<1>3. n \in Nat
  BY <1>2 DEF SlabType
<1>4. f \in [Addresses -> SlabType]
  BY <1>2, <1>3 DEF SlabType
<1>5. \A a \in Addresses :
         /\ f[a].refcount = t.slab[a].refcount + IF a = s THEN -1 ELSE 0
         /\ f[a].serial = t.slab[a].serial
         /\ f[a].next = t.slab[a].next
         /\ f[a].data = t.slab[a].data
  BY <1>2 DEF SlabType
<1>6. st \in BOOLEAN
  OBVIOUS
<1> HIDE DEF f, st, n
<1>7. u \in TrainType /\ u.slab = f
  BY <1>1, <1>4, <1>6 DEF TrainType
<1>8. \A p \in Pointers : u[p] = t[p]
  BY <1>1 DEF TrainType, Pointers
<1> QED BY <1>5, <1>7, <1>8 DEF Recounted, SameLinks, SamePointers

\* So does refcount++.
LEMMA RefShape ==
  ASSUME NEW t \in TrainType, NEW s \in Addresses
  PROVE  Recounted(t, Ref(t, s), s, 1)
<1> DEFINE f == [t.slab EXCEPT ![s].refcount = @ + 1]
           u == Ref(t, s)
<1>1. u = [t EXCEPT !.slab = f]
  BY DEF TrainType, Ref
<1>2. t.slab \in [Addresses -> SlabType]
  BY DEF TrainType
<1>4. f \in [Addresses -> SlabType]
  BY <1>2 DEF SlabType
<1>5. \A a \in Addresses :
         /\ f[a].refcount = t.slab[a].refcount + IF a = s THEN 1 ELSE 0
         /\ f[a].serial = t.slab[a].serial
         /\ f[a].next = t.slab[a].next
         /\ f[a].data = t.slab[a].data
  BY <1>2 DEF SlabType
<1> HIDE DEF f, u
<1>7. u \in TrainType /\ u.slab = f
  BY <1>1, <1>4 DEF TrainType
<1>8. \A p \in Pointers : u[p] = t[p]
  BY <1>1 DEF TrainType, Pointers
<1>9. Recounted(t, u, s, 1)
  BY <1>5, <1>7, <1>8 DEF Recounted, SameLinks, SamePointers
<1> QED BY <1>9 DEF u

\* The same for a pointer that may be null: nothing happens then.
LEMMA RefOrNot ==
  ASSUME NEW t \in TrainType, NEW s \in Addr
  PROVE  Recounted(t, IF s = Null THEN t ELSE Ref(t, s), s, 1)
<1>1. CASE s = Null
  <2>1. \A a \in Addresses : a # s /\ t.slab[a].refcount \in Nat
    BY <1>1, CacherAssumption DEF Addresses, Null, TrainType, SlabType
  <2> QED BY <1>1, <2>1 DEF Recounted, SameLinks, SamePointers
<1>2. CASE s # Null
  BY <1>2, RefShape, CacherAssumption DEF Addr, Addresses, Null
<1> QED BY <1>1, <1>2

\* The same for unref_slab.
LEMMA UnrefOrNot ==
  ASSUME NEW t \in TrainType, NEW s \in Addr, s # Null => t.slab[s].refcount > 0
  PROVE  Recounted(t, IF s = Null THEN t ELSE UnrefSlab(t, s), s, -1)
<1>1. CASE s = Null
  <2>1. \A a \in Addresses : a # s /\ t.slab[a].refcount \in Nat
    BY <1>1, CacherAssumption DEF Addresses, Null, TrainType, SlabType
  <2> QED BY <1>1, <2>1 DEF Recounted, SameLinks, SamePointers
<1>2. CASE s # Null
  BY <1>2, UnrefShape, CacherAssumption DEF Addr, Addresses, Null
<1> QED BY <1>1, <1>2

\* A pointer that is set changes no slab.
LEMMA PointShape ==
  ASSUME NEW t \in TrainType, NEW p \in {"device", "disk", "mem"}, NEW s \in Addr
  PROVE  Pointed(t, Point(t, p, s), p, s)
  BY DEF TrainType, SamePointers, Pointers, Point, Pointed

\* The pointer p leaves the slab old, or nothing, for the slab new, or nothing: if one count
\* falls and the other rises, the train is a train again.
Moved(t, u, p, old, new) ==
    /\ u \in TrainType
    /\ SameLinks(t, u)
    /\ SamePointers(t, u, Pointers \ {p})
    /\ u[p] = new
    /\ \A a \in Addresses :
          u.slab[a].refcount = t.slab[a].refcount + (IF a = new THEN 1 ELSE 0)
                                                  - (IF a = old THEN 1 ELSE 0)

\* In any order, a count that rises, one that falls and a pointer that is set are a move.
LEMMA MoveShape ==
  ASSUME NEW t \in TrainType, NEW v, NEW w, NEW u, NEW p \in Pointers, NEW old, NEW new,
         \/ Recounted(t, v, new, 1) /\ Recounted(v, w, old, -1) /\ Pointed(w, u, p, new)
         \/ Recounted(t, v, old, -1) /\ Recounted(v, w, new, 1) /\ Pointed(w, u, p, new)
         \/ Recounted(t, v, new, 1) /\ Pointed(v, w, p, new) /\ Recounted(w, u, old, -1)
         \/ Recounted(t, v, old, -1) /\ Pointed(v, w, p, new) /\ Recounted(w, u, new, 1)
  PROVE  Moved(t, u, p, old, new)
<1>1. \A a \in Addresses : t.slab[a].refcount \in Nat
  BY DEF TrainType, SlabType
<1>2. u \in TrainType /\ SameLinks(t, u)
  BY DEF Recounted, Pointed, SameLinks
<1>3. SamePointers(t, u, Pointers \ {p}) /\ u[p] = new
  BY DEF Recounted, Pointed, SamePointers
<1>4. \A a \in Addresses :
         u.slab[a].refcount = t.slab[a].refcount + (IF a = new THEN 1 ELSE 0)
                                                 - (IF a = old THEN 1 ELSE 0)
  <2> SUFFICES ASSUME NEW a \in Addresses
               PROVE  u.slab[a].refcount = t.slab[a].refcount + (IF a = new THEN 1 ELSE 0)
                                                 - (IF a = old THEN 1 ELSE 0)
    OBVIOUS
  <2>1. CASE Recounted(t, v, new, 1) /\ Recounted(v, w, old, -1) /\ Pointed(w, u, p, new)
    BY <1>1, <2>1 DEF Recounted, Pointed
  <2>2. CASE Recounted(t, v, old, -1) /\ Recounted(v, w, new, 1) /\ Pointed(w, u, p, new)
    BY <1>1, <2>2 DEF Recounted, Pointed
  <2>3. CASE Recounted(t, v, new, 1) /\ Pointed(v, w, p, new) /\ Recounted(w, u, old, -1)
    BY <1>1, <2>3 DEF Recounted, Pointed
  <2>4. CASE Recounted(t, v, old, -1) /\ Pointed(v, w, p, new) /\ Recounted(w, u, new, 1)
    BY <1>1, <2>4 DEF Recounted, Pointed
  <2> QED BY <2>1, <2>2, <2>3, <2>4
<1> QED BY <1>2, <1>3, <1>4 DEF Moved

\* A train again, in which all is where it was but the pointer p, which is at new.
StillTrain(t, u, ns, p, new) ==
    /\ Train(u, ns)
    /\ Linked(u) = Linked(t)
    /\ SameLinks(t, u)
    /\ SamePointers(t, u, Pointers \ {p})
    /\ Position(u, ns, p) = IF new = Null THEN ns - One(t.reader # Null)
                            ELSE t.slab[new].serial
    /\ \A q \in {"device", "disk", "mem"} \ {p} : Position(u, ns, q) = Position(t, ns, q)

LEMMA MovedTrain ==
  ASSUME NEW t, NEW ns \in Nat, Train(t, ns), NEW p \in {"device", "disk", "mem"},
         NEW u, NEW new \in Linked(t) \cup {Null}, Moved(t, u, p, t[p], new),
         p = "mem" => config.cache = "memory",
         p = "disk" => config.cache = "disk"
  PROVE  StillTrain(t, u, ns, p, new)
<1> DEFINE old == t[p]
<1>t. t \in TrainType /\ u \in TrainType
  BY DEF Train, Moved
<1>1. old \in Linked(t) \cup {Null}
  BY DEF Train, Placed
<1>2. Linked(t) \subseteq Addresses /\ Null \notin Addresses
  BY CacherAssumption DEF Linked, Addresses, Null
<1>3. SamePointers(t, u, Pointers \ {p}) /\ u[p] = new
  BY DEF Moved
<1>4. Repointed(t, u)
  <2>1. SameLinks(t, u)
    BY DEF Moved
  <2>2. \A q \in {"device", "disk", "mem"} : u[q] \in Linked(t) \cup {Null}
    BY <1>3 DEF Train, Placed, SamePointers, Pointers
  <2>3. \A a \in Addresses : u.slab[a].refcount = t.slab[a].refcount
                                + (IF a = new THEN 1 ELSE 0) - (IF a = old THEN 1 ELSE 0)
    BY DEF Moved
  <2>4. \A a \in Linked(t) : RefsOf(u, a) = RefsOf(t, a)
                                + (IF a = new THEN 1 ELSE 0) - (IF a = old THEN 1 ELSE 0)
    <3>1. u.newest = t.newest
      BY <1>3 DEF SamePointers, Pointers
    <3>2. CASE p = "device"
      <4>1. u.mem = t.mem /\ u.disk = t.disk /\ u.device = new /\ t.device = old
        BY <1>3, <3>2 DEF SamePointers, Pointers
      <4> QED BY <3>1, <4>1 DEF RefsOf, One
    <3>3. CASE p = "disk"
      <4>1. u.mem = t.mem /\ u.device = t.device /\ u.disk = new /\ t.disk = old
        BY <1>3, <3>3 DEF SamePointers, Pointers
      <4> QED BY <3>1, <4>1 DEF RefsOf, One
    <3>4. CASE p = "mem"
      <4>1. u.disk = t.disk /\ u.device = t.device /\ u.mem = new /\ t.mem = old
        BY <1>3, <3>4 DEF SamePointers, Pointers
      <4> QED BY <3>1, <4>1 DEF RefsOf, One
    <3> QED BY <3>2, <3>3, <3>4
  <2>5. \A a \in Linked(t) : t.slab[a].refcount = RefsOf(t, a)
    BY DEF Train, Referenced
  <2>7. \A a \in Addresses :
           u.slab[a].refcount = IF a \in Linked(t) THEN RefsOf(u, a) ELSE t.slab[a].refcount
    <3>1. \A a \in Linked(t) : u.slab[a].refcount = RefsOf(u, a)
      BY <1>2, <2>3, <2>4, <2>5
    <3>2. \A a \in Addresses \ Linked(t) : a # new /\ a # old
      BY <1>1, <1>2
    <3>3. \A a \in Addresses : t.slab[a].refcount \in Nat
      BY <1>t DEF TrainType, SlabType
    <3> QED BY <2>3, <3>1, <3>2, <3>3
  <2>8. u.mem # Null => config.cache = "memory"
    BY <1>3 DEF Train, Fits, SamePointers, Pointers
  <2>9. u.disk # Null => config.cache = "disk"
    BY <1>3 DEF Train, Fits, SamePointers, Pointers
  <2>10. SamePointers(t, u, {"oldest", "newest", "reader", "tmp"})
    BY <1>3 DEF SamePointers, Pointers
  <2> QED BY <1>t, <2>1, <2>2, <2>7, <2>8, <2>9, <2>10 DEF Repointed
<1>5. Position(u, ns, p) = IF new = Null THEN ns - One(t.reader # Null)
                           ELSE t.slab[new].serial
  BY <1>3, <1>4, <1>t, RepointedPosition
<1>6. \A q \in {"device", "disk", "mem"} \ {p} : Position(u, ns, q) = Position(t, ns, q)
  BY <1>3, <1>4, <1>t, RepointedPosition DEF Position, SamePointers, Pointers
<1>7. Train(u, ns) /\ Linked(u) = Linked(t)
  BY <1>4, RepointedTrain
<1>8. SameLinks(t, u)
  BY DEF Moved
<1> QED BY <1>3, <1>5, <1>6, <1>7, <1>8 DEF StillTrain

\* next_slab moves p, device_slab or disk_cacher_slab, to the next slab, and counts.
LEMMA NextSlabTrain ==
  ASSUME NEW t, NEW ns \in Nat, Train(t, ns), NEW p \in {"device", "disk"}, t[p] # Null
  PROVE  /\ StillTrain(t, NextSlab(t, p), ns, p, t.slab[t[p]].next)
         /\ Position(NextSlab(t, p), ns, p) = Position(t, ns, p) + 1
<1> DEFINE s == t[p]
           n == t.slab[s].next
           v == IF n = Null THEN t ELSE Ref(t, n)
           w == UnrefSlab(v, s)
           u == Point(w, p, n)
<1>u. NextSlab(t, p) = u
  BY DEF NextSlab, Ref, Point
<1>t. t \in TrainType
  BY DEF Train
<1>1. s \in Linked(t) /\ s \in Addresses /\ t.slab[s].refcount > 0
  BY DEF Train, Placed, Linked
<1>2. n \in Addr /\ n \in Linked(t) \cup {Null}
  BY <1>t, <1>1 DEF Train, Ordered, Linked, TrainType, SlabType
<1>3. Null \notin Addresses /\ Linked(t) \subseteq Addresses
  BY CacherAssumption DEF Addresses, Null, Linked
<1>4. n = Null => s = t.newest
  BY <1>1, <1>3 DEF Train, Ordered
<1>5. n # Null => t.slab[n].serial = t.slab[s].serial + 1
  BY <1>1 DEF Train, Ordered
<1>6. Position(t, ns, p) = t.slab[s].serial
  BY DEF Position
<1>7. s = t[p]
  OBVIOUS
<1> HIDE DEF s, n
<1>8. Recounted(t, v, n, 1)
  BY <1>t, <1>2, RefOrNot
<1> HIDE DEF v
<1>9. v \in TrainType /\ v.slab[s].refcount > 0
  <2>1. v.slab[s].refcount = t.slab[s].refcount + IF s = n THEN 1 ELSE 0
    BY <1>1, <1>8 DEF Recounted
  <2>2. t.slab[s].refcount \in Nat
    BY <1>t, <1>1 DEF TrainType, SlabType
  <2> QED BY <1>1, <1>8, <2>1, <2>2 DEF Recounted
<1>10. Recounted(v, w, s, -1)
  BY <1>1, <1>9, UnrefShape
<1> HIDE DEF w
<1>11. Pointed(w, u, p, n)
  BY <1>2, <1>10, PointShape DEF Recounted
<1> HIDE DEF u
<1>12. Moved(t, u, p, s, n)
  BY <1>t, <1>8, <1>10, <1>11, MoveShape DEF Pointers
<1>13. StillTrain(t, u, ns, p, n)
  <2>1. p = "disk" => config.cache = "disk"
    BY DEF Train, Fits
  <2> QED BY <1>2, <1>7, <1>12, <2>1, MovedTrain
<1>14. Position(u, ns, p) = Position(t, ns, p) + 1
  <2>1. CASE n = Null
    <3>1. t.slab[s].serial = ns - 1 - One(t.reader # Null)
      BY <1>1, <1>3, <1>4, <2>1 DEF Train, Fits
    <3> QED BY <1>6, <1>13, <2>1, <3>1 DEF One, StillTrain
  <2>2. CASE n # Null
    BY <1>5, <1>6, <1>13, <2>2 DEF StillTrain
  <2> QED BY <2>1, <2>2
<1> QED BY <1>u, <1>13, <1>14 DEF s, n

\* A retry from memory moves device_slab to mem_cache_slab.
LEMMA RewindMemoryTrain ==
  ASSUME NEW ns \in Nat, Train(train, ns)
  PROVE  StillTrain(train, RewindMemory, ns, "device", train.mem)
<1> DEFINE t == train
           old == t.device
           new == t.mem
           v == IF old = Null THEN t ELSE UnrefSlab(t, old)
           w == IF new = Null THEN v ELSE Ref(v, new)
           u == Point(w, "device", new)
<1>t. t \in TrainType
  BY DEF Train
<1>1. old \in Addr /\ new \in Addr /\ new \in Linked(t) \cup {Null}
  BY <1>t DEF Train, Placed, TrainType
<1>2. old # Null => t.slab[old].refcount > 0
  BY DEF Train, Placed, Linked
<1>3. Recounted(t, v, old, -1)
  BY <1>t, <1>1, <1>2, UnrefOrNot
<1>u. RewindMemory = u
  <2>1. v \in TrainType
    BY <1>3 DEF Recounted
  <2> HIDE DEF v
  <2>2. CASE new = Null
    <3>1. RewindMemory = [v EXCEPT !.device = Null]
      BY <2>2 DEF RewindMemory, v
    <3> QED BY <2>2, <3>1 DEF Point
  <2>3. CASE new # Null
    <3>1. RewindMemory = [v EXCEPT !.device = new, !.slab[new].refcount = @ + 1]
      BY <2>3 DEF RewindMemory, v
    <3>2. u = [[v EXCEPT !.slab[new].refcount = @ + 1] EXCEPT !.device = new]
      BY <2>3 DEF Point, Ref
    <3> QED BY <2>1, <3>1, <3>2 DEF TrainType
  <2> QED BY <2>2, <2>3
<1> HIDE DEF v
<1>4. Recounted(v, w, new, 1)
  BY <1>1, <1>3, RefOrNot DEF Recounted
<1> HIDE DEF w
<1>5. Pointed(w, u, "device", new)
  BY <1>1, <1>4, PointShape DEF Recounted
<1> HIDE DEF u
<1>6. Moved(t, u, "device", old, new)
  BY <1>t, <1>3, <1>4, <1>5, MoveShape DEF Pointers
<1> QED BY <1>u, <1>1, <1>6, MovedTrain

\* release_part_cache moves mem_cache_slab to device_slab, if there is one to be moved.
LEMMA ReleaseTrain ==
  ASSUME NEW t, NEW ns \in Nat, Train(t, ns)
  PROVE  IF config.cache = "memory" /\ t.mem # Null
         THEN StillTrain(t, ReleasePartCache(t), ns, "mem", t.device)
         ELSE ReleasePartCache(t) = t
<1>1. CASE ~(config.cache = "memory" /\ t.mem # Null)
  BY <1>1 DEF ReleasePartCache
<1>2. CASE config.cache = "memory" /\ t.mem # Null
  <2> DEFINE old == t.mem
             new == t.device
             v == UnrefSlab(t, old)
             w == Point(v, "mem", new)
             u == IF new = Null THEN w ELSE Ref(w, new)
  <2>t. t \in TrainType
    BY DEF Train
  <2>1. old \in Addresses /\ new \in Addr /\ new \in Linked(t) \cup {Null}
    BY <1>2, <2>t DEF Train, Placed, TrainType, Linked
  <2>2. t.slab[old].refcount > 0
    BY <1>2 DEF Train, Placed, Linked
  <2>3. Recounted(t, v, old, -1)
    BY <2>t, <2>1, <2>2, UnrefShape
  <2>u. ReleasePartCache(t) = u
    <3>1. v \in TrainType /\ v.device = t.device
      BY <2>3 DEF Recounted, SamePointers, Pointers
    <3>2. w.mem = new
      BY <3>1 DEF Point, TrainType
    <3>3. w = [v EXCEPT !.mem = new]
      BY DEF Point
    <3> HIDE DEF w, v
    <3>4. ReleasePartCache(t) = IF w.mem = Null THEN w
                                ELSE [w EXCEPT !.slab[w.mem].refcount = @ + 1]
      BY <1>2, <3>3 DEF ReleasePartCache, v
    <3> QED BY <3>2, <3>4 DEF Ref
  <2> HIDE DEF v
  <2>4. Pointed(v, w, "mem", new)
    BY <2>1, <2>3, PointShape DEF Recounted
  <2> HIDE DEF w
  <2>5. Recounted(w, u, new, 1)
    BY <2>1, <2>4, RefOrNot DEF Pointed
  <2> HIDE DEF u
  <2>6. Moved(t, u, "mem", old, new)
    BY <2>t, <2>3, <2>4, <2>5, MoveShape DEF Pointers
  <2>7. StillTrain(t, u, ns, "mem", new)
    BY <1>2, <2>1, <2>6, MovedTrain
  <2> QED BY <1>2, <2>u, <2>7
<1> QED BY <1>1, <1>2

\* The oldest slab of the part that is still in memory is there if any is.
LEMMA OldestKept ==
  ASSUME NEW ns, Train(train, ns), Kept # {}, state.first \in Nat
  PROVE  \E s \in Kept : \A b \in Kept : train.slab[s].serial <= train.slab[b].serial
<1> DEFINE t == train
<1>t. t \in TrainType
  BY DEF Train
<1>1. Kept = {a \in Linked(t) : t.slab[a].serial >= state.first}
  BY DEF Kept, Linked
<1>2. PICK b \in Kept : TRUE
  OBVIOUS
<1>3. t.oldest # Null /\ t.oldest \in Linked(t) /\ t.newest \in Linked(t)
  BY <1>1, <1>2 DEF Train, Placed
<1>4. \A a \in Linked(t) : /\ t.slab[a].serial \in Nat
                           /\ t.slab[t.oldest].serial <= t.slab[a].serial
                           /\ t.slab[a].serial <= t.slab[t.newest].serial
  BY <1>t, CacherAssumption DEF Train, Ordered, Linked, TrainType, SlabType
<1>5. CASE t.slab[t.oldest].serial >= state.first
  BY <1>1, <1>3, <1>4, <1>5
<1>6. CASE t.slab[t.oldest].serial < state.first
  <2>1. state.first \in t.slab[t.oldest].serial .. t.slab[t.newest].serial
    BY <1>1, <1>2, <1>3, <1>4, <1>6
  <2>2. PICK a \in Linked(t) : t.slab[a].serial = state.first
    BY <1>3, <2>1 DEF Train, Ordered
  <2>3. a \in Kept
    BY <1>1, <2>2
  <2> QED BY <1>1, <2>2, <2>3
<1>7. t.slab[t.oldest].serial \in Nat
  BY <1>3, <1>4
<1> QED BY <1>5, <1>6, <1>7

\* A retry from disk moves device_slab to the oldest slab of the part that is in memory.
LEMMA RewindDiskTrain ==
  ASSUME NEW ns \in Nat, Train(train, ns), Kept # {}, state.first \in Nat
  PROVE  \E s \in Kept :
            /\ \A b \in Kept : train.slab[s].serial <= train.slab[b].serial
            /\ StillTrain(train, RewindDisk, ns, "device", s)
<1> DEFINE t == train
           s == CHOOSE a \in Kept : \A b \in Kept : train.slab[a].serial <= train.slab[b].serial
           old == t.device
           v == Ref(t, s)
           w == Point(v, "device", s)
           u == IF old = Null THEN w ELSE UnrefSlab(w, old)
<1>t. t \in TrainType
  BY DEF Train
<1>1. s \in Kept /\ \A b \in Kept : train.slab[s].serial <= train.slab[b].serial
  BY OldestKept
<1>v. /\ w = [v EXCEPT !.device = s]
      /\ RewindDisk = LET t1 == [t EXCEPT !.device = s, !.slab[s].refcount = @ + 1]
                      IN  IF t.device = Null THEN t1 ELSE UnrefSlab(t1, t.device)
  BY DEF RewindDisk, Point
<1> HIDE DEF s
<1>2. s \in Addresses /\ s \in Addr /\ s \in Linked(t)
  BY <1>1, CacherAssumption DEF Kept, Linked, Addresses, Addr
<1>3. Recounted(t, v, s, 1)
  BY <1>t, <1>2, RefShape
<1>u. RewindDisk = u
  <2>1. [t EXCEPT !.device = s, !.slab[s].refcount = @ + 1] = w
    BY <1>t, <1>v DEF Ref, TrainType
  <2> QED BY <1>v, <2>1
<1> HIDE DEF v
<1>4. Pointed(v, w, "device", s)
  BY <1>2, <1>3, PointShape DEF Recounted
<1>5. old \in Addr /\ (old # Null => old \in Addresses /\ t.slab[old].refcount > 0)
  BY <1>t DEF Train, Placed, Linked, TrainType
<1>6. old # Null => w.slab[old].refcount > 0
  <2>1. old # Null => w.slab[old].refcount = t.slab[old].refcount + IF old = s THEN 1 ELSE 0
    BY <1>3, <1>4, <1>5 DEF Recounted, Pointed
  <2>2. old # Null => t.slab[old].refcount \in Nat
    BY <1>t, <1>5 DEF TrainType, SlabType
  <2> QED BY <1>5, <2>1, <2>2
<1> HIDE DEF w
<1>7. Recounted(w, u, old, -1)
  BY <1>4, <1>5, <1>6, UnrefOrNot DEF Pointed
<1> HIDE DEF u
<1>8. Moved(t, u, "device", old, s)
  BY <1>t, <1>3, <1>4, <1>7, MoveShape DEF Pointers
<1>9. StillTrain(t, u, ns, "device", s)
  BY <1>2, <1>8, MovedTrain
<1> QED BY <1>u, <1>1, <1>9

InUse(t) == {a \in Addresses : t.slab[a].refcount > 0}

\* The serials count the slabs of the train.
LEMMA LinkedSize ==
  ASSUME NEW t, NEW ns, Train(t, ns)
  PROVE  /\ IsFiniteSet(Linked(t))
         /\ Cardinality(Linked(t)) <= TrainLength(t)
         /\ TrainLength(t) \in Nat
<1>1. CASE t.oldest = Null
  BY <1>1, FS_EmptySet DEF Train, Placed, TrainLength
<1>2. CASE t.oldest # Null
  <2> DEFINE lo == t.slab[t.oldest].serial
             hi == t.slab[t.newest].serial
             f == [a \in Linked(t) |-> t.slab[a].serial]
  <2>1. t.oldest \in Linked(t) /\ t.newest \in Linked(t)
    BY <1>2 DEF Train, Placed
  <2>2. \A a \in Linked(t) :
           t.slab[a].serial \in Nat /\ lo <= t.slab[a].serial /\ t.slab[a].serial <= hi
    BY CacherAssumption DEF Train, Ordered, TrainType, SlabType, Linked
  <2>3. lo \in Nat /\ hi \in Nat /\ lo <= hi
    BY <2>1, <2>2
  <2>4. \A a, b \in Linked(t) : t.slab[a].serial = t.slab[b].serial => a = b
    BY DEF Train, Ordered
  <2> HIDE DEF lo, hi
  <2>5. f \in Injection(Linked(t), lo .. hi)
    BY <2>2, <2>3, <2>4 DEF Injection, IsInjective
  <2>6. IsFiniteSet(lo .. hi) /\ Cardinality(lo .. hi) = hi - lo + 1
    BY <2>3, FS_Interval
  <2>7. IsFiniteSet(Linked(t)) /\ Cardinality(Linked(t)) <= Cardinality(lo .. hi)
    BY <2>5, <2>6, FS_Injection
  <2>8. TrainLength(t) = hi - lo + 1
    BY <1>2 DEF TrainLength, lo, hi
  <2> QED BY <2>3, <2>6, <2>7, <2>8
<1> QED BY <1>1, <1>2

\* What is in use is the train, what the reader fills and what the cache is read into.
LEMMA InUseSize ==
  ASSUME NEW t, NEW ns, Train(t, ns)
  PROVE  /\ IsFiniteSet(InUse(t))
         /\ Cardinality(InUse(t)) \in Nat
         /\ Cardinality(InUse(t))
               <= TrainLength(t) + One(t.reader # Null) + One(t.tmp # Null)
<1> DEFINE R == {t.reader} \ {Null}
           T == {t.tmp} \ {Null}
<1>1. InUse(t) = (Linked(t) \cup R) \cup T
  <2>1. \A p \in {"reader", "tmp"} : t[p] # Null => t[p] \in Addresses /\ t.slab[t[p]].refcount = 1
    BY CacherAssumption DEF Train, Placed, TrainType, Addr, Addresses, Null
  <2>2. Null \notin Addresses
    BY CacherAssumption DEF Addresses, Null
  <2> QED BY <2>1, <2>2 DEF InUse, Linked
<1>2. IsFiniteSet(R) /\ Cardinality(R) = One(t.reader # Null)
  <2>1. t.reader = Null => R = {}
    OBVIOUS
  <2>2. t.reader # Null => R = {t.reader}
    OBVIOUS
  <2> HIDE DEF R
  <2>3. IsFiniteSet({t.reader}) /\ Cardinality({t.reader}) = 1
    BY FS_Singleton
  <2> QED BY <2>1, <2>2, <2>3, FS_EmptySet DEF One
<1>3. IsFiniteSet(T) /\ Cardinality(T) = One(t.tmp # Null)
  <2>1. t.tmp = Null => T = {}
    OBVIOUS
  <2>2. t.tmp # Null => T = {t.tmp}
    OBVIOUS
  <2> HIDE DEF T
  <2>3. IsFiniteSet({t.tmp}) /\ Cardinality({t.tmp}) = 1
    BY FS_Singleton
  <2> QED BY <2>1, <2>2, <2>3, FS_EmptySet DEF One
<1>4. /\ IsFiniteSet(Linked(t)) /\ Cardinality(Linked(t)) <= TrainLength(t)
      /\ TrainLength(t) \in Nat
  BY LinkedSize
<1> HIDE DEF R, T
<1> DEFINE A == Linked(t) \cup R
<1>5. /\ IsFiniteSet(A)
      /\ Cardinality(A) = Cardinality(Linked(t)) + Cardinality(R) - Cardinality(Linked(t) \cap R)
  BY <1>2, <1>4, FS_Union
<1>6. IsFiniteSet(Linked(t) \cap R)
  BY <1>2, FS_Subset
<1> HIDE DEF A
<1>7. /\ IsFiniteSet(A \cup T)
      /\ Cardinality(A \cup T) = Cardinality(A) + Cardinality(T) - Cardinality(A \cap T)
  BY <1>3, <1>5, FS_Union
<1>8. IsFiniteSet(A \cap T)
  BY <1>3, FS_Subset
<1>9. /\ Cardinality(Linked(t)) \in Nat /\ Cardinality(Linked(t) \cap R) \in Nat
      /\ Cardinality(A \cap T) \in Nat /\ Cardinality(A) \in Nat /\ Cardinality(A \cup T) \in Nat
  BY <1>4, <1>5, <1>6, <1>7, <1>8, FS_CardinalityType
<1>10. InUse(t) = A \cup T
  BY <1>1 DEF A
<1> QED BY <1>2, <1>3, <1>4, <1>5, <1>7, <1>9, <1>10 DEF One

\* max_slabs is what the constructor makes it, and fits into MaxSlabCount.
LEMMA MaxSlabs ==
  ASSUME config \in [cache : Caches, streaming : Streamings]
  PROVE  max_slabs \in Nat /\ max_slabs >= 2 /\ max_slabs < MaxSlabCount
<1>1. 2 < MaxSlabCount /\ SlabsPerPart < MaxSlabCount /\ MaxMemory < MaxSlabCount
  BY CacherAssumption
<1>2. SlabsPerPart \in Nat /\ MaxMemory \in Nat /\ MaxSlabCount \in Nat
  BY CacherAssumption
<1>3. CASE config.cache = "memory"
  BY <1>1, <1>2, <1>3 DEF max_slabs
<1>4. CASE config.cache # "memory"
  BY <1>1, <1>2, <1>4 DEF max_slabs
<1> QED BY <1>3, <1>4

\* While fewer than all slabs are in use there is one to allocate.
LEMMA FreeSlabExists ==
  ASSUME NEW t, NEW ns, Train(t, ns), config \in [cache : Caches, streaming : Streamings],
         TrainLength(t) + One(t.reader # Null) + One(t.tmp # Null) <= max_slabs
  PROVE  \E a \in Addresses : t.slab[a].refcount = 0
<1> SUFFICES ASSUME \A a \in Addresses : t.slab[a].refcount # 0
             PROVE  FALSE
  OBVIOUS
<1>1. InUse(t) = Addresses
  BY DEF InUse, Train, TrainType, SlabType
<1>2. Cardinality(Addresses) = MaxSlabCount
  <2>1. MaxSlabCount \in Nat /\ MaxSlabCount > 2
    BY CacherAssumption
  <2>2. Cardinality(1..MaxSlabCount) = IF 1 > MaxSlabCount THEN 0 ELSE MaxSlabCount - 1 + 1
    BY <2>1, FS_Interval
  <2> QED BY <2>1, <2>2 DEF Addresses
<1>3. TrainLength(t) \in Nat
  BY LinkedSize
<1>4. MaxSlabCount \in Nat
  BY CacherAssumption
<1> QED BY <1>1, <1>2, <1>3, <1>4, InUseSize, MaxSlabs DEF One

\* The slab s is taken from the train t, or was free, for the pointer p, alone.
Taken(t, u, p, s) ==
    /\ u \in TrainType
    /\ s \in Addresses
    /\ u[p] = s
    /\ SamePointers(t, u, Pointers \ {p, "oldest"})
    /\ \A a \in Addresses \ {s} : u.slab[a] = t.slab[a]
    /\ u.slab[s].refcount = 1 /\ u.slab[s].next = Null
    /\ IF Reusable(t) THEN s = t.oldest /\ u.oldest = t.slab[s].next
       ELSE t.slab[s].refcount = 0 /\ u.oldest = t.oldest

\* u is linked and counted, and the threads are where they are in t.
TrainWithout(t, u) ==
    /\ Placed(u) /\ Ordered(u) /\ Referenced(u)
    /\ \A q \in {"newest", "device", "disk", "mem"} :
          u[q] = t[q] /\ (t[q] # Null => u.slab[t[q]] = t.slab[t[q]])
    /\ u.oldest = Null <=> t.oldest = Null
    /\ TrainLength(u) = TrainLength(t) - One(Reusable(t))

\* The train without the slab that was taken is linked and counted.
LEMMA TakenTrain ==
  ASSUME NEW t, NEW ns \in Nat, Train(t, ns), NEW p \in {"reader", "tmp"}, t[p] = Null,
         NEW u, NEW s, Taken(t, u, p, s)
  PROVE  TrainWithout(t, u)
<1>t. t \in TrainType /\ u \in TrainType
  BY DEF Train, Taken
<1>a. Null \notin Addresses /\ s \in Addresses /\ Linked(t) \subseteq Addresses
  BY CacherAssumption DEF Addresses, Null, Taken, Linked
<1>p. \A q \in {"newest", "device", "disk", "mem"} : u[q] = t[q]
  BY DEF Taken, SamePointers, Pointers
<1>s. \A a \in Addresses \ {s} : u.slab[a] = t.slab[a]
  BY DEF Taken
<1>1. \A q \in {"newest", "device", "disk", "mem"} : t[q] # s
  <2>1. CASE Reusable(t)
    <3>1. s = t.oldest /\ t.slab[s].refcount = 1 /\ s \in Linked(t)
      BY <2>1, <1>a DEF Taken, Reusable, Train, Placed
    <3>2. RefsOf(t, s) = 1
      BY <3>1 DEF Train, Referenced
    <3> QED BY <3>2 DEF RefsOf, One
  <2>2. CASE ~Reusable(t)
    <3>1. s \notin Linked(t) /\ s # Null
      BY <2>2, <1>a DEF Taken, Linked
    <3> QED BY <3>1 DEF Train, Placed
  <2> QED BY <2>1, <2>2
<1>2. Linked(u) = Linked(t) \ {s}
  <2>1. s \notin Linked(u)
    BY DEF Taken, Linked
  <2>2. \A a \in Addresses \ {s} : a \in Linked(u) <=> a \in Linked(t)
    <3>1. CASE p = "reader"
      <4>1. u.reader = s /\ t.reader = Null /\ u.tmp = t.tmp
        BY <3>1 DEF Taken, SamePointers, Pointers
      <4> QED BY <4>1, <1>s, <1>a DEF Linked
    <3>2. CASE p = "tmp"
      <4>1. u.tmp = s /\ t.tmp = Null /\ u.reader = t.reader
        BY <3>2 DEF Taken, SamePointers, Pointers
      <4> QED BY <4>1, <1>s, <1>a DEF Linked
    <3> QED BY <3>1, <3>2
  <2>3. Linked(u) \subseteq Addresses
    BY DEF Linked
  <2> QED BY <2>1, <2>2, <2>3, <1>a
<1>3. \A a \in Linked(u) : a \in Linked(t) /\ a # s /\ u.slab[a] = t.slab[a]
  BY <1>2, <1>a, <1>s
<1>o. Ordered(t) /\ Placed(t) /\ Referenced(t)
  BY DEF Train
<1>n. \A a \in Linked(t) : t.slab[a].serial \in Nat
  BY <1>t, <1>a, CacherAssumption DEF TrainType, SlabType
<1>4. \A a \in Linked(u) : a # t.newest => t.slab[a].next \in Linked(u)
  <2> SUFFICES ASSUME NEW a \in Linked(u), a # t.newest
               PROVE  t.slab[a].next \in Linked(u)
    OBVIOUS
  <2>1. t.slab[a].next \in Linked(t) /\ t.slab[t.slab[a].next].serial = t.slab[a].serial + 1
    BY <1>3, <1>o DEF Ordered
  <2>2. t.slab[a].next # s
    <3>1. CASE Reusable(t)
      <4>1. s = t.oldest
        BY <3>1 DEF Taken
      <4>2. t.slab[t.oldest].serial <= t.slab[a].serial
        BY <1>3, <1>o DEF Ordered
      <4> QED BY <2>1, <4>1, <4>2, <1>n, <1>3
    <3>2. CASE ~Reusable(t)
      BY <3>2, <2>1 DEF Taken, Linked
    <3> QED BY <3>1, <3>2
  <2> QED BY <2>1, <2>2, <1>2
<1>5. Reusable(t) =>
         /\ s = t.oldest /\ s \in Linked(t) /\ t.oldest # Null /\ u.oldest # Null
         /\ u.oldest \in Linked(u) /\ u.slab[u.oldest].serial = t.slab[t.oldest].serial + 1
  <2> HAVE Reusable(t)
  <2>1. /\ s = t.oldest /\ s \in Linked(t) /\ s # t.newest /\ t.oldest # Null
        /\ u.oldest = t.slab[s].next
    BY <1>1, <1>a, <1>o DEF Taken, Placed, Reusable
  <2>2. /\ u.oldest \in Linked(t) /\ t.slab[u.oldest].serial = t.slab[s].serial + 1
    BY <2>1, <1>o DEF Ordered
  <2>3. u.oldest # s
    BY <2>1, <2>2, <1>n
  <2>4. u.oldest \in Linked(u) /\ u.slab[u.oldest].serial = t.slab[s].serial + 1
    BY <2>2, <2>3, <1>2, <1>3
  <2>5. u.oldest # Null
    BY <2>2, <1>a
  <2> QED BY <2>1, <2>4, <2>5
<1>6. ~Reusable(t) =>
         /\ s \notin Linked(t) /\ u.oldest = t.oldest
         /\ t.oldest # Null =>
               t.oldest \in Linked(u) /\ u.slab[t.oldest].serial = t.slab[t.oldest].serial
  <2> HAVE ~Reusable(t)
  <2>1. s \notin Linked(t) /\ u.oldest = t.oldest
    BY DEF Taken, Linked
  <2>2. t.oldest # Null => t.oldest \in Linked(u)
    BY <2>1, <1>2, <1>o DEF Placed
  <2> QED BY <2>1, <2>2, <1>3
<1>7. t.newest # Null =>
         t.newest \in Linked(u) /\ u.slab[t.newest].serial = t.slab[t.newest].serial
  BY <1>1, <1>2, <1>3, <1>o DEF Placed
<1>8. Placed(u)
  <2>1. \A q \in {"newest", "device", "disk", "mem"} : u[q] \in Linked(u) \cup {Null}
    BY <1>1, <1>2, <1>p, <1>o DEF Placed
  <2>2. u.oldest \in Linked(u) \cup {Null}
    BY <1>5, <1>6
  <2>3. \A q \in {"reader", "tmp"} :
          u[q] # Null => u.slab[u[q]].refcount = 1 /\ u.slab[u[q]].next = Null
    <3> SUFFICES ASSUME NEW q \in {"reader", "tmp"}, u[q] # Null
                 PROVE  u.slab[u[q]].refcount = 1 /\ u.slab[u[q]].next = Null
      OBVIOUS
    <3>1. CASE q = p
      BY <3>1 DEF Taken
    <3>2. CASE q # p
      <4>0. u[q] = t[q]
        BY <3>2 DEF Taken, SamePointers, Pointers
      <4>1. u[q] = t[q] /\ t[q] \in Addresses
        <5>1. t[q] \in Addr
          BY <1>t DEF TrainType
        <5> QED BY <4>0, <5>1, CacherAssumption DEF Addr, Addresses, Null
      <4>2. t.slab[t[q]].refcount = 1 /\ t.slab[t[q]].next = Null /\ t[q] \notin Linked(t)
        BY <4>1, <1>o DEF Placed, Linked
      <4>3. t[q] # s
        BY <4>2, <1>5 DEF Taken
      <4> QED BY <4>1, <4>2, <4>3, <1>s
    <3> QED BY <3>1, <3>2
  <2>4. u.reader # Null => u.reader # u.tmp
    <3>1. \A q \in {"reader", "tmp"} : t[q] # Null => t[q] # s
      <4> SUFFICES ASSUME NEW q \in {"reader", "tmp"}, t[q] # Null
                   PROVE  t[q] # s
        OBVIOUS
      <4>1. t.slab[t[q]].refcount = 1 /\ t[q] \notin Linked(t)
        BY <1>o DEF Placed, Linked
      <4> QED BY <4>1, <1>5 DEF Taken
    <3> QED BY <3>1, <1>a DEF Taken, SamePointers, Pointers
  <2>5. u.oldest = Null \/ u.newest = Null => Linked(u) = {}
    <3>1. t.oldest = Null \/ t.newest = Null => Linked(u) = {}
      BY <1>2, <1>o DEF Placed
    <3> QED BY <3>1, <1>5, <1>6, <1>p
  <2> QED BY <2>1, <2>2, <2>3, <2>4, <2>5 DEF Placed
<1>9. Ordered(u)
  <2>1. \A a \in Linked(u) :
          /\ u.slab[u.oldest].serial <= u.slab[a].serial
          /\ u.slab[a].serial <= u.slab[u.newest].serial
    <3> SUFFICES ASSUME NEW a \in Linked(u)
                 PROVE  /\ u.slab[u.oldest].serial <= u.slab[a].serial
                        /\ u.slab[a].serial <= u.slab[u.newest].serial
      OBVIOUS
    <3>1. /\ a \in Linked(t) /\ u.slab[a] = t.slab[a] /\ a # s
          /\ t.slab[t.oldest].serial <= t.slab[a].serial
          /\ t.slab[a].serial <= t.slab[t.newest].serial
      BY <1>3, <1>o DEF Ordered
    <3>2. t.newest # Null /\ t.oldest # Null /\ t.oldest \in Linked(t)
      BY <3>1, <1>o DEF Placed
    <3>3. Reusable(t) => t.slab[a].serial # t.slab[t.oldest].serial
      BY <1>5, <3>1, <3>2, <1>o DEF Ordered
    <3>4. t.slab[a].serial \in Nat /\ t.slab[t.oldest].serial \in Nat
      BY <3>1, <3>2, <1>n
    <3> QED BY <3>1, <3>2, <3>3, <3>4, <1>5, <1>6, <1>7, <1>p
  <2>2. \A a \in Linked(u) :
          /\ u.slab[a].data = u.slab[a].serial
          /\ IF a = u.newest THEN u.slab[a].next = Null
             ELSE /\ u.slab[a].next \in Linked(u)
                  /\ u.slab[u.slab[a].next].serial = u.slab[a].serial + 1
    <3>1. u.newest = t.newest
      BY <1>p
    <3> QED BY <3>1, <1>3, <1>4, <1>o DEF Ordered
  <2>3. \A a, b \in Linked(u) : u.slab[a].serial = u.slab[b].serial => a = b
    BY <1>3, <1>o DEF Ordered
  <2>4. ASSUME u.oldest # Null,
               NEW k \in u.slab[u.oldest].serial .. u.slab[u.newest].serial
        PROVE  \E a \in Linked(u) : u.slab[a].serial = k
    <3>1. t.oldest # Null /\ t.newest # Null /\ u.newest = t.newest
      BY <2>4, <1>5, <1>6, <1>p, <1>o DEF Placed
    <3>2. t.oldest \in Linked(t) /\ t.newest \in Linked(t)
      BY <3>1, <1>o DEF Placed
    <3>3. t.slab[t.oldest].serial \in Nat /\ t.slab[t.newest].serial \in Nat
      BY <3>2, <1>n
    <3>4. /\ k \in t.slab[t.oldest].serial .. t.slab[t.newest].serial
          /\ Reusable(t) => k # t.slab[t.oldest].serial
      BY <2>4, <3>1, <3>3, <1>5, <1>6, <1>7
    <3>5. PICK a \in Linked(t) : t.slab[a].serial = k
      BY <3>1, <3>4, <1>o DEF Ordered
    <3>6. a # s
      BY <3>4, <3>5, <1>5, <1>6
    <3> QED BY <3>5, <3>6, <1>2, <1>3
  <2> QED BY <2>1, <2>2, <2>3, <2>4 DEF Ordered
<1>10. Referenced(u)
  <2>1. \A a \in Linked(u) : RefsOf(u, a) = RefsOf(t, a)
    BY <1>p DEF RefsOf
  <2> QED BY <2>1, <1>3, <1>o DEF Referenced
<1>11. u.oldest = Null <=> t.oldest = Null
  BY <1>5, <1>6
<1>12. TrainLength(u) = TrainLength(t) - One(Reusable(t))
  <2>1. CASE t.oldest = Null
    <3>1. ~Reusable(t)
      BY <2>1 DEF Reusable
    <3>2. TrainLength(u) = 0 /\ TrainLength(t) = 0
      BY <2>1, <1>11 DEF TrainLength
    <3>3. One(Reusable(t)) = 0
      BY <3>1 DEF One
    <3> QED BY <3>2, <3>3
  <2>2. CASE t.oldest # Null
    <3>1. t.oldest \in Linked(t) /\ t.newest \in Linked(t) /\ t.newest # Null
      BY <2>2, <1>o DEF Placed
    <3>2. t.slab[t.oldest].serial \in Nat /\ t.slab[t.newest].serial \in Nat
      BY <3>1, <1>n
    <3>3. u.oldest # Null /\ u.slab[u.newest].serial = t.slab[t.newest].serial
      BY <2>2, <3>1, <1>7, <1>11, <1>p
    <3>4. u.slab[u.oldest].serial = t.slab[t.oldest].serial + One(Reusable(t))
      BY <2>2, <3>2, <1>5, <1>6 DEF One
    <3> QED BY <2>2, <3>2, <3>3, <3>4 DEF TrainLength, One
  <2> QED BY <2>1, <2>2
<1>13. \A q \in {"newest", "device", "disk", "mem"} :
         u[q] = t[q] /\ (t[q] # Null => u.slab[t[q]] = t.slab[t[q]])
  BY <1>1, <1>p, <1>s, <1>a, <1>o DEF Placed
<1> QED BY <1>8, <1>9, <1>10, <1>11, <1>12, <1>13 DEF TrainWithout

\* alloc_slab takes the oldest slab, if nobody else has it, or a free one.
LEMMA AllocShape ==
  ASSUME NEW t, NEW ns, Train(t, ns), NEW p \in {"reader", "tmp"}, t[p] = Null,
         config \in [cache : Caches, streaming : Streamings],
         ~Reusable(t) =>
            TrainLength(t) + One(t.reader # Null) + One(t.tmp # Null) <= max_slabs
  PROVE  \E s : Taken(t, AllocSlab(t, p), p, s)
<1> DEFINE s == IF Reusable(t) THEN t.oldest ELSE CHOOSE a \in Addresses : t.slab[a].refcount = 0
           o == IF Reusable(t) THEN t.slab[s].next ELSE t.oldest
           f == [t.slab EXCEPT ![s].refcount = 1, ![s].next = Null, ![s].data = Nothing]
           u == AllocSlab(t, p)
<1>t. t \in TrainType
  BY DEF Train
<1>1. s \in Addresses /\ (IF Reusable(t) THEN s = t.oldest ELSE t.slab[s].refcount = 0)
  <2>1. CASE Reusable(t)
    BY <2>1, <1>t, CacherAssumption DEF Reusable, TrainType, Addr, Addresses, Null
  <2>2. CASE ~Reusable(t)
    BY <2>2, FreeSlabExists
  <2> QED BY <2>1, <2>2
<1>2. u = [t EXCEPT ![p] = s, !.oldest = o, !.slab[s].refcount = 1, !.slab[s].next = Null,
                    !.slab[s].data = Nothing]
  BY DEF AllocSlab
<1> HIDE DEF s
<1>3. t.slab \in [Addresses -> SlabType]
  BY <1>t DEF TrainType
<1>4. f \in [Addresses -> SlabType]
  BY <1>1, <1>3, CacherAssumption DEF SlabType, Null, Nothing, Addr
<1>5. /\ f[s].refcount = 1 /\ f[s].next = Null
      /\ \A a \in Addresses \ {s} : f[a] = t.slab[a]
  BY <1>1, <1>3 DEF SlabType
<1>6. o \in Addr
  BY <1>t, <1>1, <1>3 DEF TrainType, SlabType
<1>7. u = [t EXCEPT ![p] = s, !.oldest = o, !.slab = f]
  BY <1>2, <1>t DEF TrainType
<1>8. IF Reusable(t) THEN s = t.oldest /\ o = t.slab[s].next
      ELSE t.slab[s].refcount = 0 /\ o = t.oldest
  BY <1>1
<1> HIDE DEF f, o, u
<1>9. s \in Addr
  BY <1>1, CacherAssumption DEF Addresses, Addr
<1>10. u \in TrainType
  BY <1>t, <1>4, <1>6, <1>7, <1>9 DEF TrainType
<1>11. u[p] = s /\ u.oldest = o /\ u.slab = f
  BY <1>t, <1>7 DEF TrainType
<1>12. SamePointers(t, u, Pointers \ {p, "oldest"})
  BY <1>t, <1>7 DEF TrainType, SamePointers, Pointers
<1>13. Taken(t, u, p, s)
  BY <1>1, <1>5, <1>8, <1>10, <1>11, <1>12 DEF Taken
<1> QED BY <1>13 DEF u

\* The slab to read the cache into leaves all pointers of the threads where they are.
LEMMA AllocTmp ==
  ASSUME NEW t, NEW ns \in Nat, Train(t, ns), t.tmp = Null,
         config \in [cache : Caches, streaming : Streamings], NEW u, u = AllocSlab(t, "tmp")
  PROVE  /\ Train(u, ns)
         /\ u.tmp # Null /\ u.reader = t.reader /\ u.disk = t.disk
         /\ \A q \in {"device", "disk", "mem"} : Position(u, ns, q) = Position(t, ns, q)
<1>f. Fits(t, ns) /\ max_slabs \in Nat /\ TrainLength(t) \in Nat
  BY LinkedSize, MaxSlabs DEF Train
<1>1. PICK s : Taken(t, u, "tmp", s)
  <2>1. TrainLength(t) + One(t.reader # Null) + One(t.tmp # Null) <= max_slabs
    BY <1>f DEF Fits, One
  <2> QED BY <2>1, AllocShape
<1>0. TrainWithout(t, u)
  BY <1>1, TakenTrain
<1>2. /\ Placed(u) /\ Ordered(u) /\ Referenced(u)
      /\ \A q \in {"newest", "device", "disk", "mem"} :
            u[q] = t[q] /\ (t[q] # Null => u.slab[t[q]] = t.slab[t[q]])
      /\ u.oldest = Null <=> t.oldest = Null
      /\ TrainLength(u) = TrainLength(t) - One(Reusable(t))
  BY <1>0 DEF TrainWithout
<1>3. u.reader = t.reader /\ u.tmp = s /\ s \in Addresses /\ u \in TrainType
  BY <1>1 DEF Taken, SamePointers, Pointers
<1>4. Null \notin Addresses
  BY CacherAssumption DEF Addresses, Null
<1>5. t.reader # Null => u.slab[t.reader] = t.slab[t.reader]
  <2>1. t.reader # Null => t.reader # s /\ t.reader \in Addresses
    BY <1>2, <1>3, CacherAssumption DEF Placed, Train, TrainType, Addr, Addresses, Null
  <2> QED BY <1>1, <2>1 DEF Taken
<1>6. Fits(u, ns)
  <2>1. TrainLength(u) + One(u.reader # Null) <= max_slabs
    BY <1>2, <1>3, <1>f DEF Fits, One
  <2>2. u.newest = t.newest /\ u.mem = t.mem /\ u.disk = t.disk
    BY <1>2
  <2>3. u.newest # Null => u.slab[u.newest].serial = t.slab[t.newest].serial
    BY <1>2
  <2> QED BY <1>3, <1>5, <1>f, <2>1, <2>2, <2>3 DEF Fits
<1>7. Train(u, ns)
  BY <1>2, <1>3, <1>6 DEF Train
<1>8. \A q \in {"device", "disk", "mem"} : Position(u, ns, q) = Position(t, ns, q)
  BY <1>2, <1>3 DEF Position
<1> QED BY <1>2, <1>3, <1>4, <1>7, <1>8

\* The train has room for the slab that the reader fills when it need not wait.
LEMMA ReaderRoom ==
  ASSUME NEW t, NEW ns, Train(t, ns), t.reader = Null, ~Throttled(t),
         config \in [cache : Caches, streaming : Streamings]
  PROVE  TrainLength(t) + 1 - One(Reusable(t)) <= max_slabs
<1>f. Fits(t, ns) /\ max_slabs \in Nat /\ TrainLength(t) \in Nat /\ max_slabs >= 2
  BY LinkedSize, MaxSlabs DEF Train
<1>1. CASE t.oldest = Null
  BY <1>f, <1>1 DEF TrainLength, One
<1>2. CASE Reusable(t)
  BY <1>f, <1>2 DEF Fits, One
<1>3. CASE t.oldest # Null /\ ~Reusable(t)
  <2>1. t.oldest \in Linked(t)
    BY <1>3 DEF Train, Placed
  <2>2. t.slab[t.oldest].refcount > 1
    BY <1>3, <2>1 DEF Reusable, Linked, Train, TrainType, SlabType
  <2>3. ~(TrainLength(t) >= max_slabs)
    BY <1>3, <2>2 DEF Throttled, TrainLength
  <2> QED BY <1>f, <2>3 DEF One
<1> QED BY <1>1, <1>2, <1>3

\* u is t after the reader took a slab for the serial ns.
ReaderHas(t, u, ns) == \E s : Taken(t, u, "reader", s) /\ u.slab[s].serial = ns

\* It takes the slab and gives it the next serial.
LEMMA ReaderTakes ==
  ASSUME NEW t, NEW ns \in 0..Slabs, Train(t, ns), t.reader = Null, ~Throttled(t),
         config \in [cache : Caches, streaming : Streamings],
         NEW v, v = AllocSlab(t, "reader"),
         NEW u, u = [v EXCEPT !.slab[v.reader].serial = ns]
  PROVE  ReaderHas(t, u, ns)
<1>f. max_slabs \in Nat /\ TrainLength(t) \in Nat
  BY LinkedSize, MaxSlabs
<1>0. TrainLength(t) + 1 - One(Reusable(t)) <= max_slabs
  BY ReaderRoom
<1>1. PICK s : Taken(t, v, "reader", s)
  <2>1. ~Reusable(t) =>
           TrainLength(t) + One(t.reader # Null) + One(t.tmp # Null) <= max_slabs
    BY <1>0, <1>f DEF One
  <2> QED BY <2>1, AllocShape
<1>2. Taken(t, u, "reader", s)
  <2> DEFINE f == [v.slab EXCEPT ![s].serial = ns]
  <2>1. v \in TrainType /\ v.reader = s /\ s \in Addresses
    BY <1>1 DEF Taken
  <2>2. v.slab \in [Addresses -> SlabType]
    BY <2>1 DEF TrainType
  <2>3. f \in [Addresses -> SlabType]
    BY <2>2 DEF SlabType
  <2>4. /\ \A a \in Addresses \ {s} : f[a] = v.slab[a]
        /\ f[s].refcount = v.slab[s].refcount /\ f[s].next = v.slab[s].next
    BY <2>1, <2>2 DEF SlabType
  <2>5. u = [v EXCEPT !.slab = f]
    BY <2>1 DEF TrainType
  <2> HIDE DEF f
  <2>6. u \in TrainType /\ u.slab = f
    BY <2>1, <2>3, <2>5 DEF TrainType
  <2>7. \A p \in Pointers : u[p] = v[p]
    BY <2>1, <2>5 DEF TrainType, Pointers
  <2> QED BY <1>1, <2>4, <2>6, <2>7 DEF Taken, SamePointers, Pointers
<1>6. u.slab[s].serial = ns
  <2>1. v \in TrainType /\ v.reader = s /\ s \in Addresses
    BY <1>1 DEF Taken
  <2> QED BY <2>1 DEF TrainType, SlabType
<1> QED BY <1>2, <1>6 DEF ReaderHas

\* All pointers of the threads are where they were.
ReaderTrain(t, u, ns) ==
    /\ Train(u, ns + 1)
    /\ u.reader # Null /\ u.tmp = t.tmp /\ u.disk = t.disk /\ u.device = t.device
    /\ \A q \in {"device", "disk", "mem"} : Position(u, ns + 1, q) = Position(t, ns, q)

LEMMA ReaderTaken ==
  ASSUME NEW t, NEW ns \in Nat, Train(t, ns), t.reader = Null, ~Throttled(t),
         config \in [cache : Caches, streaming : Streamings],
         NEW u, ReaderHas(t, u, ns)
  PROVE  ReaderTrain(t, u, ns)
<1>s. PICK s : Taken(t, u, "reader", s) /\ u.slab[s].serial = ns
  BY DEF ReaderHas
<1>f. Fits(t, ns) /\ max_slabs \in Nat /\ TrainLength(t) \in Nat /\ max_slabs >= 2
  BY LinkedSize, MaxSlabs DEF Train
<1>n. ns \in Nat
  OBVIOUS
<1>0. TrainLength(t) + 1 - One(Reusable(t)) <= max_slabs
  BY ReaderRoom
<1>2. TrainWithout(t, u)
  BY <1>s, TakenTrain
<1>3. /\ Placed(u) /\ Ordered(u) /\ Referenced(u)
      /\ \A q \in {"newest", "device", "disk", "mem"} :
            u[q] = t[q] /\ (t[q] # Null => u.slab[t[q]] = t.slab[t[q]])
      /\ u.oldest = Null <=> t.oldest = Null
      /\ TrainLength(u) = TrainLength(t) - One(Reusable(t))
  BY <1>2 DEF TrainWithout
<1>4. u.reader = s /\ u.tmp = t.tmp /\ s \in Addresses /\ u \in TrainType
  BY <1>s DEF Taken, SamePointers, Pointers
<1>5. s # Null
  BY <1>4, CacherAssumption DEF Addresses, Null
<1>6. u.slab[s].serial = ns
  BY <1>s
<1>7. Fits(u, ns + 1)
  <2>1. TrainLength(u) + One(u.reader # Null) <= max_slabs
    BY <1>0, <1>3, <1>4, <1>5, <1>f DEF One
  <2>2. u.newest = t.newest /\ u.mem = t.mem /\ u.disk = t.disk
    BY <1>3
  <2>3. u.newest # Null => u.slab[u.newest].serial = t.slab[t.newest].serial
    BY <1>3
  <2>4. t.newest # Null => t.slab[t.newest].serial = ns - 1
    BY <1>f, <1>n DEF Fits, One
  <2>5. t.newest = Null => ns = 0
    BY <1>f DEF Fits, One
  <2>6. One(u.reader # Null) = 1
    BY <1>4, <1>5 DEF One
  <2>7. u.slab[u.reader].serial = ns + 1 - 1
    BY <1>4, <1>6, <1>n
  <2>8. u.newest # Null =>
           u.slab[u.newest].serial = ns + 1 - 1 - One(u.reader # Null)
    BY <2>2, <2>3, <2>4, <2>6, <1>n
  <2>9. u.newest = Null => ns + 1 = One(u.reader # Null)
    BY <2>2, <2>5, <2>6
  <2>10. t.mem # Null => config.cache = "memory"
    BY <1>f DEF Fits
  <2>11. t.disk # Null => config.cache = "disk"
    BY <1>f DEF Fits
  <2> QED BY <1>n, <2>1, <2>2, <2>7, <2>8, <2>9, <2>10, <2>11 DEF Fits, One
<1>8. Train(u, ns + 1)
  BY <1>3, <1>4, <1>7 DEF Train
<1>9. \A q \in {"device", "disk", "mem"} : Position(u, ns + 1, q) = Position(t, ns, q)
  <2>1. ns + 1 - One(u.reader # Null) = ns - One(t.reader # Null)
    BY <1>4, <1>5, <1>n DEF One
  <2>2. \A q \in {"device", "disk", "mem"} : u[q] = t[q]
    BY <1>3
  <2>3. \A q \in {"device", "disk", "mem"} : t[q] # Null => u.slab[t[q]].serial = t.slab[t[q]].serial
    BY <1>3
  <2> QED BY <2>1, <2>2, <2>3, <1>n DEF Position, One
<1> QED BY <1>3, <1>4, <1>5, <1>8, <1>9 DEF ReaderTrain

\* The slab the cache is read into is filled or freed: the train does not hear of it.
TmpChanged(t, u) ==
    /\ u \in TrainType
    /\ SamePointers(t, u, Pointers \ {"tmp"})
    /\ \A a \in Addresses \ {t.tmp} : u.slab[a] = t.slab[a]
    /\ t.tmp # Null
    /\ \/ u.tmp = Null /\ u.slab[t.tmp].refcount = 0
       \/ u.tmp = t.tmp /\ u.slab[t.tmp].refcount = 1 /\ u.slab[t.tmp].next = Null

LEMMA TmpTrain ==
  ASSUME NEW t, NEW u, NEW ns \in Nat, Train(t, ns), TmpChanged(t, u)
  PROVE  /\ Train(u, ns)
         /\ SamePointers(t, u, Pointers \ {"tmp"})
         /\ \A q \in {"device", "disk", "mem"} : Position(u, ns, q) = Position(t, ns, q)
<1>t. t \in TrainType /\ u \in TrainType
  BY DEF Train, TmpChanged
<1>o. Placed(t) /\ Ordered(t) /\ Referenced(t) /\ Fits(t, ns)
  BY DEF Train
<1>p. /\ u.oldest = t.oldest /\ u.newest = t.newest /\ u.device = t.device
      /\ u.disk = t.disk /\ u.mem = t.mem /\ u.reader = t.reader
  BY DEF TmpChanged, SamePointers, Pointers
<1>a. Null \notin Addresses /\ Linked(t) \subseteq Addresses
  BY CacherAssumption DEF Addresses, Null, Linked
<1>1. t.tmp \in Addresses
  BY <1>t, CacherAssumption DEF TmpChanged, TrainType, Addr, Addresses, Null
<1>2. Linked(u) = Linked(t)
  <2>1. t.tmp \notin Linked(t) /\ t.tmp \notin Linked(u)
    BY <1>1 DEF TmpChanged, Linked
  <2>2. \A a \in Addresses \ {t.tmp} : a \in Linked(u) <=> a \in Linked(t)
    <3>1. \A a \in Addresses \ {t.tmp} : u.slab[a] = t.slab[a] /\ a # u.tmp
      BY <1>a DEF TmpChanged
    <3> QED BY <3>1, <1>p DEF Linked
  <2>3. Linked(u) \subseteq Addresses
    BY DEF Linked
  <2> QED BY <2>1, <2>2, <2>3, <1>a
<1>3. \A a \in Linked(t) : u.slab[a] = t.slab[a]
  BY <1>a DEF TmpChanged, Linked
<1>4. t.reader # Null => u.slab[t.reader] = t.slab[t.reader]
  <2>1. t.reader # Null => t.reader \in Addresses
    BY <1>t, CacherAssumption DEF TrainType, Addr, Addresses, Null
  <2>2. t.reader # Null => t.reader # t.tmp
    BY <1>o DEF Placed
  <2> QED BY <2>1, <2>2 DEF TmpChanged
<1>5. Placed(u)
  <2>1. \A q \in {"oldest", "newest", "device", "disk", "mem"} : u[q] \in Linked(u) \cup {Null}
    BY <1>2, <1>p, <1>o DEF Placed
  <2>2. u.reader # Null => u.slab[u.reader].refcount = 1 /\ u.slab[u.reader].next = Null
    BY <1>4, <1>p, <1>o DEF Placed
  <2>3. u.tmp # Null => u.slab[u.tmp].refcount = 1 /\ u.slab[u.tmp].next = Null
    BY DEF TmpChanged
  <2>4. u.reader # Null => u.reader # u.tmp
    <3>1. u.tmp = Null \/ u.tmp = t.tmp
      BY DEF TmpChanged
    <3>2. t.reader # Null => t.reader # t.tmp
      BY <1>o DEF Placed
    <3> QED BY <1>p, <3>1, <3>2
  <2> QED BY <1>2, <1>p, <1>o, <2>1, <2>2, <2>3, <2>4 DEF Placed
<1>6. Linked(t) # {} => t.oldest \in Linked(t) /\ t.newest \in Linked(t)
  BY <1>o DEF Placed
<1>7. t.oldest # Null => t.oldest \in Linked(t) /\ t.newest \in Linked(t)
  BY <1>o DEF Placed
<1>8. Ordered(u)
  BY <1>2, <1>3, <1>6, <1>7, <1>p, <1>o DEF Ordered
<1>9. Referenced(u)
  BY <1>2, <1>3, <1>p, <1>o DEF Referenced, RefsOf
<1>10. t.newest # Null => u.slab[t.newest] = t.slab[t.newest]
  BY <1>3, <1>o DEF Placed
<1>11. TrainLength(u) = TrainLength(t)
  BY <1>3, <1>7, <1>p DEF TrainLength
<1>12. Fits(u, ns)
  BY <1>4, <1>10, <1>11, <1>p, <1>o DEF Fits
<1>13. \A q \in {"device", "disk", "mem"} : Position(u, ns, q) = Position(t, ns, q)
  <2>1. \A q \in {"device", "disk", "mem"} :
           u[q] = t[q] /\ (t[q] # Null => u.slab[t[q]] = t.slab[t[q]])
    BY <1>3, <1>p, <1>o DEF Placed
  <2> QED BY <2>1, <1>p DEF Position
<1> QED BY <1>t, <1>5, <1>8, <1>9, <1>12, <1>13 DEF Train, TmpChanged

\* slab_source_free, if there is a slab to be freed.
LEMMA FreeTmpTrain ==
  ASSUME NEW t, NEW ns \in Nat, Train(t, ns), NEW u, u = FreeTmp(t)
  PROVE  /\ Train(u, ns)
         /\ u.tmp = Null
         /\ SamePointers(t, u, Pointers \ {"tmp"})
         /\ \A q \in {"device", "disk", "mem"} : Position(u, ns, q) = Position(t, ns, q)
<1>t. t \in TrainType
  BY DEF Train
<1>1. CASE t.tmp = Null
  BY <1>1 DEF FreeTmp, SamePointers
<1>2. CASE t.tmp # Null
  <2> DEFINE f == [t.slab EXCEPT ![t.tmp] = FreeSlab]
  <2>1. u = [t EXCEPT !.slab = f, !.tmp = Null]
    BY <1>2, <1>t DEF FreeTmp, TrainType
  <2>2. FreeSlab \in SlabType /\ FreeSlab.refcount = 0
    BY CacherAssumption DEF FreeSlab, SlabType, Addr, Null, Nothing
  <2>3. t.tmp \in Addresses
    BY <1>2, <1>t, CacherAssumption DEF TrainType, Addr, Addresses, Null
  <2>4. f \in [Addresses -> SlabType] /\ f[t.tmp] = FreeSlab
        /\ \A a \in Addresses \ {t.tmp} : f[a] = t.slab[a]
    BY <1>t, <2>2, <2>3 DEF TrainType
  <2> HIDE DEF f
  <2>5. Null \in Addr
    BY CacherAssumption DEF Addr, Null
  <2>6. u \in TrainType /\ u.slab = f /\ u.tmp = Null
    BY <1>t, <2>1, <2>4, <2>5 DEF TrainType
  <2>7. SamePointers(t, u, Pointers \ {"tmp"})
    BY <1>t, <2>1 DEF TrainType, SamePointers, Pointers
  <2>8. TmpChanged(t, u)
    BY <1>2, <2>2, <2>4, <2>6, <2>7 DEF TmpChanged
  <2> QED BY <2>6, <2>8, TmpTrain
<1> QED BY <1>1, <1>2

\* slab_source_get_from_disk fills the slab.
FilledTmp(t, d, k) == [t EXCEPT !.slab[t.tmp].data = d, !.slab[t.tmp].serial = k]

SameButTmp(t, u, ns) ==
    /\ Train(u, ns)
    /\ u.tmp = t.tmp
    /\ SamePointers(t, u, Pointers \ {"tmp"})
    /\ \A q \in {"device", "disk", "mem"} : Position(u, ns, q) = Position(t, ns, q)

LEMMA ReadTmpTrain ==
  ASSUME NEW t, NEW ns \in Nat, Train(t, ns), t.tmp # Null,
         NEW d \in -1..Slabs, NEW k \in 0..Slabs,
         NEW u, u = FilledTmp(t, d, k)
  PROVE  SameButTmp(t, u, ns)
<1>t. t \in TrainType /\ t.slab \in [Addresses -> SlabType]
  BY DEF Train, TrainType
<1> DEFINE f == [t.slab EXCEPT ![t.tmp].data = d, ![t.tmp].serial = k]
<1>1. u = [t EXCEPT !.slab = f]
  BY <1>t DEF TrainType, FilledTmp
<1>2. t.tmp \in Addresses
  BY <1>t, CacherAssumption DEF TrainType, Addr, Addresses, Null
<1>3. f \in [Addresses -> SlabType]
  BY <1>t, <1>2 DEF SlabType
<1>4. /\ f[t.tmp].refcount = t.slab[t.tmp].refcount /\ f[t.tmp].next = t.slab[t.tmp].next
      /\ \A a \in Addresses \ {t.tmp} : f[a] = t.slab[a]
  BY <1>t, <1>2 DEF SlabType
<1> HIDE DEF f
<1>5. u \in TrainType /\ u.slab = f /\ u.tmp = t.tmp
  BY <1>t, <1>1, <1>3 DEF TrainType
<1>6. SamePointers(t, u, Pointers \ {"tmp"})
  BY <1>t, <1>1 DEF TrainType, SamePointers, Pointers
<1>7. t.slab[t.tmp].refcount = 1 /\ t.slab[t.tmp].next = Null
  BY DEF Train, Placed
<1>8. TmpChanged(t, u)
  BY <1>4, <1>5, <1>6, <1>7 DEF TmpChanged
<1> QED BY <1>5, <1>8, TmpTrain DEF SameButTmp

\* Who waits is not part of the train.
LEMMA SameTrain ==
  ASSUME NEW t, NEW ns, Train(t, ns), NEW u \in TrainType, u.slab = t.slab,
         SamePointers(t, u, Pointers)
  PROVE  Train(u, ns) /\ \A q \in {"device", "disk", "mem"} : Position(u, ns, q) = Position(t, ns, q)
<1>1. /\ u.oldest = t.oldest /\ u.newest = t.newest /\ u.device = t.device
      /\ u.disk = t.disk /\ u.mem = t.mem /\ u.reader = t.reader /\ u.tmp = t.tmp
  BY DEF SamePointers, Pointers
<1>2. Linked(u) = Linked(t)
  BY <1>1 DEF Linked
<1>3. Placed(u)
  BY <1>1, <1>2 DEF Train, Placed
<1>4. Ordered(u)
  BY <1>1, <1>2 DEF Train, Ordered
<1>5. Referenced(u)
  BY <1>1, <1>2 DEF Train, Referenced, RefsOf
<1>6. TrainLength(u) = TrainLength(t)
  BY <1>1 DEF TrainLength
<1>7. Fits(u, ns)
  BY <1>1, <1>6 DEF Train, Fits
<1> QED BY <1>1, <1>3, <1>4, <1>5, <1>7 DEF Train, Position

\* The pointers that take the slab of the reader: those that have none.
Takes(t, p) ==
    /\ t[p] = Null
    /\ p = "disk" => config.cache = "disk"
    /\ p = "mem" => config.cache = "memory"

\* A set of pointers, counted one by one.
LEMMA AddIf ==
  ASSUME NEW S, IsFiniteSet(S), NEW x, x \notin S, NEW c \in BOOLEAN
  PROVE  /\ IsFiniteSet(S \cup (IF c THEN {x} ELSE {}))
         /\ Cardinality(S \cup (IF c THEN {x} ELSE {})) = Cardinality(S) + One(c)
<1>1. Cardinality(S) \in Nat
  BY FS_CardinalityType
<1>2. CASE c
  <2>1. S \cup (IF c THEN {x} ELSE {}) = S \cup {x} /\ One(c) = 1
    BY <1>2 DEF One
  <2>2. IsFiniteSet(S \cup {x}) /\ Cardinality(S \cup {x}) = Cardinality(S) + 1
    BY FS_AddElement
  <2> QED BY <2>1, <2>2
<1>3. CASE ~c
  <2>1. S \cup (IF c THEN {x} ELSE {}) = S /\ One(c) = 0
    BY <1>3 DEF One
  <2> QED BY <2>1, <1>1
<1> QED BY <1>2, <1>3

LEMMA TakersCounted ==
  ASSUME NEW t, NEW K, K = {p \in {"disk", "mem", "device", "oldest"} : Takes(t, p)}
  PROVE  Cardinality(K) = One(Takes(t, "disk")) + One(Takes(t, "mem"))
                             + One(Takes(t, "device")) + One(Takes(t, "oldest"))
<1> DEFINE If(p) == IF Takes(t, p) THEN {p} ELSE {}
           A == {} \cup If("disk")
           B == A \cup If("mem")
           C == B \cup If("device")
           D == C \cup If("oldest")
<1>0. \A p : Takes(t, p) \in BOOLEAN
  BY DEF Takes
<1>k. D = K
  OBVIOUS
<1>1. "mem" \notin A /\ "device" \notin B /\ "oldest" \notin C
  OBVIOUS
<1>2. IsFiniteSet(A) /\ Cardinality(A) = 0 + One(Takes(t, "disk"))
  BY <1>0, AddIf, FS_EmptySet
<1> HIDE DEF A
<1>3. IsFiniteSet(B) /\ Cardinality(B) = Cardinality(A) + One(Takes(t, "mem"))
  BY <1>0, <1>1, <1>2, AddIf
<1> HIDE DEF B
<1>4. IsFiniteSet(C) /\ Cardinality(C) = Cardinality(B) + One(Takes(t, "device"))
  BY <1>0, <1>1, <1>3, AddIf
<1> HIDE DEF C
<1>5. IsFiniteSet(D) /\ Cardinality(D) = Cardinality(C) + One(Takes(t, "oldest"))
  BY <1>0, <1>1, <1>4, AddIf
<1> QED BY <1>k, <1>2, <1>3, <1>4, <1>5 DEF One

\* The slab s of the reader is the newest of the train u.
Pushed(t, u, s) ==
    /\ u \in TrainType
    /\ u.newest = s /\ u.reader = Null /\ u.tmp = t.tmp
    /\ \A p \in {"oldest", "device", "disk", "mem"} : u[p] = IF Takes(t, p) THEN s ELSE t[p]
    /\ \A a \in Addresses :
          /\ u.slab[a].serial = t.slab[a].serial
          /\ u.slab[a].next = IF a = t.newest THEN s ELSE t.slab[a].next
          /\ u.slab[a].data = IF a = s THEN t.slab[s].serial ELSE t.slab[a].data
          /\ a \notin {s, t.newest} => u.slab[a].refcount = t.slab[a].refcount
    /\ t.newest # Null => u.slab[t.newest].refcount = t.slab[t.newest].refcount - 1
    /\ u.slab[s].refcount = t.slab[s].refcount + One(t.newest # Null)
                            + One(Takes(t, "disk")) + One(Takes(t, "mem"))
                            + One(Takes(t, "device")) + One(Takes(t, "oldest"))

\* add_reader_slab_to_train, with the data that was read.
LEMMA PushShape ==
  ASSUME NEW t, NEW ns, Train(t, ns), t.reader # Null, NEW v,
         v = [t EXCEPT !.slab[t.reader].data = t.slab[t.reader].serial]
  PROVE  Pushed(t, AddReaderSlab(v), t.reader)
<1> DEFINE s == t.reader
           n == t.newest
           g == [t.slab EXCEPT ![s].data = t.slab[s].serial]
           h == IF n = Null THEN g
                ELSE [g EXCEPT ![n].next = s, ![s].refcount = @ + 1, ![n].refcount = @ - 1]
           K == {p \in {"disk", "mem", "device", "oldest"} : Takes(t, p)}
           f == [h EXCEPT ![s].refcount = @ + Cardinality(K)]
           u == AddReaderSlab(v)
<1>t. t \in TrainType /\ t.slab \in [Addresses -> SlabType]
  BY DEF Train, TrainType
<1>1. s \in Addresses /\ t.slab[s].refcount = 1 /\ t.slab[s].next = Null
  BY <1>t, CacherAssumption DEF TrainType, Addr, Addresses, Null, Train, Placed
<1>2. n # Null => n \in Addresses /\ n # s /\ t.slab[n].refcount > 0
  BY DEF Train, Placed, Linked
<1>3. v = [t EXCEPT !.slab = g]
  BY <1>t DEF TrainType
<1>4. g \in [Addresses -> SlabType]
  BY <1>t, <1>1, CacherAssumption DEF SlabType
<1>5. /\ \A a \in Addresses \ {s} : g[a] = t.slab[a]
      /\ g[s].serial = t.slab[s].serial /\ g[s].next = t.slab[s].next
      /\ g[s].refcount = t.slab[s].refcount /\ g[s].data = t.slab[s].serial
  BY <1>t, <1>1 DEF SlabType
<1> HIDE DEF g
<1>6. v \in TrainType /\ v.slab = g /\ SamePointers(t, v, Pointers)
  BY <1>t, <1>3, <1>4 DEF TrainType, SamePointers, Pointers
<1>7. DOMAIN v = Pointers \cup {"slab", "waiting", "starved"}
  BY <1>6 DEF TrainType, Pointers
<1>8. \A p \in {"disk", "mem", "device", "oldest"} :
         Takes(t, p) <=> /\ v[p] = Null
                         /\ p = "disk" => config.cache = "disk"
                         /\ p = "mem" => config.cache = "memory"
  BY <1>6 DEF Takes, SamePointers, Pointers
<1>k. Cardinality(K) = One(Takes(t, "disk")) + One(Takes(t, "mem"))
                          + One(Takes(t, "device")) + One(Takes(t, "oldest"))
  BY TakersCounted
<1>w. K = {p \in {"disk", "mem", "device", "oldest"} :
             /\ v[p] = Null
             /\ p = "disk" => config.cache = "disk"
             /\ p = "mem" => config.cache = "memory"}
  BY <1>8
<1>9. v.newest = n /\ v.reader = s
  BY <1>6 DEF SamePointers, Pointers
<1> DEFINE w == IF v.newest = Null THEN v
                ELSE [v EXCEPT !.slab[v.newest].next = v.reader,
                               !.slab[v.reader].refcount = @ + 1,
                               !.slab[v.newest].refcount = @ - 1]
           KV == {p \in {"disk", "mem", "device", "oldest"} :
                    /\ v[p] = Null
                    /\ p = "disk" => config.cache = "disk"
                    /\ p = "mem" => config.cache = "memory"}
<1>11. u = [p \in DOMAIN v |->
              CASE p \in KV -> v.reader
                [] p = "newest" -> v.reader
                [] p = "reader" -> Null
                [] p = "waiting" -> {}
                [] p = "slab" -> [w.slab EXCEPT ![v.reader].refcount = @ + Cardinality(KV)]
                [] OTHER -> w[p]]
  BY DEF AddReaderSlab
<1>10. w.slab = h /\ \A p \in Pointers \cup {"waiting", "starved"} : w[p] = v[p]
  <2>1. CASE n = Null
    BY <1>6, <1>9, <2>1
  <2>2. CASE n # Null
    <3> DEFINE x == [v EXCEPT !.slab[n].next = s, !.slab[s].refcount = @ + 1,
                              !.slab[n].refcount = @ - 1]
    <3>1. w = x
      BY <1>9, <2>2
    <3>2. h = [g EXCEPT ![n].next = s, ![s].refcount = @ + 1, ![n].refcount = @ - 1]
      BY <2>2
    <3> HIDE DEF w, h
    <3>3. x.slab = h
      BY <1>6, <3>2 DEF TrainType
    <3>4. \A p \in Pointers \cup {"waiting", "starved"} : x[p] = v[p]
      BY <1>6 DEF TrainType, Pointers
    <3> QED BY <3>1, <3>3, <3>4
  <2> QED BY <2>1, <2>2
<1>12. KV = K
  BY <1>w
<1>13. h \in [Addresses -> SlabType]
  <2>1. CASE n = Null
    BY <1>4, <2>1
  <2>2. CASE n # Null
    <3>0. s \in Addr
      BY <1>1, CacherAssumption DEF Addresses, Addr
    <3>3. g[n].refcount = t.slab[n].refcount /\ t.slab[n].refcount \in Nat
      BY <1>2, <1>5, <1>t, <2>2 DEF SlabType
    <3>1. g[n].refcount - 1 \in Nat /\ g[s].refcount + 1 \in Nat /\ s \in Addr
      BY <1>1, <1>2, <1>5, <2>2, <3>0, <3>3
    <3>2. h = [g EXCEPT ![n].next = s, ![s].refcount = @ + 1, ![n].refcount = @ - 1]
      BY <2>2
    <3> HIDE DEF h
    <3> QED BY <1>1, <1>2, <1>4, <2>2, <3>1, <3>2 DEF SlabType
  <2> QED BY <2>1, <2>2
<1>14. \A a \in Addresses :
         /\ h[a].serial = g[a].serial
         /\ h[a].next = IF a = n THEN s ELSE g[a].next
         /\ h[a].data = g[a].data
         /\ h[a].refcount = IF a = n THEN g[a].refcount - 1
                            ELSE IF a = s THEN g[a].refcount + One(n # Null) ELSE g[a].refcount
  <2>1. CASE n = Null
    <3>1. Null \notin Addresses
      BY CacherAssumption DEF Addresses, Null
    <3>2. h = g
      BY <2>1
    <3> HIDE DEF h
    <3> QED BY <1>4, <2>1, <3>1, <3>2 DEF One, SlabType
  <2>2. CASE n # Null
    <3>2. h = [g EXCEPT ![n].next = s, ![s].refcount = @ + 1, ![n].refcount = @ - 1]
      BY <2>2
    <3> HIDE DEF h
    <3> QED BY <1>1, <1>2, <1>4, <2>2, <3>2 DEF One, SlabType
  <2> QED BY <2>1, <2>2
<1> HIDE DEF h, w, KV
<1> DEFINE c == Cardinality(K)
<1>15. c \in Nat
  BY <1>k DEF One
<1>16. f = [h EXCEPT ![s].refcount = @ + c]
  OBVIOUS
<1> HIDE DEF K, c, f
<1>17. f \in [Addresses -> SlabType]
  <2>1. h[s].refcount + c \in Nat
    BY <1>1, <1>13, <1>15 DEF SlabType
  <2> QED BY <1>1, <1>13, <1>16, <2>1 DEF SlabType
<1>18. \A a \in Addresses :
         /\ f[a].serial = h[a].serial /\ f[a].next = h[a].next /\ f[a].data = h[a].data
         /\ f[a].refcount = IF a = s THEN h[a].refcount + c ELSE h[a].refcount
  BY <1>1, <1>13, <1>16 DEF SlabType
<1>19. K \subseteq {"disk", "mem", "device", "oldest"}
  BY DEF K
<1>20. u.slab = f
  <2>1. u.slab = [w.slab EXCEPT ![v.reader].refcount = @ + Cardinality(KV)]
    BY <1>7, <1>11, <1>12, <1>19
  <2> QED BY <1>9, <1>10, <1>12, <1>16, <2>1 DEF c
<1>21. u.newest = s /\ u.reader = Null
  BY <1>7, <1>9, <1>11, <1>12, <1>19 DEF Pointers
<1>22. u.tmp = t.tmp
  <2>1. u.tmp = w.tmp
    BY <1>7, <1>11, <1>12, <1>19 DEF Pointers
  <2> QED BY <1>6, <1>10, <2>1 DEF SamePointers, Pointers
<1>23. \A p \in {"oldest", "device", "disk", "mem"} : u[p] = IF Takes(t, p) THEN s ELSE t[p]
  <2> SUFFICES ASSUME NEW p \in {"oldest", "device", "disk", "mem"}
               PROVE  u[p] = IF Takes(t, p) THEN s ELSE t[p]
    OBVIOUS
  <2>1. p \in K <=> Takes(t, p)
    BY DEF K
  <2>2. u[p] = IF p \in KV THEN v.reader ELSE w[p]
    BY <1>7, <1>11 DEF Pointers
  <2>3. w[p] = t[p]
    BY <1>6, <1>10 DEF SamePointers, Pointers
  <2> QED BY <1>9, <1>12, <2>1, <2>2, <2>3
<1>24. u \in TrainType
  <2>1. u.waiting = {} /\ u.starved = w.starved /\ w.starved = v.starved
    BY <1>7, <1>10, <1>11, <1>12, <1>19
  <2>2. s \in Addr /\ Null \in Addr
    BY <1>1, CacherAssumption DEF Addresses, Addr, Null
  <2>3. \A p \in Pointers : u[p] \in Addr
    BY <1>t, <1>21, <1>22, <1>23, <2>2 DEF Pointers, TrainType
  <2>4. /\ DOMAIN u = Pointers \cup {"slab", "waiting", "starved"}
        /\ u = [p \in DOMAIN u |-> u[p]]
    BY <1>7, <1>11
  <2>5. v.starved \in BOOLEAN
    BY <1>6 DEF TrainType
  <2>6. u = [slab |-> u.slab, oldest |-> u.oldest, newest |-> u.newest, device |-> u.device,
             disk |-> u.disk, mem |-> u.mem, reader |-> u.reader, tmp |-> u.tmp,
             waiting |-> u.waiting, starved |-> u.starved]
    BY <2>4 DEF Pointers
  <2> QED BY <1>17, <1>20, <2>1, <2>3, <2>5, <2>6 DEF TrainType, Pointers
<1> HIDE DEF u
<1>25. \A a \in Addresses :
          /\ u.slab[a].serial = t.slab[a].serial
          /\ u.slab[a].next = IF a = n THEN s ELSE t.slab[a].next
          /\ u.slab[a].data = IF a = s THEN t.slab[s].serial ELSE t.slab[a].data
          /\ a \notin {s, n} => u.slab[a].refcount = t.slab[a].refcount
  BY <1>5, <1>14, <1>18, <1>20
<1>26. n # Null => u.slab[n].refcount = t.slab[n].refcount - 1
  BY <1>2, <1>5, <1>14, <1>18, <1>20
<1>27. u.slab[s].refcount = t.slab[s].refcount + One(n # Null) + c
  BY <1>1, <1>2, <1>5, <1>14, <1>18, <1>20 DEF One
<1>28. u.slab[s].refcount = t.slab[s].refcount + One(n # Null)
                            + One(Takes(t, "disk")) + One(Takes(t, "mem"))
                            + One(Takes(t, "device")) + One(Takes(t, "oldest"))
  BY <1>1, <1>27, <1>k DEF c, One
<1>29. Pushed(t, u, s)
  BY <1>21, <1>22, <1>23, <1>24, <1>25, <1>26, <1>28 DEF Pushed
<1> QED BY <1>29 DEF u

\* With the slab of the reader the train goes on, and the threads are where they were:
\* who waited for the slab has it.
LEMMA PushTrain ==
  ASSUME NEW t, NEW ns \in Nat, Train(t, ns), t.reader # Null,
         config \in [cache : Caches, streaming : Streamings],
         NEW u, NEW s, s = t.reader, Pushed(t, u, s)
  PROVE  /\ Train(u, ns)
         /\ u.reader = Null /\ u.tmp = t.tmp
         /\ t.disk # Null => u.disk # Null
         /\ t.device # Null => u.device = t.device
         /\ Position(u, ns, "device") = Position(t, ns, "device")
         /\ config.cache = "memory" => Position(u, ns, "mem") = Position(t, ns, "mem")
<1> DEFINE n == t.newest
<1>t. t \in TrainType /\ u \in TrainType
  BY DEF Train, Pushed
<1>o. Placed(t) /\ Ordered(t) /\ Referenced(t) /\ Fits(t, ns)
  BY DEF Train
<1>a. Null \notin Addresses /\ Linked(t) \subseteq Addresses
  BY CacherAssumption DEF Addresses, Null, Linked
<1>1. s \in Addresses /\ s \notin Linked(t) /\ t.slab[s].refcount = 1 /\ t.slab[s].next = Null
      /\ s # t.tmp
  BY <1>t, <1>o, CacherAssumption DEF TrainType, Addr, Addresses, Null, Placed, Linked
<1>s. \A a \in Addresses :
          /\ u.slab[a].serial = t.slab[a].serial
          /\ u.slab[a].next = IF a = n THEN s ELSE t.slab[a].next
          /\ u.slab[a].data = IF a = s THEN t.slab[s].serial ELSE t.slab[a].data
          /\ a \notin {s, n} => u.slab[a].refcount = t.slab[a].refcount
  BY DEF Pushed
<1>p. /\ u.newest = s /\ u.reader = Null /\ u.tmp = t.tmp
      /\ \A p \in {"oldest", "device", "disk", "mem"} : u[p] = IF Takes(t, p) THEN s ELSE t[p]
  BY DEF Pushed
<1>n. \A a \in Addresses : t.slab[a].serial \in Nat /\ t.slab[a].refcount \in Nat
  BY <1>t, CacherAssumption DEF TrainType, SlabType
<1>2. n # Null => n \in Linked(t)
  BY <1>o DEF Placed
<1>3. n # Null => /\ t.slab[n].refcount = RefsOf(t, n) /\ RefsOf(t, n) >= 2
                  /\ RefsOf(t, n) \in Nat
  <2>1. RefsOf(t, n) >= 2
    BY DEF RefsOf, One
  <2> QED BY <1>2, <1>o, <2>1, RefsType DEF Referenced
<1>4. n # Null => u.slab[n].refcount = t.slab[n].refcount - 1
  BY DEF Pushed
<1>5. u.slab[s].refcount = 1 + One(n # Null) + One(Takes(t, "disk")) + One(Takes(t, "mem"))
                             + One(Takes(t, "device")) + One(Takes(t, "oldest"))
  BY <1>1 DEF Pushed
<1>6. Linked(u) = Linked(t) \cup {s}
  <2>1. s \in Linked(u)
    <3>1. u.slab[s].refcount > 0
      BY <1>5 DEF One
    <3> QED BY <1>1, <1>a, <1>p, <3>1 DEF Linked
  <2>2. \A a \in Addresses \ {s} : u.slab[a].refcount > 0 <=> t.slab[a].refcount > 0
    BY <1>2, <1>3, <1>4, <1>s, <1>n, <1>a
  <2>3. \A a \in Addresses \ {s} : a \in Linked(u) <=> a \in Linked(t)
    BY <2>2, <1>p, <1>a DEF Linked
  <2>4. Linked(u) \subseteq Addresses
    BY DEF Linked
  <2> QED BY <2>1, <2>3, <2>4, <1>1, <1>a
<1>7. t.oldest = Null <=> n = Null
  <2>1. t.oldest = Null => n = Null
    BY <1>o, <1>2 DEF Placed
  <2>2. n = Null => t.oldest = Null
    BY <1>o DEF Placed
  <2> QED BY <2>1, <2>2
<1>8. n = Null => Linked(t) = {}
  BY <1>o DEF Placed
<1>9. \A p \in {"device", "disk", "mem", "oldest"} : t[p] # Null => u[p] = t[p]
  BY <1>p DEF Takes
<1>10. Placed(u)
  <2>1. \A p \in {"oldest", "newest", "device", "disk", "mem"} : u[p] \in Linked(u) \cup {Null}
    BY <1>6, <1>p, <1>o DEF Placed
  <2>2. t.tmp # Null => t.slab[t.tmp].refcount = 1 /\ t.slab[t.tmp].next = Null
                        /\ t.tmp \notin {s, n} /\ t.tmp \in Addresses
    <3>1. t.tmp # Null => t.tmp \in Addresses
      BY <1>t, CacherAssumption DEF TrainType, Addr, Addresses, Null
    <3>2. t.tmp \notin Linked(t)
      BY DEF Linked
    <3> QED BY <3>1, <3>2, <1>1, <1>2, <1>o DEF Placed
  <2>3. u.tmp # Null => u.slab[u.tmp].refcount = 1 /\ u.slab[u.tmp].next = Null
    BY <2>2, <1>p, <1>s
  <2>4. u.oldest # Null /\ u.newest # Null
    BY <1>p, <1>1, <1>a DEF Takes
  <2> QED BY <2>1, <2>3, <2>4, <1>p DEF Placed
<1>11. n # Null => t.slab[s].serial = t.slab[n].serial + 1
  <2>1. t.slab[s].serial = ns - 1
    BY <1>o DEF Fits
  <2>2. n # Null => t.slab[n].serial = ns - 1 - 1
    BY <1>o DEF Fits, One
  <2> QED BY <2>1, <2>2
<1>12. u.oldest = IF n = Null THEN s ELSE t.oldest
  BY <1>7, <1>p DEF Takes
<1>13. Ordered(u)
  <2>1. \A a \in Linked(t) : /\ a \in Addresses /\ a # s /\ n # Null /\ t.oldest # Null
                             /\ u.slab[a].serial = t.slab[a].serial
                             /\ t.slab[t.oldest].serial <= t.slab[a].serial
                             /\ t.slab[a].serial <= t.slab[n].serial
    BY <1>1, <1>7, <1>8, <1>a, <1>s, <1>o DEF Ordered
  <2>2. t.oldest # Null => t.oldest \in Linked(t)
    BY <1>o DEF Placed
  <2>3. u.slab[s].serial = t.slab[s].serial
    BY <1>1, <1>s
  <2>4. \A a \in Linked(u) : /\ u.slab[u.oldest].serial <= u.slab[a].serial
                             /\ u.slab[a].serial <= u.slab[u.newest].serial
    <3> SUFFICES ASSUME NEW a \in Linked(u)
                 PROVE  /\ u.slab[u.oldest].serial <= u.slab[a].serial
                        /\ u.slab[a].serial <= u.slab[u.newest].serial
      OBVIOUS
    <3>1. CASE n = Null
      BY <3>1, <1>1, <1>6, <1>8, <1>12, <1>p, <1>n, <2>3
    <3>2. CASE n # Null
      <4>1. /\ u.slab[u.oldest].serial = t.slab[t.oldest].serial
            /\ t.slab[t.oldest].serial \in Nat /\ t.slab[n].serial \in Nat
            /\ t.slab[t.oldest].serial <= t.slab[n].serial
        BY <3>2, <1>12, <1>7, <1>2, <1>n, <1>a, <2>1, <2>2
      <4>2. CASE a = s
        BY <4>1, <4>2, <3>2, <1>11, <1>p, <2>3
      <4>3. CASE a \in Linked(t)
        <5>1. t.slab[a].serial \in Nat
          BY <4>3, <1>a, <1>n
        <5> QED BY <4>1, <4>3, <5>1, <3>2, <1>11, <1>p, <2>1, <2>3
      <4> QED BY <4>2, <4>3, <1>6
    <3> QED BY <3>1, <3>2
  <2>5. ASSUME NEW a \in Linked(u)
        PROVE  /\ u.slab[a].data = u.slab[a].serial
               /\ IF a = u.newest THEN u.slab[a].next = Null
                  ELSE /\ u.slab[a].next \in Linked(u)
                       /\ u.slab[u.slab[a].next].serial = u.slab[a].serial + 1
    <3>1. CASE a = s
      <4>1. s # n
        BY <1>1, <1>2, <1>a
      <4> QED BY <3>1, <4>1, <1>1, <1>s, <1>p
    <3>2. CASE a \in Linked(t) /\ a = n
      BY <3>2, <1>1, <1>6, <1>11, <1>a, <1>s, <1>p, <1>o, <2>1, <2>3 DEF Ordered
    <3>3. CASE a \in Linked(t) /\ a # n
      <4>1. /\ t.slab[a].next \in Linked(t) /\ t.slab[a].data = t.slab[a].serial
            /\ t.slab[t.slab[a].next].serial = t.slab[a].serial + 1
        BY <3>3, <1>o DEF Ordered
      <4>2. a # s /\ a # u.newest /\ u.slab[a].next = t.slab[a].next
        BY <3>3, <1>s, <1>p, <1>a, <2>1
      <4> QED BY <3>3, <4>1, <4>2, <1>6, <1>s, <2>1
    <3> QED BY <3>1, <3>2, <3>3, <1>6
  <2>6. \A a, b \in Linked(u) : u.slab[a].serial = u.slab[b].serial => a = b
    <3>1. \A a \in Linked(t) : u.slab[a].serial # u.slab[s].serial
      BY <2>1, <2>3, <1>2, <1>11, <1>a, <1>n
    <3>2. \A a, b \in Linked(t) : u.slab[a].serial = u.slab[b].serial => a = b
      BY <2>1, <1>o DEF Ordered
    <3> QED BY <3>1, <3>2, <1>6
  <2>7. ASSUME NEW k \in u.slab[u.oldest].serial .. u.slab[u.newest].serial
        PROVE  \E a \in Linked(u) : u.slab[a].serial = k
    <3>1. CASE k = u.slab[s].serial
      BY <3>1, <1>6
    <3>2. CASE k # u.slab[s].serial
      <4>1. u.slab[u.newest].serial = t.slab[s].serial /\ t.slab[s].serial \in Nat
        BY <1>p, <1>1, <1>n, <2>3
      <4>2. n # Null
        BY <3>2, <4>1, <1>12, <1>p
      <4>3. /\ u.slab[u.oldest].serial = t.slab[t.oldest].serial
            /\ t.slab[t.oldest].serial \in Nat /\ t.slab[n].serial \in Nat
        BY <4>2, <1>12, <1>7, <1>2, <1>n, <1>a, <2>1, <2>2
      <4>4. k \in t.slab[t.oldest].serial .. t.slab[n].serial
        BY <3>2, <4>1, <4>2, <4>3, <1>11, <1>p, <2>7
      <4>5. PICK a \in Linked(t) : t.slab[a].serial = k
        BY <4>2, <4>4, <1>7, <1>o DEF Ordered
      <4> QED BY <4>5, <2>1, <1>6
    <3> QED BY <3>1, <3>2
  <2> QED BY <2>4, <2>5, <2>6, <2>7 DEF Ordered
<1>14. Referenced(u)
  <2> SUFFICES ASSUME NEW a \in Linked(u)
               PROVE  u.slab[a].refcount = RefsOf(u, a)
    BY DEF Referenced
  <2>d. /\ u.device = IF t.device = Null THEN s ELSE t.device
        /\ u.disk = IF t.disk = Null /\ config.cache = "disk" THEN s ELSE t.disk
        /\ u.mem = IF t.mem = Null /\ config.cache = "memory" THEN s ELSE t.mem
    BY <1>p DEF Takes
  <2>e. t.device # s /\ t.disk # s /\ t.mem # s /\ s # Null
    BY <1>1, <1>a, <1>o DEF Placed
  <2>1. CASE a = s
    <3>1. One(n # Null) + One(Takes(t, "oldest")) = 1
      BY <1>7 DEF One, Takes
    <3>2. /\ One(Takes(t, "disk")) = One(u.disk = s) /\ One(Takes(t, "mem")) = One(u.mem = s)
          /\ One(Takes(t, "device")) = One(u.device = s) /\ One(u.newest = s) = 1
      BY <2>d, <2>e, <1>p DEF One, Takes
    <3>3. u.slab[s].refcount = 2 + One(u.disk = s) + One(u.mem = s) + One(u.device = s)
      BY <3>1, <3>2, <1>5 DEF One
    <3> QED BY <2>1, <3>2, <3>3 DEF RefsOf, One
  <2>2. CASE a \in Linked(t)
    <3>0. a # s /\ a # Null /\ a \in Addresses
      BY <2>2, <1>1, <1>a
    <3>1. t.slab[a].refcount = RefsOf(t, a)
      BY <2>2, <1>o DEF Referenced
    <3>2. RefsOf(u, a) = RefsOf(t, a) - One(n = a)
      BY <3>0, <2>d, <1>p DEF RefsOf, One
    <3>3. u.slab[a].refcount = t.slab[a].refcount - One(n = a)
      BY <3>0, <1>4, <1>s, <1>n DEF One
    <3> QED BY <3>1, <3>2, <3>3
  <2> QED BY <2>1, <2>2, <1>6
<1>15. Fits(u, ns)
  <2>1. u.newest # Null /\ u.reader = Null /\ u.oldest # Null
    BY <1>p, <1>1, <1>a, <1>12, <1>7
  <2>2. u.slab[u.newest].serial = ns - 1
    BY <1>p, <1>s, <1>1, <1>o DEF Fits
  <2>3. TrainLength(t) \in Nat /\ max_slabs \in Nat /\ max_slabs >= 2
    BY LinkedSize, MaxSlabs
  <2>4. TrainLength(u) = TrainLength(t) + 1
    <3>1. TrainLength(u) = u.slab[u.newest].serial - u.slab[u.oldest].serial + 1
      BY <2>1 DEF TrainLength
    <3>2. CASE n = Null
      <4>1. TrainLength(t) = 0 /\ u.oldest = u.newest /\ u.newest \in Addresses
        BY <3>2, <1>7, <1>12, <1>p, <1>1 DEF TrainLength
      <4>2. u.slab[u.newest].serial \in Nat
        BY <4>1, <1>s, <1>n
      <4> QED BY <3>1, <4>1, <4>2
    <3>3. CASE n # Null
      <4>1. t.oldest \in Addresses /\ u.oldest = t.oldest
        BY <3>3, <1>7, <1>12, <1>a, <1>o DEF Placed
      <4>2. TrainLength(t) = t.slab[n].serial - t.slab[t.oldest].serial + 1
        BY <3>3, <1>7 DEF TrainLength
      <4>3. u.slab[u.newest].serial = t.slab[n].serial + 1
        BY <3>3, <1>11, <1>1, <1>p, <1>s
      <4>4. t.slab[n].serial \in Nat /\ t.slab[t.oldest].serial \in Nat
        BY <3>3, <4>1, <1>2, <1>a, <1>n
      <4>5. u.slab[u.oldest].serial = t.slab[t.oldest].serial
        BY <4>1, <1>s
      <4> QED BY <3>1, <4>2, <4>3, <4>4, <4>5
    <3> QED BY <3>2, <3>3
  <2>5. TrainLength(t) + 1 <= max_slabs
    BY <1>o DEF Fits, One
  <2>6. TrainLength(u) + One(u.reader # Null) <= max_slabs
    BY <2>1, <2>3, <2>4, <2>5 DEF One
  <2>7. u.mem # Null => config.cache = "memory"
    BY <1>p, <1>o DEF Takes, Fits
  <2>8. u.disk # Null => config.cache = "disk"
    BY <1>p, <1>o DEF Takes, Fits
  <2> QED BY <2>1, <2>2, <2>6, <2>7, <2>8 DEF Fits, One
<1>16. ASSUME NEW p \in {"device", "mem"}, t[p] = Null => Takes(t, p)
       PROVE  Position(u, ns, p) = Position(t, ns, p)
  <2>1. CASE t[p] = Null
    <3>1. u[p] = s /\ s # Null
      BY <1>16, <2>1, <1>p, <1>1, <1>a
    <3>2. u.slab[s].serial = ns - 1
      BY <1>s, <1>1, <1>o DEF Fits
    <3>3. Position(t, ns, p) = ns - 1
      BY <2>1 DEF Position, One
    <3> QED BY <3>1, <3>2, <3>3 DEF Position
  <2>2. CASE t[p] # Null
    <3>1. u[p] = t[p] /\ t[p] \in Addresses
      BY <2>2, <1>9, <1>a, <1>o DEF Placed
    <3> QED BY <2>2, <3>1, <1>s DEF Position
  <2> QED BY <2>1, <2>2
<1>17. Train(u, ns)
  BY <1>t, <1>10, <1>13, <1>14, <1>15 DEF Train
<1>18. Position(u, ns, "device") = Position(t, ns, "device")
  BY <1>16 DEF Takes
<1>19. config.cache = "memory" => Position(u, ns, "mem") = Position(t, ns, "mem")
  BY <1>16 DEF Takes
<1> QED BY <1>9, <1>17, <1>18, <1>19, <1>p

-----------------------------------------------------------------------------
(* What the invariant of the train says of the counts.                     *)

\* The pointers to a slab, one by one.
PointerCount(t, a) ==
    One(t.oldest = a) + One(t.newest = a) + One(t.device = a) + One(t.disk = a) + One(t.mem = a)
        + One(t.reader = a) + One(t.tmp = a)

LEMMA PointersCounted ==
  ASSUME NEW t, NEW a
  PROVE  Cardinality({p \in Pointers : t[p] = a}) = PointerCount(t, a)
<1> DEFINE K == {p \in Pointers : t[p] = a}
<1> DEFINE If(p) == IF t[p] = a THEN {p} ELSE {}
           A == {} \cup If("oldest")
           B == A \cup If("newest")
           C == B \cup If("device")
           D == C \cup If("disk")
           E == D \cup If("mem")
           F == E \cup If("reader")
           G == F \cup If("tmp")
<1>k. G = K
  BY DEF Pointers
<1>1. /\ "newest" \notin A /\ "device" \notin B /\ "disk" \notin C /\ "mem" \notin D
      /\ "reader" \notin E /\ "tmp" \notin F
  OBVIOUS
<1>2. IsFiniteSet(A) /\ Cardinality(A) = 0 + One(t["oldest"] = a)
  BY AddIf, FS_EmptySet
<1> HIDE DEF A
<1>3. IsFiniteSet(B) /\ Cardinality(B) = Cardinality(A) + One(t["newest"] = a)
  BY <1>1, <1>2, AddIf
<1> HIDE DEF B
<1>4. IsFiniteSet(C) /\ Cardinality(C) = Cardinality(B) + One(t["device"] = a)
  BY <1>1, <1>3, AddIf
<1> HIDE DEF C
<1>5. IsFiniteSet(D) /\ Cardinality(D) = Cardinality(C) + One(t["disk"] = a)
  BY <1>1, <1>4, AddIf
<1> HIDE DEF D
<1>6. IsFiniteSet(E) /\ Cardinality(E) = Cardinality(D) + One(t["mem"] = a)
  BY <1>1, <1>5, AddIf
<1> HIDE DEF E
<1>7. IsFiniteSet(F) /\ Cardinality(F) = Cardinality(E) + One(t["reader"] = a)
  BY <1>1, <1>6, AddIf
<1> HIDE DEF F
<1>8. IsFiniteSet(G) /\ Cardinality(G) = Cardinality(F) + One(t["tmp"] = a)
  BY <1>1, <1>7, AddIf
<1> HIDE DEF G
<1> QED BY <1>k, <1>2, <1>3, <1>4, <1>5, <1>6, <1>7, <1>8 DEF One, PointerCount

\* A slab of the train is the oldest one or has one before it; the others have none.
LEMMA PredecessorCounted ==
  ASSUME NEW t, NEW ns, Train(t, ns), NEW a \in InUse(t),
         NEW B, B = {b \in InUse(t) : t.slab[b].next = a}
  PROVE  Cardinality(B) = One(a \in Linked(t) /\ a # t.oldest)
<1>t. t \in TrainType
  BY DEF Train
<1>o. Placed(t) /\ Ordered(t)
  BY DEF Train
<1>a. Null \notin Addresses /\ Linked(t) \subseteq Addresses /\ a # Null
  BY CacherAssumption DEF Addresses, Null, Linked, InUse
<1>n. \A b \in Linked(t) : t.slab[b].serial \in Nat
  BY <1>t, <1>a, CacherAssumption DEF TrainType, SlabType
<1>1. \A b \in B : /\ b \in Linked(t) /\ a \in Linked(t)
                   /\ t.slab[a].serial = t.slab[b].serial + 1
  <2> SUFFICES ASSUME NEW b \in B
               PROVE  /\ b \in Linked(t) /\ a \in Linked(t)
                      /\ t.slab[a].serial = t.slab[b].serial + 1
    OBVIOUS
  <2>1. b \in InUse(t) /\ t.slab[b].next = a
    OBVIOUS
  <2>2. b # t.reader /\ b # t.tmp
    BY <2>1, <1>o, <1>a DEF Placed, InUse
  <2>3. b \in Linked(t)
    BY <2>1, <2>2 DEF Linked, InUse
  <2> QED BY <2>1, <2>3, <1>o, <1>a DEF Ordered
<1>2. CASE a \in Linked(t) /\ a # t.oldest
  <2>1. t.oldest # Null /\ t.oldest \in Linked(t) /\ t.newest \in Linked(t)
    BY <1>2, <1>o DEF Placed
  <2>2. /\ t.slab[t.oldest].serial <= t.slab[a].serial
        /\ t.slab[a].serial <= t.slab[t.newest].serial
        /\ t.slab[t.oldest].serial # t.slab[a].serial
    BY <1>2, <2>1, <1>o DEF Ordered
  <2>3. t.slab[a].serial - 1 \in t.slab[t.oldest].serial .. t.slab[t.newest].serial
    BY <1>2, <2>1, <2>2, <1>n
  <2>4. PICK b \in Linked(t) : t.slab[b].serial = t.slab[a].serial - 1
    BY <2>1, <2>3, <1>o DEF Ordered
  <2>5. b # t.newest
    BY <1>2, <2>1, <2>2, <2>4, <1>n
  <2>6. t.slab[b].next \in Linked(t) /\ t.slab[t.slab[b].next].serial = t.slab[a].serial
    BY <1>2, <2>4, <2>5, <1>n, <1>o DEF Ordered
  <2>7. t.slab[b].next = a
    BY <1>2, <2>6, <1>o DEF Ordered
  <2>8. b \in B
    BY <2>4, <2>7 DEF InUse, Linked
  <2>9. \A c \in B : c = b
    <3> SUFFICES ASSUME NEW c \in B
                 PROVE  c = b
      OBVIOUS
    <3>1. c \in Linked(t) /\ t.slab[c].serial = t.slab[b].serial
      BY <1>1, <1>2, <2>4, <1>n
    <3> QED BY <2>4, <3>1, <1>o DEF Ordered
  <2>10. B = {b}
    BY <2>8, <2>9
  <2> QED BY <1>2, <2>10, FS_Singleton DEF One
<1>3. CASE ~(a \in Linked(t) /\ a # t.oldest)
  <2>1. B = {}
    <3> SUFFICES ASSUME NEW b \in B
                 PROVE  FALSE
      OBVIOUS
    <3>1. a = t.oldest /\ b \in Linked(t) /\ a \in Linked(t)
      BY <1>1, <1>3
    <3>2. t.slab[a].serial <= t.slab[b].serial /\ t.slab[a].serial = t.slab[b].serial + 1
      BY <1>1, <3>1, <1>o DEF Ordered
    <3> QED BY <3>1, <3>2, <1>n
  <2> QED BY <1>3, <2>1, FS_EmptySet DEF One
<1> QED BY <1>2, <1>3

\* The counts are the numbers of pointers, and there are not too many slabs.
LEMMA TrainAccounted ==
  ASSUME NEW ns, Train(train, ns), config \in [cache : Caches, streaming : Streamings]
  PROVE  SlabsAccounted
<1> DEFINE t == train
<1>t. t \in TrainType
  BY DEF Train
<1>o. Placed(t) /\ Referenced(t) /\ Fits(t, ns)
  BY DEF Train
<1>1. ASSUME NEW a \in InUse(t)
      PROVE  t.slab[a].refcount = Cardinality({p \in Pointers : t[p] = a})
                                  + Cardinality({b \in InUse(t) : t.slab[b].next = a})
  <2>1. Cardinality({p \in Pointers : t[p] = a}) = PointerCount(t, a)
    BY PointersCounted
  <2>2. Cardinality({b \in InUse(t) : t.slab[b].next = a})
           = One(a \in Linked(t) /\ a # t.oldest)
    BY PredecessorCounted
  <2>a. a \in Addresses /\ a # Null
    BY CacherAssumption DEF InUse, Addresses, Null
  <2>3. CASE a \in Linked(t)
    <3>1. t.reader # a /\ t.tmp # a
      BY <2>3 DEF Linked
    <3>2. t.slab[a].refcount = 1 + One(t.newest = a) + One(t.device = a) + One(t.disk = a)
                                 + One(t.mem = a)
      BY <2>3, <1>o DEF Referenced, RefsOf
    <3>3. One(t.oldest = a) + One(a \in Linked(t) /\ a # t.oldest) = 1
      BY <2>3 DEF One
    <3> QED BY <2>1, <2>2, <3>1, <3>2, <3>3 DEF One, PointerCount
  <2>4. CASE a \notin Linked(t)
    <3>1. t.reader = a \/ t.tmp = a
      BY <2>4 DEF InUse, Linked
    <3>2. One(t.reader = a) + One(t.tmp = a) = 1
      BY <3>1, <2>a, <1>o DEF Placed, One
    <3>3. /\ t.oldest # a /\ t.newest # a /\ t.device # a /\ t.disk # a /\ t.mem # a
          /\ t.slab[a].refcount = 1
      BY <2>4, <2>a, <3>1, <1>o DEF Placed
    <3> QED BY <2>1, <2>2, <2>4, <3>2, <3>3 DEF One, PointerCount
  <2> QED BY <2>3, <2>4
<1>2. ASSUME NEW p \in {"device", "disk", "mem"}, t[p] # Null
      PROVE  t.slab[t[p]].refcount > 1
  <2>1. t[p] \in Linked(t)
    BY <1>2, <1>o DEF Placed
  <2>2. t.slab[t[p]].refcount = RefsOf(t, t[p])
    BY <2>1, <1>o DEF Referenced
  <2>3. RefsOf(t, t[p]) > 1
    BY DEF RefsOf, One
  <2> QED BY <2>2, <2>3
<1>3. Cardinality(InUse(t)) <= max_slabs + 1
  <2>1. TrainLength(t) \in Nat /\ max_slabs \in Nat
    BY LinkedSize, MaxSlabs
  <2>2. TrainLength(t) + One(t.reader # Null) <= max_slabs
    BY <1>o DEF Fits
  <2>3. /\ Cardinality(InUse(t)) \in Nat
        /\ Cardinality(InUse(t)) <= TrainLength(t) + One(t.reader # Null) + One(t.tmp # Null)
    BY InUseSize
  <2> QED BY <2>1, <2>2, <2>3 DEF One
<1>4. InUse(t) = {a \in Addresses : train.slab[a].refcount > 0}
  BY DEF InUse
<1> QED BY <1>1, <1>2, <1>3, <1>4 DEF SlabsAccounted

\* The types of the invariant are those of the property.
LEMMA InvTypes ==
  ASSUME CacherInv
  PROVE  CacherTypeOK
<1>t. train \in TrainType /\ Placed(train) /\ Referenced(train)
  BY DEF CacherInv, TrainInv, Train
<1>1. \A a \in Addresses : train.slab[a].refcount \in 0..7
  <2> SUFFICES ASSUME NEW a \in Addresses
               PROVE  train.slab[a].refcount \in 0..7
    OBVIOUS
  <2>1. train.slab[a].refcount \in Nat
    BY <1>t DEF TrainType, SlabType
  <2>2. CASE a \in Linked(train)
    BY <1>t, <2>1, <2>2, RefsType DEF Referenced
  <2>3. CASE a \notin Linked(train)
    <3>1. train.slab[a].refcount <= 1
      <4>1. CASE train.slab[a].refcount > 0
        <5>1. a = train.reader \/ a = train.tmp
          BY <2>3, <4>1 DEF Linked
        <5>2. a # Null
          BY CacherAssumption DEF Addresses, Null
        <5> QED BY <5>1, <5>2, <1>t DEF Placed
      <4> QED BY <4>1, <2>1
    <3> QED BY <2>1, <3>1
  <2> QED BY <2>2, <2>3
<1>2. train.slab \in [Addresses -> [refcount : 0..7, serial : 0..Slabs,
                                    next : 0..MaxSlabCount, data : -1..Slabs]]
  <2>1. train.slab \in [Addresses -> SlabType]
    BY <1>t DEF TrainType
  <2> QED BY <1>1, <2>1 DEF SlabType, Addr
<1>3. \A p \in Pointers : train[p] \in 0..MaxSlabCount
  BY <1>t DEF TrainType, Pointers, Addr
<1>4. train.waiting \subseteq {"device", "disk"}
  BY <1>t DEF TrainType
<1>5. /\ config \in [cache : Caches, streaming : Streamings]
      /\ state.waiting \subseteq {"device", "disk"}
      /\ dev.serial \in 0..(Slabs + 1) /\ dev.slab \in 0..MaxSlabCount
      /\ main \in {"loop", "slab_cond", "state_cond", "crashed"}
      /\ queue \in Seq(XMsg)
  BY DEF CacherInv, PartInv, PartTypes, StateType, DevType, Addr
<1>6. /\ reader \in [pc : {"alloc", "push", "stopped", "done"}, next_serial : 0..(Slabs + 1)]
      /\ disk.pc \in {"open", "slab", "current", "next", "write", "advance", "ended"}
  BY DEF CacherInv, TrainInv, ReaderAt, DiskAt
<1> QED BY <1>2, <1>3, <1>4, <1>5, <1>6 DEF CacherTypeOK

-----------------------------------------------------------------------------
(* Steps that leave most alone.                                            *)

FileType == [data : Seq(-1..Slabs), wpos : Nat, rpos : Nat]

\* The train depends on the cache alone of what is configured.
LEMMA TrainPrime ==
  ASSUME config'.cache = config.cache, Train(train', reader'.next_serial)
  PROVE  Train(train, reader.next_serial)'
<1>1. max_slabs' = max_slabs
  BY DEF max_slabs
<1>2. Fits(train, reader.next_serial)'
  BY <1>1 DEF Train, Fits, TrainLength
<1> QED BY <1>2 DEF Train, Placed, Ordered, Referenced, Linked, RefsOf

\* The threads that move data on, other than the device thread, see this of a step of hers.
LEMMA TrainFrame ==
  ASSUME TrainInv, config'.cache = config.cache, Train(train', reader.next_serial),
         train'.reader = train.reader, train.disk # Null => train'.disk # Null,
         UNCHANGED <<reader, disk>>, file' \in FileType
  PROVE  TrainInv'
<1>1. Train(train, reader.next_serial)'
  BY TrainPrime
<1>2. ReaderAt'
  BY DEF TrainInv, ReaderAt
<1>3. DiskAt'
  BY DEF TrainInv, DiskAt, FileType
<1> QED BY <1>1, <1>2, <1>3 DEF TrainInv

\* A message of cancellation, or none.
MayCancel == xfer_cancel \/ UNCHANGED <<asked, queue>>

\* Nothing about the parts is said in it, and a cancellation that comes still comes.
LEMMA MayCancelQueue ==
  ASSUME PartTypes, MayCancel, cancelled' = cancelled
  PROVE  /\ queue' \in Seq(XMsg) /\ asked' \in BOOLEAN
         /\ Dones' = Dones
         /\ \A i \in DOMAIN queue : i \in DOMAIN queue' /\ queue'[i] = queue[i]
         /\ CancelComes => CancelComes'
         /\ Doomed <=> Doomed'
         /\ xfer_cancel => CancelComes' \/ asked
<1>1. CASE UNCHANGED <<asked, queue>>
  <2>1. ~xfer_cancel \/ asked
    BY <1>1 DEF xfer_cancel, PartTypes
  <2> QED BY <1>1, <2>1 DEF PartTypes, Dones, CancelComes, Doomed
<1>2. CASE xfer_cancel /\ asked
  <2>1. queue' = queue /\ asked' = TRUE
    BY <1>2 DEF xfer_cancel
  <2> QED BY <1>2, <2>1 DEF PartTypes, Dones, CancelComes, Doomed
<1>3. CASE xfer_cancel /\ ~asked
  <2> DEFINE m == [type |-> "CANCEL"]
  <2>1. queue' = Append(queue, m) /\ asked' = TRUE
    BY <1>3 DEF xfer_cancel
  <2>2. m \in XMsg /\ m.type = "CANCEL"
    BY DEF XMsg
  <2>3. queue \in Seq(XMsg) /\ Len(queue) \in Nat
    BY DEF PartTypes
  <2> HIDE DEF m
  <2>4. queue' \in Seq(XMsg) /\ Len(queue') = Len(queue) + 1 /\ queue'[Len(queue) + 1] = m
        /\ \A i \in 1..Len(queue) : queue'[i] = queue[i]
    BY <2>1, <2>2, <2>3
  <2>5. DOMAIN queue = 1..Len(queue) /\ DOMAIN queue' = 1..(Len(queue) + 1)
    BY <2>3, <2>4
  <2>6. Dones' = Dones
    BY <2>2, <2>3, <2>4, <2>5 DEF Dones
  <2>7. CancelComes'
    BY <2>2, <2>3, <2>4, <2>5 DEF CancelComes
  <2>8. Doomed <=> Doomed'
    <3>1. \A i \in Dones : \A j \in 1..(i - 1) : queue'[j] = queue[j]
      BY <2>3, <2>4, <2>5 DEF Dones
    <3> QED BY <2>6, <3>1 DEF Doomed
  <2> QED BY <2>1, <2>4, <2>5, <2>6, <2>7, <2>8
<1> QED BY <1>1, <1>2, <1>3 DEF MayCancel

\* What the parts see of the train.
SameView ==
    /\ train'.tmp = train.tmp
    /\ train.device # Null => train'.device = train.device
    /\ Pos("device")' = Pos("device")
    /\ config.cache = "memory" => Pos("mem")' = Pos("mem")

StateKept ==
    /\ state' \in StateType
    /\ \A x \in {"paused", "retry_part", "successful", "no_more_parts", "first", "stop"} :
          state'[x] = state[x]

\* A step of neither the device thread nor the Scribe.
LEMMA OtherStep ==
  ASSUME PartInv, SameView, StateKept, MayCancel, UNCHANGED <<config, dev, scribe, cancelled>>,
         main' \in {"loop", "slab_cond", "state_cond"}
  PROVE  PartInv'
<1>0. PartTypes
  BY DEF PartInv
<1>1. /\ queue' \in Seq(XMsg) /\ asked' \in BOOLEAN
      /\ Dones' = Dones
      /\ \A i \in DOMAIN queue : i \in DOMAIN queue' /\ queue'[i] = queue[i]
      /\ CancelComes => CancelComes'
      /\ Doomed <=> Doomed'
      /\ xfer_cancel => CancelComes' \/ asked
  BY <1>0, MayCancelQueue
<1>s. /\ state'.paused = state.paused /\ state'.retry_part = state.retry_part
      /\ state'.successful = state.successful /\ state'.no_more_parts = state.no_more_parts
      /\ state'.first = state.first /\ state'.stop = state.stop
  BY DEF StateKept
<1>2. PartTypes'
  BY <1>0, <1>1 DEF PartTypes, StateKept
<1>3. Agreement'
  <2>1. \A i \in Dones : queue'[i] = queue[i]
    BY <1>1 DEF Dones
  <2> QED BY <1>1, <1>s, <2>1 DEF PartInv, Agreement, Waits
<1>4. Aligned'
  BY <1>1, <1>s DEF PartInv, Aligned, Underway, Fresh, SameView
<1>5. DeviceAt'
  BY <1>1, <1>s DEF PartInv, DeviceAt, SameView
<1>6. TmpFreed'
  <2>1. asked' => CancelComes'
    BY <1>1 DEF PartInv, TmpFreed, MayCancel
  <2> QED BY <1>1, <1>s, <2>1 DEF PartInv, TmpFreed, SameView
<1> QED BY <1>2, <1>3, <1>4, <1>5, <1>6 DEF PartInv

-----------------------------------------------------------------------------
(* The steps of the reader, the disk cache thread and cancel_impl.         *)

\* The train is as before a step but for who waits.
LEMMA WaitingStep ==
  ASSUME TrainInv, config' = config, reader'.next_serial = reader.next_serial,
         NEW t, Train(t, reader.next_serial), train' \in TrainType, train'.slab = t.slab,
         SamePointers(t, train', Pointers)
  PROVE  /\ Train(train, reader.next_serial)'
         /\ train'.reader = t.reader /\ train'.disk = t.disk /\ train'.tmp = t.tmp
         /\ train'.device = t.device
         /\ \A q \in {"device", "disk", "mem"} :
               Position(train', reader'.next_serial, q) = Position(t, reader.next_serial, q)
<1>1. /\ Train(train', reader.next_serial)
      /\ \A q \in {"device", "disk", "mem"} :
            Position(train', reader.next_serial, q) = Position(t, reader.next_serial, q)
  BY SameTrain
<1>2. Train(train, reader.next_serial)'
  BY <1>1, TrainPrime
<1> QED BY <1>1, <1>2 DEF SamePointers, Pointers

\* What a train t has in common with the state's, for the other threads.
Seen(t) ==
    /\ Train(t, reader.next_serial)
    /\ t.reader = Null /\ t.tmp = train.tmp
    /\ train.disk # Null => t.disk # Null
    /\ train.device # Null => t.device = train.device
    /\ Position(t, reader.next_serial, "device") = Pos("device")
    /\ config.cache = "memory" => Position(t, reader.next_serial, "mem") = Pos("mem")

\* push_buffer_impl gets the next slab, waits for it or gives up.
LEMMA ReaderGetsStep ==
  ASSUME CacherInv, NEW t, Seen(t), ReaderGets(t), reader.next_serial <= Slabs,
         UNCHANGED <<config, state, dev, disk, file, scribe, main, cancelled, part, tape>>
  PROVE  CacherInv'
<1> DEFINE ns == reader.next_serial
<1>n. ns \in 0..Slabs /\ ns \in Nat /\ reader \in [pc : {"alloc", "push", "stopped", "done"}, next_serial : 0..(Slabs + 1)]
  BY CacherAssumption DEF CacherInv, TrainInv, ReaderAt
<1>t. t \in TrainType /\ Train(t, ns)
  BY DEF Seen, Train
<1>c. config \in [cache : Caches, streaming : Streamings]
  BY DEF CacherInv, PartInv, PartTypes
<1>1. ASSUME train' \in TrainType, train'.slab = t.slab, SamePointers(t, train', Pointers),
             reader' \in {[reader EXCEPT !.pc = "alloc"], [reader EXCEPT !.pc = "stopped"]}
      PROVE  TrainInv' /\ SameView
  <2>r. /\ reader'.next_serial = ns /\ reader'.pc \in {"alloc", "stopped"}
        /\ reader' \in [pc : {"alloc", "push", "stopped", "done"}, next_serial : 0..(Slabs + 1)]
    BY <1>1, <1>n
  <2>1. /\ Train(train, reader.next_serial)'
        /\ train'.reader = t.reader /\ train'.disk = t.disk /\ train'.tmp = t.tmp
        /\ train'.device = t.device
        /\ \A q \in {"device", "disk", "mem"} :
               Position(train', reader'.next_serial, q) = Position(t, ns, q)
    BY <1>1, <1>t, <2>r, WaitingStep DEF CacherInv
  <2>2. ReaderAt'
    BY <2>r, <2>1 DEF ReaderAt, Seen
  <2>3. DiskAt'
    BY <2>1 DEF CacherInv, TrainInv, DiskAt, Seen
  <2>4. SameView
    <3>1. \A q \in {"device", "mem"} : Pos(q)' = Position(t, ns, q)
      BY <2>1 DEF Pos, Position
    <3> QED BY <2>1, <3>1 DEF SameView, Seen
  <2> QED BY <2>1, <2>2, <2>3, <2>4 DEF TrainInv
<1>2. TrainInv' /\ SameView
  <2>1. CASE ~cancelled /\ Throttled(t) /\ train' = [t EXCEPT !.starved = TRUE]
               /\ reader' = [reader EXCEPT !.pc = "alloc"]
    <3>1. train' \in TrainType /\ train'.slab = t.slab /\ SamePointers(t, train', Pointers)
      BY <2>1, <1>t DEF TrainType, SamePointers, Pointers
    <3> QED BY <2>1, <3>1, <1>1
  <2>2. CASE train' = t /\ reader' = [reader EXCEPT !.pc = "stopped"]
    <3>1. train' \in TrainType /\ train'.slab = t.slab /\ SamePointers(t, train', Pointers)
      BY <2>2, <1>t DEF SamePointers
    <3> QED BY <2>2, <3>1, <1>1
  <2>3. CASE /\ ~cancelled /\ ~Throttled(t)
             /\ train' = LET t1 == AllocSlab(t, "reader")
                         IN  [t1 EXCEPT !.slab[t1.reader].serial = reader.next_serial]
             /\ reader' = [pc |-> "push", next_serial |-> reader.next_serial + 1]
    <3>0. t.reader = Null /\ ~Throttled(t)
      BY <2>3 DEF Seen
    <3>1. ReaderHas(t, train', ns)
      <4>1. PICK v : v = AllocSlab(t, "reader")
        OBVIOUS
      <4>2. train' = [v EXCEPT !.slab[v.reader].serial = ns]
        BY <2>3, <4>1
      <4> HIDE DEF ns
      <4> QED BY <1>n, <1>t, <1>c, <3>0, <4>1, <4>2, ReaderTakes
    <3>r. ReaderTrain(t, train', ns)
      <4> HIDE DEF ns
      <4> QED BY <1>n, <1>t, <1>c, <3>0, <3>1, ReaderTaken
    <3>2. /\ Train(train', ns + 1)
          /\ train'.reader # Null /\ train'.tmp = t.tmp /\ train'.disk = t.disk
          /\ train'.device = t.device
          /\ \A q \in {"device", "disk", "mem"} : Position(train', ns + 1, q) = Position(t, ns, q)
      BY <3>r DEF ReaderTrain
    <3>3. reader'.next_serial = ns + 1 /\ reader'.pc = "push" /\ ns + 1 \in 0..(Slabs + 1)
      BY <2>3, <1>n, CacherAssumption
    <3>4. Train(train, reader.next_serial)'
      BY <3>2, <3>3, TrainPrime
    <3>5. ReaderAt'
      BY <2>3, <3>2, <3>3 DEF ReaderAt
    <3>6. DiskAt'
      BY <3>2 DEF CacherInv, TrainInv, DiskAt, Seen
    <3>8. SameView
      <4>1. \A q \in {"device", "mem"} : Pos(q)' = Position(t, ns, q)
        BY <3>2, <3>3 DEF Pos, Position
      <4> QED BY <3>2, <4>1 DEF SameView, Seen
    <3> QED BY <3>4, <3>5, <3>6, <3>8 DEF TrainInv
  <2> QED BY <2>1, <2>2, <2>3 DEF ReaderGets
<1>3. MayCancel
  BY DEF MayCancel, ReaderGets
<1>4. StateKept
  BY DEF StateKept, CacherInv, PartInv, PartTypes
<1>5. main' \in {"loop", "slab_cond", "state_cond"}
  BY DEF CacherInv, PartInv, PartTypes
<1>6. PartInv'
  BY <1>2, <1>3, <1>4, <1>5, OtherStep DEF CacherInv
<1> QED BY <1>2, <1>6 DEF CacherInv

\* The reader's train is seen by all while it has no slab.
LEMMA TrainSeen ==
  ASSUME CacherInv, train.reader = Null
  PROVE  Seen(train)
  BY DEF CacherInv, TrainInv, Seen, Pos

\* What push_buffer_impl has read is seen by all.
LEMMA PushSeen ==
  ASSUME CacherInv, train.reader # Null, NEW v,
         v = [train EXCEPT !.slab[train.reader].data = train.slab[train.reader].serial]
  PROVE  Seen(AddReaderSlab(v))
<1> DEFINE u == AddReaderSlab(v)
           ns == reader.next_serial
<1>1. ns \in Nat /\ Train(train, ns)
  BY CacherAssumption DEF CacherInv, TrainInv, ReaderAt
<1>2. Pushed(train, u, train.reader)
  BY <1>1, PushShape
<1>3. config \in [cache : Caches, streaming : Streamings]
  BY DEF CacherInv, PartInv, PartTypes
<1> HIDE DEF u
<1>4. /\ Train(u, ns)
      /\ u.reader = Null /\ u.tmp = train.tmp
      /\ train.disk # Null => u.disk # Null
      /\ train.device # Null => u.device = train.device
      /\ Position(u, ns, "device") = Position(train, ns, "device")
      /\ config.cache = "memory" => Position(u, ns, "mem") = Position(train, ns, "mem")
  BY <1>1, <1>2, <1>3, PushTrain
<1>5. Seen(u)
  BY <1>4 DEF Seen, Pos
<1> QED BY <1>5 DEF u

\* The thread upstream keeps the invariant.
LEMMA ReaderKeeps ==
  ASSUME CacherInv, ReaderStep
  PROVE  CacherInv'
<1>1. CASE ReaderAlloc
  <2>1. train.reader = Null /\ reader.next_serial <= Slabs
    BY <1>1 DEF ReaderAlloc, CacherInv, TrainInv, ReaderAt
  <2>2. Seen(train)
    BY <2>1, TrainSeen
  <2> QED BY <1>1, <2>1, <2>2, ReaderGetsStep DEF ReaderAlloc
<1>2. CASE ReaderPush
  <2> DEFINE n == train.slab[train.reader].serial
             v == [train EXCEPT !.slab[train.reader].data = n]
             t == AddReaderSlab(v)
             ns == reader.next_serial
  <2>1. /\ train.reader # Null /\ reader.pc = "push" /\ ns \in 0..(Slabs + 1)
        /\ reader \in [pc : {"alloc", "push", "stopped", "done"}, next_serial : 0..(Slabs + 1)]
    BY <1>2 DEF ReaderPush, CacherInv, TrainInv, ReaderAt
  <2>2. Seen(t)
    BY <2>1, PushSeen
  <2>3. n = ns - 1
    BY <2>1 DEF CacherInv, TrainInv, Train, Fits
  <2>u. UNCHANGED <<config, state, dev, disk, file, scribe, main, cancelled, part, tape>>
    BY <1>2 DEF ReaderPush
  <2>a. /\ StateKept /\ main' \in {"loop", "slab_cond", "state_cond"}
    BY <2>u DEF StateKept, CacherInv, PartInv, PartTypes
  <2>4. CASE cancelled
    <3>1. reader' = [reader EXCEPT !.pc = "stopped"] /\ UNCHANGED <<train, asked, queue, faults>>
      BY <1>2, <2>4 DEF ReaderPush
    <3>2. reader'.next_serial = ns /\ reader'.pc = "stopped"
          /\ reader' \in [pc : {"alloc", "push", "stopped", "done"}, next_serial : 0..(Slabs + 1)]
      BY <2>1, <3>1
    <3>3. Train(train, reader.next_serial)'
      BY <2>u, <3>1, <3>2, TrainPrime DEF CacherInv, TrainInv
    <3>4. ReaderAt' /\ DiskAt'
      BY <2>u, <3>1, <3>2 DEF ReaderAt, DiskAt, CacherInv, TrainInv
    <3>5. SameView
      BY <3>1, <3>2 DEF SameView, Pos, Position
    <3>6. PartInv'
      BY <2>u, <2>a, <3>1, <3>5, OtherStep DEF CacherInv, MayCancel
    <3> QED BY <3>3, <3>4, <3>6 DEF CacherInv, TrainInv
  <2>5. CASE ~cancelled /\ n = Short
    <3>1. train' = t /\ reader' = [reader EXCEPT !.pc = "done"] /\ UNCHANGED <<asked, queue, faults>>
      BY <1>2, <2>5 DEF ReaderPush
    <3>2. reader'.next_serial = ns /\ reader'.pc = "done"
          /\ reader' \in [pc : {"alloc", "push", "stopped", "done"}, next_serial : 0..(Slabs + 1)]
      BY <2>1, <3>1
    <3> HIDE DEF t
    <3>3. Train(train, reader.next_serial)'
      BY <2>2, <2>u, <3>1, <3>2, TrainPrime DEF Seen
    <3>4. ReaderAt'
      BY <3>2 DEF ReaderAt
    <3>5. DiskAt'
      BY <2>2, <2>u, <3>1 DEF DiskAt, CacherInv, TrainInv, Seen
    <3>6. SameView
      <4>1. \A q \in {"device", "mem"} : Pos(q)' = Position(t, ns, q)
        BY <3>1, <3>2 DEF Pos, Position
      <4> QED BY <2>2, <3>1, <4>1 DEF SameView, Seen
    <3>7. PartInv'
      BY <2>u, <2>a, <3>1, <3>6, OtherStep DEF CacherInv, MayCancel
    <3> QED BY <3>3, <3>4, <3>5, <3>7 DEF CacherInv, TrainInv
  <2>6. CASE ~cancelled /\ n # Short
    <3>1. ReaderGets(t)
      BY <1>2, <2>6 DEF ReaderPush
    <3>2. n \in 0..Slabs
      <4>1. train.reader \in Addresses /\ train \in TrainType
        BY <2>1, CacherAssumption
           DEF CacherInv, TrainInv, Train, TrainType, Addr, Addresses, Null
      <4> QED BY <4>1 DEF TrainType, SlabType
    <3>3. ns <= Slabs
      BY <2>1, <2>3, <2>6, <3>2, CacherAssumption DEF Short
    <3> HIDE DEF t
    <3> QED BY <2>2, <2>u, <3>1, <3>3, ReaderGetsStep
  <2> QED BY <2>4, <2>5, <2>6
<1> QED BY <1>1, <1>2 DEF ReaderStep

\* t is the train for all but the disk cache thread, which may have moved along it.
Beside(t) ==
    /\ Train(t, reader.next_serial)
    /\ SamePointers(train, t, Pointers \ {"disk"})
    /\ \A q \in {"device", "mem"} : Position(t, reader.next_serial, q) = Pos(q)

\* u is t but for who waits.
SameButWaiters(t, u) ==
    u \in TrainType /\ u.slab = t.slab /\ SamePointers(t, u, Pointers)

\* A step of the disk cache thread, or one that wakes.
LEMMA BesideStep ==
  ASSUME CacherInv, NEW t, Beside(t), SameButWaiters(t, train'), DiskAt', MayCancel, StateKept,
         UNCHANGED <<config, reader, dev, scribe, cancelled>>,
         main' \in {"loop", "slab_cond", "state_cond"}
  PROVE  CacherInv'
<1>1. /\ Train(train, reader.next_serial)'
      /\ train'.reader = t.reader /\ train'.disk = t.disk /\ train'.tmp = t.tmp
      /\ train'.device = t.device
      /\ \A q \in {"device", "disk", "mem"} :
            Position(train', reader'.next_serial, q) = Position(t, reader.next_serial, q)
  BY WaitingStep DEF CacherInv, Beside, SameButWaiters
<1>2. t.reader = train.reader /\ t.tmp = train.tmp /\ t.device = train.device
  BY DEF Beside, SamePointers, Pointers
<1>3. ReaderAt'
  BY <1>1, <1>2 DEF CacherInv, TrainInv, ReaderAt
<1>4. SameView
  <2>1. \A q \in {"device", "mem"} : Pos(q)' = Pos(q)
    BY <1>1 DEF Pos, Position, Beside
  <2> QED BY <1>1, <1>2, <2>1 DEF SameView
<1>5. PartInv'
  BY <1>4, OtherStep DEF CacherInv
<1> QED BY <1>1, <1>3, <1>5 DEF CacherInv, TrainInv

\* A train is beside itself, and the same when somebody waits.
LEMMA BesideSelf ==
  ASSUME CacherInv
  PROVE  /\ Beside(train)
         /\ \A W \in SUBSET {"device", "disk"}, b \in BOOLEAN :
               SameButWaiters(train, [train EXCEPT !.waiting = W, !.starved = b])
         /\ SameButWaiters(train, train)
<1>1. train \in TrainType
  BY DEF CacherInv, TrainInv, Train
<1>2. Beside(train)
  BY DEF Beside, SamePointers, Pos, CacherInv, TrainInv
<1>3. SameButWaiters(train, train)
  BY <1>1 DEF SameButWaiters, SamePointers
<1>4. \A W \in SUBSET {"device", "disk"}, b \in BOOLEAN :
         SameButWaiters(train, [train EXCEPT !.waiting = W, !.starved = b])
  BY <1>1 DEF SameButWaiters, SamePointers, TrainType, Pointers
<1> QED BY <1>2, <1>3, <1>4

\* The head of the inner loop of the disk cache thread.
LEMMA DiskFollowsStep ==
  ASSUME CacherInv, NEW t, Beside(t), DiskFollows(t),
         UNCHANGED <<config, state, reader, dev, file, scribe, main, cancelled, asked, queue>>
  PROVE  CacherInv'
<1>t. t \in TrainType
  BY DEF Beside, Train
<1>d. DOMAIN disk = {"pc", "stop"} /\ file \in FileType
  BY DEF CacherInv, TrainInv, DiskAt, FileType
<1>k. StateKept /\ MayCancel /\ main' \in {"loop", "slab_cond", "state_cond"}
  BY DEF StateKept, MayCancel, CacherInv, PartInv, PartTypes
<1>1. SameButWaiters(t, train') /\ train'.disk = t.disk
  <2>1. CASE train' = t
    BY <1>t, <2>1 DEF SameButWaiters, SamePointers
  <2>2. CASE train' = [t EXCEPT !.waiting = @ \cup {"disk"}]
    BY <1>t, <2>2 DEF SameButWaiters, SamePointers, TrainType, Pointers
  <2> QED BY <2>1, <2>2 DEF DiskFollows
<1>2. DiskAt'
  <2>1. CASE DiskEnds
    BY <1>d, <2>1 DEF DiskEnds, DiskAt, FileType
  <2>2. CASE disk' = [disk EXCEPT !.pc = "next"]
    BY <1>d, <2>2 DEF DiskAt, FileType
  <2>3. CASE disk' = [disk EXCEPT !.pc = "write"] /\ t.disk # Null
    BY <1>d, <1>1, <2>3 DEF DiskAt, FileType
  <2> QED BY <2>1, <2>2, <2>3 DEF DiskFollows
<1> QED BY <1>1, <1>2, <1>k, BesideStep

\* full_write makes the file longer or overwrites a piece of it.
LEMMA FileWritten ==
  ASSUME NEW T, NEW f \in Seq(T), NEW n \in Nat \ {0}, NEW d \in T
  PROVE  (IF n > Len(f) THEN Append(f, d) ELSE [f EXCEPT ![n] = d]) \in Seq(T)
<1>1. Append(f, d) \in Seq(T)
  OBVIOUS
<1>2. CASE n <= Len(f)
  <2>1. f \in [1..Len(f) -> T] /\ Len(f) \in Nat
    OBVIOUS
  <2>2. [f EXCEPT ![n] = d] \in [1..Len(f) -> T]
    BY <2>1
  <2>3. [f EXCEPT ![n] = d] \in Seq(T)
    BY <2>1, <2>2
  <2> QED BY <1>1, <2>3
<1>3. CASE n > Len(f)
  BY <1>1, <1>3
<1> QED BY <1>2, <1>3

\* The disk cache thread keeps the invariant.
LEMMA DiskKeeps ==
  ASSUME CacherInv, DiskStep
  PROVE  CacherInv'
<1>t. train \in TrainType
  BY DEF CacherInv, TrainInv, Train
<1>d. DiskAt /\ DOMAIN disk = {"pc", "stop"} /\ file \in FileType
  BY DEF CacherInv, TrainInv, DiskAt, FileType
<1>s. state \in StateType /\ main \in {"loop", "slab_cond", "state_cond"}
  BY DEF CacherInv, PartInv, PartTypes
<1>b. /\ Beside(train)
      /\ SameButWaiters(train, train)
  BY BesideSelf
<1>1. CASE DiskOpen
  <2>1. UNCHANGED <<config, train, reader, dev, file, scribe, main, cancelled>>
    BY <1>1 DEF DiskOpen
  <2>2. StateKept
    BY <1>1, <1>s DEF DiskOpen, StateKept, StateType
  <2>3. DiskAt'
    BY <1>1, <1>d, <2>1 DEF DiskOpen, DiskEnds, DiskAt
  <2>4. MayCancel
    BY <1>1 DEF DiskOpen, MayCancel
  <2> QED BY <1>b, <1>s, <2>1, <2>2, <2>3, <2>4, BesideStep
<1>2. CASE DiskSlab
  <2>1. UNCHANGED <<config, state, reader, dev, scribe, main, cancelled>>
    BY <1>2 DEF DiskSlab
  <2>2. StateKept
    BY <1>s, <2>1 DEF StateKept
  <2>3. SameButWaiters(train, train')
    <3>1. CASE train' = train
      BY <1>b, <3>1
    <3>2. CASE train' = [train EXCEPT !.waiting = @ \cup {"disk"}]
      BY <1>t, <3>2 DEF SameButWaiters, SamePointers, TrainType, Pointers
    <3> QED BY <1>2, <3>1, <3>2 DEF DiskSlab
  <2>4. file' \in FileType
    BY <1>2, <1>d DEF DiskSlab, FileType
  <2>5. DiskAt'
    <3>1. CASE DiskEnds
      BY <1>d, <2>4, <3>1 DEF DiskEnds, DiskAt, FileType
    <3>2. CASE disk' = disk /\ disk.pc = "slab"
      BY <1>d, <2>4, <3>2 DEF DiskAt, FileType
    <3>3. CASE disk' = [disk EXCEPT !.pc = "current"] /\ train.disk # Null /\ train' = train
      BY <1>d, <2>4, <3>3 DEF DiskAt, FileType
    <3> QED BY <1>2, <3>1, <3>2, <3>3 DEF DiskSlab
  <2>6. MayCancel
    BY <1>2 DEF DiskSlab, MayCancel
  <2> QED BY <1>b, <1>s, <2>1, <2>2, <2>3, <2>5, <2>6, BesideStep
<1>3. CASE DiskCurrent
  <2>1. UNCHANGED <<config, train, reader, dev, file, scribe, main, cancelled, asked, queue>>
    BY <1>3 DEF DiskCurrent
  <2>2. StateKept
    BY <1>3, <1>s DEF DiskCurrent, StateKept, StateType
  <2>3. DiskAt'
    <3>1. CASE DiskEnds
      BY <1>d, <2>1, <3>1 DEF DiskEnds, DiskAt
    <3>2. CASE disk' = disk
      BY <1>d, <2>1, <3>2 DEF DiskAt
    <3>3. CASE disk' = [pc |-> "next", stop |-> state.stop]
      BY <1>d, <2>1, <3>3 DEF DiskAt
    <3> QED BY <1>3, <3>1, <3>2, <3>3 DEF DiskCurrent
  <2>4. MayCancel
    BY <2>1 DEF MayCancel
  <2> QED BY <1>b, <1>s, <2>1, <2>2, <2>3, <2>4, BesideStep
<1>4. CASE DiskNext
  BY <1>4, <1>b, DiskFollowsStep DEF DiskNext
<1>5. CASE DiskWrite
  <2>1. UNCHANGED <<config, train, state, reader, dev, scribe, main, cancelled>>
    BY <1>5 DEF DiskWrite
  <2>2. StateKept
    BY <1>s, <2>1 DEF StateKept
  <2>3. MayCancel
    BY <1>5 DEF DiskWrite, MayCancel
  <2>4. CASE DiskEnds /\ UNCHANGED file
    <3>1. DiskAt'
      BY <1>d, <2>1, <2>4 DEF DiskEnds, DiskAt
    <3> QED BY <1>b, <1>s, <2>1, <2>2, <2>3, <3>1, BesideStep
  <2>5. CASE ~(DiskEnds /\ UNCHANGED file)
    <3> DEFINE n == file.wpos + 1
               d == train.slab[train.disk].data
               data == IF n > Len(file.data) THEN Append(file.data, d)
                       ELSE [file.data EXCEPT ![n] = d]
    <3>1. file' = [file EXCEPT !.wpos = n, !.data = data]
          /\ disk' = [disk EXCEPT !.pc = "advance"] /\ disk.pc = "write"
      BY <1>5, <1>d, <2>5 DEF DiskWrite, FileType
    <3>2. train.disk # Null /\ train.disk \in Addr
      BY <1>d, <1>t, <3>1 DEF DiskAt, TrainType
    <3>3. train.disk \in Addresses
      BY <3>2, CacherAssumption DEF Addr, Addresses, Null
    <3>4. d \in -1..Slabs
      BY <1>t, <3>3 DEF TrainType, SlabType
    <3> HIDE DEF d
    <3>5. file.data \in Seq(-1..Slabs) /\ n \in Nat /\ n >= 1
      BY <1>d DEF FileType
    <3> HIDE DEF n
    <3>6. data \in Seq(-1..Slabs)
      <4>1. n \in Nat \ {0}
        BY <3>5
      <4>2. PICK T : T = -1..Slabs
        OBVIOUS
      <4>3. file.data \in Seq(T) /\ d \in T
        BY <3>4, <3>5, <4>2
      <4>4. data \in Seq(T)
        BY <4>1, <4>3, FileWritten
      <4> QED BY <4>2, <4>4
    <3> HIDE DEF data
    <3>7. file' \in FileType
      BY <1>d, <3>1, <3>5, <3>6 DEF FileType
    <3>8. DiskAt'
      BY <1>d, <2>1, <3>1, <3>2, <3>7 DEF DiskAt, FileType
    <3> QED BY <1>b, <1>s, <2>1, <2>2, <2>3, <3>8, BesideStep
  <2> QED BY <2>4, <2>5
<1>6. CASE DiskAdvance
  <2>1. UNCHANGED <<config, state, reader, dev, file, scribe, main, cancelled, asked, queue>>
    BY <1>6 DEF DiskAdvance
  <2>2. train.disk # Null
    BY <1>6, <1>d DEF DiskAdvance, DiskAt
  <2>3. PICK t : t = NextSlab(train, "disk")
    OBVIOUS
  <2>4. Beside(t)
    <3>1. reader.next_serial \in Nat /\ Train(train, reader.next_serial)
      BY CacherAssumption DEF CacherInv, TrainInv, ReaderAt
    <3>2. StillTrain(train, t, reader.next_serial, "disk", train.slab[train.disk].next)
      BY <2>2, <2>3, <3>1, NextSlabTrain
    <3> QED BY <3>2 DEF StillTrain, Beside, Pos
  <2>5. \/ DiskFollows(t)
        \/ train' = t /\ (DiskEnds \/ disk' = [disk EXCEPT !.pc = "slab"])
    BY <1>6, <2>3 DEF DiskAdvance
  <2>6. CASE DiskFollows(t)
    BY <2>1, <2>4, <2>6, DiskFollowsStep
  <2>7. CASE train' = t /\ (DiskEnds \/ disk' = [disk EXCEPT !.pc = "slab"])
    <3>1. StateKept /\ MayCancel
      BY <1>s, <2>1 DEF StateKept, MayCancel
    <3>2. DiskAt'
      BY <1>d, <2>1, <2>7 DEF DiskEnds, DiskAt
    <3>3. SameButWaiters(t, train')
      BY <2>4, <2>7 DEF SameButWaiters, SamePointers, Beside, Train
    <3> QED BY <1>s, <2>1, <2>4, <3>1, <3>2, <3>3, BesideStep
  <2> QED BY <2>5, <2>6, <2>7
<1> QED BY <1>1, <1>2, <1>3, <1>4, <1>5, <1>6 DEF DiskStep

-----------------------------------------------------------------------------
(* The steps of the main thread.                                           *)

\* The broadcasts of cancel_impl and a cancellation that is asked for.
LEMMA CancelImplKeeps ==
  ASSUME CacherInv, CancelSlab \/ CancelState \/ AskCancel
  PROVE  CacherInv'
<1>t. train \in TrainType
  BY DEF CacherInv, TrainInv, Train
<1>s. state \in StateType /\ main \in {"loop", "slab_cond", "state_cond"}
  BY DEF CacherInv, PartInv, PartTypes
<1>b. Beside(train) /\ SameButWaiters(train, train)
  BY BesideSelf
<1>1. UNCHANGED <<config, reader, dev, disk, file, scribe, cancelled>>
  BY DEF CancelSlab, CancelState, AskCancel
<1>2. StateKept
  BY <1>s DEF CancelSlab, CancelState, AskCancel, StateKept, StateType
<1>3. MayCancel
  BY DEF CancelSlab, CancelState, AskCancel, MayCancel
<1>4. SameButWaiters(train, train') /\ train'.disk = train.disk
  <2>1. CASE train' = train
    BY <1>b, <2>1
  <2>2. CASE train' = [train EXCEPT !.waiting = {}, !.starved = FALSE]
    BY <1>t, <2>2 DEF SameButWaiters, SamePointers, TrainType, Pointers
  <2> QED BY <2>1, <2>2 DEF CancelSlab, CancelState, AskCancel
<1>5. DiskAt'
  BY <1>1, <1>4 DEF CacherInv, TrainInv, DiskAt
<1>6. main' \in {"loop", "slab_cond", "state_cond"}
  BY <1>s DEF CancelSlab, CancelState, AskCancel
<1> QED BY <1>b, <1>1, <1>2, <1>3, <1>4, <1>5, <1>6, BesideStep

\* The messages behind the first one move up.
LEMMA QueueShift ==
  ASSUME PartTypes, queue # <<>>, queue' = Tail(queue)
  PROVE  /\ queue' \in Seq(XMsg)
         /\ \A i \in DOMAIN queue' : i + 1 \in DOMAIN queue /\ queue'[i] = queue[i + 1]
         /\ \A i \in DOMAIN queue \ {1} : i - 1 \in DOMAIN queue'
         /\ DOMAIN queue' \subseteq Nat \ {0}
         /\ DOMAIN queue \subseteq Nat \ {0}
         /\ 1 \in DOMAIN queue /\ queue[1] = Head(queue)
         /\ \A i \in Dones' : i + 1 \in Dones
<1>1. queue \in Seq(XMsg) /\ Len(queue) \in Nat /\ Len(queue) > 0
  BY DEF PartTypes
<1>2. /\ queue' \in Seq(XMsg) /\ Len(queue') = Len(queue) - 1
      /\ \A i \in 1..(Len(queue) - 1) : queue'[i] = queue[i + 1]
  BY <1>1
<1>3. DOMAIN queue = 1..Len(queue) /\ DOMAIN queue' = 1..(Len(queue) - 1)
  BY <1>1, <1>2
<1>4. queue[1] = Head(queue)
  BY <1>1
<1>5. \A i \in DOMAIN queue' : i + 1 \in DOMAIN queue /\ queue'[i] = queue[i + 1]
  BY <1>1, <1>2, <1>3
<1>6. \A i \in Dones' : i + 1 \in Dones
  BY <1>5 DEF Dones
<1> QED BY <1>1, <1>2, <1>3, <1>4, <1>5, <1>6

\* The train is the same in a step of the main thread.
LEMMA MainTrain ==
  ASSUME CacherInv, config'.cache = config.cache, UNCHANGED <<train, reader, disk, file>>
  PROVE  /\ TrainInv'
         /\ \A p \in {"device", "mem"} : Pos(p)' = Pos(p)
<1>1. file' \in FileType
  BY DEF CacherInv, TrainInv, DiskAt, FileType
<1>2. TrainInv'
  BY <1>1, TrainFrame DEF CacherInv, TrainInv
<1>3. \A p \in {"device", "mem"} : Pos(p)' = Pos(p)
  BY DEF Pos, Position
<1> QED BY <1>2, <1>3

\* XMSG_CANCEL is handled.
LEMMA CancelKeeps ==
  ASSUME CacherInv, Cancel
  PROVE  CacherInv'
<1>0. /\ PartTypes /\ queue # <<>> /\ queue' = Tail(queue) /\ cancelled' = TRUE
      /\ main' = "slab_cond"
      /\ UNCHANGED <<config, train, state, reader, dev, disk, file, scribe, asked>>
  BY DEF Cancel, CacherInv, PartInv
<1>1. /\ queue' \in Seq(XMsg)
      /\ \A i \in DOMAIN queue' : i + 1 \in DOMAIN queue /\ queue'[i] = queue[i + 1]
      /\ DOMAIN queue' \subseteq Nat \ {0}
      /\ \A i \in Dones' : i + 1 \in Dones
  BY <1>0, QueueShift
<1>2. TrainInv' /\ \A p \in {"device", "mem"} : Pos(p)' = Pos(p)
  BY <1>0, MainTrain
<1>3. PartTypes'
  BY <1>0, <1>1 DEF PartTypes
<1>4. Doomed' /\ CancelComes'
  BY <1>0 DEF Doomed, CancelComes
<1>5. Dones' \subseteq Nat \ {0}
  BY <1>1 DEF Dones
<1>6. Agreement'
  <2>1. Agreement
    BY DEF CacherInv, PartInv
  <2>2. Dones = {} => Dones' = {}
    BY <1>1
  <2>3. \A i \in Dones' : queue'[i] = queue[i + 1]
    BY <1>1 DEF Dones
  <2>4. \A i \in Dones' : queue'[i].eof => dev'.pc \in {"join", "ended"}
    BY <1>0, <1>1, <2>1, <2>3 DEF Agreement
  <2>5. (\A i \in Dones : ~queue[i].eof => Waits(queue[i].successful))'
    BY <1>0, <1>1, <2>1, <2>3 DEF Agreement, Waits
  <2>6. \A i \in Dones' : ~queue'[i].eof => \A j \in Dones' : i = j
    <3> SUFFICES ASSUME NEW i \in Dones', ~queue'[i].eof, NEW j \in Dones'
                 PROVE  i = j
      OBVIOUS
    <3>1. i + 1 \in Dones /\ j + 1 \in Dones /\ ~queue[i + 1].eof
      BY <1>1, <2>3
    <3>2. i + 1 = j + 1
      BY <2>1, <3>1 DEF Agreement
    <3>3. i \in Nat /\ j \in Nat
      BY <1>5
    <3> QED BY <3>2, <3>3
  <2> QED BY <1>0, <2>1, <2>2, <2>4, <2>5, <2>6 DEF Agreement, Waits
<1>7. Aligned'
  BY <1>0, <1>2, <1>4 DEF CacherInv, PartInv, Aligned, Underway, Fresh
<1>8. DeviceAt'
  BY <1>0, <1>2, <1>4 DEF CacherInv, PartInv, DeviceAt
<1>9. TmpFreed'
  BY <1>0, <1>4 DEF CacherInv, PartInv, TmpFreed
<1> QED BY <1>2, <1>3, <1>6, <1>7, <1>8, <1>9 DEF CacherInv, PartInv

\* start_part_impl is called while the element waits and no message is left about a part:
\* its assertions hold, and the invariant after it.
LEMMA StartPartKeeps ==
  ASSUME CacherInv, NEW r \in BOOLEAN, Waits(~r), Doomed => cancelled, StartPart(r),
         UNCHANGED <<train, reader, dev, disk, file, cancelled>>,
         config' \in [cache : {config.cache}, streaming : Streamings],
         scribe' \in [pc : {"running"}, successful : BOOLEAN],
         queue' \in Seq(XMsg), Dones' = {}, asked' \in BOOLEAN, asked' => CancelComes'
  PROVE  CacherInv'
<1>0. PartTypes /\ Agreement /\ Aligned /\ DeviceAt /\ TmpFreed
  BY DEF CacherInv, PartInv
<1>s. state \in StateType /\ main \in {"loop", "slab_cond", "state_cond"}
      /\ state.stop \in Nat /\ state.first \in Nat /\ state.successful \in BOOLEAN
  BY <1>0 DEF PartTypes, StateType
<1>w. state.paused /\ ~state.no_more_parts /\ state.successful = ~r
  BY DEF Waits
<1>1. /\ state' = [state EXCEPT !.retry_part = r,
                                !.first = IF r THEN @ ELSE state.stop,
                                !.stop = IF r THEN @ ELSE @ + SlabsPerPart,
                                !.paused = FALSE,
                                !.waiting = {}]
      /\ main' = main
  BY <1>w DEF StartPart
<1> DEFINE f == IF r THEN state.first ELSE state.stop
           p == IF r THEN state.stop ELSE state.stop + SlabsPerPart
<1>2. f \in Nat /\ p \in Nat
  BY <1>s, CacherAssumption
<1>3. state' = [state EXCEPT !.retry_part = r, !.first = f, !.stop = p, !.paused = FALSE,
                             !.waiting = {}]
  BY <1>1, <1>s DEF StateType
<1> HIDE DEF f, p
<1>4. /\ state' \in StateType
      /\ state'.retry_part = r /\ state'.first = f /\ state'.stop = p /\ ~state'.paused
      /\ state'.no_more_parts = state.no_more_parts /\ state'.successful = state.successful
  BY <1>s, <1>2, <1>3 DEF StateType
<1>5. TrainInv' /\ \A q \in {"device", "mem"} : Pos(q)' = Pos(q)
  BY MainTrain
<1>6. PartTypes'
  <2>1. config' \in [cache : Caches, streaming : Streamings]
    BY <1>0 DEF PartTypes
  <2> QED BY <1>0, <1>1, <1>4, <2>1 DEF PartTypes
<1>7. dev.pc \notin Working
  BY <1>0, <1>w DEF Agreement
<1>8. Agreement'
  BY <1>0, <1>4, <1>7 DEF Agreement
<1>9. Doomed' <=> cancelled
  BY DEF Doomed
<1>10. dev.pc \in {"paused", "join", "ended"}
  BY <1>0, <1>7 DEF PartTypes, DevType
<1>11. f < p
  <2>1. CASE r
    BY <1>0, <1>s, <1>w, <2>1 DEF Aligned, f, p
  <2>2. CASE ~r
    BY <1>s, <2>2, CacherAssumption DEF f, p
  <2> QED BY <2>1, <2>2
<1>12. ASSUME dev.pc = "paused", ~cancelled
       PROVE  /\ f <= Pos("device") /\ Pos("device") <= p
              /\ config.cache = "memory" => Pos("mem") = f
              /\ ~r => Pos("device") = f
              /\ f <= Slabs
  <2>0. Underway
    BY <1>12 DEF Underway
  <2>1. CASE r
    <3>1. ~Fresh
      BY <1>w, <2>1 DEF Fresh
    <3> QED BY <1>0, <1>12, <2>0, <2>1, <3>1 DEF Aligned, f, p
  <2>2. CASE ~r
    <3>1. Fresh
      BY <1>12, <1>w, <2>2 DEF Fresh
    <3> QED BY <1>0, <1>s, <2>0, <2>2, <3>1, CacherAssumption DEF Aligned, f, p
  <2> QED BY <2>1, <2>2
<1>13. Aligned'
  <2>1. ~Fresh'
    BY <1>4 DEF Fresh
  <2>2. Underway' => dev.pc = "paused" /\ ~cancelled
    BY <1>7, <1>9 DEF Underway
  <2>3. f <= Slabs \/ cancelled
    <3>1. CASE dev.pc \in {"join", "ended"}
      BY <1>0, <1>w, <3>1 DEF Agreement
    <3> QED BY <1>10, <1>12, <3>1
  <2>4. config'.cache = config.cache
    OBVIOUS
  <2> QED BY <1>4, <1>5, <1>11, <1>12, <2>1, <2>2, <2>3, <2>4 DEF Aligned
<1>14. DeviceAt'
  BY <1>10 DEF DeviceAt, Writing
<1>15. TmpFreed'
  <2>1. dev.pc = "paused" /\ train.tmp # Null => cancelled
    BY <1>0 DEF TmpFreed
  <2>2. config'.cache = "memory" => train'.tmp = Null
    BY <1>0 DEF TmpFreed
  <2> QED BY <1>9, <1>10, <2>1, <2>2 DEF TmpFreed, Setting
<1> QED BY <1>5, <1>6, <1>8, <1>13, <1>14, <1>15 DEF CacherInv, PartInv

\* A message about a part is handled: a cancellation that comes still comes, and in time.
LEMMA HeadDoneQueue ==
  ASSUME PartTypes, queue # <<>>, queue' = Tail(queue), Head(queue).type = "PART_DONE",
         cancelled' = cancelled
  PROVE  /\ 1 \in Dones /\ queue[1] = Head(queue)
         /\ Head(queue) \in [type : {"PART_DONE"}, successful : BOOLEAN, eof : BOOLEAN]
         /\ Head(queue).successful \in BOOLEAN
         /\ Dones' \subseteq Nat \ {0}
         /\ \A i \in Dones' : i + 1 \in Dones
         /\ CancelComes => CancelComes'
         /\ Doomed => Doomed'
<1> DEFINE msg == Head(queue)
<1>1. /\ queue' \in Seq(XMsg)
      /\ \A i \in DOMAIN queue' : i + 1 \in DOMAIN queue /\ queue'[i] = queue[i + 1]
      /\ \A i \in DOMAIN queue \ {1} : i - 1 \in DOMAIN queue'
      /\ DOMAIN queue' \subseteq Nat \ {0}
      /\ DOMAIN queue \subseteq Nat \ {0}
      /\ 1 \in DOMAIN queue /\ queue[1] = msg
      /\ \A i \in Dones' : i + 1 \in Dones
  BY QueueShift
<1>2. msg \in [type : {"PART_DONE"}, successful : BOOLEAN, eof : BOOLEAN]
  <2>1. queue[1] \in XMsg
    BY <1>1 DEF PartTypes
  <2> QED BY <1>1, <2>1 DEF XMsg
<1> HIDE DEF msg
<1>3. 1 \in Dones
  BY <1>1, <1>2 DEF Dones
<1>4. Dones' \subseteq Nat \ {0} /\ Dones \subseteq Nat \ {0}
  BY <1>1 DEF Dones
<1>5. CancelComes => CancelComes'
  <2> SUFFICES ASSUME NEW j \in DOMAIN queue, queue[j].type = "CANCEL"
               PROVE  CancelComes'
    BY DEF CancelComes
  <2>1. j # 1
    BY <1>1, <1>2
  <2>2. j \in Nat /\ j - 1 \in DOMAIN queue'
    BY <1>1, <2>1
  <2>3. queue'[j - 1] = queue[j - 1 + 1] /\ j - 1 + 1 = j
    BY <1>1, <2>2
  <2> QED BY <2>2, <2>3 DEF CancelComes
<1>6. Doomed => Doomed'
  <2>1. CASE cancelled
    BY <2>1 DEF Doomed
  <2>2. CASE ~cancelled /\ Doomed
    <3>1. PICK i \in Dones : \E j \in 1..(i - 1) : queue[j].type = "CANCEL"
      BY <2>2 DEF Doomed
    <3>2. PICK j \in 1..(i - 1) : queue[j].type = "CANCEL"
      BY <3>1
    <3>3. i \in Nat /\ i \in DOMAIN queue /\ j \in Nat /\ j # 1 /\ i # 1
          /\ queue[i].type = "PART_DONE"
      BY <1>1, <1>2, <1>4, <3>2 DEF Dones
    <3>4. i - 1 \in DOMAIN queue' /\ queue'[i - 1] = queue[i - 1 + 1] /\ i - 1 + 1 = i
      BY <1>1, <3>3
    <3>5. j \in DOMAIN queue
      <4>1. DOMAIN queue = 1..Len(queue) /\ Len(queue) \in Nat
        BY DEF PartTypes
      <4> QED BY <3>2, <3>3, <4>1
    <3>6. j - 1 \in DOMAIN queue' /\ queue'[j - 1] = queue[j - 1 + 1] /\ j - 1 + 1 = j
      BY <1>1, <3>3, <3>5
    <3>7. i - 1 \in Dones' /\ j - 1 \in 1..(i - 1 - 1) /\ queue'[j - 1].type = "CANCEL"
      BY <3>2, <3>3, <3>4, <3>6 DEF Dones
    <3> QED BY <3>7 DEF Doomed
  <2> QED BY <2>1, <2>2
<1>7. msg.successful \in BOOLEAN
  BY <1>2
<1> QED BY <1>1, <1>2, <1>3, <1>4, <1>5, <1>6, <1>7 DEF msg

\* The Scribe handles XMSG_PART_DONE: it asks for a volume, starts a part or is done.
LEMMA ScribePartDoneKeeps ==
  ASSUME CacherInv, ScribePartDone
  PROVE  CacherInv'
<1> DEFINE msg == Head(queue)
<1>0. /\ PartTypes /\ queue # <<>> /\ queue' = Tail(queue) /\ msg.type = "PART_DONE"
      /\ UNCHANGED <<config, train, reader, dev, disk, file, cancelled, asked>>
      /\ scribe' = [pc |-> IF ~msg.eof /\ ~msg.successful THEN "volume" ELSE "running",
                    successful |-> msg.successful]
      /\ IF ~msg.eof /\ msg.successful THEN StartPart(FALSE) ELSE UNCHANGED <<state, main>>
  BY DEF ScribePartDone, CacherInv, PartInv
<1>i. Agreement /\ Aligned /\ DeviceAt /\ TmpFreed
  BY DEF CacherInv, PartInv
<1>1. /\ queue' \in Seq(XMsg)
      /\ \A i \in DOMAIN queue' : i + 1 \in DOMAIN queue /\ queue'[i] = queue[i + 1]
      /\ queue[1] = msg
      /\ \A i \in Dones' : i + 1 \in Dones
  BY <1>0, QueueShift
<1>d. /\ 1 \in Dones /\ Dones' \subseteq Nat \ {0}
      /\ msg \in [type : {"PART_DONE"}, successful : BOOLEAN, eof : BOOLEAN]
      /\ CancelComes => CancelComes'
      /\ Doomed => Doomed'
  BY <1>0, HeadDoneQueue
<1>2. msg \in [type : {"PART_DONE"}, successful : BOOLEAN, eof : BOOLEAN]
  BY <1>d
<1> HIDE DEF msg
<1>3. 1 \in Dones
  BY <1>d
<1>4. Dones' \subseteq Nat \ {0}
  BY <1>d
<1>5. CancelComes => CancelComes'
  BY <1>d
<1>6. asked' => CancelComes'
  BY <1>0, <1>5, <1>i DEF TmpFreed
<1>7. scribe' \in [pc : {"volume", "running"}, successful : BOOLEAN]
  BY <1>0, <1>2
<1>8. ASSUME ~msg.eof
      PROVE  Dones = {1} /\ Dones' = {} /\ Waits(msg.successful)
  <2>1. Waits(msg.successful) /\ \A j \in Dones : 1 = j
    BY <1>1, <1>3, <1>8, <1>i DEF Agreement
  <2>2. Dones = {1}
    BY <1>3, <2>1
  <2>3. Dones' = {}
    <3> SUFFICES ASSUME NEW i \in Dones' PROVE FALSE
      OBVIOUS
    <3>1. i + 1 \in Dones /\ i \in Nat \ {0}
      BY <1>1, <1>4
    <3> QED BY <2>2, <3>1
  <2> QED BY <2>1, <2>2, <2>3
<1>9. CASE ~msg.eof /\ msg.successful
  <2>1. StartPart(FALSE) /\ scribe' \in [pc : {"running"}, successful : BOOLEAN]
    BY <1>0, <1>2, <1>9
  <2>2. Waits(~FALSE)
    BY <1>8, <1>9 DEF Waits
  <2>3. Doomed => cancelled
    <3>1. ~ \E j \in 1..(1 - 1) : queue[j].type = "CANCEL"
      OBVIOUS
    <3>2. Dones = {1}
      BY <1>8, <1>9
    <3> QED BY ONLY <3>1, <3>2, Zenon DEF Doomed
  <2>4. config' \in [cache : {config.cache}, streaming : Streamings]
    <3>1. config \in [cache : Caches, streaming : Streamings]
      BY <1>0 DEF PartTypes
    <3>2. config \in [cache : {config.cache}, streaming : Streamings]
      BY <3>1
    <3> QED BY <1>0, <3>2
  <2>5. asked' \in BOOLEAN
    BY <1>0 DEF PartTypes
  <2> QED BY <1>0, <1>1, <1>6, <1>8, <1>9, <2>1, <2>2, <2>3, <2>4, <2>5, StartPartKeeps
<1>10. CASE ~(~msg.eof /\ msg.successful)
  <2>1. UNCHANGED <<state, main>>
    BY <1>0, <1>10
  <2>2. TrainInv' /\ \A q \in {"device", "mem"} : Pos(q)' = Pos(q)
    BY <1>0, MainTrain
  <2>3. PartTypes'
    BY <1>0, <1>1, <1>7, <2>1 DEF PartTypes
  <2>4. Doomed => Doomed'
    BY <1>d
  <2>5. Agreement'
    <3>1. (scribe.pc = "volume" => Waits(scribe.successful) /\ Dones = {})'
      <4>1. CASE ~msg.eof
        BY <1>0, <1>8, <2>1, <4>1 DEF Waits
      <4>2. CASE msg.eof
        BY <1>0, <4>2
      <4> QED BY <4>1, <4>2
    <3>2. (\A i \in Dones : queue[i].eof => dev.pc \in {"join", "ended"})'
      BY <1>0, <1>1, <1>i DEF Agreement, Dones
    <3>3. (\A i \in Dones : ~queue[i].eof => Waits(queue[i].successful))'
      BY <1>0, <1>1, <1>i, <2>1 DEF Agreement, Waits, Dones
    <3>4. \A i \in Dones' : ~queue'[i].eof => \A j \in Dones' : i = j
      <4> SUFFICES ASSUME NEW i \in Dones', ~queue'[i].eof, NEW j \in Dones'
                   PROVE  i = j
        OBVIOUS
      <4>1. i + 1 \in Dones /\ j + 1 \in Dones /\ ~queue[i + 1].eof
        BY <1>1 DEF Dones
      <4>2. i + 1 = j + 1
        BY <1>i, <4>1 DEF Agreement
      <4>3. i \in Nat /\ j \in Nat
        BY <1>4
      <4> QED BY <4>2, <4>3
    <3> QED BY <1>0, <1>i, <2>1, <3>1, <3>2, <3>3, <3>4 DEF Agreement
  <2>6. Aligned'
    BY <1>0, <1>i, <2>1, <2>2, <2>4 DEF Aligned, Underway, Fresh
  <2>7. DeviceAt'
    BY <1>0, <1>5, <1>i, <2>1, <2>2 DEF DeviceAt
  <2>8. TmpFreed'
    BY <1>0, <1>5, <1>6, <1>i, <2>1, <2>4 DEF TmpFreed
  <2> QED BY <2>2, <2>3, <2>5, <2>6, <2>7, <2>8 DEF CacherInv, PartInv
<1> QED BY <1>9, <1>10

\* The Scribe has a volume and starts a part, or has none and cancels.
LEMMA ScribeVolumeKeeps ==
  ASSUME CacherInv, ScribeVolume
  PROVE  CacherInv'
<1>0. /\ PartTypes /\ scribe.pc = "volume" /\ scribe' = [scribe EXCEPT !.pc = "running"]
      /\ UNCHANGED <<train, reader, dev, disk, file, cancelled>> /\ MayCancel
  BY DEF ScribeVolume, CacherInv, PartInv, MayCancel
<1>i. Agreement /\ Aligned /\ DeviceAt /\ TmpFreed
  BY DEF CacherInv, PartInv
<1>1. /\ queue' \in Seq(XMsg) /\ asked' \in BOOLEAN
      /\ Dones' = Dones
      /\ CancelComes => CancelComes'
      /\ Doomed <=> Doomed'
      /\ xfer_cancel => CancelComes' \/ asked
  BY <1>0, MayCancelQueue
<1>2. asked' => CancelComes'
  BY <1>0, <1>1, <1>i DEF TmpFreed, MayCancel
<1>3. Waits(scribe.successful) /\ Dones = {}
  BY <1>0, <1>i DEF Agreement
<1>4. scribe' \in [pc : {"running"}, successful : BOOLEAN] /\ scribe.successful \in BOOLEAN
  BY <1>0 DEF PartTypes
<1>5. CASE (\E s \in Streamings : config' = [config EXCEPT !.streaming = s])
           /\ StartPart(~scribe.successful)
  <2>1. config' \in [cache : {config.cache}, streaming : Streamings]
    BY <1>0, <1>5 DEF PartTypes
  <2>2. Waits(~~scribe.successful)
    BY <1>3, <1>4 DEF Waits
  <2>3. Doomed => cancelled
    BY <1>3 DEF Doomed
  <2>4. PICK r \in BOOLEAN : r = ~scribe.successful
    BY <1>4
  <2> QED BY <1>0, <1>1, <1>2, <1>3, <1>4, <1>5, <2>1, <2>2, <2>3, <2>4, StartPartKeeps
<1>6. CASE UNCHANGED <<config, state, main>>
  <2>1. TrainInv' /\ \A q \in {"device", "mem"} : Pos(q)' = Pos(q)
    BY <1>0, <1>6, MainTrain
  <2>2. PartTypes'
    BY <1>0, <1>1, <1>4, <1>6 DEF PartTypes
  <2>3. Agreement'
    BY <1>0, <1>1, <1>3, <1>4, <1>6, <1>i DEF Agreement
  <2>4. Aligned'
    BY <1>0, <1>1, <1>6, <1>i, <2>1 DEF Aligned, Underway, Fresh
  <2>5. DeviceAt'
    BY <1>0, <1>1, <1>6, <1>i, <2>1 DEF DeviceAt
  <2>6. TmpFreed'
    BY <1>0, <1>1, <1>2, <1>6, <1>i DEF TmpFreed
  <2> QED BY <2>1, <2>2, <2>3, <2>4, <2>5, <2>6 DEF CacherInv, PartInv
<1> QED BY <1>5, <1>6 DEF ScribeVolume

-----------------------------------------------------------------------------
(* The steps of the device thread.                                         *)

\* Nothing is said about a part while one is written.
LEMMA WorkingQuiet ==
  ASSUME PartInv, dev.pc \in Working \/ (dev.pc = "paused" /\ ~state.paused)
  PROVE  Dones = {} /\ scribe.pc = "running" /\ ~state.paused /\ (Doomed <=> cancelled)
<1>1. Agreement /\ scribe.pc \in {"volume", "running"}
  BY DEF PartInv, PartTypes
<1>2. ~state.paused /\ dev.pc \notin {"join", "ended"}
  BY <1>1 DEF Agreement, Working, Setting, Writing
<1>3. Dones = {}
  BY <1>1, <1>2 DEF Agreement, Waits
<1>4. scribe.pc = "running"
  BY <1>1, <1>2 DEF Agreement, Waits
<1> QED BY <1>2, <1>3, <1>4 DEF Doomed

\* What the serials of the slabs are, and that no pointer is ahead of the reader.
LEMMA PositionBound ==
  ASSUME NEW t, NEW ns \in Nat, Train(t, ns), NEW p \in {"device", "disk", "mem"}
  PROVE  /\ Position(t, ns, p) \in Int /\ ns - One(t.reader # Null) \in Int
         /\ Position(t, ns, p) <= ns - One(t.reader # Null)
         /\ t[p] # Null => /\ t[p] \in Linked(t) /\ t[p] \in Addresses
                           /\ Position(t, ns, p) = t.slab[t[p]].serial
                           /\ Position(t, ns, p) < ns - One(t.reader # Null)
                           /\ Position(t, ns, p) \in 0..Slabs
                           /\ t.slab[t[p]].data = t.slab[t[p]].serial
<1>t. t \in TrainType /\ Placed(t) /\ Ordered(t) /\ Fits(t, ns)
  BY DEF Train
<1>o. One(t.reader # Null) \in {0, 1}
  BY DEF One
<1>1. CASE t[p] = Null
  BY <1>1, <1>o DEF Position
<1>2. CASE t[p] # Null
  <2>1. t[p] \in Linked(t) /\ t[p] \in Addresses
    BY <1>t, <1>2 DEF Placed, Linked
  <2>2. t.newest # Null /\ t.newest \in Linked(t) /\ t.newest \in Addresses
    BY <1>t, <2>1 DEF Placed, Linked
  <2>3. t.slab[t[p]].serial \in 0..Slabs /\ t.slab[t.newest].serial \in 0..Slabs
    BY <1>t, <2>1, <2>2 DEF TrainType, SlabType
  <2>4. t.slab[t[p]].serial <= t.slab[t.newest].serial /\ t.slab[t[p]].data = t.slab[t[p]].serial
    BY <1>t, <2>1 DEF Ordered
  <2>5. t.slab[t.newest].serial = ns - 1 - One(t.reader # Null)
    BY <1>t, <2>2 DEF Fits
  <2>6. Position(t, ns, p) = t.slab[t[p]].serial
    BY <1>2 DEF Position
  <2> QED BY <1>o, <2>1, <2>3, <2>4, <2>5, <2>6
<1> QED BY <1>1, <1>2

\* u is a train after a step of the device thread.
DeviceTrain(u) ==
    /\ Train(u, reader.next_serial)
    /\ u.reader = train.reader /\ u.disk = train.disk
    /\ state.first <= Position(u, reader.next_serial, "device")
    /\ Position(u, reader.next_serial, "device") <= state.stop
    /\ config.cache = "memory" =>
          Position(u, reader.next_serial, "mem") = Pos("mem") /\ u.tmp = Null

\* A step of the device thread inside device_thread_write_part leaves these alone.
PartKept ==
    /\ UNCHANGED <<config, reader, disk, scribe, main, cancelled>>
    /\ MayCancel
    /\ file' \in FileType
    /\ state' \in StateType
    /\ \A x \in {"paused", "retry_part", "first", "stop"} : state'[x] = state[x]
    /\ ~state'.successful

\* Such a step keeps the invariant if the thread is where it should be.
LEMMA WritePartStep ==
  ASSUME CacherInv, PartKept, DeviceTrain(train'), dev.pc \in Working \ {"start"},
         dev' \in DevType, dev'.pc \in Working \ Setting, DeviceAt',
         dev'.pc \in {"fd", "prebuffer"} => state.retry_part \/ train'.tmp = Null,
         dev'.pc = "done" /\ ~dev'.set /\ train'.tmp # Null => CancelComes'
  PROVE  CacherInv'
<1>0. PartTypes /\ Agreement /\ Aligned /\ DeviceAt /\ TmpFreed
  BY DEF CacherInv, PartInv
<1>s. /\ state'.paused = state.paused /\ state'.retry_part = state.retry_part
      /\ state'.first = state.first /\ state'.stop = state.stop
      /\ state' \in StateType /\ ~state'.successful
  BY DEF PartKept
<1>q. Dones = {} /\ scribe.pc = "running" /\ ~state.paused
  BY WorkingQuiet DEF CacherInv, PartInv
<1>u. UNCHANGED <<config, reader, disk, scribe, main, cancelled>> /\ file' \in FileType
  BY DEF PartKept
<1>1. /\ queue' \in Seq(XMsg) /\ asked' \in BOOLEAN
      /\ Dones' = Dones
      /\ CancelComes => CancelComes'
      /\ xfer_cancel => CancelComes' \/ asked
  BY <1>0, <1>u, MayCancelQueue DEF PartKept
<1>2. TrainInv'
  BY <1>u, TrainFrame DEF CacherInv, DeviceTrain
<1>3. PartTypes'
  BY <1>0, <1>1, <1>s, <1>u DEF PartTypes
<1>d. dev'.pc \in Working /\ dev'.pc \notin {"join", "ended", "paused"} /\ dev'.pc \notin Setting
  BY DEF Working, Setting, Writing
<1>4. Agreement'
  BY <1>1, <1>d, <1>q, <1>s, <1>u DEF Agreement
<1>5. Aligned'
  <2>1. /\ state.first <= Pos("device")' /\ Pos("device")' <= state.stop
        /\ config.cache = "memory" => Pos("mem")' = Pos("mem")
    BY <1>u DEF DeviceTrain, Pos, Position
  <2>2. ~Fresh /\ ~Fresh' /\ Underway
    BY <1>d, <1>q DEF Fresh, Underway
  <2>3. config.cache = "memory" => Pos("mem") = state.first
    BY <1>0, <2>2 DEF Aligned
  <2>4. state.first < state.stop /\ (state.first <= Slabs \/ cancelled)
    BY <1>0, <1>q DEF Aligned
  <2> QED BY <1>d, <1>s, <1>u, <2>1, <2>2, <2>3, <2>4 DEF Aligned
<1>6. TmpFreed'
  <2>1. asked' => CancelComes'
    BY <1>0, <1>1 DEF TmpFreed, PartKept, MayCancel
  <2>2. config'.cache = "memory" => train'.tmp = Null
    BY <1>u DEF DeviceTrain
  <2> QED BY <1>d, <1>s, <2>1, <2>2 DEF TmpFreed
<1> QED BY <1>2, <1>3, <1>4, <1>5, <1>6 DEF CacherInv, PartInv

\* The part is given up.  If the slab source is not freed, or the failure not reported, the
\* transfer is being cancelled.
LEMMA GiveUpKeeps ==
  ASSUME CacherInv, NEW m \in BOOLEAN, NEW f \in BOOLEAN, GiveUp(m, f),
         UNCHANGED <<config, reader, disk, scribe, main, cancelled>>, MayCancel, file' \in FileType,
         DeviceTrain(train'), dev.pc \in Working \ {"start"},
         CancelComes' \/ (f /\ dev.set)
  PROVE  CacherInv'
<1>s. state \in StateType /\ dev \in DevType
  BY DEF CacherInv, PartInv, PartTypes
<1>1. PartKept
  BY <1>s DEF PartKept, GiveUp, StateType
<1>2. dev' \in DevType /\ dev'.pc = "done" /\ dev'.failed = f /\ dev'.set = dev.set
  BY <1>s DEF GiveUp, DevType, Working
<1>3. DeviceAt'
  BY <1>2 DEF DeviceAt, Writing
<1>4. dev'.pc \in Working \ Setting
  BY <1>2 DEF Working, Setting
<1> QED BY <1>1, <1>2, <1>3, <1>4, WritePartStep

\* A cancellation comes if the transfer is cancelled, or now asked for.
LEMMA CancelWillCome ==
  ASSUME CacherInv, cancelled' = cancelled, MayCancel, cancelled \/ xfer_cancel
  PROVE  CancelComes'
<1>1. PartTypes /\ TmpFreed
  BY DEF CacherInv, PartInv
<1>2. /\ CancelComes => CancelComes'
      /\ xfer_cancel => CancelComes' \/ asked
  BY <1>1, MayCancelQueue
<1>3. asked => CancelComes
  BY <1>1 DEF TmpFreed
<1>4. cancelled => CancelComes
  BY DEF CancelComes
<1> QED BY <1>2, <1>3, <1>4

\* While a part is written the train is one.
LEMMA WorkingTrain ==
  ASSUME CacherInv, dev.pc \in Working
  PROVE  DeviceTrain(train)
<1>1. Underway
  BY DEF Underway
<1> QED BY <1>1 DEF CacherInv, TrainInv, PartInv, Aligned, TmpFreed, DeviceTrain, Pos

\* The device thread waits.
LEMMA DeviceWaitsKeeps ==
  ASSUME CacherInv, dev' = dev, SameButWaiters(train, train'), StateKept,
         UNCHANGED <<config, reader, disk, file, scribe, main, cancelled, asked, queue>>
  PROVE  CacherInv'
<1>1. DiskAt'
  <2>1. train'.disk = train.disk
    BY DEF SameButWaiters, SamePointers, Pointers
  <2> QED BY <2>1 DEF CacherInv, TrainInv, DiskAt
<1>2. MayCancel /\ main' \in {"loop", "slab_cond", "state_cond"}
  BY DEF MayCancel, CacherInv, PartInv, PartTypes
<1>3. Beside(train)
  BY BesideSelf
<1> QED BY <1>1, <1>2, <1>3, BesideStep

\* The head of the loop over the parts, and its end.
LEMMA DevicePausedKeeps ==
  ASSUME CacherInv, DevicePaused
  PROVE  CacherInv'
<1>0. PartTypes /\ Agreement /\ Aligned /\ DeviceAt /\ TmpFreed
  BY DEF CacherInv, PartInv
<1>s. state \in StateType /\ dev \in DevType
  BY <1>0 DEF PartTypes
<1>u. /\ UNCHANGED <<config, train, reader, disk, file, scribe, main, cancelled, asked, queue>>
      /\ dev.pc = "paused"
  BY DEF DevicePaused
<1>1. CASE state' = [state EXCEPT !.waiting = @ \cup {"device"}] /\ dev' = dev
  <2>1. StateKept
    BY <1>1, <1>s DEF StateKept, StateType
  <2> QED BY <1>1, <1>u, <2>1, BesideSelf, DeviceWaitsKeeps
<1>2. TrainInv' /\ (\A q \in {"device", "mem"} : Pos(q)' = Pos(q))
  BY <1>u, MainTrain
<1>3. CASE cancelled /\ dev' = DevAt("join") /\ UNCHANGED state
  <2>1. dev' \in DevType /\ dev'.pc = "join"
    BY <1>3, <1>s DEF DevAt, DevType
  <2>2. PartTypes'
    BY <1>0, <1>3, <1>u, <2>1 DEF PartTypes
  <2>3. Dones' = Dones
    BY <1>u DEF Dones
  <2>4. Agreement'
    BY <1>0, <1>3, <1>u, <2>1, <2>3 DEF Agreement, Waits, Working, Setting, Writing
  <2>5. Aligned'
    BY <1>0, <1>3, <1>u, <2>1 DEF Aligned, Underway, Working, Setting, Writing
  <2>6. DeviceAt'
    BY <2>1 DEF DeviceAt, Writing
  <2>7. TmpFreed'
    BY <1>0, <1>u, <2>1 DEF TmpFreed, Setting, CancelComes
  <2> QED BY <1>2, <2>2, <2>4, <2>5, <2>6, <2>7 DEF CacherInv, PartInv
<1>4. CASE ~cancelled /\ ~state.paused /\ dev' = DevAt("start") /\ UNCHANGED state
  <2>q. Dones = {} /\ scribe.pc = "running" /\ ~state.paused /\ (Doomed <=> cancelled)
    BY <1>4, <1>u, WorkingQuiet DEF CacherInv
  <2>1. dev' \in DevType /\ dev'.pc = "start"
    BY <1>4, <1>s DEF DevAt, DevType, Working, Setting
  <2>2. PartTypes'
    BY <1>0, <1>4, <1>u, <2>1 DEF PartTypes
  <2>3. Dones' = Dones
    BY <1>u DEF Dones
  <2>4. Agreement'
    BY <1>4, <1>u, <2>1, <2>3, <2>q DEF Agreement
  <2>5. Aligned'
    <3>1. Underway /\ ~Fresh /\ ~Fresh'
      BY <1>4, <1>u, <2>q DEF Underway, Fresh
    <3> QED BY <1>0, <1>2, <1>4, <1>u, <2>1, <3>1 DEF Aligned
  <2>6. DeviceAt'
    <3>1. state.first <= Slabs
      BY <1>0, <1>4 DEF Aligned
    <3> QED BY <1>4, <2>1, <3>1 DEF DeviceAt, Writing
  <2>7. TmpFreed'
    <3>1. train.tmp = Null
      BY <1>0, <1>4, <1>u, <2>q DEF TmpFreed
    <3> QED BY <1>0, <1>u, <2>1, <3>1 DEF TmpFreed, CancelComes
  <2> QED BY <1>2, <2>2, <2>4, <2>5, <2>6, <2>7 DEF CacherInv, PartInv
<1> QED BY <1>1, <1>3, <1>4 DEF DevicePaused

LEMMA DeviceJoinKeeps ==
  ASSUME CacherInv, DeviceJoin
  PROVE  CacherInv'
<1>0. PartTypes /\ Agreement /\ Aligned /\ DeviceAt /\ TmpFreed
  BY DEF CacherInv, PartInv
<1>u. /\ UNCHANGED <<config, train, state, reader, disk, file, scribe, main, cancelled, asked, queue>>
      /\ dev.pc = "join" /\ dev' = DevAt("ended")
  BY DEF DeviceJoin
<1>1. dev' \in DevType /\ dev'.pc = "ended"
  BY <1>0, <1>u DEF DevAt, DevType, PartTypes
<1>2. TrainInv'
  BY <1>u, MainTrain
<1>3. PartTypes'
  BY <1>0, <1>u, <1>1 DEF PartTypes
<1>4. Dones' = Dones
  BY <1>u DEF Dones
<1>5. Agreement'
  BY <1>0, <1>u, <1>1, <1>4 DEF Agreement, Waits, Working, Setting, Writing
<1>6. Aligned'
  BY <1>0, <1>u, <1>1 DEF Aligned, Underway, Working, Setting, Writing
<1>7. DeviceAt'
  BY <1>1 DEF DeviceAt, Writing
<1>8. TmpFreed'
  BY <1>0, <1>u, <1>1 DEF TmpFreed, Setting, CancelComes
<1> QED BY <1>2, <1>3, <1>5, <1>6, <1>7, <1>8 DEF CacherInv, PartInv

\* device_thread_write_part begins: the part is not successful yet.
LEMMA DeviceStartKeeps ==
  ASSUME CacherInv, DeviceStart
  PROVE  CacherInv'
<1>0. PartTypes /\ Agreement /\ Aligned /\ DeviceAt /\ TmpFreed
  BY DEF CacherInv, PartInv
<1>s. state \in StateType /\ state.first \in Nat /\ state.stop \in Nat
  BY <1>0 DEF PartTypes, StateType
<1>u. /\ UNCHANGED <<config, train, reader, disk, file, scribe, main, cancelled, asked, queue>>
      /\ dev.pc = "start" /\ state' = [state EXCEPT !.successful = FALSE]
  BY DEF DeviceStart
<1>p. dev.pc \in Working /\ dev.pc \in Setting
  BY <1>u DEF Working, Setting
<1>q. Dones = {} /\ scribe.pc = "running" /\ ~state.paused /\ (Doomed <=> cancelled)
  BY <1>p, WorkingQuiet DEF CacherInv
<1>1. PICK ok \in BOOLEAN :
         dev' = [pc |-> IF ok THEN "setup" ELSE "done", serial |-> state.first,
                 slab |-> Null, eof |-> FALSE, set |-> FALSE, failed |-> ~ok]
  BY DEF DeviceStart
<1>2. /\ state' \in StateType /\ ~state'.successful
      /\ \A x \in {"paused", "retry_part", "no_more_parts", "first", "stop"} : state'[x] = state[x]
  BY <1>s, <1>u DEF StateType
<1>a. /\ state'.paused = state.paused /\ state'.retry_part = state.retry_part
      /\ state'.first = state.first /\ state'.stop = state.stop
  BY <1>2
<1>3. state.first <= Slabs /\ state.first < state.stop
  BY <1>0, <1>q, <1>u DEF DeviceAt, Aligned
<1>4. dev' \in DevType
  BY <1>1, <1>3, <1>s, CacherAssumption DEF DevType, Working, Setting, Addr, Null
<1>5. TrainInv' /\ (\A q \in {"device", "mem"} : Pos(q)' = Pos(q))
  BY <1>u, MainTrain
<1>6. PartTypes'
  BY <1>0, <1>2, <1>4, <1>u DEF PartTypes
<1>7. Dones' = Dones
  BY <1>u DEF Dones
<1>8. dev'.pc \in {"setup", "done"} /\ dev'.serial = state.first /\ ~dev'.set
      /\ (dev'.pc = "done" => dev'.failed)
  BY <1>1
<1>9. Agreement'
  BY <1>2, <1>7, <1>8, <1>q, <1>u DEF Agreement, Working
<1>10. Aligned'
  <2>1. Underway /\ ~Fresh /\ ~Fresh'
    BY <1>8, <1>p, <1>u DEF Underway, Fresh
  <2>2. dev'.pc \in Setting \cup {"paused"} => dev.pc \in Setting
    BY <1>p
  <2> QED BY <1>0, <1>3, <1>5, <1>a, <1>q, <1>u, <2>1, <2>2 DEF Aligned
<1>11. DeviceAt'
  BY <1>3, <1>8, <1>a DEF DeviceAt, Writing
<1>12. TmpFreed'
  BY <1>0, <1>8, <1>p, <1>u DEF TmpFreed, CancelComes
<1> QED BY <1>5, <1>6, <1>9, <1>10, <1>11, <1>12 DEF CacherInv, PartInv

\* slab_source_setup has found where the device begins.
LEMMA SetUpKeeps ==
  ASSUME CacherInv, dev.pc \in {"setup", "fd"}, dev' = SetUp, DeviceTrain(train'),
         dev.serial <= Position(train', reader.next_serial, "device"),
         train'.tmp = Null => dev.serial = Position(train', reader.next_serial, "device"),
         state.retry_part \/ train'.tmp = Null,
         UNCHANGED <<config, state, reader, disk, scribe, main, cancelled, asked, queue>>,
         file' \in FileType
  PROVE  CacherInv'
<1>0. PartTypes /\ Agreement /\ DeviceAt
  BY DEF CacherInv, PartInv
<1>w. dev.pc \in Working \ {"start"}
  BY DEF Working, Setting
<1>1. PartKept
  BY <1>0, <1>w DEF PartKept, MayCancel, PartTypes, Agreement
<1>2. /\ dev' \in DevType /\ dev'.pc \in {"get", "prebuffer"} /\ dev'.serial = dev.serial
      /\ dev'.pc = "get" => dev'.set
      /\ dev'.pc = "prebuffer" => dev'.set = dev.set
  BY <1>0 DEF SetUp, DevAt, PartTypes, DevType, Working, Writing
<1>3. /\ dev.serial = state.first /\ ~dev.set /\ dev.serial <= Slabs /\ dev.serial < state.stop
  BY <1>0 DEF DeviceAt
<1>4. Pos("device")' = Position(train', reader.next_serial, "device")
  BY DEF Pos, Position
<1>5. DeviceAt'
  BY <1>2, <1>3, <1>4 DEF DeviceAt, Writing
<1>6. dev'.pc \in Working \ Setting
  BY <1>2 DEF Working, Writing, Setting
<1> QED BY <1>1, <1>2, <1>5, <1>6, <1>w, WritePartStep

\* The wait for the disk cache to be open.
LEMMA DeviceFdKeeps ==
  ASSUME CacherInv, DeviceFd
  PROVE  CacherInv'
<1>0. PartTypes /\ DeviceAt /\ TmpFreed
  BY DEF CacherInv, PartInv
<1>s. state \in StateType
  BY <1>0 DEF PartTypes
<1>u. UNCHANGED <<config, train, reader, disk, scribe, main, cancelled>> /\ dev.pc = "fd"
  BY DEF DeviceFd
<1>w. dev.pc \in Working \ {"start"}
  BY <1>u DEF Working
<1>t. DeviceTrain(train')
  BY <1>u, <1>w, WorkingTrain
<1>f. file \in FileType
  BY DEF CacherInv, TrainInv, DiskAt, FileType
<1>1. CASE (cancelled \/ xfer_cancel) /\ GiveUp(TRUE, FALSE) /\ UNCHANGED file
           /\ (xfer_cancel \/ UNCHANGED <<asked, queue>>)
  <2>1. CancelComes'
    BY <1>1, <1>u, CancelWillCome DEF MayCancel
  <2> QED BY <1>1, <1>f, <1>t, <1>u, <1>w, <2>1, GiveUpKeeps DEF MayCancel
<1>2. CASE state' = [state EXCEPT !.waiting = @ \cup {"device"}]
           /\ UNCHANGED <<dev, file, asked, queue>>
  <2>1. StateKept
    BY <1>2, <1>s DEF StateKept, StateType
  <2> QED BY <1>2, <1>u, <2>1, BesideSelf, DeviceWaitsKeeps
<1>3. CASE file' = [file EXCEPT !.rpos = 0] /\ dev' = SetUp /\ UNCHANGED <<state, asked, queue>>
  <2>1. file' \in FileType
    BY <1>3, <1>f DEF FileType
  <2>2. /\ dev.serial <= Position(train', reader.next_serial, "device")
        /\ train'.tmp = Null => dev.serial = Position(train', reader.next_serial, "device")
    BY <1>0, <1>u DEF DeviceAt, Pos
  <2>3. state.retry_part \/ train'.tmp = Null
    BY <1>0, <1>u DEF TmpFreed
  <2> QED BY <1>3, <1>t, <1>u, <2>1, <2>2, <2>3, SetUpKeeps
<1> QED BY <1>1, <1>2, <1>3 DEF DeviceFd

\* The prebuffering.
LEMMA DevicePrebufferKeeps ==
  ASSUME CacherInv, DevicePrebuffer
  PROVE  CacherInv'
<1>0. PartTypes /\ Agreement /\ DeviceAt /\ TmpFreed
  BY DEF CacherInv, PartInv
<1>s. state \in StateType /\ dev \in DevType
  BY <1>0 DEF PartTypes
<1>u. /\ UNCHANGED <<config, reader, disk, file, scribe, main, cancelled, asked, queue>>
      /\ dev.pc = "prebuffer"
  BY DEF DevicePrebuffer
<1>w. dev.pc \in Working \ {"start"} /\ MayCancel
  BY <1>u DEF Working, MayCancel
<1>t. DeviceTrain(train)
  BY <1>w, WorkingTrain
<1>f. file' \in FileType
  BY <1>u DEF CacherInv, TrainInv, DiskAt, FileType
<1>1. CASE cancelled /\ GiveUp(TRUE, FALSE) /\ UNCHANGED train
  <2>1. CancelComes'
    BY <1>1, <1>u, <1>w, CancelWillCome
  <2> QED BY <1>1, <1>f, <1>t, <1>u, <1>w, <2>1, GiveUpKeeps
<1>2. CASE dev' = [dev EXCEPT !.pc = "get", !.set = TRUE] /\ UNCHANGED <<train, state>>
  <2>1. PartKept
    BY <1>0, <1>2, <1>f, <1>u, <1>w DEF PartKept, PartTypes, Agreement
  <2>2. dev' \in DevType /\ dev'.pc = "get" /\ dev'.set /\ dev'.serial = dev.serial
    BY <1>2, <1>s DEF DevType, Working, Writing
  <2>3. DeviceAt'
    <3>1. Pos("device")' = Pos("device")
      BY <1>2, <1>u DEF Pos, Position
    <3> QED BY <1>0, <1>2, <1>u, <2>2, <3>1 DEF DeviceAt
  <2>4. dev'.pc \in Working \ Setting
    BY <2>2 DEF Working, Writing, Setting
  <2> QED BY <1>2, <1>t, <1>w, <2>1, <2>2, <2>3, <2>4, WritePartStep
<1>3. CASE DeviceWaits("prebuffer") /\ UNCHANGED state
  <2>1. dev' = dev
    BY <1>3, <1>s, <1>u DEF DeviceWaits, DevAt, DevType
  <2>2. SameButWaiters(train, train')
    <3>1. train \in TrainType
      BY DEF CacherInv, TrainInv, Train
    <3> QED BY <1>3, <3>1 DEF DeviceWaits, SameButWaiters, SamePointers, TrainType, Pointers
  <2>3. StateKept
    BY <1>3, <1>s DEF StateKept
  <2> QED BY <1>u, <2>1, <2>2, <2>3, DeviceWaitsKeeps
<1> QED BY <1>1, <1>2, <1>3 DEF DevicePrebuffer

\* A retry from disk: the device goes to the first slab of the part that is in the train, which
\* is not behind the part.
LEMMA RewindDiskPosition ==
  ASSUME CacherInv, dev.pc = "setup", Kept # {}, NEW t, t = RewindDisk
  PROVE  DeviceTrain(t) /\ t.tmp = train.tmp
<1>0. PartTypes /\ Aligned
  BY DEF CacherInv, PartInv
<1>s. state.first \in Nat /\ state.stop \in Nat
  BY <1>0 DEF PartTypes, StateType
<1>n. PICK ns \in Nat : ns = reader.next_serial
  BY CacherAssumption DEF CacherInv, TrainInv, ReaderAt
<1>t. Train(train, ns) /\ train \in TrainType
  BY <1>n DEF CacherInv, TrainInv, Train
<1>1. PICK s \in Kept :
            /\ \A b \in Kept : train.slab[s].serial <= train.slab[b].serial
            /\ StillTrain(train, RewindDisk, ns, "device", s)
  BY <1>s, <1>t, RewindDiskTrain
<1>2. StillTrain(train, t, ns, "device", s)
  BY <1>1
<1>3. s \in Addresses /\ s # Null /\ train.slab[s].serial >= state.first
  BY CacherAssumption DEF Kept, Addresses, Null
<1>4. s \in Linked(train)
  BY DEF Kept, Linked
<1>5. train.slab[s].serial \in Nat
  BY <1>3, <1>t DEF TrainType, SlabType
<1>6. /\ Train(t, ns) /\ SamePointers(train, t, Pointers \ {"device"})
      /\ Position(t, ns, "device") = train.slab[s].serial
      /\ Position(t, ns, "mem") = Position(train, ns, "mem")
  BY <1>2, <1>3 DEF StillTrain
<1>7. t.reader = train.reader /\ t.disk = train.disk /\ t.tmp = train.tmp
  BY <1>6 DEF SamePointers, Pointers
<1>8. Pos("device") <= state.stop /\ state.first <= Pos("device") /\ Pos("device") \in Int
  <2>1. Underway
    BY DEF Underway, Working, Setting
  <2>2. Pos("device") \in Int
    BY <1>n, <1>t, PositionBound DEF Pos
  <2> QED BY <1>0, <2>1, <2>2 DEF Aligned
<1>9. train.slab[s].serial <= Pos("device")
  <2>1. CASE train.device # Null
    <3>1. train.device \in Linked(train) /\ Pos("device") = train.slab[train.device].serial
      BY <1>n, <1>t, <2>1, PositionBound DEF Pos
    <3>2. train.device \in Kept
      BY <1>8, <1>s, <3>1 DEF Kept, Linked
    <3> QED BY <1>1, <3>1, <3>2
  <2>2. CASE train.device = Null
    <3>1. Pos("device") = ns - One(train.reader # Null)
      BY <1>n, <2>2 DEF Pos, Position
    <3>2. train.newest # Null /\ train.newest \in Addresses
      BY <1>4, <1>t DEF Train, Placed, Linked
    <3>3. train.slab[s].serial <= train.slab[train.newest].serial
      BY <1>4, <1>t DEF Train, Ordered
    <3>4. train.slab[train.newest].serial = ns - 1 - One(train.reader # Null)
      BY <1>t, <3>2 DEF Train, Fits
    <3> QED BY <1>5, <3>1, <3>3, <3>4 DEF One
  <2> QED BY <2>1, <2>2
<1>10. config.cache = "memory" => t.tmp = Null
  BY <1>7 DEF CacherInv, PartInv, TmpFreed
<1> QED BY <1>3, <1>5, <1>6, <1>7, <1>8, <1>9, <1>10, <1>n, <1>s DEF DeviceTrain, Pos

\* slab_source_setup: the device is at the first slab of the part, or behind it with a slab to
\* read what is missing into.
LEMMA DeviceSetupKeeps ==
  ASSUME CacherInv, DeviceSetup
  PROVE  CacherInv'
<1>0. PartTypes /\ Agreement /\ Aligned /\ DeviceAt /\ TmpFreed
  BY DEF CacherInv, PartInv
<1>s. state \in StateType /\ dev \in DevType /\ config \in [cache : Caches, streaming : Streamings]
  BY <1>0 DEF PartTypes
<1>u. UNCHANGED <<config, reader, disk, file, scribe, main, cancelled>> /\ dev.pc = "setup"
  BY DEF DeviceSetup
<1>w. dev.pc \in Working \ {"start"} /\ dev.pc \in Setting
  BY <1>u DEF Working, Setting
<1>t. DeviceTrain(train)
  BY <1>w, WorkingTrain
<1>f. file' \in FileType
  BY <1>u DEF CacherInv, TrainInv, DiskAt, FileType
<1>n. PICK ns \in Nat : ns = reader.next_serial
  BY CacherAssumption DEF CacherInv, TrainInv, ReaderAt
<1>q. Underway /\ ~Fresh /\ ~state.paused
  BY <1>0, <1>u, <1>w DEF Underway, Fresh, Agreement
<1>d. /\ train.tmp = Null /\ dev.serial = state.first /\ ~dev.set
      /\ dev.serial <= Slabs /\ dev.serial < state.stop
  BY <1>0, <1>u, <1>w DEF TmpFreed, DeviceAt
<1>1. CASE ~state.retry_part /\ train' = train /\ dev' = SetUp /\ UNCHANGED <<state, asked, queue>>
  <2>1. Pos("device") = state.first
    BY <1>0, <1>1, <1>q, <1>w DEF Aligned
  <2>2. Position(train', reader.next_serial, "device") = dev.serial
    BY <1>1, <1>d, <2>1 DEF Pos
  <2>3. dev.serial <= Position(train', reader.next_serial, "device")
    BY <2>2, <1>s DEF DevType
  <2> QED BY <1>1, <1>d, <1>f, <1>t, <1>u, <2>2, <2>3, SetUpKeeps
<1>2. CASE config.cache = "memory" /\ train' = RewindMemory /\ dev' = SetUp
           /\ UNCHANGED <<state, asked, queue>>
  <2>1. Pos("mem") = state.first
    BY <1>0, <1>2, <1>q DEF Aligned
  <2>2. StillTrain(train, train', ns, "device", train.mem)
    BY <1>2, <1>n, <1>t, RewindMemoryTrain DEF DeviceTrain
  <2>3. /\ Train(train', ns) /\ SamePointers(train, train', Pointers \ {"device"})
        /\ Position(train', ns, "mem") = Position(train, ns, "mem")
        /\ Position(train', ns, "device") = Position(train, ns, "mem")
    BY <2>2 DEF StillTrain, Position
  <2>4. train'.reader = train.reader /\ train'.disk = train.disk /\ train'.tmp = train.tmp
    BY <2>3 DEF SamePointers, Pointers
  <2>5. Position(train', ns, "device") = state.first
    BY <1>n, <2>1, <2>3 DEF Pos
  <2>6. state.first <= state.first /\ state.first <= state.stop
    BY <1>d, <1>s DEF StateType
  <2>7. DeviceTrain(train')
    BY <1>d, <1>n, <2>3, <2>4, <2>5, <2>6 DEF DeviceTrain, Pos
  <2> QED BY <1>2, <1>d, <1>f, <1>n, <1>u, <2>4, <2>5, <2>6, <2>7, SetUpKeeps
<1>3. CASE Kept # {} /\ train' = AllocSlab(RewindDisk, "tmp") /\ dev' = DevAt("fd")
           /\ state.retry_part /\ config.cache = "disk" /\ UNCHANGED <<state, asked, queue>>
  <2>1. PICK t : t = RewindDisk
    OBVIOUS
  <2>2. DeviceTrain(t) /\ t.tmp = Null
    BY <1>3, <1>d, <1>u, <2>1, RewindDiskPosition
  <2>3. /\ Train(train', ns)
        /\ train'.tmp # Null /\ train'.reader = t.reader /\ train'.disk = t.disk
        /\ \A q \in {"device", "disk", "mem"} : Position(train', ns, q) = Position(t, ns, q)
    BY <1>3, <1>n, <1>s, <2>1, <2>2, AllocTmp DEF DeviceTrain
  <2>4. DeviceTrain(train')
    BY <1>3, <1>n, <2>2, <2>3 DEF DeviceTrain
  <2>5. PartKept
    BY <1>0, <1>3, <1>f, <1>s, <1>u, <1>w DEF PartKept, MayCancel, Agreement
  <2>6. dev' \in DevType /\ dev'.pc = "fd" /\ dev'.serial = dev.serial /\ dev'.set = dev.set
    BY <1>3, <1>s DEF DevAt, DevType, Working
  <2>7. DeviceAt'
    <3>1. Pos("device")' = Position(train', ns, "device")
      BY <1>n, <1>u DEF Pos, Position
    <3>2. state.first <= Position(train', ns, "device")
      BY <1>n, <2>4 DEF DeviceTrain
    <3> QED BY <1>3, <1>d, <2>3, <2>6, <3>1, <3>2 DEF DeviceAt, Writing
  <2>8. dev'.pc \in Working \ Setting
    BY <2>6 DEF Working, Setting
  <2> QED BY <1>3, <1>w, <2>4, <2>5, <2>6, <2>7, <2>8, WritePartStep
<1>4. CASE Kept # {} /\ xfer_cancel /\ train' = RewindDisk /\ GiveUp(TRUE, FALSE)
  <2>1. DeviceTrain(train')
    BY <1>4, <1>u, RewindDiskPosition
  <2>2. MayCancel
    BY <1>4 DEF MayCancel
  <2>3. CancelComes'
    BY <1>4, <1>u, <2>2, CancelWillCome
  <2> QED BY <1>4, <1>f, <1>u, <1>w, <2>1, <2>2, <2>3, GiveUpKeeps
<1>5. CASE dev' = DevAt("crashed") /\ UNCHANGED <<train, state, asked, queue>>
  <2>1. PartKept
    BY <1>0, <1>5, <1>f, <1>s, <1>u, <1>w DEF PartKept, MayCancel, Agreement
  <2>2. dev' \in DevType /\ dev'.pc = "crashed"
    BY <1>5, <1>s DEF DevAt, DevType, Working
  <2>3. DeviceAt'
    BY <2>2 DEF DeviceAt, Writing
  <2>4. dev'.pc \in Working \ Setting
    BY <2>2 DEF Working, Setting
  <2> QED BY <1>5, <1>t, <1>w, <2>1, <2>2, <2>3, <2>4, WritePartStep
<1> QED
  <2>1. CASE state.retry_part /\ config.cache = "disk" /\ SetupFromDisk
    BY <2>1, <1>3, <1>4, <1>5 DEF SetupFromDisk
  <2>2. CASE (~state.retry_part \/ config.cache = "memory")
             /\ train' = (IF state.retry_part THEN RewindMemory ELSE train)
             /\ dev' = SetUp /\ UNCHANGED <<state, asked, queue>>
    BY <2>2, <1>1, <1>2
  <2> QED BY <2>1, <2>2 DEF DeviceSetup

\* The device thread looks for the slab d.serial in the train t.
Looks(t, d) ==
    /\ DeviceTrain(t)
    /\ d \in DevType /\ d.set /\ d.serial <= Slabs /\ d.serial < state.stop
    /\ d.serial <= Position(t, reader.next_serial, "device")
    /\ t.tmp = Null => d.serial = Position(t, reader.next_serial, "device")

\* It is there while the thread waits for it.
LEMMA WritingLooks ==
  ASSUME CacherInv, dev.pc \in Writing
  PROVE  Looks(train, dev)
<1>1. DeviceAt /\ dev \in DevType
  BY DEF CacherInv, PartInv, PartTypes
<1>2. DeviceTrain(train)
  BY WorkingTrain DEF Working
<1> QED BY <1>1, <1>2 DEF Looks, DeviceAt, Pos

\* slab_source_get once there is a slab.
LEMMA FoundKeeps ==
  ASSUME CacherInv, dev.pc \in Writing, NEW t, NEW d, Looks(t, d), Found(t, d), t.device # Null,
         UNCHANGED <<config, reader, disk, file, scribe, main, cancelled, asked, queue>>
  PROVE  CacherInv'
<1>0. PartTypes /\ Agreement
  BY DEF CacherInv, PartInv
<1>w. dev.pc \in Working \ {"start"}
  BY DEF Working, Writing
<1>f. file' \in FileType /\ MayCancel /\ state' = state /\ train' = t
  BY DEF CacherInv, TrainInv, DiskAt, FileType, MayCancel, Found
<1>1. PartKept
  BY <1>0, <1>f, <1>w DEF PartKept, PartTypes, Agreement
<1>n. PICK ns \in Nat : ns = reader.next_serial
  BY CacherAssumption DEF CacherInv, TrainInv, ReaderAt
<1>l. /\ Train(t, ns) /\ d \in DevType /\ d.set /\ d.serial <= Slabs /\ d.serial < state.stop
      /\ d.serial <= Position(t, ns, "device")
      /\ t.tmp = Null => d.serial = Position(t, ns, "device")
      /\ DeviceTrain(train')
  BY <1>f, <1>n DEF Looks, DeviceTrain
<1>2. /\ t.device \in Addresses /\ Position(t, ns, "device") = t.slab[t.device].serial
      /\ Position(t, ns, "device") \in 0..Slabs
  BY <1>l, PositionBound
<1>p. Pos("device")' = Position(t, ns, "device")
  BY <1>f, <1>n DEF Pos, Position
<1>a. t.device \in Addr
  BY <1>2 DEF Addr, Addresses
<1>3. CASE d.serial = t.slab[t.device].serial /\ dev' = [d EXCEPT !.pc = "write", !.slab = t.device]
  <2>1. dev' \in DevType
    BY <1>3, <1>a, <1>l DEF DevType, Working, Writing
  <2>2. dev'.pc = "write" /\ dev'.slab = t.device /\ dev'.serial = d.serial /\ dev'.set
    BY <1>3, <1>l DEF DevType
  <2>3. DeviceAt'
    BY <1>2, <1>3, <1>f, <1>l, <1>p, <2>2 DEF DeviceAt, Writing
  <2>4. dev'.pc \in Working \ Setting
    BY <2>2 DEF Working, Writing, Setting
  <2> QED BY <1>1, <1>l, <1>w, <2>1, <2>2, <2>3, <2>4, WritePartStep
<1>4. CASE d.serial < t.slab[t.device].serial /\ dev' = [d EXCEPT !.pc = "read"]
  <2>1. dev' \in DevType
    BY <1>4, <1>l DEF DevType, Working, Writing
  <2>2. dev'.pc = "read" /\ dev'.serial = d.serial /\ dev'.set
    BY <1>4, <1>l DEF DevType
  <2>3. d.serial \in Nat
    BY <1>l DEF DevType
  <2>4. d.serial < Position(t, ns, "device") /\ d.serial < Slabs
    BY <1>2, <1>4, <2>3, CacherAssumption
  <2>5. t.tmp # Null
    BY <1>2, <1>l, <2>3, <2>4
  <2>6. DeviceAt'
    BY <1>f, <1>l, <1>p, <2>2, <2>4, <2>5 DEF DeviceAt, Writing
  <2>7. dev'.pc \in Working \ Setting
    BY <2>2 DEF Working, Writing, Setting
  <2> QED BY <1>1, <1>l, <1>w, <2>1, <2>2, <2>6, <2>7, WritePartStep
<1> QED BY <1>3, <1>4 DEF Found

\* slab_source_get.
LEMMA GetKeeps ==
  ASSUME CacherInv, dev.pc \in Writing, NEW t, NEW d, Looks(t, d), Get(t, d),
         UNCHANGED <<config, reader, disk, file, scribe, main, cancelled, asked, queue>>
  PROVE  CacherInv'
<1>0. PartTypes /\ Agreement /\ DeviceAt
  BY DEF CacherInv, PartInv
<1>w. dev.pc \in Working \ {"start"}
  BY DEF Working, Writing
<1>f. file' \in FileType /\ MayCancel
  BY DEF CacherInv, TrainInv, DiskAt, FileType, MayCancel
<1>1. CASE t.device # Null /\ Found(t, d)
  BY <1>1, FoundKeeps
<1>2. CASE cancelled /\ train' = t /\ GiveUp(TRUE, TRUE)
  <2>1. dev.set
    BY <1>0 DEF DeviceAt
  <2>2. DeviceTrain(train')
    BY <1>2 DEF Looks
  <2> QED BY <1>2, <1>f, <1>w, <2>1, <2>2, GiveUpKeeps
<1>3. CASE /\ train' = [t EXCEPT !.waiting = @ \cup {"device"}]
           /\ dev' = [d EXCEPT !.pc = IF config.streaming = "DESIRED" /\ ~state.retry_part
                                      THEN "refill" ELSE "wait"]
           /\ UNCHANGED state
  <2>n. PICK ns \in Nat : ns = reader.next_serial
    BY CacherAssumption DEF CacherInv, TrainInv, ReaderAt
  <2>t. t \in TrainType /\ Train(t, ns)
    BY <2>n DEF Looks, DeviceTrain, Train
  <2>1. SameButWaiters(t, train')
    BY <1>3, <2>t DEF SameButWaiters, SamePointers, TrainType, Pointers
  <2>2. /\ Train(train', ns)
        /\ \A q \in {"device", "disk", "mem"} : Position(train', ns, q) = Position(t, ns, q)
    BY <2>1, <2>t, SameTrain DEF SameButWaiters
  <2>3. train'.reader = t.reader /\ train'.disk = t.disk /\ train'.tmp = t.tmp
    BY <2>1 DEF SameButWaiters, SamePointers, Pointers
  <2>4. DeviceTrain(train')
    BY <2>2, <2>3, <2>n DEF Looks, DeviceTrain
  <2>5. PartKept
    BY <1>0, <1>3, <1>f, <1>w DEF PartKept, PartTypes, Agreement
  <2>6. /\ dev' \in DevType /\ dev'.pc \in {"refill", "wait"} /\ dev'.serial = d.serial /\ dev'.set
        /\ dev'.pc = "refill" => ~state.retry_part
    BY <1>3 DEF Looks, DevType, Working, Writing
  <2>7. DeviceAt'
    <3>1. Pos("device")' = Position(t, ns, "device")
      BY <2>2, <2>n DEF Pos, Position
    <3>2. /\ d.serial <= Slabs /\ d.serial < state.stop
          /\ d.serial <= Position(t, ns, "device")
          /\ t.tmp = Null => d.serial = Position(t, ns, "device")
      BY <2>n DEF Looks
    <3> QED BY <1>3, <2>3, <2>6, <3>1, <3>2 DEF DeviceAt, Writing
  <2>8. dev'.pc \in Working \ Setting
    BY <2>6 DEF Working, Writing, Setting
  <2> QED BY <1>w, <2>4, <2>5, <2>6, <2>7, <2>8, WritePartStep
<1> QED BY <1>1, <1>2, <1>3 DEF Get

\* The waits of slab_source_get.
LEMMA DeviceAwaitKeeps ==
  ASSUME CacherInv, DeviceAwait
  PROVE  CacherInv'
<1>0. PartTypes /\ DeviceAt
  BY DEF CacherInv, PartInv
<1>s. state \in StateType /\ dev \in DevType
  BY <1>0 DEF PartTypes
<1>u. /\ UNCHANGED <<config, reader, disk, file, scribe, main, cancelled, asked, queue>>
      /\ dev.pc \in {"refill", "wait"}
  BY DEF DeviceAwait
<1>w. dev.pc \in Writing /\ dev.pc \in Working \ {"start"}
  BY <1>u DEF Working, Writing
<1>l. Looks(train, dev)
  BY <1>w, WritingLooks
<1>f. file' \in FileType /\ MayCancel
  BY <1>u DEF CacherInv, TrainInv, DiskAt, FileType, MayCancel
<1> DEFINE ready == IF dev.pc = "refill" THEN Prebuffered(train) ELSE train.device # Null
<1>1. ready => train.device # Null
  BY <1>0, <1>u DEF Prebuffered, DeviceAt
<1> HIDE DEF ready
<1>2. CASE cancelled /\ GiveUp(TRUE, TRUE) /\ UNCHANGED train
  <2>1. dev.set /\ DeviceTrain(train')
    BY <1>2, <1>l DEF Looks
  <2> QED BY <1>2, <1>f, <1>u, <1>w, <2>1, GiveUpKeeps
<1>3. CASE ready /\ Found(train, dev)
  BY <1>1, <1>3, <1>l, <1>u, <1>w, FoundKeeps
<1>4. CASE DeviceWaits(dev.pc) /\ UNCHANGED state
  <2>1. dev' = dev
    BY <1>4, <1>s DEF DeviceWaits, DevAt, DevType
  <2>2. SameButWaiters(train, train')
    <3>1. train \in TrainType
      BY DEF CacherInv, TrainInv, Train
    <3> QED BY <1>4, <3>1 DEF DeviceWaits, SameButWaiters, SamePointers, TrainType, Pointers
  <2>3. StateKept
    BY <1>4, <1>s DEF StateKept
  <2> QED BY <1>u, <2>1, <2>2, <2>3, DeviceWaitsKeeps
<1> QED BY <1>2, <1>3, <1>4 DEF DeviceAwait, ready

\* A piece of the part comes from the disk cache.
LEMMA DeviceReadKeeps ==
  ASSUME CacherInv, DeviceRead
  PROVE  CacherInv'
<1>0. PartTypes /\ Agreement /\ DeviceAt
  BY DEF CacherInv, PartInv
<1>s. state \in StateType /\ dev \in DevType
  BY <1>0 DEF PartTypes
<1>u. UNCHANGED <<config, reader, disk, scribe, main, cancelled>> /\ dev.pc = "read"
  BY DEF DeviceRead
<1>w. dev.pc \in Writing /\ dev.pc \in Working \ {"start"}
  BY <1>u DEF Working, Writing
<1>l. Looks(train, dev)
  BY <1>w, WritingLooks
<1>d. train.tmp # Null /\ dev.serial < Slabs /\ dev.serial < Pos("device")
  BY <1>0, <1>u DEF DeviceAt
<1>f. file \in FileType
  BY DEF CacherInv, TrainInv, DiskAt, FileType
<1>1. CASE xfer_cancel /\ GiveUp(TRUE, TRUE) /\ UNCHANGED <<train, file>>
  <2>1. dev.set /\ DeviceTrain(train')
    BY <1>1, <1>l DEF Looks
  <2>2. MayCancel
    BY <1>1 DEF MayCancel
  <2> QED BY <1>1, <1>f, <1>u, <1>w, <2>1, <2>2, GiveUpKeeps
<1>2. CASE /\ file.rpos < Len(file.data)
           /\ file' = [file EXCEPT !.rpos = @ + 1]
           /\ train' = [train EXCEPT !.slab[train.tmp].data = file.data[file.rpos + 1],
                                     !.slab[train.tmp].serial = dev.serial]
           /\ dev' = [dev EXCEPT !.pc = "write", !.slab = train.tmp]
           /\ UNCHANGED <<state, asked, queue>>
  <2>n. PICK ns \in Nat : ns = reader.next_serial
    BY CacherAssumption DEF CacherInv, TrainInv, ReaderAt
  <2>1. file.data[file.rpos + 1] \in -1..Slabs
    <3>1. file.data \in Seq(-1..Slabs) /\ file.rpos \in Nat
      BY <1>f DEF FileType
    <3>2. PICK k : k = file.rpos + 1
      OBVIOUS
    <3>3. k \in 1..Len(file.data)
      BY <1>2, <3>1, <3>2
    <3>4. PICK T : T = -1..Slabs
      OBVIOUS
    <3>5. file.data \in Seq(T)
      BY <3>1, <3>4
    <3>6. file.data[k] \in T
      BY <3>3, <3>5
    <3> QED BY <3>2, <3>4, <3>6
  <2>2. PICK c \in -1..Slabs : c = file.data[file.rpos + 1]
    BY <2>1
  <2>4. PICK k \in 0..Slabs : k = dev.serial
    BY <1>d, <1>s, CacherAssumption DEF DevType
  <2>3. train' = FilledTmp(train, c, k)
    BY <1>2, <2>2, <2>4 DEF FilledTmp
  <2>t. Train(train, ns)
    BY <2>n DEF CacherInv, TrainInv
  <2>5. /\ Train(train', ns)
        /\ train'.tmp = train.tmp
        /\ SamePointers(train, train', Pointers \ {"tmp"})
        /\ \A q \in {"device", "disk", "mem"} : Position(train', ns, q) = Position(train, ns, q)
    <3>1. SameButTmp(train, train', ns)
      BY <1>d, <2>3, <2>t, ReadTmpTrain
    <3> QED BY <3>1 DEF SameButTmp
  <2>6. train'.reader = train.reader /\ train'.disk = train.disk
    BY <2>5 DEF SamePointers, Pointers
  <2>7. DeviceTrain(train')
    BY <1>l, <2>5, <2>6, <2>n DEF Looks, DeviceTrain
  <2>8. file' \in FileType
    BY <1>2, <1>f DEF FileType
  <2>9. PartKept
    BY <1>0, <1>2, <1>s, <1>u, <1>w, <2>8 DEF PartKept, MayCancel, Agreement
  <2>10. train.tmp \in Addr
    BY DEF CacherInv, TrainInv, Train, TrainType
  <2>11. dev' \in DevType /\ dev'.pc = "write" /\ dev'.slab = train.tmp
         /\ dev'.serial = dev.serial /\ dev'.set = dev.set
    BY <1>2, <1>s, <2>10 DEF DevType, Working, Writing
  <2>12. DeviceAt'
    <3>1. Pos("device")' = Pos("device")
      BY <1>u, <2>5, <2>n DEF Pos, Position
    <3>2. /\ dev.set /\ dev.serial <= Slabs /\ dev.serial < state.stop
          /\ dev.serial <= Pos("device")
      BY <1>l DEF Looks, Pos
    <3> QED BY <1>2, <1>d, <2>5, <2>11, <3>1, <3>2 DEF DeviceAt, Writing
  <2>13. dev'.pc \in Working \ Setting
    BY <2>11 DEF Working, Writing, Setting
  <2> QED BY <1>w, <2>7, <2>9, <2>11, <2>12, <2>13, WritePartStep
<1> QED BY <1>1, <1>2 DEF DeviceRead

\* The slab is written: the last one of the dump says so.
LEMMA DeviceWriteKeeps ==
  ASSUME CacherInv, DeviceWrite
  PROVE  CacherInv'
<1>0. PartTypes /\ Agreement /\ DeviceAt
  BY DEF CacherInv, PartInv
<1>s. state \in StateType /\ dev \in DevType
  BY <1>0 DEF PartTypes
<1>u. /\ UNCHANGED <<config, train, reader, disk, file, scribe, queue, main, cancelled, asked>>
      /\ dev.pc = "write"
  BY DEF DeviceWrite
<1>w. dev.pc \in Writing /\ dev.pc \in Working \ {"start"}
  BY <1>u DEF Working, Writing
<1>l. Looks(train, dev) /\ DeviceTrain(train') /\ dev.set
  BY <1>u, <1>w, WritingLooks DEF Looks
<1>f. file' \in FileType /\ MayCancel
  BY <1>u DEF CacherInv, TrainInv, DiskAt, FileType, MayCancel
<1>1. CASE GiveUp(FALSE, TRUE) \/ GiveUp(TRUE, TRUE)
  BY <1>1, <1>f, <1>l, <1>u, <1>w, GiveUpKeeps
<1>2. CASE dev' = [dev EXCEPT !.pc = "next", !.eof = (train.slab[dev.slab].data = Short)]
           /\ UNCHANGED state
  <2>1. PartKept
    BY <1>0, <1>2, <1>f, <1>s, <1>u, <1>w DEF PartKept, Agreement
  <2>2. dev' \in DevType /\ dev'.pc = "next" /\ dev'.slab = dev.slab
        /\ dev'.serial = dev.serial /\ dev'.set = dev.set
    BY <1>2, <1>s DEF DevType, Working, Writing
  <2>3. dev.serial = Slabs => dev'.eof
    <3> SUFFICES ASSUME dev.serial = Slabs PROVE dev'.eof
      OBVIOUS
    <3>1. dev.slab = train.device /\ train.device # Null /\ dev.serial = Pos("device")
      BY <1>0, <1>u, CacherAssumption DEF DeviceAt
    <3>n. PICK ns \in Nat : ns = reader.next_serial
      BY CacherAssumption DEF CacherInv, TrainInv, ReaderAt
    <3>2. /\ Position(train, ns, "device") = train.slab[train.device].serial
          /\ train.slab[train.device].data = train.slab[train.device].serial
      BY <3>1, <3>n, PositionBound DEF CacherInv, TrainInv
    <3>3. train.slab[dev.slab].data = Short
      BY <3>1, <3>2, <3>n DEF Pos, Short
    <3> QED BY <1>2, <1>s, <3>3 DEF DevType
  <2>4. DeviceAt'
    <3>1. Pos("device")' = Pos("device")
      BY <1>u DEF Pos, Position
    <3> QED BY <1>0, <1>2, <1>u, <2>2, <2>3, <3>1 DEF DeviceAt, Writing
  <2>5. dev'.pc \in Working \ Setting
    BY <2>2 DEF Working, Writing, Setting
  <2> QED BY <1>l, <1>w, <2>1, <2>2, <2>4, <2>5, WritePartStep
<1> QED BY <1>1, <1>2 DEF DeviceWrite

\* The device moves on, or what it wrote came from the disk cache.
LEMMA DeviceNextKeeps ==
  ASSUME CacherInv, DeviceNext
  PROVE  CacherInv'
<1>0. PartTypes /\ Agreement /\ DeviceAt
  BY DEF CacherInv, PartInv
<1>s. state \in StateType /\ dev \in DevType /\ state.first \in Nat /\ state.stop \in Nat
      /\ dev.serial \in Nat
  BY <1>0 DEF PartTypes, StateType, DevType
<1>u. /\ UNCHANGED <<config, reader, disk, file, scribe, main, cancelled, asked, queue>>
      /\ dev.pc = "next"
  BY DEF DeviceNext
<1>w. dev.pc \in Writing /\ dev.pc \in Working \ {"start"}
  BY <1>u DEF Working, Writing
<1>l. Looks(train, dev) /\ DeviceTrain(train) /\ dev.set /\ dev.serial <= Slabs
      /\ dev.serial < state.stop
  BY <1>w, WritingLooks DEF Looks
<1>f. file' \in FileType /\ MayCancel
  BY <1>u DEF CacherInv, TrainInv, DiskAt, FileType, MayCancel
<1>n. PICK ns \in Nat : ns = reader.next_serial
  BY CacherAssumption DEF CacherInv, TrainInv, ReaderAt
<1>r. Train(train, ns) /\ Position(train, ns, "device") = Pos("device") /\ Pos("device") \in Int
  BY <1>n, PositionBound DEF CacherInv, TrainInv, Pos
<1>1. PICK t : t = IF dev.slab = train.device THEN NextSlab(train, "device") ELSE train
  OBVIOUS
<1>2. PICK d : d = [dev EXCEPT !.serial = @ + 1, !.slab = Null]
  OBVIOUS
<1>3. /\ d \in DevType /\ d.serial = dev.serial + 1 /\ d.set /\ d.eof = dev.eof
      /\ d.failed = dev.failed
  <2>1. PICK k \in 0..(Slabs + 1) : k = dev.serial + 1
    BY <1>l, <1>s, CacherAssumption
  <2>2. PICK z \in Addr : z = Null
    BY CacherAssumption DEF Addr, Null
  <2>3. d = [dev EXCEPT !.serial = k, !.slab = z]
    BY <1>2, <1>s, <2>1, <2>2 DEF DevType
  <2>4. d \in DevType /\ d.serial = k /\ d.set = dev.set /\ d.eof = dev.eof /\ d.failed = dev.failed
    BY <1>s, <2>3 DEF DevType
  <2> QED BY <1>l, <2>1, <2>4
<1>4. /\ DeviceTrain(t) /\ t.tmp = train.tmp
      /\ d.serial <= Position(t, ns, "device")
      /\ t.tmp = Null => d.serial = Position(t, ns, "device")
  <2>1. CASE dev.slab = train.device /\ train.device # Null /\ dev.serial = Pos("device")
    <3>1. /\ StillTrain(train, t, ns, "device", train.slab[train.device].next)
          /\ Position(t, ns, "device") = Position(train, ns, "device") + 1
      BY <1>1, <1>r, <2>1, NextSlabTrain
    <3>2. /\ Train(t, ns) /\ SamePointers(train, t, Pointers \ {"device"})
          /\ Position(t, ns, "mem") = Position(train, ns, "mem")
      BY <3>1 DEF StillTrain
    <3>3. t.reader = train.reader /\ t.disk = train.disk /\ t.tmp = train.tmp
      BY <3>2 DEF SamePointers, Pointers
    <3>4. Position(t, ns, "device") = dev.serial + 1
      BY <1>r, <2>1, <3>1
    <3>5. state.first <= Pos("device")
      BY <1>l DEF DeviceTrain, Pos
    <3>6. state.first <= dev.serial + 1 /\ dev.serial + 1 <= state.stop
          /\ d.serial <= Position(t, ns, "device")
      BY <1>3, <1>l, <1>s, <2>1, <3>4, <3>5
    <3>7. DeviceTrain(t)
      BY <1>l, <1>n, <3>2, <3>3, <3>4, <3>6 DEF DeviceTrain, Pos
    <3> QED BY <1>3, <3>3, <3>4, <3>6, <3>7
  <2>2. CASE dev.slab = train.tmp /\ train.tmp # Null /\ dev.serial < Slabs
                /\ dev.serial < Pos("device")
    <3>1. train.device \in Linked(train) \cup {Null} /\ train.tmp \notin Linked(train)
      BY <1>r DEF Train, Placed, Linked
    <3>2. t = train
      BY <1>1, <2>2, <3>1
    <3>3. d.serial <= Position(t, ns, "device")
      BY <1>3, <1>r, <1>s, <2>2, <3>2
    <3> QED BY <1>l, <2>2, <3>2, <3>3
  <2> QED BY <1>0, <1>u, <2>1, <2>2 DEF DeviceAt
<1>5. ~dev.eof => d.serial <= Slabs
  BY <1>0, <1>3, <1>l, <1>s, <1>u, CacherAssumption DEF DeviceAt
<1>6. CASE d.serial < state.stop /\ ~dev.eof /\ Get(t, d)
  <2>1. Looks(t, d)
    BY <1>3, <1>4, <1>5, <1>6, <1>n DEF Looks
  <2> QED BY <1>6, <1>u, <1>w, <2>1, GetKeeps
<1>7. CASE ~(d.serial < state.stop /\ ~dev.eof) /\ train' = t /\ dev' = [d EXCEPT !.pc = "done"]
           /\ UNCHANGED state
  <2>1. PartKept
    BY <1>0, <1>7, <1>f, <1>s, <1>u, <1>w DEF PartKept, Agreement
  <2>2. /\ dev' \in DevType /\ dev'.pc = "done" /\ dev'.serial = d.serial /\ dev'.set
        /\ dev'.eof = dev.eof
    BY <1>3, <1>7 DEF DevType, Working
  <2>3. Pos("device")' = Position(t, ns, "device")
    BY <1>7, <1>n, <1>u DEF Pos, Position
  <2>4. ~dev.eof => Position(t, ns, "device") = state.stop /\ state.stop <= Slabs
    <3> SUFFICES ASSUME ~dev.eof
                 PROVE  Position(t, ns, "device") = state.stop /\ state.stop <= Slabs
      OBVIOUS
    <3>1. d.serial = state.stop
      BY <1>3, <1>7, <1>l, <1>s
    <3>2. Position(t, ns, "device") <= state.stop
      BY <1>4, <1>n DEF DeviceTrain
    <3>3. Position(t, ns, "device") \in Int
      BY <1>4, <1>n, PositionBound DEF DeviceTrain
    <3> QED BY <1>4, <1>5, <1>s, <3>1, <3>2, <3>3
  <2>5. DeviceAt'
    BY <1>7, <2>2, <2>3, <2>4 DEF DeviceAt, Writing
  <2>6. dev'.pc \in Working \ Setting
    BY <2>2 DEF Working, Setting
  <2> QED BY <1>4, <1>7, <1>w, <2>1, <2>2, <2>5, <2>6, WritePartStep
<1> QED BY <1>1, <1>2, <1>6, <1>7 DEF DeviceNext

\* release_part_cache after a part: the cache begins where the device is.
LEMMA ReleasedTrain ==
  ASSUME NEW t, NEW ns \in Nat, Train(t, ns), NEW u, u = ReleasePartCache(t),
         config.cache = "memory" => Position(t, ns, "mem") < Position(t, ns, "device")
  PROVE  /\ Train(u, ns) /\ SamePointers(t, u, Pointers \ {"mem"})
         /\ Position(u, ns, "device") = Position(t, ns, "device")
         /\ config.cache = "memory" => Position(u, ns, "mem") = Position(t, ns, "device")
<1>1. CASE config.cache = "memory" /\ t.mem # Null
  <2>1. StillTrain(t, u, ns, "mem", t.device)
    BY <1>1, ReleaseTrain
  <2> QED BY <2>1 DEF StillTrain, Position
<1>2. CASE ~(config.cache = "memory" /\ t.mem # Null)
  <2>1. u = t
    BY <1>2, ReleaseTrain
  <2>2. config.cache # "memory"
    <3> SUFFICES ASSUME config.cache = "memory" PROVE FALSE
      OBVIOUS
    <3>1. Position(t, ns, "mem") = ns - One(t.reader # Null)
      BY <1>2 DEF Position
    <3>2. /\ Position(t, ns, "device") <= ns - One(t.reader # Null)
          /\ Position(t, ns, "device") \in Int /\ ns - One(t.reader # Null) \in Int
      BY PositionBound
    <3> QED BY <3>1, <3>2
  <2> QED BY <2>1, <2>2 DEF SamePointers
<1> QED BY <1>1, <1>2

\* The message about a part is the last in the queue.
LEMMA DoneQueue ==
  ASSUME PartTypes, Dones = {}, cancelled' = cancelled, asked' = asked,
         NEW m \in [type : {"PART_DONE"}, successful : BOOLEAN, eof : BOOLEAN],
         queue' = Append(queue, m)
  PROVE  /\ queue' \in Seq(XMsg)
         /\ \A i \in Dones' : queue'[i] = m
         /\ \A i, j \in Dones' : i = j
         /\ CancelComes => Doomed' /\ CancelComes'
<1>1. queue \in Seq(XMsg) /\ Len(queue) \in Nat /\ m \in XMsg /\ m.type = "PART_DONE"
  BY DEF PartTypes, XMsg
<1>2. /\ queue' \in Seq(XMsg) /\ Len(queue') = Len(queue) + 1 /\ queue'[Len(queue) + 1] = m
      /\ \A i \in 1..Len(queue) : queue'[i] = queue[i]
  BY <1>1
<1>3. DOMAIN queue = 1..Len(queue) /\ DOMAIN queue' = 1..(Len(queue) + 1)
  BY <1>1, <1>2
<1>4. \A i \in 1..Len(queue) : queue'[i].type # "PART_DONE"
  BY <1>2, <1>3 DEF Dones
<1>5. Dones' = {Len(queue) + 1}
  <2>1. Len(queue) + 1 \in Dones'
    BY <1>1, <1>2, <1>3 DEF Dones
  <2>2. \A i \in Dones' : i = Len(queue) + 1
    BY <1>1, <1>3, <1>4 DEF Dones
  <2> QED BY <2>1, <2>2
<1>6. CancelComes => Doomed' /\ CancelComes'
  <2>1. CASE cancelled
    BY <2>1 DEF Doomed, CancelComes
  <2>2. CASE \E j \in DOMAIN queue : queue[j].type = "CANCEL"
    <3>1. PICK j \in DOMAIN queue : queue[j].type = "CANCEL"
      BY <2>2
    <3>2. j \in DOMAIN queue' /\ queue'[j].type = "CANCEL" /\ j \in 1..(Len(queue) + 1 - 1)
      BY <1>1, <1>2, <1>3, <3>1
    <3> QED BY <1>5, <3>2 DEF Doomed, CancelComes
  <2> QED BY <2>1, <2>2 DEF CancelComes
<1> QED BY <1>2, <1>5, <1>6

\* A part is over: the slab source is freed, the cache released after a success, the message
\* sent and the state set.
LEMMA DevicePartDoneKeeps ==
  ASSUME CacherInv, DevicePartDone
  PROVE  CacherInv'
<1>0. PartTypes /\ Agreement /\ Aligned /\ DeviceAt /\ TmpFreed
  BY DEF CacherInv, PartInv
<1>s. state \in StateType /\ dev \in DevType /\ state.first \in Nat /\ state.stop \in Nat
  BY <1>0 DEF PartTypes, StateType
<1>u. UNCHANGED <<config, reader, disk, file, scribe, main, cancelled, asked>> /\ dev.pc = "done"
  BY DEF DevicePartDone
<1>w. dev.pc \in Working /\ dev.pc # "start"
  BY <1>u DEF Working
<1>q. Dones = {} /\ scribe.pc = "running" /\ ~state.paused /\ (Doomed <=> cancelled)
  BY <1>w, WorkingQuiet DEF CacherInv
<1>n. PICK ns \in Nat : ns = reader.next_serial
  BY CacherAssumption DEF CacherInv, TrainInv, ReaderAt
<1>a. /\ state.first <= Pos("device") /\ Pos("device") <= state.stop
      /\ config.cache = "memory" => Pos("mem") = state.first
      /\ state.first < state.stop /\ (state.first <= Slabs \/ cancelled)
  <2>1. Underway /\ ~Fresh
    BY <1>u, <1>w DEF Underway, Fresh
  <2> QED BY <1>0, <1>q, <2>1 DEF Aligned
<1>1. PICK failed \in {dev.failed, TRUE} :
          LET successful == IF failed THEN state.successful ELSE TRUE
              no_more == IF failed THEN state.no_more_parts ELSE dev.eof
              t == IF dev.set THEN FreeTmp(train) ELSE train
          IN  /\ queue' = Append(queue, [type |-> "PART_DONE", successful |-> successful,
                                               eof |-> no_more])
              /\ train' = IF successful /\ ~no_more THEN ReleasePartCache(t) ELSE t
              /\ state' = PartOver(successful, no_more)
              /\ dev' = DevAt(IF no_more THEN "join" ELSE "paused")
  BY DEF DevicePartDone
<1>2. PICK successful : successful = IF failed THEN state.successful ELSE TRUE
  OBVIOUS
<1>3. PICK no_more : no_more = IF failed THEN state.no_more_parts ELSE dev.eof
  OBVIOUS
<1>4. PICK t : t = IF dev.set THEN FreeTmp(train) ELSE train
  OBVIOUS
<1>5. /\ queue' = Append(queue, [type |-> "PART_DONE", successful |-> successful, eof |-> no_more])
      /\ train' = IF successful /\ ~no_more THEN ReleasePartCache(t) ELSE t
      /\ state' = PartOver(successful, no_more)
      /\ dev' = DevAt(IF no_more THEN "join" ELSE "paused")
  BY <1>1, <1>2, <1>3, <1>4
<1>6. successful \in BOOLEAN /\ no_more \in BOOLEAN /\ failed \in BOOLEAN
  BY <1>1, <1>2, <1>3, <1>s DEF StateType, DevType
<1>7. /\ successful => ~failed
      /\ ~failed => ~dev.failed /\ no_more = dev.eof
  <2>1. ~state.successful
    BY <1>0, <1>w DEF Agreement
  <2> QED BY <1>1, <1>2, <1>3, <1>6, <2>1
<1>8. successful /\ ~no_more /\ ~CancelComes => Pos("device") = state.stop /\ state.stop <= Slabs
  BY <1>0, <1>7, <1>u DEF DeviceAt
<1>9. /\ Train(t, ns) /\ t.reader = train.reader /\ t.disk = train.disk
      /\ dev.set => t.tmp = Null
      /\ ~dev.set => t.tmp = train.tmp
      /\ \A p \in {"device", "mem"} : Position(t, ns, p) = Pos(p)
  <2>r. Train(train, ns)
    BY <1>n DEF CacherInv, TrainInv
  <2>1. CASE dev.set
    <3>1. /\ Train(t, ns) /\ t.tmp = Null /\ SamePointers(train, t, Pointers \ {"tmp"})
          /\ \A p \in {"device", "disk", "mem"} : Position(t, ns, p) = Position(train, ns, p)
      BY <1>4, <2>1, <2>r, FreeTmpTrain
    <3> QED BY <1>n, <2>1, <3>1 DEF SamePointers, Pointers, Pos
  <2>2. CASE ~dev.set
    BY <1>4, <1>n, <2>2, <2>r DEF Pos
  <2> QED BY <2>1, <2>2
<1> DEFINE m == [type |-> "PART_DONE", successful |-> successful, eof |-> no_more]
<1>10. m \in [type : {"PART_DONE"}, successful : BOOLEAN, eof : BOOLEAN]
       /\ m.eof = no_more /\ m.successful = successful
  BY <1>6
<1>m. queue' = Append(queue, m)
  BY <1>5
<1> HIDE DEF m
<1>11. /\ queue' \in Seq(XMsg)
       /\ \A i \in Dones' : queue'[i] = m
       /\ \A i, j \in Dones' : i = j
       /\ CancelComes => Doomed' /\ CancelComes'
  BY <1>0, <1>10, <1>m, <1>q, <1>u, DoneQueue
<1>12. /\ state' \in StateType /\ state'.successful = successful /\ state'.no_more_parts = no_more
       /\ state'.paused = ~no_more /\ state'.first = state.first /\ state'.stop = state.stop
  <2>1. PICK W \in SUBSET {"device", "disk"} :
           W = IF no_more \/ cancelled THEN state.waiting ELSE state.waiting \cup {"device"}
    BY <1>s DEF StateType
  <2>2. state' = [state EXCEPT !.successful = successful, !.no_more_parts = no_more,
                               !.paused = ~no_more, !.waiting = W]
    BY <1>5, <1>s, <2>1 DEF PartOver, StateType
  <2> QED BY <1>6, <1>s, <2>2 DEF StateType
<1>13. /\ dev' \in DevType /\ dev'.pc \in {"join", "paused"}
       /\ dev'.pc = "join" <=> no_more
  BY <1>5, <1>6, <1>s DEF DevAt, DevType
<1>14. /\ Train(train', ns) /\ train'.reader = train.reader /\ train'.disk = train.disk
       /\ train'.tmp = t.tmp
       /\ ~CancelComes => Position(train', ns, "device") = Pos("device")
       /\ ~CancelComes /\ config.cache = "memory" =>
             Position(train', ns, "mem") = IF successful /\ ~no_more THEN state.stop ELSE state.first
  <2>1. CASE ~(successful /\ ~no_more)
    BY <1>5, <1>9, <1>a, <2>1
  <2>2. CASE successful /\ ~no_more
    <3>1. train' = ReleasePartCache(t)
      BY <1>5, <2>2
    <3>2. CASE CancelComes
      <4>1. Train(train', ns) /\ SamePointers(t, train', Pointers \ {"mem"})
        <5>1. CASE config.cache = "memory" /\ t.mem # Null
          BY <1>9, <3>1, <5>1, ReleaseTrain DEF StillTrain
        <5>2. CASE ~(config.cache = "memory" /\ t.mem # Null)
          BY <1>9, <3>1, <5>2, ReleaseTrain DEF SamePointers
        <5> QED BY <5>1, <5>2
      <4> QED BY <1>9, <3>2, <4>1 DEF SamePointers, Pointers
    <3>3. CASE ~CancelComes
      <4>1. Pos("device") = state.stop
        BY <1>8, <2>2, <3>3
      <4>2. config.cache = "memory" => Position(t, ns, "mem") < Position(t, ns, "device")
        BY <1>9, <1>a, <1>s, <4>1
      <4>3. /\ Train(train', ns) /\ SamePointers(t, train', Pointers \ {"mem"})
            /\ Position(train', ns, "device") = Position(t, ns, "device")
            /\ config.cache = "memory" => Position(train', ns, "mem") = Position(t, ns, "device")
        BY <1>9, <3>1, <4>2, ReleasedTrain
      <4>4. train'.reader = t.reader /\ train'.disk = t.disk /\ train'.tmp = t.tmp
        BY <4>3 DEF SamePointers, Pointers
      <4> QED BY <1>9, <2>2, <3>3, <4>1, <4>3, <4>4
    <3> QED BY <3>2, <3>3
  <2> QED BY <2>1, <2>2
<1>15. TrainInv'
  <2>1. file' \in FileType
    BY <1>u DEF CacherInv, TrainInv, DiskAt, FileType
  <2> QED BY <1>14, <1>n, <1>u, <2>1, TrainFrame DEF CacherInv
<1>16. PartTypes'
  BY <1>0, <1>11, <1>12, <1>13, <1>u DEF PartTypes
<1>17. dev'.pc \notin Working
  BY <1>13 DEF Working, Setting, Writing
<1>18. Agreement'
  <2>1. scribe'.pc = "running"
    BY <1>q, <1>u
  <2>2. (\A i \in Dones : queue[i].eof => dev.pc \in {"join", "ended"})'
    BY <1>10, <1>11, <1>13
  <2>3. (\A i \in Dones : ~queue[i].eof => Waits(queue[i].successful))'
    BY <1>10, <1>11, <1>12 DEF Waits
  <2>4. dev'.pc \in {"join", "ended"} => state'.no_more_parts
    BY <1>12, <1>13
  <2> QED BY <1>11, <1>17, <2>1, <2>2, <2>3, <2>4 DEF Agreement
<1>19. Aligned'
  <2>1. Underway' => dev'.pc = "paused" /\ ~no_more /\ ~CancelComes
    BY <1>11, <1>13, <1>17 DEF Underway
  <2>2. Fresh' => successful
    BY <1>12 DEF Fresh
  <2>3. \A p \in {"device", "mem"} : Pos(p)' = Position(train', ns, p)
    BY <1>n, <1>u DEF Pos, Position
  <2>4. ASSUME Underway'
        PROVE  /\ state.first <= Pos("device")' /\ Pos("device")' <= state.stop
               /\ Fresh' => Pos("device")' = state.stop
               /\ config.cache = "memory" =>
                     Pos("mem")' = IF Fresh' THEN state.stop ELSE state.first
               /\ Fresh' => state.stop <= Slabs
    <3>1. Pos("device")' = Pos("device") /\ ~CancelComes /\ ~no_more /\ dev'.pc = "paused"
      BY <1>14, <2>1, <2>3, <2>4
    <3>2. Fresh' <=> successful
      BY <1>12, <3>1 DEF Fresh
    <3>3. successful => Pos("device") = state.stop /\ state.stop <= Slabs
      BY <1>8, <3>1
    <3>4. config.cache = "memory" =>
             Pos("mem")' = IF successful THEN state.stop ELSE state.first
      BY <1>14, <2>3, <3>1
    <3> QED BY <1>a, <3>1, <3>2, <3>3, <3>4
  <2>5. Underway' => state'.paused
    BY <1>12, <2>1
  <2> QED BY <1>12, <1>a, <1>u, <2>4, <2>5 DEF Aligned
<1>20. DeviceAt'
  BY <1>13 DEF DeviceAt, Writing
<1>21. TmpFreed'
  <2>1. train'.tmp # Null => CancelComes
    BY <1>0, <1>14, <1>9, <1>u DEF TmpFreed
  <2>2. asked' => CancelComes'
    BY <1>0, <1>11, <1>u DEF TmpFreed
  <2>3. config'.cache = "memory" => train'.tmp = Null
    BY <1>0, <1>14, <1>9, <1>u DEF TmpFreed
  <2> QED BY <1>11, <1>13, <2>1, <2>2, <2>3 DEF TmpFreed, Setting
<1> QED BY <1>15, <1>16, <1>18, <1>19, <1>20, <1>21 DEF CacherInv, PartInv

\* The device thread keeps the invariant.
LEMMA DeviceKeeps ==
  ASSUME CacherInv, DeviceStep
  PROVE  CacherInv'
<1>1. CASE DeviceGet
  <2>1. dev.pc \in Writing
    BY <1>1 DEF DeviceGet, Writing
  <2> QED BY <1>1, <2>1, WritingLooks, GetKeeps DEF DeviceGet
<1> QED BY <1>1, DevicePausedKeeps, DeviceStartKeeps, DeviceSetupKeeps, DeviceFdKeeps,
           DevicePrebufferKeeps, DeviceAwaitKeeps, DeviceReadKeeps, DeviceWriteKeeps,
           DeviceNextKeeps, DevicePartDoneKeeps, DeviceJoinKeeps DEF DeviceStep

-----------------------------------------------------------------------------
(* What is written, with a cache in memory.                                *)

Rewinding == {"setup", "fd", "prebuffer"}
Seeking == Writing \ {"next"}

\* The completed parts are the beginning of the dump, as far as the part that is written, or the
\* next one; after the last one they are the whole.
TapeGood ==
    /\ tape \in Seq(Int)
    /\ \A i \in DOMAIN tape : tape[i] = i - 1
    /\ Underway => Len(tape) = IF Fresh THEN state.stop ELSE state.first
    /\ dev.pc \in {"paused", "start", "setup"} => ~state.no_more_parts
    /\ state.successful /\ state.no_more_parts => Len(tape) = Slabs + 1

\* What is written of the part is its beginning, as far as the device thread is.
PartGood ==
    /\ part \in Seq(Int)
    /\ dev.pc \in Working \ {"start"} => \A i \in DOMAIN part : part[i] = state.first + i - 1
    /\ dev.pc \in Rewinding => part = <<>> /\ ~dev.eof
    /\ dev.pc \in Seeking => Len(part) = dev.serial - state.first /\ ~dev.eof
    /\ dev.pc = "next" => /\ Len(part) = dev.serial + 1 - state.first
                          /\ dev.eof => dev.serial = Slabs
    /\ dev.pc = "done" /\ ~dev.failed =>
          IF dev.eof THEN Len(part) = Slabs + 1 - state.first
          ELSE CancelComes \/ Len(part) = state.stop - state.first

TapeInv == config.cache = "memory" => TapeGood /\ PartGood

\* A step that leaves the device thread and what it wrote alone.
LEMMA TapeFrame ==
  ASSUME TapeInv, config'.cache = config.cache, UNCHANGED <<dev, part, tape>>,
         \A x \in {"paused", "successful", "no_more_parts", "first", "stop"} : state'[x] = state[x],
         Doomed => Doomed', CancelComes => CancelComes'
  PROVE  TapeInv'
<1> SUFFICES ASSUME config.cache = "memory", TapeGood, PartGood
             PROVE  TapeGood' /\ PartGood'
  BY DEF TapeInv
<1>1. /\ state'.paused = state.paused /\ state'.successful = state.successful
      /\ state'.no_more_parts = state.no_more_parts
      /\ state'.first = state.first /\ state'.stop = state.stop
  OBVIOUS
<1>2. Underway' => Underway
  BY DEF Underway
<1>3. Fresh' <=> Fresh
  BY <1>1 DEF Fresh
<1>4. TapeGood'
  BY <1>1, <1>2, <1>3 DEF TapeGood
<1>5. PartGood'
  BY <1>1 DEF PartGood
<1> QED BY <1>4, <1>5

\* The other threads do.
LEMMA TapeOther ==
  ASSUME CacherInv, TapeInv,
         ReaderStep \/ DiskStep \/ CancelSlab \/ CancelState \/ AskCancel
  PROVE  TapeInv'
<1>0. PartTypes /\ state \in StateType
  BY DEF CacherInv, PartInv, PartTypes
<1>1. CASE ReaderStep
  <2>1. UNCHANGED <<config, state, dev, cancelled, part, tape>> /\ MayCancel
    BY <1>1 DEF ReaderStep, ReaderAlloc, ReaderPush, ReaderGets, MayCancel
  <2> QED BY <1>0, <2>1, MayCancelQueue, TapeFrame
<1>2. CASE DiskStep
  <2>1. UNCHANGED <<config, dev, cancelled, part, tape>> /\ MayCancel
    BY <1>2 DEF DiskStep, DiskOpen, DiskSlab, DiskCurrent, DiskNext, DiskWrite, DiskAdvance,
                MayCancel
  <2>2. \/ state' = state
        \/ state' = [state EXCEPT !.fd = TRUE, !.waiting = {}]
        \/ state' = [state EXCEPT !.waiting = @ \cup {"disk"}]
    BY <1>2 DEF DiskStep, DiskOpen, DiskSlab, DiskCurrent, DiskNext, DiskWrite, DiskAdvance
  <2>3. \A x \in {"paused", "successful", "no_more_parts", "first", "stop"} : state'[x] = state[x]
    BY <1>0, <2>2 DEF StateType
  <2> QED BY <1>0, <2>1, <2>3, MayCancelQueue, TapeFrame
<1>3. CASE CancelSlab \/ CancelState \/ AskCancel
  <2>1. UNCHANGED <<config, dev, cancelled, part, tape>> /\ MayCancel
    BY <1>3 DEF CancelSlab, CancelState, AskCancel, MayCancel
  <2>2. state' = state \/ state' = [state EXCEPT !.waiting = {}]
    BY <1>3 DEF CancelSlab, CancelState, AskCancel
  <2>3. \A x \in {"paused", "successful", "no_more_parts", "first", "stop"} : state'[x] = state[x]
    BY <1>0, <2>2 DEF StateType
  <2> QED BY <1>0, <2>1, <2>3, MayCancelQueue, TapeFrame
<1> QED BY <1>1, <1>2, <1>3

\* The next part begins where the tape ends.
LEMMA TapeStartPart ==
  ASSUME CacherInv, TapeInv, NEW r \in BOOLEAN, Waits(~r), Doomed => cancelled, StartPart(r),
         UNCHANGED <<dev, part, tape, cancelled>>, config'.cache = config.cache, Dones' = {}
  PROVE  TapeInv'
<1> SUFFICES ASSUME config.cache = "memory", TapeGood, PartGood
             PROVE  TapeGood' /\ PartGood'
  BY DEF TapeInv
<1>0. state \in StateType /\ Agreement /\ dev \in DevType
  BY DEF CacherInv, PartInv, PartTypes
<1>1. state.paused /\ ~state.no_more_parts /\ state.successful = ~r
  BY DEF Waits
<1>2. state' = [state EXCEPT !.retry_part = r,
                             !.first = IF r THEN @ ELSE state.stop,
                             !.stop = IF r THEN @ ELSE @ + SlabsPerPart,
                             !.paused = FALSE,
                             !.waiting = {}]
  BY <1>1 DEF StartPart
<1>3. /\ state'.first = (IF r THEN state.first ELSE state.stop) /\ ~state'.paused
      /\ state'.no_more_parts = state.no_more_parts /\ state'.successful = state.successful
  BY <1>0, <1>2 DEF StateType
<1>4. dev.pc \notin Working
  BY <1>0, <1>1 DEF Agreement
<1>5. Underway' => Underway /\ dev.pc = "paused"
  BY <1>4 DEF Underway, Doomed
<1>6. ~Fresh' /\ (dev.pc = "paused" => (Fresh <=> ~r))
  BY <1>1, <1>3 DEF Fresh
<1>7. TapeGood'
  BY <1>3, <1>5, <1>6, <1>1 DEF TapeGood
<1>8. PartGood'
  <2>1. dev.pc \notin Rewinding /\ dev.pc \notin Seeking /\ dev.pc \notin {"next", "done"}
    BY <1>4 DEF Working, Setting, Writing, Rewinding, Seeking
  <2> QED BY <1>4, <2>1 DEF PartGood
<1> QED BY <1>7, <1>8

\* The main thread keeps it.
LEMMA TapeMain ==
  ASSUME CacherInv, TapeInv, ScribePartDone \/ Cancel \/ ScribeVolume
  PROVE  TapeInv'
<1>0. PartTypes /\ Agreement
  BY DEF CacherInv, PartInv
<1>1. CASE Cancel
  <2>1. UNCHANGED <<config, state, dev, part, tape>> /\ cancelled'
    BY <1>1 DEF Cancel
  <2>2. Doomed' /\ CancelComes'
    BY <2>1 DEF Doomed, CancelComes
  <2> QED BY <2>1, <2>2, TapeFrame
<1>2. CASE ScribeVolume
  <2>1. UNCHANGED <<dev, part, tape, cancelled>> /\ MayCancel /\ config'.cache = config.cache
    <3>1. config \in [cache : Caches, streaming : Streamings]
      BY <1>0 DEF PartTypes
    <3> QED BY <1>2, <3>1 DEF ScribeVolume, MayCancel
  <2>2. Dones' = Dones /\ (Doomed <=> Doomed') /\ (CancelComes => CancelComes')
    BY <1>0, <2>1, MayCancelQueue
  <2>3. Waits(scribe.successful) /\ Dones = {}
    BY <1>0, <1>2 DEF ScribeVolume, Agreement
  <2>4. CASE StartPart(~scribe.successful)
    <3>1. PICK r \in BOOLEAN : r = ~scribe.successful
      BY <1>0 DEF PartTypes
    <3>2. Waits(~r)
      BY <1>0, <2>3, <3>1 DEF PartTypes, Waits
    <3>3. Doomed => cancelled
      BY <2>3 DEF Doomed
    <3> QED BY <2>1, <2>2, <2>3, <2>4, <3>1, <3>2, <3>3, TapeStartPart
  <2>5. CASE UNCHANGED state
    BY <2>1, <2>2, <2>5, TapeFrame
  <2> QED BY <1>2, <2>4, <2>5 DEF ScribeVolume
<1>3. CASE ScribePartDone
  <2> DEFINE msg == Head(queue)
  <2>1. /\ UNCHANGED <<config, dev, part, tape, cancelled, asked>> /\ queue' = Tail(queue)
        /\ msg.type = "PART_DONE" /\ queue # <<>>
        /\ IF ~msg.eof /\ msg.successful THEN StartPart(FALSE) ELSE UNCHANGED state
    BY <1>3 DEF ScribePartDone
  <2>2. Doomed => Doomed'
    BY <1>0, <2>1, HeadDoneQueue
  <2>3. CancelComes => CancelComes'
    BY <1>0, <2>1, HeadDoneQueue
  <2>4. CASE ~msg.eof /\ msg.successful
    <3>1. /\ 1 \in Dones /\ queue[1] = msg /\ msg.successful \in BOOLEAN
          /\ Dones' \subseteq Nat \ {0} /\ \A i \in Dones' : i + 1 \in Dones
      BY <1>0, <2>1, HeadDoneQueue
    <3>2. Waits(msg.successful) /\ \A j \in Dones : 1 = j
      BY <1>0, <2>4, <3>1 DEF Agreement
    <3>3. Waits(~FALSE)
      BY <2>4, <3>2 DEF Waits
    <3>4. Dones = {1}
      BY <3>1, <3>2
    <3>5. Dones' = {}
      <4> SUFFICES ASSUME NEW i \in Dones' PROVE FALSE
        OBVIOUS
      <4>1. i + 1 \in Dones /\ i \in Nat \ {0}
        BY <3>1
      <4> QED BY <3>4, <4>1
    <3>6. Doomed => cancelled
      <4>1. ~ \E j \in 1..(1 - 1) : queue[j].type = "CANCEL"
        OBVIOUS
      <4> QED BY ONLY <3>4, <4>1, Zenon DEF Doomed
    <3> QED BY <2>1, <2>4, <3>3, <3>5, <3>6, TapeStartPart
  <2>5. CASE ~(~msg.eof /\ msg.successful)
    BY <2>1, <2>2, <2>3, <2>5, TapeFrame
  <2> QED BY <2>4, <2>5
<1> QED BY <1>1, <1>2, <1>3

\* The tape is the same until the part is over.
LEMMA TapeWork ==
  ASSUME TapeGood, dev.pc \in Working, dev'.pc \in Working \ {"start", "setup"}, tape' = tape,
         state'.first = state.first, ~state'.successful
  PROVE  TapeGood'
<1>1. dev.pc # "paused" /\ dev'.pc # "paused"
  BY DEF Working, Setting, Writing
<1>2. Underway /\ ~Fresh /\ ~Fresh'
  BY <1>1 DEF Underway, Fresh
<1>3. dev'.pc \notin {"paused", "start", "setup"}
  BY <1>1
<1> QED BY <1>2, <1>3 DEF TapeGood

\* The part is given up.
LEMMA TapeGiveUp ==
  ASSUME CacherInv, TapeGood, PartGood, NEW m \in BOOLEAN, NEW f \in BOOLEAN, GiveUp(m, f),
         UNCHANGED <<part, tape>>, dev.pc \in Working \ {"start"},
         f \/ (CancelComes' /\ dev.pc \in Rewinding)
  PROVE  TapeGood' /\ PartGood'
<1>0. state \in StateType /\ dev \in DevType
  BY DEF CacherInv, PartInv, PartTypes
<1>1. state'.first = state.first /\ state'.stop = state.stop /\ ~state'.successful
  BY <1>0 DEF GiveUp, StateType
<1>2. dev'.pc = "done" /\ dev'.failed = f /\ dev'.eof = dev.eof
  BY <1>0 DEF GiveUp, DevType
<1>3. dev'.pc \in Working \ {"start", "setup"}
  BY <1>2 DEF Working
<1>4. TapeGood'
  BY <1>1, <1>3, TapeWork
<1>5. \A i \in DOMAIN part' : part'[i] = state'.first + i - 1
  BY <1>1 DEF PartGood
<1>6. ~dev'.failed => ~dev'.eof /\ CancelComes'
  BY <1>2 DEF PartGood
<1> QED BY <1>2, <1>4, <1>5, <1>6 DEF PartGood, Rewinding, Seeking, Writing

\* The thread is where the part ends.
LEMMA TapeSeek ==
  ASSUME TapeGood, PartGood, UNCHANGED <<part, tape>>, dev.pc \in Working \ {"start"},
         dev'.pc \in Seeking, Len(part) = dev'.serial - state.first, ~dev'.eof,
         state'.first = state.first, ~state'.successful
  PROVE  TapeGood' /\ PartGood'
<1>1. dev'.pc \in Working \ {"start", "setup"}
  BY DEF Working, Seeking, Writing
<1>2. TapeGood'
  BY <1>1, TapeWork
<1>3. dev'.pc \notin Rewinding /\ dev'.pc # "next" /\ dev'.pc # "done"
  BY DEF Rewinding, Seeking, Writing
<1> QED BY <1>2, <1>3 DEF PartGood

\* slab_source_get writes nothing.
LEMMA TapeGet ==
  ASSUME CacherInv, TapeGood, PartGood, dev.pc \in Writing, NEW t, NEW d \in DevType,
         Len(part) = d.serial - state.first, ~d.eof, Found(t, d) \/ Get(t, d),
         UNCHANGED <<part, tape>>
  PROVE  TapeGood' /\ PartGood'
<1>0. Agreement /\ dev.pc \in Working \ {"start"}
  BY DEF CacherInv, PartInv, Working, Writing
<1>1. ~state.successful
  BY <1>0 DEF Agreement
<1>2. CASE GiveUp(TRUE, TRUE)
  BY <1>0, <1>2, TapeGiveUp
<1>3. CASE Found(t, d)
  <2>1. state' = state /\ dev'.pc \in Seeking /\ dev'.serial = d.serial /\ dev'.eof = d.eof
    BY <1>3 DEF Found, DevType, Seeking, Writing
  <2> QED BY <1>0, <1>1, <2>1, TapeSeek
<1>4. CASE state' = state /\
           dev' = [d EXCEPT !.pc = IF config.streaming = "DESIRED" /\ ~state.retry_part
                                   THEN "refill" ELSE "wait"]
  <2>1. dev'.pc \in Seeking /\ dev'.serial = d.serial /\ dev'.eof = d.eof
    BY <1>4 DEF DevType, Seeking, Writing
  <2> QED BY <1>0, <1>1, <1>4, <2>1, TapeSeek
<1> QED BY <1>2, <1>3, <1>4 DEF Get

\* The head of the loop over the parts, its end, and the start of a part.
LEMMA TapePaused ==
  ASSUME CacherInv, TapeInv, DevicePaused \/ DeviceJoin \/ DeviceStart
  PROVE  TapeInv'
<1> SUFFICES ASSUME config.cache = "memory", TapeGood, PartGood
             PROVE  TapeGood' /\ PartGood'
  <2>1. config' = config
    BY DEF DevicePaused, DeviceJoin, DeviceStart
  <2> QED BY <2>1 DEF TapeInv
<1>0. state \in StateType /\ dev \in DevType /\ PartTypes
  BY DEF CacherInv, PartInv, PartTypes
<1>1. CASE DevicePaused /\ dev' = dev
  <2>1. UNCHANGED <<config, dev, cancelled, asked, queue, part, tape>>
    BY <1>1 DEF DevicePaused
  <2>2. state' = state \/ state' = [state EXCEPT !.waiting = @ \cup {"device"}]
    BY <1>1 DEF DevicePaused
  <2>3. \A x \in {"paused", "successful", "no_more_parts", "first", "stop"} : state'[x] = state[x]
    BY <1>0, <2>2 DEF StateType
  <2>4. Doomed' = Doomed /\ CancelComes' = CancelComes
    BY <2>1 DEF Doomed, CancelComes, Dones
  <2>5. TapeInv'
    BY <2>1, <2>3, <2>4, TapeFrame
  <2> QED BY <2>1, <2>5 DEF TapeInv
<1>2. CASE (DevicePaused \/ DeviceJoin) /\ UNCHANGED state /\ dev' \in {DevAt("join"), DevAt("ended")}
  <2>1. UNCHANGED <<state, part, tape>> /\ dev'.pc \in {"join", "ended"}
    BY <1>0, <1>2 DEF DevicePaused, DeviceJoin, DevAt, DevType
  <2>2. dev'.pc \notin Working /\ ~Underway'
    BY <2>1 DEF Underway, Working, Setting, Writing
  <2>3. TapeGood'
    BY <2>1, <2>2 DEF TapeGood
  <2>4. dev'.pc \notin Rewinding /\ dev'.pc \notin Seeking /\ dev'.pc # "next" /\ dev'.pc # "done"
    BY <2>1 DEF Rewinding, Seeking, Writing
  <2> QED BY <2>1, <2>2, <2>3, <2>4 DEF PartGood
<1>3. CASE DevicePaused /\ ~cancelled /\ ~state.paused /\ dev' = DevAt("start") /\ UNCHANGED state
  <2>1. UNCHANGED <<state, part, tape>> /\ dev.pc = "paused" /\ dev'.pc = "start"
    BY <1>0, <1>3 DEF DevicePaused, DevAt, DevType
  <2>2. Doomed <=> cancelled
    BY <1>3, <2>1, WorkingQuiet DEF CacherInv
  <2>3. Underway /\ ~Fresh /\ ~Fresh'
    BY <1>3, <2>1, <2>2 DEF Underway, Fresh
  <2>4. TapeGood'
    BY <2>1, <2>3 DEF TapeGood
  <2>5. dev'.pc \notin Rewinding /\ dev'.pc \notin Seeking
    BY <2>1 DEF Rewinding, Seeking, Writing
  <2> QED BY <2>1, <2>4, <2>5 DEF PartGood
<1>4. CASE DeviceStart
  <2>1. /\ dev.pc = "start" /\ part' = <<>> /\ tape' = tape
        /\ state' = [state EXCEPT !.successful = FALSE]
    BY <1>4 DEF DeviceStart
  <2>2. /\ state'.first = state.first /\ ~state'.successful
        /\ state'.no_more_parts = state.no_more_parts
    BY <1>0, <2>1 DEF StateType
  <2>3. dev'.pc \in {"setup", "done"} /\ ~dev'.eof /\ (dev'.pc = "done" => dev'.failed)
    <3>1. PICK ok \in BOOLEAN :
             dev' = [pc |-> IF ok THEN "setup" ELSE "done", serial |-> state.first,
                     slab |-> Null, eof |-> FALSE, set |-> FALSE, failed |-> ~ok]
      BY <1>4 DEF DeviceStart
    <3>2. CASE ok
      BY <3>1, <3>2
    <3>3. CASE ~ok
      BY <3>1, <3>3
    <3> QED BY <3>2, <3>3
  <2>4. Underway /\ ~Fresh /\ ~Fresh'
    BY <2>1, <2>3 DEF Underway, Fresh, Working, Setting
  <2>5. TapeGood'
    BY <2>1, <2>2, <2>3, <2>4 DEF TapeGood
  <2>6. dev'.pc \notin Seeking /\ dev'.pc # "next"
    BY <2>3 DEF Seeking, Writing
  <2>7. part' \in Seq(Int) /\ DOMAIN part' = {}
    BY <2>1
  <2> QED BY <2>1, <2>3, <2>5, <2>6, <2>7 DEF PartGood
<1> QED BY <1>1, <1>2, <1>3, <1>4 DEF DevicePaused, DeviceJoin

\* slab_source_setup and the wait for what streaming needs write nothing.
LEMMA TapeRewind ==
  ASSUME CacherInv, TapeInv, DeviceSetup \/ DeviceFd \/ DevicePrebuffer
  PROVE  TapeInv'
<1>u. UNCHANGED <<config, cancelled, part, tape>> /\ dev.pc \in Rewinding
  BY DEF DeviceSetup, DeviceFd, DevicePrebuffer, Rewinding
<1> SUFFICES ASSUME config.cache = "memory", TapeGood, PartGood
             PROVE  TapeGood' /\ PartGood'
  BY <1>u DEF TapeInv
<1>0. PartTypes /\ state \in StateType /\ dev \in DevType /\ Agreement /\ DeviceAt
  BY DEF CacherInv, PartInv, PartTypes
<1>w. dev.pc \in Working \ {"start"}
  BY <1>u DEF Working, Setting, Rewinding
<1>p. ~state.successful /\ part = <<>> /\ ~dev.eof /\ dev.serial = state.first
  BY <1>0, <1>u, <1>w DEF Agreement, DeviceAt, PartGood, Rewinding
<1>m. MayCancel
  BY DEF DeviceSetup, SetupFromDisk, DeviceFd, DevicePrebuffer, MayCancel
<1>1. CASE GiveUp(TRUE, FALSE) /\ (cancelled \/ xfer_cancel)
  <2>1. CancelComes'
    BY <1>1, <1>m, <1>u, CancelWillCome
  <2> QED BY <1>1, <1>u, <1>w, <2>1, TapeGiveUp
<1>2. CASE state' = state /\ dev' = [dev EXCEPT !.pc = "get", !.set = TRUE]
  <2>1. dev'.pc \in Seeking /\ dev'.serial = dev.serial /\ dev'.eof = dev.eof
    BY <1>0, <1>2 DEF DevType, Seeking, Writing
  <2>2. Len(part) = dev'.serial - state.first
    <3>1. Len(part) = 0 /\ state.first \in Nat
      BY <1>0, <1>p DEF StateType
    <3> QED BY <1>p, <2>1, <3>1
  <2> QED BY <1>2, <1>p, <1>u, <1>w, <2>1, <2>2, TapeSeek
<1>3. CASE state' = state /\ dev' = DevAt("prebuffer")
  <2>1. dev'.pc = "prebuffer" /\ dev'.eof = dev.eof
    BY <1>0, <1>3 DEF DevAt, DevType
  <2>2. dev'.pc \in Working \ {"start", "setup"}
    BY <2>1 DEF Working
  <2>3. TapeGood'
    BY <1>3, <1>p, <1>u, <1>w, <2>2, TapeWork
  <2>4. dev'.pc \notin Seeking /\ dev'.pc # "next" /\ dev'.pc # "done"
    BY <2>1 DEF Seeking, Writing
  <2>5. part' = <<>> /\ part' \in Seq(Int) /\ DOMAIN part' = {}
    BY <1>p, <1>u
  <2> QED BY <1>p, <2>1, <2>3, <2>4, <2>5 DEF PartGood
<1>4. CASE dev' = dev /\ \A x \in {"paused", "successful", "no_more_parts", "first", "stop"} :
                            state'[x] = state[x]
  <2>1. (CancelComes => CancelComes') /\ (Doomed <=> Doomed')
    BY <1>0, <1>m, <1>u, MayCancelQueue
  <2>2. TapeInv'
    BY <1>4, <1>u, <2>1, TapeFrame
  <2> QED BY <1>u, <2>2 DEF TapeInv
<1>5. CASE DeviceSetup
  <2>1. state' = state /\ dev' = SetUp
    BY <1>5 DEF DeviceSetup
  <2> QED BY <1>2, <1>3, <2>1 DEF SetUp
<1>6. CASE DeviceFd
  <2>1. \/ GiveUp(TRUE, FALSE) /\ (cancelled \/ xfer_cancel)
        \/ dev' = dev /\ state' = [state EXCEPT !.waiting = @ \cup {"device"}]
        \/ state' = state /\ dev' = SetUp
    BY <1>6 DEF DeviceFd
  <2>2. state' = [state EXCEPT !.waiting = @ \cup {"device"}] =>
           \A x \in {"paused", "successful", "no_more_parts", "first", "stop"} : state'[x] = state[x]
    BY <1>0 DEF StateType
  <2> QED BY <1>1, <1>2, <1>3, <1>4, <2>1, <2>2 DEF SetUp
<1>7. CASE DevicePrebuffer
  BY <1>1, <1>2, <1>3, <1>7 DEF DevicePrebuffer, DeviceWaits
<1> QED BY <1>5, <1>6, <1>7

\* A slab is written: it is the one of the serial the thread is at.
LEMMA TapeWrite ==
  ASSUME CacherInv, TapeInv, DeviceWrite
  PROVE  TapeInv'
<1>u. UNCHANGED <<config, train, cancelled, tape>> /\ dev.pc = "write"
  BY DEF DeviceWrite
<1> SUFFICES ASSUME config.cache = "memory", TapeGood, PartGood
             PROVE  TapeGood' /\ PartGood'
  BY <1>u DEF TapeInv
<1>0. state \in StateType /\ dev \in DevType /\ Agreement /\ DeviceAt /\ TmpFreed
  BY DEF CacherInv, PartInv, PartTypes
<1>w. dev.pc \in Working \ {"start"} /\ dev.pc \in Seeking
  BY <1>u DEF Working, Writing, Seeking
<1>s. ~state.successful /\ Len(part) = dev.serial - state.first /\ part \in Seq(Int)
  BY <1>0, <1>w DEF Agreement, PartGood
<1>1. CASE (GiveUp(FALSE, TRUE) \/ GiveUp(TRUE, TRUE)) /\ UNCHANGED part
  BY <1>1, <1>u, <1>w, TapeGiveUp
<1>2. CASE /\ part' = Append(part, train.slab[dev.slab].data)
           /\ dev' = [dev EXCEPT !.pc = "next", !.eof = (train.slab[dev.slab].data = Short)]
           /\ UNCHANGED state
  <2>1. dev.slab = train.device /\ train.device # Null /\ dev.serial = Pos("device")
    BY <1>0, <1>u DEF DeviceAt, TmpFreed
  <2>n. PICK ns \in Nat : ns = reader.next_serial
    BY CacherAssumption DEF CacherInv, TrainInv, ReaderAt
  <2>2. /\ Position(train, ns, "device") = train.slab[train.device].serial
        /\ train.slab[train.device].data = train.slab[train.device].serial
    BY <2>1, <2>n, PositionBound DEF CacherInv, TrainInv
  <2>3. train.slab[dev.slab].data = dev.serial
    BY <2>1, <2>2, <2>n DEF Pos
  <2>4. PICK n \in Nat : n = dev.serial
    BY <1>0 DEF DevType
  <2>5. PICK e \in BOOLEAN : e = (n = Slabs)
    OBVIOUS
  <2>6. dev' = [dev EXCEPT !.pc = "next", !.eof = e] /\ part' = Append(part, n)
    BY <1>2, <2>3, <2>4, <2>5 DEF Short
  <2>7. dev'.pc = "next" /\ dev'.eof = e /\ dev'.serial = n
    BY <1>0, <2>4, <2>6 DEF DevType
  <2>8. dev'.pc \in Working \ {"start", "setup"}
    BY <2>7 DEF Working, Writing
  <2>9. TapeGood'
    BY <1>2, <1>s, <1>u, <1>w, <2>8, TapeWork
  <2>10. PICK m \in Nat : m = Len(part)
    BY <1>s
  <2>11. /\ part' \in Seq(Int) /\ Len(part') = m + 1 /\ part'[m + 1] = n
         /\ DOMAIN part' = 1..(m + 1) /\ DOMAIN part = 1..m
         /\ \A i \in 1..m : part'[i] = part[i]
    BY <1>s, <2>6, <2>10
  <2>12. state'.first = state.first /\ n = state.first + m /\ state.first \in Nat
    BY <1>0, <1>2, <1>s, <2>4, <2>10 DEF StateType
  <2>13. \A i \in DOMAIN part' : part'[i] = state'.first + i - 1
    <3> SUFFICES ASSUME NEW i \in DOMAIN part'
                 PROVE  part'[i] = state'.first + i - 1
      OBVIOUS
    <3>1. CASE i = m + 1
      BY <2>11, <2>12, <3>1
    <3>2. CASE i # m + 1
      <4>1. i \in 1..m
        BY <2>11, <3>2
      <4>2. part[i] = state.first + i - 1
        BY <1>w, <2>11, <4>1 DEF PartGood
      <4> QED BY <2>11, <2>12, <4>1, <4>2
    <3> QED BY <3>1, <3>2
  <2>14. Len(part') = dev'.serial + 1 - state'.first
    BY <2>7, <2>11, <2>12
  <2>15. dev'.eof => dev'.serial = Slabs
    BY <2>5, <2>7
  <2>16. dev'.pc \notin Rewinding /\ dev'.pc \notin Seeking /\ dev'.pc # "done"
    BY <2>7 DEF Rewinding, Seeking
  <2> QED BY <2>9, <2>11, <2>13, <2>14, <2>15, <2>16 DEF PartGood
<1> QED BY <1>1, <1>2 DEF DeviceWrite

\* The thread looks for a slab, or has written the last one of the part.
LEMMA TapeNext ==
  ASSUME CacherInv, TapeInv, DeviceGet \/ DeviceAwait \/ DeviceRead \/ DeviceNext
  PROVE  TapeInv'
<1>u. UNCHANGED <<config, cancelled, part, tape>> /\ dev.pc \in Writing
  BY DEF DeviceGet, DeviceAwait, DeviceRead, DeviceNext, Writing
<1> SUFFICES ASSUME config.cache = "memory", TapeGood, PartGood
             PROVE  TapeGood' /\ PartGood'
  BY <1>u DEF TapeInv
<1>0. /\ PartTypes /\ state \in StateType /\ dev \in DevType /\ Agreement /\ DeviceAt /\ TmpFreed
      /\ state.first \in Nat /\ state.stop \in Nat
  BY DEF CacherInv, PartInv, PartTypes, StateType
<1>w. dev.pc \in Working \ {"start"} /\ ~state.successful
  <2>1. dev.pc \in Working \ {"start"}
    BY <1>u DEF Working, Writing
  <2> QED BY <1>0, <2>1 DEF Agreement
<1>1. CASE DeviceGet
  <2>1. dev.pc \in Seeking
    BY <1>1 DEF DeviceGet, Seeking, Writing
  <2>2. Len(part) = dev.serial - state.first /\ ~dev.eof
    BY <2>1 DEF PartGood
  <2> QED BY <1>0, <1>1, <1>u, <2>2, TapeGet DEF DeviceGet
<1>2. CASE DeviceAwait
  <2>1. dev.pc \in Seeking /\ dev.pc \in {"refill", "wait"}
    BY <1>2 DEF DeviceAwait, Seeking, Writing
  <2>2. Len(part) = dev.serial - state.first /\ ~dev.eof
    BY <2>1 DEF PartGood
  <2>3. GiveUp(TRUE, TRUE) \/ Found(train, dev) \/ (DeviceWaits(dev.pc) /\ UNCHANGED state)
    BY <1>2 DEF DeviceAwait
  <2>4. CASE DeviceWaits(dev.pc) /\ UNCHANGED state
    <3>1. dev' = dev
      BY <1>0, <2>4 DEF DeviceWaits, DevAt, DevType
    <3> QED BY <1>u, <1>w, <2>1, <2>2, <2>4, <3>1, TapeSeek
  <2>5. CASE GiveUp(TRUE, TRUE)
    BY <1>u, <1>w, <2>5, TapeGiveUp
  <2>6. CASE Found(train, dev)
    BY <1>0, <1>u, <2>2, <2>6, TapeGet
  <2> QED BY <2>3, <2>4, <2>5, <2>6
<1>3. CASE DeviceRead
  BY <1>0, <1>3 DEF DeviceRead, DeviceAt, TmpFreed
<1>4. CASE DeviceNext
  <2>1. PICK t : t = IF dev.slab = train.device THEN NextSlab(train, "device") ELSE train
    OBVIOUS
  <2>2. PICK n \in Nat : n = dev.serial /\ n <= Slabs
    BY <1>0, <1>u DEF DevType, DeviceAt
  <2>3. PICK n1 \in 0..(Slabs + 1) : n1 = n + 1
    BY <2>2, CacherAssumption
  <2>4. PICK d : d = [dev EXCEPT !.serial = n1, !.slab = Null]
    OBVIOUS
  <2>5. Null \in Addr
    BY CacherAssumption DEF Null, Addr
  <2>6. d \in DevType /\ d.serial = n1 /\ d.eof = dev.eof /\ d.failed = dev.failed
    BY <1>0, <2>4, <2>5 DEF DevType
  <2>7. d = [dev EXCEPT !.serial = @ + 1, !.slab = Null]
    BY <1>0, <2>2, <2>3, <2>4 DEF DevType
  <2>8. IF d.serial < state.stop /\ ~dev.eof THEN Get(t, d)
        ELSE train' = t /\ dev' = [d EXCEPT !.pc = "done"] /\ UNCHANGED state
    BY <1>4, <2>1, <2>7 DEF DeviceNext
  <2>9. /\ dev.pc = "next" /\ Len(part) = n + 1 - state.first /\ (dev.eof => n = Slabs)
        /\ n < state.stop
    <3>1. dev.pc = "next"
      BY <1>4 DEF DeviceNext
    <3> QED BY <1>0, <1>u, <2>2, <3>1 DEF PartGood, DeviceAt
  <2>10. CASE d.serial < state.stop /\ ~dev.eof
    <3>1. Len(part) = d.serial - state.first
      <4>1. Len(part) = n + 1 - state.first
        BY <2>9
      <4>2. d.serial = n + 1
        BY <2>3, <2>6
      <4> QED BY <1>0, <4>1, <4>2
    <3> QED BY <1>u, <2>6, <2>8, <2>10, <3>1, TapeGet
  <2>11. CASE ~(d.serial < state.stop /\ ~dev.eof)
    <3>1. state' = state /\ dev'.pc = "done" /\ dev'.eof = dev.eof
      BY <2>6, <2>8, <2>11 DEF DevType
    <3>2. dev'.pc \in Working \ {"start", "setup"}
      BY <3>1 DEF Working
    <3>3. TapeGood'
      BY <1>u, <1>w, <3>1, <3>2, TapeWork
    <3>4. dev.eof => Len(part) = Slabs + 1 - state.first
      BY <2>9
    <3>5. ~dev.eof => Len(part) = state.stop - state.first
      <4> SUFFICES ASSUME ~dev.eof PROVE Len(part) = state.stop - state.first
        OBVIOUS
      <4>1. ~(d.serial < state.stop)
        BY <2>11
      <4>2. d.serial = n + 1
        BY <2>3, <2>6
      <4>3. n < state.stop /\ Len(part) = n + 1 - state.first
        BY <2>9
      <4>4. n + 1 = state.stop
        BY <1>0, <2>2, <4>1, <4>2, <4>3
      <4> QED BY <1>0, <4>3, <4>4
    <3>6. dev'.pc \notin Rewinding /\ dev'.pc \notin Seeking /\ dev'.pc # "next"
      BY <3>1 DEF Rewinding, Seeking, Writing
    <3> QED BY <1>u, <1>w, <3>1, <3>3, <3>4, <3>5, <3>6 DEF PartGood
  <2> QED BY <2>10, <2>11
<1> QED BY <1>1, <1>2, <1>3, <1>4

\* u is s, of length f, and t, of length k, joined.
Joined(s, t, u, f, k) ==
    /\ u \in Seq(Int) /\ Len(u) = f + k /\ DOMAIN u = 1..(f + k)
    /\ \A i \in 1..f : u[i] = s[i]
    /\ \A i \in (f + 1)..(f + k) : u[i] = t[i - f]

\* And so is s \o t.
LEMMA JoinedSeq ==
  ASSUME NEW s \in Seq(Int), NEW t \in Seq(Int), NEW f \in Nat, f = Len(s), NEW k \in Nat, k = Len(t),
         NEW u, u = s \o t
  PROVE  Joined(s, t, u, f, k)
<1>1. u \in Seq(Int) /\ Len(u) = f + k
  OBVIOUS
<1>2. DOMAIN u = 1..(f + k)
  BY <1>1
<1>3. \A i \in 1..f : u[i] = s[i]
  OBVIOUS
<1>4. \A i \in (f + 1)..(f + k) : u[i] = t[i - f]
  OBVIOUS
<1> QED BY <1>1, <1>2, <1>3, <1>4 DEF Joined

\* A part that is reported as successful is joined to the tape.
LEMMA TapePartDone ==
  ASSUME CacherInv, TapeInv, DevicePartDone
  PROVE  TapeInv'
<1>u. UNCHANGED <<config, cancelled, asked, part>> /\ dev.pc = "done"
  BY DEF DevicePartDone
<1> SUFFICES ASSUME config.cache = "memory", TapeGood, PartGood
             PROVE  TapeGood' /\ PartGood'
  BY <1>u DEF TapeInv
<1>0. /\ PartTypes /\ state \in StateType /\ dev \in DevType /\ Agreement
      /\ state.first \in Nat /\ state.stop \in Nat
  BY DEF CacherInv, PartInv, PartTypes, StateType
<1>w. dev.pc \in Working \ {"start"}
  BY <1>u DEF Working
<1>s. ~state.successful /\ Dones = {}
  BY <1>0, <1>w, WorkingQuiet DEF CacherInv, Agreement
<1>l. Len(tape) = state.first /\ tape \in Seq(Int) /\ part \in Seq(Int)
  <2>1. Underway /\ ~Fresh
    BY <1>u, <1>w DEF Underway, Fresh
  <2> QED BY <2>1 DEF TapeGood, PartGood
<1>1. PICK failed \in {dev.failed, TRUE} :
          LET successful == IF failed THEN state.successful ELSE TRUE
              no_more == IF failed THEN state.no_more_parts ELSE dev.eof
          IN  /\ queue' = Append(queue, [type |-> "PART_DONE", successful |-> successful,
                                               eof |-> no_more])
              /\ tape' = IF successful THEN tape \o part ELSE tape
              /\ state' = PartOver(successful, no_more)
              /\ dev' = DevAt(IF no_more THEN "join" ELSE "paused")
  BY DEF DevicePartDone
<1>2. PICK successful \in BOOLEAN : successful = IF failed THEN state.successful ELSE TRUE
  BY <1>0 DEF StateType
<1>3. PICK no_more \in BOOLEAN : no_more = IF failed THEN state.no_more_parts ELSE dev.eof
  BY <1>0 DEF StateType, DevType
<1>4. /\ queue' = Append(queue, [type |-> "PART_DONE", successful |-> successful, eof |-> no_more])
      /\ tape' = IF successful THEN tape \o part ELSE tape
      /\ state' = PartOver(successful, no_more)
      /\ dev' = DevAt(IF no_more THEN "join" ELSE "paused")
  BY <1>1, <1>2, <1>3
<1>5. successful => ~dev.failed /\ no_more = dev.eof
  BY <1>0, <1>1, <1>2, <1>3, <1>s DEF DevType
<1>6. /\ state'.successful = successful /\ state'.no_more_parts = no_more
      /\ state'.paused = ~no_more /\ state'.first = state.first /\ state'.stop = state.stop
  <2>1. PICK W : W = IF no_more \/ cancelled THEN state.waiting ELSE state.waiting \cup {"device"}
    OBVIOUS
  <2>2. state' = [state EXCEPT !.successful = successful, !.no_more_parts = no_more,
                               !.paused = ~no_more, !.waiting = W]
    BY <1>0, <1>4, <2>1 DEF PartOver, StateType
  <2> QED BY <1>0, <2>2 DEF StateType
<1>7. dev'.pc \in {"join", "paused"} /\ (dev'.pc = "join" <=> no_more)
  BY <1>0, <1>4 DEF DevAt, DevType
<1>8. CancelComes => Doomed'
  <2> DEFINE m == [type |-> "PART_DONE", successful |-> successful, eof |-> no_more]
  <2>1. m \in [type : {"PART_DONE"}, successful : BOOLEAN, eof : BOOLEAN]
    OBVIOUS
  <2>2. queue' = Append(queue, m)
    BY <1>4
  <2> HIDE DEF m
  <2> QED BY <1>0, <1>s, <1>u, <2>1, <2>2, DoneQueue
<1>9. dev'.pc \notin Working
  BY <1>7 DEF Working, Setting, Writing
<1>10. Underway' => ~no_more /\ ~CancelComes
  BY <1>7, <1>8, <1>9 DEF Underway
<1>11. Fresh' <=> successful /\ ~no_more
  BY <1>6, <1>7 DEF Fresh
<1>12. PartGood'
  <2>1. dev'.pc \notin Rewinding /\ dev'.pc \notin Seeking /\ dev'.pc # "next" /\ dev'.pc # "done"
    BY <1>7 DEF Rewinding, Seeking, Writing
  <2> QED BY <1>9, <1>l, <1>u, <2>1 DEF PartGood
<1>13. dev'.pc \in {"paused", "start", "setup"} => ~state'.no_more_parts
  BY <1>6, <1>7
<1>14. CASE ~successful
  <2>1. tape' = tape
    BY <1>4, <1>14
  <2>2. Underway' => Len(tape') = state'.first
    BY <1>6, <1>l, <2>1
  <2>3. ~Fresh'
    BY <1>11, <1>14
  <2> QED BY <1>6, <1>12, <1>13, <1>14, <2>1, <2>2, <2>3 DEF TapeGood
<1>15. CASE successful
  <2>1. tape' = tape \o part
    BY <1>4, <1>15
  <2>2. PICK k \in Nat : k = Len(part)
    BY <1>l
  <2>3. PICK f \in Nat : f = state.first /\ f = Len(tape)
    BY <1>0, <1>l
  <2>4. /\ tape' \in Seq(Int) /\ Len(tape') = f + k /\ DOMAIN tape' = 1..(f + k)
        /\ \A i \in 1..f : tape'[i] = tape[i]
        /\ \A i \in (f + 1)..(f + k) : tape'[i] = part[i - f]
    <3>1. Joined(tape, part, tape', f, k)
      BY <1>l, <2>1, <2>2, <2>3, JoinedSeq
    <3> QED BY <3>1 DEF Joined
  <2>5. \A i \in 1..f : tape[i] = i - 1
    BY <1>l, <2>3 DEF TapeGood
  <2>6. \A i \in 1..k : part[i] = f + i - 1
    <3>1. DOMAIN part = 1..k
      BY <1>l, <2>2
    <3>2. \A i \in DOMAIN part : part[i] = state.first + i - 1
      BY <1>w DEF PartGood
    <3> QED BY <2>3, <3>1, <3>2
  <2>7. \A i \in DOMAIN tape' : tape'[i] = i - 1
    <3> SUFFICES ASSUME NEW i \in 1..(f + k) PROVE tape'[i] = i - 1
      BY <2>4
    <3>1. CASE i <= f
      BY <2>4, <2>5, <3>1
    <3>2. CASE ~(i <= f)
      <4>1. i \in (f + 1)..(f + k) /\ i - f \in 1..k
        BY <3>2
      <4>2. part[i - f] = f + (i - f) - 1
        BY <2>6, <4>1
      <4> QED BY <2>4, <4>1, <4>2
    <3> QED BY <3>1, <3>2
  <2>8. no_more => k = Slabs + 1 - f
    <3> SUFFICES ASSUME no_more PROVE k = Slabs + 1 - f
      OBVIOUS
    <3>1. dev.eof /\ ~dev.failed
      BY <1>5, <1>15
    <3> QED BY <1>u, <2>2, <2>3, <3>1 DEF PartGood
  <2>9. ~no_more => CancelComes \/ k = state.stop - f
    <3> SUFFICES ASSUME ~no_more, ~CancelComes PROVE k = state.stop - f
      OBVIOUS
    <3>1. ~dev.eof /\ ~dev.failed
      BY <1>5, <1>15
    <3> QED BY <1>u, <2>2, <2>3, <3>1 DEF PartGood
  <2>10. no_more => Len(tape') = Slabs + 1
    <3> SUFFICES ASSUME no_more PROVE Len(tape') = Slabs + 1
      OBVIOUS
    <3>1. k = Slabs + 1 - f
      BY <2>8
    <3> QED BY <2>4, <3>1, CacherAssumption
  <2>11. Underway' => Fresh' /\ Len(tape') = state'.stop
    <3> SUFFICES ASSUME Underway' PROVE Fresh' /\ Len(tape') = state'.stop
      OBVIOUS
    <3>1. ~no_more /\ Fresh'
      BY <1>10, <1>11, <1>15
    <3>2. k = state.stop - f /\ state'.stop = state.stop
      BY <1>6, <1>10, <2>9, <3>1
    <3> QED BY <1>0, <2>4, <3>1, <3>2
  <2>12. TapeGood'
    BY <1>6, <1>13, <2>4, <2>7, <2>10, <2>11 DEF TapeGood
  <2> QED BY <1>12, <2>12
<1> QED BY <1>14, <1>15

-----------------------------------------------------------------------------
(* The theorems.                                                           *)

\* The element is created with an empty train and paused.
LEMMA InitInv ==
  ASSUME Init
  PROVE  CacherInv
<1>n. Null \in Addr /\ 0 \in 0..Slabs /\ 0 \in 0..(Slabs + 1) /\ Nothing \in -1..Slabs
  BY CacherAssumption DEF Addr, Null, Nothing
<1>c. config \in [cache : Caches, streaming : Streamings]
  BY DEF Init
<1>1. FreeSlab \in SlabType /\ FreeSlab.refcount = 0
  BY <1>n DEF FreeSlab, SlabType
<1>2. /\ train.slab = [a \in Addresses |-> FreeSlab]
      /\ \A p \in Pointers : train[p] = Null
      /\ train \in TrainType
  BY <1>1, <1>n DEF Init, TrainType, Pointers
<1>3. Linked(train) = {}
  BY <1>1, <1>2 DEF Linked
<1>4. Placed(train) /\ Ordered(train) /\ Referenced(train)
  BY <1>2, <1>3 DEF Placed, Ordered, Referenced, Pointers
<1>5. reader = [pc |-> "alloc", next_serial |-> 0]
  BY DEF Init
<1>6. Fits(train, reader.next_serial)
  <2>1. max_slabs \in Nat
    BY <1>c, MaxSlabs
  <2> QED BY <1>2, <1>5, <2>1 DEF Fits, TrainLength, One, Pointers
<1>7. ReaderAt
  BY <1>2, <1>5, <1>n, CacherAssumption DEF ReaderAt, Pointers
<1>8. DiskAt
  <2>1. <<>> \in Seq(-1..Slabs)
    OBVIOUS
  <2> QED BY <2>1 DEF Init, DiskAt
<1>9. TrainInv
  BY <1>2, <1>4, <1>6, <1>7, <1>8 DEF TrainInv, Train
<1>10. \A p \in {"device", "mem"} : Pos(p) = 0
  BY <1>2, <1>5 DEF Pos, Position, One, Pointers
<1>11. PartTypes
  <2>1. queue \in Seq(XMsg)
    BY DEF Init
  <2>2. dev \in DevType
    BY <1>n DEF Init, DevType
  <2>3. state \in StateType
    BY DEF Init, StateType
  <2> QED BY <1>c, <2>1, <2>2, <2>3 DEF Init, PartTypes
<1>d. dev.pc = "paused" /\ dev.pc \notin Working
  BY DEF Init, Working, Setting, Writing
<1>12. Dones = {} /\ ~Doomed
  BY DEF Init, Dones, Doomed
<1>13. Agreement
  BY <1>12, <1>d DEF Init, Agreement, Waits
<1>14. Aligned
  <2>1. /\ state.first = 0 /\ state.stop = 0 /\ state.paused /\ state.successful
    BY DEF Init
  <2>2. Fresh
    BY <1>d, <2>1 DEF Fresh
  <2> QED BY <1>10, <2>1, <2>2, CacherAssumption DEF Aligned
<1>15. DeviceAt
  BY <1>d DEF DeviceAt, Writing
<1>16. TmpFreed
  BY <1>2, <1>d DEF Init, TmpFreed, Setting, Pointers
<1> QED BY <1>9, <1>11, <1>13, <1>14, <1>15, <1>16 DEF CacherInv, PartInv

\* A step of nobody.
LEMMA StutterInv ==
  ASSUME CacherInv, UNCHANGED vars
  PROVE  CacherInv'
<1>1. UNCHANGED <<config, train, state, reader, dev, disk, file, scribe, queue, main, cancelled,
                  asked>>
  BY DEF vars
<1>2. StateKept
  BY <1>1 DEF StateKept, CacherInv, PartInv, PartTypes
<1> QED BY <1>1, <1>2, BesideSelf, DeviceWaitsKeeps

\* Every step of the element, of its threads and of the Scribe keeps the invariant: the train is
\* linked and counted, the device is within the part, and the Scribe waits for what comes.
THEOREM CacherInvariant == Spec => []CacherInv
<1>1. Init => CacherInv
  BY InitInv
<1>2. CacherInv /\ [Next]_vars => CacherInv'
  BY ReaderKeeps, DiskKeeps, DeviceKeeps, CancelKeeps, CancelImplKeeps, ScribePartDoneKeeps,
     ScribeVolumeKeeps, StutterInv DEF Next, MainStep
<1> QED BY <1>1, <1>2, PTL DEF Spec

\* The state of the element, of its threads and of the Scribe is well formed: no count of
\* references falls below zero and no serial passes the end of the dump.
THEOREM CacherTypeCorrect == Spec => []CacherTypeOK
<1>1. CacherInv => CacherTypeOK
  BY InvTypes
<1> QED BY <1>1, CacherInvariant, PTL

\* The reference counts of the slabs are the number of pointers to them, whatever unref_slab,
\* next_slab, alloc_slab and release_part_cache do in whatever order, and there are never more
\* slabs than the limit and one to read the cache into.
THEOREM CacherSlabsAccounted == Spec => []SlabsAccounted
<1>1. CacherInv => SlabsAccounted
  BY TrainAccounted DEF CacherInv, TrainInv, PartInv, PartTypes
<1> QED BY <1>1, CacherInvariant, PTL

\* The assertions of start_part_impl hold: the Scribe starts a part only while the element is
\* paused and has one more, and a retry only after a failure.
THEOREM CacherScribeAgrees == Spec => []ScribeAgrees
<1>1. CacherInv => ScribeAgrees
  BY DEF CacherInv, PartInv, PartTypes, ScribeAgrees
<1> QED BY <1>1, CacherInvariant, PTL

\* With a cache in memory, whatever fails, is retried or cancelled, and however large the dump
\* and its parts are: the parts that are reported as successful, joined, are the beginning of the
\* dump, and the whole of it when the last one is reported.  With a cache on disk this is not so.
THEOREM CacherTapeHoldsDump == Spec => [](config.cache = "memory" => TapeHoldsDump)
<1>1. Init => TapeInv
  <2> SUFFICES ASSUME Init PROVE TapeGood /\ PartGood
    BY DEF TapeInv
  <2>1. /\ tape = <<>> /\ part = <<>> /\ dev.pc = "paused" /\ state.paused /\ state.successful
        /\ ~state.no_more_parts /\ state.stop = 0
    BY DEF Init
  <2>2. tape \in Seq(Int) /\ part \in Seq(Int) /\ DOMAIN tape = {} /\ Len(tape) = 0
    BY <2>1
  <2>3. Fresh
    BY <2>1 DEF Fresh
  <2>4. dev.pc \notin Working /\ dev.pc \notin Rewinding /\ dev.pc \notin Seeking
    BY <2>1 DEF Working, Setting, Writing, Rewinding, Seeking
  <2> QED BY <2>1, <2>2, <2>3, <2>4 DEF TapeGood, PartGood
<1>2. CacherInv /\ TapeInv /\ [Next]_vars => TapeInv'
  <2> SUFFICES ASSUME CacherInv, TapeInv, [Next]_vars PROVE TapeInv'
    OBVIOUS
  <2>1. CASE UNCHANGED vars
    <3>1. UNCHANGED <<config, state, dev, part, tape, queue, cancelled>>
      BY <2>1 DEF vars
    <3>2. Doomed' = Doomed /\ CancelComes' = CancelComes
      BY <3>1 DEF Doomed, CancelComes, Dones
    <3> QED BY <3>1, <3>2, TapeFrame
  <2>2. CASE DeviceStep
    BY <2>2, TapePaused, TapeRewind, TapeWrite, TapeNext, TapePartDone DEF DeviceStep
  <2> QED BY <2>1, <2>2, TapeOther, TapeMain DEF Next, MainStep
<1>3. TapeInv => (config.cache = "memory" => TapeHoldsDump)
  BY DEF TapeInv, TapeGood, TapeHoldsDump
<1> QED BY <1>1, <1>2, <1>3, CacherInvariant, PTL DEF Spec

=============================================================================
