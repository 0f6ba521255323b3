----------------------------- MODULE HoldingDisk -----------------------------
(***************************************************************************)
(* The holding-disk accounts of server-src/driver.c: how the driver finds, *)
(* reserves, corrects and gives back the space that dumps take.            *)
(*                                                                         *)
(* Sizes are in blocks of DISK_BLOCK_KB.  ha is the list holdalloc as a    *)
(* function of the position of a holding disk in the configuration; holdp, *)
(* the array of assignedhd_t of a dump, is a sequence, empty for NULL.     *)
(***************************************************************************)
EXTENDS Integers, Sequences, SequencesExt, Functions

CONSTANTS DiskSize,    \* DiskSize[h]: disksize of holding disk h at the start
          ChunkSize    \* ChunkSize[h]: holdingdisk_get_chunksize

Hdisks == DOMAIN DiskSize

\* A chunk holds its header and data.
ASSUME HoldingAssumption ==
    /\ DiskSize \in Seq(Nat)
    /\ ChunkSize \in [Hdisks -> Nat \ {0, 1}]

NoDisk == 0

\* free space of a holding disk, which is negative when it is over-promised
Free(ha, h) == ha[h].disksize - ha[h].allocated_space

(***************************************************************************)
(* One header for each chunk: ((n-1)/chunksize)+1 of the C code, whose     *)
(* division rounds to zero, so that no data still has one header.          *)
(***************************************************************************)
Headers(h, n) == IF n = 0 THEN 1 ELSE ((n - 1) \div ChunkSize[h]) + 1

\* What one round of find_diskspace takes from holding disk h: the data, and the
\* entry, headers included.
Usable(ha, h) == Free(ha, h) - Headers(h, Free(ha, h))
Entry(h, dalloc) ==
    [data |-> dalloc,
     hd |-> [disk |-> h, used |-> 0, reserved |-> dalloc + Headers(h, dalloc)]]
Take1(ha, h, size) == Entry(h, IF Usable(ha, h) < size THEN Usable(ha, h) ELSE size)

\* The loop over holdalloc prefers h to g: fewest active dumpers, then the
\* biggest free space, then the order of the configuration.
Preferred(ha, h, g) ==
    \/ ha[h].allocated_dumpers < ha[g].allocated_dumpers
    \/ /\ ha[h].allocated_dumpers = ha[g].allocated_dumpers
       /\ \/ Free(ha, h) > Free(ha, g)
          \/ Free(ha, h) = Free(ha, g) /\ h <= g

\* The holding disk of the next round, NoDisk when all are full: pref, the one
\* the dump already writes to, needs one free block, any other needs two.
MinP(ha, taken, pref) ==
    LET fit == {h \in Hdisks \ taken : Free(ha, h) >= 2}
    IN  IF pref \in Hdisks \ taken /\ Free(ha, pref) >= 1 THEN pref
        ELSE IF fit = {} THEN NoDisk
        ELSE CHOOSE h \in fit : \A g \in fit : Preferred(ha, h, g)

\* A round of find_diskspace on holding disk h; r has the locals of the function:
\* the disks taken, the entries found and what is left to find.
Found(r, h, t) ==
    [r EXCEPT !.left = @ - t.data, !.taken = @ \cup {h}, !.result = Append(@, t.hd)]
Round(r, n) ==
    LET h == MinP(r.ha, r.taken, IF n = 1 THEN r.pref ELSE NoDisk)
    IN  IF r.left = 0 \/ h = NoDisk THEN r ELSE Found(r, h, Take1(r.ha, h, r.left))

\* find_diskspace: at most one entry for each holding disk, and pref counts in
\* the first round only; <<>> when the space does not suffice.
Enough(r) == IF r.left = 0 THEN r.result ELSE <<>>
FindDiskspace(ha, want, pref) ==
    Enough(FoldLeft(Round, [ha |-> ha, pref |-> pref, taken |-> {}, result |-> <<>>,
                            left |-> IF want < 2 THEN 2 ELSE want],
                    [n \in Hdisks |-> n]))

\* What the entries of holdp add up to on holding disk h.
OnDisk(holdp, field, h) ==
    SumFunction([k \in DOMAIN holdp |-> IF holdp[k].disk = h THEN holdp[k][field] ELSE 0])

Used(holdp) == SumFunction([k \in DOMAIN holdp |-> holdp[k].used])

\* assign_holdingdisk: the new entries are reserved and added to those of the
\* dump, the first one merged with the last of the dump on the same disk.
Merges(holdp, new) == holdp # <<>> /\ Last(holdp).disk = Head(new).disk

AssignHoldp(holdp, new) ==
    IF Merges(holdp, new)
    THEN [holdp EXCEPT ![Len(holdp)].reserved = @ + Head(new).reserved] \o Tail(new)
    ELSE holdp \o new

\* Mutation: the chunker starts with the last of the new entries.
AssignActiveLast(holdp, new) == Len(AssignHoldp(holdp, new))

\* its return value, the index of the entry the chunker writes to next
AssignActive(holdp, new) ==
    IF Merges(holdp, new) THEN Len(holdp) ELSE Len(holdp) + 1

AssignSpace(ha, new) ==
    [h \in Hdisks |->
        [ha[h] EXCEPT !.allocated_space = @ + OnDisk(new, "reserved", h)]]

\* adjust_diskspace: what was reserved and not used is given back.
AdjustSpace(ha, holdp) ==
    [h \in Hdisks |->
        [ha[h] EXCEPT !.allocated_space =
            @ + OnDisk(holdp, "used", h) - OnDisk(holdp, "reserved", h)]]

AdjustHoldp(holdp) == [i \in DOMAIN holdp |-> [holdp[i] EXCEPT !.reserved = holdp[i].used]]

\* Mutation: the files are unlinked, their space stays allocated.
DeleteSpaceKept(ha, holdp) == ha

\* delete_diskspace: the files are unlinked and their space given back.
DeleteSpace(ha, holdp) ==
    [h \in Hdisks |->
        [ha[h] EXCEPT !.allocated_space = @ - OnDisk(holdp, "used", h)]]

\* NO-ROOM: n blocks of an entry, and of its holding disk, do not exist.
ShortEntry(hd, n) == [hd EXCEPT !.used = @ - n, !.reserved = @ - n]
ShortDisk(ha, h, n) == [ha EXCEPT ![h].allocated_space = @ - n, ![h].disksize = @ - n]

\* The estimate after RQ-MORE-DISK: 5% more, rounded to a block of 32 KB, and
\* at least two blocks more than what was reserved.
MoreSize(act) ==
    LET est == ((((32 * act) \div 20) * 21) + 31) \div 32
    IN  IF est < act + 2 THEN est + 2 ELSE est
=============================================================================
