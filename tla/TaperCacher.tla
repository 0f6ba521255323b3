---------------------------- MODULE TaperCacher ----------------------------
(***************************************************************************)
(* device-src/xfer-dest-taper-cacher.c: the transfer destination that      *)
(* writes a dump to volumes in parts and caches each part, so that it can  *)
(* be written again on the next volume, together with the part of          *)
(* perl/Amanda/Taper/Scribe.pm that drives it.                             *)
(*                                                                         *)
(* Four threads share the slab train: the upstream element pushes slabs    *)
(* into it (reader), the device thread and, with a disk cache, the disk    *)
(* cache thread follow along it, and the main thread starts the parts and  *)
(* cancels.  A step is what a thread does under one of the two mutexes, up *)
(* to the unlock or the wait, or between two of them.  A thread that waits *)
(* for a condition variable is in its set of waiters until somebody        *)
(* broadcasts.  The reader is the only one to wait for slab_free_cond, and *)
(* starved says that it does.                                              *)
(*                                                                         *)
(* The dump is a number of full slabs and a last one that is not full, and *)
(* may be empty; what a slab holds is the number of the piece of the dump. *)
(***************************************************************************)
EXTENDS Integers, Sequences, FiniteSets

CONSTANTS Slabs,          \* full slabs in the dump
          SlabsPerPart,   \* slabs_per_part
          MaxMemory,      \* max_memory in slabs, rounded up
          MaxSlabCount,   \* bound: slabs at once, more than max_slabs
          MaxFaults,      \* bound: devices, files and volumes that fail
          Caches,         \* what part_cache_type may be
          Streamings      \* what the devices require

ASSUME CacherAssumption ==
    /\ Slabs \in Nat
    /\ SlabsPerPart \in Nat \ {0}
    /\ MaxMemory \in Nat
    /\ MaxSlabCount \in Nat /\ \A n \in {2, SlabsPerPart, MaxMemory} : n < MaxSlabCount
    /\ MaxFaults \in Nat
    /\ Caches \subseteq {"memory", "disk"}
    /\ Streamings \subseteq {"NONE", "DESIRED", "REQUIRED"}

VARIABLES
    config,      \* use_mem_cache or disk_cache_dirname, and streaming
    train,       \* what slab_mutex protects: slabs, pointers to them, waiters
    state,       \* what state_mutex protects, with its waiters
    reader,      \* where the thread upstream is
    dev,         \* the device thread and its locals
    disk,        \* the disk cache thread and its locals
    file,        \* the disk cache file and the two offsets
    scribe,      \* Amanda::Taper::Scribe
    queue,       \* the queue of the transfer: XMSG_CANCEL and XMSG_PART_DONE
    main,        \* where the main thread is in cancel_impl
    cancelled,   \* elt->cancelled
    asked,       \* xfer->cancelled
    part,        \* history: what was written to the file on the device
    tape,        \* history: the parts that were completed, joined
    faults

vars == <<config, train, state, reader, dev, disk, file, scribe, queue, main, cancelled,
          asked, part, tape, faults>>

Null == 0
Nothing == -1
Addresses == 1..MaxSlabCount
Pointers == {"oldest", "newest", "device", "disk", "mem", "reader", "tmp"}
Short == Slabs                     \* the last slab: size < slab_size

FreeSlab == [refcount |-> 0, serial |-> 0, next |-> Null, data |-> Nothing]

\* The constructor: a part is in memory as a whole if that is the cache, and
\* max_slabs is at least 2.
max_slabs ==
    LET m == IF config.cache = "memory" THEN SlabsPerPart ELSE MaxMemory
    IN  IF m < 2 THEN 2 ELSE m

MayFail == faults < MaxFaults

\* XMSG_CANCEL and XMSG_PART_DONE
XMsg == [type : {"CANCEL"}]
        \cup [type : {"PART_DONE"}, successful : BOOLEAN, eof : BOOLEAN]

-----------------------------------------------------------------------------
(* The slab train.  The operators take and return it: they run under slab_mutex. *)

\* Mutation: nobody hears that the oldest slab can be taken.
UnrefSlabSilently(t, s) == [t EXCEPT !.slab[s].refcount = @ - 1]

\* unref_slab
UnrefSlab(t, s) ==
    LET n == t.slab[s].refcount - 1
    IN  [t EXCEPT !.slab[s].refcount = n,
                  !.starved = @ /\ ~(n = 1 /\ s = t.oldest)]

\* Mutation: the slab the pointer moves to does not count it.
NextSlabUncounted(t, p) == [UnrefSlab(t, t[p]) EXCEPT ![p] = t.slab[t[p]].next]

\* next_slab: the pointer p moves on.
NextSlab(t, p) ==
    LET n == t.slab[t[p]].next
        t1 == IF n = Null THEN t ELSE [t EXCEPT !.slab[n].refcount = @ + 1]
    IN  [UnrefSlab(t1, t[p]) EXCEPT ![p] = n]

\* alloc_slab waits: the train is at its limit and its last slab is in use.
Throttled(t) ==
    /\ t.oldest # Null
    /\ t.slab[t.oldest].refcount > 1
    /\ t.slab[t.newest].serial - t.slab[t.oldest].serial + 1 >= max_slabs

\* alloc_slab, for the pointer p: the oldest slab again if nobody else has it.
Reusable(t) == t.oldest # Null /\ t.slab[t.oldest].refcount = 1

AllocSlab(t, p) ==
    LET s == IF Reusable(t) THEN t.oldest
             ELSE CHOOSE a \in Addresses : t.slab[a].refcount = 0
    IN  [t EXCEPT ![p] = s,
                  !.oldest = IF Reusable(t) THEN t.slab[s].next ELSE @,
                  !.slab[s].refcount = 1,
                  !.slab[s].next = Null,
                  !.slab[s].data = Nothing]

\* add_reader_slab_to_train: the other pointers take the slab if they have none.
AddReaderSlab(t) ==
    LET s == t.reader
        t1 == IF t.newest = Null THEN t
              ELSE [t EXCEPT !.slab[t.newest].next = s,
                             !.slab[s].refcount = @ + 1,
                             !.slab[t.newest].refcount = @ - 1]
        takers == {p \in {"disk", "mem", "device", "oldest"} :
                      /\ t[p] = Null
                      /\ p = "disk" => config.cache = "disk"
                      /\ p = "mem" => config.cache = "memory"}
    IN  [p \in DOMAIN t |->
            CASE p \in takers -> s
              [] p = "newest" -> s
              [] p = "reader" -> Null
              [] p = "waiting" -> {}
              [] p = "slab" -> [t1.slab EXCEPT ![s].refcount = @ + Cardinality(takers)]
              [] OTHER -> t1[p]]

\* slab_source_prebuffer: enough slabs are ahead of the device, or the last one
\* of those is the end of the part or of the dump.
Prebuffered(t) ==
    LET prebuffer_slabs == IF MaxMemory = 0 THEN 1 ELSE MaxMemory
        from == t.slab[t.device].serial
        newest == t.slab[t.newest].serial
    IN  \/ state.retry_part
        \/ /\ t.device # Null
           /\ \/ newest - from + 1 >= prebuffer_slabs
              \/ newest \in {Short, state.stop - 1}

-----------------------------------------------------------------------------
(* Init: start_impl has started the device thread, which starts the other. *)

Init ==
    /\ config \in [cache : Caches, streaming : Streamings]
    /\ train = [slab |-> [a \in Addresses |-> FreeSlab],
                oldest |-> Null, newest |-> Null, device |-> Null, disk |-> Null,
                mem |-> Null, reader |-> Null, tmp |-> Null,
                waiting |-> {}, starved |-> FALSE]
    /\ state = [paused |-> TRUE, retry_part |-> FALSE, successful |-> TRUE,
                no_more_parts |-> FALSE, first |-> 0, stop |-> 0, fd |-> FALSE,
                waiting |-> {}]
    /\ reader = [pc |-> "alloc", next_serial |-> 0]
    /\ dev = [pc |-> "paused", serial |-> 0, slab |-> Null, eof |-> FALSE,
              set |-> FALSE, failed |-> FALSE]
    /\ disk = [pc |-> IF config.cache = "disk" THEN "open" ELSE "ended", stop |-> 0]
    /\ file = [data |-> <<>>, wpos |-> 0, rpos |-> 0]
    /\ scribe = [pc |-> "volume", successful |-> TRUE]
    /\ queue = <<>>
    /\ main = "loop"
    /\ cancelled = FALSE
    /\ asked = FALSE
    /\ part = <<>>
    /\ tape = <<>>
    /\ faults = 0

Fails == MayFail /\ faults' = faults + 1
Works == UNCHANGED faults

\* xfer_cancel, by itself or from xfer_cancel_with_error: the first one counts.
xfer_cancel ==
    /\ asked' = TRUE
    /\ queue' = IF asked THEN queue ELSE Append(queue, [type |-> "CANCEL"])

-----------------------------------------------------------------------------
(* The thread upstream: push_buffer_impl, for buffers of the size of a slab. *)

\* alloc_slab for reader_slab and the serial; cancelled, or without memory, the
\* thread waits for the cancellation and pushes nothing more.
ReaderGets(t) ==
    \/ /\ ~cancelled /\ Throttled(t)
       /\ train' = [t EXCEPT !.starved = TRUE]
       /\ reader' = [reader EXCEPT !.pc = "alloc"]
       /\ Works /\ UNCHANGED <<asked, queue>>
    \/ /\ ~cancelled /\ ~Throttled(t) /\ ~Reusable(t)
       /\ Fails /\ xfer_cancel
       /\ train' = t
       /\ reader' = [reader EXCEPT !.pc = "stopped"]
    \/ /\ ~cancelled /\ ~Throttled(t)
       /\ train' = LET t1 == AllocSlab(t, "reader")
                   IN  [t1 EXCEPT !.slab[t1.reader].serial = reader.next_serial]
       /\ reader' = [pc |-> "push", next_serial |-> reader.next_serial + 1]
       /\ Works /\ UNCHANGED <<asked, queue>>
    \/ /\ cancelled
       /\ train' = t
       /\ reader' = [reader EXCEPT !.pc = "stopped"]
       /\ Works /\ UNCHANGED <<asked, queue>>

ReaderAlloc ==
    /\ reader.pc = "alloc" /\ ~train.starved
    /\ ReaderGets(train)
    /\ UNCHANGED <<config, state, dev, disk, file, scribe, main, cancelled, part, tape>>

\* A slab is full, or the dump is at its end.
ReaderPush ==
    /\ reader.pc = "push"
    /\ IF cancelled
       THEN /\ reader' = [reader EXCEPT !.pc = "stopped"]
            /\ UNCHANGED <<train, asked, queue, faults>>
       ELSE LET n == train.slab[train.reader].serial
                t == AddReaderSlab([train EXCEPT !.slab[train.reader].data = n])
            IN  IF n = Short
                THEN /\ train' = t
                     /\ reader' = [reader EXCEPT !.pc = "done"]
                     /\ UNCHANGED <<asked, queue, faults>>
                ELSE ReaderGets(t)
    /\ UNCHANGED <<config, state, dev, disk, file, scribe, main, cancelled, part, tape>>

-----------------------------------------------------------------------------
(* The disk cache thread. *)

DiskEnds == disk' = [disk EXCEPT !.pc = "ended"]

\* open_disk_cache_fds: it broadcasts, or asks for a cancellation.
DiskOpen ==
    /\ disk.pc = "open"
    /\ \/ /\ Works
          /\ state' = [state EXCEPT !.fd = TRUE, !.waiting = {}]
          /\ disk' = [disk EXCEPT !.pc = "slab"]
          /\ UNCHANGED <<asked, queue>>
       \/ Fails /\ xfer_cancel /\ DiskEnds /\ UNCHANGED state
    /\ UNCHANGED <<config, train, reader, dev, file, scribe, main, cancelled, part, tape>>

\* From the beginning of the file, the first slab of a part ...
DiskSlab ==
    /\ disk.pc = "slab" /\ "disk" \notin train.waiting
    /\ \/ /\ cancelled
          /\ Works /\ DiskEnds /\ UNCHANGED <<train, file, asked, queue>>
       \/ /\ ~cancelled
          /\ Fails /\ xfer_cancel /\ DiskEnds /\ UNCHANGED <<train, file>>
       \/ /\ ~cancelled
          /\ Works /\ UNCHANGED <<asked, queue>>
          /\ file' = [file EXCEPT !.wpos = 0]
          /\ IF train.disk = Null
             THEN train' = [train EXCEPT !.waiting = @ \cup {"disk"}] /\ UNCHANGED disk
             ELSE disk' = [disk EXCEPT !.pc = "current"] /\ UNCHANGED train
    /\ UNCHANGED <<config, state, reader, dev, scribe, main, cancelled, part, tape>>

\* Mutation: only the first part has to be waited for.
EarlyByPause == state.paused

Early == state.paused \/ train.slab[train.disk].serial > state.first

\* ... waits until that part is being written.
DiskCurrent ==
    /\ disk.pc = "current" /\ "disk" \notin state.waiting
    /\ \/ cancelled /\ DiskEnds /\ UNCHANGED state
       \/ /\ ~cancelled /\ Early
          /\ state' = [state EXCEPT !.waiting = @ \cup {"disk"}]
          /\ UNCHANGED disk
       \/ /\ ~cancelled /\ ~Early
          /\ disk' = [pc |-> "next", stop |-> state.stop]
          /\ UNCHANGED state
    /\ UNCHANGED <<config, train, reader, dev, file, scribe, main, cancelled, asked, queue, part,
                   tape, faults>>

\* The head of the inner loop, which waits for the next slab.
DiskFollows(t) ==
    \/ cancelled /\ train' = t /\ DiskEnds
    \/ /\ ~cancelled /\ t.disk = Null
       /\ train' = [t EXCEPT !.waiting = @ \cup {"disk"}]
       /\ disk' = [disk EXCEPT !.pc = "next"]
    \/ /\ ~cancelled /\ t.disk # Null
       /\ train' = t
       /\ disk' = [disk EXCEPT !.pc = "write"]

DiskNext ==
    /\ disk.pc = "next" /\ "disk" \notin train.waiting
    /\ DiskFollows(train)
    /\ UNCHANGED <<config, state, reader, dev, file, scribe, main, cancelled, asked, queue, part,
                   tape, faults>>

\* full_write, without the mutex.
DiskWrite ==
    /\ disk.pc = "write"
    /\ \/ /\ Works
          /\ LET n == file.wpos + 1
                 d == train.slab[train.disk].data
             IN  file' = [file EXCEPT !.wpos = n,
                              !.data = IF n > Len(@) THEN Append(@, d) ELSE [@ EXCEPT ![n] = d]]
          /\ disk' = [disk EXCEPT !.pc = "advance"]
          /\ UNCHANGED <<asked, queue>>
       \/ Fails /\ xfer_cancel /\ DiskEnds /\ UNCHANGED file
    /\ UNCHANGED <<config, train, state, reader, dev, scribe, main, cancelled, part, tape>>

DiskAdvance ==
    /\ disk.pc = "advance"
    /\ LET slab == train.slab[train.disk]
           t == NextSlab(train, "disk")
       IN  IF slab.data = Short THEN train' = t /\ DiskEnds
           ELSE IF slab.serial + 1 = disk.stop
                THEN train' = t /\ disk' = [disk EXCEPT !.pc = "slab"]
                ELSE DiskFollows(t)
    /\ UNCHANGED <<config, state, reader, dev, file, scribe, main, cancelled, asked, queue, part,
                   tape, faults>>

-----------------------------------------------------------------------------
(* The device thread. *)

DevAt(pc) == [dev EXCEPT !.pc = pc]

\* The wait at the head of the loop over the parts.
DevicePaused ==
    /\ dev.pc = "paused" /\ "device" \notin state.waiting
    /\ \/ cancelled /\ dev' = DevAt("join") /\ UNCHANGED state
       \/ /\ ~cancelled /\ state.paused
          /\ state' = [state EXCEPT !.waiting = @ \cup {"device"}]
          /\ UNCHANGED dev
       \/ ~cancelled /\ ~state.paused /\ dev' = DevAt("start") /\ UNCHANGED state
    /\ UNCHANGED <<config, train, reader, disk, file, scribe, main, cancelled, asked, queue, part,
                   tape, faults>>

\* device_thread_write_part as far as device_start_file.
DeviceStart ==
    /\ dev.pc = "start"
    /\ state' = [state EXCEPT !.successful = FALSE]
    /\ part' = <<>>
    /\ \E ok \in BOOLEAN :
          /\ IF ok THEN Works ELSE Fails
          /\ dev' = [pc |-> IF ok THEN "setup" ELSE "done", serial |-> state.first,
                     slab |-> Null, eof |-> FALSE, set |-> FALSE, failed |-> ~ok]
    /\ UNCHANGED <<config, train, reader, disk, file, scribe, queue, main, cancelled, asked, tape>>

\* The part is given up: no_more_parts tells a cancellation from the end of the medium.
GiveUp(no_more, failed) ==
    /\ state' = [state EXCEPT !.successful = FALSE, !.no_more_parts = no_more]
    /\ dev' = [dev EXCEPT !.pc = "done", !.failed = failed]

\* slab_source_setup is done but for the prebuffering.
SetUp == IF config.streaming = "NONE" THEN [dev EXCEPT !.pc = "get", !.set = TRUE]
                                      ELSE DevAt("prebuffer")

\* Mutation: the device keeps its count on the slab it leaves.
RewindMemoryOnly ==
    IF train.mem = Null THEN [train EXCEPT !.device = Null]
    ELSE [train EXCEPT !.device = train.mem, !.slab[train.mem].refcount = @ + 1]

\* slab_source_setup: a retry from memory goes back to the first slab of the part.
RewindMemory ==
    LET t1 == IF train.device = Null THEN train ELSE UnrefSlab(train, train.device)
    IN  IF train.mem = Null THEN [t1 EXCEPT !.device = Null]
        ELSE [t1 EXCEPT !.device = train.mem, !.slab[train.mem].refcount = @ + 1]

\* The slabs of this part that are still in the train.
Kept == {a \in Addresses : /\ train.slab[a].refcount > 0
                           /\ a \notin {train.reader, train.tmp}
                           /\ train.slab[a].serial >= state.first}

\* A retry from disk goes to the oldest slab of the part that is still in memory ...
RewindDisk ==
    LET s == CHOOSE a \in Kept : \A b \in Kept : train.slab[a].serial <= train.slab[b].serial
        t1 == [train EXCEPT !.device = s, !.slab[s].refcount = @ + 1]
    IN  IF train.device = Null THEN t1 ELSE UnrefSlab(t1, train.device)

\* ... and takes a slab to read the others into.  Before the first slab of the part
\* is there, it fails an assertion or follows a null pointer.
SetupFromDisk ==
    \/ /\ Kept # {}
       /\ train' = AllocSlab(RewindDisk, "tmp")
       /\ dev' = DevAt("fd")
       /\ Works /\ UNCHANGED <<state, asked, queue>>
    \/ /\ Kept # {} /\ ~Reusable(RewindDisk)
       /\ Fails /\ xfer_cancel
       /\ train' = RewindDisk
       /\ GiveUp(TRUE, FALSE)
    \/ /\ Kept = {}
       /\ dev' = DevAt("crashed")
       /\ Works /\ UNCHANGED <<train, state, asked, queue>>

DeviceSetup ==
    /\ dev.pc = "setup"
    /\ \/ /\ ~state.retry_part \/ config.cache = "memory"
          /\ train' = IF state.retry_part THEN RewindMemory ELSE train
          /\ dev' = SetUp
          /\ Works /\ UNCHANGED <<state, asked, queue>>
       \/ state.retry_part /\ config.cache = "disk" /\ SetupFromDisk
    /\ UNCHANGED <<config, reader, disk, file, scribe, main, cancelled, part, tape>>

\* The wait for disk_cache_read_fd, and the seek to the beginning.
DeviceFd ==
    /\ dev.pc = "fd" /\ "device" \notin state.waiting
    /\ \/ /\ cancelled /\ GiveUp(TRUE, FALSE)
          /\ Works /\ UNCHANGED <<file, asked, queue>>
       \/ /\ ~cancelled /\ ~state.fd
          /\ state' = [state EXCEPT !.waiting = @ \cup {"device"}]
          /\ Works /\ UNCHANGED <<dev, file, asked, queue>>
       \/ /\ ~cancelled /\ state.fd
          /\ file' = [file EXCEPT !.rpos = 0]
          /\ dev' = SetUp
          /\ Works /\ UNCHANGED <<state, asked, queue>>
       \/ /\ ~cancelled /\ state.fd
          /\ Fails /\ xfer_cancel
          /\ GiveUp(TRUE, FALSE)
          /\ UNCHANGED file
    /\ UNCHANGED <<config, train, reader, disk, scribe, main, cancelled, part, tape>>

DeviceWaits(pc) ==
    /\ train' = [train EXCEPT !.waiting = @ \cup {"device"}]
    /\ dev' = DevAt(pc)

\* slab_source_prebuffer from slab_source_setup.
DevicePrebuffer ==
    /\ dev.pc = "prebuffer" /\ "device" \notin train.waiting
    /\ \/ cancelled /\ ~state.retry_part /\ GiveUp(TRUE, FALSE) /\ UNCHANGED train
       \/ /\ ~cancelled \/ state.retry_part
          /\ Prebuffered(train)
          /\ dev' = [dev EXCEPT !.pc = "get", !.set = TRUE]
          /\ UNCHANGED <<train, state>>
       \/ ~cancelled /\ ~Prebuffered(train) /\ DeviceWaits("prebuffer") /\ UNCHANGED state
    /\ UNCHANGED <<config, reader, disk, file, scribe, main, cancelled, asked, queue, part, tape,
                   faults>>

\* slab_source_get, once there is a slab: it is this one, or an earlier one, on disk.
Found(t, d) ==
    /\ train' = t
    /\ \/ /\ d.serial = t.slab[t.device].serial
          /\ dev' = [d EXCEPT !.pc = "write", !.slab = t.device]
       \/ d.serial < t.slab[t.device].serial /\ dev' = [d EXCEPT !.pc = "read"]
    /\ UNCHANGED state

\* slab_source_get: at the head of the train, wait, and first for what streaming needs.
Get(t, d) ==
    \/ t.device # Null /\ Found(t, d)
    \/ /\ t.device = Null /\ cancelled
       /\ train' = t
       /\ GiveUp(TRUE, TRUE)
    \/ /\ t.device = Null /\ ~cancelled
       /\ train' = [t EXCEPT !.waiting = @ \cup {"device"}]
       /\ dev' = [d EXCEPT !.pc = IF config.streaming = "DESIRED" /\ ~state.retry_part
                                  THEN "refill" ELSE "wait"]
       /\ UNCHANGED state

DeviceGet ==
    /\ dev.pc = "get" /\ "device" \notin train.waiting
    /\ Get(train, dev)
    /\ UNCHANGED <<config, reader, disk, file, scribe, main, cancelled, asked, queue, part, tape,
                   faults>>

\* The two waits of slab_source_get.
DeviceAwait ==
    /\ dev.pc \in {"refill", "wait"} /\ "device" \notin train.waiting
    /\ LET ready == IF dev.pc = "refill" THEN Prebuffered(train) ELSE train.device # Null
       IN  \/ cancelled /\ GiveUp(TRUE, TRUE) /\ UNCHANGED train
           \/ ~cancelled /\ ready /\ Found(train, dev)
           \/ ~cancelled /\ ~ready /\ DeviceWaits(dev.pc) /\ UNCHANGED state
    /\ UNCHANGED <<config, reader, disk, file, scribe, main, cancelled, asked, queue, part, tape,
                   faults>>

\* slab_source_get_from_disk, without the mutex.
DeviceRead ==
    /\ dev.pc = "read"
    /\ \/ /\ file.rpos < Len(file.data)
          /\ Works
          /\ file' = [file EXCEPT !.rpos = @ + 1]
          /\ train' = [train EXCEPT !.slab[train.tmp].data = file.data[file.rpos + 1],
                                    !.slab[train.tmp].serial = dev.serial]
          /\ dev' = [dev EXCEPT !.pc = "write", !.slab = train.tmp]
          /\ UNCHANGED <<state, asked, queue>>
       \/ /\ IF file.rpos < Len(file.data) THEN Fails ELSE Works
          /\ xfer_cancel
          /\ GiveUp(TRUE, TRUE)
          /\ UNCHANGED <<train, file>>
    /\ UNCHANGED <<config, reader, disk, scribe, main, cancelled, part, tape>>

\* write_slab_to_device, without the mutex.
DeviceWrite ==
    /\ dev.pc = "write"
    /\ LET d == train.slab[dev.slab].data
       IN  \/ /\ ~cancelled /\ Works
              /\ part' = Append(part, d)
              /\ dev' = [dev EXCEPT !.pc = "next", !.eof = (d = Short)]
              /\ UNCHANGED state
           \/ ~cancelled /\ Fails /\ GiveUp(FALSE, TRUE) /\ UNCHANGED part
           \/ cancelled /\ Works /\ GiveUp(TRUE, TRUE) /\ UNCHANGED part
    /\ UNCHANGED <<config, train, reader, disk, file, scribe, queue, main, cancelled, asked, tape>>

\* The rest of the body of the loop and the beginning of the next one.
DeviceNext ==
    /\ dev.pc = "next"
    /\ LET t == IF dev.slab = train.device THEN NextSlab(train, "device") ELSE train
           d == [dev EXCEPT !.serial = @ + 1, !.slab = Null]
       IN  IF d.serial < state.stop /\ ~dev.eof
           THEN Get(t, d)
           ELSE train' = t /\ dev' = [d EXCEPT !.pc = "done"] /\ UNCHANGED state
    /\ UNCHANGED <<config, reader, disk, file, scribe, main, cancelled, asked, queue, part, tape,
                   faults>>

\* slab_source_free
FreeTmp(t) ==
    IF t.tmp = Null THEN t ELSE [t EXCEPT !.slab[t.tmp] = FreeSlab, !.tmp = Null]

\* release_part_cache: the cache begins at the slab the device is at.
ReleasePartCache(t) ==
    IF config.cache # "memory" \/ t.mem = Null THEN t
    ELSE LET t1 == [UnrefSlab(t, t.mem) EXCEPT !.mem = t.device]
         IN  IF t1.mem = Null THEN t1 ELSE [t1 EXCEPT !.slab[t1.mem].refcount = @ + 1]

\* Mutation: the thread does not pause.
PartOverRunning(successful, no_more) ==
    [state EXCEPT !.successful = successful, !.no_more_parts = no_more]

\* The state after a part: over, or paused until the next one.
PartOver(successful, no_more) ==
    [state EXCEPT !.successful = successful,
                  !.no_more_parts = no_more,
                  !.paused = ~no_more,
                  !.waiting = IF no_more \/ cancelled THEN @ ELSE @ \cup {"device"}]

\* part_done, the message about it, and the pause.  A slab source that was not set
\* up is not freed, and its slab is lost.
DevicePartDone ==
    /\ dev.pc = "done"
    /\ \E failed \in {dev.failed, TRUE} :
          LET successful == IF failed THEN state.successful ELSE TRUE
              no_more == IF failed THEN state.no_more_parts ELSE dev.eof
              t == IF dev.set THEN FreeTmp(train) ELSE train
          IN  /\ IF failed = dev.failed THEN Works ELSE Fails
              /\ queue' = Append(queue, [type |-> "PART_DONE", successful |-> successful,
                                               eof |-> no_more])
              /\ train' = IF successful /\ ~no_more THEN ReleasePartCache(t) ELSE t
              /\ tape' = IF successful THEN tape \o part ELSE tape
              /\ state' = PartOver(successful, no_more)
              /\ dev' = DevAt(IF no_more THEN "join" ELSE "paused")
    /\ UNCHANGED <<config, reader, disk, file, scribe, main, cancelled, asked, part>>

\* g_thread_join of the disk cache thread and XMSG_DONE.
DeviceJoin ==
    /\ dev.pc = "join" /\ disk.pc = "ended"
    /\ dev' = DevAt("ended")
    /\ UNCHANGED <<config, train, state, reader, disk, file, scribe, main, cancelled, asked, queue,
                   part, tape, faults>>

-----------------------------------------------------------------------------
(* The main thread. *)

\* start_part_impl, with its assertions.
StartPart(retry_part) ==
    IF ~state.paused \/ state.no_more_parts \/ retry_part = state.successful
    THEN main' = "crashed" /\ UNCHANGED state
    ELSE /\ state' = [state EXCEPT
                         !.retry_part = retry_part,
                         !.first = IF retry_part THEN @ ELSE state.stop,
                         !.stop = IF retry_part THEN @ ELSE @ + SlabsPerPart,
                         !.paused = FALSE,
                         !.waiting = {}]
         /\ UNCHANGED main

\* _xmsg_part_done: the end, a new volume, or at once the next part.
ScribePartDone ==
    /\ main = "loop" /\ queue # <<>> /\ Head(queue).type = "PART_DONE"
    /\ LET msg == Head(queue)
       IN  /\ scribe' = [pc |-> IF ~msg.eof /\ ~msg.successful THEN "volume" ELSE "running",
                         successful |-> msg.successful]
           /\ IF ~msg.eof /\ msg.successful THEN StartPart(FALSE) ELSE UNCHANGED <<state, main>>
    /\ queue' = Tail(queue)
    /\ UNCHANGED <<config, train, reader, dev, disk, file, cancelled, asked, part, tape, faults>>

\* _volume_cb: use_device_impl, which rejects another block size, and _start_part;
\* or there is no volume.
ScribeVolume ==
    /\ main = "loop" /\ scribe.pc = "volume"
    /\ scribe' = [scribe EXCEPT !.pc = "running"]
    /\ \/ /\ \E s \in Streamings : config' = [config EXCEPT !.streaming = s]
          /\ StartPart(~scribe.successful)
          /\ \/ Works /\ UNCHANGED <<asked, queue>>
             \/ Fails /\ xfer_cancel
       \/ /\ Fails /\ xfer_cancel
          /\ UNCHANGED <<config, state, main>>
    /\ UNCHANGED <<train, reader, dev, disk, file, cancelled, part, tape>>

\* Another element, or who uses the transfer, cancels it.
AskCancel ==
    /\ ~asked /\ xfer_cancel
    /\ UNCHANGED <<config, train, state, reader, dev, disk, file, scribe, main, cancelled, part,
                   tape, faults>>

\* XMSG_CANCEL: the transfer cancels its elements.
Cancel ==
    /\ main = "loop" /\ queue # <<>> /\ Head(queue).type = "CANCEL"
    /\ queue' = Tail(queue)
    /\ cancelled' = TRUE
    /\ main' = "slab_cond"
    /\ UNCHANGED <<config, train, state, reader, dev, disk, file, scribe, asked, part, tape,
                   faults>>

\* cancel_impl: the broadcasts under either mutex.
CancelSlab ==
    /\ main = "slab_cond"
    /\ train' = [train EXCEPT !.waiting = {}, !.starved = FALSE]
    /\ main' = "state_cond"
    /\ UNCHANGED <<config, state, reader, dev, disk, file, scribe, cancelled, asked, queue, part,
                   tape, faults>>

CancelState ==
    /\ main = "state_cond"
    /\ state' = [state EXCEPT !.waiting = {}]
    /\ main' = "loop"
    /\ UNCHANGED <<config, train, reader, dev, disk, file, scribe, cancelled, asked, queue, part,
                   tape, faults>>

-----------------------------------------------------------------------------
ReaderStep == ReaderAlloc \/ ReaderPush
DiskStep == DiskOpen \/ DiskSlab \/ DiskCurrent \/ DiskNext \/ DiskWrite \/ DiskAdvance
DeviceStep == \/ DevicePaused \/ DeviceStart \/ DeviceSetup \/ DeviceFd
              \/ DevicePrebuffer \/ DeviceGet \/ DeviceAwait \/ DeviceRead
              \/ DeviceWrite \/ DeviceNext \/ DevicePartDone \/ DeviceJoin
MainStep == ScribePartDone \/ Cancel \/ CancelSlab \/ CancelState

Crashed == main = "crashed" \/ dev.pc = "crashed"

Next ==
    /\ ~Crashed
    /\ ReaderStep \/ DiskStep \/ DeviceStep \/ MainStep \/ ScribeVolume \/ AskCancel

\* The threads run and what waits in the queue is handled.  Nothing makes the dump
\* go on or an operator bring a volume.
Fairness == /\ WF_vars(~Crashed /\ ReaderAlloc)
            /\ WF_vars(~Crashed /\ DiskStep)
            /\ WF_vars(~Crashed /\ DeviceStep)
            /\ WF_vars(~Crashed /\ MainStep)

Spec == Init /\ [][Next]_vars /\ Fairness

-----------------------------------------------------------------------------
(* Properties. *)

\* The variables have their types; no count of references falls below zero, and no
\* serial passes the end of the dump.
CacherTypeOK ==
    /\ config \in [cache : Caches, streaming : Streamings]
    /\ train.slab \in [Addresses -> [refcount : 0..7, serial : 0..Slabs,
                                     next : 0..MaxSlabCount, data : -1..Slabs]]
    /\ \A p \in Pointers : train[p] \in 0..MaxSlabCount
    /\ train.waiting \subseteq {"device", "disk"} /\ state.waiting \subseteq {"device", "disk"}
    /\ reader \in [pc : {"alloc", "push", "stopped", "done"}, next_serial : 0..(Slabs + 1)]
    /\ disk.pc \in {"open", "slab", "current", "next", "write", "advance", "ended"}
    /\ dev.serial \in 0..(Slabs + 1) /\ dev.slab \in 0..MaxSlabCount
    /\ main \in {"loop", "slab_cond", "state_cond", "crashed"}
    /\ queue \in Seq(XMsg)

\* What the comment at Slab says of the counts: they count the pointers to a slab.  So
\* no slab is taken for the reader, or freed, that somebody still uses, and unref_slab
\* never meets a count of one.  There are no more than max_slabs in the train and one
\* to read the cache into.
SlabsAccounted ==
    LET inUse == {a \in Addresses : train.slab[a].refcount > 0}
    IN  /\ \A a \in inUse :
              train.slab[a].refcount = Cardinality({p \in Pointers : train[p] = a})
                                     + Cardinality({b \in inUse : train.slab[b].next = a})
        /\ \A p \in {"device", "disk", "mem"} :
              train[p] # Null => train.slab[train[p]].refcount > 1
        /\ Cardinality(inUse) <= max_slabs + 1

\* Retries from the cache write what was lost: the parts that device_thread_write_part
\* reports as successful, joined, hold the dump from its beginning without a gap or a
\* repetition, and the whole of it when the last one is reported.
TapeHoldsDump ==
    /\ \A i \in DOMAIN tape : tape[i] = i - 1
    /\ state.successful /\ state.no_more_parts => Len(tape) = Slabs + 1

\* What the assertions of start_part_impl say: the Scribe starts a part only while
\* the element is paused and has one more, and they agree about the last part.
ScribeAgrees == main # "crashed"

\* The threads never all wait for one another: if the dump goes on and volumes are
\* brought, device_thread ends, whatever fails, is retried or cancelled, or the process
\* has failed the assertion of a retry before the first slab.
DumpEnds ==
    []<>(reader.pc # "push") /\ []<>(scribe.pc # "volume")
        => <>(dev.pc \in {"ended", "crashed"})

=============================================================================
