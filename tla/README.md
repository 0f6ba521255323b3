# A verification of Amanda in TLA+

Amanda backs up a network of machines: a server plans and drives the dumps, a
daemon on every client runs them, and a transfer architecture moves the data to
holding disk and to tape.  This directory holds TLA+ models of the parts of it
whose correctness depends on the order in which things happen, the TLC runs
that check them, and proofs that TLAPS checks.  The models are written from the
code; `PROJECT.json` says which lines each definition stands for.

## The system

| part | where | state | operations | talks to |
|---|---|---|---|---|
| control protocol, server side | `common-src/protocol.c` | one `proto_t` per request: state function, two retry counters, timeout, times | `protocol_sendreq`, connect, send, receive, time out, conclude | amandad over the security layer; planner, dumper, amcheck, amfetchdump by continuation |
| amandad | `amandad-src/amandad.c` | `serviceq` of `active_service`: state function, handle, child, pipes, streams | accept, run, reply, reply again, relay streams, delete | the server; child processes over pipes |
| security layer | `common-src/security-util.c`, `*-security.c` | handles, registered receives, TCP connections and streams | send, receive with timeout, cancel, accept | everything above |
| event loop | `common-src/event.c` | registered events | register, release, wake up, loop | everything in C |
| transfer core | `xfer-src/xfer.c`, `xfer-element.c` | status, message queue, count of active elements, references | link, start, cancel, dispatch, wait | elements and their threads; the caller's main loop |
| transfer glue | `xfer-src/element-glue.c` | ring buffer, pipes, sockets, threads | push, pull, worker loops, finalise | its two neighbours |
| semaphores | `common-src/amsemaphore.c` | a value, a mutex, two condition variables | increment, decrement, adjust, set, wait for zero | transfer elements |
| transfer sources, filters, destinations | `xfer-src/source-*`, `filter-*`, `dest-*` | small | pull, push, cancel | transfer core, glue |
| taper destinations | `device-src/xfer-dest-taper-*.c` | slab train or ring, parts, device thread, disk cache | start part, retry part, cache, cancel | taper Scribe, devices |
| holding disk elements | `server-src/xfer-dest-holding.c`, `xfer-source-holding.c` | chunks | start chunk, continue on the next disk | chunker |
| driver | `server-src/driver.c`, `driverio.c` | run queues, dumper, chunker and taper tables, holding-disk allocations, bandwidth | schedule, results of the children, retries | dumper, chunker and taper over pipes |
| dumper | `server-src/dumper.c` | one dump | commands of the driver, header, relay | driver, amandad, chunker or taper |
| chunker, taper | `perl/Amanda/Chunker/*`, `perl/Amanda/Taper/*` | Scribe, Worker, Controller state | port-write, file-write, volumes, parts | driver, transfers, changers |
| retention, planner, catalogue, changers, devices, recovery, reports | see `PROJECT.json` | | | |

What is hard in it, and hard to test:

* the control protocol runs over UDP: packets are lost, repeated, late and out of
  order, and both ends have timers, retries and a give-up of their own
  (`protocol.c:477-606`, `amandad.c:900-1230`);
* amandad relays a child's pipes as they become ready, in pieces cut anywhere,
  with a rule on which of two pipes may be read first (`amandad.c:1420-1500`);
* transfers are threads joined by semaphores and by a lock-free ring, and may be
  cancelled at every step from every thread;
* completion of a transfer is a count of messages against starts that are still
  going on, and ends in freeing what the threads use;
* the driver keeps accounts of disk space and bandwidth that results of three
  kinds of children change in any order, and has to notice by itself that all its
  dumps wait for space (`driver.c:1516-1583`, `2259-2349`, `2531-2738`);
* the taper cacher has four threads on one list of counted slabs, of which two
  follow the part being written at their own pace, and goes back in it when a part
  has to be written again (`xfer-dest-taper-cacher.c`).

What makes each part correct, in one line: a request ends once, in bounded
traffic, and not before its patience is over; a service runs once for a request,
and reply, refusal and acknowledgement mean to one end what they mean to the
other; the header of a dump precedes it and nothing is lost; a semaphore loses no
wakeup; the ring is a queue; a transfer that is done has nobody left in it; the
driver's accounts of a holding disk are the sum of what its dumps hold, and a dump
that waits for space is served; the parts on tape, retried or not, join to the dump.

## Modules

`Wire` has the two directions of the network as bags of packets. `Protocol` and
`Amandad` extend it, and `ProtocolNet` composes them.

* **Protocol** - `protocol.c`. `proto[r]` is the `proto_t` of request `r`. One
  action per event callback: the state functions that `PA_CONTINUE` runs one after
  another in a callback are composed operators. `wait` is the event that is
  registered. Time is relative and saturates above the largest value that the
  code compares it with; a timer never fires early. `sent`, `finals`, `run` are
  history.
* **Amandad** - the request side of `amandad.c`. `serviceq[k]` is the
  `active_service` of the k-th run. `protocol_accept`, `s_sendack`, `s_repwait`,
  `s_processrep`, `s_sendrep`, `s_ackwait`, the timeouts and `service_delete`. A
  packet goes to the service that has a receive on its handle, and otherwise to
  `protocol_accept`, as in `udp_netfd_read_callback`.
* **ProtocolNet** - both, with loss and duplication. Delay and reordering lie in
  the choice of the packet that is received next.
* **AmandadStreams** - the data phase of a service: `s_ackwait` on its ACK and
  `process_readnetfd`. "sendbackup: info end" is two tokens, so that a read can cut
  it, and the search over pieces with `info_end_buf` is the code's.
* **AmSemaphore** implements **Semaphore**, what `amsemaphore.h` promises.
  Everything between lock and unlock, or wait, is a step; wakeups may be spurious.
* **GlueRing** implements **Fifo**, a bounded queue. The three steps of
  `push_buffer_impl` and of `pull_buffer_impl` interleave with each other and with
  cancellation; `finalize_impl` follows when the threads have ended. The
  semaphores appear by their promise.
* **Xfer** - `xfer.c` from `xfer_new` to the last `xfer_unref`. `pc[0]` is the main
  thread (also the caller), `pc[i]` the thread of element `i`. `xfer_start` starts
  elements one by one while those already started run; `xfer_cancel` is three
  unlocked steps from any thread; `xmsgsource_dispatch` handles one message per
  step and cancels one element per step. The elements themselves are taken from
  what `xfer-element.h` asks of `start` and `cancel`. A wait for `status_cond` is
  a step that waits for its condition, since every change of the status broadcasts
  under the mutex of the test.
* **HoldingDisk** - the accounts of holding-disk space in `driver.c`:
  `find_diskspace`, `assign_holdingdisk`, `adjust_diskspace`, `delete_diskspace`
  and the helpers, as operators on `ha` (the list `holdalloc`) and on the
  `assignedhd_t` array of a dump. Sizes are in blocks.
* **Driver** extends it: `driver.c` from the schedule to the end of the event loop.
  `drv` is one record with the driver's tables and queues and with what its
  children are doing. An action is one message of a child (or one other event) with
  the whole handler: the handlers never yield, so functions like `startaflush`,
  `continue_port_dumps` and `start_some_dumps`, which most handlers end with, are
  operators from a state to a state, or to a set of states where configuration
  (`dumporder`, `taperalgo`) decides; a loop over a queue is a fold of what it does to
  one dump. Dumpers, chunkers and the taper appear as the
  messages they may send in each of their states, including a chunker that gets no header
  (`ChunkNoHeader`), their death and a file system that is full. There is one taper, the flush thresholds are 0 and bandwidth
  is not limited.
* **TaperCacher** - `xfer-dest-taper-cacher.c` and the part of
  `Amanda::Taper::Scribe` that drives it. `train` is what `slab_mutex` protects,
  `state` what `state_mutex` protects; a step is what a thread does under a mutex up
  to the unlock or the wait, or between two of them. Slabs have addresses, counts and
  `next`; what a slab holds is the number of the piece of the dump, also in the cache
  file, so that `tape` (history) shows what was written. Messages reach the main
  thread through a queue, which orders a cancellation and the end of a part as the
  thread that caused both did. Memory, devices, volumes and the cache file may fail.
  A thread waits until a broadcast; spurious wakeups are left out, as every wait is a
  loop over its condition.
* **ProtocolNetProofs** (server, amandad, both, and the streams), **GlueRingProofs**
  (semaphore and ring), **XferProofs**, **TaperCacherProofs**, **HoldingDiskProofs**,
  **DriverProofs** and **DriverSpaceProofs** hold theorems, and **FoldFacts** the lemmas
  about loops; **MC...** modules and `.cfg` files are for TLC.

Definitions whose comment begins with "Mutation" are plausible bugs. Each takes
the place of the definition after it in a run that has to fail.

## Runs

| run | checks | instance | distinct states |
|---|---|---|---|
| `protocol_net` | `AtMostOneRunning GenuineReply NakLeavesNoService AckedMeansConcluded` | one request, two runs, a reset, two copies of a packet, a duplication, a receive error | 410,101 |
| `protocol_timed` | `TypeOK SendBound AckPatience RepPatience ConcludedOnce RequestConcludes ServiceEnds` | one request, one run, real timers, a receive error, fairness | 219,311 |
| `streams` | `StreamsTypeOK HeaderFirst SearchComplete NothingLost EndsAfterHeader` | four message tokens and two of data, failing accepts, dying child | 35,149 |
| `streams_dies` | `ShutDown` (violated) | the child ends before its info end | |
| `semaphore` | `NoLostWakeup Implements` | three threads, amounts 0 to 2 | 2,654 |
| `ring` | `SlotsAccounted IsFifo Drains` | three slots, seven buffers | 1,994 |
| `ring_hangs` | `CancelEndsThreads` (violated) | two slots, three buffers | |
| `xfer` | `XferTypeOK DoneMeansQuiet CallsStarted DrainsForEof NothingBehindDone StatusOrder WaitersReturn CancelCompletes` | three elements, of which the last pulls | 132,300 |
| `driver` | `DriverTypeOK SpaceAccounted UseMatchesReservation DumpersCounted OnePlace RoomServed` | two dumps of one host, a dump to flush, two holding disks, two dumpers, one fault | 353,665 |
| `driver_abort` | `AbortedIsRetried` (violated) | the same without flush and fault | |
| `cacher` | `CacherTypeOK SlabsAccounted TapeHoldsDump ScribeAgrees DumpEnds` | six slabs in parts of four, two in memory, either cache, two faults, a cancellation | 565,991 |
| `cacher_stale` | `TapeHoldsDump` (violated) | five slabs in parts of two, two in memory, disk cache, one fault | |

What the properties say is above each definition. Why the bounds are enough:

* *protocol_timed*: requests do not share state, so one request is all of them. Two
  REQ tries, one reset and two connection attempts give every transition of the
  counters (first, last and in between); `AckWait`, `RepWait` and `DropDead` are
  different, so that a confusion of two of them shows, and small enough for all
  interleavings of ticks and packets. Ages saturate at `AgeCap`, the least number that
  tells apart all that the code and the properties compare them with. One receive error
  takes the timeout of a service that waits for its ACK, which is the exception that
  `ServiceEnds` states, or its receive in `s_repwait`, which `s_sendrep` registers again. The theorems are for all values.
* *protocol_net*: the server's waits are 0, so every timeout may fire at any time.
  Two runs make it possible that a late REQ starts a service a second time, which
  is what the properties are about; one duplication and two copies let any one
  packet meet itself. Runs are interchangeable, hence the symmetry.
* *streams*: four tokens of text are enough for a false start, the info end cut
  between its halves, and text after it. `EndsAfterHeader` is about services whose
  streams were all accepted: without the message stream the data pipe is never read, and
  without the data stream the info end uses a NULL stream (`NullStream`).
* *semaphore*: three threads are two waiters for one broadcast and one who
  overtakes.
* *ring*: more than twice as many buffers as slots, so that both indices wrap twice.
* *xfer*: source, filter or glue, and destination; each may or may not have a
  thread, and the first two may or may not be able to generate an EOF. No bound is
  needed: a thread fails or ends once.
* *driver*: holding disks of four and three blocks, and dumps estimated at two that
  grow by any multiple of two blocks: a dump can be spread over both disks, both can
  wait for room at once, and then for a flush, for the other dump, or for the abort
  that breaks the deadlock. One dump prefers and one requires the holding disk. One
  fault is one child that dies or one disk that is full, at any time.
* *cacher*: parts of four slabs with two in memory, so that the disk cacher and the
  device are apart by less than a part, that a retry has to read from disk and from
  memory, and that prebuffering has to wait more than once; a second part, so that the
  cache is used again. Two faults are a failure during the retry of a part that
  failed. `MaxSlabCount` is one more than what `SlabsAccounted` allows to be needed.

`CHECK_DEADLOCK FALSE` stands where a system really stops: a service that is
deleted, a ring and a transfer that are freed, a run of the driver and a dump that
have ended. The control protocol always has
a tick or a new packet.

### Fairness

* *control protocol*: a timer that is registered fires (the event loop of either
  program), and `security_connect` answers. Nothing is assumed of the network, of
  the arrival of packets or of the child.
* *streams*: `event.c` calls back for a pipe that can be read; the ACK arrives.
  Nothing is assumed of the child except in the antecedent of a property.
* *ring*: a thread that can take a step does. Nobody has to cancel: `Drains`
  speaks of runs without a cancellation.
* *xfer*: the main loop runs and threads are scheduled. An element comes to its end
  by itself only when `xfer-element.h` obliges it to: upstream has ended, or it was
  cancelled and can generate or may expect an EOF. A source may go on for ever.
* *driver*: while a child has something to say, something happens; the event loop
  ends when nothing is registered. A run has finitely many steps, so that this is
  fairness to every child. Nobody has to die.
* *cacher*: the threads and the main loop run. The pushes of the upstream element and
  the volumes come by themselves or not at all: they are antecedents of `DumpEnds`.

## Proofs

All theorems are for every value of the constants, from the named assumptions:
numbers of tries are positive (`TriesAssumption`, `RepTriesAssumption`; the
configuration rejects others with `validate_positive`), times are naturals, the
amounts of a semaphore are naturals, a ring has at least one slot, a part has at least
one slab, and there are more addresses for slabs (`MaxSlabCount`) than the largest
`max_slabs` of the constructor, which stands for a `malloc` that may or may not fail but
never for want of addresses. The numbers of buffers, slabs and faults that bound the runs
are arbitrary here.

* `ProtocolNetProofs`, the server alone: `TypeCorrect`, `ProtocolInvariant`, `SendBounded`,
  `AckPatient`, `RepPatient`, `ConcludesOnce`. None of the last four is inductive.
  `Inv` says of each request, by the event it waits for, how counters, timer and
  ages are related: the REQs sent and those still in the budget of both counters
  do not exceed `ReqTries * (ResetTries + 1)`; age and what is left of the timer
  cover the waits already spent; and, in `s_repwait`, both the timer and the
  timeout that a stray packet would register again reach `RepWait` after the REQ.
  One lemma per action, since each touches one request.
* `ProtocolNetProofs`, the client alone: `ClientTypeCorrect` and `RunsOnce`, for an amandad with an
  arbitrary network.
* `ProtocolNetProofs`, both: the composed system implements each end's own
  specification (`NetImplementsServer`, `NetImplementsClient`: every step of
  `NetNext` is a step of the end, of its environment, or leaves it alone), which
  carries `SendBound` and `AtMostOneRunning` over. `HandshakeInv` then relates the
  two ends and all packets in flight: what a packet from the client says of its
  run stays true however late it is, because runs are not reused; an ACK is in
  flight only for a request that has its reply. The one packet that is not honest,
  amandad's NAK for an unexpected ACK, exists only when the request is over. From
  it follow `RepliesGenuine`, `NaksLeaveNoService` and `AcksMeanConcluded`.
* `GlueRingProofs`, the semaphore: `WakeupsNotLost` (inductive with the type invariant;
  the value may be below zero after an adjustment, and is only known to be an integer) and
  `ImplementsPromise`, the refinement, step by step.
* `GlueRingProofs`, the ring: `RingTypeCorrect` and `SlotsAreAccounted`, inductive with the
  type invariant, and `RingIsFifo`, the refinement of `Fifo`. `FifoInv` adds what the
  semaphores do not say: the buffers stored and not yet taken are `ring_used_sem` plus
  those that either thread holds between its steps, they lie in order from the tail, and
  the head is behind the last. So a slot that upstream has taken is none of theirs, and
  under the mapping the queue is the end of the history `pushed` that `got` does not
  have yet; a store is `Enqueue`, a take is `Dequeue`, everything else stutters.
* `ProtocolNetProofs`, the streams: `StreamsTypeCorrect`, `StreamsSearchComplete`,
  `StreamsHeaderFirst` and `StreamsNothingLost`, for any text in pieces of any size.
  `StreamsInv` says that what was relayed is a prefix of what the child wrote, that
  `info_end_buf` is the end of that prefix, and that `seen_info_end` is set if and only
  if the prefix has the info end: an info end that is cut by a read lies in the end
  that is kept and the piece that follows, and one that is in these lies in the text.
* `XferProofs`: `XferTypeCorrect`, `XferQuietWhenDone`, `XferCallsStarted`,
  `XferDrainsForEof`, `XferStatusOrder` and `XferNothingBehindDone`, for any number of
  elements. `XferInv` counts: `num_active_elements` is the threads alive plus the
  XMSG_DONEs in the queue. It also says which elements are started and which are
  cancelled at each turn of the two loops of the main thread, who holds a reference, and
  that behind every XMSG_ERROR, and every XMSG_CANCEL but one of the caller's, an
  XMSG_DONE is in the queue or still to come.
* `TaperCacherProofs`: `CacherTypeCorrect`, `CacherSlabsAccounted`,
  `CacherScribeAgrees` and `CacherTapeHoldsDump`, for any length of the dump and of its
  parts, any memory and any number of failures. `Train` says that the slabs from
  `oldest_slab` to `newest_slab` are linked with consecutive serials and have one
  reference for each pointer to them; there is a lemma for each operator of the train
  (`unref_slab`, `next_slab`, `alloc_slab`, `add_reader_slab_to_train`, the rewinding
  of either cache, `release_part_cache`). `PartInv` relates element, queue and Scribe.
  Its one surprising part is `Doomed`: a setup that fails during a cancellation is
  reported as a success and loses the temporary slab, and no harm is done only because
  the XMSG_CANCEL is in the queue before the XMSG_PART_DONE. `TapeInv` says how much of
  the dump is on the medium at each step of the device thread. `CacherTapeHoldsDump` is
  for the cache in memory: with a cache on disk the same property is false for some
  values of the constants (`cacher_stale`), and holds on the instance of `cacher`.
* `DriverProofs`: `DumpInOnePlace`, for any schedule, any dumps to flush, any holding
  disks, any number of dumpers and any deaths. `Inv` says where every dump is
  (`Placed`, `Queues`): a dump whose outcome is open is in exactly one of `runq`,
  `directq`, `tapeq`, `inprogress` and the taper's file; a queue has no dump twice. This
  is not inductive alone, since the handlers find the dump of a message through the
  tables: `DumperLinks` says that a dump in progress and its dumper point to each other
  and that a dumper without one has no result and no chunker process, `TaperLinks` the
  same of a dump directly to tape, `RoomLinks` that a dump in `roomq` has a chunker that
  waits (or is dead), `Inputs` that nothing was read that still is to be read. It holds
  while the driver is in its event loop; `Stopped` and `Over` are what is left when
  `waitpid` blocks it, when queue links broke after a death, and at the end. The
  handlers are compositions of C functions, so there is one lemma for each of these
  (`startaflush`, `allow_dump_dle`, `start_degraded_mode`, `continue_port_dumps`,
  `start_some_dumps`, `dumper_chunker_result`, `file_taper_result`,
  `dumper_taper_result` and their parts), and one for each message.
* `HoldingDiskProofs`: `FindDiskspaceIs`, for any holding disks, accounts and estimate:
  what `find_diskspace` promises on a disk is never more than what is free there, and the
  entries it returns are new ones, with nothing used (`Fresh`). The rest of the module is one lemma for each account function, about the sum
  over the entries of a dump (`assign_holdingdisk`, `adjust_diskspace`,
  `delete_diskspace`, NO-ROOM).
* `DriverSpaceProofs`: `SpaceIsAccounted` and `UseIsReserved`, on top of the invariant of
  `DriverProofs`. `Books` has a page for each dump (its entries are on real disks, none is
  used beyond its reservation, and the entry in use is one of them), what each dumper has
  in hand (what its chunker wrote and may write), and the balance of each disk
  (`allocated_space` is the sum over the dumps, less what was flushed of earlier runs, and
  within the disk). It is not inductive without the links of `DriverProofs`: the message of
  a chunker is booked on the dump its dumper points to, which must be the dump that has the
  reservation. Sums are over finite sets, and are related by induction on their size. There
  is again one lemma for each C function and one for each message.
* `FoldFacts` is a tool: what a loop computes that is written as `FoldLeft` of the
  community modules. `FoldRounds` says that there are states after each round, each the
  body applied to the one before, by induction on the rounds, for an operator that is a
  CONSTANT of the module; the driver's modules instantiate it for each loop.

The attempt to prove `RoomLinks` showed two errors of an earlier `Driver`, which let a
chunker that had died go on when the driver sent it ABORT or a dumper's result; the
code's message goes nowhere, and so does the model's now.

Only model-checked: all liveness (and `ENABLED`, on which fairness rests), which
TLAPS does not do; `TapeHoldsDump` with a cache on disk, which is not so for all
values; and of `Driver` its types and the count of dumpers per disk, `DriverTypeOK` and
`DumpersCounted`. The inductive invariants, and the type invariants of the semaphore, of
the ring and of amandad, are proved and not part of a run.

## Findings

1. *sendbackup that ends before its info end is never shut down*
   (`streams_dies`). The first pipe is read only after the info end
   (`amandad.c:1463`), so its end is never seen, against `amandad.c:1443`.
2. *A cancellation leaves a thread in a semaphore* (`ring_hangs`).
   `elt->cancelled` is looked at only before the wait (`element-glue.c:946`,
   `1080`), and a cancelled push drops the EOF without waking the puller, against
   `xfer-element.h:223-230` and `xfer.h:170`.
3. *The abort that breaks a deadlock blocks the driver* (`driver_abort`). After
   ABORT-FINISHED the driver waits in `waitpid` (`driver.c:2334`) for a chunker that
   it has not told to quit, against "It will be retried directly to tape"
   (`driver.c:1555`).
4. *A retry may write another part's data* (`cacher_stale`). If a part fits into
   memory, the device can finish it before the disk cache thread begins to cache it;
   the thread then takes the limit of the next part (`xfer-dest-taper-cacher.c:510`)
   and puts both parts into the file one after the other. A retry of the second
   begins at the beginning of the file (`704`) and writes the first part's slabs.

Observations made on the way, which no run is about:

* `udp_recvpkt_callback` cancels receive and timeout before it reports `S_ERROR`,
  and `protocol_recv` (`amandad.c:1408`) only logs it: a service in `s_ackwait` then
  never gives up. `ServiceEnds` states this as its exception.
* `finalize_impl` of the glue (`element-glue.c:1183`) loops on a value it does not
  change when the ring is not empty.
* `dumper_taper_result` and `start_degraded_mode` call neither `startaflush` nor
  `continue_port_dumps` (`driver.c:2215`, `1440`): when a direct dump ends, or degraded
  mode begins, the dumps that wait for room may be forgotten. `RoomServed` excepts
  exactly this (`WakeUpLost`) and the blocked `waitpid`.
* `reserved_space` is computed with an integer division by 100 (`driver.c:446`), so
  that only a reserve of 100 percent reserves anything.
* A dump that requires the holding disk and fits none is dropped from the queue
  without a FAIL line (`driver.c:1061`).
* A chunker that dies while its dump waits for room leaves it in `roomq`; a dumper that
  dies leaves its chunker waiting; a taper that dies between PORT-WRITE and PORT leaves
  its dump in progress. The properties of `Driver` say where they except these.
* A retry with a disk cache before the first slab of the part is in memory, as after
  a failure of `device_start_file`, fails `g_assert(self->oldest_slab != NULL)`
  (`xfer-dest-taper-cacher.c:656`) or follows a null pointer in the loop after it.
* When `slab_source_setup` fails because of a cancellation, the part is reported as
  successful (`failed` is not set, 902-903), and the temporary slab is lost. The Scribe
  ignores an empty successful part.
* `dumper->dp` is not reset when a dump ends, and `continue_port_dumps` takes the first
  dumper that points to the dump (`driver.c:1535`): after the death of a dumper whose dump
  is retried on another, CONTINUE goes to a chunker that is gone. `RoomServed` excepts
  deaths, and would find a wrong choice without one.
* With a memory cache, parts of one slab and a prebuffer of more than two, the train is
  full before the prebuffer is: `slab_source_prebuffer` looks for the end of the part
  only at the last slab it visits (605-611).

## Not modelled

Of the parts above: the exit of an idle amandad (`exit_check`, no service is
there then), the stream from the server to the child (`process_writenetfd`), the
text of `errfd`, a failure of `security_stream_auth` (no driver of the repository
reports one), TCP connections (`tcpm_*`), the file descriptor, socket and splice
paths of the glue, `link_elements`, and the file descriptors that neighbouring
elements swap; of the driver: bandwidth (interfaces), several tapers, flush
thresholds, the algorithms behind `dumporder` and `taperalgo` (any order is allowed),
log lines; of the cacher: `finalize_impl`, blocks within a slab, a part size of zero
(no cache). `serviceq` has as many runs as `Runs`, and history variables are in
no guard. Two defects are kept as nondeterministic outcomes without a property:
the use of a freed handle after `writebuf` fails (`amandad.c:731`) and the NULL
stream that the info end registers (`amandad.c:1482`).

The other components, with the reason for each, are in `PROJECT.json`.

## Plan

1. **Transfers.** `link_recurse` against "the cheapest linkage" over small sets of
   mechanism pairs; the worker loops of the glue; the splitter and DirectTCP
   destinations; the holding disk destination with ENOSPC and continuation; the
   recovery source.
2. **Driver.** An abstract specification of a dump's way above `Driver`; the Chunker
   and Taper controllers of `perl/Amanda` in place of the children's messages.
3. **Smaller ones.** `event.c` (release from a callback), the multiplexed streams
   of `tcpm_*`, `amflock-lnlock.c`, volume retention, delaying and promoting of
   dumps in `planner.c`.
4. **Proofs.** `DumpersCounted`, from `Books` and the links of `DriverProofs`, and with it
   `DriverTypeOK`. For the disk cache, `TapeHoldsDump` from a condition on the constants
   under which the cache file is never behind by a part.
