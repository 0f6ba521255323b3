------------------------------- MODULE Driver -------------------------------
(***************************************************************************)
(* server-src/driver.c: the scheduler of a backup run.  One process runs an *)
(* event loop; dumpers fetch dumps from the clients, each paired with a    *)
(* chunker that writes the dump to the holding disks, or with the taper    *)
(* that writes it directly to tape; the taper also flushes the dumps held. *)
(*                                                                         *)
(* drv holds the driver's globals and tables, and what its children are    *)
(* doing.  An action is one message of a child, or one other event, with   *)
(* the whole handler it triggers: a child waits for the answer to each     *)
(* message that needs one, and the handlers never yield.  The C functions  *)
(* that handlers call are operators from a state to a state or, where the  *)
(* choice is left open here (dumporder, taperalgo), to a set of states.    *)
(*                                                                         *)
(* Sizes are in blocks.  There is one taper, and the flush thresholds have *)
(* their default 0, so that an idle taper flushes whatever waits.          *)
(***************************************************************************)
EXTENDS HoldingDisk, FiniteSets

CONSTANTS
    Schedule,      \* the dumps of the schedule, in order
    FlushHoldp,    \* FlushHoldp[d]: the files of d, left by an earlier run
    Host,          \* Host[d]: the client of dump d
    EstSize,       \* EstSize[d]: the planner's estimate, with the header
    Holding,       \* Holding[d]: to_holdingdisk of d: auto, required or never
    Full,          \* the dumps of level 0
    NoDegr,        \* the dumps with no degraded level (degr_level is -1)
    InParallel,    \* the number of dumpers, and of chunkers
    MaxDumps,      \* maxdumps of a host
    RunTapes,      \* runtapes
    Reserve,       \* reserve, the percentage kept for degraded mode
    MaxFaults,     \* bound: children that die, and writes that find a holding
                   \* disk full
    Blocks         \* bound: by how many blocks the last part of a dump may
                   \* grow, or a holding disk prove smaller

Flush == DOMAIN FlushHoldp
Dles == ToSet(Schedule) \cup Flush
Dumpers == 1..InParallel
None == "none"

ASSUME DriverAssumption ==
    /\ Schedule \in Seq(Dles) /\ IsInjective(Schedule) /\ ToSet(Schedule) \cap Flush = {}
    /\ IsFiniteSet(Flush) /\ None \notin Dles
    /\ \A d \in Flush :    \* build_diskspace
          /\ FlushHoldp[d] \in Seq([disk : Hdisks, used : Nat, reserved : Nat])
          /\ \A k \in DOMAIN FlushHoldp[d] : FlushHoldp[d][k].used = FlushHoldp[d][k].reserved
    /\ EstSize \in [ToSet(Schedule) -> Nat \ {0}]
    /\ Holding \in [ToSet(Schedule) -> {"auto", "required", "never"}]
    /\ {InParallel, MaxDumps, RunTapes} \subseteq Nat \ {0}
    /\ Reserve \in 0..100 /\ MaxFaults \in Nat
    /\ Blocks \subseteq Nat \ {0}

TotalDisksize == SumFunction(DiskSize)
\* an integer division: only a reserve of 100 reserves anything
ReservedSpace == TotalDisksize * (Reserve \div 100)

VARIABLE drv

(***************************************************************************)
(* sched[d] is the sched_t of a dump, with to_holdingdisk as hold.  A      *)
(* dumper keeps dp after the dump ended; told: PORT-DUMP was sent.  proc   *)
(* is what a chunker process does: writing use blocks more, waiting for    *)
(* room, waiting for the dumper's status, told it, aborting, idle after an *)
(* abort, quit, or dead.  wrote is the size of the files of its dump.      *)
(* outcome is a history: how the driver parted with a dump.  A field that  *)
(* is set again before the code reads it is reset when it is last read.    *)
(***************************************************************************)
IdleDumper == [busy |-> FALSE, down |-> FALSE, dp |-> None, result |-> None,
               chunker |-> FALSE, told |-> FALSE]
NoChunker == [result |-> None, sendresult |-> FALSE, proc |-> None, use |-> 0, wrote |-> 0]

Init ==
    drv = [runq |-> <<>>, directq |-> <<>>, tapeq |-> <<>>, roomq |-> <<>>,
           ha |-> [h \in Hdisks |-> [disksize |-> DiskSize[h],
                                     allocated_space |-> 0,
                                     allocated_dumpers |-> 0]],
           sched |-> [d \in Dles |->
                        [est_size |-> IF d \in Flush THEN 0 ELSE EstSize[d],
                         act_size |-> IF d \in Flush THEN Used(FlushHoldp[d]) ELSE 0,
                         holdp |-> IF d \in Flush THEN FlushHoldp[d] ELSE <<>>,
                         activehd |-> 0, dumper |-> 0,
                         dump_attempted |-> 0, taper_attempted |-> 0,
                         no_space |-> FALSE,
                         hold |-> IF d \in Flush THEN "auto" ELSE Holding[d]]],
           dmp |-> [i \in Dumpers |-> IdleDumper],
           chk |-> [i \in Dumpers |-> NoChunker],
           taper |-> [mode |-> "init", done |-> FALSE, alive |-> TRUE, disk |-> None,
                      dumper |-> 0, port |-> FALSE, tape |-> None,
                      result |-> None, err |-> None],
           inprogress |-> {}, input |-> "flush", taper_started |-> FALSE,
           need_degraded |-> FALSE, degraded_mode |-> FALSE, current_tape |-> 0,
           pending_aborts |-> 0, delayed |-> <<>>, timer |-> None,
           blocked |-> FALSE, broken |-> FALSE, ended |-> FALSE,
           deaths |-> 0, noRooms |-> 0, outcome |-> [d \in Dles |-> "unread"]]

-----------------------------------------------------------------------------
(* Queues and modes.                                                       *)

MayFault(s) == s.deaths + s.noRooms < MaxFaults

schedule_done(s) == s.input = "done"
no_taper_flushing(s) == s.taper.mode # "file"

\* tape_action and idle_taper for an idle taper: it may start a flush or a
\* dump directly to tape.
CanFlush(s) == s.taper.mode = "idle" /\ ~s.taper.done /\ ~s.degraded_mode

\* the driver parts with dump d, whose sched_t it no longer reads
Parted(s, d, how) ==
    [s EXCEPT !.outcome[d] = how,
              !.sched[d] = [@ EXCEPT !.est_size = 0, !.act_size = 0, !.activehd = 0,
                                     !.dump_attempted = 0, !.taper_attempted = 0,
                                     !.no_space = FALSE, !.hold = "auto"]]

\* Full dumps are kept while they fit beside the reserve, then degraded, and
\* given up when they have no degraded level.  est_size stays that of the full;
\* a.full is the size of the full dumps kept.
DegradeDump(a, d) ==
    LET size == a.s.sched[d].est_size
        fits == ReservedSpace + a.full + size <= TotalDisksize
    IN  IF d \in Full /\ ~fits /\ d \in NoDegr
        THEN [a EXCEPT !.s = Parted([a.s EXCEPT !.runq = RemoveFirst(@, d)], d, "failed")]
        ELSE [a EXCEPT !.full = IF d \in Full /\ fits THEN @ + size ELSE @]

DegradeRunq(s) == FoldLeft(DegradeDump, [s |-> s, full |-> 0], s.runq).s

StartDegradedMode(s) ==
    LET need == s.need_degraded \/ s.taper.done
    IN  IF need /\ schedule_done(s) /\ ~s.degraded_mode
        THEN [DegradeRunq(s) EXCEPT !.need_degraded = TRUE, !.degraded_mode = TRUE]
        ELSE [s EXCEPT !.need_degraded = need]

\* startaflush: any of the dumps in tapeq, as taperalgo decides.
StartAFlush(s) ==
    IF CanFlush(s) /\ s.tapeq # <<>>
    THEN {[s EXCEPT !.tapeq = RemoveFirst(@, d),
                    !.taper = [@ EXCEPT !.mode = "file", !.disk = d, !.dumper = 0,
                                        !.result = None, !.err = None]] :
            d \in ToSet(s.tapeq)}
    ELSE {s}

-----------------------------------------------------------------------------
(* Granting holding-disk space.                                            *)

AssignHoldingdisk(s, d, new) ==
    LET holdp == s.sched[d].holdp
    IN  [s EXCEPT !.ha = AssignSpace(@, new),
                  !.sched[d].holdp = AssignHoldp(holdp, new),
                  !.sched[d].activehd = AssignActive(holdp, new)]

\* Mutation: the chunker that continues is not counted on its disk.
ContinueUncounted(s, i, d) ==
    LET hd == s.sched[d].holdp[s.sched[d].activehd]
    IN  [s EXCEPT !.chk[i] = IF @.proc = "room"
                             THEN [@ EXCEPT !.proc = "writing",
                                            !.use = hd.reserved - hd.used]
                             ELSE @]

\* chunker_cmd(CONTINUE) to the chunker of dumper i; a command to a chunker
\* that is gone is written to a closed descriptor.
Continue(s, i, d) ==
    LET hd == s.sched[d].holdp[s.sched[d].activehd]
    IN  [s EXCEPT !.ha[hd.disk].allocated_dumpers = @ + 1,
                  !.chk[i] = IF @.proc = "room"
                             THEN [@ EXCEPT !.proc = "writing",
                                            !.use = hd.reserved - hd.used]
                             ELSE @]

\* the first dumper that has, or last had, the dump
DumperOf(s, d) ==
    CHOOSE i \in Dumpers : s.dmp[i].dp = d /\ \A j \in 1..(i - 1) : s.dmp[j].dp # d

Granted(s, d, new) ==
    IF new = <<>> THEN s
    ELSE [Continue(AssignHoldingdisk(s, d, new), DumperOf(s, d), d)
            EXCEPT !.roomq = RemoveFirst(@, d)]
GrantRoom(s, d) ==
    LET sd == s.sched[d]
    IN  Granted(s, d, FindDiskspace(s.ha, sd.est_size - sd.act_size, Last(sd.holdp).disk))

Waiting(s) == {i \in Dumpers : s.dmp[i].busy /\ s.dmp[i].dp \in ToSet(s.roomq)}
Active(s) == {i \in Dumpers : s.dmp[i].busy /\ s.dmp[i].chunker} \ Waiting(s)

\* Mutation: degraded mode, where nothing is flushed, is not considered.
AllWaitUndegraded(s) ==
    /\ Waiting(s) # {} /\ Active(s) = {} /\ s.pending_aborts = 0
    /\ no_taper_flushing(s) /\ s.tapeq = <<>>

\* "case b": all dumps to holding disk wait for space that nobody will free.
AllWait(s) ==
    /\ Waiting(s) # {} /\ Active(s) = {} /\ s.pending_aborts = 0
    /\ \/ no_taper_flushing(s) /\ s.tapeq = <<>>
       \/ s.degraded_mode

\* ABORT, which a chunker that is gone does not answer
Abort(s, d) ==
    [s EXCEPT !.sched[d].no_space = TRUE, !.roomq = RemoveFirst(@, d),
              !.chk[s.sched[d].dumper].proc = IF @ = "dead" THEN "dead" ELSE "aborting",
              !.pending_aborts = @ + 1]

AbortSmallest(s) ==
    LET est(i) == s.sched[s.dmp[i].dp].est_size
        smallest == CHOOSE i \in Waiting(s) : \A j \in Waiting(s) :
                        est(i) < est(j) \/ (est(i) = est(j) /\ i <= j)
    IN  Abort(s, s.dmp[smallest].dp)

AbortIfAllWait(s) == IF AllWait(s) THEN AbortSmallest(s) ELSE s

ContinuePortDumps(s) == AbortIfAllWait(FoldLeft(GrantRoom, s, s.roomq))

-----------------------------------------------------------------------------
(* Starting dumps.                                                         *)

Delayed(s, d) == Host[d] \in ToSet(s.delayed)

client_constrained(s, d) ==
    Cardinality({e \in s.inprogress : Host[e] = Host[d]}) >= MaxDumps

Space(s, d) == FindDiskspace(s.ha, s.sched[d].est_size, NoDisk)

\* the dumps of runq that allow_dump_dle compares with the holding disks
Candidates(s) ==
    {d \in ToSet(s.runq) : /\ ~Delayed(s, d) /\ ~s.sched[d].no_space
                           /\ s.sched[d].hold # "never"}

Acceptable(s) ==
    {d \in Candidates(s) : Space(s, d) # <<>> /\ ~client_constrained(s, d)}

NoRoom(s) == {d \in Candidates(s) : Space(s, d) = <<>>}

\* the dumps for which cur_idle becomes IDLE_NO_DISKSPACE
Unfit(s) ==
    NoRoom(s) \cup {d \in ToSet(s.runq) : ~Delayed(s, d) /\ s.sched[d].no_space}

\* Mutation: the dump for directq stays in runq.
EvictStays(s, d) ==
    IF s.sched[d].hold = "required"
    THEN Parted([s EXCEPT !.runq = RemoveFirst(@, d)], d, "lost")
    ELSE [s EXCEPT !.directq = Append(@, d), !.sched[d].hold = "never"]

\* A dump that does not fit, with nobody to make room, leaves runq for directq;
\* one that requires the holding disk is put in no queue.
Evict(s, d) ==
    IF s.sched[d].hold = "required"
    THEN Parted([s EXCEPT !.runq = RemoveFirst(@, d)], d, "lost")
    ELSE [s EXCEPT !.runq = RemoveFirst(@, d), !.directq = Append(@, d),
                   !.sched[d].hold = "never"]
EvictUnfit(s, d) == IF d \in NoRoom(s) THEN Evict(s, d) ELSE s

(***************************************************************************)
(* host->start_t is five seconds from now: delayed has the hosts in order  *)
(* of start_t.  Elapsed: what time(NULL) may have let pass of it, told     *)
(* apart by the hosts of the dumps in the queues, the only ones looked at. *)
(***************************************************************************)
DelayHost(s, d) == [s EXCEPT !.delayed = Append(Remove(@, Host[d]), Host[d])]

Elapsed(s) ==
    LET waiting == {Host[d] : d \in ToSet(s.runq \o s.directq)}
    IN  {[s EXCEPT !.delayed = SubSeq(@, e + 1, Len(@))] :
            e \in {0} \cup {e \in DOMAIN s.delayed : s.delayed[e] \in waiting}}

\* What the driver does for a dump to holding disk up to PORT-WRITE; the
\* chunker answers PORT, or it fails and the dump is given a second chance.
ToHolding(t, i, d) ==
    LET first == t.sched[d].holdp[1]
    IN  DelayHost([t EXCEPT
            !.ha[first.disk].allocated_dumpers = @ + 1,
            !.runq = RemoveFirst(@, d), !.inprogress = @ \cup {d},
            !.sched[d].dumper = i,
            !.dmp[i] = [@ EXCEPT !.busy = TRUE, !.dp = d, !.result = None,
                                 !.chunker = TRUE, !.told = TRUE],
            !.chk[i] = [result |-> None, sendresult |-> FALSE, proc |-> "writing",
                        use |-> first.reserved, wrote |-> 0]], d)

NoPort(t, d) ==
    DelayHost(IF t.sched[d].dump_attempted < 2 THEN [t EXCEPT !.runq = Append(@, d)]
              ELSE Parted(t, d, "lost"), d)

DumpToHolding(s, i, d) ==
    {ToHolding(AssignHoldingdisk([s EXCEPT !.sched[d].act_size = 0], d, Space(s, d)), i, d)}
    \cup IF ~MayFault(s) THEN {}
         ELSE {NoPort([s EXCEPT
                 !.sched[d].act_size = 0, !.sched[d].dump_attempted = @ + 1,
                 !.dmp[i] = IdleDumper,
                 !.runq = RemoveFirst(@, d), !.deaths = @ + 1], d)}

DumpToTape(s, i, d) ==
    DelayHost([s EXCEPT
        !.directq = RemoveFirst(@, d), !.inprogress = @ \cup {d},
        !.sched[d].act_size = 0, !.sched[d].dumper = i,
        !.dmp[i] = [@ EXCEPT !.busy = TRUE, !.dp = d, !.result = None,
                             !.chunker = FALSE, !.told = FALSE],
        !.taper = [@ EXCEPT !.mode = "dump", !.disk = d, !.dumper = i, !.port = FALSE,
                            !.result = None, !.err = None]], d)

\* The round of start_some_dumps for dumper i.  a is the state with the locals
\* of the function: toHolding is dumper_to_holding > 0, as it was before the
\* first round, noSpace is idle_reason = IDLE_NO_DISKSPACE, stop its return.
StartDumper(a, i) ==
    LET s == a.s
        tapeable == IF CanFlush(s) THEN ToSet(s.directq) ELSE {}
        direct == {d \in tapeable : ~Delayed(s, d) /\ ~client_constrained(s, d)}
        late == SelectSeq(s.delayed, LAMBDA h :
                    \E d \in tapeable \cup ToSet(s.runq) : Host[d] = h)
        after(t, noSpace, D) ==
            IF D # {}
            THEN {[a EXCEPT !.s = u, !.noSpace = noSpace] :
                    u \in UNION {DumpToHolding(t, i, d) : d \in D}}
            ELSE {[a EXCEPT !.s = IF late = <<>> THEN u ELSE [u EXCEPT !.timer = Head(late)],
                            !.noSpace = noSpace, !.stop = late # <<>>] :
                    u \in IF noSpace THEN StartAFlush(t) ELSE {t}}
    IN  IF a.stop \/ s.dmp[i].busy \/ s.dmp[i].down THEN {a}
        ELSE IF direct # {} THEN {[a EXCEPT !.s = DumpToTape(s, i, d)] : d \in direct}
        ELSE after(IF s.tapeq = <<>> /\ ~a.toHolding /\ no_taper_flushing(s)
                   THEN FoldLeft(EvictUnfit, s, s.runq) ELSE s,
                   a.noSpace \/ Unfit(s) # {}, Acceptable(s))

StartRound(A, i) == UNION {StartDumper(a, i) : a \in A}

StartSomeDumps(s) ==
    LET toHolding == \E i \in Dumpers : s.dmp[i].busy /\ s.sched[s.dmp[i].dp].hold # "never"
    IN  IF ~s.taper_started THEN {s}
        ELSE {a.s : a \in FoldLeft(StartRound,
                {[s |-> [t EXCEPT !.timer = None], toHolding |-> toHolding,
                  noSpace |-> FALSE, stop |-> FALSE] : t \in Elapsed(s)},
                [i \in Dumpers |-> i])}

\* the calls that end most handlers
Reschedule(s) == UNION {StartAFlush(t) : t \in StartSomeDumps(s)}

-----------------------------------------------------------------------------
(* The end of a dump.                                                      *)

\* delete_diskspace
Deleted(s, d) ==
    [s EXCEPT !.ha = DeleteSpace(@, s.sched[d].holdp),
              !.sched[d].holdp = <<>>, !.sched[d].activehd = 0, !.sched[d].act_size = 0]

\* The sizes of the files go to the account of the dump (adjust_diskspace).
Adjusted(s, d, holdp) ==
    LET i == s.sched[d].dumper
        h == holdp[s.sched[d].activehd].disk
    IN  [s EXCEPT
            !.ha = AdjustSpace([s.ha EXCEPT ![h].allocated_dumpers = @ - 1], holdp),
            !.sched[d].holdp = AdjustHoldp(holdp), !.sched[d].act_size = Used(holdp),
            !.sched[d].dump_attempted = @ + 1, !.sched[d].dumper = 0,
            !.dmp[i] = [IdleDumper EXCEPT !.down = s.dmp[i].down, !.dp = d],
            !.inprogress = @ \ {d}]

\* Where the dump goes, t being the state it is adjusted in.
Queued(t, d, failed, wrote) ==
    IF failed /\ t.sched[d].dump_attempted <= 1
    THEN IF t.sched[d].no_space
         THEN [Deleted(t, d) EXCEPT !.directq = Append(@, d)]
         ELSE [Deleted(t, d) EXCEPT !.runq = Append(@, d)]
    ELSE IF wrote > 1
    THEN [t EXCEPT !.tapeq = Append(@, d)]
    ELSE Parted(Deleted(t, d), d, "failed")

\* waitpid for the chunker, which blocks unless that has quit or is dead.
Waited(t, i) ==
    IF t.chk[i].proc \notin {"quit", "dead"}
    THEN {[t EXCEPT !.blocked = TRUE]}
    ELSE Reschedule(ContinuePortDumps([t EXCEPT
            !.chk[i] = NoChunker,
            !.pending_aborts = IF t.chk[i].result = "ABORT-FINISHED" THEN @ - 1 ELSE @]))

\* Disk links are shared by the queues: a dump that is queued twice breaks them.
DumperChunkerResult(s, d) ==
    LET i == s.sched[d].dumper
        k == s.sched[d].activehd
        old == s.sched[d].holdp
        failed == s.dmp[i].result # "DONE" \/ s.chk[i].result # "DONE"
    IN  IF d \in ToSet(s.roomq) THEN {[s EXCEPT !.broken = TRUE]}
        ELSE Waited(
            Queued(Adjusted(s, d, [old EXCEPT ![k].used =
                                      s.chk[i].wrote - Used(SubSeq(old, 1, k - 1))]),
                   d, failed, s.chk[i].wrote), i)

FileTaperResult(s) ==
    LET d == s.taper.disk
        tries == s.sched[d].taper_attempted + 1
        t == [s EXCEPT !.sched[d].taper_attempted = tries,
                       !.taper = [@ EXCEPT !.mode = "idle", !.disk = None, !.result = None,
                                           !.err = None]]
        placed ==
            CASE s.taper.err = "input" /\ d \in Flush -> Parted(t, d, "held")
              [] s.taper.err = "input" /\ d \notin Flush ->
                    IF tries >= 2 THEN Parted(t, d, "failed")
                    ELSE IF s.sched[d].hold = "required" THEN Parted(t, d, "held")
                    ELSE [t EXCEPT !.directq = <<d>> \o @, !.sched[d].hold = "never",
                                   !.sched[d].dump_attempted = @ - 1]
              [] s.taper.err = "tape" ->
                    IF tries >= 2 THEN Parted(t, d, "failed")
                    ELSE [t EXCEPT !.tapeq = <<d>> \o @]
              [] OTHER -> IF s.taper.result = "DONE"
                          THEN Parted(Deleted(t, d), d, "taped")
                          ELSE Parted(t, d, "held")
    IN  Reschedule(ContinuePortDumps(placed))

DumperTaperResult(s) ==
    LET d == s.taper.disk
        i == s.sched[d].dumper
        ok == s.dmp[i].result = "DONE" /\ s.taper.result = "DONE"
        again == ~ok /\ s.sched[d].dump_attempted <= 0 /\ s.sched[d].taper_attempted <= 0
        t == [s EXCEPT
                !.sched[d].dump_attempted = @ + 1, !.sched[d].taper_attempted = @ + 1,
                !.sched[d].dumper = 0,
                !.dmp[i] = [IdleDumper EXCEPT !.down = s.dmp[i].down, !.dp = d],
                !.inprogress = @ \ {d},
                !.taper = [@ EXCEPT !.mode = "idle", !.disk = None, !.dumper = 0,
                                    !.port = FALSE, !.result = None, !.err = None]]
    IN  StartSomeDumps(IF again THEN [t EXCEPT !.directq = Append(@, d)]
                       ELSE Parted(t, d, IF ok THEN "taped" ELSE "failed"))

-----------------------------------------------------------------------------
(* Events.  Running: the driver is in its event loop.                      *)

Running == ~drv.blocked /\ ~drv.broken /\ ~drv.ended
Becomes(S) == \E s \in S : drv' = s

ReadHeld(s, d) == [s EXCEPT !.outcome[d] = None, !.tapeq = Append(@, d)]

ReadFlush ==
    /\ Running /\ drv.input = "flush"
    /\ Becomes(StartAFlush([FoldLeft(ReadHeld, drv, SetToSeq(Flush)) EXCEPT
                               !.input = "schedule"]))

ReadDump(s, d) ==
    IF Holding[d] = "never"
    THEN [s EXCEPT !.outcome[d] = None, !.directq = Append(@, d)]
    ELSE [s EXCEPT !.outcome[d] = None, !.runq = Append(@, d)]

ReadSchedule ==
    /\ Running /\ drv.input = "schedule"
    /\ LET s == [FoldLeft(ReadDump, drv, Schedule) EXCEPT !.input = "done"]
       IN  Becomes(Reschedule(StartDegradedMode(s)))

\* the timer of start_some_dumps, at start_t of the host named by timer
HandleDumpersTime ==
    /\ Running /\ drv.timer # None
    /\ LET e == CHOOSE e \in DOMAIN drv.delayed : drv.delayed[e] = drv.timer
       IN  Becomes(StartSomeDumps([drv EXCEPT !.delayed = SubSeq(@, e + 1, Len(@))]))

(* Chunkers.                                                               *)

\* handle_chunker_result and handle_dumper_result, once both have answered
Conclude(s, i) ==
    IF s.chk[i].result # None /\ s.dmp[i].result # None
    THEN DumperChunkerResult(s, s.dmp[i].dp) ELSE {s}

\* DUMPER-STATUS and the dumper's own result: the chunker is told
Tell(s, i) ==
    [s EXCEPT !.chk[i].proc = IF @ = "dead" THEN "dead"
                              ELSE IF s.dmp[i].result = "DONE" THEN "toldDONE"
                              ELSE "toldFAILED",
              !.chk[i].sendresult = FALSE]

\* More space for the dump, or the queue for room.
MoreOrWait(s, i, d, new) ==
    IF new # <<>> THEN {Continue(AssignHoldingdisk(s, d, new), i, d)}
    ELSE StartAFlush(ContinuePortDumps([s EXCEPT !.roomq = Append(@, d)]))

\* Entry k of dump d is full, and its chunker waits.
EntryFull(s, i, d, k) ==
    LET hd == s.sched[d].holdp[k]
    IN  [s EXCEPT !.ha[hd.disk].allocated_dumpers = @ - 1,
                  !.sched[d].holdp[k].used = hd.reserved,
                  !.chk[i].proc = "room", !.chk[i].use = 0]
NextEntry(s, d, k) == [s EXCEPT !.sched[d].activehd = k + 1]
Grown(s, d, est) == [s EXCEPT !.sched[d].act_size = est, !.sched[d].est_size = MoreSize(est)]

\* RQ-MORE-DISK: the active entry is full; the next entry of holdp is used, or more
\* space is looked for.
MoreDisk(s, i) ==
    LET d == s.dmp[i].dp
        k == s.sched[d].activehd
        full == EntryFull(s, i, d, k)
        est == s.sched[d].est_size
    IN  IF k < Len(s.sched[d].holdp) THEN {Continue(NextEntry(full, d, k), i, d)}
        ELSE MoreOrWait(Grown(full, d, est), i, d,
                        FindDiskspace(full.ha, MoreSize(est) - est, s.sched[d].holdp[k].disk))

ChunkFull(i) ==
    /\ Running /\ drv.chk[i].proc = "writing"
    /\ Becomes(MoreDisk([drv EXCEPT !.chk[i].wrote = @ + drv.chk[i].use], i))

\* n blocks of what the chunker may use do not exist: NO-ROOM, with the
\* RQ-MORE-DISK that follows at once and does not depend on what is in between.
ChunkNoRoom(i, n) ==
    /\ Running /\ drv.chk[i].proc = "writing" /\ n <= drv.chk[i].use
    /\ MayFault(drv)
    /\ LET d == drv.dmp[i].dp
           k == drv.sched[d].activehd
           hd == drv.sched[d].holdp[k]
           s == [drv EXCEPT !.chk[i].wrote = @ + drv.chk[i].use - n,
                            !.sched[d].holdp[k] = ShortEntry(hd, n),
                            !.ha = ShortDisk(@, hd.disk, n), !.noRooms = @ + 1]
       IN  Becomes(MoreDisk(s, i))

\* end of the data after n blocks: DUMPER-STATUS
ChunkEof(i, n) ==
    /\ Running /\ drv.chk[i].proc = "writing" /\ n <= drv.chk[i].use
    /\ LET s == [drv EXCEPT !.chk[i].wrote = @ + n, !.chk[i].use = 0,
                            !.chk[i].proc = "status"]
       IN  drv' = IF s.dmp[i].result = None THEN [s EXCEPT !.chk[i].sendresult = TRUE]
                  ELSE Tell(s, i)

\* what a chunker that has all the data and knows the dumper's status may answer
ChunkAnswers(i, r) ==
    /\ Running /\ drv.chk[i].proc \in {"toldDONE", "toldFAILED"}
    /\ \/ r = "DONE" /\ drv.chk[i].proc = "toldDONE"
       \/ r = "PARTIAL" /\ drv.chk[i].proc = "toldFAILED" /\ drv.chk[i].wrote > 1
       \/ r = "FAILED"
    /\ Becomes(Conclude([drv EXCEPT !.chk[i].result = r, !.chk[i].proc = "quit"], i))

\* The header of the dump does not come: the chunker cancels the dump and answers
\* FAILED before it has written anything, without DUMPER-STATUS.
ChunkNoHeader(i) ==
    /\ Running /\ drv.chk[i].proc = "writing" /\ drv.chk[i].wrote = 0
    /\ drv.sched[drv.dmp[i].dp].activehd = 1
    /\ Becomes(Conclude([drv EXCEPT !.chk[i].result = "FAILED", !.chk[i].use = 0,
                                    !.chk[i].proc = "quit"], i))

\* The chunker answers ABORT, and is not told to quit.
ChunkAbortFinished(i) ==
    /\ Running /\ drv.chk[i].proc = "aborting"
    /\ Becomes(Conclude([drv EXCEPT !.chk[i].result = "ABORT-FINISHED",
                                    !.chk[i].proc = "idle"], i))

\* BOGUS, after n more blocks of the file
ChunkDies(i, n) ==
    /\ Running /\ MayFault(drv) /\ drv.chk[i].result = None
    /\ drv.chk[i].proc # None /\ n <= drv.chk[i].use
    /\ Becomes(Conclude([drv EXCEPT !.chk[i].result = "BOGUS", !.chk[i].use = 0,
                                    !.chk[i].proc = "dead", !.chk[i].wrote = @ + n,
                                    !.deaths = @ + 1], i))

(* Dumpers.                                                                *)

\* The end of handle_dumper_result: the result goes to the chunker or the taper.
Forward(s, i) ==
    IF s.dmp[i].chunker
    THEN Conclude(IF s.chk[i].sendresult THEN Tell(s, i) ELSE s, i)
    ELSE IF s.taper.dumper = i /\ s.taper.result # None THEN DumperTaperResult(s) ELSE {s}

DumperResult(i, r) ==
    /\ Running /\ drv.dmp[i].busy /\ drv.dmp[i].told /\ drv.dmp[i].result = None
    /\ Becomes(Forward([drv EXCEPT !.dmp[i].result = r], i))

DumperDies(i) ==
    /\ Running /\ MayFault(drv) /\ drv.dmp[i].busy /\ drv.dmp[i].told
    /\ Becomes(Forward([drv EXCEPT !.dmp[i] = [@ EXCEPT !.busy = FALSE, !.down = TRUE,
                                                        !.result = "BOGUS"],
                                   !.deaths = @ + 1], i))

(* The taper.  handle_taper_result always ends with Reschedule.            *)

Writing == /\ drv.taper.alive /\ drv.taper.result = None
           /\ \/ drv.taper.mode = "file"
              \/ drv.taper.mode = "dump" /\ drv.taper.port

RescheduleAll(S) == UNION {Reschedule(s) : s \in S}

\* The handler reschedules once for the message and once at its end.
TaperOk ==
    /\ Running /\ drv.taper.mode = "init" /\ drv.taper.alive
    /\ Becomes(RescheduleAll(Reschedule([drv EXCEPT !.taper_started = TRUE,
                                                    !.taper.mode = "idle"])))

TapeError ==
    /\ Running /\ drv.taper.mode = "init" /\ drv.taper.alive
    /\ LET s == [drv EXCEPT !.taper_started = TRUE, !.need_degraded = TRUE,
                            !.taper.mode = "down", !.taper.done = TRUE]
       IN  Becomes(RescheduleAll(StartSomeDumps(StartDegradedMode(s))))

TaperPort ==
    /\ Running /\ drv.taper.mode = "dump" /\ drv.taper.alive /\ ~drv.taper.port
    /\ LET d == drv.taper.disk
           s == [drv EXCEPT !.taper.port = TRUE, !.dmp[drv.taper.dumper].told = TRUE]
       IN  Becomes(Reschedule(DelayHost(s, d)))

\* Mutation: a tape is granted whatever runtapes says.
TaperRequestsTapeAlways ==
    /\ Running /\ Writing /\ drv.taper.tape \in {None, "loaded"} /\ ~drv.taper.done
    /\ Becomes(RescheduleAll({[s EXCEPT !.taper.tape = "asked"] :
                                s \in StartSomeDumps([drv EXCEPT !.taper.tape = None])}))

\* REQUEST-NEW-TAPE: START-SCAN and NEW-TAPE, or NO-NEW-TAPE after runtapes.
TaperRequestsTape ==
    /\ Running /\ Writing /\ drv.taper.tape \in {None, "loaded"}
    /\ IF drv.taper.done
       THEN Becomes(Reschedule([drv EXCEPT !.taper.tape = "refused"]))
       ELSE Becomes(RescheduleAll(
                {IF drv.current_tape < RunTapes THEN [s EXCEPT !.taper.tape = "asked"]
                 ELSE StartDegradedMode([s EXCEPT !.taper.tape = "refused",
                                                  !.taper.done = TRUE]) :
                    s \in StartSomeDumps([drv EXCEPT !.taper.tape = None])}))

TaperNewTape ==
    /\ Running /\ Writing /\ drv.taper.tape = "asked"
    /\ Becomes(Reschedule([drv EXCEPT !.taper.tape = "loaded", !.current_tape = @ + 1]))

TaperNoNewTape ==
    /\ Running /\ Writing /\ drv.taper.tape = "asked"
    /\ Becomes(Reschedule(StartDegradedMode([drv EXCEPT !.taper.tape = "refused",
                                                        !.taper.done = TRUE])))

\* The result r, with the error err of its input or of the tape.
TaperResult(r, err) ==
    /\ Running /\ Writing /\ drv.taper.tape # "asked"
    /\ LET told == IF drv.taper.mode = "file" THEN "DONE"
                   ELSE drv.dmp[drv.taper.dumper].result
           s == [drv EXCEPT !.taper.result = r, !.taper.err = err,
                            !.taper.tape = IF err = "tape" THEN None ELSE @]
       IN  /\ CASE r = "DONE" -> err = None /\ told = "DONE" /\ drv.taper.tape = "loaded"
                [] err = "tape" -> drv.taper.tape # None
                [] err = "input" -> drv.taper.mode = "file" /\ drv.taper.tape # "refused"
                [] OTHER -> told \notin {None, "DONE"}
           /\ Becomes(RescheduleAll(IF drv.taper.mode = "file" THEN FileTaperResult(s)
                                    ELSE IF told # None THEN DumperTaperResult(s)
                                    ELSE {s}))

\* BOGUS: degraded mode; tapeq is zapped, the files stay on the holding disk.
Keep(s, d) == Parted(s, d, "held")
ZapTapeq(s) == [FoldLeft(Keep, s, s.tapeq) EXCEPT !.tapeq = <<>>]

TaperDies ==
    /\ Running /\ MayFault(drv) /\ drv.taper.alive /\ drv.taper.mode \in {"init", "file", "dump"}
    /\ LET s == [drv EXCEPT !.taper_started = TRUE, !.taper.alive = FALSE,
                            !.deaths = @ + 1,
                            !.taper.result = IF drv.taper.disk = None THEN @ ELSE "BOGUS",
                            !.taper.err = IF drv.taper.disk = None THEN @ ELSE "tape"]
       IN  Becomes(RescheduleAll(
            {StartDegradedMode([ZapTapeq(t) EXCEPT !.need_degraded = TRUE]) :
                t \in IF drv.taper.mode = "file" THEN FileTaperResult(s)
                      ELSE IF drv.taper.mode = "dump" /\ drv.dmp[drv.taper.dumper].result # None
                      THEN DumperTaperResult(s)
                      ELSE {s}}))

-----------------------------------------------------------------------------
\* No event is registered: event_loop returns, and what is left is logged.
Quiet(s) ==
    /\ s.input = "done" /\ s.timer = None
    /\ ~(s.taper.alive /\ s.taper.mode \in {"init", "file", "dump"})
    /\ \A i \in Dumpers : /\ ~(s.dmp[i].busy /\ s.dmp[i].told)
                          /\ s.chk[i].proc = None \/ s.chk[i].result # None

EventLoopEnds ==
    /\ Running /\ Quiet(drv)
    /\ LET end(d) == IF drv.outcome[d] # None THEN drv.outcome[d]
                     ELSE IF d \in ToSet(drv.runq \o drv.directq) THEN "failed"
                     ELSE IF drv.sched[d].holdp # <<>> THEN "held" ELSE "lost"
       IN  drv' = [drv EXCEPT !.ended = TRUE, !.outcome = [d \in Dles |-> end(d)]]

ChunkWrites(i) == ChunkFull(i) \/ \E n \in Blocks : ChunkEof(i, n)
ChunkSpeaks(i) == (\E r \in {"DONE", "PARTIAL", "FAILED"} : ChunkAnswers(i, r))
                  \/ ChunkNoHeader(i) \/ ChunkAbortFinished(i)
DumperSpeaks(i) == \E r \in {"DONE", "FAILED"} : DumperResult(i, r)
TaperEnds == \E r \in {"DONE", "FAILED"}, err \in {None, "input", "tape"} :
                TaperResult(r, err)
TaperSpeaks == TaperOk \/ TapeError \/ TaperPort \/ TaperNewTape \/ TaperNoNewTape

Next ==
    \/ ReadFlush \/ ReadSchedule \/ HandleDumpersTime \/ EventLoopEnds
    \/ \E i \in Dumpers : \/ ChunkWrites(i) \/ ChunkSpeaks(i) \/ DumperSpeaks(i)
                          \/ \E n \in Blocks : ChunkNoRoom(i, n)
                          \/ \E n \in Blocks \cup {0} : ChunkDies(i, n)
                          \/ DumperDies(i)
    \/ TaperSpeaks \/ TaperRequestsTape \/ TaperEnds \/ TaperDies

Spec == Init /\ [][Next]_drv

(***************************************************************************)
(* The driver handles an event that is ready, and its children get on with *)
(* what they were asked: Ready says when one of them has something to do.  *)
(* A dumper need not end while its chunker waits for room and reads no     *)
(* data, and nobody has to die.  Fairness to all of them together is       *)
(* enough: a run has finitely many steps, as attempts, tapes and space are *)
(* bounded.  (This is weak fairness of Next with its enabledness written   *)
(* out, which TLC evaluates faster than ENABLED.)                          *)
(***************************************************************************)
TaperReady ==
    /\ drv.taper.alive
    /\ \/ drv.taper.mode \in {"init", "file"}
       \/ drv.taper.mode = "dump" /\ drv.taper.result = None

Ready ==
    /\ Running
    /\ \/ ~schedule_done(drv) \/ drv.timer # None \/ TaperReady
       \/ \E i \in Dumpers :
             \/ drv.chk[i].proc \in {"writing", "toldDONE", "toldFAILED", "aborting"}
             \/ /\ drv.dmp[i].busy /\ drv.dmp[i].told /\ drv.dmp[i].result = None
                /\ drv.chk[i].proc # "room"

Fairness == WF_drv(EventLoopEnds) /\ ([]<>~Ready \/ []<><<TRUE>>_drv)

FairSpec == Spec /\ Fairness

-----------------------------------------------------------------------------
(* Properties.                                                             *)

Results == {None, "DONE", "PARTIAL", "FAILED", "BOGUS", "ABORT-FINISHED"}

\* The tables of the driver hold what their C types and uses allow; a dump is
\* attempted at most twice by a dumper, and twice by the taper.
DriverTypeOK ==
    /\ \A q \in {"runq", "directq", "tapeq", "roomq"} :
          IsInjective(drv[q]) /\ ToSet(drv[q]) \subseteq Dles
    /\ \A d \in Dles : LET sd == drv.sched[d] IN
          /\ {sd.est_size, sd.act_size} \subseteq Nat
          /\ sd.activehd \in 0..Len(sd.holdp) \/ sd.holdp = <<>>
          /\ \A k \in DOMAIN sd.holdp : sd.holdp[k].disk \in Hdisks
          /\ sd.dump_attempted \in -1..2 /\ sd.taper_attempted \in 0..2
          /\ sd.hold \in {"auto", "required", "never"}
    /\ \A i \in Dumpers : /\ drv.dmp[i].dp \in Dles \cup {None}
                          /\ drv.dmp[i].result \in Results /\ drv.chk[i].result \in Results
                          /\ drv.chk[i].use \in Nat /\ drv.chk[i].wrote \in Nat
    /\ drv.taper.mode \in {"init", "idle", "file", "dump", "down"}
    /\ drv.inprogress \subseteq Dles /\ drv.pending_aborts \in 0..1
    /\ drv.current_tape \in 0..RunTapes

(***************************************************************************)
(* The space the driver counts as taken on a holding disk is what the      *)
(* dumps of this run have reserved there, less the files of earlier runs   *)
(* it has flushed, and never more than the disk has: no sequence of grants, *)
(* merges, NO-ROOM, retries, aborts and deaths leaks or doubles space.     *)
(***************************************************************************)
SpaceAccounted ==
    \A h \in Hdisks :
        LET reserved == SumFunction([d \in Dles \ Flush |->
                                        OnDisk(drv.sched[d].holdp, "reserved", h)])
            freed == SumFunction([d \in {d \in Flush : drv.outcome[d] = "taped"} |->
                                        OnDisk(FlushHoldp[d], "used", h)])
        IN  /\ drv.ha[h].allocated_space = reserved - freed
            /\ drv.ha[h].allocated_space <= drv.ha[h].disksize

(***************************************************************************)
(* The chunker and the driver agree on the space: what a chunker wrote and *)
(* may still write is what is reserved for its dump up to the active       *)
(* entry, and an entry is never used beyond its reservation.               *)
(***************************************************************************)
UseMatchesReservation ==
    /\ \A i \in Dumpers : LET d == drv.dmp[i].dp IN
          drv.chk[i].proc = "writing" \/ (drv.chk[i].proc = "room" /\ d \in ToSet(drv.roomq))
          => LET holdp == SubSeq(drv.sched[d].holdp, 1, drv.sched[d].activehd)
             IN  drv.chk[i].wrote + drv.chk[i].use =
                    SumFunction([k \in DOMAIN holdp |-> holdp[k].reserved])
    /\ \A d \in Dles : \A k \in DOMAIN drv.sched[d].holdp :
          LET e == drv.sched[d].holdp[k] IN 0 <= e.used /\ e.used <= e.reserved

(***************************************************************************)
(* While no child has died, allocated_dumpers of a holding disk is the     *)
(* number of chunkers that write to it, which find_diskspace spreads.      *)
(***************************************************************************)
DumpersCounted ==
    (drv.deaths = 0 /\ ~drv.blocked) =>
        \A h \in Hdisks : drv.ha[h].allocated_dumpers =
            Cardinality({i \in Dumpers :
                /\ drv.chk[i].proc \notin {None, "room", "aborting", "idle"}
                /\ LET sd == drv.sched[drv.dmp[i].dp] IN sd.holdp[sd.activehd].disk = h})

Places(d) ==
    {q \in {"runq", "directq", "tapeq"} : d \in ToSet(drv[q])}
    \cup {"dumping" : x \in {d} \cap drv.inprogress}
    \cup {"flushing" : x \in {d} \cap {IF drv.taper.mode = "file" THEN drv.taper.disk ELSE None}}

(***************************************************************************)
(* A dump that was read and that the driver has not parted with is in      *)
(* exactly one place: a queue, a dumper's hands or the taper's; a dump     *)
(* that waits for room is being dumped.  The links of the queues, which a  *)
(* disk_t has once, break only after the death of a child.                 *)
(***************************************************************************)
OnePlace ==
    /\ ~drv.ended => \A d \in Dles :
          Cardinality(Places(d)) = IF drv.outcome[d] = None THEN 1 ELSE 0
    /\ ToSet(drv.roomq) \subseteq drv.inprogress
    /\ drv.broken => drv.deaths > 0

\* The driver could start a flush, or would abort a dump, but it looks at neither
\* until the next result: dumper_taper_result and start_degraded_mode call neither
\* startaflush nor continue_port_dumps.
WakeUpLost == (CanFlush(drv) /\ drv.tapeq # <<>>) \/ AllWait(drv)

(***************************************************************************)
(* The conditions by which the driver waits for space are complete: while  *)
(* no child has died, a chunker that waits for room is continued or        *)
(* aborted, unless waitpid blocks the driver or a wake-up was lost.  There *)
(* is no other way for dumps and flushes to wait on each other.            *)
(***************************************************************************)
RoomServed ==
    \A i \in Dumpers : drv.chk[i].proc = "room" ~>
        drv.chk[i].proc # "room" \/ drv.blocked \/ drv.deaths > 0 \/ WakeUpLost

(***************************************************************************)
(* "It will be retried directly to tape", of a dump that is aborted because *)
(* every dump waits for space.                                             *)
(***************************************************************************)
AbortedIsRetried ==
    \A d \in Dles : drv.sched[d].no_space ~>
        (~drv.blocked /\ d \notin drv.inprogress) \/ drv.deaths > 0
=============================================================================
