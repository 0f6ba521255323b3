---------------------------- MODULE AmandadStreams ----------------------------
(***************************************************************************)
(* The data phase of one service of amandad-src/amandad.c: after the ACK   *)
(* of its reply, process_readnetfd relays what the child writes on its     *)
(* data pipes to the security streams of the same number, until every      *)
(* stream is closed.                                                       *)
(*                                                                         *)
(* The first pipe of sendbackup (the dump itself) is not read until        *)
(* "sendbackup: info end" has been seen on the second (its messages),      *)
(* because the dumper expects the header before the data.  The text comes  *)
(* in pieces of any size, so the code searches the new piece joined to the *)
(* end of the previous ones.  Here the text is two tokens, I1 and I2, and  *)
(* X is any other text.                                                    *)
(***************************************************************************)
EXTENDS Naturals, Sequences

CONSTANTS Sendbackup,       \* as->service == SERVICE_SENDBACKUP
          ChildMayDie,      \* the child may end before its info end
          AcceptMayFail,    \* security_stream_accept may fail
          MaxMesg, MaxData  \* bounds: tokens the child writes

ASSUME StreamsAssumption ==
    /\ Sendbackup \in BOOLEAN
    /\ ChildMayDie \in BOOLEAN
    /\ AcceptMayFail \in BOOLEAN
    /\ MaxMesg \in Nat
    /\ MaxData \in Nat

VARIABLES
    opened,    \* history: pipes whose stream was accepted
    netfd,     \* pipes whose security stream is open (dh->netfd)
    evread,    \* pipes with a registered read event (dh->ev_read)
    seen,      \* as->seen_info_end
    tail,      \* as->info_end_buf
    st,        \* the service: "waitack", "running", "deleted" or "crashed"
    broken,    \* a stream failed under a write
    written,   \* written[f]: what the child wrote on pipe f
    closed,    \* pipes the child has closed
    relayed    \* relayed[f]: what went to the stream of pipe f

streamsVars == <<opened, netfd, evread, seen, tail, st, broken, written, closed, relayed>>

Data == "data"     \* as->data[0]
Mesg == "mesg"     \* as->data[1]
Fds == {Data, Mesg}

InfoEnd == <<"I1", "I2">>
Tokens == [f \in Fds |-> IF f = Data THEN {"D"} ELSE {"I1", "I2", "X"}]
MaxWritten == [f \in Fds |-> IF f = Data THEN MaxData ELSE MaxMesg]

\* strstr: InfoEnd occurs in s.
Occurs(s) == \E i \in 1..(Len(s) - 1) : SubSeq(s, i, i + 1) = InfoEnd

StreamsTypeOK ==
    /\ opened \subseteq Fds
    /\ netfd \subseteq Fds
    /\ evread \subseteq Fds
    /\ seen \in BOOLEAN
    /\ tail \in Seq({"-"} \cup Tokens[Mesg]) /\ Len(tail) = Len(InfoEnd)
    /\ st \in {"waitack", "running", "deleted", "crashed"}
    /\ broken \in BOOLEAN
    /\ \A f \in Fds : written[f] \in Seq(Tokens[f])
    /\ closed \subseteq Fds
    /\ \A f \in Fds : relayed[f] \in Seq(Tokens[f])

StreamsInit ==
    /\ opened = {}
    /\ netfd = Fds
    /\ evread = {}
    /\ seen = FALSE
    /\ tail = <<"-", "-">>
    /\ st = "waitack"
    /\ broken = FALSE
    /\ written = [f \in Fds |-> <<>>]
    /\ closed = {}
    /\ relayed = [f \in Fds |-> <<>>]

(***************************************************************************)
(* The child, external to amandad.c.                                       *)
(***************************************************************************)
ChildWrites(f, t) ==
    /\ f \notin closed
    /\ Len(written[f]) < MaxWritten[f]
    /\ written' = [written EXCEPT ![f] = Append(@, t)]
    /\ UNCHANGED <<opened, netfd, evread, seen, tail, st, broken, closed,
                   relayed>>

\* The child closes its pipes, one by one or by ending.
ChildCloses(fs) ==
    /\ fs # {}
    /\ fs \cap closed = {}
    /\ ChildMayDie \/ Occurs(written[Mesg])
    /\ closed' = closed \cup fs
    /\ UNCHANGED <<opened, netfd, evread, seen, tail, st, broken, written,
                   relayed>>

\* Mutation: sendbackup is not treated specially.
OpenAllStreams(failed) ==
    /\ st = "waitack"
    /\ failed = {} \/ AcceptMayFail
    /\ netfd' = netfd \ failed
    /\ opened' = netfd'
    /\ evread' = netfd'
    /\ st' = IF netfd' = {} THEN "deleted" ELSE "running"
    /\ UNCHANGED <<seen, tail, broken, written, closed, relayed>>

(***************************************************************************)
(* s_ackwait with the ACK: the streams are accepted, and read events are   *)
(* registered for all of them but the first of sendbackup.                 *)
(***************************************************************************)
OpenStreams(failed) ==
    /\ st = "waitack"
    /\ failed = {} \/ AcceptMayFail
    /\ netfd' = netfd \ failed
    /\ opened' = netfd'
    /\ evread' = netfd' \ (IF Sendbackup THEN {Data} ELSE {})
    /\ st' = IF netfd' = {} THEN "deleted" ELSE "running"
    /\ UNCHANGED <<seen, tail, broken, written, closed, relayed>>

(***************************************************************************)
(* process_readnetfd.                                                      *)
(***************************************************************************)
Unread(f) == Len(written[f]) - Len(relayed[f])

\* The next n tokens of pipe f.
Piece(f, n) == SubSeq(written[f], Len(relayed[f]) + 1, Len(relayed[f]) + n)

\* Mutation: only what was just read is searched and kept.
CombinedNoTail(f, n) == <<"-", "-">> \o Piece(f, n)

\* info_end_buf followed by what was just read.
Combined(f, n) == tail \o Piece(f, n)

\* The code searches only while the header is incomplete.
Searches(f) == Sendbackup /\ ~ seen /\ f = Mesg

\* A read event fires on a pipe whose stream is open.
Readable(f) == st = "running" /\ f \in evread \cap netfd

\* Mutation: info_end_buf is not cut to its size.
RelayUncut(f, n) ==
    /\ Readable(f)
    /\ n \in 1..Unread(f)
    /\ seen' = IF Searches(f) THEN Occurs(Combined(f, n)) ELSE seen
    /\ tail' = IF Searches(f) THEN Combined(f, n) ELSE tail
    /\ evread' = evread \cup (IF ~ seen /\ seen' THEN {Data} ELSE {})
    /\ relayed' = [relayed EXCEPT ![f] = @ \o Piece(f, n)]
    /\ UNCHANGED <<opened, netfd, st, broken, written, closed>>

\* Data: look for the info end, then write to the stream.
Relay(f, n) ==
    /\ Readable(f)
    /\ n \in 1..Unread(f)
    /\ seen' = IF Searches(f) THEN Occurs(Combined(f, n)) ELSE seen
    /\ tail' = IF Searches(f)
               THEN SubSeq(Combined(f, n), n + 1, n + Len(InfoEnd))
               ELSE tail
    /\ evread' = evread \cup (IF ~ seen /\ seen' THEN {Data} ELSE {})
    /\ relayed' = [relayed EXCEPT ![f] = @ \o Piece(f, n)]
    /\ UNCHANGED <<opened, netfd, st, broken, written, closed>>

\* The write to the stream fails, or the read does: the service is deleted
\* with its streams; the handle is closed, so the NAK goes nowhere.
StreamBreaks(f) ==
    /\ Readable(f)
    /\ Unread(f) > 0
    /\ broken' = TRUE
    /\ st' = "deleted"
    /\ netfd' = {}
    /\ evread' = {}
    /\ UNCHANGED <<opened, seen, tail, written, closed, relayed>>

\* Mutation: the service ends with the first of its pipes.
PipeEndsAll(f) ==
    /\ Readable(f)
    /\ f \in closed
    /\ Unread(f) = 0
    /\ evread' = {}
    /\ netfd' = {}
    /\ st' = "deleted"
    /\ UNCHANGED <<opened, seen, tail, broken, written, closed, relayed>>

\* Mutation: the stream of the pipe is not closed.
PipeEndsStreamOpen(f) ==
    /\ Readable(f)
    /\ f \in closed
    /\ Unread(f) = 0
    /\ evread' = evread \ {f}
    /\ UNCHANGED <<opened, netfd, seen, tail, st, broken, written, closed,
                   relayed>>

\* End of file: the event and the stream go, and with the last stream the
\* service.
PipeEnds(f) ==
    /\ Readable(f)
    /\ f \in closed
    /\ Unread(f) = 0
    /\ evread' = evread \ {f}
    /\ netfd' = netfd \ {f}
    /\ st' = IF netfd' = {} THEN "deleted" ELSE st
    /\ UNCHANGED <<opened, seen, tail, broken, written, closed, relayed>>

\* The info end registers the first pipe even if its stream could not be
\* opened: the event then uses a NULL stream.
NullStream(f) ==
    /\ st = "running"
    /\ f \in evread \ netfd
    /\ Unread(f) > 0 \/ f \in closed
    /\ st' = "crashed"
    /\ UNCHANGED <<opened, netfd, evread, seen, tail, broken, written, closed,
                   relayed>>

StreamsNext ==
    \/ \E f \in Fds : \E t \in Tokens[f] : ChildWrites(f, t)
    \/ \E fs \in SUBSET Fds : ChildCloses(fs)
    \/ \E failed \in SUBSET Fds : OpenStreams(failed)
    \/ \E f \in Fds : \E n \in 1..Unread(f) : Relay(f, n)
    \/ \E f \in Fds : StreamBreaks(f)
    \/ \E f \in Fds : PipeEnds(f)
    \/ \E f \in Fds : NullStream(f)

StreamsSpec == StreamsInit /\ [][StreamsNext]_streamsVars

\* The event loop calls process_readnetfd for a pipe that can be read, and a
\* read makes progress; the ACK of the reply comes.
StreamsFairness ==
    /\ WF_streamsVars(\E failed \in SUBSET Fds : OpenStreams(failed))
    /\ \A f \in Fds :
          WF_streamsVars(\/ \E n \in 1..Unread(f) : Relay(f, n)
                  \/ StreamBreaks(f)
                  \/ PipeEnds(f)
                  \/ NullStream(f))

FairStreamsSpec == StreamsSpec /\ StreamsFairness

(***************************************************************************)
(* Properties.                                                             *)
(***************************************************************************)

\* The dumper gets the whole header before any of the dump: nothing goes to
\* the data stream of sendbackup until the info end has gone to the message
\* stream (the special case of s_ackwait and process_readnetfd).
HeaderFirst ==
    Sendbackup /\ relayed[Data] # <<>> => Occurs(relayed[Mesg])

\* The search over pieces finds the info end when it occurs in the messages
\* read so far, however the pieces were cut, and only then.
SearchComplete ==
    Sendbackup => (seen <=> Occurs(relayed[Mesg]))

\* Nothing is lost: a service that ended because its pipes did has relayed all
\* that the child wrote on every pipe that had a stream.
NothingLost ==
    st = "deleted" /\ ~ broken =>
        \A f \in opened : relayed[f] = written[f]

\* Once the child has closed its pipes the service is shut down, whatever was
\* read when and in which pieces, provided that the info end was among the
\* messages and that both streams were accepted (process_readnetfd, s_ackwait).
\* Without the message stream the data pipe is never read; without the data
\* stream the info end registers a read event that uses a NULL stream.
EndsAfterHeader ==
    (/\ st = "running"
     /\ closed = Fds
     /\ opened = Fds
     /\ Occurs(written[Mesg])) ~> st = "deleted"

\* amandad.c:1444, process_readnetfd: "If all pipes are closed, shut down this
\* service."  Once the child has closed every pipe the service is deleted.
ShutDown == (closed = Fds /\ st = "running") ~> st = "deleted"
=============================================================================
