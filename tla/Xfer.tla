-------------------------------- MODULE Xfer --------------------------------
(***************************************************************************)
(* xfer-src/xfer.c: one transfer, from xfer_new to the last xfer_unref.    *)
(*                                                                         *)
(* The main thread starts the elements, pops the messages of the queue in  *)
(* its main loop, cancels the elements and counts the XMSG_DONEs; it is    *)
(* also the caller, who may cancel the transfer or drop its reference.     *)
(* The thread of an element (of one whose start returned TRUE) fails or    *)
(* comes to its end at any time.  xfer_cancel is called by both, and reads *)
(* and writes xfer->cancelled without a lock, in three steps.              *)
(*                                                                         *)
(* The elements are external: they keep to what xfer-element.h says of     *)
(* setup, start and cancel.  Elements are numbered from the source, 1, to  *)
(* the destination, N, glue included (xfer->elements after link_elements). *)
(* A wait for status_cond is a step that waits for the condition: every    *)
(* change of the status broadcasts under the mutex it is tested under.     *)
(***************************************************************************)
EXTENDS Integers, Sequences, FiniteSets

CONSTANTS N,          \* elements of the transfer, glue included
          Pullers     \* the elements that, if they have a thread, pull with it

ASSUME NElementsAssumption == N \in Nat \ {0, 1} /\ Pullers \subseteq 2..N

Main == 0                       \* the main thread
Elements == 1..N
Procs == {Main} \cup Elements

VARIABLES
    status,        \* xfer->status
    cancelled,     \* xfer->cancelled > 0
    num_active,    \* xfer->num_active_elements
    refcount,      \* xfer->refcount
    queue,         \* xfer->queue: the types of the messages
    pc,            \* pc[p]: where a thread is
    next,          \* the element that the loop of the main thread is at
    expect_eof,    \* the local of that name in xmsgsource_dispatch
    elt,           \* elt[i]: the fields of element i that cancel uses
    held           \* the caller has its reference

vars == <<status, cancelled, num_active, refcount, queue, pc, next, expect_eof,
          elt, held>>

Statuses == {"INIT", "START", "RUNNING", "CANCELLING", "CANCELLED", "DONE"}
Messages == {"DONE", "CANCEL", "ERROR"}

\* Where threads are in xfer_cancel.
InCancel == {"set", "queue"}
MainPcs == {"loop", "starting", "cancelling"} \cup InCancel
ThreadPcs == {"none", "passive", "new", "running", "test", "waiting", "draining", "ended"}
             \cup InCancel

\* The thread of an element is there and has not sent its XMSG_DONE.
Alive(i) == pc[i] \notin {"none", "passive", "ended"}

XferTypeOK ==
    /\ status \in Statuses
    /\ cancelled \in BOOLEAN
    /\ num_active \in 0..N
    /\ refcount \in 0..2
    /\ queue \in Seq(Messages)
    /\ pc[Main] \in MainPcs
    /\ \A i \in Elements : pc[i] \in ThreadPcs
    /\ next \in 0..(N + 1)
    /\ expect_eof \in BOOLEAN
    /\ elt \in [Elements -> [cancelled : BOOLEAN, expect_eof : BOOLEAN,
                             can_generate_eof : BOOLEAN]]
    /\ held \in BOOLEAN

\* xfer_new.
XferInit ==
    /\ status = "INIT"
    /\ cancelled = FALSE
    /\ num_active = 0
    /\ refcount = 1
    /\ queue = <<>>
    /\ pc = [p \in Procs |-> IF p = Main THEN "loop" ELSE "none"]
    /\ next = 0
    /\ expect_eof = FALSE
    /\ elt \in [Elements -> [cancelled : {FALSE}, expect_eof : {FALSE},
                             can_generate_eof : BOOLEAN]]
    /\ ~ elt[N].can_generate_eof
    /\ held = TRUE

InMain(at) == refcount > 0 /\ pc[Main] = at
Goes(p, at) == pc' = [pc EXCEPT ![p] = at]
Send(m) == queue' = Append(queue, m)

(***************************************************************************)
(* xfer_start.                                                             *)
(***************************************************************************)

\* Mutation: xfer_start does not call xfer_ref.
XferStartUnreferenced ==
    /\ InMain("loop") /\ status = "INIT" /\ held
    /\ status' = "START"
    /\ num_active' = 0
    /\ next' = N
    /\ Goes(Main, "starting")
    /\ UNCHANGED <<cancelled, refcount, queue, expect_eof, elt, held>>

\* xfer_start, up to the setup of the elements, which all succeed.
XferStart ==
    /\ InMain("loop") /\ status = "INIT" /\ held
    /\ status' = "START"
    /\ refcount' = refcount + 1
    /\ num_active' = 0
    /\ next' = N
    /\ Goes(Main, "starting")
    /\ UNCHANGED <<cancelled, queue, expect_eof, elt, held>>

\* xfer_start, when the setup of an element fails, after
\* xfer_cancel_with_error: no element is started.
SetupFails ==
    /\ InMain("loop") /\ status = "INIT" /\ held
    /\ status' = "START"
    /\ refcount' = refcount + 1
    /\ num_active' = 0
    /\ next' = 0
    /\ queue' = queue \o <<"ERROR">>
                      \o (IF cancelled THEN <<>> ELSE <<"CANCEL">>)
    /\ cancelled' = TRUE
    /\ Goes(Main, "starting")
    /\ UNCHANGED <<expect_eof, elt, held>>

\* The next xfer_element_start, from the destination to the source.  It says
\* whether the element will send an XMSG_DONE; its thread pulls from upstream
\* ("new", see PullBuffer) or does not.
StartElement ==
    /\ InMain("starting") /\ next > 0
    /\ \/ /\ Goes(next, "passive")
          /\ UNCHANGED num_active
       \/ /\ Goes(next, IF next \in Pullers THEN "new" ELSE "running")
          /\ num_active' = num_active + 1
    /\ next' = next - 1
    /\ UNCHANGED <<status, cancelled, refcount, queue, expect_eof, elt, held>>

\* Mutation: the XMSG_DONE of a transfer without active elements is not counted.
StartedUncounted ==
    /\ InMain("starting") /\ next = 0
    /\ status' = "RUNNING"
    /\ num_active' = num_active
    /\ IF num_active = 0 THEN Send("DONE") ELSE UNCHANGED queue
    /\ Goes(Main, "loop")
    /\ UNCHANGED <<cancelled, refcount, next, expect_eof, elt, held>>

\* Mutation: a transfer without active elements sends itself no XMSG_DONE.
StartedSilently ==
    /\ InMain("starting") /\ next = 0
    /\ status' = "RUNNING"
    /\ Goes(Main, "loop")
    /\ UNCHANGED <<cancelled, num_active, refcount, queue, next, expect_eof, elt, held>>

\* The end of xfer_start, with the fake XMSG_DONE.
Started ==
    /\ InMain("starting") /\ next = 0
    /\ status' = "RUNNING"
    /\ IF num_active = 0 THEN num_active' = 1 /\ Send("DONE")
                         ELSE UNCHANGED <<num_active, queue>>
    /\ Goes(Main, "loop")
    /\ UNCHANGED <<cancelled, refcount, next, expect_eof, elt, held>>

(***************************************************************************)
(* xfer_cancel, from any thread.                                           *)
(***************************************************************************)

\* Where a thread goes on after xfer_cancel: the caller is back in the main
\* loop, an element waits for the cancellation (wait_until_xfer_cancelled).
After(p) == IF p = Main THEN "loop" ELSE "waiting"

\* if (xfer->cancelled > 0) return.
CancelTest(i) ==
    /\ pc[i] = "test"
    /\ Goes(i, IF cancelled THEN "waiting" ELSE "set")
    /\ UNCHANGED <<status, cancelled, num_active, refcount, queue, next, expect_eof,
                   elt, held>>

\* xfer->cancelled++.
CancelSet(p) ==
    /\ pc[p] = "set"
    /\ cancelled' = TRUE
    /\ Goes(p, "queue")
    /\ UNCHANGED <<status, num_active, refcount, queue, next, expect_eof, elt,
                   held>>

\* Mutation: the flag is set and no message is sent.
CancelQueueForgotten(p) ==
    /\ pc[p] = "queue"
    /\ queue' = queue
    /\ Goes(p, After(p))
    /\ UNCHANGED <<status, cancelled, num_active, refcount, next, expect_eof, elt, held>>

\* xfer_queue_message of an XMSG_CANCEL.
CancelQueue(p) ==
    /\ pc[p] = "queue"
    /\ Send("CANCEL")
    /\ Goes(p, After(p))
    /\ UNCHANGED <<status, cancelled, num_active, refcount, next, expect_eof, elt, held>>

\* The caller cancels the transfer; a second call does nothing.
CallerCancel ==
    /\ InMain("loop")
    /\ ~ cancelled
    /\ Goes(Main, "set")
    /\ UNCHANGED <<status, cancelled, num_active, refcount, queue, next, expect_eof,
                   elt, held>>

(***************************************************************************)
(* The threads of the elements.                                            *)
(***************************************************************************)

\* The upstream elements that have threads, up to now.
Upstream(i) == {j \in Elements : j < i /\ pc[j] \notin {"none", "passive"}}

\* The EOF from upstream comes to element i: from the nearest thread, which
\* has sent it before its XMSG_DONE, or from elements without threads.
EofArrives(i) ==
    Upstream(i) # {} =>
        pc[CHOOSE j \in Upstream(i) : \A k \in Upstream(i) : k <= j] = "ended"

\* Mutation: upstream is called while it may not be started.
PullBufferAtOnce(i) ==
    /\ pc[i] = "new"
    /\ Goes(i, "running")
    /\ UNCHANGED <<status, cancelled, num_active, refcount, queue, next, expect_eof,
                   elt, held>>

\* xfer_element_pull_buffer: the first call waits in wait_until_xfer_running.
PullBuffer(i) ==
    /\ pc[i] = "new"
    /\ status # "START"
    /\ Goes(i, "running")
    /\ UNCHANGED <<status, cancelled, num_active, refcount, queue, next, expect_eof,
                   elt, held>>

\* xfer_cancel_with_error, up to xfer_cancel.
CancelWithError(i) ==
    /\ pc[i] = "running"
    /\ Send("ERROR")
    /\ Goes(i, "test")
    /\ UNCHANGED <<status, cancelled, num_active, refcount, next, expect_eof, elt, held>>

\* wait_until_xfer_cancelled returns.
WaitUntilCancelled(i) ==
    /\ pc[i] = "waiting"
    /\ status \in {"CANCELLED", "DONE"}
    /\ Goes(i, "draining")
    /\ UNCHANGED <<status, cancelled, num_active, refcount, queue, next, expect_eof,
                   elt, held>>

\* The element sends its EOF downstream and its XMSG_DONE: on the EOF from
\* upstream, or when it has been cancelled and generates one itself.  After a
\* failure it drains what is to come only if it may expect an EOF.
ThreadEnds(i) ==
    /\ \/ pc[i] = "running" /\ (EofArrives(i) \/ (elt[i].cancelled /\ elt[i].can_generate_eof))
       \/ pc[i] = "draining" /\ (EofArrives(i) \/ ~ elt[i].expect_eof)
    /\ Send("DONE")
    /\ Goes(i, "ended")
    /\ UNCHANGED <<status, cancelled, num_active, refcount, next, expect_eof, elt, held>>

\* The cases of it in which the element is bound to end: upstream has ended
\* before, or was cancelled and can generate an EOF.
MustEnd(i) ==
    \/ Upstream(i) # {}
    \/ pc[i] = "draining"
    \/ elt[i].cancelled /\ (elt[i].can_generate_eof \/ elt[i].expect_eof)

(***************************************************************************)
(* xmsgsource_dispatch.  The callers attach the message source as they     *)
(* call xfer_start, so that nothing is dispatched before.                  *)
(***************************************************************************)

\* The main loop pops a message of the given type.
Pops(t) ==
    /\ InMain("loop")
    /\ status \notin {"INIT", "DONE"}
    /\ queue # <<>>
    /\ Head(queue) = t

\* XMSG_ERROR: given to the caller.
DispatchError ==
    /\ Pops("ERROR")
    /\ queue' = Tail(queue)
    /\ UNCHANGED <<status, cancelled, num_active, refcount, pc, next, expect_eof, elt, held>>

\* XMSG_DONE, with more to come: eaten.
DispatchDone ==
    /\ Pops("DONE")
    /\ num_active > 1
    /\ num_active' = num_active - 1
    /\ queue' = Tail(queue)
    /\ UNCHANGED <<status, cancelled, refcount, pc, next, expect_eof, elt, held>>

\* What is left of the queue when a reference is dropped: xfer_unref frees the
\* transfer with the last one.
AfterUnref(q) == IF refcount = 1 THEN <<>> ELSE q

\* Mutation: the last but one XMSG_DONE ends the transfer.
DispatchLastDoneEarly ==
    /\ Pops("DONE")
    /\ num_active <= 2
    /\ num_active' = num_active - 1
    /\ status' = "DONE"
    /\ refcount' = refcount - 1
    /\ queue' = AfterUnref(Tail(queue))
    /\ UNCHANGED <<cancelled, pc, next, expect_eof, elt, held>>

\* The last XMSG_DONE: the transfer is done, and its reference to itself goes.
DispatchLastDone ==
    /\ Pops("DONE")
    /\ num_active <= 1
    /\ num_active' = num_active - 1
    /\ status' = "DONE"
    /\ refcount' = refcount - 1
    /\ queue' = AfterUnref(Tail(queue))
    /\ UNCHANGED <<cancelled, pc, next, expect_eof, elt, held>>

\* XMSG_CANCEL in a transfer that is cancelled already.
DispatchDuplicateCancel ==
    /\ Pops("CANCEL")
    /\ status \in {"CANCELLING", "CANCELLED"}
    /\ queue' = Tail(queue)
    /\ UNCHANGED <<status, cancelled, num_active, refcount, pc, next, expect_eof, elt, held>>

\* Mutation: the status is set before the elements are cancelled.
DispatchCancelAnnounced ==
    /\ Pops("CANCEL")
    /\ status \notin {"CANCELLING", "CANCELLED"}
    /\ status' = "CANCELLED"
    /\ queue' = Tail(queue)
    /\ expect_eof' = FALSE
    /\ next' = 1
    /\ Goes(Main, "cancelling")
    /\ UNCHANGED <<cancelled, num_active, refcount, elt, held>>

\* Mutation: a second XMSG_CANCEL is not recognised as a duplicate.
DispatchCancelAgain ==
    /\ Pops("CANCEL")
    /\ status' = "CANCELLING"
    /\ queue' = Tail(queue)
    /\ expect_eof' = FALSE
    /\ next' = 1
    /\ Goes(Main, "cancelling")
    /\ UNCHANGED <<cancelled, num_active, refcount, elt, held>>

\* XMSG_CANCEL, up to the loop over the elements.
DispatchCancel ==
    /\ Pops("CANCEL")
    /\ status \notin {"CANCELLING", "CANCELLED"}
    /\ status' = "CANCELLING"
    /\ queue' = Tail(queue)
    /\ expect_eof' = FALSE
    /\ next' = 1
    /\ Goes(Main, "cancelling")
    /\ UNCHANGED <<cancelled, num_active, refcount, elt, held>>

\* The next xfer_element_cancel, from the source to the destination.
CancelElement ==
    /\ InMain("cancelling") /\ next <= N
    /\ elt' = [elt EXCEPT ![next].cancelled = TRUE, ![next].expect_eof = expect_eof]
    /\ expect_eof' = (elt[next].can_generate_eof \/ expect_eof)
    /\ next' = next + 1
    /\ UNCHANGED <<status, cancelled, num_active, refcount, queue, pc, held>>

\* All are cancelled.
Cancelled ==
    /\ InMain("cancelling") /\ next = N + 1
    /\ status' = "CANCELLED"
    /\ next' = 0
    /\ expect_eof' = FALSE
    /\ Goes(Main, "loop")
    /\ UNCHANGED <<cancelled, num_active, refcount, queue, elt,
                   held>>

\* xfer_unref by the caller.
CallerUnref ==
    /\ InMain("loop") /\ held
    /\ held' = FALSE
    /\ refcount' = refcount - 1
    /\ queue' = AfterUnref(queue)
    /\ UNCHANGED <<status, cancelled, num_active, pc, next, expect_eof, elt>>

StartStep == XferStart \/ SetupFails \/ StartElement \/ Started
Dispatch ==
    \/ DispatchError
    \/ DispatchDone
    \/ DispatchLastDone
    \/ DispatchDuplicateCancel
    \/ DispatchCancel
CancelStep(p) == CancelSet(p) \/ CancelQueue(p)
ThreadStep(i) ==
    \/ PullBuffer(i)
    \/ CancelWithError(i)
    \/ CancelTest(i)
    \/ WaitUntilCancelled(i)
    \/ ThreadEnds(i)

XferNext ==
    \/ StartStep
    \/ Dispatch
    \/ CancelElement
    \/ Cancelled
    \/ CallerCancel
    \/ CallerUnref
    \/ \E p \in Procs : CancelStep(p)
    \/ \E i \in Elements : ThreadStep(i)

XferSpec == XferInit /\ [][XferNext]_vars

\* The main loop runs and the threads are scheduled; an element comes to its
\* end by itself only when it is bound to.
XferFairness ==
    /\ WF_vars(StartElement \/ Started \/ Dispatch \/ CancelElement \/ Cancelled
               \/ CancelStep(Main))
    /\ \A i \in Elements :
         WF_vars(\/ PullBuffer(i) \/ CancelTest(i) \/ CancelStep(i) \/ WaitUntilCancelled(i)
                 \/ MustEnd(i) /\ ThreadEnds(i))

XferFairSpec == XferSpec /\ XferFairness

(***************************************************************************)
(* Properties.                                                             *)
(***************************************************************************)

\* A transfer that is done, and all the more one that is freed, has no thread
\* left that could use it, whatever order the elements were started, ended and
\* cancelled in: completion counts XMSG_DONEs against the starts.
DoneMeansQuiet ==
    /\ status = "DONE" \/ refcount = 0 => \A i \in Elements : ~ Alive(i)
    /\ refcount = 0 => status \in {"INIT", "DONE"}

\* The caller hears of every error before the end: the last XMSG_DONE has
\* nothing behind it in the queue, which xmsgsource_dispatch does not empty any
\* more and xfer_unref drops, but a late XMSG_CANCEL of the caller's.
NothingBehindDone ==
    [][status' = "DONE" /\ status # "DONE" =>
         queue \in {<<"DONE">>, <<"DONE", "CANCEL">>}]_vars

\* A thread that has begun to move data calls only elements that are started:
\* those downstream of it, and upstream of it if it pulls.
CallsStarted ==
    \A i \in Elements :
        (Alive(i) /\ pc[i] # "new") =>
            \A j \in Elements : (j > i \/ i \in Pullers) => pc[j] # "none"

\* A thread that comes back from wait_until_xfer_cancelled finds itself
\* cancelled, and expects an EOF exactly if some element before it can make one.
DrainsForEof ==
    \A i \in Elements :
        pc[i] = "draining" =>
            /\ elt[i].cancelled
            /\ elt[i].expect_eof = \E j \in Elements : j < i /\ elt[j].can_generate_eof

\* The status goes the way xfer.h draws it: the assertions of xfer_set_status.
Transitions ==
    {<<"INIT", "START">>, <<"START", "RUNNING">>, <<"RUNNING", "CANCELLING">>,
     <<"CANCELLING", "CANCELLED">>, <<"CANCELLED", "DONE">>, <<"RUNNING", "DONE">>}

StatusOrder == [][status' # status => <<status, status'>> \in Transitions]_vars

\* An element that waits for its cancellation gets it: though xfer_cancel says
\* nothing to the second who calls it, and the first may not yet have sent its
\* message.
WaitersReturn == \A i \in Elements : pc[i] = "waiting" ~> pc[i] # "waiting"

\* A cancelled transfer in which every thread that is left can make an EOF or
\* expects one comes to its end ("the transfer will signal its completion
\* normally some time after xfer_cancel returns").
CancelCompletes ==
    (/\ status = "CANCELLED"
     /\ \A i \in Elements :
          Alive(i) => elt[i].can_generate_eof \/ elt[i].expect_eof)
    ~> status = "DONE"
=============================================================================
