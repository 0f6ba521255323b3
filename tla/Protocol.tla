------------------------------ MODULE Protocol ------------------------------
(***************************************************************************)
(* The server side of Amanda's control protocol, common-src/protocol.c:    *)
(* how the planner, the dumper, amcheck and amfetchdump ask a client's     *)
(* amandad to run a service and wait for its answer, with the UDP receive  *)
(* path of common-src/security-util.c under it.                            *)
(*                                                                         *)
(* A request is the C structure proto_t.  "wait" says which event the      *)
(* request has registered: the answer of security_connect ("connect"), the *)
(* CONNECT_WAIT timer ("connectwait"), or security_recvpkt with its        *)
(* timeout ("recv").  The state functions s_sendreq, s_ackwait, s_repwait  *)
(* run to completion inside one event callback, so each callback is one    *)
(* action and PA_CONTINUE (a state function run after another in the same  *)
(* callback) is a composition of operators.                                *)
(*                                                                         *)
(* Time is relative: "age" is CURTIME - origtime and "since" is CURTIME -  *)
(* curtime, both saturated at the largest value that the code or a         *)
(* property compares them with, and "timer" is what is left of the         *)
(* registered timeout.  A timer that has run out fires some time later,    *)
(* never earlier.                                                          *)
(***************************************************************************)
EXTENDS Wire

CONSTANTS ConnectTries,  \* CNF_CONNECT_TRIES
          ReqTries,      \* CNF_REQ_TRIES
          ResetTries,    \* RESET_TRIES
          ConnectWait,   \* CONNECT_WAIT
          AckWait,       \* ACK_WAIT
          RepWait,       \* the repwait argument of protocol_sendreq
          DropDead       \* the bound of DROP_DEAD_TIME

\* validate_positive (common-src/conffile.c) rejects a configured number of
\* tries below 1, which is what makes "--p->reqtries == 0" a correct test.
ASSUME TriesAssumption ==
    /\ ConnectTries \in Nat \ {0}
    /\ ReqTries \in Nat \ {0}
    /\ ResetTries \in Nat
ASSUME TimesAssumption ==
    /\ ConnectWait \in Nat
    /\ AckWait \in Nat
    /\ RepWait \in Nat
    /\ DropDead \in Nat

VARIABLE proto   \* proto[r]: the proto_t of request r

vars == <<proto, toClient, toServer>>

\* Where age and since stop counting: no value they are compared to lies above.
Longer(m, n) == IF m >= n THEN m ELSE n
AgeCap == Longer(DropDead + 1, Longer(ReqTries * AckWait, (ResetTries + 1) * RepWait))
SinceCap == RepWait + 1

States == {"s_sendreq", "s_ackwait", "s_repwait"}
Waits == {"none", "connect", "connectwait", "recv"}

\* How a request ended.  Everything but P_NAK and P_REP is a PA_ABORT, told
\* apart by the message that security_seterror leaves in the handle.
Outcomes == {"none", "no_connect", "send_failed", "recv_error",
             "ack_timeout", "rep_timeout", "P_NAK", "P_REP"}

(***************************************************************************)
(* sent, finals and run are history: the REQs transmitted, the final calls *)
(* of the continuation, and the run whose REP the continuation was given.  *)
(***************************************************************************)
ProtoType ==
    [state : States, wait : Waits,
     connecttries : 0..ConnectTries, resettries : 0..ResetTries,
     reqtries : 0..ReqTries,
     timeout : Nat, timer : Nat, age : 0..AgeCap, since : 0..SinceCap,
     outcome : Outcomes, sent : Nat, finals : Nat, run : Runs \cup {NoRun}]

TypeOK ==
    /\ proto \in [Requests -> ProtoType]
    /\ toClient \in [ServerPkts -> 0..Copies]
    /\ toServer \in [ClientPkts -> 0..Copies]

Init ==
    /\ proto = [r \in Requests |->
                  [state |-> "s_sendreq", wait |-> "none",
                   connecttries |-> ConnectTries,
                   resettries |-> ResetTries, reqtries |-> ReqTries,
                   timeout |-> 0, timer |-> 0, age |-> 0, since |-> 0,
                   outcome |-> "none", sent |-> 0, finals |-> 0,
                   run |-> NoRun]]
    /\ toClient = [m \in ServerPkts |-> 0]
    /\ toServer = [m \in ClientPkts |-> 0]

(***************************************************************************)
(* What state_machine does with the answer of a state function.            *)
(***************************************************************************)

\* PA_PENDING: security_recvpkt(p->security_handle, ..., p->timeout).
Pending(p) == [p EXCEPT !.wait = "recv", !.timer = p.timeout]

\* Mutation: the receive stays registered on the freed request.
ConcludeStillListening(p, why, k) ==
    [p EXCEPT !.outcome = why, !.run = k, !.finals = @ + 1]

\* PA_FINISH and PA_ABORT: the last call of the continuation, then the
\* handle is closed and the request freed.
Conclude(p, why, k) ==
    [p EXCEPT !.wait = "none", !.outcome = why, !.run = k,
              !.finals = @ + 1]

Abort(p, why) == Conclude(p, why, NoRun)

\* Mutation: p->timeout keeps the value of an earlier wait.
SendReqStaleTimeout(p, ok) ==
    IF ok
    THEN Pending([p EXCEPT !.since = 0, !.state = "s_ackwait", !.sent = @ + 1])
    ELSE Abort(p, "send_failed")

(***************************************************************************)
(* s_sendreq: transmit the request and wait for the ACK.  ok says whether  *)
(* security_sendpkt succeeded.                                             *)
(***************************************************************************)
SendReq(p, ok) ==
    IF ok
    THEN Pending([p EXCEPT !.since = 0, !.state = "s_ackwait",
                           !.timeout = AckWait, !.sent = @ + 1])
    ELSE Abort(p, "send_failed")

\* The wire side of SendReq.
SendReqNet(r, ok) ==
    toClient' = IF ok THEN Put(toClient, ServerPkt("P_REQ", r)) ELSE toClient

(***************************************************************************)
(* The interface and the connection.                                       *)
(***************************************************************************)

\* security_connect is asked for a connection; origtime is now.
Begin(p) == [p EXCEPT !.wait = "connect", !.age = 0]

\* protocol_sendreq, called once for each request.
SendRequest(r) ==
    /\ proto[r].wait = "none"
    /\ proto[r].outcome = "none"
    /\ proto' = [proto EXCEPT ![r] = Begin(@)]
    /\ UNCHANGED <<toClient, toServer>>

\* connect_callback with S_OK.
Connected(r, ok) ==
    /\ proto[r].wait = "connect"
    /\ proto' = [proto EXCEPT ![r] = SendReq(@, ok)]
    /\ SendReqNet(r, ok)
    /\ UNCHANGED toServer

\* if (--p->connecttries == 0)
LastConnect(p) == p.connecttries = 1

\* connect_callback with S_TIMEOUT or S_ERROR, and no more tries.
ConnectAbort(r) ==
    /\ proto[r].wait = "connect"
    /\ LastConnect(proto[r])
    /\ proto' = [proto EXCEPT
                   ![r] = Abort([@ EXCEPT !.connecttries = 0], "no_connect")]
    /\ UNCHANGED <<toClient, toServer>>

\* The CONNECT_WAIT timer takes the place of the connection.
RetryLater(p) ==
    [p EXCEPT !.connecttries = @ - 1, !.wait = "connectwait",
              !.timer = ConnectWait]

\* connect_callback with S_TIMEOUT or S_ERROR, to be tried again.
ConnectRetry(r) ==
    /\ proto[r].wait = "connect"
    /\ ~ LastConnect(proto[r])
    /\ proto' = [proto EXCEPT ![r] = RetryLater(@)]
    /\ UNCHANGED <<toClient, toServer>>

\* connect_wait_callback.
ConnectWaitOver(r) ==
    /\ proto[r].wait = "connectwait"
    /\ proto[r].timer = 0
    /\ proto' = [proto EXCEPT ![r].wait = "connect"]
    /\ UNCHANGED <<toClient, toServer>>

(***************************************************************************)
(* recvpkt_callback with S_TIMEOUT.                                        *)
(***************************************************************************)
Expired(r, s) ==
    /\ proto[r].wait = "recv"
    /\ proto[r].timer = 0
    /\ proto[r].state = s

\* Mutation: if (p->reqtries-- == 0)
LastTryPostDecrement(p) == p.reqtries = 0

\* if (--p->reqtries == 0)
LastTry(p) == p.reqtries = 1

CountTry(p) == [p EXCEPT !.reqtries = @ - 1]

\* s_ackwait, PA_TIMEOUT: the last wait for an ACK is over.
AckTimeoutAbort(r) ==
    /\ Expired(r, "s_ackwait")
    /\ LastTry(proto[r])
    /\ proto' = [proto EXCEPT ![r] = Abort(CountTry(@), "ack_timeout")]
    /\ UNCHANGED <<toClient, toServer>>

\* Mutation: the try is not counted.
SendAgainUncounted(p) == [p EXCEPT !.state = "s_sendreq"]

\* One try less, and back to s_sendreq.
SendAgain(p) == [CountTry(p) EXCEPT !.state = "s_sendreq"]

\* s_ackwait, PA_TIMEOUT: send the request again.
AckTimeoutResend(r, ok) ==
    /\ Expired(r, "s_ackwait")
    /\ ~ LastTry(proto[r])
    /\ proto' = [proto EXCEPT ![r] = SendReq(SendAgain(@), ok)]
    /\ SendReqNet(r, ok)
    /\ UNCHANGED toServer

GivesUpOnReply(p) == p.resettries = 0 \/ p.age > DropDead

\* s_repwait, PA_TIMEOUT: no reset left, or DROP_DEAD_TIME(p->origtime).
RepTimeoutAbort(r) ==
    /\ Expired(r, "s_repwait")
    /\ GivesUpOnReply(proto[r])
    /\ proto' = [proto EXCEPT ![r] = Abort(@, "rep_timeout")]
    /\ UNCHANGED <<toClient, toServer>>

\* One reset less, all the tries, and back to s_sendreq.
StartOver(p) ==
    [p EXCEPT !.resettries = @ - 1, !.state = "s_sendreq",
              !.reqtries = ReqTries]

\* s_repwait, PA_TIMEOUT: start the request over.
RepTimeoutReset(r, ok) ==
    /\ Expired(r, "s_repwait")
    /\ ~ GivesUpOnReply(proto[r])
    /\ proto' = [proto EXCEPT ![r] = SendReq(StartOver(@), ok)]
    /\ SendReqNet(r, ok)
    /\ UNCHANGED toServer

\* recvpkt_callback with S_ERROR: PA_ABORT whatever the state.
RecvError(r) ==
    /\ proto[r].wait = "recv"
    /\ proto' = [proto EXCEPT ![r] = Abort(@, "recv_error")]
    /\ UNCHANGED <<toClient, toServer>>

(***************************************************************************)
(* recvpkt_callback with S_OK: the security layer found the handle of the  *)
(* request that the packet m names, and it has a receive registered.       *)
(***************************************************************************)
Receives(m) ==
    /\ InFlight(toServer, m)
    /\ proto[m.req].wait = "recv"
    /\ toServer' = Take(toServer, m)

\* s_ackwait: the client has accepted the request.
RecvAck(m) ==
    /\ Receives(m)
    /\ m.type = "P_ACK"
    /\ proto[m.req].state = "s_ackwait"
    /\ proto' = [proto EXCEPT ![m.req] =
                   Pending([@ EXCEPT !.state = "s_repwait",
                                     !.timeout = RepWait])]
    /\ UNCHANGED toClient

\* s_repwait: an ACK is neither an answer nor a refusal; the receive is
\* registered again, with the whole of p->timeout.
RecvStrayAck(m) ==
    /\ Receives(m)
    /\ m.type = "P_ACK"
    /\ proto[m.req].state = "s_repwait"
    /\ proto' = [proto EXCEPT ![m.req] = Pending(@)]
    /\ UNCHANGED toClient

\* s_ackwait and s_repwait: the client has refused the request.
RecvNak(m) ==
    /\ Receives(m)
    /\ m.type = "P_NAK"
    /\ proto' = [proto EXCEPT ![m.req] = Conclude(@, "P_NAK", m.run)]
    /\ UNCHANGED toClient

\* s_repwait, directly or by PA_CONTINUE from s_ackwait: acknowledge the
\* reply and finish.
RecvRep(m, ok) ==
    /\ Receives(m)
    /\ m.type = "P_REP"
    /\ proto' = [proto EXCEPT ![m.req] =
                   IF ok THEN Conclude([@ EXCEPT !.state = "s_repwait"],
                                       "P_REP", m.run)
                         ELSE Abort([@ EXCEPT !.state = "s_repwait"],
                                    "send_failed")]
    /\ toClient' = IF ok THEN Put(toClient, ServerPkt("P_ACK", m.req))
                         ELSE toClient

\* Mutation: counted from origtime.
PrepTimeoutFromOrigin(p) ==
    IF RepWait + 1 > p.age THEN RepWait + 1 - p.age ELSE 1

\* What is left of the wait for the reply, counted from the REQ.
PrepTimeout(p) ==
    IF RepWait + 1 > p.since THEN RepWait + 1 - p.since ELSE 1

\* Mutation: a partial reply is acknowledged like a reply.
RecvPrepAcked(m) ==
    /\ Receives(m)
    /\ m.type = "P_PREP"
    /\ proto' = [proto EXCEPT ![m.req] =
                   Pending([@ EXCEPT !.state = "s_repwait",
                                     !.timeout = PrepTimeout(proto[m.req])])]
    /\ toClient' = Put(toClient, ServerPkt("P_ACK", m.req))

\* Mutation: PA_CONTPEND does not fall through to PA_PENDING.
RecvPrepNotPending(m) ==
    /\ Receives(m)
    /\ m.type = "P_PREP"
    /\ proto' = [proto EXCEPT ![m.req] =
                   [@ EXCEPT !.state = "s_repwait", !.wait = "none",
                             !.timeout = PrepTimeout(proto[m.req])]]
    /\ UNCHANGED toClient

\* s_repwait, directly or by PA_CONTINUE from s_ackwait: PA_CONTPEND hands
\* the part of the reply to the continuation and waits for the rest.
RecvPrep(m) ==
    /\ Receives(m)
    /\ m.type = "P_PREP"
    /\ proto' = [proto EXCEPT ![m.req] =
                   Pending([@ EXCEPT !.state = "s_repwait",
                                     !.timeout = PrepTimeout(proto[m.req])])]
    /\ UNCHANGED toClient

\* udp_netfd_read_callback: event_wakeup finds no registered receive for the
\* handle and there is no accept function on the server: the packet is lost.
DropPkt(m) ==
    /\ InFlight(toServer, m)
    /\ proto[m.req].wait # "recv"
    /\ toServer' = Take(toServer, m)
    /\ UNCHANGED <<proto, toClient>>

(***************************************************************************)
(* A second passes.                                                        *)
(***************************************************************************)
Elapse(p) ==
    [p EXCEPT !.age = IF @ < AgeCap THEN @ + 1 ELSE @,
              !.since = IF @ < SinceCap THEN @ + 1 ELSE @,
              !.timer = IF @ > 0 THEN @ - 1 ELSE @]

Tick ==
    /\ proto' = [r \in Requests |->
                   IF proto[r].wait = "none" THEN proto[r]
                                             ELSE Elapse(proto[r])]
    /\ UNCHANGED <<toClient, toServer>>

(***************************************************************************)
(* Everything else on the network, as far as the server can tell: a packet *)
(* of its own leaves the network (received or lost) or is duplicated, and  *)
(* a packet to it joins, is duplicated or is lost.                         *)
(***************************************************************************)
Environment ==
    /\ \/ UNCHANGED toClient
       \/ \E m \in ServerPkts :
             /\ InFlight(toClient, m)
             /\ toClient' = Take(toClient, m) \/ toClient' = Put(toClient, m)
    /\ \/ UNCHANGED toServer
       \/ \E m \in ClientPkts : toServer' = Put(toServer, m)
       \/ \E m \in ClientPkts : /\ InFlight(toServer, m)
                                /\ toServer' = Take(toServer, m)
    /\ UNCHANGED proto

(***************************************************************************)
(* The specification.                                                      *)
(***************************************************************************)
Step(r) ==
    \/ SendRequest(r)
    \/ \E ok \in BOOLEAN : Connected(r, ok)
    \/ ConnectAbort(r)
    \/ ConnectRetry(r)
    \/ ConnectWaitOver(r)
    \/ AckTimeoutAbort(r)
    \/ \E ok \in BOOLEAN : AckTimeoutResend(r, ok)
    \/ RepTimeoutAbort(r)
    \/ \E ok \in BOOLEAN : RepTimeoutReset(r, ok)
    \/ RecvError(r)

Receive(m) ==
    \/ RecvAck(m)
    \/ RecvStrayAck(m)
    \/ RecvNak(m)
    \/ \E ok \in BOOLEAN : RecvRep(m, ok)
    \/ RecvPrep(m)
    \/ DropPkt(m)

ServerNext ==
    \/ \E r \in Requests : Step(r)
    \/ \E m \in ClientPkts : Receive(m)
    \/ Tick

Next == ServerNext \/ Environment

Spec == Init /\ [][Next]_vars

(***************************************************************************)
(* Properties.                                                             *)
(***************************************************************************)

\* However ACKs are lost and replies time out, a request is transmitted at
\* most CNF_REQ_TRIES times for the first attempt and for each reset: the two
\* retry counters of s_ackwait and s_repwait together bound the traffic.
SendBound ==
    \A r \in Requests : proto[r].sent <= ReqTries * (ResetTries + 1)

\* "timeout waiting for ACK" is never reported before the client has had
\* CNF_REQ_TRIES whole waits of ACK_WAIT seconds, whatever else was received
\* and however often the request was reset in between.
AckPatience ==
    \A r \in Requests :
        proto[r].outcome = "ack_timeout" => proto[r].age >= ReqTries * AckWait

\* "timeout waiting for REP" is never reported before the client has had
\* repwait seconds for the first attempt and for each reset, or the request is
\* older than DROP_DEAD_TIME: the shortened timeouts that follow a PREP and the
\* re-registered ones that follow a stray ACK never cut a wait short.
RepPatience ==
    \A r \in Requests :
        proto[r].outcome = "rep_timeout" =>
            \/ proto[r].age > DropDead
            \/ proto[r].age >= (ResetTries + 1) * RepWait

\* state_machine frees the proto_t after the final call of the continuation:
\* that call happens once, and no event is left registered on the freed
\* request; conversely a request that has not had it waits for some event.
ConcludedOnce ==
    \A r \in Requests :
        /\ proto[r].finals = IF proto[r].outcome = "none" THEN 0 ELSE 1
        /\ proto[r].outcome # "none" => proto[r].wait = "none"
        /\ proto[r].wait = "none" /\ proto[r].outcome = "none" =>
               proto[r].sent = 0

(***************************************************************************)
(* The inductive invariant behind the three bounds.                        *)
(***************************************************************************)

\* REQs still to come: what is left of this attempt and of the resets.
SendBudget(p) == p.sent + (p.reqtries - 1) + p.resettries * ReqTries

NotSentYet(p) ==
    /\ p.state = "s_sendreq"
    /\ p.sent = 0
    /\ p.reqtries = ReqTries
    /\ p.resettries = ResetTries
    /\ p.connecttries > 0
    /\ p.finals = 0
    /\ p.outcome = "none"

AwaitsPacket(p) ==
    /\ p.outcome = "none"
    /\ p.finals = 0
    /\ p.state \in {"s_ackwait", "s_repwait"}
    /\ p.reqtries > 0
    /\ SendBudget(p) <= ReqTries * (ResetTries + 1)
    /\ \/ p.age = AgeCap
       \/ p.age >= (ResetTries - p.resettries) * RepWait + p.since
    /\ p.state = "s_ackwait" =>
          /\ p.timeout = AckWait
          /\ \/ p.age = AgeCap
             \/ p.age + p.timer >= (ReqTries - p.reqtries + 1) * AckWait
    /\ p.state = "s_repwait" =>
          /\ p.since + p.timer >= RepWait
          /\ p.since + p.timeout >= RepWait

Over(p) ==
    /\ p.finals = 1
    /\ p.sent <= ReqTries * (ResetTries + 1)
    /\ p.outcome = "ack_timeout" => p.age >= ReqTries * AckWait
    /\ p.outcome = "rep_timeout" =>
          p.age > DropDead \/ p.age >= (ResetTries + 1) * RepWait

ProtoInv(p) ==
    /\ p.wait \in {"connect", "connectwait"} => NotSentYet(p)
    /\ p.wait = "recv" => AwaitsPacket(p)
    /\ p.wait = "none" /\ p.outcome = "none" => NotSentYet(p)
    /\ p.wait = "none" /\ p.outcome # "none" => Over(p)

\* Every request satisfies ProtoInv; with TypeOK this is inductive.
Inv == \A r \in Requests : ProtoInv(proto[r])
=============================================================================
