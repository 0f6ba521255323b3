------------------------------- MODULE Amandad -------------------------------
(***************************************************************************)
(* The client daemon, amandad-src/amandad.c: it accepts requests, runs the *)
(* service each one names as a child process, and sends the child's output *)
(* back as the reply; with the UDP receive path of                         *)
(* common-src/security-util.c under it.                                    *)
(*                                                                         *)
(* serviceq[k] is the struct active_service of the k-th run of a service.  *)
(* Its "recv" is the receive that is registered on its security handle:    *)
(* none, without a timeout ("forever"), or with ACK_TIMEOUT ("timed").     *)
(* s_sendack, s_processrep and s_sendrep never outlive the event callback  *)
(* that enters them, so a service rests in s_repwait, in s_ackwait, or in  *)
(* s_ackwait with its handle closed and its data streams open, called      *)
(* "streams" here (module AmandadStreams has what happens then).           *)
(*                                                                         *)
(* A timeout of the client may fire at any time after it was registered.   *)
(***************************************************************************)
EXTENDS Wire

CONSTANTS Args,          \* what protocol_accept compares: service and arguments
          ArgsOf,        \* ArgsOf[r]: those of request r
          RepTries,      \* CNF_REP_TRIES
          MaxPreps,      \* bound: partial replies of one run
          MaxRecvErrors  \* bound: packets that fail the security check

ASSUME ArgsAssumption == ArgsOf \in [Requests -> Args]
ASSUME RepTriesAssumption == RepTries \in Nat \ {0}
ASSUME BoundsAssumption == MaxPreps \in Nat /\ MaxRecvErrors \in Nat

VARIABLES
    serviceq,    \* serviceq[k]: the active_service of run k
    recvErrors   \* packets that failed the security check so far

clientVars == <<serviceq, recvErrors, toClient, toServer>>

(***************************************************************************)
(* replied and acked are history: the child's output has ended and was     *)
(* sent as a REP, and an ACK was taken for it.                             *)
(***************************************************************************)
ServiceType ==
    [st : {"unused", "s_repwait", "s_ackwait", "streams", "deleted"},
     req : Requests \cup {NoRun}, recv : {"none", "forever", "timed"},
     repretry : 0..RepTries, preps : 0..MaxPreps,
     replied : BOOLEAN, acked : BOOLEAN]

ClientTypeOK ==
    /\ serviceq \in [Runs -> ServiceType]
    /\ \A k \in Runs : serviceq[k].st # "unused" => serviceq[k].req \in Requests
    /\ recvErrors \in 0..MaxRecvErrors
    /\ toClient \in [ServerPkts -> 0..Copies]
    /\ toServer \in [ClientPkts -> 0..Copies]

NoService ==
    [st |-> "unused", req |-> NoRun, recv |-> "none", repretry |-> 0,
     preps |-> 0, replied |-> FALSE, acked |-> FALSE]

ClientInit ==
    /\ serviceq = [k \in Runs |-> NoService]
    /\ recvErrors = 0
    /\ toClient = [m \in ServerPkts |-> 0]
    /\ toServer = [m \in ClientPkts |-> 0]

Running(k) == serviceq[k].st \in {"s_repwait", "s_ackwait", "streams"}

\* do_sendpkt of a packet about run k.
Send(type, k, r) == toServer' = Put(toServer, ClientPkt(type, r, k))

\* service_delete: the events and the handle go, the child is killed, and the
\* service leaves serviceq.
Deleted(s) == [s EXCEPT !.st = "deleted", !.recv = "none"]

(***************************************************************************)
(* udp_netfd_read_callback: a packet goes to the service that has a        *)
(* receive registered on the handle it names, and to protocol_accept with  *)
(* a new handle if there is none.                                          *)
(***************************************************************************)
Takes(m) ==
    /\ InFlight(toClient, m)
    /\ toClient' = Take(toClient, m)

Listening(k, r) == serviceq[k].req = r /\ serviceq[k].recv # "none"

Accepts(m) ==
    /\ Takes(m)
    /\ \A k \in Runs : ~ Listening(k, m.req)

Delivers(m, k) ==
    /\ Takes(m)
    /\ Listening(k, m.req)

(***************************************************************************)
(* protocol_accept.                                                        *)
(***************************************************************************)
\* Mutation: only services that still wait for their child are compared.
AlreadyWaiting(r) ==
    \E k \in Runs : /\ serviceq[k].st = "s_repwait"
                    /\ ArgsOf[serviceq[k].req] = ArgsOf[r]

AlreadyRunning(r) ==
    \E k \in Runs : Running(k) /\ ArgsOf[serviceq[k].req] = ArgsOf[r]

\* The configuration has errors, or the packet failed the security check (of
\* any type), or the request is malformed or names a service that may not be
\* run: a NAK that belongs to no service.
AcceptRefuse(m) ==
    /\ Accepts(m)
    /\ Send("P_NAK", NoRun, m.req)
    /\ UNCHANGED <<serviceq, recvErrors>>

\* Not a REQ: forget about it.
AcceptForget(m) ==
    /\ Accepts(m)
    /\ m.type # "P_REQ"
    /\ UNCHANGED <<serviceq, recvErrors, toServer>>

\* The same service with the same arguments is running: only an ACK.
AcceptRunning(m) ==
    /\ Accepts(m)
    /\ m.type = "P_REQ"
    /\ AlreadyRunning(m.req)
    /\ Send("P_ACK", NoRun, m.req)
    /\ UNCHANGED <<serviceq, recvErrors>>

\* service_new, the arguments written to the child, then s_sendack: the ACK
\* is sent and the service waits for the child's output.
AcceptNew(m, k) ==
    /\ Accepts(m)
    /\ m.type = "P_REQ"
    /\ ~ AlreadyRunning(m.req)
    /\ serviceq[k].st = "unused"
    /\ serviceq' = [serviceq EXCEPT
                      ![k] = [NoService EXCEPT !.st = "s_repwait",
                                               !.req = m.req,
                                               !.recv = "forever"]]
    /\ Send("P_ACK", k, m.req)
    /\ UNCHANGED recvErrors

\* service_new, and either writebuf failed, which ends in a NAK, or the ACK of
\* s_sendack could not be sent, which ends in nothing; the service is deleted.
AcceptFail(m, k) ==
    /\ Accepts(m)
    /\ m.type = "P_REQ"
    /\ ~ AlreadyRunning(m.req)
    /\ serviceq[k].st = "unused"
    /\ serviceq' = [serviceq EXCEPT
                      ![k] = Deleted([NoService EXCEPT !.req = m.req])]
    /\ Send("P_NAK", k, m.req) \/ UNCHANGED toServer
    /\ UNCHANGED recvErrors

(***************************************************************************)
(* protocol_recv with S_ERROR: the security layer has cancelled the        *)
(* receive, and its timeout, before the callback; the callback only logs.  *)
(***************************************************************************)
RecvBad(m, k) ==
    /\ recvErrors < MaxRecvErrors
    /\ Delivers(m, k)
    /\ recvErrors' = recvErrors + 1
    /\ serviceq' = [serviceq EXCEPT ![k].recv = "none"]
    /\ UNCHANGED toServer

(***************************************************************************)
(* s_repwait.                                                              *)
(***************************************************************************)

\* Mutation: a repeated REQ is taken for an unexpected packet.
DupReqRefused(m, k) ==
    /\ Delivers(m, k)
    /\ serviceq[k].st = "s_repwait"
    /\ m.type = "P_REQ"
    /\ serviceq' = [serviceq EXCEPT ![k].recv = "forever"]
    /\ Send("P_NAK", k, m.req)
    /\ UNCHANGED recvErrors

\* A_RECVPKT with a REQ: the server asks again; ACK it.
DupReqWhileRunning(m, k) ==
    /\ Delivers(m, k)
    /\ serviceq[k].st = "s_repwait"
    /\ m.type = "P_REQ"
    /\ serviceq' = [serviceq EXCEPT ![k].recv = "forever"]
    /\ Send("P_ACK", k, m.req)
    /\ UNCHANGED recvErrors

\* A_RECVPKT with anything else: A_SENDNAK, and the service goes on.
Unexpected(m, k) ==
    /\ Delivers(m, k)
    /\ serviceq[k].st = "s_repwait"
    /\ m.type # "P_REQ"
    /\ serviceq' = [serviceq EXCEPT ![k].recv = "forever"]
    /\ Send("P_NAK", k, m.req)
    /\ UNCHANGED recvErrors

\* A_TIMEOUT of ev_reptimeout, or an error reading the child's output.
ReplyFails(k) ==
    /\ serviceq[k].st = "s_repwait"
    /\ serviceq' = [serviceq EXCEPT ![k] = Deleted(@)]
    /\ Send("P_NAK", k, serviceq[k].req)
    /\ UNCHANGED <<recvErrors, toClient>>

\* Mutation: what has been read so far is sent as the reply.
PartialReplyAsReply(k) ==
    /\ serviceq[k].st = "s_repwait"
    /\ serviceq[k].preps < MaxPreps
    /\ serviceq' = [serviceq EXCEPT ![k].preps = @ + 1]
    /\ Send("P_REP", k, serviceq[k].req)
    /\ UNCHANGED <<recvErrors, toClient>>

\* A_RECVREP with data: sent as a PREP when the service sends partial
\* replies and the buffer did not have to grow.
PartialReply(k) ==
    /\ serviceq[k].st = "s_repwait"
    /\ serviceq[k].preps < MaxPreps
    /\ serviceq' = [serviceq EXCEPT ![k].preps = @ + 1]
    /\ Send("P_PREP", k, serviceq[k].req)
    /\ UNCHANGED <<recvErrors, toClient>>

\* Mutation: repretry is set where the reply is sent.
SendRepAllTries(s) ==
    [s EXCEPT !.st = "s_ackwait", !.recv = "timed", !.repretry = RepTries]

\* s_sendrep: a receive with ACK_TIMEOUT is registered, and s_ackwait is next.
SendRep(s) == [s EXCEPT !.st = "s_ackwait", !.recv = "timed"]

\* A_RECVREP at end of file, then s_processrep and s_sendrep: the reply is
\* complete, and sent.
Reply(k) ==
    /\ serviceq[k].st = "s_repwait"
    /\ serviceq' = [serviceq EXCEPT
                      ![k] = SendRep([@ EXCEPT !.repretry = RepTries,
                                               !.replied = TRUE])]
    /\ Send("P_REP", k, serviceq[k].req)
    /\ UNCHANGED <<recvErrors, toClient>>

(***************************************************************************)
(* s_ackwait.                                                              *)
(***************************************************************************)

\* A_TIMEOUT with tries left: s_sendrep again.
AckTimeoutReplyAgain(k) ==
    /\ serviceq[k].st = "s_ackwait"
    /\ serviceq[k].recv = "timed"
    /\ serviceq[k].repretry > 1
    /\ serviceq' = [serviceq EXCEPT
                      ![k] = SendRep([@ EXCEPT
                                        !.repretry = serviceq[k].repretry - 1])]
    /\ Send("P_REP", k, serviceq[k].req)
    /\ UNCHANGED <<recvErrors, toClient>>

\* A_TIMEOUT with none left: give up.
AckTimeoutGiveUp(k) ==
    /\ serviceq[k].st = "s_ackwait"
    /\ serviceq[k].recv = "timed"
    /\ serviceq[k].repretry <= 1
    /\ serviceq' = [serviceq EXCEPT ![k] = Deleted(@)]
    /\ UNCHANGED <<recvErrors, toClient, toServer>>

\* A_RECVPKT with a REQ: the server missed the reply; s_sendrep again.
DupReqReplyAgain(m, k) ==
    /\ Delivers(m, k)
    /\ serviceq[k].st = "s_ackwait"
    /\ m.type = "P_REQ"
    /\ serviceq' = [serviceq EXCEPT ![k] = SendRep(@)]
    /\ Send("P_REP", k, m.req)
    /\ UNCHANGED recvErrors

\* A_RECVPKT with the ACK: the streams are opened and authenticated.  If none
\* remains the service is done, else the handle is closed and they run.
RecvAckOfReply(m, k, open) ==
    /\ Delivers(m, k)
    /\ serviceq[k].st = "s_ackwait"
    /\ m.type = "P_ACK"
    /\ serviceq' = [serviceq EXCEPT
                      ![k] = [Deleted(@) EXCEPT
                                !.st = IF open THEN "streams" ELSE "deleted",
                                !.acked = TRUE]]
    /\ UNCHANGED <<recvErrors, toServer>>

\* process_readnetfd: the last stream closed, or one broke; the handle is
\* NULL by then, so the NAK of the latter is not sent.
StreamsDone(k) ==
    /\ serviceq[k].st = "streams"
    /\ serviceq' = [serviceq EXCEPT ![k] = Deleted(@)]
    /\ UNCHANGED <<recvErrors, toClient, toServer>>

(***************************************************************************)
(* The specification of the client.                                        *)
(***************************************************************************)
Accept(m) ==
    \/ AcceptRefuse(m)
    \/ AcceptForget(m)
    \/ AcceptRunning(m)
    \/ \E k \in Runs : AcceptNew(m, k)
    \/ \E k \in Runs : AcceptFail(m, k)

Deliver(m, k) ==
    \/ RecvBad(m, k)
    \/ DupReqWhileRunning(m, k)
    \/ Unexpected(m, k)
    \/ DupReqReplyAgain(m, k)
    \/ \E open \in BOOLEAN : RecvAckOfReply(m, k, open)

Service(k) ==
    \/ ReplyFails(k)
    \/ PartialReply(k)
    \/ Reply(k)
    \/ AckTimeoutReplyAgain(k)
    \/ AckTimeoutGiveUp(k)
    \/ StreamsDone(k)

ClientNext ==
    \/ \E m \in ServerPkts : Accept(m)
    \/ \E m \in ServerPkts, k \in Runs : Deliver(m, k)
    \/ \E k \in Runs : Service(k)

\* Everything else on the network, as far as amandad can tell.
Rest ==
    /\ \/ UNCHANGED toClient
       \/ \E m \in ServerPkts : toClient' = Put(toClient, m)
       \/ \E m \in ServerPkts : /\ InFlight(toClient, m)
                                /\ toClient' = Take(toClient, m)
    /\ \/ UNCHANGED toServer
       \/ \E m \in ClientPkts :
             /\ InFlight(toServer, m)
             /\ toServer' = Take(toServer, m) \/ toServer' = Put(toServer, m)
    /\ UNCHANGED <<serviceq, recvErrors>>

ClientSpec == ClientInit /\ [][ClientNext \/ Rest]_clientVars

(***************************************************************************)
(* Properties.                                                             *)
(***************************************************************************)

\* protocol_accept never starts a service that is already running with the
\* same arguments, however REQs are repeated, and whether the running service
\* listens on its handle (s_repwait, s_ackwait) or has lost its receive or
\* closed its handle, when the REQ comes to protocol_accept on a new one.
AtMostOneRunning ==
    \A j, k \in Runs :
        Running(j) /\ Running(k) /\ j # k =>
            ArgsOf[serviceq[j].req] # ArgsOf[serviceq[k].req]
=============================================================================
