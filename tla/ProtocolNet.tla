----------------------------- MODULE ProtocolNet -----------------------------
(***************************************************************************)
(* The control protocol as a whole: the server of module Protocol and the  *)
(* amandad of module Amandad, joined by a UDP network that loses, delays,  *)
(* reorders and duplicates packets.                                        *)
(*                                                                         *)
(* The two ends share the two directions of the network and nothing else.  *)
(* Delay and reordering are in the choice of the packet that is received   *)
(* next; loss and duplication are actions.                                 *)
(***************************************************************************)
EXTENDS Protocol, Amandad

CONSTANT MaxDups     \* bound: packets the network duplicates

ASSUME MaxDupsAssumption == MaxDups \in Nat

VARIABLE dups        \* packets duplicated so far

netVars == <<proto, toClient, toServer, serviceq, recvErrors, dups>>

NetInit ==
    /\ Init
    /\ ClientInit
    /\ dups = 0

\* A step of the server.
ServerStep == ServerNext /\ UNCHANGED <<serviceq, recvErrors, dups>>

\* A step of the client.
ClientStep == ClientNext /\ UNCHANGED <<proto, dups>>

\* The network loses a packet.
Lose ==
    /\ \/ /\ \E m \in ServerPkts : /\ InFlight(toClient, m)
                                   /\ toClient' = Take(toClient, m)
          /\ UNCHANGED toServer
       \/ /\ \E m \in ClientPkts : /\ InFlight(toServer, m)
                                   /\ toServer' = Take(toServer, m)
          /\ UNCHANGED toClient
    /\ UNCHANGED <<proto, serviceq, recvErrors, dups>>

\* The network delivers a packet twice.
Duplicate ==
    /\ dups < MaxDups
    /\ dups' = dups + 1
    /\ \/ /\ \E m \in ServerPkts : /\ InFlight(toClient, m)
                                   /\ toClient' = Put(toClient, m)
          /\ UNCHANGED toServer
       \/ /\ \E m \in ClientPkts : /\ InFlight(toServer, m)
                                   /\ toServer' = Put(toServer, m)
          /\ UNCHANGED toClient
    /\ UNCHANGED <<proto, serviceq, recvErrors>>

NetNext == ServerStep \/ ClientStep \/ Lose \/ Duplicate

NetSpec == NetInit /\ [][NetNext]_netVars

(***************************************************************************)
(* Fairness.  The event loop of either program runs the callback of an     *)
(* event that has occurred, and a timer that was registered occurs:        *)
(* security_connect answers, timeouts fire.  Nothing is assumed of the     *)
(* network, of a packet's arrival or of the child process.                 *)
(***************************************************************************)
ConnectAnswers(r) ==
    \/ \E ok \in BOOLEAN : Connected(r, ok)
    \/ ConnectAbort(r)
    \/ ConnectRetry(r)

TimerFires(r) ==
    \/ ConnectWaitOver(r)
    \/ AckTimeoutAbort(r)
    \/ \E ok \in BOOLEAN : AckTimeoutResend(r, ok)
    \/ RepTimeoutAbort(r)
    \/ \E ok \in BOOLEAN : RepTimeoutReset(r, ok)

ServiceTimeout(k) ==
    \/ ReplyFails(k)
    \/ AckTimeoutReplyAgain(k)
    \/ AckTimeoutGiveUp(k)

Still == UNCHANGED <<serviceq, recvErrors, dups>>

Fairness ==
    /\ WF_netVars(Tick /\ Still)
    /\ \A r \in Requests : /\ WF_netVars(ConnectAnswers(r) /\ Still)
                           /\ WF_netVars(TimerFires(r) /\ Still)
    /\ \A k \in Runs : WF_netVars(ServiceTimeout(k) /\ UNCHANGED <<proto, dups>>)

FairNetSpec == NetSpec /\ Fairness

(***************************************************************************)
(* Properties.                                                             *)
(***************************************************************************)

\* A request that ended with a REP (s_repwait of protocol.c) got the whole
\* output of a child that amandad started for this very request: the REP names
\* a run whose output had ended (s_processrep), however late or repeated.
GenuineReply ==
    \A r \in Requests :
        proto[r].outcome = "P_REP" =>
            /\ proto[r].run \in Runs
            /\ serviceq[proto[r].run].req = r
            /\ serviceq[proto[r].run].replied

\* A request that a service refused (a NAK of a run) leaves nothing running:
\* the NAK that amandad's state_machine sends for an unexpected packet, after
\* which the service goes on, never ends a request of the server.
NakLeavesNoService ==
    \A r \in Requests :
        proto[r].outcome = "P_NAK" /\ proto[r].run \in Runs =>
            ~ Running(proto[r].run)

\* When s_ackwait of amandad.c takes an ACK and opens the streams, the server
\* has concluded that request with a REP: the ACK that a server sends is never
\* taken by the service of a request that still waits, or that failed.
AckedMeansConcluded ==
    \A k \in Runs :
        serviceq[k].acked => proto[serviceq[k].req].outcome = "P_REP"

(***************************************************************************)
(* The inductive invariant behind the three properties.                    *)
(***************************************************************************)

\* What a packet from the client says of its run is true when it arrives,
\* however late: runs are never reused, and a service that was deleted or has
\* replied stays so.  The NAK for an unexpected packet is the exception; it
\* answers an ACK, and that is sent only by a request that is over.
Honest(m) ==
    /\ m.type = "P_REP" =>
          /\ m.run \in Runs
          /\ serviceq[m.run].req = m.req
          /\ serviceq[m.run].replied
    /\ m.type = "P_NAK" /\ m.run \in Runs =>
          \/ serviceq[m.run].st = "deleted"
          \/ serviceq[m.run].st # "unused" /\ proto[m.req].outcome = "P_REP"

\* What is in flight between protocol.c and amandad.c never misleads: packets
\* from the client are honest, an ACK to the client means that the server has
\* the reply, and what either end has concluded from them is so.
HandshakeInv ==
    /\ \A m \in ClientPkts : InFlight(toServer, m) => Honest(m)
    /\ \A m \in ServerPkts :
          m.type = "P_ACK" /\ InFlight(toClient, m) =>
              proto[m.req].outcome = "P_REP"
    /\ \A k \in Runs :
          /\ serviceq[k].st = "unused" =>
                ~ serviceq[k].replied /\ ~ serviceq[k].acked
          /\ serviceq[k].st = "s_ackwait" => serviceq[k].replied
    /\ \A r \in Requests :
          proto[r].outcome = "P_NAK" /\ proto[r].run \in Runs =>
              serviceq[proto[r].run].st = "deleted"
    /\ GenuineReply
    /\ AckedMeansConcluded

\* Every request that was started comes to its final continuation: no loss, no
\* silence of the client, no stray packet keeps state_machine waiting for ever.
RequestConcludes ==
    \A r \in Requests :
        proto[r].wait # "none" ~> proto[r].outcome # "none"

\* A service that waits for its child or for the ACK of its reply gets on:
\* REP_TIMEOUT and the CNF_REP_TRIES waits of s_ackwait end ("try again, but
\* eventually give up").  The exception is a service in s_ackwait whose receive
\* was lost to a packet that failed the security check (protocol_recv with
\* S_ERROR): its timeout went with the receive.  One that loses it in s_repwait
\* gets a new one from s_sendrep.
ServiceEnds ==
    \A k \in Runs :
        serviceq[k].st \in {"s_repwait", "s_ackwait"} ~>
            \/ serviceq[k].st \in {"streams", "deleted"}
            \/ serviceq[k].st = "s_ackwait" /\ serviceq[k].recv = "none"
=============================================================================
