-------------------------------- MODULE Wire --------------------------------
(***************************************************************************)
(* The datagrams that the Amanda server (common-src/protocol.c) and the    *)
(* client daemon (amandad-src/amandad.c) exchange, and the unreliable      *)
(* network between them.                                                   *)
(*                                                                         *)
(* A packet of common-src/packet.h is its type and its body.  What the     *)
(* protocol tells apart in a body is the request it belongs to (the        *)
(* handle and sequence number that common-src/security-util.c puts in the  *)
(* header) and, in what the client sends, the run of the service that it   *)
(* reports on; nothing else of the text matters to either state machine.   *)
(*                                                                         *)
(* One direction of the network is the number of copies of each packet in  *)
(* flight, at most Copies.  A packet that finds Copies of itself in flight *)
(* is lost, so the cap adds no behaviour that UDP does not have.           *)
(***************************************************************************)
EXTENDS Naturals

CONSTANTS Requests,     \* the requests the server makes (distinct handles)
          Runs,         \* names of the executions of a service on the client
          NoRun,        \* the "run" of a packet that reports on none
          Copies        \* most copies of one packet in flight

ASSUME RunsAssumption == NoRun \notin Runs
ASSUME CopiesAssumption == Copies \in Nat \ {0}

VARIABLES
    toClient,   \* toClient[m]: copies of m in flight from server to client
    toServer    \* toServer[m]: copies of m in flight from client to server

ServerTypes == {"P_REQ", "P_ACK"}
ClientTypes == {"P_ACK", "P_NAK", "P_PREP", "P_REP"}

\* What the server sends: it speaks only of its own request.
ServerPkt(type, r) == [type |-> type, req |-> r]

\* What the client sends: the run is NoRun in what protocol_accept sends
\* before a service exists.
ClientPkt(type, r, k) == [type |-> type, req |-> r, run |-> k]

ServerPkts == [type : ServerTypes, req : Requests]
ClientPkts == [type : ClientTypes, req : Requests, run : Runs \cup {NoRun}]

\* security_sendpkt that did not fail: one more copy in flight.
Put(net, m) == [net EXCEPT ![m] = IF @ < Copies THEN @ + 1 ELSE @]

\* A copy leaves the network: it was received, or lost.
Take(net, m) == [net EXCEPT ![m] = @ - 1]

InFlight(net, m) == net[m] > 0
=============================================================================
