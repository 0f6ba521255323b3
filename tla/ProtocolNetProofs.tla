-------------------------- MODULE ProtocolNetProofs --------------------------
(***************************************************************************)
(* Proofs about the control protocol, and at the end about the streams of  *)
(* the service it starts.                                                  *)
(*                                                                         *)
(* The protocol first: either end alone, with whatever the other one and   *)
(* the network may do:                                                     *)
(*   - the server (module Protocol), for every number of requests, every   *)
(*     configured number of tries and every timeout.  Every action         *)
(*     rewrites the record of one request by one of a few record           *)
(*     operators, so the argument is about a single record p: the lemmas   *)
(*     show that each operator maps a record that satisfies ProtoInv to    *)
(*     one that does, and the step theorem only has to find the operator   *)
(*     of each action;                                                     *)
(*   - the client (module Amandad), for every number of requests, runs and *)
(*     tries: the state of the daemon has its type and no service runs     *)
(*     twice with the same arguments.                                      *)
(* Then about the composition: each end sees the other end and the network *)
(* as its environment, so what is proved of the ends alone holds of the    *)
(* whole; and, for every number of requests, runs, tries and copies, the   *)
(* two ends never mislead each other.                                      *)
(*                                                                         *)
(* The streams (module AmandadStreams), for text of any length read in     *)
(* pieces of any size: the search of process_readnetfd misses no info end  *)
(* and invents none, the dumper has its header before the dump, and no     *)
(* stream that ends has lost anything.                                     *)
(***************************************************************************)
EXTENDS ProtocolNet, AmandadStreams, TLAPS

-----------------------------------------------------------------------------
(* The server.                                                             *)

(***************************************************************************)
(* Arithmetic.                                                             *)
(***************************************************************************)

\* Products of naturals are naturals.
LEMMA ProductNat ==
  ASSUME NEW m \in Nat, NEW n \in Nat
  PROVE  m * n \in Nat
  OBVIOUS

\* One more factor: what a decremented retry counter gives back.
LEMMA ProductStep ==
  ASSUME NEW m \in Nat, NEW n \in Nat
  PROVE  (m + 1) * n = m * n + n
  OBVIOUS

\* A product of naturals grows with its first factor.
LEMMA ProductMono ==
  ASSUME NEW m \in Nat, NEW n \in Nat, NEW k \in Nat, m <= n
  PROVE  m * k <= n * k
  OBVIOUS

\* Nothing that an age is compared with lies above AgeCap.
LEMMA Caps ==
  /\ AgeCap \in Nat
  /\ AgeCap > DropDead
  /\ AgeCap >= ReqTries * AckWait
  /\ AgeCap >= (ResetTries + 1) * RepWait
  /\ SinceCap \in Nat
  <1>1. /\ ReqTries * AckWait \in Nat
        /\ (ResetTries + 1) * RepWait \in Nat
    BY ProductNat, TriesAssumption, TimesAssumption
  <1>2. QED
    BY <1>1, TriesAssumption, TimesAssumption DEF AgeCap, Longer, SinceCap

(***************************************************************************)
(* The record operators.                                                   *)
(***************************************************************************)

\* A request that waits for a packet has sent no more than the bound.
LEMMA AwaitsBound ==
  ASSUME NEW p \in ProtoType, AwaitsPacket(p)
  PROVE  p.sent <= ReqTries * (ResetTries + 1)
  <1>1. /\ p.resettries * ReqTries \in Nat
        /\ ReqTries * (ResetTries + 1) \in Nat
    BY ProductNat, TriesAssumption DEF ProtoType
  <1>2. QED
    BY <1>1, TriesAssumption DEF AwaitsPacket, SendBudget, ProtoType

\* Conclude keeps the type and the invariant, if a timeout outcome is due.
LEMMA ConcludeInv ==
  ASSUME NEW p \in ProtoType, NEW why \in Outcomes \ {"none"},
         NEW k \in Runs \cup {NoRun},
         p.finals = 0,
         p.sent <= ReqTries * (ResetTries + 1),
         why = "ack_timeout" => p.age >= ReqTries * AckWait,
         why = "rep_timeout" =>
            p.age > DropDead \/ p.age >= (ResetTries + 1) * RepWait
  PROVE  /\ Conclude(p, why, k) \in ProtoType
         /\ ProtoInv(Conclude(p, why, k))
  <1> DEFINE q == Conclude(p, why, k)
  <1>1. q = [p EXCEPT !.wait = "none", !.outcome = why, !.run = k,
                      !.finals = 1]
    BY DEF Conclude, ProtoType
  <1> HIDE DEF q
  <1>2. q \in ProtoType
    BY <1>1 DEF ProtoType, Waits
  <1>3. ProtoInv(q)
    BY <1>1 DEF ProtoType, ProtoInv, Over
  <1>4. QED
    BY <1>2, <1>3 DEF q

\* SendReq establishes the invariant when the budget holds one more REQ and
\* the earlier attempts took the time they should.
LEMMA SendReqInv ==
  ASSUME NEW p \in ProtoType, NEW ok \in BOOLEAN,
         p.outcome = "none", p.finals = 0, p.reqtries > 0,
         p.sent + p.reqtries + p.resettries * ReqTries
            <= ReqTries * (ResetTries + 1),
         \/ p.age = AgeCap
         \/ p.age >= (ResetTries - p.resettries) * RepWait,
         \/ p.age = AgeCap
         \/ p.age + AckWait >= (ReqTries - p.reqtries + 1) * AckWait
  PROVE  /\ SendReq(p, ok) \in ProtoType
         /\ ProtoInv(SendReq(p, ok))
  <1>1. /\ p.resettries * ReqTries \in Nat
        /\ ReqTries * (ResetTries + 1) \in Nat
    BY ProductNat, TriesAssumption DEF ProtoType
  <1>2. CASE ok
    <2> DEFINE q == SendReq(p, ok)
    <2>1. q = [state |-> "s_ackwait", wait |-> "recv",
               connecttries |-> p.connecttries, resettries |-> p.resettries,
               reqtries |-> p.reqtries, timeout |-> AckWait,
               timer |-> AckWait, age |-> p.age, since |-> 0,
               outcome |-> p.outcome, sent |-> p.sent + 1,
               finals |-> p.finals, run |-> p.run]
      BY <1>2 DEF SendReq, Pending, ProtoType
    <2> HIDE DEF q
    <2>2. q \in ProtoType
      BY <2>1, TimesAssumption DEF ProtoType, States, Waits, SinceCap
    <2>3. AwaitsPacket(q)
      <3>1. SendBudget(q) <= ReqTries * (ResetTries + 1)
        BY <1>1, <2>1, TriesAssumption DEF SendBudget, ProtoType
      <3>2. q.age = AgeCap
              \/ q.age >= (ResetTries - q.resettries) * RepWait + q.since
        <4>1. (ResetTries - p.resettries) * RepWait \in Nat
          BY ProductNat, TriesAssumption, TimesAssumption DEF ProtoType
        <4>2. QED
          BY <2>1, <4>1 DEF ProtoType
      <3>3. q.age = AgeCap
              \/ q.age + q.timer >= (ReqTries - q.reqtries + 1) * AckWait
        BY <2>1 DEF ProtoType
      <3>4. QED
        BY <2>1, <3>1, <3>2, <3>3 DEF AwaitsPacket, ProtoType
    <2>4. ProtoInv(q)
      BY <2>1, <2>2, <2>3 DEF ProtoInv, ProtoType
    <2>5. QED
      BY <2>2, <2>4 DEF q
  <1>3. CASE ~ ok
    <2>1. p.sent <= ReqTries * (ResetTries + 1)
      BY <1>1 DEF ProtoType
    <2>2. QED
      BY <1>3, <2>1, ConcludeInv DEF SendReq, Abort, Outcomes
  <1>4. QED
    BY <1>2, <1>3

\* Moving to, or staying in, s_repwait with a timeout that ends no earlier than
\* repwait seconds after the REQ.
LEMMA RepWaitInv ==
  ASSUME NEW p \in ProtoType, AwaitsPacket(p), p.wait = "recv",
         NEW t \in Nat, p.since + t >= RepWait
  PROVE  LET q == Pending([p EXCEPT !.state = "s_repwait", !.timeout = t])
         IN  q \in ProtoType /\ ProtoInv(q)
  <1> DEFINE q == Pending([p EXCEPT !.state = "s_repwait", !.timeout = t])
  <1>1. q = [p EXCEPT !.state = "s_repwait", !.timeout = t,
                      !.wait = "recv", !.timer = t]
    BY DEF Pending, ProtoType
  <1> HIDE DEF q
  <1>2. q \in ProtoType
    BY <1>1 DEF ProtoType, States, Waits
  <1>3. AwaitsPacket(q)
    BY <1>1 DEF AwaitsPacket, SendBudget, ProtoType
  <1>4. ProtoInv(q)
    BY <1>1, <1>2, <1>3 DEF ProtoInv, ProtoType
  <1>5. QED
    BY <1>2, <1>4 DEF q

\* A second more: age and since grow together and the timer shrinks with them.
LEMMA ElapseInv ==
  ASSUME NEW p \in ProtoType, ProtoInv(p), p.wait # "none"
  PROVE  Elapse(p) \in ProtoType /\ ProtoInv(Elapse(p))
  <1> DEFINE q == Elapse(p)
             a == IF p.age < AgeCap THEN p.age + 1 ELSE p.age
             s == IF p.since < SinceCap THEN p.since + 1 ELSE p.since
             t == IF p.timer > 0 THEN p.timer - 1 ELSE p.timer
  <1>a. /\ a \in 0..AgeCap
        /\ p.age < AgeCap => a = p.age + 1
        /\ p.age = AgeCap => a = AgeCap
    BY Caps DEF ProtoType
  <1>s. /\ s \in 0..SinceCap
        /\ p.since < SinceCap => s = p.since + 1
        /\ p.since = SinceCap => s = SinceCap
    BY Caps DEF ProtoType
  <1>t. /\ t \in Nat
        /\ t + 1 >= p.timer
    BY DEF ProtoType
  <1>0. q = [p EXCEPT !.age = a, !.since = s, !.timer = t]
    BY DEF Elapse
  <1> HIDE DEF q, a, s, t
  <1>1. q = [state |-> p.state, wait |-> p.wait,
             connecttries |-> p.connecttries, resettries |-> p.resettries,
             reqtries |-> p.reqtries, timeout |-> p.timeout,
             timer |-> t, age |-> a, since |-> s,
             outcome |-> p.outcome, sent |-> p.sent, finals |-> p.finals,
             run |-> p.run]
    BY <1>0 DEF ProtoType
  <1>2. q \in ProtoType
    BY <1>1, <1>a, <1>s, <1>t DEF ProtoType
  <1>3. ASSUME p.wait \in {"connect", "connectwait"}
        PROVE  ProtoInv(q)
    <2>1. NotSentYet(p)
      BY <1>3 DEF ProtoInv
    <2>2. NotSentYet(q) /\ q.wait = p.wait
      BY <1>1, <2>1 DEF NotSentYet, ProtoType
    <2>3. QED
      BY <1>3, <2>2 DEF ProtoInv
  <1>4. ASSUME p.wait = "recv"
        PROVE  ProtoInv(q)
    <2>1. AwaitsPacket(p)
      BY <1>4 DEF ProtoInv
    <2>2. (ResetTries - p.resettries) * RepWait \in Nat
      BY ProductNat, TriesAssumption, TimesAssumption DEF ProtoType
    <2>3. (ReqTries - p.reqtries + 1) * AckWait \in Nat
      BY ProductNat, TriesAssumption, TimesAssumption DEF ProtoType
    <2>4. a = AgeCap \/ a >= (ResetTries - p.resettries) * RepWait + s
      BY <1>a, <1>s, <2>1, <2>2, Caps DEF AwaitsPacket, ProtoType
    <2>5. ASSUME \/ p.age = AgeCap
                 \/ p.age + p.timer >= (ReqTries - p.reqtries + 1) * AckWait
          PROVE  a = AgeCap
                    \/ a + t >= (ReqTries - p.reqtries + 1) * AckWait
      BY <1>a, <1>t, <2>3, <2>5, Caps DEF ProtoType
    <2>6. p.since + p.timer >= RepWait => s + t >= RepWait
      BY <1>s, <1>t, TimesAssumption DEF ProtoType, SinceCap
    <2>7. p.since + p.timeout >= RepWait => s + p.timeout >= RepWait
      BY <1>s, TimesAssumption DEF ProtoType, SinceCap
    <2>8. AwaitsPacket(q) /\ q.wait = "recv"
      BY <1>1, <1>4, <2>1, <2>4, <2>5, <2>6, <2>7
      DEF AwaitsPacket, SendBudget, ProtoType
    <2>9. QED
      BY <2>8 DEF ProtoInv
  <1>5. ProtoInv(q)
    BY <1>3, <1>4 DEF ProtoType, Waits
  <1>6. QED
    BY <1>2, <1>5 DEF q

(***************************************************************************)
(* The network.                                                            *)
(***************************************************************************)

\* Sending and receiving keep the number of copies in flight in its range.
LEMMA NetType ==
  ASSUME NEW S, NEW net \in [S -> 0..Copies], NEW m \in S
  PROVE  /\ Put(net, m) \in [S -> 0..Copies]
         /\ InFlight(net, m) => Take(net, m) \in [S -> 0..Copies]
  BY CopiesAssumption DEF Put, Take, InFlight

\* A step that rewrites one request to a good record keeps every request good.
LEMMA OneRequest ==
  ASSUME TypeOK, Inv, NEW r \in Requests, NEW q,
         q \in ProtoType, ProtoInv(q),
         proto' = [proto EXCEPT ![r] = q]
  PROVE  proto' \in [Requests -> ProtoType] /\ Inv'
  <1>1. proto' \in [Requests -> ProtoType]
    BY DEF TypeOK
  <1>2. ASSUME NEW s \in Requests
        PROVE  ProtoInv(proto'[s])
    BY DEF TypeOK, Inv
  <1>3. QED
    BY <1>1, <1>2 DEF Inv

\* A REQ joins the network.
LEMMA SendReqNetType ==
  ASSUME TypeOK, NEW r \in Requests, NEW ok \in BOOLEAN, SendReqNet(r, ok)
  PROVE  toClient' \in [ServerPkts -> 0..Copies]
  <1>1. ServerPkt("P_REQ", r) \in ServerPkts
    BY DEF ServerPkt, ServerPkts, ServerTypes
  <1>2. QED
    BY <1>1, NetType DEF SendReqNet, TypeOK

(***************************************************************************)
(* The steps of one request.                                               *)
(***************************************************************************)

\* Every event of a request other than a packet keeps type and invariant.
LEMMA StepInv ==
  ASSUME TypeOK, Inv, NEW r \in Requests, Step(r)
  PROVE  TypeOK' /\ Inv'
  <1> DEFINE p == proto[r]
  <1>1. p \in ProtoType /\ ProtoInv(p)
    BY DEF TypeOK, Inv
  <1> HIDE DEF p
  <1>2. /\ p.resettries * ReqTries \in Nat
        /\ ResetTries * ReqTries \in Nat
        /\ ReqTries * (ResetTries + 1) = ResetTries * ReqTries + ReqTries
    BY <1>1, ProductNat, ProductStep, TriesAssumption DEF ProtoType
  <1>3. CASE SendRequest(r)
    <2> DEFINE q == Begin(p)
    <2>1. NotSentYet(p)
      BY <1>1, <1>3 DEF SendRequest, ProtoInv, p
    <2>2. q \in ProtoType /\ q.wait = "connect" /\ NotSentYet(q)
      <3>1. q = [p EXCEPT !.wait = "connect", !.age = 0] /\ 0 \in 0..AgeCap
        BY Caps DEF Begin
      <3> HIDE DEF q
      <3>2. q \in ProtoType /\ q.wait = "connect"
        BY <1>1, <3>1 DEF ProtoType, Waits
      <3>3. NotSentYet(q)
        BY <1>1, <2>1, <3>1 DEF ProtoType, NotSentYet
      <3>4. QED
        BY <3>2, <3>3
    <2>3. ProtoInv(q)
      BY <2>2 DEF ProtoInv
    <2>4. proto' = [proto EXCEPT ![r] = q]
      BY <1>3 DEF SendRequest, p
    <2> HIDE DEF q
    <2>5. QED
      BY <1>3, <2>2, <2>3, <2>4, OneRequest DEF SendRequest, TypeOK
  <1>4. ASSUME NEW ok \in BOOLEAN, Connected(r, ok)
        PROVE  TypeOK' /\ Inv'
    <2>1. NotSentYet(p)
      BY <1>1, <1>4 DEF Connected, ProtoInv, p
    <2>2. SendReq(p, ok) \in ProtoType /\ ProtoInv(SendReq(p, ok))
      <3>1. (ReqTries - p.reqtries + 1) * AckWait = AckWait
        BY <1>1, <2>1, TriesAssumption, TimesAssumption
        DEF NotSentYet, ProtoType
      <3>2. (ResetTries - p.resettries) * RepWait = 0
        BY <1>1, <2>1, TriesAssumption, TimesAssumption
        DEF NotSentYet, ProtoType
      <3>3. p.sent + p.reqtries + p.resettries * ReqTries
              <= ReqTries * (ResetTries + 1)
        BY <1>2, <2>1, TriesAssumption DEF NotSentYet
      <3>4. p.age >= 0 /\ p.age + AckWait >= AckWait
        BY <1>1, Caps, TimesAssumption DEF ProtoType
      <3>5. p.outcome = "none" /\ p.finals = 0 /\ p.reqtries > 0
        BY <2>1, TriesAssumption DEF NotSentYet
      <3>6. QED
        BY <1>1, <3>1, <3>2, <3>3, <3>4, <3>5, SendReqInv
    <2>3. proto' = [proto EXCEPT ![r] = SendReq(p, ok)]
      BY <1>4 DEF Connected, p
    <2>4. QED
      BY <1>4, <2>2, <2>3, OneRequest, SendReqNetType DEF Connected, TypeOK
  <1>5. CASE ConnectAbort(r)
    <2> DEFINE q == [p EXCEPT !.connecttries = 0]
    <2>1. NotSentYet(p)
      BY <1>1, <1>5 DEF ConnectAbort, LastConnect, ProtoInv, p
    <2>2. q \in ProtoType /\ q.finals = 0 /\ q.sent = 0
      BY <1>1, <2>1, TriesAssumption DEF ProtoType, NotSentYet
    <2>3. proto' = [proto EXCEPT ![r] = Abort(q, "no_connect")]
      BY <1>5 DEF ConnectAbort, LastConnect, p
    <2> HIDE DEF q
    <2>4. /\ Abort(q, "no_connect") \in ProtoType
          /\ ProtoInv(Abort(q, "no_connect"))
      BY <1>2, <2>2, ConcludeInv, TriesAssumption DEF Abort, Outcomes
    <2>5. QED
      BY <1>5, <2>3, <2>4, OneRequest DEF ConnectAbort, LastConnect, TypeOK
  <1>6. CASE ConnectRetry(r)
    <2> DEFINE q == RetryLater(p)
    <2>1. NotSentYet(p) /\ p.connecttries # 1
      BY <1>1, <1>6 DEF ConnectRetry, LastConnect, ProtoInv, p
    <2>2. q \in ProtoType /\ q.wait = "connectwait" /\ NotSentYet(q)
      <3> DEFINE c == p.connecttries - 1
      <3>1. c \in 0..ConnectTries /\ c > 0
        BY <1>1, <2>1, TriesAssumption DEF ProtoType, NotSentYet
      <3>2. q = [p EXCEPT !.connecttries = c, !.wait = "connectwait",
                          !.timer = ConnectWait]
        BY DEF RetryLater
      <3> HIDE DEF c, q
      <3>3. QED
        BY <1>1, <2>1, <3>1, <3>2, TimesAssumption
        DEF ProtoType, Waits, NotSentYet
    <2>3. ProtoInv(q)
      BY <2>2 DEF ProtoInv
    <2>4. proto' = [proto EXCEPT ![r] = q]
      BY <1>6 DEF ConnectRetry, LastConnect, p
    <2> HIDE DEF q
    <2>5. QED
      BY <1>6, <2>2, <2>3, <2>4, OneRequest DEF ConnectRetry, LastConnect, TypeOK
  <1>7. CASE ConnectWaitOver(r)
    <2> DEFINE q == [p EXCEPT !.wait = "connect"]
    <2>1. NotSentYet(p)
      BY <1>1, <1>7 DEF ConnectWaitOver, ProtoInv, p
    <2>2. q \in ProtoType /\ q.wait = "connect" /\ NotSentYet(q)
      BY <1>1, <2>1 DEF ProtoType, Waits, NotSentYet
    <2>3. ProtoInv(q)
      BY <2>2 DEF ProtoInv
    <2>4. proto' = [proto EXCEPT ![r] = q]
      BY <1>7 DEF ConnectWaitOver, TypeOK, ProtoType, p
    <2> HIDE DEF q
    <2>5. QED
      BY <1>7, <2>2, <2>3, <2>4, OneRequest DEF ConnectWaitOver, TypeOK
  <1>8. CASE AckTimeoutAbort(r)
    <2> DEFINE q == CountTry(p)
    <2>1. /\ AwaitsPacket(p) /\ p.wait = "recv" /\ p.state = "s_ackwait"
          /\ p.timer = 0 /\ p.reqtries = 1
      BY <1>1, <1>8 DEF AckTimeoutAbort, LastTry, Expired, ProtoInv, p
    <2>2. p.age >= ReqTries * AckWait
      BY <1>1, <2>1, Caps, TriesAssumption, TimesAssumption
      DEF AwaitsPacket, ProtoType
    <2>3. /\ q \in ProtoType /\ q.finals = 0 /\ q.age = p.age
          /\ q.sent = p.sent
      BY <1>1, <2>1, TriesAssumption DEF ProtoType, AwaitsPacket, CountTry
    <2>4. proto' = [proto EXCEPT ![r] = Abort(q, "ack_timeout")]
      BY <1>8 DEF AckTimeoutAbort, LastTry, p
    <2> HIDE DEF q
    <2>5. /\ Abort(q, "ack_timeout") \in ProtoType
          /\ ProtoInv(Abort(q, "ack_timeout"))
      BY <1>1, <2>1, <2>2, <2>3, AwaitsBound, ConcludeInv DEF Abort, Outcomes
    <2>6. QED
      BY <1>8, <2>4, <2>5, OneRequest DEF AckTimeoutAbort, LastTry, TypeOK
  <1>9. ASSUME NEW ok \in BOOLEAN, AckTimeoutResend(r, ok)
        PROVE  TypeOK' /\ Inv'
    <2> DEFINE q == SendAgain(p)
    <2>1. /\ AwaitsPacket(p) /\ p.wait = "recv" /\ p.state = "s_ackwait"
          /\ p.timer = 0 /\ p.reqtries # 1
      BY <1>1, <1>9 DEF AckTimeoutResend, LastTry, Expired, ProtoInv, p
    <2>2. /\ q \in ProtoType
          /\ q.reqtries = p.reqtries - 1
          /\ q.outcome = p.outcome /\ q.finals = p.finals
          /\ q.sent = p.sent /\ q.resettries = p.resettries
          /\ q.age = p.age
      <3> DEFINE c == p.reqtries - 1
      <3>1. c \in 0..ReqTries
        BY <1>1, <2>1, TriesAssumption DEF ProtoType, AwaitsPacket
      <3>2. q = [p EXCEPT !.reqtries = c, !.state = "s_sendreq"]
        BY DEF SendAgain, CountTry
      <3> HIDE DEF c, q
      <3>3. QED
        BY <1>1, <3>1, <3>2 DEF ProtoType, States, c
    <2> HIDE DEF q
    <2>3. q.sent + q.reqtries + q.resettries * ReqTries
            <= ReqTries * (ResetTries + 1)
      BY <1>1, <1>2, <2>1, <2>2 DEF AwaitsPacket, SendBudget, ProtoType
    <2>4. q.age = AgeCap
            \/ q.age >= (ResetTries - q.resettries) * RepWait
      <3>1. (ResetTries - p.resettries) * RepWait \in Nat
        BY <1>1, ProductNat, TriesAssumption, TimesAssumption DEF ProtoType
      <3>2. QED
        BY <1>1, <2>1, <2>2, <3>1, Caps DEF AwaitsPacket, ProtoType
    <2>5. q.age = AgeCap
            \/ q.age + AckWait >= (ReqTries - q.reqtries + 1) * AckWait
      <3> DEFINE n == ReqTries - p.reqtries + 1
      <3>1. n \in Nat /\ ReqTries - q.reqtries + 1 = n + 1
        BY <1>1, <2>2, TriesAssumption DEF ProtoType
      <3>2. (n + 1) * AckWait = n * AckWait + AckWait /\ n * AckWait \in Nat
        BY <3>1, ProductStep, ProductNat, TimesAssumption
      <3>3. p.age = AgeCap \/ p.age >= n * AckWait
        BY <1>1, <2>1, Caps DEF AwaitsPacket, ProtoType
      <3> HIDE DEF n
      <3>4. QED
        BY <1>1, <2>2, <3>1, <3>2, <3>3, Caps, TimesAssumption DEF ProtoType
    <2>6. q.outcome = "none" /\ q.finals = 0 /\ q.reqtries > 0
      BY <1>1, <2>1, <2>2 DEF AwaitsPacket, ProtoType
    <2>7. SendReq(q, ok) \in ProtoType /\ ProtoInv(SendReq(q, ok))
      BY <2>2, <2>3, <2>4, <2>5, <2>6, SendReqInv
    <2>8. proto' = [proto EXCEPT ![r] = SendReq(q, ok)]
      BY <1>9 DEF AckTimeoutResend, LastTry, p, q
    <2>9. QED
      BY <1>9, <2>7, <2>8, OneRequest, SendReqNetType
      DEF AckTimeoutResend, LastTry, TypeOK
  <1>10. CASE RepTimeoutAbort(r)
    <2>1. /\ AwaitsPacket(p) /\ p.wait = "recv" /\ p.state = "s_repwait"
          /\ p.timer = 0 /\ GivesUpOnReply(p)
      BY <1>1, <1>10 DEF RepTimeoutAbort, Expired, ProtoInv, p
    <2>2. p.age > DropDead \/ p.age >= (ResetTries + 1) * RepWait
      <3>1. (ResetTries + 1) * RepWait = ResetTries * RepWait + RepWait
        BY ProductStep, TriesAssumption, TimesAssumption
      <3>2. ResetTries * RepWait \in Nat
        BY ProductNat, TriesAssumption, TimesAssumption
      <3>3. p.resettries = 0 => (ResetTries - p.resettries) = ResetTries
        BY TriesAssumption
      <3>4. QED
        BY <1>1, <2>1, <3>1, <3>2, <3>3, Caps, TimesAssumption
        DEF AwaitsPacket, GivesUpOnReply, ProtoType
    <2>3. p.finals = 0
      BY <2>1 DEF AwaitsPacket
    <2>4. /\ Abort(p, "rep_timeout") \in ProtoType
          /\ ProtoInv(Abort(p, "rep_timeout"))
      BY <1>1, <2>1, <2>2, <2>3, AwaitsBound, ConcludeInv DEF Abort, Outcomes
    <2>5. proto' = [proto EXCEPT ![r] = Abort(p, "rep_timeout")]
      BY <1>10 DEF RepTimeoutAbort, p
    <2>6. QED
      BY <1>10, <2>4, <2>5, OneRequest DEF RepTimeoutAbort, TypeOK
  <1>11. ASSUME NEW ok \in BOOLEAN, RepTimeoutReset(r, ok)
         PROVE  TypeOK' /\ Inv'
    <2> DEFINE q == StartOver(p)
    <2>1. /\ AwaitsPacket(p) /\ p.wait = "recv" /\ p.state = "s_repwait"
          /\ p.timer = 0 /\ p.resettries # 0
      BY <1>1, <1>11
      DEF RepTimeoutReset, Expired, ProtoInv, GivesUpOnReply, p
    <2>2. /\ q \in ProtoType
          /\ q.reqtries = ReqTries
          /\ q.outcome = p.outcome /\ q.finals = p.finals
          /\ q.sent = p.sent /\ q.resettries = p.resettries - 1
          /\ q.age = p.age
      <3> DEFINE c == p.resettries - 1
      <3>1. c \in 0..ResetTries /\ ReqTries \in 0..ReqTries
        BY <1>1, <2>1, TriesAssumption DEF ProtoType
      <3>2. q = [p EXCEPT !.resettries = c, !.state = "s_sendreq",
                          !.reqtries = ReqTries]
        BY DEF StartOver
      <3> HIDE DEF c, q
      <3>3. QED
        <4>1. q \in ProtoType
          BY <1>1, <3>1, <3>2 DEF ProtoType, States
        <4>2. /\ q.reqtries = ReqTries
              /\ q.outcome = p.outcome /\ q.finals = p.finals
              /\ q.sent = p.sent /\ q.resettries = c
              /\ q.age = p.age
          BY <1>1, <3>2 DEF ProtoType
        <4>3. QED
          BY <4>1, <4>2 DEF c
    <2> HIDE DEF q
    <2>3. q.sent + q.reqtries + q.resettries * ReqTries
            <= ReqTries * (ResetTries + 1)
      <3>1. p.resettries * ReqTries = q.resettries * ReqTries + ReqTries
        BY <1>1, <2>1, <2>2, ProductStep, TriesAssumption DEF ProtoType
      <3>2. q.resettries * ReqTries \in Nat
        BY <2>2, ProductNat, TriesAssumption DEF ProtoType
      <3>3. QED
        BY <1>1, <1>2, <2>1, <2>2, <3>1, <3>2, TriesAssumption
        DEF AwaitsPacket, SendBudget, ProtoType
    <2>4. q.age = AgeCap
            \/ q.age >= (ResetTries - q.resettries) * RepWait
      <3> DEFINE n == ResetTries - p.resettries
      <3>1. n \in Nat /\ ResetTries - q.resettries = n + 1
        BY <1>1, <2>2, TriesAssumption DEF ProtoType
      <3>2. (n + 1) * RepWait = n * RepWait + RepWait /\ n * RepWait \in Nat
        BY <3>1, ProductStep, ProductNat, TimesAssumption
      <3>3. p.age = AgeCap \/ p.age >= n * RepWait + RepWait
        <4>1. p.age = AgeCap \/ p.age >= n * RepWait + p.since
          BY <2>1 DEF AwaitsPacket
        <4>2. p.since >= RepWait
          BY <1>1, <2>1, Caps, TimesAssumption DEF AwaitsPacket, ProtoType
        <4> HIDE DEF n
        <4>3. QED
          BY <1>1, <3>2, <4>1, <4>2, Caps, TimesAssumption DEF ProtoType
      <3> HIDE DEF n
      <3>4. QED
        BY <2>2, <3>1, <3>2, <3>3
    <2>5. q.age + AckWait >= (ReqTries - q.reqtries + 1) * AckWait
      BY <1>1, <2>2, Caps, TriesAssumption, TimesAssumption DEF ProtoType
    <2>6. q.outcome = "none" /\ q.finals = 0 /\ q.reqtries > 0
      BY <2>1, <2>2, TriesAssumption DEF AwaitsPacket
    <2>7. SendReq(q, ok) \in ProtoType /\ ProtoInv(SendReq(q, ok))
      BY <2>2, <2>3, <2>4, <2>5, <2>6, SendReqInv
    <2>8. proto' = [proto EXCEPT ![r] = SendReq(q, ok)]
      BY <1>11 DEF RepTimeoutReset, p, q
    <2>9. QED
      BY <1>11, <2>7, <2>8, OneRequest, SendReqNetType
      DEF RepTimeoutReset, TypeOK
  <1>12. CASE RecvError(r)
    <2>1. AwaitsPacket(p)
      BY <1>1, <1>12 DEF RecvError, ProtoInv, p
    <2>2. p.finals = 0
      BY <2>1 DEF AwaitsPacket
    <2>3. /\ Abort(p, "recv_error") \in ProtoType
          /\ ProtoInv(Abort(p, "recv_error"))
      BY <1>1, <2>1, <2>2, AwaitsBound, ConcludeInv DEF Abort, Outcomes
    <2>4. proto' = [proto EXCEPT ![r] = Abort(p, "recv_error")]
      BY <1>12 DEF RecvError, p
    <2>5. QED
      BY <1>12, <2>3, <2>4, OneRequest DEF RecvError, TypeOK
  <1>13. QED
    BY <1>3, <1>4, <1>5, <1>6, <1>7, <1>8, <1>9, <1>10, <1>11, <1>12 DEF Step

(***************************************************************************)
(* The packets.                                                            *)
(***************************************************************************)

\* Every packet that reaches the server keeps type and invariant.
LEMMA ReceiveInv ==
  ASSUME TypeOK, Inv, NEW m \in ClientPkts, Receive(m)
  PROVE  TypeOK' /\ Inv'
  <1> DEFINE r == m.req
             p == proto[r]
  <1>1. /\ r \in Requests
        /\ m.run \in Runs \cup {NoRun}
    BY DEF ClientPkts
  <1>2. p \in ProtoType /\ ProtoInv(p)
    BY <1>1 DEF TypeOK, Inv
  <1>3. InFlight(toServer, m) /\ toServer' = Take(toServer, m)
    BY DEF Receive, RecvAck, RecvStrayAck, RecvNak, RecvRep, RecvPrep,
           DropPkt, Receives
  <1>4. toServer' \in [ClientPkts -> 0..Copies]
    BY <1>3, NetType DEF TypeOK
  <1>5. ASSUME Receives(m)
        PROVE  /\ AwaitsPacket(p) /\ p.wait = "recv" /\ p.finals = 0
               /\ p.sent <= ReqTries * (ResetTries + 1)
    BY <1>2, <1>5, AwaitsBound DEF Receives, ProtoInv, AwaitsPacket
  <1> HIDE DEF r, p
  <1>6. CASE RecvAck(m)
    <2> DEFINE q == Pending([p EXCEPT !.state = "s_repwait",
                                      !.timeout = RepWait])
    <2>1. proto' = [proto EXCEPT ![r] = q]
      BY <1>6 DEF RecvAck, p, r
    <2>2. p.since + RepWait >= RepWait
      BY <1>2, Caps, TimesAssumption DEF ProtoType
    <2>3. q \in ProtoType /\ ProtoInv(q)
      BY <1>2, <1>5, <1>6, <2>2, RepWaitInv, TimesAssumption DEF RecvAck
    <2> HIDE DEF q
    <2>4. QED
      BY <1>1, <1>4, <1>6, <2>1, <2>3, OneRequest DEF RecvAck, TypeOK
  <1>7. CASE RecvStrayAck(m)
    <2> DEFINE q == Pending(p)
               q1 == [p EXCEPT !.state = "s_repwait", !.timeout = p.timeout]
    <2>1. proto' = [proto EXCEPT ![r] = q]
      BY <1>7 DEF RecvStrayAck, p, r
    <2>2. AwaitsPacket(p) /\ p.wait = "recv" /\ p.state = "s_repwait"
      BY <1>5, <1>7 DEF RecvStrayAck, p, r
    <2>3. q1 = p
      BY <1>2, <2>2 DEF ProtoType
    <2>4. p.timeout \in Nat /\ p.since + p.timeout >= RepWait
      BY <1>2, <2>2 DEF AwaitsPacket, ProtoType
    <2>5. Pending(q1) \in ProtoType /\ ProtoInv(Pending(q1))
      BY <1>2, <2>2, <2>4, RepWaitInv
    <2> HIDE DEF q1
    <2>6. q \in ProtoType /\ ProtoInv(q)
      BY <2>3, <2>5
    <2> HIDE DEF q
    <2>7. QED
      BY <1>1, <1>4, <1>7, <2>1, <2>6, OneRequest DEF RecvStrayAck, TypeOK
  <1>8. CASE RecvNak(m)
    <2> DEFINE q == Conclude(p, "P_NAK", m.run)
    <2>1. proto' = [proto EXCEPT ![r] = q]
      BY <1>8 DEF RecvNak, p, r
    <2>2. p.finals = 0 /\ p.sent <= ReqTries * (ResetTries + 1)
      BY <1>5, <1>8 DEF RecvNak
    <2>3. q \in ProtoType /\ ProtoInv(q)
      BY <1>1, <1>2, <2>2, ConcludeInv DEF Outcomes
    <2> HIDE DEF q
    <2>4. QED
      BY <1>1, <1>4, <1>8, <2>1, <2>3, OneRequest DEF RecvNak, TypeOK
  <1>9. ASSUME NEW ok \in BOOLEAN, RecvRep(m, ok)
        PROVE  TypeOK' /\ Inv'
    <2> DEFINE p1 == [p EXCEPT !.state = "s_repwait"]
               q == IF ok THEN Conclude(p1, "P_REP", m.run)
                          ELSE Abort(p1, "send_failed")
    <2>1. proto' = [proto EXCEPT ![r] = q]
      BY <1>9 DEF RecvRep, p, r
    <2>2. p.finals = 0 /\ p.sent <= ReqTries * (ResetTries + 1)
      BY <1>5, <1>9 DEF RecvRep
    <2>3. p1 \in ProtoType /\ p1.finals = p.finals /\ p1.sent = p.sent
      BY <1>2 DEF ProtoType, States
    <2> HIDE DEF p1
    <2>4. q \in ProtoType /\ ProtoInv(q)
      <3>1. /\ Conclude(p1, "P_REP", m.run) \in ProtoType
            /\ ProtoInv(Conclude(p1, "P_REP", m.run))
        BY <1>1, <2>2, <2>3, ConcludeInv DEF Outcomes
      <3>2. /\ Abort(p1, "send_failed") \in ProtoType
            /\ ProtoInv(Abort(p1, "send_failed"))
        BY <2>2, <2>3, ConcludeInv DEF Outcomes, Abort
      <3>3. QED
        BY <3>1, <3>2
    <2> HIDE DEF q
    <2>5. toClient' \in [ServerPkts -> 0..Copies]
      <3>1. ServerPkt("P_ACK", r) \in ServerPkts
        BY <1>1 DEF ServerPkt, ServerPkts, ServerTypes
      <3>2. QED
        BY <1>9, <3>1, NetType DEF RecvRep, TypeOK, r
    <2>6. QED
      BY <1>1, <1>4, <2>1, <2>4, <2>5, OneRequest DEF TypeOK
  <1>10. CASE RecvPrep(m)
    <2> DEFINE t == PrepTimeout(p)
               q == Pending([p EXCEPT !.state = "s_repwait",
                                      !.timeout = t])
    <2>1. proto' = [proto EXCEPT ![r] = q]
      BY <1>10 DEF RecvPrep, p, r
    <2>2. t \in Nat /\ p.since + t >= RepWait
      BY <1>2, Caps, TimesAssumption DEF PrepTimeout, ProtoType
    <2> HIDE DEF t
    <2>3. q \in ProtoType /\ ProtoInv(q)
      BY <1>2, <1>5, <1>10, <2>2, RepWaitInv DEF RecvPrep
    <2> HIDE DEF q
    <2>4. QED
      BY <1>1, <1>4, <1>10, <2>1, <2>3, OneRequest DEF RecvPrep, TypeOK
  <1>11. CASE DropPkt(m)
    BY <1>4, <1>11 DEF DropPkt, TypeOK, Inv
  <1>12. QED
    BY <1>6, <1>7, <1>8, <1>9, <1>10, <1>11 DEF Receive

\* The passing of time keeps type and invariant.
LEMMA TickInv ==
  ASSUME TypeOK, Inv, Tick
  PROVE  TypeOK' /\ Inv'
  <1>1. ASSUME NEW r \in Requests
        PROVE  proto'[r] \in ProtoType /\ ProtoInv(proto'[r])
    <2>1. proto[r] \in ProtoType /\ ProtoInv(proto[r])
      BY DEF TypeOK, Inv
    <2>2. proto'[r] = IF proto[r].wait = "none" THEN proto[r]
                                                ELSE Elapse(proto[r])
      BY DEF Tick
    <2>3. QED
      BY <2>1, <2>2, ElapseInv
  <1>2. proto' \in [Requests -> ProtoType]
    BY <1>1 DEF Tick
  <1>3. QED
    BY <1>1, <1>2 DEF Tick, TypeOK, Inv

\* What the rest of the network does keeps type and invariant.
LEMMA EnvironmentInv ==
  ASSUME TypeOK, Inv, Environment
  PROVE  TypeOK' /\ Inv'
  <1>1. toClient' \in [ServerPkts -> 0..Copies]
    BY NetType DEF TypeOK, Environment
  <1>2. toServer' \in [ClientPkts -> 0..Copies]
    BY NetType DEF TypeOK, Environment
  <1>3. QED
    BY <1>1, <1>2 DEF TypeOK, Inv, Environment

(***************************************************************************)
(* The theorems.                                                           *)
(***************************************************************************)

\* Type and invariant hold initially.
LEMMA InitInv == Init => TypeOK /\ Inv
  <1> SUFFICES ASSUME Init PROVE TypeOK /\ Inv
    OBVIOUS
  <1>1. ASSUME NEW r \in Requests
        PROVE  proto[r] \in ProtoType /\ ProtoInv(proto[r])
    BY Caps, TriesAssumption
    DEF Init, ProtoType, ProtoInv, NotSentYet, States, Waits, Outcomes
  <1>2. proto \in [Requests -> ProtoType]
    BY <1>1 DEF Init
  <1>3. QED
    BY <1>1, <1>2, CopiesAssumption DEF Init, TypeOK, Inv

\* The invariant of proto_t is inductive, so TypeOK and Inv always hold.
THEOREM ProtocolInvariant == Spec => [](TypeOK /\ Inv)
  <1>1. TypeOK /\ Inv /\ [Next]_vars => TypeOK' /\ Inv'
    <2> SUFFICES ASSUME TypeOK, Inv, [Next]_vars
                 PROVE  TypeOK' /\ Inv'
      OBVIOUS
    <2>1. CASE UNCHANGED vars
      BY <2>1 DEF vars, TypeOK, Inv
    <2>2. CASE Next
      BY <2>2, StepInv, ReceiveInv, TickInv, EnvironmentInv
      DEF Next, ServerNext
    <2>3. QED
      BY <2>1, <2>2
  <1>2. QED
    BY <1>1, InitInv, PTL DEF Spec

\* Every reachable state is well typed.
THEOREM TypeCorrect == Spec => []TypeOK
  BY ProtocolInvariant, PTL

\* However packets are lost, delayed and duplicated, a request is transmitted at
\* most CNF_REQ_TRIES * (RESET_TRIES + 1) times (s_ackwait, s_repwait).
THEOREM SendBounded == Spec => []SendBound
  <1>1. TypeOK /\ Inv => SendBound
    <2> SUFFICES ASSUME TypeOK, Inv, NEW r \in Requests
                 PROVE  proto[r].sent <= ReqTries * (ResetTries + 1)
      BY DEF SendBound
    <2>1. proto[r] \in ProtoType /\ ProtoInv(proto[r])
      BY DEF TypeOK, Inv
    <2>2. ReqTries * (ResetTries + 1) \in Nat
      BY ProductNat, TriesAssumption
    <2>3. NotSentYet(proto[r]) => proto[r].sent <= ReqTries * (ResetTries + 1)
      BY <2>2 DEF NotSentYet
    <2>4. Over(proto[r]) => proto[r].sent <= ReqTries * (ResetTries + 1)
      BY DEF Over
    <2>5. QED
      BY <2>1, <2>3, <2>4, AwaitsBound DEF ProtoInv, ProtoType, Waits
  <1>2. QED
    BY <1>1, ProtocolInvariant, PTL

\* A request that fails with "timeout waiting for ACK" has waited ACK_WAIT
\* seconds CNF_REQ_TRIES times.
THEOREM AckPatient == Spec => []AckPatience
  <1>1. TypeOK /\ Inv => AckPatience
    BY DEF TypeOK, Inv, AckPatience, ProtoInv, ProtoType, Waits, NotSentYet,
           AwaitsPacket, Over
  <1>2. QED
    BY <1>1, ProtocolInvariant, PTL

\* A request that fails with "timeout waiting for REP" is older than
\* DROP_DEAD_TIME or has waited repwait seconds RESET_TRIES + 1 times.
THEOREM RepPatient == Spec => []RepPatience
  <1>1. TypeOK /\ Inv => RepPatience
    BY DEF TypeOK, Inv, RepPatience, ProtoInv, ProtoType, Waits, NotSentYet,
           AwaitsPacket, Over
  <1>2. QED
    BY <1>1, ProtocolInvariant, PTL

\* state_machine calls the continuation for the last time exactly once and
\* leaves no event on the request it frees.
THEOREM ConcludesOnce == Spec => []ConcludedOnce
  <1>1. TypeOK /\ Inv => ConcludedOnce
    BY DEF TypeOK, Inv, ConcludedOnce, ProtoInv, ProtoType, Waits, NotSentYet,
           AwaitsPacket, Over
  <1>2. QED
    BY <1>1, ProtocolInvariant, PTL

-----------------------------------------------------------------------------
(* The client.                                                             *)

\* Sending and receiving keep the number of copies in flight in its range.
LEMMA CopiesType ==
  ASSUME NEW S, NEW net \in [S -> 0..Copies], NEW m
  PROVE  /\ Put(net, m) \in [S -> 0..Copies]
         /\ m \in S /\ InFlight(net, m) => Take(net, m) \in [S -> 0..Copies]
  <1>1. Put(net, m) \in [S -> 0..Copies]
    <2>1. CASE m \in S
      BY <2>1, CopiesAssumption DEF Put
    <2>2. CASE m \notin S
      BY <2>2 DEF Put
    <2> QED
      BY <2>1, <2>2
  <1>2. ASSUME m \in S, InFlight(net, m)
        PROVE  Take(net, m) \in [S -> 0..Copies]
    BY <1>2, CopiesAssumption DEF Take, InFlight
  <1> QED
    BY <1>1, <1>2

\* A deleted service has its type, and does not run.
LEMMA DeletedType ==
  ASSUME NEW s \in ServiceType
  PROVE  /\ Deleted(s) \in ServiceType
         /\ Deleted(s).st = "deleted"
         /\ Deleted(s).req = s.req
  BY DEF Deleted, ServiceType

\* A new service has its type.
LEMMA NewServiceType ==
  ASSUME NEW r \in Requests
  PROVE  /\ NoService \in ServiceType
         /\ [NoService EXCEPT !.req = r] \in ServiceType
         /\ [NoService EXCEPT !.st = "s_repwait", !.req = r,
                              !.recv = "forever"] \in ServiceType
  <1>1. 0 \in 0..RepTries /\ 0 \in 0..MaxPreps
    BY RepTriesAssumption, BoundsAssumption
  <1>2. NoService \in ServiceType
    BY <1>1 DEF NoService, ServiceType
  <1>3. [NoService EXCEPT !.req = r] \in ServiceType
    BY <1>2 DEF ServiceType
  <1>4. [NoService EXCEPT !.st = "s_repwait", !.req = r,
                          !.recv = "forever"] \in ServiceType
    BY <1>2 DEF ServiceType
  <1> QED
    BY <1>2, <1>3, <1>4

\* A step that leaves the request of every running service alone, and starts
\* none, keeps them apart.
LEMMA StillApart ==
  ASSUME AtMostOneRunning,
         \A k \in Runs : Running(k)' => /\ Running(k)
                                        /\ serviceq'[k].req = serviceq[k].req
  PROVE  AtMostOneRunning'
  BY DEF AtMostOneRunning

\* The services are rewritten one at a time: one that was running goes on with
\* its request, or the step leaves it not running.
LEMMA OneService ==
  ASSUME ClientTypeOK, AtMostOneRunning, NEW k \in Runs, NEW s \in ServiceType,
         serviceq' = [serviceq EXCEPT ![k] = s],
         \/ s.st = "deleted" /\ s.req \in Requests
         \/ /\ s.req = serviceq[k].req
            /\ Running(k) \/ s.st = serviceq[k].st
  PROVE  /\ serviceq' \in [Runs -> ServiceType]
         /\ \A j \in Runs : serviceq'[j].st # "unused" =>
                               serviceq'[j].req \in Requests
         /\ AtMostOneRunning'
  <1>1. serviceq' \in [Runs -> ServiceType]
    BY DEF ClientTypeOK
  <1>2. \A j \in Runs : Running(j)' => /\ Running(j)
                                       /\ serviceq'[j].req = serviceq[j].req
    BY DEF ClientTypeOK, Running
  <1>3. \A j \in Runs : serviceq'[j].st # "unused" =>
                           serviceq'[j].req \in Requests
    BY DEF ClientTypeOK, Running
  <1> QED
    BY <1>1, <1>2, <1>3, StillApart

\* protocol_accept: the new service is the first with its arguments.
LEMMA AcceptKeeps ==
  ASSUME ClientTypeOK, AtMostOneRunning, NEW m \in ServerPkts, Accept(m)
  PROVE  ClientTypeOK' /\ AtMostOneRunning'
  <1>0. m.req \in Requests
    BY DEF ServerPkts
  <1>1. CASE AcceptRefuse(m) \/ AcceptForget(m) \/ AcceptRunning(m)
    <2>1. /\ serviceq' = serviceq
          /\ recvErrors' = recvErrors
          /\ toClient' \in [ServerPkts -> 0..Copies]
          /\ toServer' \in [ClientPkts -> 0..Copies]
      BY <1>1, CopiesType DEF AcceptRefuse, AcceptForget, AcceptRunning,
         Accepts, Takes, Send, ClientTypeOK
    <2> QED
      BY <2>1 DEF ClientTypeOK, AtMostOneRunning, Running
  <1>2. ASSUME NEW k \in Runs, AcceptNew(m, k)
        PROVE  ClientTypeOK' /\ AtMostOneRunning'
    <2> DEFINE s == [NoService EXCEPT !.st = "s_repwait", !.req = m.req,
                                      !.recv = "forever"]
    <2>1. /\ s \in ServiceType
          /\ s.req = m.req
      BY <1>0, NewServiceType DEF NoService
    <2>2. serviceq' = [serviceq EXCEPT ![k] = s]
      BY <1>2 DEF AcceptNew
    <2> HIDE DEF s
    <2>3. /\ recvErrors' = recvErrors
          /\ toClient' \in [ServerPkts -> 0..Copies]
          /\ toServer' \in [ClientPkts -> 0..Copies]
      BY <1>2, CopiesType DEF AcceptNew, Accepts, Takes, Send, ClientTypeOK
    <2>4. ClientTypeOK'
      <3>1. serviceq' \in [Runs -> ServiceType]
        BY <2>1, <2>2 DEF ClientTypeOK
      <3>2. \A j \in Runs : serviceq'[j].st # "unused" =>
                               serviceq'[j].req \in Requests
        BY <1>0, <2>1, <2>2 DEF ClientTypeOK
      <3> QED
        BY <2>3, <3>1, <3>2 DEF ClientTypeOK
    <2>5. \A j \in Runs \ {k} : serviceq'[j] = serviceq[j]
      BY <2>2 DEF ClientTypeOK
    <2>6. serviceq'[k].req = m.req
      BY <2>1, <2>2 DEF ClientTypeOK
    <2>7. \A j \in Runs : Running(j) =>
                             ArgsOf[serviceq[j].req] # ArgsOf[m.req]
      BY <1>2 DEF AcceptNew, AlreadyRunning
    <2>8. AtMostOneRunning'
      BY <2>5, <2>6, <2>7 DEF AtMostOneRunning, Running
    <2> QED
      BY <2>4, <2>8
  <1>3. ASSUME NEW k \in Runs, AcceptFail(m, k)
        PROVE  ClientTypeOK' /\ AtMostOneRunning'
    <2> DEFINE s == Deleted([NoService EXCEPT !.req = m.req])
    <2>1. s \in ServiceType /\ s.st = "deleted" /\ s.req = m.req
      BY <1>0, NewServiceType, DeletedType DEF NoService
    <2>2. serviceq' = [serviceq EXCEPT ![k] = s]
      BY <1>3 DEF AcceptFail
    <2> HIDE DEF s
    <2>3. /\ recvErrors' = recvErrors
          /\ toClient' \in [ServerPkts -> 0..Copies]
          /\ toServer' \in [ClientPkts -> 0..Copies]
      <3>1. recvErrors' = recvErrors /\ Takes(m)
        BY <1>3 DEF AcceptFail, Accepts
      <3>2. Send("P_NAK", k, m.req) \/ toServer' = toServer
        BY <1>3 DEF AcceptFail
      <3> QED
        BY <3>1, <3>2, CopiesType DEF Takes, Send, ClientTypeOK
    <2>4. /\ serviceq' \in [Runs -> ServiceType]
          /\ \A j \in Runs : serviceq'[j].st # "unused" =>
                                serviceq'[j].req \in Requests
          /\ AtMostOneRunning'
      BY <1>0, <2>1, <2>2, OneService
    <2> QED
      BY <2>3, <2>4 DEF ClientTypeOK
  <1> QED
    BY <1>1, <1>2, <1>3 DEF Accept

\* protocol_recv: a packet for a service that listens.
LEMMA DeliverKeeps ==
  ASSUME ClientTypeOK, AtMostOneRunning,
         NEW m \in ServerPkts, NEW k \in Runs, Deliver(m, k)
  PROVE  ClientTypeOK' /\ AtMostOneRunning'
  <1>0. serviceq[k] \in ServiceType
    BY DEF ClientTypeOK
  <1>1. CASE RecvBad(m, k)
    <2> DEFINE s == [serviceq[k] EXCEPT !.recv = "none"]
    <2>1. /\ s \in ServiceType
          /\ s.st = serviceq[k].st
          /\ s.req = serviceq[k].req
      BY <1>0 DEF ServiceType
    <2>2. serviceq' = [serviceq EXCEPT ![k] = s]
      BY <1>1 DEF RecvBad
    <2> HIDE DEF s
    <2>3. /\ recvErrors' \in 0..MaxRecvErrors
          /\ toClient' \in [ServerPkts -> 0..Copies]
          /\ toServer' = toServer
      <3>1. recvErrors' \in 0..MaxRecvErrors
        BY <1>1, BoundsAssumption DEF RecvBad, ClientTypeOK
      <3> QED
        BY <1>1, <3>1, CopiesType DEF RecvBad, Delivers, Takes, ClientTypeOK
    <2>5. /\ serviceq' \in [Runs -> ServiceType]
          /\ \A j \in Runs : serviceq'[j].st # "unused" =>
                                serviceq'[j].req \in Requests
          /\ AtMostOneRunning'
      BY <2>1, <2>2, OneService
    <2> QED
      BY <2>3, <2>5 DEF ClientTypeOK
  <1>2. CASE DupReqWhileRunning(m, k) \/ Unexpected(m, k)
    <2> DEFINE s == [serviceq[k] EXCEPT !.recv = "forever"]
    <2>1. s \in ServiceType /\ s.req = serviceq[k].req
      BY <1>0 DEF ServiceType
    <2>2. serviceq' = [serviceq EXCEPT ![k] = s] /\ Running(k)
      BY <1>2 DEF DupReqWhileRunning, Unexpected, Running
    <2> HIDE DEF s
    <2>3. /\ recvErrors' = recvErrors
          /\ toClient' \in [ServerPkts -> 0..Copies]
          /\ toServer' \in [ClientPkts -> 0..Copies]
      <3>1. /\ Takes(m)
            /\ recvErrors' = recvErrors
            /\ Send("P_ACK", k, m.req) \/ Send("P_NAK", k, m.req)
        BY <1>2 DEF DupReqWhileRunning, Unexpected, Delivers
      <3> QED
        BY <3>1, CopiesType DEF Takes, Send, ClientTypeOK
    <2>4. /\ serviceq' \in [Runs -> ServiceType]
          /\ \A j \in Runs : serviceq'[j].st # "unused" =>
                                serviceq'[j].req \in Requests
          /\ AtMostOneRunning'
      BY <2>1, <2>2, OneService
    <2> QED
      BY <2>3, <2>4 DEF ClientTypeOK
  <1>3. CASE DupReqReplyAgain(m, k)
    <2> DEFINE s == SendRep(serviceq[k])
    <2>1. s \in ServiceType /\ s.req = serviceq[k].req
      BY <1>0 DEF ServiceType, SendRep
    <2>2. serviceq' = [serviceq EXCEPT ![k] = s] /\ Running(k)
      BY <1>3 DEF DupReqReplyAgain, Running
    <2> HIDE DEF s
    <2>3. /\ recvErrors' = recvErrors
          /\ toClient' \in [ServerPkts -> 0..Copies]
          /\ toServer' \in [ClientPkts -> 0..Copies]
      BY <1>3, CopiesType
         DEF DupReqReplyAgain, Delivers, Takes, Send, ClientTypeOK
    <2>4. /\ serviceq' \in [Runs -> ServiceType]
          /\ \A j \in Runs : serviceq'[j].st # "unused" =>
                                serviceq'[j].req \in Requests
          /\ AtMostOneRunning'
      BY <2>1, <2>2, OneService
    <2> QED
      BY <2>3, <2>4 DEF ClientTypeOK
  <1>4. ASSUME NEW open \in BOOLEAN, RecvAckOfReply(m, k, open)
        PROVE  ClientTypeOK' /\ AtMostOneRunning'
    <2> DEFINE next_st == IF open THEN "streams" ELSE "deleted"
               s == [Deleted(serviceq[k]) EXCEPT !.st = next_st, !.acked = TRUE]
    <2>1. s \in ServiceType /\ s.req = serviceq[k].req
      <3>1. next_st \in {"streams", "deleted"}
        OBVIOUS
      <3> HIDE DEF next_st
      <3> QED
        BY <1>0, <3>1 DEF ServiceType, Deleted
    <2>2. serviceq' = [serviceq EXCEPT ![k] = s] /\ Running(k)
      BY <1>4 DEF RecvAckOfReply, Running
    <2> HIDE DEF s
    <2>3. /\ recvErrors' = recvErrors
          /\ toClient' \in [ServerPkts -> 0..Copies]
          /\ toServer' = toServer
      BY <1>4, CopiesType DEF RecvAckOfReply, Delivers, Takes, ClientTypeOK
    <2>4. /\ serviceq' \in [Runs -> ServiceType]
          /\ \A j \in Runs : serviceq'[j].st # "unused" =>
                                serviceq'[j].req \in Requests
          /\ AtMostOneRunning'
      BY <2>1, <2>2, OneService
    <2> QED
      BY <2>3, <2>4 DEF ClientTypeOK
  <1> QED
    BY <1>1, <1>2, <1>3, <1>4 DEF Deliver

\* A service's own events: its child, its timers, its streams.
LEMMA ServiceKeeps ==
  ASSUME ClientTypeOK, AtMostOneRunning, NEW k \in Runs, Service(k)
  PROVE  ClientTypeOK' /\ AtMostOneRunning'
  <1>0. serviceq[k] \in ServiceType
    BY DEF ClientTypeOK
  <1>1. /\ recvErrors' = recvErrors
        /\ toClient' = toClient
        /\ toServer' \in [ClientPkts -> 0..Copies]
    BY CopiesType DEF Service, ReplyFails, PartialReply, Reply,
       AckTimeoutReplyAgain, AckTimeoutGiveUp, StreamsDone, Send, ClientTypeOK
  <1>2. CASE ReplyFails(k) \/ AckTimeoutGiveUp(k) \/ StreamsDone(k)
    <2>1. /\ serviceq' = [serviceq EXCEPT ![k] = Deleted(serviceq[k])]
          /\ serviceq[k].req \in Requests
      BY <1>2 DEF ReplyFails, AckTimeoutGiveUp, StreamsDone, ClientTypeOK
    <2>2. /\ serviceq' \in [Runs -> ServiceType]
          /\ \A j \in Runs : serviceq'[j].st # "unused" =>
                                serviceq'[j].req \in Requests
          /\ AtMostOneRunning'
      BY <1>0, <2>1, DeletedType, OneService
    <2> QED
      BY <1>1, <2>2 DEF ClientTypeOK
  <1>3. CASE PartialReply(k)
    <2> DEFINE n == serviceq[k].preps + 1
               s == [serviceq[k] EXCEPT !.preps = n]
    <2>1. n \in 0..MaxPreps
      BY <1>0, <1>3, BoundsAssumption DEF PartialReply, ServiceType
    <2>2. serviceq' = [serviceq EXCEPT ![k] = s] /\ Running(k)
      BY <1>3 DEF PartialReply, Running
    <2> HIDE DEF n
    <2>3. s \in ServiceType /\ s.req = serviceq[k].req
      BY <1>0, <2>1 DEF ServiceType
    <2> HIDE DEF s
    <2>4. /\ serviceq' \in [Runs -> ServiceType]
          /\ \A j \in Runs : serviceq'[j].st # "unused" =>
                                serviceq'[j].req \in Requests
          /\ AtMostOneRunning'
      BY <2>2, <2>3, OneService
    <2> QED
      BY <1>1, <2>4 DEF ClientTypeOK
  <1>4. CASE Reply(k)
    <2> DEFINE s == SendRep([serviceq[k] EXCEPT !.repretry = RepTries,
                                                !.replied = TRUE])
    <2>1. RepTries \in 0..RepTries
      BY RepTriesAssumption
    <2>2. serviceq' = [serviceq EXCEPT ![k] = s] /\ Running(k)
      BY <1>4 DEF Reply, Running
    <2>3. s \in ServiceType /\ s.req = serviceq[k].req
      BY <1>0, <2>1 DEF ServiceType, SendRep
    <2> HIDE DEF s
    <2>4. /\ serviceq' \in [Runs -> ServiceType]
          /\ \A j \in Runs : serviceq'[j].st # "unused" =>
                                serviceq'[j].req \in Requests
          /\ AtMostOneRunning'
      BY <2>2, <2>3, OneService
    <2> QED
      BY <1>1, <2>4 DEF ClientTypeOK
  <1>5. CASE AckTimeoutReplyAgain(k)
    <2> DEFINE n == serviceq[k].repretry - 1
               s == SendRep([serviceq[k] EXCEPT !.repretry = n])
    <2>1. n \in 0..RepTries
      BY <1>0, <1>5, RepTriesAssumption DEF AckTimeoutReplyAgain, ServiceType
    <2>2. serviceq' = [serviceq EXCEPT ![k] = s] /\ Running(k)
      BY <1>5 DEF AckTimeoutReplyAgain, Running
    <2> HIDE DEF n
    <2>3. s \in ServiceType /\ s.req = serviceq[k].req
      BY <1>0, <2>1 DEF ServiceType, SendRep
    <2> HIDE DEF s
    <2>4. /\ serviceq' \in [Runs -> ServiceType]
          /\ \A j \in Runs : serviceq'[j].st # "unused" =>
                                serviceq'[j].req \in Requests
          /\ AtMostOneRunning'
      BY <2>2, <2>3, OneService
    <2> QED
      BY <1>1, <2>4 DEF ClientTypeOK
  <1> QED
    BY <1>2, <1>3, <1>4, <1>5 DEF Service

\* The rest of the network touches no service.
LEMMA RestKeeps ==
  ASSUME ClientTypeOK, AtMostOneRunning, Rest
  PROVE  ClientTypeOK' /\ AtMostOneRunning'
  <1>1. toClient' \in [ServerPkts -> 0..Copies]
    BY CopiesType DEF Rest, ClientTypeOK
  <1>2. toServer' \in [ClientPkts -> 0..Copies]
    BY CopiesType DEF Rest, ClientTypeOK
  <1>3. serviceq' = serviceq /\ recvErrors' = recvErrors
    BY DEF Rest
  <1> QED
    BY <1>1, <1>2, <1>3 DEF ClientTypeOK, AtMostOneRunning, Running

LEMMA ClientInitKeeps == ClientInit => ClientTypeOK /\ AtMostOneRunning
  <1> SUFFICES ASSUME ClientInit PROVE ClientTypeOK /\ AtMostOneRunning
    OBVIOUS
  <1>1. NoService \in ServiceType /\ NoService.st = "unused"
    BY RepTriesAssumption, BoundsAssumption DEF NoService, ServiceType
  <1>2. ClientTypeOK
    BY <1>1, CopiesAssumption, BoundsAssumption DEF ClientInit, ClientTypeOK
  <1>3. \A k \in Runs : ~ Running(k)
    BY <1>1 DEF ClientInit, Running
  <1> QED
    BY <1>2, <1>3 DEF AtMostOneRunning

\* Type correctness and AtMostOneRunning are inductive together: no packet, in
\* whatever order, number and state of the daemon, makes protocol_accept start
\* a service that is already running with the same arguments.
THEOREM ClientInvariant == ClientSpec => [](ClientTypeOK /\ AtMostOneRunning)
  <1>1. /\ ClientTypeOK /\ AtMostOneRunning
        /\ [ClientNext \/ Rest]_clientVars
        => ClientTypeOK' /\ AtMostOneRunning'
    <2> SUFFICES ASSUME ClientTypeOK, AtMostOneRunning,
                        [ClientNext \/ Rest]_clientVars
                 PROVE  ClientTypeOK' /\ AtMostOneRunning'
      OBVIOUS
    <2>1. CASE UNCHANGED clientVars
      BY <2>1 DEF clientVars, ClientTypeOK, AtMostOneRunning, Running
    <2> QED
      BY <2>1, AcceptKeeps, DeliverKeeps, ServiceKeeps, RestKeeps
         DEF ClientNext
  <1> QED
    BY <1>1, ClientInitKeeps, PTL DEF ClientSpec

\* The daemon's state has its type: repretry never runs below zero.
THEOREM ClientTypeCorrect == ClientSpec => []ClientTypeOK
  BY ClientInvariant, PTL

\* A service never runs twice with the same arguments (protocol_accept).
THEOREM RunsOnce == ClientSpec => []AtMostOneRunning
  BY ClientInvariant, PTL

-----------------------------------------------------------------------------
(* The composition.                                                        *)

(***************************************************************************)
(* The composition implements both ends.                                   *)
(***************************************************************************)

\* To amandad a step of the server is something on the network.
LEMMA ServerStepIsRest ==
  ASSUME ServerStep
  PROVE  Rest
  <1>1. ServerNext /\ UNCHANGED <<serviceq, recvErrors>>
    BY DEF ServerStep
  <1>2. ASSUME NEW r \in Requests, Step(r)
        PROVE  Rest
    <2>1. ServerPkt("P_REQ", r) \in ServerPkts
      BY DEF ServerPkt, ServerPkts, ServerTypes
    <2>2. /\ toServer' = toServer
          /\ toClient' = toClient
                \/ toClient' = Put(toClient, ServerPkt("P_REQ", r))
      BY <1>2 DEF Step, SendRequest, Connected, ConnectAbort, ConnectRetry,
         ConnectWaitOver, AckTimeoutAbort, AckTimeoutResend, RepTimeoutAbort,
         RepTimeoutReset, RecvError, SendReqNet
    <2> QED
      BY <1>1, <2>1, <2>2 DEF Rest
  <1>3. ASSUME NEW m \in ClientPkts, Receive(m)
        PROVE  Rest
    <2>1. ServerPkt("P_ACK", m.req) \in ServerPkts
      BY DEF ServerPkt, ServerPkts, ServerTypes, ClientPkts
    <2>2. /\ InFlight(toServer, m)
          /\ toServer' = Take(toServer, m)
          /\ toClient' = toClient
                \/ toClient' = Put(toClient, ServerPkt("P_ACK", m.req))
      BY <1>3 DEF Receive, RecvAck, RecvStrayAck, RecvNak, RecvRep, RecvPrep,
         DropPkt, Receives
    <2> QED
      BY <1>1, <2>1, <2>2 DEF Rest
  <1>4. CASE Tick
    BY <1>1, <1>4 DEF Tick, Rest
  <1> QED
    BY <1>1, <1>2, <1>3, <1>4 DEF ServerNext

\* The composition implements the client's specification.
LEMMA NetImplementsClient == NetSpec => ClientSpec
  <1>1. NetInit => ClientInit
    BY DEF NetInit
  <1>2. [NetNext]_netVars => [ClientNext \/ Rest]_clientVars
    <2> SUFFICES ASSUME [NetNext]_netVars
                 PROVE  [ClientNext \/ Rest]_clientVars
      OBVIOUS
    <2>1. CASE ServerStep
      BY <2>1, ServerStepIsRest
    <2>2. CASE ClientStep
      BY <2>2 DEF ClientStep
    <2>3. CASE Lose
      BY <2>3 DEF Lose, Rest
    <2>4. CASE Duplicate
      BY <2>4 DEF Duplicate, Rest
    <2>5. CASE UNCHANGED netVars
      BY <2>5 DEF netVars, clientVars
    <2> QED
      BY <2>1, <2>2, <2>3, <2>4, <2>5 DEF NetNext
  <1> QED
    BY <1>1, <1>2, PTL DEF NetSpec, ClientSpec

\* amandad has its type, and starts no service twice, in the composition.
THEOREM NetRunsOnce == NetSpec => [](ClientTypeOK /\ AtMostOneRunning)
  BY NetImplementsClient, ClientInvariant, PTL

\* What a step of the client does to the network: one packet of the server may
\* be received, and one packet to it may be sent.
LEMMA ClientNet ==
  ASSUME ClientTypeOK, ClientNext
  PROVE  /\ \/ UNCHANGED toClient
            \/ \E m \in ServerPkts : /\ InFlight(toClient, m)
                                     /\ toClient' = Take(toClient, m)
         /\ \/ UNCHANGED toServer
            \/ \E m \in ClientPkts : toServer' = Put(toServer, m)
  <1>0. ASSUME NEW t \in ClientTypes, NEW r \in Requests,
               NEW k \in Runs \cup {NoRun}, Send(t, k, r)
        PROVE  \E m \in ClientPkts : toServer' = Put(toServer, m)
    <2>1. ClientPkt(t, r, k) \in ClientPkts
      BY DEF ClientPkt, ClientPkts
    <2> QED
      BY <1>0, <2>1 DEF Send
  <1>1. ASSUME NEW m \in ServerPkts, Accept(m)
        PROVE  /\ InFlight(toClient, m) /\ toClient' = Take(toClient, m)
               /\ \/ UNCHANGED toServer
                  \/ \E n \in ClientPkts : toServer' = Put(toServer, n)
    <2>1. m.req \in Requests /\ "P_NAK" \in ClientTypes /\ "P_ACK" \in ClientTypes
      BY DEF ServerPkts, ClientTypes
    <2>2. InFlight(toClient, m) /\ toClient' = Take(toClient, m)
      BY <1>1 DEF Accept, AcceptRefuse, AcceptForget, AcceptRunning, AcceptNew,
         AcceptFail, Accepts, Takes
    <2>3. \/ UNCHANGED toServer
          \/ Send("P_NAK", NoRun, m.req)
          \/ Send("P_ACK", NoRun, m.req)
          \/ \E k \in Runs : Send("P_ACK", k, m.req) \/ Send("P_NAK", k, m.req)
      BY <1>1 DEF Accept, AcceptRefuse, AcceptForget, AcceptRunning, AcceptNew,
         AcceptFail
    <2> QED
      BY <1>0, <2>1, <2>2, <2>3
  <1>2. ASSUME NEW m \in ServerPkts, NEW k \in Runs, Deliver(m, k)
        PROVE  /\ InFlight(toClient, m) /\ toClient' = Take(toClient, m)
               /\ \/ UNCHANGED toServer
                  \/ \E n \in ClientPkts : toServer' = Put(toServer, n)
    <2>1. /\ m.req \in Requests
          /\ {"P_ACK", "P_NAK", "P_REP"} \subseteq ClientTypes
      BY DEF ServerPkts, ClientTypes
    <2>2. InFlight(toClient, m) /\ toClient' = Take(toClient, m)
      BY <1>2 DEF Deliver, RecvBad, DupReqWhileRunning, Unexpected,
         DupReqReplyAgain, RecvAckOfReply, Delivers, Takes
    <2>3. \/ UNCHANGED toServer
          \/ Send("P_ACK", k, m.req)
          \/ Send("P_NAK", k, m.req)
          \/ Send("P_REP", k, m.req)
      BY <1>2 DEF Deliver, RecvBad, DupReqWhileRunning, Unexpected,
         DupReqReplyAgain, RecvAckOfReply
    <2> QED
      BY <1>0, <2>1, <2>2, <2>3
  <1>3. ASSUME NEW k \in Runs, Service(k)
        PROVE  /\ UNCHANGED toClient
               /\ \/ UNCHANGED toServer
                  \/ \E n \in ClientPkts : toServer' = Put(toServer, n)
    <2>1. /\ serviceq[k].req \in Requests
          /\ {"P_NAK", "P_PREP", "P_REP"} \subseteq ClientTypes
      BY <1>3 DEF ClientTypes, ClientTypeOK, Service, ReplyFails, PartialReply,
         Reply, AckTimeoutReplyAgain, AckTimeoutGiveUp, StreamsDone
    <2>2. /\ UNCHANGED toClient
          /\ \/ UNCHANGED toServer
             \/ Send("P_NAK", k, serviceq[k].req)
             \/ Send("P_PREP", k, serviceq[k].req)
             \/ Send("P_REP", k, serviceq[k].req)
      BY <1>3 DEF Service, ReplyFails, PartialReply, Reply,
         AckTimeoutReplyAgain, AckTimeoutGiveUp, StreamsDone
    <2> QED
      BY <1>0, <2>1, <2>2
  <1> QED
    BY <1>1, <1>2, <1>3 DEF ClientNext

\* The composition implements the server's specification.
LEMMA NetImplementsServer == NetSpec => Spec
  <1>1. NetInit => Init
    BY DEF NetInit
  <1>2. ClientTypeOK /\ [NetNext]_netVars => [Next]_vars
    <2> SUFFICES ASSUME ClientTypeOK, [NetNext]_netVars
                 PROVE  [Next]_vars
      OBVIOUS
    <2>1. CASE ServerStep
      BY <2>1 DEF ServerStep, Next
    <2>2. CASE ClientStep
      BY <2>2, ClientNet DEF ClientStep, Environment, Next
    <2>3. CASE Lose
      BY <2>3 DEF Lose, Environment, Next
    <2>4. CASE Duplicate
      BY <2>4 DEF Duplicate, Environment, Next
    <2>5. CASE UNCHANGED netVars
      BY <2>5 DEF netVars, vars
    <2> QED
      BY <2>1, <2>2, <2>3, <2>4, <2>5 DEF NetNext
  <1> QED
    BY <1>1, <1>2, NetRunsOnce, PTL DEF NetSpec, Spec

\* The server's bounds hold in the composition.
THEOREM NetSendBounded == NetSpec => []SendBound
  BY NetImplementsServer, SendBounded, PTL

(***************************************************************************)
(* The handshake.  Two kinds of fact carry it: what a request or a service *)
(* has come to is never taken back, and every new packet is honest.        *)
(***************************************************************************)

\* No request takes back its outcome, and the run that it got.
OutcomesKept ==
  \A r \in Requests :
     proto[r].outcome # "none" => /\ proto'[r].outcome = proto[r].outcome
                                  /\ proto'[r].run = proto[r].run

\* No service takes back its request, its reply or its end.
ServicesKept ==
  \A k \in Runs :
     serviceq[k].st # "unused" =>
        /\ serviceq'[k].req = serviceq[k].req
        /\ serviceq[k].replied => serviceq'[k].replied
        /\ serviceq'[k].st # "unused"
        /\ serviceq[k].st = "deleted" => serviceq'[k].st = "deleted"

\* What is in flight after sending or receiving.
LEMMA InFlightAfter ==
  ASSUME NEW S, NEW net \in [S -> 0..Copies], NEW m, NEW n \in S
  PROVE  /\ InFlight(Put(net, m), n) => InFlight(net, n) \/ n = m
         /\ InFlight(Take(net, m), n) => InFlight(net, n)
  <1>1. CASE n = m
    BY <1>1, CopiesAssumption DEF Put, Take, InFlight
  <1>2. CASE n # m
    BY <1>2 DEF Put, Take, InFlight
  <1> QED
    BY <1>1, <1>2

\* An honest packet stays honest.
LEMMA HonestKept ==
  ASSUME HandshakeInv, OutcomesKept, ServicesKept,
         NEW m \in ClientPkts, Honest(m)
  PROVE  Honest(m)'
  <1>1. m.req \in Requests
    BY DEF ClientPkts
  <1>2. CASE m.type = "P_REP"
    <2>1. m.run \in Runs /\ serviceq[m.run].st # "unused"
      BY <1>2 DEF Honest, HandshakeInv
    <2> QED
      BY <1>2, <2>1 DEF Honest, ServicesKept
  <1>3. CASE m.type = "P_NAK"
    BY <1>1, <1>3 DEF Honest, OutcomesKept, ServicesKept
  <1>4. CASE m.type \notin {"P_REP", "P_NAK"}
    BY <1>4 DEF Honest
  <1> QED
    BY <1>2, <1>3, <1>4

\* A step keeps the handshake if it takes nothing back and what it adds is so:
\* a packet, an ACK, a conclusion of the server, an ACK taken by a service.
LEMMA HandshakeKept ==
  ASSUME TypeOK, ClientTypeOK, HandshakeInv, OutcomesKept, ServicesKept,
         \A m \in ClientPkts : InFlight(toServer', m) =>
                                 InFlight(toServer, m) \/ Honest(m)',
         \A m \in ServerPkts : m.type = "P_ACK" /\ InFlight(toClient', m) =>
                                 \/ InFlight(toClient, m)
                                 \/ proto'[m.req].outcome = "P_REP",
         \A k \in Runs : serviceq'[k].st = "unused" =>
                            ~ serviceq'[k].replied /\ ~ serviceq'[k].acked,
         \A k \in Runs : serviceq'[k].st = "s_ackwait" =>
                            serviceq'[k].replied,
         \A k \in Runs : serviceq'[k].acked =>
                            \/ serviceq[k].acked
                            \/ proto'[serviceq'[k].req].outcome = "P_REP",
         \A r \in Requests :
            proto[r].outcome = "none" /\ proto'[r].outcome = "P_NAK"
               /\ proto'[r].run \in Runs =>
                  serviceq'[proto'[r].run].st = "deleted",
         \A r \in Requests :
            proto[r].outcome = "none" /\ proto'[r].outcome = "P_REP" =>
               /\ proto'[r].run \in Runs
               /\ serviceq'[proto'[r].run].req = r
               /\ serviceq'[proto'[r].run].replied
  PROVE  HandshakeInv'
  <1>1. \A m \in ClientPkts : InFlight(toServer', m) => Honest(m)'
    BY HonestKept DEF HandshakeInv
  <1>2. \A m \in ServerPkts : m.type = "P_ACK" /\ InFlight(toClient', m) =>
                                 proto'[m.req].outcome = "P_REP"
    <2> SUFFICES ASSUME NEW m \in ServerPkts, m.type = "P_ACK",
                        InFlight(toClient, m)
                 PROVE  proto'[m.req].outcome = "P_REP"
      OBVIOUS
    <2>1. m.req \in Requests
      BY DEF ServerPkts
    <2> QED
      BY <2>1 DEF HandshakeInv, OutcomesKept
  <1>4. ASSUME NEW r \in Requests, proto'[r].outcome = "P_NAK",
               proto'[r].run \in Runs
        PROVE  serviceq'[proto'[r].run].st = "deleted"
    BY <1>4 DEF HandshakeInv, OutcomesKept, ServicesKept
  <1>5. ASSUME NEW r \in Requests, proto'[r].outcome = "P_REP"
        PROVE  /\ proto'[r].run \in Runs
               /\ serviceq'[proto'[r].run].req = r
               /\ serviceq'[proto'[r].run].replied
    <2>1. CASE proto[r].outcome = "none"
      BY <1>5, <2>1
    <2>2. CASE proto[r].outcome # "none"
      <3>1. proto[r].outcome = "P_REP" /\ proto'[r].run = proto[r].run
        BY <1>5, <2>2 DEF OutcomesKept
      <3>2. /\ proto[r].run \in Runs
            /\ serviceq[proto[r].run].req = r
            /\ serviceq[proto[r].run].replied
        BY <3>1 DEF HandshakeInv, GenuineReply
      <3>3. serviceq[proto[r].run].st # "unused"
        BY <3>2 DEF HandshakeInv
      <3> QED
        BY <3>1, <3>2, <3>3 DEF ServicesKept
    <2> QED
      BY <2>1, <2>2
  <1>6. ASSUME NEW k \in Runs, serviceq'[k].acked
        PROVE  proto'[serviceq'[k].req].outcome = "P_REP"
    <2>1. CASE serviceq[k].acked
      <3>1. serviceq[k].st # "unused" /\ proto[serviceq[k].req].outcome = "P_REP"
        BY <2>1 DEF HandshakeInv, AckedMeansConcluded
      <3>2. serviceq[k].req \in Requests /\ serviceq'[k].req = serviceq[k].req
        BY <3>1 DEF ClientTypeOK, ServicesKept
      <3> QED
        BY <3>1, <3>2 DEF OutcomesKept
    <2> QED
      BY <1>6, <2>1
  <1> QED
    BY <1>1, <1>2, <1>4, <1>5, <1>6
       DEF HandshakeInv, GenuineReply, AckedMeansConcluded

(***************************************************************************)
(* The steps of the server.                                                *)
(***************************************************************************)

\* A request that waits for something has no outcome.
LEMMA WaitsUndecided ==
  ASSUME TypeOK, Inv, NEW r \in Requests, proto[r].wait # "none"
  PROVE  proto[r].outcome = "none"
  BY DEF TypeOK, Inv, ProtoType, Waits, ProtoInv, NotSentYet, AwaitsPacket

\* s_sendreq concludes with an error or not at all.
LEMMA SendReqOutcome ==
  ASSUME NEW p \in ProtoType, NEW ok \in BOOLEAN
  PROVE  SendReq(p, ok).outcome \in {p.outcome, "send_failed"}
  <1>1. CASE ok
    BY <1>1 DEF SendReq, Pending, ProtoType
  <1>2. CASE ~ ok
    BY <1>2 DEF SendReq, Abort, Conclude, ProtoType
  <1> QED
    BY <1>1, <1>2

\* The events of a request other than a packet never conclude it with an answer.
LEMMA StepOutcome ==
  ASSUME TypeOK, Inv, NEW r \in Requests, Step(r)
  PROVE  /\ proto[r].outcome = "none"
         /\ proto'[r].outcome \notin {"P_NAK", "P_REP"}
         /\ \A s \in Requests \ {r} : proto'[s] = proto[s]
         /\ toServer' = toServer
         /\ \/ toClient' = toClient
            \/ toClient' = Put(toClient, ServerPkt("P_REQ", r))
  <1>1. proto[r].outcome = "none"
    BY WaitsUndecided DEF Step, SendRequest, Connected, ConnectAbort,
       ConnectRetry, ConnectWaitOver, AckTimeoutAbort, AckTimeoutResend,
       RepTimeoutAbort, RepTimeoutReset, RecvError, Expired
  <1>2. /\ toServer' = toServer
        /\ \/ toClient' = toClient
           \/ toClient' = Put(toClient, ServerPkt("P_REQ", r))
    BY DEF Step, SendRequest, Connected, ConnectAbort, ConnectRetry,
       ConnectWaitOver, AckTimeoutAbort, AckTimeoutResend, RepTimeoutAbort,
       RepTimeoutReset, RecvError, SendReqNet
  <1>3. proto[r] \in ProtoType
    BY DEF TypeOK
  <1>4. ASSUME NEW q, proto' = [proto EXCEPT ![r] = q],
               q.outcome \notin {"P_NAK", "P_REP"}
        PROVE  /\ proto'[r].outcome \notin {"P_NAK", "P_REP"}
               /\ \A s \in Requests \ {r} : proto'[s] = proto[s]
    BY <1>4 DEF TypeOK
  <1> DEFINE Goal == /\ proto'[r].outcome \notin {"P_NAK", "P_REP"}
                     /\ \A s \in Requests \ {r} : proto'[s] = proto[s]
  <1>5. CASE SendRequest(r)
    <2>1. Begin(proto[r]).outcome = "none"
      BY <1>1, <1>3 DEF Begin, ProtoType
    <2> QED
      BY <1>1, <1>2, <1>4, <1>5, <2>1 DEF SendRequest
  <1>6. ASSUME NEW ok \in BOOLEAN, Connected(r, ok)
        PROVE  Goal
    <2>1. SendReq(proto[r], ok).outcome \in {"none", "send_failed"}
      BY <1>1, <1>3, SendReqOutcome
    <2> QED
      BY <1>4, <1>6, <2>1 DEF Connected
  <1>7. CASE ConnectAbort(r)
    <2> DEFINE q == Abort([proto[r] EXCEPT !.connecttries = 0], "no_connect")
    <2>1. q.outcome = "no_connect"
      BY <1>3 DEF Abort, Conclude, ProtoType
    <2>2. proto' = [proto EXCEPT ![r] = q]
      BY <1>7 DEF ConnectAbort, LastConnect
    <2> HIDE DEF q
    <2> QED
      BY <1>1, <1>2, <1>4, <2>1, <2>2
  <1>8. CASE ConnectRetry(r)
    <2>1. RetryLater(proto[r]).outcome = "none"
      BY <1>1, <1>3 DEF RetryLater, ProtoType
    <2> QED
      BY <1>1, <1>2, <1>4, <1>8, <2>1 DEF ConnectRetry, LastConnect
  <1>9. CASE ConnectWaitOver(r)
    <2> DEFINE q == [proto[r] EXCEPT !.wait = "connect"]
    <2>1. q.outcome = "none"
      BY <1>1, <1>3 DEF ProtoType
    <2>2. proto' = [proto EXCEPT ![r] = q]
      BY <1>9 DEF ConnectWaitOver
    <2> HIDE DEF q
    <2> QED
      BY <1>1, <1>2, <1>4, <2>1, <2>2
  <1>10. CASE AckTimeoutAbort(r)
    <2> DEFINE q == Abort(CountTry(proto[r]), "ack_timeout")
    <2>1. q.outcome = "ack_timeout"
      BY <1>3 DEF Abort, Conclude, CountTry, ProtoType
    <2>2. proto' = [proto EXCEPT ![r] = q]
      BY <1>10 DEF AckTimeoutAbort, LastTry
    <2> HIDE DEF q
    <2> QED
      BY <1>1, <1>2, <1>4, <2>1, <2>2
  <1>11. ASSUME NEW ok \in BOOLEAN, AckTimeoutResend(r, ok)
         PROVE  Goal
    <2> DEFINE p == SendAgain(proto[r])
               q == SendReq(p, ok)
    <2>1. q.outcome \in {p.outcome, "send_failed"} /\ p.outcome = "none"
      <3> DEFINE n == proto[r].reqtries - 1
      <3>1. n \in 0..ReqTries
        BY <1>3, <1>11, TriesAssumption
           DEF AckTimeoutResend, LastTry, Expired, Inv, ProtoInv, AwaitsPacket, ProtoType
      <3>2. p = [proto[r] EXCEPT !.reqtries = n, !.state = "s_sendreq"]
        BY DEF SendAgain, CountTry
      <3> HIDE DEF n, p
      <3>3. p \in ProtoType /\ p.outcome = "none"
        BY <1>1, <1>3, <3>1, <3>2 DEF ProtoType, States
      <3> QED
        BY <3>3, SendReqOutcome DEF q
    <2>2. proto' = [proto EXCEPT ![r] = q]
      BY <1>11 DEF AckTimeoutResend, LastTry
    <2> HIDE DEF q, p
    <2> QED
      BY <1>4, <2>1, <2>2
  <1>12. CASE RepTimeoutAbort(r)
    <2> DEFINE q == Abort(proto[r], "rep_timeout")
    <2>1. q.outcome = "rep_timeout"
      BY <1>3 DEF Abort, Conclude, ProtoType
    <2>2. proto' = [proto EXCEPT ![r] = q]
      BY <1>12 DEF RepTimeoutAbort
    <2> HIDE DEF q
    <2> QED
      BY <1>1, <1>2, <1>4, <2>1, <2>2
  <1>13. ASSUME NEW ok \in BOOLEAN, RepTimeoutReset(r, ok)
         PROVE  Goal
    <2> DEFINE p == StartOver(proto[r])
               q == SendReq(p, ok)
    <2>1. q.outcome \in {p.outcome, "send_failed"} /\ p.outcome = "none"
      <3> DEFINE n == proto[r].resettries - 1
      <3>1. n \in 0..ResetTries /\ ReqTries \in 0..ReqTries
        BY <1>3, <1>13, TriesAssumption
           DEF RepTimeoutReset, GivesUpOnReply, ProtoType
      <3>2. p = [proto[r] EXCEPT !.resettries = n, !.state = "s_sendreq",
                                   !.reqtries = ReqTries]
        BY DEF StartOver
      <3> HIDE DEF n, p
      <3>3. p \in ProtoType /\ p.outcome = "none"
        BY <1>1, <1>3, <3>1, <3>2 DEF ProtoType, States
      <3> QED
        BY <3>3, SendReqOutcome DEF q
    <2>2. proto' = [proto EXCEPT ![r] = q]
      BY <1>13 DEF RepTimeoutReset
    <2> HIDE DEF q, p
    <2> QED
      BY <1>4, <2>1, <2>2
  <1>14. CASE RecvError(r)
    <2> DEFINE q == Abort(proto[r], "recv_error")
    <2>1. q.outcome = "recv_error"
      BY <1>3 DEF Abort, Conclude, ProtoType
    <2>2. proto' = [proto EXCEPT ![r] = q]
      BY <1>14 DEF RecvError
    <2> HIDE DEF q
    <2> QED
      BY <1>1, <1>2, <1>4, <2>1, <2>2
  <1>15. Goal
    BY <1>5, <1>6, <1>7, <1>8, <1>9, <1>10, <1>11, <1>12, <1>13, <1>14 DEF Step
  <1> QED
    BY <1>1, <1>2, <1>15

\* A packet concludes its request with the answer that it carries.
LEMMA ReceiveOutcome ==
  ASSUME TypeOK, Inv, NEW m \in ClientPkts, Receive(m)
  PROVE  /\ m.req \in Requests
         /\ InFlight(toServer, m)
         /\ toServer' = Take(toServer, m)
         /\ \A s \in Requests \ {m.req} : proto'[s] = proto[s]
         /\ \/ proto' = proto /\ toClient' = toClient
            \/ /\ proto[m.req].outcome = "none"
               /\ proto'[m.req].outcome \notin {"P_NAK", "P_REP"}
               /\ toClient' = toClient
            \/ /\ proto[m.req].outcome = "none"
               /\ m.type = "P_NAK"
               /\ proto'[m.req].outcome = "P_NAK"
               /\ proto'[m.req].run = m.run
               /\ toClient' = toClient
            \/ /\ proto[m.req].outcome = "none"
               /\ m.type = "P_REP"
               /\ proto'[m.req].outcome = "P_REP"
               /\ proto'[m.req].run = m.run
               /\ toClient' = Put(toClient, ServerPkt("P_ACK", m.req))
  <1> DEFINE r == m.req
             p == proto[r]
  <1>1. r \in Requests
    BY DEF ClientPkts
  <1>2. InFlight(toServer, m) /\ toServer' = Take(toServer, m)
    BY DEF Receive, RecvAck, RecvStrayAck, RecvNak, RecvRep, RecvPrep, DropPkt,
       Receives
  <1>3. p \in ProtoType
    BY <1>1 DEF TypeOK
  <1>4. ASSUME Receives(m)
        PROVE  p.outcome = "none"
    BY <1>1, <1>4, WaitsUndecided DEF Receives
  <1> HIDE DEF p
  <1>5. ASSUME NEW q, proto' = [proto EXCEPT ![r] = q]
        PROVE  proto'[r] = q /\ \A s \in Requests \ {r} : proto'[s] = proto[s]
    BY <1>1, <1>5 DEF TypeOK
  <1>6. CASE RecvAck(m) \/ RecvStrayAck(m) \/ RecvPrep(m)
    <2>1. Receives(m) /\ toClient' = toClient
      BY <1>6 DEF RecvAck, RecvStrayAck, RecvPrep
    <2>2. PICK t \in {p.timeout, RepWait, PrepTimeout(p)} :
             \/ proto' = [proto EXCEPT ![r] =
                            Pending([p EXCEPT !.state = "s_repwait", !.timeout = t])]
             \/ proto' = [proto EXCEPT ![r] = Pending(p)]
      BY <1>6 DEF RecvAck, RecvStrayAck, RecvPrep, p
    <2>3. /\ Pending([p EXCEPT !.state = "s_repwait", !.timeout = t]).outcome
                = p.outcome
          /\ Pending(p).outcome = p.outcome
      BY <1>3 DEF Pending, ProtoType
    <2>4. /\ proto'[r].outcome = p.outcome
          /\ \A s \in Requests \ {r} : proto'[s] = proto[s]
      BY <1>5, <2>2, <2>3
    <2>5. p.outcome = "none"
      BY <1>4, <2>1
    <2> QED
      BY <1>1, <1>2, <2>1, <2>4, <2>5 DEF p
  <1>7. CASE RecvNak(m)
    <2> DEFINE q == Conclude(p, "P_NAK", m.run)
    <2>1. q.outcome = "P_NAK" /\ q.run = m.run
      BY <1>3 DEF Conclude, ProtoType
    <2>2. proto' = [proto EXCEPT ![r] = q]
      BY <1>7 DEF RecvNak, p
    <2>3. p.outcome = "none" /\ m.type = "P_NAK" /\ toClient' = toClient
      BY <1>4, <1>7 DEF RecvNak
    <2> HIDE DEF q
    <2> QED
      BY <1>1, <1>2, <1>5, <2>1, <2>2, <2>3 DEF p
  <1>8. ASSUME NEW ok \in BOOLEAN, RecvRep(m, ok), ok
        PROVE  /\ p.outcome = "none"
               /\ m.type = "P_REP"
               /\ proto'[r].outcome = "P_REP"
               /\ proto'[r].run = m.run
               /\ toClient' = Put(toClient, ServerPkt("P_ACK", r))
               /\ \A s \in Requests \ {r} : proto'[s] = proto[s]
    <2> DEFINE q == Conclude([p EXCEPT !.state = "s_repwait"], "P_REP", m.run)
    <2>1. q.outcome = "P_REP" /\ q.run = m.run
      BY <1>3 DEF Conclude, ProtoType
    <2>2. proto' = [proto EXCEPT ![r] = q]
      BY <1>8 DEF RecvRep, p
    <2>3. /\ p.outcome = "none"
          /\ m.type = "P_REP"
          /\ toClient' = Put(toClient, ServerPkt("P_ACK", r))
      BY <1>4, <1>8 DEF RecvRep
    <2> HIDE DEF q
    <2> QED
      BY <1>5, <2>1, <2>2, <2>3
  <1>9. ASSUME NEW ok \in BOOLEAN, RecvRep(m, ok), ~ ok
        PROVE  /\ p.outcome = "none"
               /\ proto'[r].outcome = "send_failed"
               /\ toClient' = toClient
               /\ \A s \in Requests \ {r} : proto'[s] = proto[s]
    <2> DEFINE q == Abort([p EXCEPT !.state = "s_repwait"], "send_failed")
    <2>1. q.outcome = "send_failed"
      BY <1>3 DEF Abort, Conclude, ProtoType
    <2>2. proto' = [proto EXCEPT ![r] = q]
      BY <1>9 DEF RecvRep, p
    <2>3. p.outcome = "none" /\ toClient' = toClient
      BY <1>4, <1>9 DEF RecvRep
    <2> HIDE DEF q
    <2> QED
      BY <1>5, <2>1, <2>2, <2>3
  <1>10. CASE DropPkt(m)
    BY <1>1, <1>2, <1>10 DEF DropPkt
  <1>11. ASSUME NEW ok \in BOOLEAN, RecvRep(m, ok)
         PROVE  /\ p.outcome = "none"
                /\ \A s \in Requests \ {r} : proto'[s] = proto[s]
                /\ \/ /\ proto'[r].outcome \notin {"P_NAK", "P_REP"}
                      /\ toClient' = toClient
                   \/ /\ m.type = "P_REP"
                      /\ proto'[r].outcome = "P_REP"
                      /\ proto'[r].run = m.run
                      /\ toClient' = Put(toClient, ServerPkt("P_ACK", r))
    BY <1>8, <1>9, <1>11
  <1>12. CASE \E ok \in BOOLEAN : RecvRep(m, ok)
    BY <1>1, <1>2, <1>11, <1>12 DEF p
  <1> QED
    BY <1>6, <1>7, <1>10, <1>12 DEF Receive

\* The server keeps the handshake.
LEMMA ServerHandshake ==
  ASSUME TypeOK, Inv, ClientTypeOK, HandshakeInv, ServerNext,
         serviceq' = serviceq
  PROVE  HandshakeInv'
  <1>1. ServicesKept
    BY DEF ServicesKept
  <1>2. /\ toServer \in [ClientPkts -> 0..Copies]
        /\ toClient \in [ServerPkts -> 0..Copies]
        /\ \A k \in Runs :
              /\ serviceq'[k].st = "s_ackwait" => serviceq'[k].replied
              /\ serviceq'[k].st = "unused" =>
                    ~ serviceq'[k].replied /\ ~ serviceq'[k].acked
    BY DEF TypeOK, HandshakeInv
  <1>3. ASSUME NEW r \in Requests, Step(r)
        PROVE  HandshakeInv'
    <2>1. OutcomesKept
      BY <1>3, StepOutcome DEF OutcomesKept
    <2>2. \A m \in ServerPkts :
             m.type = "P_ACK" /\ InFlight(toClient', m) => InFlight(toClient, m)
      <3>1. ServerPkt("P_REQ", r).type = "P_REQ"
        BY DEF ServerPkt
      <3> QED
        BY <1>2, <1>3, <3>1, StepOutcome, InFlightAfter
    <2>3. \A s \in Requests : proto[s].outcome = "none" =>
                                 proto'[s].outcome \notin {"P_NAK", "P_REP"}
      BY <1>3, StepOutcome
    <2>4. toServer' = toServer
      BY <1>3, StepOutcome
    <2> QED
      BY <1>1, <1>2, <2>1, <2>2, <2>3, <2>4, HandshakeKept
  <1>4. ASSUME NEW m \in ClientPkts, Receive(m)
        PROVE  HandshakeInv'
    <2>1. OutcomesKept
      BY <1>4, ReceiveOutcome DEF OutcomesKept
    <2>2. \A n \in ServerPkts :
             n.type = "P_ACK" /\ InFlight(toClient', n) =>
                \/ InFlight(toClient, n)
                \/ proto'[n.req].outcome = "P_REP"
      <3>1. ServerPkt("P_ACK", m.req).req = m.req
        BY DEF ServerPkt
      <3> QED
        BY <1>2, <1>4, <3>1, ReceiveOutcome, InFlightAfter
    <2>3. \A n \in ClientPkts : InFlight(toServer', n) => InFlight(toServer, n)
      BY <1>2, <1>4, ReceiveOutcome, InFlightAfter
    <2>4. Honest(m)
      BY <1>4, ReceiveOutcome DEF HandshakeInv
    <2>5. ASSUME NEW s \in Requests, proto[s].outcome = "none",
                 proto'[s].outcome = "P_NAK", proto'[s].run \in Runs
          PROVE  serviceq'[proto'[s].run].st = "deleted"
      <3>1. s = m.req /\ m.type = "P_NAK" /\ proto'[s].run = m.run
        BY <1>4, <2>5, ReceiveOutcome
      <3> QED
        BY <2>4, <2>5, <3>1 DEF Honest
    <2>6. ASSUME NEW s \in Requests, proto[s].outcome = "none",
                 proto'[s].outcome = "P_REP"
          PROVE  /\ proto'[s].run \in Runs
                 /\ serviceq'[proto'[s].run].req = s
                 /\ serviceq'[proto'[s].run].replied
      <3>1. s = m.req /\ m.type = "P_REP" /\ proto'[s].run = m.run
        BY <1>4, <2>6, ReceiveOutcome
      <3> QED
        BY <2>4, <3>1 DEF Honest
    <2> QED
      BY <1>1, <1>2, <2>1, <2>2, <2>3, <2>5, <2>6, HandshakeKept
  <1>5. CASE Tick
    <2>1. ASSUME NEW r \in Requests
          PROVE  proto'[r].outcome = proto[r].outcome /\ proto'[r].run = proto[r].run
      <3>1. proto[r] \in ProtoType
        BY DEF TypeOK
      <3>2. /\ Elapse(proto[r]).outcome = proto[r].outcome
            /\ Elapse(proto[r]).run = proto[r].run
        BY <3>1 DEF Elapse, ProtoType
      <3> QED
        BY <1>5, <3>2 DEF Tick
    <2>2. OutcomesKept /\ toServer' = toServer /\ toClient' = toClient
      BY <1>5, <2>1 DEF Tick, OutcomesKept
    <2> QED
      BY <1>1, <1>2, <2>1, <2>2, HandshakeKept
  <1> QED
    BY <1>3, <1>4, <1>5 DEF ServerNext

(***************************************************************************)
(* The steps of the client.                                                *)
(***************************************************************************)

\* A step of amandad that rewrites service k to s, taking nothing back, and
\* sends at most one packet, which is honest, keeps the handshake.
LEMMA OneServiceHandshake ==
  ASSUME TypeOK, ClientTypeOK, HandshakeInv, proto' = proto,
         NEW k \in Runs, NEW s,
         serviceq' = [serviceq EXCEPT ![k] = s],
         s.st = "unused" => ~ s.replied /\ ~ s.acked,
         serviceq[k].st # "unused" => /\ s.st # "unused"
                                      /\ s.req = serviceq[k].req
                                      /\ serviceq[k].replied => s.replied,
         serviceq[k].st = "deleted" => s.st = "deleted",
         s.st = "s_ackwait" => s.replied,
         s.acked => serviceq[k].acked \/ proto[s.req].outcome = "P_REP",
         toClient' = toClient \/ \E m : toClient' = Take(toClient, m),
         \/ toServer' = toServer
         \/ \E m : toServer' = Put(toServer, m) /\ Honest(m)'
  PROVE  HandshakeInv'
  <1>1. serviceq'[k] = s /\ \A j \in Runs \ {k} : serviceq'[j] = serviceq[j]
    BY DEF ClientTypeOK
  <1>2. OutcomesKept
    BY DEF OutcomesKept
  <1>3. ServicesKept
    BY <1>1 DEF ServicesKept
  <1>4. \A m \in ClientPkts : InFlight(toServer', m) =>
                                 InFlight(toServer, m) \/ Honest(m)'
    BY InFlightAfter DEF TypeOK
  <1>5. \A m \in ServerPkts : InFlight(toClient', m) => InFlight(toClient, m)
    BY InFlightAfter DEF TypeOK
  <1>6. \A j \in Runs : serviceq'[j].st = "s_ackwait" => serviceq'[j].replied
    BY <1>1 DEF HandshakeInv
  <1>7. \A j \in Runs : serviceq'[j].st = "unused" =>
                            ~ serviceq'[j].replied /\ ~ serviceq'[j].acked
    BY <1>1 DEF HandshakeInv
  <1>8. \A j \in Runs : serviceq'[j].acked =>
                            \/ serviceq[j].acked
                            \/ proto'[serviceq'[j].req].outcome = "P_REP"
    BY <1>1
  <1> QED
    BY <1>2, <1>3, <1>4, <1>5, <1>6, <1>7, <1>8, HandshakeKept

\* protocol_accept keeps the handshake.
LEMMA AcceptHandshake ==
  ASSUME TypeOK, ClientTypeOK, HandshakeInv, proto' = proto,
         NEW m \in ServerPkts, Accept(m)
  PROVE  HandshakeInv'
  <1>1. toClient' = Take(toClient, m)
    BY DEF Accept, AcceptRefuse, AcceptForget, AcceptRunning, AcceptNew,
       AcceptFail, Accepts, Takes
  <1>2. CASE AcceptRefuse(m) \/ AcceptForget(m) \/ AcceptRunning(m)
    <2>1. /\ serviceq' = serviceq
          /\ \/ toServer' = toServer
             \/ \E n : toServer' = Put(toServer, n) /\ Honest(n)'
      <3>1. /\ serviceq' = serviceq
            /\ \/ toServer' = toServer
               \/ toServer' = Put(toServer, ClientPkt("P_NAK", m.req, NoRun))
               \/ toServer' = Put(toServer, ClientPkt("P_ACK", m.req, NoRun))
        BY <1>2 DEF AcceptRefuse, AcceptForget, AcceptRunning, Send
      <3>2. /\ Honest(ClientPkt("P_NAK", m.req, NoRun))'
            /\ Honest(ClientPkt("P_ACK", m.req, NoRun))'
        BY RunsAssumption DEF Honest, ClientPkt
      <3> QED
        BY <3>1, <3>2
    <2>2. OutcomesKept /\ ServicesKept
      BY <2>1 DEF OutcomesKept, ServicesKept
    <2>3. \A n \in ClientPkts : InFlight(toServer', n) =>
                                   InFlight(toServer, n) \/ Honest(n)'
      BY <2>1, InFlightAfter DEF TypeOK
    <2>4. \A n \in ServerPkts : InFlight(toClient', n) => InFlight(toClient, n)
      BY <1>1, InFlightAfter DEF TypeOK
    <2>5. \A j \in Runs :
             /\ serviceq'[j].st = "s_ackwait" => serviceq'[j].replied
             /\ serviceq'[j].st = "unused" =>
                   ~ serviceq'[j].replied /\ ~ serviceq'[j].acked
      BY <2>1 DEF HandshakeInv
    <2> QED
      BY <2>1, <2>2, <2>3, <2>4, <2>5, HandshakeKept
  <1>3. ASSUME NEW k \in Runs, AcceptNew(m, k)
        PROVE  HandshakeInv'
    <2> DEFINE s == [NoService EXCEPT !.st = "s_repwait", !.req = m.req,
                                      !.recv = "forever"]
    <2>1. s.st = "s_repwait" /\ ~ s.acked
      BY DEF NoService
    <2>2. serviceq' = [serviceq EXCEPT ![k] = s] /\ serviceq[k].st = "unused"
      BY <1>3 DEF AcceptNew
    <2>3. \E n : toServer' = Put(toServer, n) /\ Honest(n)'
      <3>1. Honest(ClientPkt("P_ACK", m.req, k))'
        BY DEF Honest, ClientPkt
      <3> QED
        BY <1>3, <3>1 DEF AcceptNew, Send
    <2> HIDE DEF s
    <2> QED
      BY <1>1, <2>1, <2>2, <2>3, OneServiceHandshake
  <1>4. ASSUME NEW k \in Runs, AcceptFail(m, k)
        PROVE  HandshakeInv'
    <2> DEFINE s == Deleted([NoService EXCEPT !.req = m.req])
    <2>1. s.st = "deleted" /\ ~ s.acked
      BY DEF NoService, Deleted
    <2>2. serviceq' = [serviceq EXCEPT ![k] = s] /\ serviceq[k].st = "unused"
      BY <1>4 DEF AcceptFail
    <2> HIDE DEF s
    <2>3. serviceq'[k].st = "deleted"
      BY <2>1, <2>2 DEF ClientTypeOK
    <2>4. Honest(ClientPkt("P_NAK", m.req, k))'
      BY <2>3 DEF Honest, ClientPkt
    <2>5. \/ toServer' = toServer
          \/ \E n : toServer' = Put(toServer, n) /\ Honest(n)'
      BY <1>4, <2>4 DEF AcceptFail, Send
    <2> QED
      BY <1>1, <2>1, <2>2, <2>5, OneServiceHandshake
  <1> QED
    BY <1>2, <1>3, <1>4 DEF Accept

\* protocol_recv keeps the handshake: an ACK in s_ackwait is the server's, and
\* the NAK for an ACK in s_repwait goes to a request that is over.
LEMMA DeliverHandshake ==
  ASSUME TypeOK, ClientTypeOK, HandshakeInv, proto' = proto,
         NEW m \in ServerPkts, NEW k \in Runs, Deliver(m, k)
  PROVE  HandshakeInv'
  <1>1. /\ InFlight(toClient, m)
        /\ toClient' = Take(toClient, m)
        /\ serviceq[k].req = m.req
    BY DEF Deliver, RecvBad, DupReqWhileRunning, Unexpected, DupReqReplyAgain,
       RecvAckOfReply, Delivers, Takes, Listening
  <1>2. serviceq[k] \in ServiceType
    BY DEF ClientTypeOK
  <1>3. CASE RecvBad(m, k)
    <2> DEFINE s == [serviceq[k] EXCEPT !.recv = "none"]
    <2>1. /\ s.st = serviceq[k].st
          /\ s.req = serviceq[k].req
          /\ s.replied = serviceq[k].replied
          /\ s.acked = serviceq[k].acked
      BY <1>2 DEF ServiceType
    <2>2. serviceq' = [serviceq EXCEPT ![k] = s] /\ toServer' = toServer
      BY <1>3 DEF RecvBad
    <2>3. s.st = "unused" => ~ s.replied /\ ~ s.acked
      BY <2>1 DEF HandshakeInv
    <2>4. s.st = "s_ackwait" => s.replied
      BY <2>1 DEF HandshakeInv
    <2> HIDE DEF s
    <2> QED
      BY <1>1, <2>1, <2>2, <2>3, <2>4, OneServiceHandshake
  <1>4. CASE DupReqWhileRunning(m, k) \/ Unexpected(m, k)
    <2> DEFINE s == [serviceq[k] EXCEPT !.recv = "forever"]
    <2>1. /\ s.st = "s_repwait"
          /\ serviceq[k].st = "s_repwait"
          /\ s.req = serviceq[k].req
          /\ s.replied = serviceq[k].replied
          /\ s.acked = serviceq[k].acked
      BY <1>2, <1>4 DEF ServiceType, DupReqWhileRunning, Unexpected
    <2>2. serviceq' = [serviceq EXCEPT ![k] = s]
      BY <1>4 DEF DupReqWhileRunning, Unexpected
    <2> HIDE DEF s
    <2>3. CASE DupReqWhileRunning(m, k)
      <3>1. \E n : toServer' = Put(toServer, n) /\ Honest(n)'
        <4>1. Honest(ClientPkt("P_ACK", m.req, k))'
          BY DEF Honest, ClientPkt
        <4> QED
          BY <2>3, <4>1 DEF DupReqWhileRunning, Send
      <3> QED
        BY <1>1, <2>1, <2>2, <3>1, OneServiceHandshake
    <2>4. CASE Unexpected(m, k)
      <3>1. m.type = "P_ACK"
        BY <2>4 DEF Unexpected, ServerPkts, ServerTypes
      <3>2. proto'[m.req].outcome = "P_REP"
        BY <1>1, <3>1 DEF HandshakeInv
      <3>3. serviceq'[k].st # "unused"
        BY <2>1, <2>2 DEF ClientTypeOK
      <3>4. Honest(ClientPkt("P_NAK", m.req, k))'
        BY <3>2, <3>3 DEF Honest, ClientPkt
      <3>5. \E n : toServer' = Put(toServer, n) /\ Honest(n)'
        BY <2>4, <3>4 DEF Unexpected, Send
      <3> QED
        BY <1>1, <2>1, <2>2, <3>5, OneServiceHandshake
    <2> QED
      BY <1>4, <2>3, <2>4
  <1>5. CASE DupReqReplyAgain(m, k)
    <2> DEFINE s == SendRep(serviceq[k])
    <2>1. /\ s.st = "s_ackwait"
          /\ serviceq[k].st = "s_ackwait"
          /\ s.req = serviceq[k].req
          /\ s.replied = serviceq[k].replied
          /\ s.acked = serviceq[k].acked
      BY <1>2, <1>5 DEF ServiceType, SendRep, DupReqReplyAgain
    <2>2. serviceq' = [serviceq EXCEPT ![k] = s]
      BY <1>5 DEF DupReqReplyAgain
    <2> HIDE DEF s
    <2>3. serviceq[k].replied
      BY <2>1 DEF HandshakeInv
    <2>4. serviceq'[k] = s
      BY <2>2 DEF ClientTypeOK
    <2>5. Honest(ClientPkt("P_REP", m.req, k))'
      BY <1>1, <2>1, <2>3, <2>4 DEF Honest, ClientPkt
    <2>6. \E n : toServer' = Put(toServer, n) /\ Honest(n)'
      BY <1>5, <2>5 DEF DupReqReplyAgain, Send
    <2> QED
      BY <1>1, <2>1, <2>2, <2>3, <2>6, OneServiceHandshake
  <1>6. ASSUME NEW open \in BOOLEAN, RecvAckOfReply(m, k, open)
        PROVE  HandshakeInv'
    <2> DEFINE next_st == IF open THEN "streams" ELSE "deleted"
               s == [Deleted(serviceq[k]) EXCEPT !.st = next_st, !.acked = TRUE]
    <2>1. /\ s.st \in {"streams", "deleted"}
          /\ s.req = serviceq[k].req
          /\ s.replied = serviceq[k].replied
      <3>1. next_st \in {"streams", "deleted"}
        OBVIOUS
      <3> HIDE DEF next_st
      <3> QED
        BY <1>2, <3>1 DEF ServiceType, Deleted
    <2>2. /\ serviceq' = [serviceq EXCEPT ![k] = s]
          /\ toServer' = toServer
          /\ serviceq[k].st = "s_ackwait"
          /\ m.type = "P_ACK"
      BY <1>6 DEF RecvAckOfReply
    <2> HIDE DEF s
    <2>3. proto[s.req].outcome = "P_REP"
      BY <1>1, <2>1, <2>2 DEF HandshakeInv
    <2> QED
      BY <1>1, <2>1, <2>2, <2>3, OneServiceHandshake
  <1> QED
    BY <1>3, <1>4, <1>5, <1>6 DEF Deliver

\* The events of a service keep the handshake: a REP is sent only once the
\* child's output has ended, and a NAK only by a service that is deleted.
LEMMA ServiceHandshake ==
  ASSUME TypeOK, ClientTypeOK, HandshakeInv, proto' = proto,
         NEW k \in Runs, Service(k)
  PROVE  HandshakeInv'
  <1> DEFINE r == serviceq[k].req
  <1>1. toClient' = toClient /\ serviceq[k].st # "unused"
    BY DEF Service, ReplyFails, PartialReply, Reply, AckTimeoutReplyAgain,
       AckTimeoutGiveUp, StreamsDone
  <1>2. serviceq[k] \in ServiceType
    BY DEF ClientTypeOK
  <1>3. CASE ReplyFails(k) \/ AckTimeoutGiveUp(k) \/ StreamsDone(k)
    <2> DEFINE s == Deleted(serviceq[k])
    <2>1. /\ s.st = "deleted"
          /\ s.req = r
          /\ s.replied = serviceq[k].replied
          /\ s.acked = serviceq[k].acked
      BY <1>2 DEF ServiceType, Deleted
    <2>2. serviceq' = [serviceq EXCEPT ![k] = s]
      BY <1>3 DEF ReplyFails, AckTimeoutGiveUp, StreamsDone
    <2> HIDE DEF s
    <2>3. serviceq'[k].st = "deleted"
      BY <2>1, <2>2 DEF ClientTypeOK
    <2>4. \A q \in Requests : Honest(ClientPkt("P_NAK", q, k))'
      BY <2>3 DEF Honest, ClientPkt
    <2>5. \/ toServer' = toServer
          \/ \E n : toServer' = Put(toServer, n) /\ Honest(n)'
      <3>1. \/ toServer' = toServer
            \/ toServer' = Put(toServer, ClientPkt("P_NAK", r, k))
        BY <1>3 DEF ReplyFails, AckTimeoutGiveUp, StreamsDone, Send
      <3>2. r \in Requests
        BY <1>1 DEF ClientTypeOK
      <3> QED
        BY <2>4, <3>1, <3>2
    <2> QED
      BY <1>1, <2>1, <2>2, <2>5, OneServiceHandshake
  <1>4. CASE PartialReply(k)
    <2> DEFINE n == serviceq[k].preps + 1
               s == [serviceq[k] EXCEPT !.preps = n]
    <2>1. serviceq' = [serviceq EXCEPT ![k] = s] /\ serviceq[k].st = "s_repwait"
      BY <1>4 DEF PartialReply
    <2> HIDE DEF n
    <2>2. /\ s.st = serviceq[k].st
          /\ s.req = r
          /\ s.replied = serviceq[k].replied
          /\ s.acked = serviceq[k].acked
      BY <1>2 DEF ServiceType
    <2> HIDE DEF s
    <2>3. \E p : toServer' = Put(toServer, p) /\ Honest(p)'
      <3>1. \A q \in Requests : Honest(ClientPkt("P_PREP", q, k))'
        BY DEF Honest, ClientPkt
      <3>2. toServer' = Put(toServer, ClientPkt("P_PREP", r, k)) /\ r \in Requests
        BY <1>1, <1>4 DEF PartialReply, Send, ClientTypeOK
      <3> QED
        BY <3>1, <3>2
    <2> QED
      BY <1>1, <2>1, <2>2, <2>3, OneServiceHandshake
  <1>5. CASE Reply(k)
    <2> DEFINE s == SendRep([serviceq[k] EXCEPT !.repretry = RepTries,
                                                !.replied = TRUE])
    <2>1. /\ s.st = "s_ackwait"
          /\ s.req = r
          /\ s.replied
          /\ s.acked = serviceq[k].acked
      BY <1>2 DEF ServiceType, SendRep
    <2>2. serviceq' = [serviceq EXCEPT ![k] = s] /\ serviceq[k].st = "s_repwait"
      BY <1>5 DEF Reply
    <2> HIDE DEF s
    <2>3. serviceq'[k] = s
      BY <2>2 DEF ClientTypeOK
    <2>4. Honest(ClientPkt("P_REP", r, k))'
      BY <2>1, <2>3 DEF Honest, ClientPkt
    <2>5. Send("P_REP", k, r)
      BY <1>5 DEF Reply
    <2>6. \E n : toServer' = Put(toServer, n) /\ Honest(n)'
      BY <2>1, <2>3, <2>4, <2>5 DEF Send
    <2> QED
      BY <1>1, <2>1, <2>2, <2>6, OneServiceHandshake
  <1>6. CASE AckTimeoutReplyAgain(k)
    <2> DEFINE n == serviceq[k].repretry - 1
               s == SendRep([serviceq[k] EXCEPT !.repretry = n])
    <2>1. /\ serviceq' = [serviceq EXCEPT ![k] = s]
          /\ serviceq[k].st = "s_ackwait"
      BY <1>6 DEF AckTimeoutReplyAgain
    <2> HIDE DEF n
    <2>2. /\ s.st = serviceq[k].st
          /\ s.req = r
          /\ s.replied = serviceq[k].replied
          /\ s.acked = serviceq[k].acked
      BY <1>2, <2>1 DEF ServiceType, SendRep
    <2> HIDE DEF s
    <2>3. serviceq'[k] = s /\ serviceq[k].replied
      BY <2>1 DEF ClientTypeOK, HandshakeInv
    <2>4. Honest(ClientPkt("P_REP", r, k))'
      BY <2>2, <2>3 DEF Honest, ClientPkt
    <2>5. Send("P_REP", k, r)
      BY <1>6 DEF AckTimeoutReplyAgain
    <2>6. \E p : toServer' = Put(toServer, p) /\ Honest(p)'
      BY <2>2, <2>3, <2>4, <2>5 DEF Send
    <2> QED
      BY <1>1, <2>1, <2>2, <2>3, <2>6, OneServiceHandshake
  <1> QED
    BY <1>3, <1>4, <1>5, <1>6 DEF Service

(***************************************************************************)
(* The network and the theorem.                                            *)
(***************************************************************************)

\* Loss and duplication put nothing new in flight.
LEMMA NetworkHandshake ==
  ASSUME TypeOK, ClientTypeOK, HandshakeInv, Lose \/ Duplicate
  PROVE  HandshakeInv'
  <1>1. proto' = proto /\ serviceq' = serviceq
    BY DEF Lose, Duplicate
  <1>2. OutcomesKept /\ ServicesKept
    BY <1>1 DEF OutcomesKept, ServicesKept
  <1>3. \A m \in ClientPkts : InFlight(toServer', m) => InFlight(toServer, m)
    BY InFlightAfter DEF Lose, Duplicate, TypeOK
  <1>4. \A m \in ServerPkts : InFlight(toClient', m) => InFlight(toClient, m)
    BY InFlightAfter DEF Lose, Duplicate, TypeOK
  <1>5. \A k \in Runs :
           /\ serviceq'[k].st = "s_ackwait" => serviceq'[k].replied
           /\ serviceq'[k].st = "unused" =>
                 ~ serviceq'[k].replied /\ ~ serviceq'[k].acked
    BY <1>1 DEF HandshakeInv
  <1> QED
    BY <1>1, <1>2, <1>3, <1>4, <1>5, HandshakeKept

\* What protocol.c and amandad.c tell each other is true when it arrives, for
\* every number of requests, runs, tries and copies in flight.
THEOREM Handshake == NetSpec => []HandshakeInv
  <1>1. NetInit => HandshakeInv
    <2> SUFFICES ASSUME NetInit PROVE HandshakeInv
      OBVIOUS
    <2>1. /\ \A m \in ClientPkts : ~ InFlight(toServer, m)
          /\ \A m \in ServerPkts : ~ InFlight(toClient, m)
      BY DEF NetInit, Init, InFlight
    <2>2. \A k \in Runs : /\ serviceq[k].st = "unused"
                           /\ ~ serviceq[k].replied
                           /\ ~ serviceq[k].acked
      BY DEF NetInit, ClientInit, NoService
    <2>3. \A r \in Requests : proto[r].outcome = "none"
      BY DEF NetInit, Init
    <2> QED
      BY <2>1, <2>2, <2>3 DEF HandshakeInv, GenuineReply, AckedMeansConcluded
  <1>2. TypeOK /\ Inv /\ ClientTypeOK /\ HandshakeInv /\ [NetNext]_netVars
           => HandshakeInv'
    <2> SUFFICES ASSUME TypeOK, Inv, ClientTypeOK, HandshakeInv,
                        [NetNext]_netVars
                 PROVE  HandshakeInv'
      OBVIOUS
    <2>1. CASE ServerStep
      BY <2>1, ServerHandshake DEF ServerStep
    <2>2. CASE ClientStep
      BY <2>2, AcceptHandshake, DeliverHandshake, ServiceHandshake
         DEF ClientStep, ClientNext
    <2>3. CASE Lose \/ Duplicate
      BY <2>3, NetworkHandshake
    <2>4. CASE UNCHANGED netVars
      BY <2>4 DEF netVars, HandshakeInv, Honest, GenuineReply,
         AckedMeansConcluded, InFlight
    <2> QED
      BY <2>1, <2>2, <2>3, <2>4 DEF NetNext
  <1>3. NetSpec => [](TypeOK /\ Inv)
    BY NetImplementsServer, ProtocolInvariant, PTL
  <1> QED
    BY <1>1, <1>2, <1>3, NetRunsOnce, PTL DEF NetSpec

\* A REP that the server accepts is the whole output of a child that was
\* started for this very request.
THEOREM RepliesGenuine == NetSpec => []GenuineReply
  <1>1. HandshakeInv => GenuineReply
    BY DEF HandshakeInv
  <1> QED
    BY <1>1, Handshake, PTL

\* A request that a service refused leaves nothing running.
THEOREM NaksLeaveNoService == NetSpec => []NakLeavesNoService
  <1>1. HandshakeInv => NakLeavesNoService
    BY DEF HandshakeInv, NakLeavesNoService, Running
  <1> QED
    BY <1>1, Handshake, PTL

\* A service opens its streams only for a server that has its reply.
THEOREM AcksMeanConcluded == NetSpec => []AckedMeansConcluded
  <1>1. HandshakeInv => AckedMeansConcluded
    BY DEF HandshakeInv
  <1> QED
    BY <1>1, Handshake, PTL

-----------------------------------------------------------------------------
(* Pieces of text.                                                         *)

\* The first k tokens of w.
Prefix(w, k) == SubSeq(w, 1, k)

\* strstr, token by token.
Hit(s, i) == s[i] = "I1" /\ s[i + 1] = "I2"

\* t holds the last two tokens of what comes before token k + 1 of w, filled up with "-".
KeepsEnd(t, w, k) ==
    \A j \in 1..2 : t[j] = IF k + j - 2 >= 1 THEN w[k + j - 2] ELSE "-"

\* The next piece, n tokens long.
LEMMA Pieces ==
    ASSUME NEW S, NEW w \in Seq(S), NEW k \in 0..Len(w), NEW n \in 1..(Len(w) - k)
    PROVE  LET p == SubSeq(w, k + 1, k + n)
           IN  p \in Seq(S) /\ Len(p) = n /\ \A j \in 1..n : p[j] = w[k + j]
OBVIOUS

\* The two descriptions of the search agree.
LEMMA OccursIsHit ==
    ASSUME NEW S, NEW s \in Seq(S)
    PROVE  Occurs(s) <=> \E i \in 1..(Len(s) - 1) : Hit(s, i)
<1> SUFFICES ASSUME NEW i \in 1..(Len(s) - 1)
             PROVE  SubSeq(s, i, i + 1) = InfoEnd <=> Hit(s, i)
  BY DEF Occurs
<1> DEFINE u == SubSeq(s, i, i + 1)
<1>1. u \in Seq(S) /\ Len(u) = 2 /\ u[1] = s[i] /\ u[2] = s[i + 1]
  <2>1. /\ i - 1 \in 0..Len(s) /\ 2 \in 1..(Len(s) - (i - 1))
        /\ (i - 1) + 1 = i /\ (i - 1) + 2 = i + 1
    OBVIOUS
  <2>2. u \in Seq(S) /\ Len(u) = 2 /\ \A j \in 1..2 : u[j] = s[(i - 1) + j]
    BY <2>1, Pieces
  <2> HIDE DEF u
  <2>3. u[1] = s[(i - 1) + 1] /\ u[2] = s[(i - 1) + 2]
    <3>1. 1 \in 1..2 /\ 2 \in 1..2
      OBVIOUS
    <3> QED
      BY <2>2, <3>1
  <2> QED
    BY <2>1, <2>2, <2>3
<1>2. InfoEnd \in Seq({"I1", "I2"}) /\ Len(InfoEnd) = 2 /\ InfoEnd[1] = "I1" /\ InfoEnd[2] = "I2"
  BY DEF InfoEnd
<1>3. u = InfoEnd <=> u[1] = InfoEnd[1] /\ u[2] = InfoEnd[2]
  <2> HIDE DEF u
  <2>1. 1..2 = {1, 2}
    OBVIOUS
  <2> QED
    BY <1>1, <1>2, <2>1
<1> QED
  BY <1>1, <1>2, <1>3 DEF Hit

\* What a prefix is made of.
LEMMA Prefixes ==
    ASSUME NEW S, NEW w \in Seq(S), NEW k \in 0..Len(w)
    PROVE  /\ Prefix(w, k) \in Seq(S) /\ Len(Prefix(w, k)) = k
           /\ \A i \in 1..k : Prefix(w, k)[i] = w[i]
BY DEF Prefix

\* A prefix and the next piece are a prefix.
LEMMA PrefixGrows ==
    ASSUME NEW S, NEW w \in Seq(S), NEW k \in 0..Len(w), NEW n \in 1..(Len(w) - k)
    PROVE  Prefix(w, k) \o SubSeq(w, k + 1, k + n) = Prefix(w, k + n)
BY DEF Prefix

\* What the child writes later does not change it.
LEMMA PrefixStays ==
    ASSUME NEW S, NEW w \in Seq(S), NEW k \in 0..Len(w), NEW t \in S
    PROVE  Append(w, t) \in Seq(S) /\ k <= Len(Append(w, t))
           /\ Prefix(Append(w, t), k) = Prefix(w, k)
BY DEF Prefix

\* No text.
LEMMA EmptyText == \A S : <<>> \in Seq(S) /\ Len(<<>>) = 0 /\ Prefix(<<>>, 0) = <<>>
BY DEF Prefix

\* The whole is a prefix.
LEMMA PrefixWhole ==
    ASSUME NEW S, NEW w \in Seq(S)
    PROVE  Prefix(w, Len(w)) = w
BY DEF Prefix

-----------------------------------------------------------------------------
(* The search over pieces.  S is the text there can be, t the end of what was   *)
(* searched before, and w all that was written.                            *)

\* Two pieces of text joined.
LEMMA Joins ==
    ASSUME NEW A, NEW s \in Seq(A), NEW u \in Seq(A)
    PROVE  /\ s \o u \in Seq(A) /\ Len(s \o u) = Len(s) + Len(u)
           /\ \A j \in 1..(Len(s) + Len(u)) :
                (s \o u)[j] = IF j <= Len(s) THEN s[j] ELSE u[j - Len(s)]
OBVIOUS

\* The text c that is searched, with n new tokens, is w from k - 1 on, with "-" before its
\* beginning.
SearchText(c, A, w, k, n) ==
    /\ c \in Seq(A) /\ Len(c) = n + 2
    /\ \A j \in 1..(n + 2) : c[j] = IF k + j - 2 >= 1 THEN w[k + j - 2] ELSE "-"

\* It is what the code joins.
LEMMA Joined ==
    ASSUME NEW S, NEW w \in Seq(S), NEW k \in 0..Len(w), NEW n \in 1..(Len(w) - k),
           NEW A, S \subseteq A, NEW t \in Seq(A), Len(t) = 2, KeepsEnd(t, w, k),
           NEW c, c = t \o SubSeq(w, k + 1, k + n)
    PROVE  SearchText(c, A, w, k, n)
<1> DEFINE piece == SubSeq(w, k + 1, k + n)
<1>0. /\ piece \in Seq(S) /\ Len(piece) = n /\ c = t \o piece
      /\ \A j \in 1..n : piece[j] = w[k + j]
  BY Pieces
<1> HIDE DEF piece
<1>1. PICK p : /\ p \in Seq(S) /\ Len(p) = n /\ c = t \o p
               /\ \A j \in 1..n : p[j] = w[k + j]
  BY <1>0
<1>2. p \in Seq(A)
  BY <1>1
<1>3. /\ t \o p \in Seq(A) /\ Len(t \o p) = Len(t) + Len(p)
      /\ \A j \in 1..(Len(t) + Len(p)) :
           (t \o p)[j] = IF j <= Len(t) THEN t[j] ELSE p[j - Len(t)]
  BY <1>2, Joins
<1>4. Len(t) + Len(p) = n + 2
  BY <1>1
<1>5. /\ c \in Seq(A) /\ Len(c) = n + 2
      /\ \A j \in 1..(n + 2) : c[j] = IF j <= 2 THEN t[j] ELSE p[j - 2]
  BY <1>1, <1>3, <1>4, Zenon
<1>6. \A j \in 1..2 : t[j] = IF k + j - 2 >= 1 THEN w[k + j - 2] ELSE "-"
  BY DEF KeepsEnd
<1>7. ASSUME NEW j \in 1..(n + 2)
      PROVE  c[j] = IF k + j - 2 >= 1 THEN w[k + j - 2] ELSE "-"
  <2>1. CASE j <= 2
    <3>1. j \in 1..2
      BY <2>1
    <3>2. c[j] = t[j]
      BY <1>5, <2>1, Zenon
    <3> QED
      BY <1>6, <3>1, <3>2
  <2>2. CASE ~ (j <= 2)
    <3>1. j - 2 \in 1..n /\ k + (j - 2) = k + j - 2 /\ k + j - 2 >= 1
      BY <2>2
    <3>2. c[j] = p[j - 2]
      BY <1>5, <2>2
    <3>3. p[j - 2] = w[k + j - 2]
      BY <1>1, <3>1
    <3> QED
      BY <3>1, <3>2, <3>3
  <2> QED
    BY <2>1, <2>2
<1> QED
  BY <1>5, <1>7 DEF SearchText

\* An info end in it is one in w that ends in the new tokens.
LEMMA NewHits ==
    ASSUME NEW S, NEW A, NEW c, NEW w, NEW k \in Nat, NEW n \in Nat \ {0}, SearchText(c, A, w, k, n),
           \A i \in 1..(k - 1) : ~ Hit(w, i)
    PROVE  (\E j \in 1..(n + 1) : Hit(c, j)) <=> (\E i \in 1..(k + n - 1) : Hit(w, i))
<1>0. \A j \in 1..(n + 2) : c[j] = IF k + j - 2 >= 1 THEN w[k + j - 2] ELSE "-"
  BY DEF SearchText
<1>1. ASSUME NEW j \in 1..(n + 1), Hit(c, j) PROVE \E i \in 1..(k + n - 1) : Hit(w, i)
  <2>1. j \in 1..(n + 2) /\ j + 1 \in 1..(n + 2)
    OBVIOUS
  <2>2. c[j] = "I1" /\ c[j + 1] = "I2"
    BY <1>1 DEF Hit
  <2>3. k + j - 2 >= 1
    BY <1>0, <2>1, <2>2
  <2>4. k + j - 2 \in 1..(k + n - 1) /\ k + (j + 1) - 2 = (k + j - 2) + 1 /\ k + (j + 1) - 2 >= 1
    BY <2>3
  <2>5. c[j] = w[k + j - 2] /\ c[j + 1] = w[k + (j + 1) - 2]
    BY <1>0, <2>1, <2>3, <2>4
  <2> QED
    BY <2>2, <2>4, <2>5 DEF Hit
<1>2. ASSUME NEW i \in 1..(k + n - 1), Hit(w, i) PROVE \E j \in 1..(n + 1) : Hit(c, j)
  <2>1. i >= k
    BY <1>2
  <2> DEFINE j == i - k + 2
  <2>2. /\ j \in 1..(n + 1) /\ j \in 1..(n + 2) /\ j + 1 \in 1..(n + 2)
        /\ k + j - 2 = i /\ k + (j + 1) - 2 = i + 1 /\ i >= 1
    BY <2>1
  <2> HIDE DEF j
  <2>3. c[j] = w[i] /\ c[j + 1] = w[i + 1]
    BY <1>0, <2>2
  <2> QED
    BY <1>2, <2>2, <2>3 DEF Hit
<1> QED
  BY <1>1, <1>2

\* The search finds the info end in the piece exactly if it ends there.
LEMMA SearchIsExact ==
    ASSUME NEW S, NEW w \in Seq(S), NEW k \in 0..Len(w), NEW n \in 1..(Len(w) - k),
           NEW A, NEW c, SearchText(c, A, w, k, n), ~ Occurs(Prefix(w, k))
    PROVE  Occurs(c) <=> Occurs(Prefix(w, k + n))
<1>1. \A i \in 1..(k - 1) : ~ Hit(w, i)
  <2>1. ~ \E i \in 1..(Len(Prefix(w, k)) - 1) : Hit(Prefix(w, k), i)
    BY OccursIsHit, Prefixes
  <2>2. Len(Prefix(w, k)) = k /\ \A i \in 1..k : Prefix(w, k)[i] = w[i]
    BY Prefixes
  <2> QED
    BY <2>1, <2>2 DEF Hit
<1>2. Occurs(c) <=> \E j \in 1..(n + 1) : Hit(c, j)
  <2>1. c \in Seq(A) /\ Len(c) - 1 = n + 1
    BY DEF SearchText
  <2>2. Occurs(c) <=> \E j \in 1..(Len(c) - 1) : Hit(c, j)
    BY <2>1, OccursIsHit
  <2> QED
    BY <2>1, <2>2
<1>3. k + n \in 0..Len(w)
  OBVIOUS
<1>4. PICK q : /\ q = Prefix(w, k + n) /\ q \in Seq(S) /\ Len(q) = k + n
               /\ \A i \in 1..(k + n) : q[i] = w[i]
  BY <1>3, Prefixes
<1>5. Occurs(q) <=> \E i \in 1..(k + n - 1) : Hit(w, i)
  <2>1. Occurs(q) <=> \E i \in 1..(Len(q) - 1) : Hit(q, i)
    BY <1>4, OccursIsHit
  <2>2. \A i \in 1..(k + n - 1) : Hit(q, i) <=> Hit(w, i)
    BY <1>4 DEF Hit
  <2> QED
    BY <1>4, <2>1, <2>2
<1>6. k \in Nat /\ n \in Nat \ {0}
  OBVIOUS
<1>7. (\E j \in 1..(n + 1) : Hit(c, j)) <=> (\E i \in 1..(k + n - 1) : Hit(w, i))
  BY <1>1, <1>6, NewHits
<1> QED
  BY <1>2, <1>4, <1>5, <1>7

\* The end that is kept is the end of all that was searched.
LEMMA EndIsKept ==
    ASSUME NEW w, NEW k \in Nat, NEW n \in Nat \ {0}, NEW A, NEW c, SearchText(c, A, w, k, n),
           NEW e, e = SubSeq(c, n + 1, n + 2)
    PROVE  e \in Seq(A) /\ Len(e) = 2 /\ KeepsEnd(e, w, k + n)
<1>1. c \in Seq(A) /\ n \in 0..Len(c) /\ 2 \in 1..(Len(c) - n)
  BY DEF SearchText
<1>2. e \in Seq(A) /\ Len(e) = 2 /\ \A j \in 1..2 : e[j] = c[n + j]
  BY <1>1, Pieces
<1>3. ASSUME NEW j \in 1..2
      PROVE  e[j] = IF (k + n) + j - 2 >= 1 THEN w[(k + n) + j - 2] ELSE "-"
  <2>1. n + j \in 1..(n + 2) /\ k + (n + j) - 2 = (k + n) + j - 2
    OBVIOUS
  <2>2. c[n + j] = IF k + (n + j) - 2 >= 1 THEN w[k + (n + j) - 2] ELSE "-"
    BY <2>1 DEF SearchText
  <2>3. e[j] = c[n + j]
    BY <1>2
  <2> QED
    BY <2>1, <2>2, <2>3
<1> QED
  BY <1>2, <1>3 DEF KeepsEnd

\* More text does not undo an info end, nor move the end that was kept.
LEMMA OccursStays ==
    ASSUME NEW S, NEW w \in Seq(S), NEW k \in 0..Len(w), NEW n \in 0..(Len(w) - k),
           Occurs(Prefix(w, k))
    PROVE  Occurs(Prefix(w, k + n))
<1>1. /\ Prefix(w, k) \in Seq(S) /\ Len(Prefix(w, k)) = k
      /\ \A i \in 1..k : Prefix(w, k)[i] = w[i]
  BY Prefixes
<1>2. /\ Prefix(w, k + n) \in Seq(S) /\ Len(Prefix(w, k + n)) = k + n
      /\ \A i \in 1..(k + n) : Prefix(w, k + n)[i] = w[i]
  BY Prefixes
<1>3. PICK i \in 1..(Len(Prefix(w, k)) - 1) : Hit(Prefix(w, k), i)
  BY <1>1, OccursIsHit
<1>4. i \in 1..(Len(Prefix(w, k + n)) - 1) /\ Hit(Prefix(w, k + n), i)
  BY <1>1, <1>2, <1>3 DEF Hit
<1> QED
  BY <1>2, <1>4, OccursIsHit

LEMMA EndStays ==
    ASSUME NEW S, NEW w \in Seq(S), NEW k \in 0..Len(w), NEW x \in S, NEW t, KeepsEnd(t, w, k)
    PROVE  KeepsEnd(t, Append(w, x), k)
BY DEF KeepsEnd

-----------------------------------------------------------------------------
(* The inductive invariant.                                                *)

\* written and relayed are functions on the pipes.
PipeTypes ==
    /\ written = [f \in Fds |-> written[f]]
    /\ relayed = [f \in Fds |-> relayed[f]]

\* What was relayed is a prefix of what was written.
Relaying ==
    \A f \in Fds : /\ Len(relayed[f]) <= Len(written[f])
                   /\ relayed[f] = Prefix(written[f], Len(relayed[f]))

\* Until the info end is seen, info_end_buf holds the end of what was relayed.
Searching ==
    Sendbackup => /\ seen <=> Occurs(relayed[Mesg])
                  /\ ~ seen => KeepsEnd(tail, written[Mesg], Len(relayed[Mesg]))

\* Until then the dump is not read.
Gated ==
    Sendbackup /\ ~ seen => Data \notin evread /\ relayed[Data] = <<>>

\* A stream that was open and is closed, and none broke, had come to its end.
Ended ==
    /\ ~ broken => \A f \in opened \ netfd :
                     f \in closed /\ Len(relayed[f]) = Len(written[f])
    /\ st = "deleted" => netfd = {}

StreamsInv ==
    StreamsTypeOK /\ PipeTypes /\ Relaying /\ Searching /\ Gated /\ Ended

\* The pipes, and what may be written on them.
LEMMA Pipes ==
    /\ Data \in Fds /\ Mesg \in Fds /\ Data # Mesg
    /\ "-" \notin Tokens[Mesg] /\ Tokens[Mesg] = {"I1", "I2", "X"} /\ Tokens[Data] = {"D"}
BY DEF Data, Mesg, Fds, Tokens

\* What is left of a pipe is a number of tokens, and the next piece is the one Relay takes.
LEMMA PipeLengths ==
    ASSUME StreamsInv, NEW f \in Fds
    PROVE  /\ written[f] \in Seq(Tokens[f]) /\ relayed[f] \in Seq(Tokens[f])
           /\ Len(written[f]) \in Nat /\ Len(relayed[f]) \in 0..Len(written[f])
           /\ relayed[f] = Prefix(written[f], Len(relayed[f]))
           /\ Unread(f) = Len(written[f]) - Len(relayed[f])
BY DEF StreamsInv, StreamsTypeOK, Relaying, Unread

LEMMA InitStreams == StreamsInit => StreamsInv
<1> SUFFICES ASSUME StreamsInit PROVE StreamsInv
  OBVIOUS
<1>1. \A f \in Fds : written[f] = <<>> /\ relayed[f] = <<>>
  BY DEF StreamsInit
<1>2. StreamsTypeOK
  <2>1. tail \in Seq({"-"} \cup Tokens[Mesg]) /\ Len(tail) = Len(InfoEnd)
    BY DEF StreamsInit, InfoEnd
  <2>2. seen \in BOOLEAN /\ broken \in BOOLEAN
    BY DEF StreamsInit
  <2>3. opened \subseteq Fds /\ netfd \subseteq Fds /\ evread \subseteq Fds /\ closed \subseteq Fds
        /\ st \in {"waitack", "running", "deleted", "crashed"}
    BY DEF StreamsInit
  <2>4. \A f \in Fds : written[f] \in Seq(Tokens[f]) /\ relayed[f] \in Seq(Tokens[f])
    BY <1>1, EmptyText, Zenon
  <2> QED
    BY <2>1, <2>2, <2>3, <2>4 DEF StreamsTypeOK
<1>3. PipeTypes
  BY DEF StreamsInit, PipeTypes
<1>4. Relaying
  <2>1. 0 <= 0
    OBVIOUS
  <2> QED
    BY <1>1, <2>1, EmptyText, Zenon DEF Relaying
<1>5. Searching
  <2>1. ~ seen /\ tail[1] = "-" /\ tail[2] = "-" /\ Len(relayed[Mesg]) = 0 /\ relayed[Mesg] = <<>>
    BY <1>1, Pipes DEF StreamsInit
  <2>2. ~ Occurs(<<>>)
    BY DEF Occurs
  <2>3. KeepsEnd(tail, written[Mesg], 0)
    BY <2>1 DEF KeepsEnd
  <2> QED
    BY <2>1, <2>2, <2>3 DEF Searching
<1>6. Gated /\ Ended
  BY <1>1, Pipes DEF StreamsInit, Gated, Ended
<1> QED
  BY <1>2, <1>3, <1>4, <1>5, <1>6 DEF StreamsInv

\* The child writes one more token.
LEMMA ChildWritesInv ==
    ASSUME StreamsInv, NEW f \in Fds, NEW t \in Tokens[f], ChildWrites(f, t)
    PROVE  StreamsInv'
<1>1. /\ f \notin closed
      /\ UNCHANGED <<opened, netfd, evread, seen, tail, st, broken, closed, relayed>>
  BY DEF ChildWrites
<1>2. /\ written' = [written EXCEPT ![f] = Append(written[f], t)]
      /\ written = [g \in Fds |-> written[g]]
  BY DEF ChildWrites, StreamsInv, PipeTypes
<1>3. /\ written' = [g \in Fds |-> written'[g]] /\ written'[f] = Append(written[f], t)
      /\ \A g \in Fds : g # f => written'[g] = written[g]
  BY <1>2
<1>4. PipeTypes'
  BY <1>1, <1>3 DEF StreamsInv, PipeTypes
<1> DEFINE w == written[f]
           k == Len(relayed[f])
<1>11. w \in Seq(Tokens[f]) /\ k \in 0..Len(w)
  BY PipeLengths
<1>12. /\ Append(w, t) \in Seq(Tokens[f]) /\ k <= Len(Append(w, t))
      /\ Prefix(Append(w, t), k) = Prefix(w, k)
  <2> HIDE DEF w, k
  <2> QED
    BY <1>11, PrefixStays
<1>5. StreamsTypeOK'
  <2>1. \A g \in Fds : written'[g] \in Seq(Tokens[g])
    BY <1>3, <1>12, PipeLengths
  <2> QED
    BY <1>1, <2>1 DEF StreamsInv, StreamsTypeOK
<1>6. \A g \in Fds : /\ Len(relayed[g]) <= Len(written'[g])
                     /\ Prefix(written'[g], Len(relayed[g])) = Prefix(written[g], Len(relayed[g]))
  <2>1. /\ Len(relayed[f]) <= Len(written'[f])
        /\ Prefix(written'[f], Len(relayed[f])) = Prefix(written[f], Len(relayed[f]))
    BY <1>3, <1>12
  <2> QED
    BY <1>3, <2>1 DEF StreamsInv, Relaying
<1>7. Relaying'
  BY <1>1, <1>6 DEF StreamsInv, Relaying
<1>8. Searching'
  <2>1. ASSUME Sendbackup, ~ seen
        PROVE  KeepsEnd(tail, written'[Mesg], Len(relayed[Mesg]))
    <3>1. KeepsEnd(tail, written[Mesg], Len(relayed[Mesg]))
      BY <2>1 DEF StreamsInv, Searching
    <3>2. CASE f = Mesg
      <4>1. KeepsEnd(tail, w, k)
        BY <3>1, <3>2
      <4>2. KeepsEnd(tail, Append(w, t), k)
        <5> HIDE DEF w, k
        <5> QED
          BY <1>11, <4>1, EndStays
      <4> QED
        BY <1>3, <3>2, <4>2
    <3>3. CASE f # Mesg
      BY <1>3, <3>1, <3>3, Pipes
    <3> QED
      BY <3>2, <3>3
  <2> QED
    BY <1>1, <2>1 DEF StreamsInv, Searching
<1>9. Gated'
  BY <1>1 DEF StreamsInv, Gated
<1>10. Ended'
  <2>1. \A g \in closed : g \in Fds /\ written'[g] = written[g]
    BY <1>1, <1>3 DEF StreamsInv, StreamsTypeOK
  <2> QED
    BY <1>1, <2>1 DEF StreamsInv, Ended
<1> QED
  BY <1>4, <1>5, <1>7, <1>8, <1>9, <1>10 DEF StreamsInv

\* Nothing was read or written: only the sets and the state of the service change.
LEMMA SameText ==
    ASSUME StreamsInv, UNCHANGED <<seen, tail, written, relayed>>
    PROVE  PipeTypes' /\ Relaying' /\ Searching'
BY DEF StreamsInv, PipeTypes, Relaying, Searching

LEMMA ChildClosesInv ==
    ASSUME StreamsInv, NEW fs \in SUBSET Fds, ChildCloses(fs)
    PROVE  StreamsInv'
<1>1. /\ closed' = closed \cup fs
      /\ UNCHANGED <<opened, netfd, evread, seen, tail, st, broken, written, relayed>>
  BY DEF ChildCloses
<1>2. StreamsTypeOK' /\ Gated' /\ Ended'
  BY <1>1 DEF StreamsInv, StreamsTypeOK, Gated, Ended
<1> QED
  BY <1>1, <1>2, SameText DEF StreamsInv

LEMMA OpenStreamsInv ==
    ASSUME StreamsInv, NEW failed \in SUBSET Fds, OpenStreams(failed)
    PROVE  StreamsInv'
<1>1. /\ netfd' = netfd \ failed /\ opened' = netfd'
      /\ evread' = netfd' \ (IF Sendbackup THEN {Data} ELSE {})
      /\ st' = IF netfd' = {} THEN "deleted" ELSE "running"
      /\ UNCHANGED <<seen, tail, broken, written, closed, relayed>>
  BY DEF OpenStreams
<1>2. StreamsTypeOK'
  BY <1>1 DEF StreamsInv, StreamsTypeOK
<1>3. Gated' /\ Ended'
  BY <1>1 DEF StreamsInv, Gated, Ended
<1> QED
  BY <1>1, <1>2, <1>3, SameText DEF StreamsInv

LEMMA StreamBreaksInv ==
    ASSUME StreamsInv, NEW f \in Fds, StreamBreaks(f)
    PROVE  StreamsInv'
<1>1. /\ broken' = TRUE /\ st' = "deleted" /\ netfd' = {} /\ evread' = {}
      /\ UNCHANGED <<opened, seen, tail, written, closed, relayed>>
  BY DEF StreamBreaks
<1>2. StreamsTypeOK'
  BY <1>1 DEF StreamsInv, StreamsTypeOK
<1>3. Gated' /\ Ended'
  BY <1>1 DEF StreamsInv, Gated, Ended
<1> QED
  BY <1>1, <1>2, <1>3, SameText DEF StreamsInv

\* A pipe ends only when all of it was relayed, and is closed for good.
LEMMA PipeEndsInv ==
    ASSUME StreamsInv, NEW f \in Fds, PipeEnds(f)
    PROVE  StreamsInv'
<1>1. /\ f \in closed /\ Unread(f) = 0 /\ evread' = evread \ {f} /\ netfd' = netfd \ {f}
      /\ st = "running" /\ st' = IF netfd' = {} THEN "deleted" ELSE st
      /\ UNCHANGED <<opened, seen, tail, broken, written, closed, relayed>>
  BY DEF PipeEnds, Readable
<1>2. StreamsTypeOK'
  <2>1. st' \in {"running", "deleted"}
    BY <1>1
  <2> QED
    BY <1>1, <2>1 DEF StreamsInv, StreamsTypeOK
<1>3. Len(relayed[f]) = Len(written[f])
  <2>1. /\ Len(written[f]) \in Nat /\ Len(relayed[f]) \in 0..Len(written[f])
        /\ Len(written[f]) - Len(relayed[f]) = 0
    BY <1>1, PipeLengths
  <2>2. \A a \in Nat : \A b \in 0..a : a - b = 0 => b = a
    OBVIOUS
  <2> QED
    BY <2>1, <2>2
<1>4. Gated' /\ Ended'
  BY <1>1, <1>3 DEF StreamsInv, Gated, Ended
<1> QED
  BY <1>1, <1>2, <1>4, SameText DEF StreamsInv

LEMMA NullStreamInv ==
    ASSUME StreamsInv, NEW f \in Fds, NullStream(f)
    PROVE  StreamsInv'
<1>1. /\ st' = "crashed"
      /\ UNCHANGED <<opened, netfd, evread, seen, tail, broken, written, closed, relayed>>
  BY DEF NullStream
<1>2. StreamsTypeOK' /\ Gated' /\ Ended'
  BY <1>1 DEF StreamsInv, StreamsTypeOK, Gated, Ended
<1> QED
  BY <1>1, <1>2, SameText DEF StreamsInv

\* process_readnetfd relays a piece, and searches it while it has to.
LEMMA RelayInv ==
    ASSUME StreamsInv, NEW f \in Fds, NEW n \in 1..Unread(f), Relay(f, n)
    PROVE  StreamsInv'
<1> DEFINE w == written[f]
           k == Len(relayed[f])
<1>1. /\ st = "running" /\ f \in evread /\ f \in netfd
      /\ seen' = IF Searches(f) THEN Occurs(Combined(f, n)) ELSE seen
      /\ evread' = evread \cup (IF ~ seen /\ seen' THEN {Data} ELSE {})
      /\ UNCHANGED <<opened, netfd, st, broken, written, closed>>
  BY DEF Relay, Readable
<1>2. /\ w \in Seq(Tokens[f]) /\ k \in 0..Len(w) /\ n \in 1..(Len(w) - k)
      /\ relayed[f] = Prefix(w, k) /\ Len(w) \in Nat
  BY PipeLengths
<1>3. /\ relayed' = [relayed EXCEPT ![f] = relayed[f] \o Piece(f, n)]
      /\ relayed = [g \in Fds |-> relayed[g]]
  BY DEF Relay, StreamsInv, PipeTypes
<1>4. Piece(f, n) = SubSeq(w, k + 1, k + n)
  BY DEF Piece
<1>5. /\ relayed' = [g \in Fds |-> relayed'[g]] /\ relayed'[f] = Prefix(w, k + n)
      /\ \A g \in Fds : g # f => relayed'[g] = relayed[g]
  <2>1. relayed'[f] = relayed[f] \o SubSeq(w, k + 1, k + n)
    BY <1>3, <1>4
  <2>2. Prefix(w, k) \o SubSeq(w, k + 1, k + n) = Prefix(w, k + n)
    <3> HIDE DEF w, k
    <3> QED
      BY <1>2, PrefixGrows
  <2>3. relayed'[f] = Prefix(w, k + n)
    BY <1>2, <2>1, <2>2
  <2> QED
    BY <1>3, <2>3
<1>6. /\ Prefix(w, k + n) \in Seq(Tokens[f]) /\ Len(Prefix(w, k + n)) = k + n
      /\ k + n \in 0..Len(w)
  <2> HIDE DEF w, k
  <2>1. k + n \in 0..Len(w)
    BY <1>2
  <2> QED
    BY <1>2, <2>1, Prefixes
<1>7. PipeTypes'
  BY <1>1, <1>5 DEF StreamsInv, PipeTypes
<1>8. Relaying'
  <2>1. relayed'[f] = Prefix(written'[f], Len(relayed'[f])) /\ Len(relayed'[f]) <= Len(written'[f])
    BY <1>1, <1>2, <1>5, <1>6
  <2> QED
    BY <1>1, <1>5, <2>1 DEF StreamsInv, Relaying
<1>9. Ended'
  BY <1>1, <1>5 DEF StreamsInv, Ended, StreamsTypeOK
<1>10. \A g \in Fds : relayed'[g] \in Seq(Tokens[g])
  BY <1>5, <1>6, PipeLengths
<1>11. tail \in Seq({"-"} \cup Tokens[Mesg]) /\ Len(tail) = 2 /\ seen \in BOOLEAN
  BY DEF StreamsInv, StreamsTypeOK, InfoEnd
<1>12. CASE Searches(f)
  <2>1. Sendbackup /\ ~ seen /\ f = Mesg
    BY <1>12 DEF Searches
  <2> DEFINE A == {"-"} \cup Tokens[Mesg]
             c == Combined(f, n)
  <2>2. c = tail \o SubSeq(w, k + 1, k + n) /\ tail \in Seq(A) /\ Tokens[f] \subseteq A
    BY <1>4, <1>11, <2>1 DEF Combined
  <2>3. KeepsEnd(tail, w, k) /\ ~ Occurs(Prefix(w, k))
    BY <1>2, <2>1 DEF StreamsInv, Searching
  <2>4. seen' = Occurs(c) /\ tail' = SubSeq(c, n + 1, n + 2)
    BY <1>1, <1>12 DEF Relay, InfoEnd
  <2> HIDE DEF w, k, c, A
  <2>5. SearchText(c, A, w, k, n)
    BY <1>2, <1>11, <2>2, <2>3, Joined
  <2>6. Occurs(c) <=> Occurs(Prefix(w, k + n))
    BY <1>2, <2>3, <2>5, SearchIsExact
  <2>7. k \in Nat /\ n \in Nat \ {0}
    BY <1>2
  <2>8. tail' \in Seq(A) /\ Len(tail') = 2 /\ KeepsEnd(tail', w, k + n)
    BY <2>4, <2>5, <2>7, EndIsKept
  <2>9. Searching'
    BY <1>1, <1>5, <1>6, <2>1, <2>4, <2>6, <2>8 DEF Searching, w
  <2>10. Gated'
    <3>1. Data \notin evread /\ relayed[Data] = <<>> /\ f # Data
      BY <2>1, Pipes DEF StreamsInv, Gated
    <3> QED
      BY <1>1, <1>5, <3>1, Pipes DEF Gated
  <2>11. StreamsTypeOK'
    <3>1. seen' \in BOOLEAN
      BY <2>4 DEF Occurs
    <3>2. evread' \subseteq Fds
      BY <1>1, Pipes DEF StreamsInv, StreamsTypeOK
    <3>3. tail' \in Seq({"-"} \cup Tokens[Mesg]) /\ Len(tail') = Len(InfoEnd)
      BY <2>8 DEF A, InfoEnd
    <3> QED
      BY <1>1, <1>10, <3>1, <3>2, <3>3 DEF StreamsInv, StreamsTypeOK
  <2> QED
    BY <1>7, <1>8, <1>9, <2>9, <2>10, <2>11 DEF StreamsInv
<1>13. CASE ~ Searches(f)
  <2>1. seen' = seen /\ tail' = tail /\ evread' = evread
    BY <1>1, <1>13 DEF Relay
  <2>2. StreamsTypeOK'
    BY <1>1, <1>10, <2>1 DEF StreamsInv, StreamsTypeOK
  <2>3. Gated'
    <3>1. ASSUME Sendbackup, ~ seen PROVE f # Data
      BY <1>1, <3>1 DEF StreamsInv, Gated
    <3> QED
      BY <1>5, <2>1, <3>1, Pipes DEF StreamsInv, Gated
  <2>4. Searching'
    <3> SUFFICES ASSUME Sendbackup PROVE Searching'
      BY DEF Searching
    <3>1. CASE f # Mesg
      BY <1>1, <1>5, <2>1, <3>1, Pipes DEF StreamsInv, Searching
    <3>2. CASE f = Mesg
      <4>1. seen
        BY <1>13, <3>2 DEF Searches
      <4>2. Occurs(Prefix(w, k))
        BY <1>2, <3>2, <4>1 DEF StreamsInv, Searching
      <4>3. Occurs(Prefix(w, k + n))
        <5> HIDE DEF w, k
        <5>1. n \in 0..(Len(w) - k)
          BY <1>2
        <5> QED
          BY <1>2, <4>2, <5>1, OccursStays
      <4> QED
        BY <1>5, <2>1, <3>2, <4>1, <4>3 DEF Searching
    <3> QED
      BY <3>1, <3>2
  <2> QED
    BY <1>7, <1>8, <1>9, <2>2, <2>3, <2>4 DEF StreamsInv
<1> QED
  BY <1>12, <1>13

LEMMA NextStreams == StreamsInv /\ [StreamsNext]_streamsVars => StreamsInv'
<1> SUFFICES ASSUME StreamsInv, [StreamsNext]_streamsVars PROVE StreamsInv'
  OBVIOUS
<1>1. ASSUME NEW f \in Fds, NEW t \in Tokens[f], ChildWrites(f, t) PROVE StreamsInv'
  BY <1>1, ChildWritesInv
<1>2. ASSUME NEW fs \in SUBSET Fds, ChildCloses(fs) PROVE StreamsInv'
  BY <1>2, ChildClosesInv
<1>3. ASSUME NEW failed \in SUBSET Fds, OpenStreams(failed) PROVE StreamsInv'
  BY <1>3, OpenStreamsInv
<1>4. ASSUME NEW f \in Fds, NEW n \in 1..Unread(f), Relay(f, n) PROVE StreamsInv'
  BY <1>4, RelayInv
<1>5. ASSUME NEW f \in Fds, StreamBreaks(f) \/ PipeEnds(f) \/ NullStream(f) PROVE StreamsInv'
  BY <1>5, StreamBreaksInv, PipeEndsInv, NullStreamInv
<1>6. CASE UNCHANGED streamsVars
  <2>1. UNCHANGED <<seen, tail, written, relayed>>
    BY <1>6 DEF streamsVars
  <2>2. StreamsTypeOK' /\ Gated' /\ Ended'
    BY <1>6 DEF streamsVars, StreamsInv, StreamsTypeOK, Gated, Ended
  <2> QED
    BY <2>1, <2>2, SameText DEF StreamsInv
<1> QED
  BY <1>1, <1>2, <1>3, <1>4, <1>5, <1>6 DEF StreamsNext

-----------------------------------------------------------------------------
(* The theorems.                                                           *)

\* At every step of a service, the relayed messages are a prefix of what the child wrote, the
\* end of them is in info_end_buf, and the data waits for the header (process_readnetfd).
THEOREM StreamsInvariant == StreamsSpec => []StreamsInv
<1> QED
  BY InitStreams, NextStreams, PTL DEF StreamsSpec

\* The variables of a service keep their types, info_end_buf its size among them.
THEOREM StreamsTypeCorrect == StreamsSpec => []StreamsTypeOK
<1>1. StreamsInv => StreamsTypeOK
  BY DEF StreamsInv
<1> QED
  BY <1>1, StreamsInvariant, PTL

\* However the messages of the child are cut into pieces, process_readnetfd sets
\* seen_info_end exactly when the info end has been relayed.
THEOREM StreamsSearchComplete == StreamsSpec => []SearchComplete
<1>1. StreamsInv => SearchComplete
  BY DEF StreamsInv, Searching, SearchComplete
<1> QED
  BY <1>1, StreamsInvariant, PTL

\* Nothing goes to the data stream of sendbackup before the whole header has gone to the
\* message stream.
THEOREM StreamsHeaderFirst == StreamsSpec => []HeaderFirst
<1>1. StreamsInv => HeaderFirst
  BY DEF StreamsInv, Searching, Gated, HeaderFirst
<1> QED
  BY <1>1, StreamsInvariant, PTL

\* A service that was deleted because its pipes ended has relayed all that the child wrote.
THEOREM StreamsNothingLost == StreamsSpec => []NothingLost
<1>1. StreamsInv => NothingLost
  <2> SUFFICES ASSUME StreamsInv, st = "deleted", ~ broken, NEW f \in opened
               PROVE  relayed[f] = written[f]
    BY DEF NothingLost
  <2>1. f \in Fds /\ Len(relayed[f]) = Len(written[f])
    BY DEF StreamsInv, Ended, StreamsTypeOK
  <2>2. relayed[f] = Prefix(written[f], Len(written[f])) /\ written[f] \in Seq(Tokens[f])
    BY <2>1, PipeLengths
  <2> QED
    BY <2>2, PrefixWhole
<1> QED
  BY <1>1, StreamsInvariant, PTL
=============================================================================
