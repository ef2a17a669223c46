----------------------------- MODULE Nsp_proof ------------------------------
(***************************************************************************)
(* Proofs about the NSP layers of two nodes, for every number of links for *)
(* which the blocks of addresses are even (EvenBlocks), every modulus,     *)
(* window and retry limit, whatever the applications ask, whatever is      *)
(* lost, delayed and repeated, and whatever packet a link is handed: the   *)
(* proofs assume nothing of what is on the network.                        *)
(*                                                                         *)
(* The invariant is that the tables of both nodes are sound (TablesInv).   *)
(* Every action files at most one link, and LinkStep says what became of   *)
(* it.                                                                     *)
(***************************************************************************)
EXTENDS Nsp, NspLink_proof

(* The invariant.                                                           *)
TablesInv == conf \in Confs /\ DOMAIN nsp = Nodes /\ \A n \in Nodes : TableOK(nsp[n])

-----------------------------------------------------------------------------
(* Steps of the two nodes.                                                  *)
AllSteps ==
    conf' = conf /\ DOMAIN nsp' = Nodes /\ \A n \in Nodes : TableStep(nsp[n], nsp'[n])

(* A step that leaves the tables alone.                                     *)
LEMMA TableStepSelf ==
  ASSUME NEW t, TableOK(t)
  PROVE  TableStep(t, t)
  BY WithinSelf DEF TableStep

(* One node takes a step, the other does not.                               *)
LEMMA NodeStep ==
  ASSUME TablesInv, NEW n \in Nodes, NEW u, TableStep(nsp[n], u),
         nsp' = [nsp EXCEPT ![n] = u], conf' = conf
  PROVE  AllSteps
  <1>1. DOMAIN nsp' = Nodes
    BY DEF TablesInv
  <1>2. ASSUME NEW k \in Nodes
        PROVE  TableStep(nsp[k], nsp'[k])
    <2>1. CASE k = n
      BY <2>1 DEF TablesInv
    <2>2. CASE k # n
      <3>1. nsp'[k] = nsp[k] /\ TableOK(nsp[k])
        BY <2>2 DEF TablesInv
      <3> QED
        BY <3>1, TableStepSelf
    <2> QED
      BY <2>1, <2>2
  <1> QED
    BY <1>1, <1>2 DEF AllSteps

(* Neither node takes a step.                                               *)
LEMMA NothingMoves ==
  ASSUME TablesInv, nsp' = nsp, conf' = conf
  PROVE  AllSteps
  BY TableStepSelf DEF AllSteps, TablesInv

(* A link of node n takes a step.                                           *)
LEMMA LinkMoves ==
  ASSUME TablesInv, NEW n \in Nodes, NEW a \in Links(n), NEW c, LinkStep(Conn(n, a), c),
         NEW left, Step(n, nsp[n], c, left)
  PROVE  AllSteps
  <1> DEFINE t == nsp[n]
             u == Filed(t, c)
  <1>1. TableOK(t) /\ a \in DOMAIN t.conns /\ LinkStep(t.conns[a], c)
    BY DEF TablesInv, Links, Conn
  <1>2. TableStep(t, u)
    BY <1>1, LinkFiled
  <1>3. nsp' = [nsp EXCEPT ![n] = u] /\ conf' = conf
    BY DEF Step
  <1> HIDE DEF u
  <1> QED
    BY Zenon, <1>2, <1>3, NodeStep

(* Every link in the tables is good and is filed under its own address.     *)
LEMMA LinkIsGood ==
  ASSUME TablesInv, NEW n \in Nodes, NEW a \in Links(n)
  PROVE  Good(Conn(n, a)) /\ Conn(n, a).src = a /\ DOMAIN Conn(n, a) = ConnFields
  <1>1. Good(Conn(n, a)) /\ Conn(n, a).src = a
    BY DEF TablesInv, TableOK, Links, Conn
  <1> QED
    BY <1>1, GoodDomain

(* connect files a new link under the first free address.                   *)
LEMMA ConnectMoves ==
  ASSUME TablesInv, NEW n \in Nodes, Connect(n)
  PROVE  AllSteps
  <1> DEFINE t == nsp[n]
             a == Head(t.free)
             c == StartOutbound(New(a))
             v == [t EXCEPT !.free = Tail(@)]
             u == Filed(v, c)
  <1>1. TableOK(t) /\ t.free # <<>> /\ nsp' = [nsp EXCEPT ![n] = u] /\ conf' = conf
    BY DEF TablesInv, Connect, Step
  <1>2. Good(c) /\ c.src = a /\ c.st = "ci" /\ DOMAIN c = ConnFields
    BY StartOutboundFacts
  <1> HIDE DEF c
  <1>3. /\ DOMAIN v = TableFields /\ v.free = Tail(t.free) /\ v.conns = t.conns
        /\ v.closed = t.closed /\ v.byRemote = t.byRemote
    BY <1>1 DEF TableOK, TableFields
  <1> HIDE DEF v
  <1>4. TableStep(t, u)
    <2>1. c.st # "cl"
      BY <1>2
    <2> QED
      BY <1>1, <1>2, <1>3, <2>1, NewFiled
  <1> HIDE DEF u
  <1> QED
    BY Zenon, <1>1, <1>4, NodeStep

(* deliver makes a link for a connect initiate it has not seen, and session *)
(* control may answer at once.                                              *)
LEMMA NewLinkMoves ==
  ASSUME TablesInv, NEW n \in Nodes, NEW m, nsp[n].free # <<>>, NewLink(n, m)
  PROVE  AllSteps
  <1> DEFINE t == nsp[n]
             a == Head(t.free)
             s == StartInbound(New(a), m)
             v == [t EXCEPT !.free = Tail(@), !.byRemote = Enter(@, m.src, a)]
  <1>1. PICK c \in Answers(s) : Step(n, v, c, Left(n, m))
    BY Zenon DEF NewLink
  <1> DEFINE u == Filed(v, c)
  <1>2. TableOK(t) /\ t.free # <<>> /\ nsp' = [nsp EXCEPT ![n] = u] /\ conf' = conf
    BY <1>1 DEF TablesInv, Step
  <1>3. Good(s) /\ s.src = a /\ s.dst = m.src /\ s.st = "cr" /\ DOMAIN s = ConnFields
    BY StartInboundFacts
  <1>4. c = s \/ c = Accept(s, conf.flow) \/ c = Reject(s)
    BY Zenon DEF Answers
  <1> HIDE DEF s
  <1>5. LinkStep(s, c)
    <2>1. LinkStep(s, s)
      BY <1>3, SameSelf, SameLink
    <2>2. LinkStep(s, Accept(s, conf.flow))
      BY <1>3, AcceptLink
    <2>3. LinkStep(s, Reject(s))
      BY <1>3, RejectLink
    <2> QED
      BY <1>4, <2>1, <2>2, <2>3
  <1>6. /\ c.src = a /\ c.dst = m.src /\ c.st \notin {"ci", "cd"} /\ DOMAIN c = ConnFields
        /\ (Good(c) /\ c.st # "cl") \/ Over(c)
    BY <1>3, <1>5, GoodDomain DEF LinkStep, Over
  <1>7. /\ DOMAIN v = TableFields /\ v.free = Tail(t.free) /\ v.conns = t.conns
        /\ v.closed = t.closed /\ v.byRemote = Enter(t.byRemote, c.dst, a)
    BY <1>2, <1>6 DEF TableOK, TableFields
  <1> HIDE DEF v
  <1>8. TableStep(t, u)
    BY <1>2, <1>6, <1>7, NewFiled
  <1> HIDE DEF u
  <1> QED
    BY Zenon, <1>2, <1>8, NodeStep

(* deliver finds the link of a connect initiate that has come before in     *)
(* by_remote_, where every entry is a link of by_addr_.                     *)
LEMMA DeliverConnectMoves ==
  ASSUME TablesInv, NEW n \in Nodes, NEW m, DeliverConnect(n, m)
  PROVE  AllSteps
  <1> DEFINE t == nsp[n]
             a == t.byRemote[m.src]
             P1 == m.src \in DOMAIN t.byRemote
             P2 == m.src \notin DOMAIN t.byRemote /\ t.free # <<>>
             S1 == Step(n, nsp[n], Receive(Conn(n, a), m), Left(n, m))
  <1>1. (P1 /\ S1) \/ (P2 /\ NewLink(n, m)) \/ NoResources(n, m)
    <2>1. (CASE P1 -> S1 [] P2 -> NewLink(n, m) [] OTHER -> NoResources(n, m))
      BY Zenon DEF DeliverConnect
    <2> HIDE DEF S1
    <2> QED
      BY <2>1, Zenon
  <1>2. CASE P1 /\ S1
    <2>1. a \in Links(n)
      BY <1>2 DEF TablesInv, TableOK, Inbound, Links
    <2>2. LinkStep(Conn(n, a), Receive(Conn(n, a), m))
      BY <2>1, LinkIsGood, ReceiveLink
    <2> QED
      BY <1>2, <2>1, <2>2, LinkMoves
  <1>3. CASE P2 /\ NewLink(n, m)
    BY <1>3, NewLinkMoves
  <1>4. CASE NoResources(n, m)
    <2>1. nsp' = nsp /\ conf' = conf
      BY <1>4 DEF NoResources
    <2> QED
      BY <2>1, NothingMoves
  <1> QED
    BY <1>1, <1>2, <1>3, <1>4

(* Every step of either node, whatever it is.                               *)
LEMMA NextMoves ==
  ASSUME TablesInv, [Next]_vars
  PROVE  AllSteps
  <1>1. CASE UNCHANGED vars
    BY <1>1, NothingMoves DEF vars
  <1>2. CASE Next
    <2>1. PICK n \in Nodes :
             \/ Connect(n)
             \/ \E a \in Links(n) :
                 \/ AppAccept(n, a) \/ AppReject(n, a) \/ AppDisconnect(n, a)
                 \/ AppSend(n, a) \/ AppInterrupt(n, a)
                 \/ Expire(n, a) \/ Holdoff(n, a)
                 \/ LinkService(n, a) \/ ResendOther(n, a)
             \/ \E m \in BagToSet(net[n]) :
                 \/ DeliverConnect(n, m) \/ DeliverToLink(n, m) \/ DeliverUnknown(n, m)
                 \/ Lose(n, m)
      BY <1>2, Zenon DEF Next
    <2>2. CASE Connect(n)
      BY <2>2, ConnectMoves
    <2>3. ASSUME NEW a \in Links(n),
                 \/ AppAccept(n, a) \/ AppReject(n, a) \/ AppDisconnect(n, a)
                 \/ AppSend(n, a) \/ AppInterrupt(n, a)
                 \/ Expire(n, a) \/ Holdoff(n, a)
                 \/ LinkService(n, a) \/ ResendOther(n, a)
          PROVE  AllSteps
      <3> DEFINE c == Conn(n, a)
      <3>1. Good(c) /\ DOMAIN c = ConnFields
        BY LinkIsGood
      <3>2. CASE AppAccept(n, a)
        <4>1. c.st = "cr" /\ Step(n, nsp[n], Accept(c, conf.flow), net)
          BY <3>2 DEF AppAccept
        <4> QED
          BY <3>1, <4>1, AcceptLink, LinkMoves
      <3>3. CASE AppReject(n, a)
        <4>1. c.st = "cr" /\ Step(n, nsp[n], Reject(c), net)
          BY <3>3 DEF AppReject
        <4> QED
          BY <3>1, <4>1, RejectLink, LinkMoves
      <3>4. CASE AppDisconnect(n, a)
        <4>1. Step(n, nsp[n], Disconnect(c), net)
          BY <3>4 DEF AppDisconnect
        <4> QED
          BY <3>1, <4>1, DisconnectLink, LinkMoves
      <3>5. CASE AppSend(n, a)
        <4>1. PICK k \in conf.sizes : Step(n, nsp[n], SendData(c, k), net)
          BY <3>5 DEF AppSend
        <4>2. c.st = "run" /\ k \in Nat
          BY <3>5, NspAssumption DEF AppSend, TablesInv
        <4>3. LinkStep(c, SendData(c, k))
          BY <3>1, <4>2, RunLink, SendDataRun
        <4> QED
          BY <4>1, <4>3, LinkMoves
      <3>6. CASE AppInterrupt(n, a)
        <4>1. c.st = "run" /\ Step(n, nsp[n], SendInterrupt(c), net)
          BY <3>6 DEF AppInterrupt
        <4>2. LinkStep(c, SendInterrupt(c))
          BY <3>1, <4>1, RunLink, SendInterruptRun
        <4> QED
          BY <4>1, <4>2, LinkMoves
      <3>7. CASE Expire(n, a)
        <4>1. c.timer /\ Step(n, nsp[n], Timeout(c), net)
          BY <3>7 DEF Expire
        <4> QED
          BY <3>1, <4>1, TimeoutLink, LinkMoves
      <3>8. CASE Holdoff(n, a)
        <4>1. Step(n, nsp[n], SendAck(c), net)
          BY <3>8 DEF Holdoff, AckHoldoff
        <4>2. Same(c, SendAck(c))
          BY Zenon, <3>1, SendSame
        <4> QED
          BY <3>1, <4>1, <4>2, SameLink, LinkMoves
      <3>9. CASE LinkService(n, a)
        <4>1. PICK offer \in conf.offers :
                LET m == [Acking(c, Pkt(c, "ls"), "xack") EXCEPT
                            !.seq = c.intSend, !.arg = offer[1], !.credit = offer[2]]
                IN  Step(n, nsp[n], [Send(c, m) EXCEPT !.intTxq = Append(@, OtherEntry(m)),
                                                       !.intSend = Plus(@, 1)], net)
          BY <3>9, Zenon DEF LinkService
        <4> DEFINE m == [Acking(c, Pkt(c, "ls"), "xack") EXCEPT
                            !.seq = c.intSend, !.arg = offer[1], !.credit = offer[2]]
                   s == Send(c, m)
                   d == [s EXCEPT !.intTxq = Append(@, OtherEntry(m)), !.intSend = Plus(@, 1)]
        <4>2. Step(n, nsp[n], d, net)
          BY <4>1, Zenon
        <4> HIDE DEF m
        <4>3. Same(c, s)
          BY Zenon, <3>1, SendSame
        <4> HIDE DEF s
        <4>4. Same(s, d)
          BY <4>3 DEF Same, ConnFields
        <4> HIDE DEF d
        <4>5. Same(c, d)
          BY <4>3, <4>4 DEF Same
        <4> QED
          BY <3>1, <4>2, <4>5, SameLink, LinkMoves
      <3>10. CASE ResendOther(n, a)
        <4>1. PICK m : Step(n, nsp[n], Send(c, m), net)
          BY <3>10, Zenon DEF ResendOther
        <4>2. Same(c, Send(c, m))
          BY Zenon, <3>1, SendSame
        <4> QED
          BY <3>1, <4>1, <4>2, SameLink, LinkMoves
      <3> QED
        BY <2>3, <3>2, <3>3, <3>4, <3>5, <3>6, <3>7, <3>8, <3>9, <3>10
    <2>4. ASSUME NEW m,
                 \/ DeliverConnect(n, m) \/ DeliverToLink(n, m) \/ DeliverUnknown(n, m)
                 \/ Lose(n, m)
          PROVE  AllSteps
      <3>1. CASE DeliverConnect(n, m)
        BY <3>1, DeliverConnectMoves
      <3>2. CASE DeliverToLink(n, m)
        <4>1. m.dst \in Links(n)
          BY <3>2 DEF DeliverToLink
        <4>2. PICK f \in Forms(n, m) : Step(n, nsp[n], Receive(Conn(n, m.dst), f), Left(n, m))
          BY <3>2, Zenon DEF DeliverToLink
        <4>3. LinkStep(Conn(n, m.dst), Receive(Conn(n, m.dst), f))
          BY <4>1, LinkIsGood, ReceiveLink
        <4> QED
          BY <4>1, <4>2, <4>3, LinkMoves
      <3>3. CASE DeliverUnknown(n, m) \/ Lose(n, m)
        <4>1. nsp' = nsp /\ conf' = conf
          BY <3>3 DEF DeliverUnknown, Lose
        <4> QED
          BY <4>1, NothingMoves
      <3> QED
        BY <2>4, <3>1, <3>2, <3>3
    <2> QED
      BY <2>1, <2>2, <2>3, <2>4
  <1> QED
    BY <1>1, <1>2
-----------------------------------------------------------------------------
(* The tables of a node with a link that has been running for a while.      *)
LEMMA OpenFacts ==
  ASSUME EvenBlocks, NEW n \in Nodes, NEW high, \A i \in 1 .. MaxConns : high[i] \in Nat,
         conf.start \in Nat
  PROVE  TableOK(Open(n, high))
  <1> DEFINE t == Fresh(high)
             a == Head(t.free)
             tl == Tail(t.free)
             flow == IF n = "A" THEN conf.flow ELSE "none"
             c == OldLink(a, a, conf.start, flow)
             br == IF n = "B" THEN Enter(t.byRemote, a, a) ELSE t.byRemote
             cs == Enter(t.conns, a, c)
             u == Open(n, high)
  <1>1. TableOK(t) /\ DOMAIN t.conns = {} /\ t.free # <<>> /\ DOMAIN t = TableFields
    BY FreshFacts DEF TableOK
  <1>2. u = [t EXCEPT !.free = tl, !.byRemote = br, !.conns = cs]
    BY Zenon DEF Open
  <1>3. Good(c) /\ c.src = a /\ c.dst = a /\ c.st = "run"
    BY OldLinkFacts
  <1> HIDE DEF t, c, u, flow
  <1>4. IdsOK(tl, {} \cup {a})
    <2>1. IdsOK(t.free, {})
      BY <1>1 DEF TableOK
    <2> QED
      BY <1>1, <2>1, TakeId
  <1> HIDE DEF a, tl
  <1>5. DOMAIN cs = {a} /\ cs[a] = c
    BY <1>1 DEF Enter
  <1>6. \A x \in DOMAIN br : x = a /\ br[x] = a
    <2>1. DOMAIN t.byRemote = {}
      BY <1>1 DEF TableOK, Inbound
    <2> QED
      BY <2>1 DEF Enter
  <1> HIDE DEF br, cs
  <1>7. DOMAIN u = TableFields /\ u.free = tl /\ u.byRemote = br /\ u.conns = cs /\ u.closed = t.closed
    BY <1>1, <1>2 DEF TableFields
  <1>8. IdsOK(u.free, DOMAIN u.conns)
    <2>1. {} \cup {a} = {a}
      OBVIOUS
    <2> QED
      BY <1>4, <1>5, <1>7, <2>1
  <1>9. \A x \in DOMAIN u.byRemote : Inbound(u, x)
    BY <1>3, <1>5, <1>6, <1>7 DEF Inbound
  <1>10. \A b \in DOMAIN u.conns : Good(u.conns[b]) /\ u.conns[b].src = b
    BY <1>3, <1>5, <1>7
  <1>11. \A e \in u.closed : ClosedOK(e)
    BY <1>1, <1>7 DEF TableOK
  <1>12. TableOK(u)
    BY <1>7, <1>8, <1>9, <1>10, <1>11 DEF TableOK
  <1> QED
    BY <1>12 DEF u

(* The tables are sound at the start.                                       *)
LEMMA InitTables == EvenBlocks /\ Init => TablesInv
  <1> SUFFICES ASSUME EvenBlocks, Init
               PROVE  TablesInv
    OBVIOUS
  <1>1. PICK high \in conf.highs :
          nsp = [n \in Nodes |-> IF conf.open THEN Open(n, high) ELSE Fresh(high)]
    BY Zenon DEF Init
  <1>2. conf \in Confs
    BY Zenon DEF Init
  <1>3. conf.start \in Nat /\ \A i \in 1 .. MaxConns : high[i] \in Nat
    BY <1>1, <1>2, NspAssumption
  <1>4. \A n \in Nodes : TableOK(Open(n, high)) /\ TableOK(Fresh(high))
    BY <1>3, OpenFacts, FreshFacts
  <1>5. DOMAIN nsp = Nodes /\ \A n \in Nodes : TableOK(nsp[n])
    BY <1>1, <1>4
  <1> QED
    BY <1>2, <1>5 DEF TablesInv

(* The tables stay sound.                                                   *)
LEMMA TablesStay == TablesInv /\ [Next]_vars => TablesInv'
  <1> SUFFICES ASSUME TablesInv, [Next]_vars
               PROVE  TablesInv'
    OBVIOUS
  <1>1. AllSteps
    BY NextMoves
  <1> QED
    BY <1>1 DEF AllSteps, TablesInv, TableStep
-----------------------------------------------------------------------------
(* The four results.                                                        *)
LEMMA TablesAlways == EvenBlocks /\ Spec => []TablesInv
  BY InitTables, TablesStay, PTL DEF Spec

(* In sound tables no link is stuck: every link is in a phase that has its  *)
(* timer armed, or runs, sends what it may, and has its timer armed for     *)
(* what is in flight.                                                       *)
LEMMA TablesNeverStuck == TablesInv => NeverStuck
  <1> SUFFICES ASSUME TablesInv, NEW n \in Nodes, NEW c \in Live(n)
               PROVE  /\ c.st = "run" => Sendable(c) = {}
                      /\ c.st # "run" \/ InFlight(c) > 0 => c.timer
                      /\ c.st \in {"ci", "cc", "run"} /\ InFlight(c) > 0 => c.rexmit
    BY DEF NeverStuck, NothingIdle, AlwaysTimed
  <1>1. Good(c)
    BY DEF TablesInv, TableOK, Live, Range
  <1>2. InFlight(c) > 0 <=> Flying(c)
    BY <1>1, InFlightFacts DEF Good, Shape, Queue
  <1>3. Phase(c) /\ (Running(c) => Timed(c) /\ Sendable(c) = {} /\ c.st = "run")
    BY <1>1 DEF Good, Running
  <1>4. c.st = "run" => Running(c)
    BY <1>3 DEF Phase
  <1>5. c.st = "run" \/ c.timer
    BY <1>3 DEF Phase
  <1>6. c.st \in {"ci", "cc"} => c.rexmit
    BY <1>3 DEF Phase
  <1>7. c.st = "run" => Timed(c) /\ Sendable(c) = {}
    BY <1>3, <1>4
  <1>8. c.st = "run" /\ Flying(c) => c.timer /\ c.rexmit
    BY <1>7 DEF Timed
  <1> QED
    BY <1>2, <1>5, <1>6, <1>7, <1>8, Zenon

(* In sound tables no open link has been reported closed, and every closed  *)
(* one has, but those that were rejected.                                   *)
LEMMA TablesEndTold == TablesInv => EndTold
  BY DEF TablesInv, TableOK, EndTold, Live, Range, Good, ClosedOK

(* In sound tables the low parts tell all addresses apart.                  *)
LEMMA TablesUnique == TablesInv => UniqueAddresses
  <1> SUFFICES ASSUME TablesInv, NEW n \in Nodes
               PROVE  /\ Len(nsp[n].free) + Cardinality(Links(n)) = MaxConns
                      /\ IsInjective(nsp[n].free)
                      /\ Range(nsp[n].free) \cap Links(n) = {}
                      /\ 0 \notin Range(nsp[n].free) \cup Links(n)
    BY DEF UniqueAddresses
  <1> DEFINE q == nsp[n].free
             S == Links(n)
  <1>1. IdsOK(q, S)
    BY DEF TablesInv, TableOK, Links
  <1> HIDE DEF q, S
  <1>2. DOMAIN q = 1 .. Len(q)
    BY <1>1, LenProperties DEF IdsOK
  <1>3. IsInjective(q)
    BY <1>1, <1>2 DEF IdsOK, IsInjective
  <1>4. Range(q) \cap S = {}
    BY <1>1, <1>2 DEF IdsOK, Range
  <1>5. Low(0) = 0
    BY TablesAssumption DEF Low, Block
  <1>6. 0 \notin Range(q) \cup S
    BY <1>1, <1>2, <1>5 DEF IdsOK, Range
  <1>7. Len(q) + Cardinality(S) = MaxConns
    BY <1>1 DEF IdsOK
  <1> QED
    BY <1>3, <1>4, <1>6, <1>7 DEF q, S

(* What the proof says of a segment that is sent is what WithinCredit says. *)
LEMMA WithinIsCredit ==
  ASSUME NEW c, NEW d, Listed(c.txq), Listed(d.txq), Within(c, d)
  PROVE  WithinCredit(c, d)
  <1>1. DOMAIN c.txq = 1 .. Len(c.txq) /\ DOMAIN d.txq = 1 .. Len(d.txq)
    BY ListedFacts
  <1>2. ASSUME NEW k \in NewlySent(c, d)
        PROVE  Credit(c, d, d.txq[k])
    <2>1. k \in 1 .. Len(d.txq) /\ d.txq[k].sent /\ d.txq[k].data
      BY <1>1 DEF NewlySent
    <2>2. ~WasSent(c, d.txq[k])
      BY <1>1 DEF NewlySent, WasSent
    <2> QED
      BY <2>1, <2>2 DEF Within
  <1> QED
    BY <1>2 DEF WithinCredit, Credit

(* Every step is within the credit.                                         *)
LEMMA StepRespectsCredit ==
  ASSUME TablesInv, [Next]_vars, NEW n \in Nodes, NEW a \in Links(n) \cap DOMAIN nsp'[n].conns
  PROVE  WithinCredit(Conn(n, a), nsp'[n].conns[a])
  <1>1. TableStep(nsp[n], nsp'[n])
    BY NextMoves DEF AllSteps
  <1>2. Good(nsp[n].conns[a]) /\ Good(nsp'[n].conns[a]) /\ Within(nsp[n].conns[a], nsp'[n].conns[a])
    BY <1>1 DEF TablesInv, TableOK, TableStep, Links
  <1> QED
    BY Zenon, <1>2, WithinIsCredit DEF Good, Shape, Queue, Conn

(* No link ever waits with nothing behind it, for any modulus, window,      *)
(* retry limit, number of links with EvenBlocks, traffic and loss: a running link has sent  *)
(* all that the window and the far end's credit allow (send_blocked is      *)
(* called wherever either grows), and one that is being opened or closed,   *)
(* or has something in flight, has its timer armed with a retransmission    *)
(* behind it (arm_rexmit, process_ack, retransmit).                         *)
THEOREM NeverStuckAlways == EvenBlocks /\ Spec => []NeverStuck
  BY TablesAlways, TablesNeverStuck, PTL

(* Session control hears of the end of a link exactly once, and never       *)
(* before the end, whichever of disconnect, a timeout, a refusal or a       *)
(* disconnect from the far end comes first (Connection::close); of a link   *)
(* that it has rejected it does not hear.  Nothing is said here of a link   *)
(* that cr rejects because the application has not answered: there          *)
(* TimeoutTold, which the comment of cr claims, fails.                      *)
THEOREM EndToldAlways == EvenBlocks /\ Spec => []EndTold
  BY TablesAlways, TablesEndTold, PTL

(* If max-connections plus one divides the address space, as the default of *)
(* 4095 does, link addresses are never given out twice, however often links *)
(* are opened and closed: get_id and return_id keep the low part of an      *)
(* address, of which there is one per link, and no address is zero.  Other  *)
(* values of max-connections are accepted too, and there the property fails *)
(* when addresses wrap.                                                     *)
THEOREM UniqueAddressesAlways == EvenBlocks /\ Spec => []UniqueAddresses
  BY TablesAlways, TablesUnique, PTL

(* No step sends a segment that was not in flight without the credit that   *)
(* the far end has given, or after its XOFF (flow_ok, send_blocked),        *)
(* whatever handler the step is.                                            *)
THEOREM CreditRespectedAlways == EvenBlocks /\ Spec => CreditRespected
  <1>1. TablesInv /\ [Next]_vars =>
          [\A n \in Nodes : \A a \in Links(n) \cap DOMAIN nsp'[n].conns :
             WithinCredit(Conn(n, a), nsp'[n].conns[a])]_vars
    BY StepRespectsCredit
  <1> QED
    BY <1>1, TablesAlways, PTL DEF Spec, CreditRespected
=============================================================================
