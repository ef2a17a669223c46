-------------------------------- MODULE Nsp --------------------------------
(***************************************************************************)
(* The NSP layers of two nodes (class NSP of src/nsp/nsp.cc), the routing  *)
(* layer's datagram service between them, and the applications above.      *)
(* Datagrams are lost and overtake each other; what is sent again arrives  *)
(* twice.  The other implementations that the code caters for (VMS, RSX)   *)
(* may ask for flow control, delay acknowledgements, send negative ones    *)
(* and repeat their link service messages: conf.foreign.                   *)
(***************************************************************************)
EXTENDS NspTables, Bags, SequencesExt

CONSTANTS Confs,      \* the situations examined; see MCNsp
          MaxNet      \* bound: packets the network holds for a node

ASSUME NspAssumption ==
    /\ MaxNet \in Nat
    /\ \A c \in Confs : /\ c.start \in Nat /\ c.sizes \subseteq Nat
                        /\ \A high \in c.highs : \A i \in 1 .. MaxConns : high[i] \in Nat

VARIABLES
    conf,    \* the situation, fixed from the start
    nsp,     \* each node's tables: by_addr_ (conns), by_remote_, free_ids_
             \* and the connections closed (the history of closed_)
    net,     \* packets under way to each node
    used     \* how often each input has been given

vars == <<conf, nsp, net, used>>

Nodes == {"A", "B"}
Peer(n) == IF n = "A" THEN "B" ELSE "A"
Inputs == {"connect", "message", "interrupt", "service", "loss"}
-----------------------------------------------------------------------------
Open(n, high) ==
    LET t == Fresh(high)
        a == Head(t.free)
    IN  [t EXCEPT !.free = Tail(@),
                  !.byRemote = IF n = "B" THEN Enter(@, a, a) ELSE @,
                  !.conns = Enter(@, a, OldLink(a, a, conf.start,
                                                IF n = "A" THEN conf.flow ELSE "none"))]

Init ==
    /\ conf \in Confs
    /\ \E high \in conf.highs :
        nsp = [n \in Nodes |-> IF conf.open THEN Open(n, high) ELSE Fresh(high)]
    /\ net = [n \in Nodes |-> EmptyBag]
    /\ used = [k \in Inputs |-> 0]

(* The network takes what it has room for and loses the rest.               *)
Room(bag) == IF MaxNet > BagCardinality(bag) THEN MaxNet - BagCardinality(bag) ELSE 0

Carry(bag, msgs) ==
    LET sent == SubSeq(msgs, 1, Min({Len(msgs), Room(bag)})) IN
    bag (+) [m \in Range(sent) |-> Cardinality({k \in DOMAIN sent : sent[k] = m})]

(* Node n's tables become t, with connection c as its last step left it.    *)
Step(n, t, c, left) ==
    /\ nsp' = [nsp EXCEPT ![n] = Filed(t, c)]
    /\ net' = [left EXCEPT ![Peer(n)] = Carry(@, c.out)]
    /\ UNCHANGED conf

Count(k) ==
    /\ used[k] < conf.max[k]
    /\ used' = [used EXCEPT ![k] = @ + 1]

Conn(n, a) == nsp[n].conns[a]
Links(n) == DOMAIN nsp[n].conns
-----------------------------------------------------------------------------
(* Session control's requests.                                              *)
Connect(n) ==
    /\ Count("connect") /\ n \in conf.callers
    /\ nsp[n].free # <<>>
    /\ LET t == [nsp[n] EXCEPT !.free = Tail(@)] IN
       Step(n, t, StartOutbound(New(Head(nsp[n].free))), net)

AppAccept(n, a) ==
    /\ Conn(n, a).st = "cr"
    /\ Step(n, nsp[n], Accept(Conn(n, a), conf.flow), net)
    /\ UNCHANGED used

AppReject(n, a) ==
    /\ Conn(n, a).st = "cr"
    /\ Step(n, nsp[n], Reject(Conn(n, a)), net)
    /\ UNCHANGED used

AppDisconnect(n, a) ==
    /\ n \in conf.leavers
    /\ Step(n, nsp[n], Disconnect(Conn(n, a)), net)
    /\ UNCHANGED used

AppSend(n, a) ==
    /\ Conn(n, a).st = "run" /\ n \in conf.callers /\ Count("message")
    /\ \E k \in conf.sizes : Step(n, nsp[n], SendData(Conn(n, a), k), net)

AppInterrupt(n, a) ==
    /\ Conn(n, a).st = "run" /\ n \in conf.callers /\ CanInterrupt(Conn(n, a))
    /\ Count("interrupt")
    /\ Step(n, nsp[n], SendInterrupt(Conn(n, a)), net)
-----------------------------------------------------------------------------
(* Timers run out.  With conf.prompt they outlast the network.              *)
Quiet == conf.prompt => \A n \in Nodes : net[n] = EmptyBag

Expire(n, a) ==
    /\ Conn(n, a).timer /\ Quiet
    /\ Step(n, nsp[n], Timeout(Conn(n, a)), net)
    /\ UNCHANGED used

Holdoff(n, a) ==
    /\ Conn(n, a).ackPending
    /\ Step(n, nsp[n], AckHoldoff(Conn(n, a)), net)
    /\ UNCHANGED used
-----------------------------------------------------------------------------
(* deliver: a connect initiate finds its link, or makes one if an address   *)
(* is free; anything else must name a link.  An application may answer in   *)
(* the callback.                                                            *)
Left(n, m) == [net EXCEPT ![n] = @ (-) SetToBag({m})]

Answers(c) ==
    {k \in {c, Accept(c, conf.flow), Reject(c)} : k.st \in conf.answers}

NewLink(n, m) ==
    LET a == Head(nsp[n].free)
        t == [nsp[n] EXCEPT !.free = Tail(@), !.byRemote = Enter(@, m.src, a)]
    IN  \E c \in Answers(StartInbound(New(a), m)) : Step(n, t, c, Left(n, m))

NoResources(n, m) ==
    /\ net' = [Left(n, m) EXCEPT ![Peer(n)] =
                 Carry(@, <<[Pkt(New(0), "dc") EXCEPT !.dst = m.src]>>)]
    /\ UNCHANGED <<conf, nsp>>

DeliverConnect(n, m) ==
    /\ m.kind = "ci"
    /\ CASE m.src \in DOMAIN nsp[n].byRemote ->
              LET a == nsp[n].byRemote[m.src] IN
              Step(n, nsp[n], Receive(Conn(n, a), m), Left(n, m))
         [] m.src \notin DOMAIN nsp[n].byRemote /\ nsp[n].free # <<>> -> NewLink(n, m)
         [] OTHER -> NoResources(n, m)
    /\ UNCHANGED used

(* What a packet for A may be if B is another implementation.               *)
Forms(n, m) ==
    CASE conf.foreign /\ n = "A" /\ m.kind = "data" -> {m, [m EXCEPT !.arg = "dly"]}
      [] conf.foreign /\ n = "A" /\ m.kind = "ack" -> {m, [m EXCEPT !.q = "nak"]}
      [] OTHER -> {m}

DeliverToLink(n, m) ==
    /\ m.kind # "ci" /\ m.dst \in Links(n)
    /\ \E f \in Forms(n, m) : Step(n, nsp[n], Receive(Conn(n, m.dst), f), Left(n, m))
    /\ UNCHANGED used

DeliverUnknown(n, m) ==
    /\ m.kind # "ci" /\ m.dst \notin Links(n)
    /\ net' = Left(n, m)
    /\ UNCHANGED <<conf, nsp, used>>

Lose(n, m) ==
    /\ conf.lossy \/ used["loss"] = 0
    /\ used' = IF conf.lossy THEN used ELSE [used EXCEPT !["loss"] = 1]
    /\ net' = Left(n, m)
    /\ UNCHANGED <<conf, nsp>>
-----------------------------------------------------------------------------
(* Another implementation at B: link service, until it is acknowledged.     *)
LinkService(n, a) ==
    /\ conf.foreign /\ n = "B" /\ Conn(n, a).st = "run" /\ Count("service")
    /\ \E offer \in conf.offers :
        LET c == Conn(n, a)
            m == [Acking(c, Pkt(c, "ls"), "xack") EXCEPT
                    !.seq = c.intSend, !.arg = offer[1], !.credit = offer[2]]
        IN  Step(n, nsp[n], [Send(c, m) EXCEPT !.intTxq = Append(@, OtherEntry(m)),
                                               !.intSend = Plus(@, 1)], net)

ResendOther(n, a) ==
    /\ conf.foreign /\ n = "B" /\ Conn(n, a).intTxq # <<>>
    /\ Step(n, nsp[n], Send(Conn(n, a), Head(Conn(n, a).intTxq).frame), net)
    /\ UNCHANGED used
-----------------------------------------------------------------------------
Next ==
    \E n \in Nodes :
        \/ Connect(n)
        \/ \E a \in Links(n) :
            \/ AppAccept(n, a) \/ AppReject(n, a) \/ AppDisconnect(n, a)
            \/ AppSend(n, a) \/ AppInterrupt(n, a)
            \/ Expire(n, a) \/ Holdoff(n, a)
            \/ LinkService(n, a) \/ ResendOther(n, a)
        \/ \E m \in BagToSet(net[n]) :
            \/ DeliverConnect(n, m) \/ DeliverToLink(n, m) \/ DeliverUnknown(n, m)
            \/ Lose(n, m)

Spec == Init /\ [][Next]_vars

-----------------------------------------------------------------------------
States == {"ci", "cd", "cr", "cc", "run", "di"}

Bounded(c) ==
    /\ c.dst \in Addrs /\ c.nextSend \in Seqs /\ c.nextExpect \in Seqs
    /\ c.intSend \in Seqs /\ c.intExpect \in Seqs
    /\ c.cwnd \in Unit .. Max({2, QMax}) * Unit /\ c.ssthresh \in Nat
    /\ c.retries \in 0 .. Retransmits /\ c.told \in 0 .. 1

(* The tables refer to each other: a link is filed under its own address,   *)
(* and every number is in its range.                                        *)
TypeOK ==
    /\ conf \in Confs
    /\ \A n \in Nodes :
        /\ Links(n) \subseteq Addrs /\ Range(nsp[n].free) \subseteq Addrs
        /\ Range(nsp[n].byRemote) \subseteq Links(n)
        /\ \A a \in Links(n) : /\ Conn(n, a).src = a /\ Conn(n, a).st \in States
                                /\ Bounded(Conn(n, a))
        /\ \A c \in nsp[n].closed : c.told \in 0 .. 1
        /\ BagCardinality(net[n]) <= MaxNet

Live(n) == Range(nsp[n].conns)
All(n) == Live(n) \cup nsp[n].closed
Peers(c, p) == p.src = c.dst /\ p.dst = c.src

(* No link address is given out twice and none is zero (init_ids, get_id,   *)
(* return_id): the free ones and those in use are all different.            *)
UniqueAddresses ==
    \A n \in Nodes :
        LET free == nsp[n].free IN
        /\ Len(free) + Cardinality(Links(n)) = MaxConns
        /\ IsInjective(free)
        /\ Range(free) \cap Links(n) = {} /\ 0 \notin Range(free) \cup Links(n)

(* A running link has another end that names it, also when connect messages *)
(* arrive late or twice; and no two links of a node have the same far end.  *)
LinksPair ==
    \A n \in Nodes :
        /\ \A c \in Live(n) : c.st = "run" => \E p \in All(Peer(n)) : Peers(c, p)
        /\ \A c, d \in Live(n) : c.dst = d.dst /\ c.dst # 0 => c = d

(* The tables of an NSP layer are sound: addresses are unique, and the ends  *)
(* of a running link name each other (connect, start_inbound, cc, close).   *)
LinksMatch == TypeOK /\ UniqueAddresses /\ LinksPair

(* What a link hands up are whole messages, those given to its other end,   *)
(* in order, none twice and none missing; interrupts keep their order too   *)
(* (handle_data, accept_segment, handle_interrupt).                         *)
InOrder ==
    \A n \in Nodes : \A c \in All(n) :
        /\ c.got # <<>> => \E p \in All(Peer(n)) : Peers(c, p) /\ IsPrefix(c.got, p.said)
        /\ \A k \in 1 .. Len(c.gotInt) - 1 : c.gotInt[k] < c.gotInt[k + 1]

(* A segment that process_ack drops from the queue has been taken by the    *)
(* other end.                                                               *)
Taken(c) == Len(FlattenSeq(c.got)) + Len(c.assembly)
Waiting(c) == Cardinality({k \in DOMAIN c.txq : c.txq[k].data})

AckedDelivered ==
    \A n \in Nodes : \A c \in Live(n), p \in All(Peer(n)) :
        c.st = "run" /\ Peers(c, p) => Len(FlattenSeq(c.said)) - Waiting(c) <= Taken(p)

(* Nothing waits that flow control would let go: every change that opens    *)
(* the window or adds credit sends what it can (send_blocked).              *)
NothingIdle == \A n \in Nodes : \A c \in Live(n) : c.st = "run" => Sendable(c) = {}

(* No link waits for ever: one that is being opened or closed, or that has  *)
(* something in flight, has its timer armed, and what is in flight is sent  *)
(* again when it runs out.  With the bound on retries this is why a connect *)
(* or a disconnect always comes to an end, whatever the network does.       *)
AlwaysTimed ==
    \A n \in Nodes : \A c \in Live(n) :
        /\ c.st # "run" \/ InFlight(c) > 0 => c.timer
        /\ c.st \in {"ci", "cc", "run"} /\ InFlight(c) > 0 => c.rexmit

(* Segments held out of order are ahead of the one expected, each once, and *)
(* no more of them than qmax: a late copy of one already taken is not kept  *)
(* to be handed up when the numbers come round again.                       *)
HeldAhead ==
    \A n \in Nodes : \A c \in Live(n) :
        /\ Cardinality(c.ooo) <= QMax
        /\ \A h \in c.ooo : Before(c.nextExpect, h.seq)
        /\ \A g, h \in c.ooo : g.seq = h.seq => g = h

(* Data arrives whole, in order and once, an acknowledgement means that it  *)
(* has arrived, and what is held out of order is really ahead (handle_data, *)
(* accept_segment, process_ack).                                            *)
Delivery == InOrder /\ AckedDelivered /\ HeldAhead

(* A link never gets stuck: it sends what it may, and whatever it waits for *)
(* has the timer behind it (send_blocked, retransmit).                      *)
NeverStuck == NothingIdle /\ AlwaysTimed

(* Session control hears of the end of a link exactly once and not before   *)
(* the end, whichever of disconnect, a timeout, a refusal or the far end    *)
(* ends it (Connection::close), and not at all of a link that it rejected   *)
(* itself.  Of a link that cr rejects on its behalf, see TimeoutTold.       *)
EndTold ==
    \A n \in Nodes :
        /\ \A c \in Live(n) : c.told = 0
        /\ \A c \in nsp[n].closed :
              /\ c.told \in 0 .. 1
              /\ c.why = "rejected" => c.told = 0
              /\ c.why \notin {"rejected", "abandoned"} => c.told = 1

(* "The application took too long.  Reject on its behalf, and tell it the   *)
(* link is gone." (cr, src/nsp/nsp.cc:899-900)                              *)
TimeoutTold == \A n \in Nodes : \A c \in nsp[n].closed : c.why = "abandoned" => c.told = 1

(* A segment is first sent, or sent again from the queue, only with the     *)
(* credit that the far end has given and while it has not said XOFF.        *)
NewlySent(c, d) ==
    {k \in DOMAIN d.txq : /\ d.txq[k].sent /\ d.txq[k].data
                          /\ \A j \in DOMAIN c.txq : c.txq[j].seg = d.txq[k].seg => ~c.txq[j].sent}

WithinCredit(c, d) ==
    \A k \in NewlySent(c, d) :
        /\ c.xon \/ d.xon
        /\ c.flow = "seg" => d.txq[k].seg <= c.maxSeg \/ d.txq[k].seg <= d.maxSeg
        /\ c.flow = "msg" => d.txq[k].msg <= c.maxMsg \/ d.txq[k].msg <= d.maxMsg

CreditRespected ==
    [][\A n \in Nodes : \A a \in Links(n) \cap DOMAIN nsp'[n].conns :
          WithinCredit(Conn(n, a), nsp'[n].conns[a])]_vars
=============================================================================
