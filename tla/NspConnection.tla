--------------------------- MODULE NspConnection ---------------------------
(***************************************************************************)
(* One end of an NSP logical link: class Connection of src/nsp/nsp.cc.     *)
(* A connection is a record and every method that changes it an operator   *)
(* from connection to connection.  What it sends piles up in the field     *)
(* out; the module Nsp puts it on the network at the end of the step.      *)
(*                                                                         *)
(* Both nodes are Phase IV (cphase_ is 4).  Times are left out: a timer is *)
(* armed or not, and may run out whenever it is armed.  A segment's        *)
(* payload is its absolute number, and a message the sequence of those.    *)
(***************************************************************************)
EXTENDS Integers, Sequences, FiniteSets, FiniteSetsExt

CONSTANTS Modulus,      \* of Seq, the sequence numbers: 4096
          QMax,         \* qmax, segments in flight: 20
          Retransmits   \* retransmit_limit: 5

ASSUME ConnectionAssumption ==
    Modulus \in Nat /\ Modulus > 3 /\ QMax \in Nat \ {0} /\ Retransmits \in Nat \ {0}

Seqs == 0 .. Modulus - 1

(* Mod: the next number, and the order of RFC 1982.                         *)
Plus(x, k) == (x + k) % Modulus
MaxDelta == (Modulus - 1) \div 2
Before(x, y) == x # y /\ (y - x) % Modulus <= MaxDelta

(* cwnd_ and ssthresh_ are fractions: they are kept in hundredths.          *)
Unit == 100

NoSeq == -1

New(addr) ==
    [st |-> "s0", src |-> addr, dst |-> 0,
     nextSend |-> 1, nextExpect |-> 1, txq |-> <<>>,
     nextSeg |-> 1, nextMsg |-> 1, maxAcked |-> 0,
     flow |-> "none", maxSeg |-> 0, maxMsg |-> 0, xon |-> TRUE,
     cwnd |-> 2 * Unit, ssthresh |-> QMax * Unit, nakFrom |-> NoSeq,
     ooo |-> {}, ackPending |-> FALSE, assembly |-> <<>>, assembling |-> FALSE,
     intSend |-> 1, intExpect |-> 1, intTxq |-> <<>>, intMsg |-> 1, intMax |-> 1,
     timer |-> FALSE, rexmit |-> FALSE, retries |-> 0, out |-> <<>>,
     \* history: messages given to the link and handed up, interrupts handed
     \* up, ends reported to session control, and how it ended
     said |-> <<>>, got |-> <<>>, gotInt |-> <<>>, told |-> 0, why |-> "open"]
-----------------------------------------------------------------------------
(* Packets.  q says what kind of acknowledgement a packet carries, if any;  *)
(* arg is the flow control asked for, the delay bit or the kind of service. *)
Pkt(c, kind) ==
    [kind |-> kind, dst |-> c.dst, src |-> c.src, seq |-> 0, ack |-> 0, q |-> "no",
     seg |-> 0, bom |-> FALSE, eom |-> FALSE, arg |-> "none", credit |-> 0]

Acking(c, m, q) == [m EXCEPT !.ack = Plus(c.nextExpect, Modulus - 1), !.q = q]

Send(c, m) == [c EXCEPT !.out = Append(@, m)]

ArmRexmit(c) == [c EXCEPT !.timer = TRUE, !.rexmit = TRUE]
ArmOther(c) == [c EXCEPT !.timer = TRUE, !.rexmit = FALSE]

SendAck(c) == Send([c EXCEPT !.ackPending = FALSE], Acking(c, Pkt(c, "ack"), "ack"))

SendDiscConf(c) == Send(c, Pkt(c, "dc"))

(* close: the module Nsp takes a connection in state cl out of its tables.  *)
Close(c, why, tell) ==
    [c EXCEPT !.st = "cl", !.why = why, !.timer = FALSE, !.ackPending = FALSE,
              !.txq = <<>>, !.intTxq = <<>>, !.ooo = {},
              !.told = IF tell THEN @ + 1 ELSE @]

Control(m) == [seq |-> 0, seg |-> 0, msg |-> 0, sent |-> TRUE, data |-> FALSE, frame |-> m]

\* Faulty variant: nothing sends a lost connect message again.
SendControlUntimed(c, m) == [Send(c, m) EXCEPT !.txq = Append(@, Control(m)), !.retries = 0]

(* A connect message: number 0, queued, sent and timed.                     *)
SendControl(c, m) ==
    ArmRexmit([Send(c, m) EXCEPT !.txq = Append(@, Control(m)), !.retries = 0])

StartOutbound(c) == [SendControl(c, Pkt(c, "ci")) EXCEPT !.st = "ci"]

SendAckConn(c) == Send(c, [Pkt(c, "ackconn") EXCEPT !.src = 0])

StartInbound(c, m) ==
    LET k == [c EXCEPT !.dst = m.src, !.flow = m.arg, !.st = "cr"] IN ArmOther(SendAckConn(k))

Accept(c, fcopt) ==
    IF c.st # "cr" THEN c
    ELSE [SendControl(c, [Pkt(c, "cc") EXCEPT !.arg = fcopt]) EXCEPT !.st = "cc"]

(* reject: called by the application, or by cr when the application has not *)
(* answered in time ("abandoned").                                          *)
Refuse(c, why) == Close(Send(c, Pkt(c, "di")), why, FALSE)

Reject(c) == Refuse(c, "rejected")

Disconnect(c) ==
    IF c.st = "cl" THEN c ELSE [ArmOther(Send(c, Pkt(c, "di"))) EXCEPT !.st = "di"]
-----------------------------------------------------------------------------
(* The data subchannel, sending.                                            *)
InFlight(c) == Cardinality({k \in DOMAIN c.txq : c.txq[k].sent})

Window(c) == Max({1, Min({c.cwnd \div Unit, QMax})})

\* Faulty variant: heeds the window only.
FlowOkNoCredit(c, e) == ~e.data \/ e.seg <= c.txq[1].seg + Window(c) - 1

FlowOk(c, e) ==
    \/ ~e.data
    \/ /\ c.xon
       /\ e.seg <= c.txq[1].seg + Window(c) - 1
       /\ c.flow = "seg" => e.seg <= c.maxSeg
       /\ c.flow = "msg" => e.msg <= c.maxMsg

(* send_blocked: everything up to the first entry that may not go.          *)
Sendable(c) ==
    {k \in DOMAIN c.txq : ~c.txq[k].sent
                          /\ \A j \in 1 .. k : c.txq[j].sent \/ FlowOk(c, c.txq[j])}

Frames(c, S) ==
    LET due == SelectSeq([k \in DOMAIN c.txq |-> k], LAMBDA k : k \in S) IN
    [i \in DOMAIN due |-> c.txq[due[i]].frame]

LetGo(q, S) == [k \in DOMAIN q |-> [q[k] EXCEPT !.sent = @ \/ k \in S]]

SendBlocked(c) ==
    LET S == Sendable(c) IN
    IF S = {} THEN c
    ELSE ArmRexmit([c EXCEPT !.out = @ \o Frames(c, S), !.retries = 0,
                             !.txq = LetGo(@, S)])

(* send_segments: a message of n segments.                                  *)
Segment(c, i, n) ==
    [Acking(c, Pkt(c, "data"), "ack") EXCEPT
        !.seq = Plus(c.nextSend, i - 1), !.seg = c.nextSeg + i - 1,
        !.bom = (i = 1), !.eom = (i = n)]

Entry(c, m) ==
    [seq |-> m.seq, seg |-> m.seg, msg |-> c.nextMsg, sent |-> FALSE, data |-> TRUE,
     frame |-> m]

Part(m) == <<m.src, m.seg>>

SendData(c, n) ==
    IF c.st # "run" THEN c
    ELSE LET segs == [i \in 1 .. n |-> Segment(c, i, n)] IN
         SendBlocked([c EXCEPT !.txq = @ \o [i \in 1 .. n |-> Entry(c, segs[i])],
                               !.nextSend = Plus(@, n), !.nextSeg = @ + n, !.nextMsg = @ + 1,
                               !.said = Append(@, [i \in 1 .. n |-> Part(segs[i])])])

\* Faulty variant: takes the number to be the next one expected.
AckedCountNext(c, num) ==
    Max({k \in 0 .. Len(c.txq) :
            \A j \in 1 .. k : c.txq[j].sent /\ ~Before(Plus(num, 1), c.txq[j].seq)})

(* process_ack: drop what is acknowledged, open the window, run the timer   *)
(* while something is in flight, and send what now may go.                  *)
AckedCount(c, num) ==
    Max({k \in 0 .. Len(c.txq) :
            \A j \in 1 .. k : c.txq[j].sent /\ ~Before(num, c.txq[j].seq)})

Opened(c, n) ==
    LET w[k \in 0 .. n] ==
            IF k = 0 THEN c.cwnd
            ELSE IF w[k-1] < c.ssthresh THEN w[k-1] + Unit
            ELSE w[k-1] + (Unit * Unit) \div w[k-1]
    IN  Min({w[n], QMax * Unit})

Acked(c, n) ==
    LET data == Cardinality({k \in 1 .. n : c.txq[k].data}) IN
    [c EXCEPT !.txq = SubSeq(@, n + 1, Len(@)), !.cwnd = Opened(c, data),
              !.maxAcked = IF n > 0 THEN c.txq[n].seg ELSE @,
              !.nakFrom = IF n > 0 THEN NoSeq ELSE @,
              !.retries = IF n > 0 THEN 0 ELSE @]

AckTimed(c, d, n) ==
    CASE n > 0 /\ InFlight(d) > 0 -> ArmRexmit(d)
      [] InFlight(d) = 0 /\ c.rexmit /\ (n > 0 \/ d.txq = <<>>) -> [d EXCEPT !.timer = FALSE]
      [] OTHER -> d

ProcessAck(c, num) ==
    LET n == AckedCount(c, num) IN SendBlocked(AckTimed(c, Acked(c, n), n))

(* What was sent waits to be sent again, but for the entries in keep.       *)
TakeBack(q, keep) ==
    [k \in DOMAIN q |-> [q[k] EXCEPT !.sent = @ /\ (k \in keep \/ ~q[k].data)]]

(* process_nak: send again from the gap, once for each gap.                 *)
Halved(c) == Max({2 * Unit, (InFlight(c) * Unit) \div 2})

ProcessNak(c) ==
    IF c.txq = <<>> \/ ~c.txq[1].sent \/ c.nakFrom = c.txq[1].seq THEN c
    ELSE SendBlocked([c EXCEPT !.nakFrom = c.txq[1].seq,
                               !.ssthresh = Halved(c), !.cwnd = Halved(c),
                               !.txq = TakeBack(@, {})])

ProcessIntAck(c, num) ==
    LET n == Max({k \in 0 .. Len(c.intTxq) : \A j \in 1 .. k : ~Before(num, c.intTxq[j].seq)})
    IN  [c EXCEPT !.intTxq = SubSeq(@, n + 1, Len(@))]

(* route_ack: a cross acknowledgement is about the other subchannel.        *)
RouteAck(c, m, onData) ==
    LET cross == m.q \in {"xack", "xnak"}
        p == ProcessAck(c, m.ack)
    IN  CASE m.q = "no" -> c
          [] m.q # "no" /\ cross = onData -> ProcessIntAck(c, m.ack)
          [] OTHER -> IF m.q \in {"nak", "xnak"} THEN ProcessNak(p) ELSE p

(* retransmit: the oldest goes again now, the rest as the window opens.     *)
Retransmit(c) ==
    LET first == Min({k \in DOMAIN c.txq : c.txq[k].sent}) IN
    CASE InFlight(c) = 0 -> c
      [] InFlight(c) > 0 /\ c.retries + 1 > Retransmits -> Close(c, "unanswered", TRUE)
      [] OTHER ->
            ArmRexmit([Send(c, c.txq[first].frame) EXCEPT
                          !.retries = @ + 1, !.ssthresh = Halved(c), !.cwnd = Unit,
                          !.txq = TakeBack(@, {first})])
-----------------------------------------------------------------------------
(* The data subchannel, receiving.                                          *)
AcceptSegment(c, m) ==
    LET parts == IF m.bom THEN <<Part(m)>> ELSE Append(c.assembly, Part(m)) IN
    CASE ~m.bom /\ ~c.assembling -> c
      [] m.eom /\ (m.bom \/ c.assembling) ->
            [c EXCEPT !.assembly = <<>>, !.assembling = FALSE, !.got = Append(@, parts)]
      [] OTHER -> [c EXCEPT !.assembly = parts, !.assembling = TRUE]

(* The segment, and those held that now follow on.                          *)
Held(c, s) == {h \in c.ooo : h.seq = s}

Following(c, m) ==
    LET n == Max({k \in 0 .. Cardinality(c.ooo) :
                    \A j \in 1 .. k : Held(c, Plus(m.seq, j)) # {}})
    IN  <<m>> \o [j \in 1 .. n |-> CHOOSE h \in c.ooo : h.seq = Plus(m.seq, j)]

AcceptAll(c, segs) ==
    LET after[k \in 0 .. Len(segs)] ==
          IF k = 0 THEN c ELSE AcceptSegment(after[k - 1], segs[k])
    IN  after[Len(segs)]

\* Faulty variant: what was held stays held.
TakeInSequenceKeeps(c, m) ==
    LET segs == Following(c, m) IN
    [AcceptAll(c, segs) EXCEPT !.nextExpect = Plus(@, Len(segs))]

TakeInSequence(c, m) ==
    LET segs == Following(c, m)
        t == AcceptAll(c, segs)
    IN  [c EXCEPT !.assembly = t.assembly, !.assembling = t.assembling, !.got = t.got,
                  !.nextExpect = Plus(@, Len(segs)),
                  !.ooo = @ \ {segs[j] : j \in 1 .. Len(segs)}]

Hold(c, m) ==
    IF Cardinality(c.ooo) < QMax /\ Held(c, m.seq) = {}
    THEN [c EXCEPT !.ooo = @ \cup {m}] ELSE c

\* Faulty variant: takes what is ahead of its turn.
HandleDataAhead(c, m) ==
    LET p == RouteAck(c, m, TRUE) IN
    SendAck(IF Before(m.seq, p.nextExpect) THEN p
            ELSE TakeInSequence([p EXCEPT !.nextExpect = m.seq], m))

HandleData(c, m) ==
    LET p == RouteAck(c, m, TRUE) IN
    CASE Before(m.seq, p.nextExpect) -> SendAck(p)
      [] m.seq = p.nextExpect ->
            LET t == TakeInSequence(p, m) IN
            IF m.arg = "dly" /\ t.st = "run" THEN [t EXCEPT !.ackPending = TRUE] ELSE SendAck(t)
      [] OTHER -> SendAck(Hold(p, m))

AckHoldoff(c) == SendAck(c)
-----------------------------------------------------------------------------
(* The other-data subchannel: interrupts and link service.                  *)
CanInterrupt(c) == c.intMax >= c.intMsg

OtherEntry(m) == [Control(m) EXCEPT !.seq = m.seq]

SendInterrupt(c) ==
    IF c.st # "run" \/ ~CanInterrupt(c) THEN c
    ELSE LET m == [Acking(c, Pkt(c, "int"), "xack") EXCEPT !.seq = c.intSend, !.seg = c.intMsg] IN
         [Send(c, m) EXCEPT !.intTxq = Append(@, OtherEntry(m)),
                            !.intSend = Plus(@, 1), !.intMsg = @ + 1]

(* Acknowledge a number of this subchannel: again, if it has been seen.     *)
SeenOther(c, m) == Before(m.seq, c.intExpect)

AckOther(c, m) ==
    LET d == IF SeenOther(c, m) THEN c ELSE [c EXCEPT !.intExpect = Plus(m.seq, 1)] IN
    Send(d, [Pkt(d, "ackother") EXCEPT !.ack = Plus(d.intExpect, Modulus - 1), !.q = "ack"])

HandleInterrupt(c, m) ==
    IF SeenOther(c, m) THEN AckOther(c, m)
    ELSE [AckOther(c, m) EXCEPT !.gotInt = Append(@, m.seg)]

(* What a link service message may do to the credit: no more than 127 ahead *)
(* of what is acknowledged, and not behind it.                              *)
CreditOk(c, m) ==
    CASE c.flow = "msg" -> m.credit >= 0 /\ c.maxMsg + m.credit < c.maxAcked + 128
      [] c.flow = "seg" -> /\ c.maxSeg + m.credit >= c.maxAcked
                           /\ c.maxSeg + m.credit < c.maxAcked + 128
      [] OTHER -> TRUE

Credited(c, m) ==
    [c EXCEPT !.maxMsg = IF c.flow = "msg" THEN @ + m.credit ELSE @,
              !.maxSeg = IF c.flow = "seg" THEN @ + m.credit ELSE @,
              !.xon = IF m.arg = "same" THEN @ ELSE m.arg = "xon"]

\* Faulty variant: new credit waits for the next acknowledgement.
HandleLinkServiceHolds(c, m) ==
    LET p == RouteAck(c, m, FALSE)
        a == AckOther(p, m)
    IN  IF SeenOther(p, m) \/ m.arg = "int" \/ ~CreditOk(a, m) THEN a ELSE Credited(a, m)

HandleLinkService(c, m) ==
    LET p == RouteAck(c, m, FALSE)
        a == AckOther(p, m)
    IN  CASE SeenOther(p, m) -> a
          [] ~SeenOther(p, m) /\ m.arg = "int" ->
                IF m.credit < 0 THEN a ELSE [a EXCEPT !.intMax = @ + m.credit]
          [] OTHER -> IF CreditOk(a, m) THEN SendBlocked(Credited(a, m)) ELSE a
-----------------------------------------------------------------------------
(* The states.  A connection in cd, ci, cc or run answers a disconnect.     *)
InRun(c, m) ==
    LET k == IF c.rexmit THEN c ELSE [c EXCEPT !.timer = TRUE] IN
    CASE m.kind = "data" -> HandleData(k, m)
      [] m.kind = "ack" -> RouteAck(k, m, TRUE)
      [] m.kind = "ackother" -> RouteAck(k, m, FALSE)
      [] m.kind = "ls" -> HandleLinkService(k, m)
      [] m.kind = "int" -> HandleInterrupt(k, m)
      [] m.kind = "di" -> Close(SendDiscConf(k), "disconnected", TRUE)
      [] m.kind = "dc" -> Close(k, "disconnected", TRUE)
      [] OTHER -> k

InCc(c, m) ==
    CASE m.kind \in {"data", "ack", "int", "ls", "ackother"} ->
            InRun([ProcessAck(c, 0) EXCEPT !.st = "run"], m)
      [] m.kind = "di" -> Close(SendDiscConf(c), "disconnected", TRUE)
      [] OTHER -> c

\* Faulty variant: does not keep the far end's address.
ConfirmedNoAddress(c, m) ==
    [ArmOther(SendAck(ProcessAck([c EXCEPT !.flow = m.arg], 0))) EXCEPT !.st = "run"]

Confirmed(c, m) ==
    [ArmOther(SendAck(ProcessAck([c EXCEPT !.dst = m.src, !.flow = m.arg], 0)))
        EXCEPT !.st = "run"]

InCd(c, m) ==
    CASE m.kind = "cc" -> Confirmed(c, m)
      [] m.kind = "di" -> Close(SendDiscConf([c EXCEPT !.dst = m.src]), "refused", TRUE)
      [] m.kind = "dc" -> Close(c, "refused", TRUE)
      [] OTHER -> c

InCi(c, m) ==
    IF m.kind = "ackconn" THEN [ArmOther(ProcessAck(c, 0)) EXCEPT !.st = "cd"]
    ELSE InCd(c, m)

InCr(c, m) == IF m.kind = "ci" THEN SendAckConn(c) ELSE c

\* Faulty variant: closes without a word.
InDiSilent(c, m) == IF m.kind \in {"di", "dc"} THEN Close(c, "disconnected", FALSE) ELSE c

InDi(c, m) == IF m.kind \in {"di", "dc"} THEN Close(c, "disconnected", TRUE) ELSE c

Receive(c, m) ==
    CASE c.st = "ci" -> InCi(c, m)
      [] c.st = "cd" -> InCd(c, m)
      [] c.st = "cr" -> InCr(c, m)
      [] c.st = "cc" -> InCc(c, m)
      [] c.st = "run" -> InRun(c, m)
      [] c.st = "di" -> InDi(c, m)
      [] OTHER -> c

(* timeout: a retransmission, or the end of what the state waits for.       *)
Timeout(c) ==
    LET f == [c EXCEPT !.timer = FALSE] IN
    CASE c.rexmit -> Retransmit(f)
      [] ~c.rexmit /\ c.st = "cr" -> Refuse(f, "abandoned")
      [] ~c.rexmit /\ c.st = "run" -> ArmOther(SendAck(f))
      [] OTHER -> Close(f, "timeout", TRUE)
=============================================================================
