--------------------------- MODULE NspLink_proof ----------------------------
(***************************************************************************)
(* Proofs about every handler of an NSP link, in each of its states, and   *)
(* about the tables in which the links are filed.                          *)
(*                                                                         *)
(* A link is good when its fields agree with its state (Phase): the        *)
(* connect messages of ci and cc are in the queue and timed, cd, cr and di *)
(* have a timer that is not for retransmission, and run is as in           *)
(* NspSending_proof.  Every handler takes a good link to a good link, or   *)
(* to its end, of which session control has been told once (LinkStep).     *)
(*                                                                         *)
(* The tables of a node are sound (TableOK) when every link in them is     *)
(* good and filed under its own address, by_remote_ names only links that  *)
(* the other side opened, and the addresses, free or in use, all differ in *)
(* their low parts, which init_ids makes different and return_id keeps     *)
(* (IdsOK).                                                                *)
(***************************************************************************)
EXTENDS NspSending_proof, NspTables

(* Steps of a link in any state.                                            *)
LEMMA RunLink ==
  ASSUME NEW c, Good(c), c.st = "run"
  PROVE  Running(c) /\ \A d : RunStep(c, d) => LinkStep(c, d)
  <1>1. Running(c)
    BY DEF Good, Phase
  <1>2. ASSUME NEW d, RunStep(c, d)
        PROVE  LinkStep(c, d)
    <2>1. Running(d) /\ d.src = c.src /\ d.dst = c.dst /\ d.told = 0 /\ Within(c, d) /\ d.st = "run"
      BY <1>2 DEF RunStep, Good, Running
    <2>2. Good(d)
      BY <2>1 DEF Good, Phase, Running
    <2> QED
      BY <2>1, <2>2 DEF LinkStep
  <1> QED
    BY <1>1, <1>2

(* A step that changes nothing that matters is a step of the link.          *)
LEMMA SameLink ==
  ASSUME NEW c, Good(c), NEW d, Same(c, d)
  PROVE  LinkStep(c, d)
  <1>1. Shape(d) /\ d.told = 0 /\ d.src = c.src /\ d.dst = c.dst /\ d.st = c.st
    BY SameFacts DEF Good, Same
  <1>2. Within(c, d)
    BY WithinSelf, SameFacts
  <1>3. Phase(d)
    <2>1. CASE Running(c)
      BY <2>1, SameFacts DEF Phase
    <2>2. CASE ~Running(c)
      BY <2>2 DEF Good, Phase, Same, Controls
    <2> QED
      BY <2>1, <2>2
  <1>4. d.st # "cl"
    BY <1>1 DEF Good, Phase, Running
  <1> QED
    BY <1>1, <1>2, <1>3, <1>4 DEF LinkStep, Good

(* A link in the table has the fields of a Connection and is not closed.    *)
LEMMA GoodDomain ==
  ASSUME NEW c, Good(c)
  PROVE  DOMAIN c = ConnFields /\ Shape(c) /\ c.told = 0 /\ c.st # "cl"
  BY DEF Good, Shape, Phase, Running

(* close tells session control, unless reject has called it.                *)
LEMMA CloseFacts ==
  ASSUME NEW c, DOMAIN c = ConnFields, c.told = 0
  PROVE  /\ \A why \in {"disconnected", "refused", "timeout", "unanswered"} :
               LET d == Close(c, why, TRUE) IN
               d.st = "cl" /\ d.src = c.src /\ d.dst = c.dst /\ Over(d)
         /\ \A why \in {"rejected", "abandoned"} :
               LET d == Close(c, why, FALSE) IN
               d.st = "cl" /\ d.src = c.src /\ d.dst = c.dst /\ Over(d)
  <1>1. ASSUME NEW why \in {"disconnected", "refused", "timeout", "unanswered"}
        PROVE  LET d == Close(c, why, TRUE) IN
               d.st = "cl" /\ d.src = c.src /\ d.dst = c.dst /\ Over(d)
    BY DEF Close, ConnFields, ClosedOK, Over
  <1>2. ASSUME NEW why \in {"rejected", "abandoned"}
        PROVE  LET d == Close(c, why, FALSE) IN
               d.st = "cl" /\ d.src = c.src /\ d.dst = c.dst /\ Over(d)
    BY DEF Close, ConnFields, ClosedOK, Over
  <1> QED
    BY Zenon, <1>1, <1>2

(* close is the end of a link: session control is told once, or not at all  *)
(* of one that was rejected.                                                *)
LEMMA CloseLink ==
  ASSUME NEW c, Good(c), NEW e, Same(c, e),
         NEW why \in {"disconnected", "refused", "timeout", "unanswered"}
  PROVE  LinkStep(c, Close(e, why, TRUE))
  <1>1. DOMAIN e = ConnFields /\ e.told = 0 /\ e.src = c.src /\ e.dst = c.dst
    BY GoodDomain DEF Same
  <1> DEFINE d == Close(e, why, TRUE)
  <1>2. d.st = "cl" /\ d.src = e.src /\ d.dst = e.dst /\ Over(d)
    BY Zenon, <1>1, CloseFacts
  <1> HIDE DEF d
  <1>3. LinkStep(c, d)
    BY <1>1, <1>2 DEF LinkStep
  <1> QED
    BY Zenon, <1>3 DEF d

(* A state agrees with itself.                                              *)
LEMMA SameSelf ==
  ASSUME NEW c, DOMAIN c = ConnFields
  PROVE  Same(c, c)
  BY DEF Same

(* reject ends a link whose session control has not answered.               *)
LEMMA RejectLink ==
  ASSUME NEW c, Good(c), c.st = "cr"
  PROVE  LinkStep(c, Reject(c))
  <1> DEFINE e == Send(c, Pkt(c, "di"))
             d == Close(e, "rejected", FALSE)
  <1>1. DOMAIN e = ConnFields /\ e.told = 0 /\ e.src = c.src /\ e.dst = c.dst
    BY GoodDomain, SendSame DEF Same
  <1>2. Reject(c) = d
    BY Zenon DEF Reject, Refuse
  <1> HIDE DEF e
  <1>3. d.st = "cl" /\ d.src = e.src /\ d.dst = e.dst /\ Over(d)
    BY Zenon, <1>1, CloseFacts
  <1> HIDE DEF d
  <1> QED
    BY <1>1, <1>2, <1>3 DEF LinkStep

(* A queued connect message.                                                *)
LEMMA SendControlFacts ==
  ASSUME NEW c, Shape(c), c.txq = <<>>, NEW m
  PROVE  LET d == SendControl(c, m) IN
         /\ Shape(d) /\ d.txq # <<>> /\ Controls(d) /\ d.timer = TRUE /\ d.rexmit = TRUE
         /\ d.src = c.src /\ d.dst = c.dst /\ d.told = c.told /\ DOMAIN d = ConnFields
  <1> DEFINE s == Send(c, m)
             e == Control(m)
             b == [s EXCEPT !.txq = Append(@, e), !.retries = 0]
             d == SendControl(c, m)
  <1>1. Same(c, s)
    BY Zenon, SendSame DEF Shape
  <1>2. d = ArmRexmit(b)
    BY Zenon DEF SendControl
  <1>3. TxEntry(e) /\ e.data = FALSE /\ e.sent = TRUE /\ e.seq = 0
    BY DEF Control, TxEntry, EntryFields
  <1> HIDE DEF s, e, d
  <1>4. s.txq = <<>> /\ DOMAIN s = ConnFields
    BY <1>1 DEF Same
  <1>5. /\ DOMAIN b = ConnFields /\ b.txq = Append(<<>>, e) /\ b.nextSeg = s.nextSeg
        /\ b.nextMsg = s.nextMsg /\ b.src = s.src /\ b.dst = s.dst /\ b.told = s.told
        /\ b.timer = s.timer /\ b.rexmit = s.rexmit /\ b.xon = s.xon
    BY <1>4 DEF ConnFields
  <1> DEFINE q == Append(<<>>, e)
  <1>6. Listed(q) /\ Len(q) = 1 /\ q[1] = e
    <2>1. <<>> \in Seq({e}) /\ e \in {e}
      OBVIOUS
    <2>2. q \in Seq({e}) /\ Len(q) = 1 /\ q[1] = e
      BY <2>1
    <2> QED
      BY Zenon, <2>2 DEF Listed
  <1> HIDE DEF b, q
  <1>7. Shape(b) /\ b.txq # <<>> /\ Controls(b)
    <2>1. \A k \in 1 .. Len(b.txq) : b.txq[k] = e
      BY <1>5, <1>6 DEF q
    <2>2. Listed(b.txq) /\ b.txq # <<>> /\ Len(b.txq) = 1
      BY <1>5, <1>6, ListedEmpty DEF q
    <2>3. Queue(b)
      BY <1>3, <2>1, <2>2 DEF Queue
    <2> QED
      BY <1>1, <1>3, <1>5, <2>1, <2>2, <2>3 DEF Shape, Controls, Same
  <1>8. /\ Shape(d) /\ d.txq = b.txq /\ d.timer = TRUE /\ d.rexmit = TRUE
        /\ d.src = b.src /\ d.dst = b.dst /\ d.told = b.told
    BY Zenon, <1>2, <1>7, ArmFacts
  <1> QED
    BY <1>1, <1>5, <1>7, <1>8 DEF Same, Controls, Shape, d

(* accept sends the connect confirm and waits for its acknowledgement with  *)
(* the timer armed.                                                         *)
LEMMA AcceptLink ==
  ASSUME NEW c, Good(c), c.st = "cr", NEW fcopt
  PROVE  LinkStep(c, Accept(c, fcopt)) /\ Accept(c, fcopt).st = "cc"
  <1> DEFINE m == [Pkt(c, "cc") EXCEPT !.arg = fcopt]
             e == SendControl(c, m)
             d == [e EXCEPT !.st = "cc"]
  <1>1. Accept(c, fcopt) = d
    BY Zenon DEF Accept
  <1>2. Shape(c) /\ c.txq = <<>> /\ c.told = 0
    BY DEF Good, Phase, Running
  <1> HIDE DEF m
  <1>3. /\ Shape(e) /\ e.txq # <<>> /\ Controls(e) /\ e.timer = TRUE /\ e.rexmit = TRUE
        /\ e.src = c.src /\ e.dst = c.dst /\ e.told = c.told /\ DOMAIN e = ConnFields
    BY Zenon, <1>2, SendControlFacts
  <1> HIDE DEF e
  <1>4. /\ DOMAIN d = ConnFields /\ d.st = "cc" /\ d.txq = e.txq /\ d.timer = TRUE /\ d.rexmit = TRUE
        /\ d.src = c.src /\ d.dst = c.dst /\ d.told = 0 /\ d.xon = e.xon /\ d.nextSeg = e.nextSeg
        /\ d.nextMsg = e.nextMsg
    BY <1>2, <1>3 DEF ConnFields
  <1> HIDE DEF d
  <1>5. Shape(d) /\ Controls(d)
    BY ZenonT(30), <1>3, <1>4 DEF Shape, Queue, Controls
  <1>6. Good(d)
    BY <1>3, <1>4, <1>5 DEF Good, Phase
  <1>7. Within(c, d)
    BY <1>5 DEF Within, Controls
  <1> QED
    BY <1>1, <1>4, <1>6, <1>7 DEF LinkStep

(* disconnect: a link that is not closed goes to di with its timer armed.   *)
LEMMA DisconnectLink ==
  ASSUME NEW c, Good(c)
  PROVE  LinkStep(c, Disconnect(c))
  <1> DEFINE s == Send(c, Pkt(c, "di"))
             e == ArmOther(s)
             d == [e EXCEPT !.st = "di"]
  <1>1. Disconnect(c) = d
    BY GoodDomain, Zenon DEF Disconnect
  <1>2. Same(c, s) /\ Shape(s)
    BY Zenon, GoodDomain, SendSame, SameFacts
  <1> HIDE DEF s
  <1>3. /\ Shape(e) /\ e.txq = s.txq /\ e.timer = TRUE /\ e.rexmit = FALSE
        /\ e.src = s.src /\ e.dst = s.dst /\ e.told = s.told
    BY Zenon, <1>2, ArmFacts
  <1> HIDE DEF e
  <1>4. /\ DOMAIN d = ConnFields /\ d.st = "di" /\ d.txq = c.txq /\ d.timer = TRUE /\ d.rexmit = FALSE
        /\ d.src = c.src /\ d.dst = c.dst /\ d.told = 0 /\ d.xon = e.xon /\ d.nextSeg = e.nextSeg
        /\ d.nextMsg = e.nextMsg /\ e.txq = d.txq
    BY <1>2, <1>3, GoodDomain DEF ConnFields, Same, Shape
  <1> HIDE DEF d
  <1>5. Shape(d)
    BY Zenon, <1>3, <1>4 DEF Shape, Queue
  <1>6. Good(d)
    BY <1>4, <1>5 DEF Good, Phase
  <1>7. Within(c, d)
    BY <1>4 DEF Within, WasSent
  <1> QED
    BY <1>1, <1>4, <1>6, <1>7 DEF LinkStep

(* A timer that has run out and been stopped.                               *)
LEMMA StoppedFacts ==
  ASSUME NEW c, Good(c)
  PROVE  LET f == [c EXCEPT !.timer = FALSE] IN
         /\ Shape(f) /\ Kept(c, f) /\ f.txq = c.txq /\ f.rexmit = c.rexmit /\ f.cwnd = c.cwnd
         /\ f.timer = FALSE /\ DOMAIN f = ConnFields /\ f.nextMsg = c.nextMsg
  <1> DEFINE f == [c EXCEPT !.timer = FALSE]
  <1>1. Shape(c) /\ DOMAIN c = ConnFields
    BY GoodDomain
  <1>2. /\ Kept(c, f) /\ f.txq = c.txq /\ f.rexmit = c.rexmit /\ f.cwnd = c.cwnd
        /\ f.timer = FALSE /\ DOMAIN f = ConnFields /\ f.nextMsg = c.nextMsg
    BY <1>1 DEF Kept, ConnFields
  <1> HIDE DEF f
  <1>3. Shape(f)
    BY Zenon, <1>1, <1>2 DEF Shape, Queue, Kept
  <1> QED
    BY <1>2, <1>3 DEF f

(* retransmit: after it only the oldest segment is in flight, the window is *)
(* one, and so nothing else may go.                                         *)
LEMMA ResentRun ==
  ASSUME NEW c, Running(c), NEW d, Shape(d), Kept(c, d), d.cwnd = Unit,
         d.txq = TakeBack(c.txq, {1}), d.timer = TRUE, d.rexmit = TRUE, c.txq[1].sent
  PROVE  RunStep(c, d)
  <1> DEFINE w == TakeBack(c.txq, {1})
  <1>1. /\ Listed(c.txq) /\ Len(c.txq) \in Nat
        /\ \A k \in 1 .. Len(c.txq) : TxEntry(c.txq[k]) /\ c.txq[k].data
    BY ListedFacts DEF Running, Shape, Queue, AllData
  <1>2. /\ Listed(w) /\ Len(w) = Len(c.txq)
        /\ \A k \in 1 .. Len(c.txq) :
              /\ w[k].seg = c.txq[k].seg /\ w[k].msg = c.txq[k].msg
              /\ w[k].data = c.txq[k].data /\ TxEntry(w[k])
              /\ w[k].sent <=> (c.txq[k].sent /\ (k \in {1} \/ ~c.txq[k].data))
    BY <1>1, TakeBackFacts
  <1> HIDE DEF w
  <1>a. DOMAIN w = 1 .. Len(w)
    BY <1>2, ListedFacts
  <1>3. AllData(d)
    BY <1>1, <1>2 DEF AllData, w
  <1>4. Within(c, d)
    BY <1>2 DEF Within, WasSent, w
  <1>5. Sendable(d) = {}
    <2> SUFFICES ASSUME NEW k \in 1 .. Len(w), ~w[k].sent,
                        \A j \in 1 .. k : w[j].sent \/ FlowOk(d, w[j])
                 PROVE  FALSE
      BY <1>a DEF Sendable, w
    <2>1. k \in 1 .. k /\ 1 \in 1 .. Len(w) /\ 1 \in 1 .. k
      BY <1>1, <1>2
    <2>2. FlowOk(d, w[k]) /\ w[k].data
      BY <1>1, <1>2, <2>1
    <2>3. w[k].seg <= w[1].seg + 1 - 1 /\ w[k].seg \in Nat /\ w[1].seg \in Nat
      BY <1>2, <2>1, <2>2, WindowOne DEF FlowOk, w, TxEntry
    <2>4. k # 1
      BY <1>2, <2>1
    <2>5. w[1].seg < w[k].seg
      <3>1. 1 < k
        BY <1>1, <1>2, <2>4
      <3> QED
        BY <1>2, <2>1, <2>2, <1>3, <3>1 DEF Shape, Queue, w, AllData
    <2> QED
      BY <2>3, <2>5
  <1> QED
    BY <1>3, <1>4, <1>5 DEF RunStep, Running, Kept, Timed

(* The retransmission timer: the oldest segment goes again, or the link is  *)
(* given up.                                                                *)
LEMMA RetransmitLink ==
  ASSUME NEW c, Good(c), c.timer, c.rexmit
  PROVE  LinkStep(c, Retransmit([c EXCEPT !.timer = FALSE]))
  <1> DEFINE f == [c EXCEPT !.timer = FALSE]
             first == Min({k \in DOMAIN f.txq : f.txq[k].sent})
             x == f.txq[first].frame
             s == Send(f, x)
             w == TakeBack(c.txq, {first})
             b == [s EXCEPT !.retries = @ + 1, !.ssthresh = Halved(f), !.cwnd = Unit,
                            !.txq = TakeBack(@, {first})]
             d == ArmRexmit(b)
             r == Retransmit(f)
  <1>1. /\ Shape(f) /\ Kept(c, f) /\ f.txq = c.txq /\ f.rexmit = c.rexmit /\ f.cwnd = c.cwnd
        /\ f.timer = FALSE /\ DOMAIN f = ConnFields /\ f.nextMsg = c.nextMsg
    BY Zenon, StoppedFacts
  <1> HIDE DEF f
  <1>3. /\ Listed(c.txq) /\ DOMAIN c.txq = 1 .. Len(c.txq) /\ Len(c.txq) \in Nat
        /\ \A k \in 1 .. Len(c.txq) : TxEntry(c.txq[k])
    BY GoodDomain, ListedFacts DEF Shape, Queue
  <1>4. InFlight(f) \in Nat /\ (InFlight(f) > 0 <=> Flying(c))
    BY <1>1, <1>3, InFlightFacts DEF Flying
  <1>2. \/ InFlight(f) = 0 /\ r = f
        \/ r = Close(f, "unanswered", TRUE)
        \/ InFlight(f) # 0 /\ r = d
    <2> DEFINE P1 == InFlight(f) = 0
               P2 == InFlight(f) > 0 /\ f.retries + 1 > Retransmits
    <2>1. ~(P1 /\ P2)
      BY <1>4
    <2>2. r = CASE P1 -> f [] P2 -> Close(f, "unanswered", TRUE) [] OTHER -> d
      BY Zenon DEF Retransmit
    <2> HIDE DEF P2, d, r
    <2> QED
      BY <2>1, <2>2, Zenon
  <1> HIDE DEF r, d
  <1>5. CASE InFlight(f) = 0 /\ r = f
    <2>1. ~Flying(c)
      BY <1>4, <1>5
    <2>2. Running(c)
      <3>1. c.st \in {"ci", "cc"} => c.txq # <<>> /\ Controls(c)
        BY DEF Good, Phase, Running
      <3>2. c.txq = <<>> \/ ~Controls(c)
        <4>1. Len(c.txq) \in Nat /\ (c.txq = <<>> <=> Len(c.txq) = 0)
          BY <1>3, ListedFacts
        <4>2. c.txq # <<>> => 1 \in 1 .. Len(c.txq)
          BY <4>1
        <4> QED
          BY <2>1, <4>2, Zenon DEF Flying, Controls
      <3> QED
        BY <3>1, <3>2 DEF Good, Phase
    <2>3. RunStep(c, f)
      <3>1. Sendable(f) = {}
        BY Zenon, <1>1, <2>2 DEF Running, Sendable, FlowOk, Window, Kept
      <3>2. Timed(f) /\ AllData(f)
        BY <1>1, <2>1, <2>2 DEF Running, Timed, Flying, AllData
      <3>3. Within(c, f)
        BY <1>1 DEF Within, WasSent
      <3> QED
        BY <1>1, <2>2, <3>1, <3>2, <3>3 DEF RunStep, Running, Kept
    <2> QED
      BY <1>5, <2>2, <2>3, RunLink DEF Running, r, f
  <1>6. CASE r = Close(f, "unanswered", TRUE)
    <2>1. DOMAIN f = ConnFields /\ f.told = 0 /\ f.src = c.src /\ f.dst = c.dst
      BY <1>1, GoodDomain DEF Kept
    <2>2. r.st = "cl" /\ r.src = f.src /\ r.dst = f.dst /\ Over(r)
      BY Zenon, <1>6, <2>1, CloseFacts
    <2> QED
      BY <2>1, <2>2 DEF LinkStep, r, f
  <1>7. CASE InFlight(f) # 0 /\ r = d
    <2>1. Flying(c)
      BY <1>4, <1>7
    <2>2. first \in 1 .. Len(c.txq) /\ c.txq[first].sent /\ first = 1
      <3> DEFINE T == {k \in DOMAIN f.txq : f.txq[k].sent}
      <3>1. 1 \in T
        <4>1. PICK k \in 1 .. Len(c.txq) : c.txq[k].sent
          BY <2>1 DEF Flying
        <4>2. c.txq[1].sent /\ 1 \in 1 .. Len(c.txq)
          BY <1>3, <4>1, GoodDomain DEF Shape, Queue
        <4> QED
          BY <1>1, <1>3, <4>2
      <3>2. \A y \in T : y \in Nat /\ 1 <= y
        BY <1>1, <1>3
      <3>3. first = Min(T)
        BY DEF first
      <3>4. T \subseteq DOMAIN c.txq /\ \A y \in T : c.txq[y].sent
        BY <1>1
      <3> HIDE DEF T, first
      <3>5. first = 1
        BY <3>1, <3>2, <3>3 DEF Min
      <3> QED
        BY <1>3, <3>1, <3>4, <3>5
    <2> HIDE DEF first, x
    <2>3. Same(f, s)
      BY Zenon, <1>1, SendSame
    <2> HIDE DEF s
    <2>4. s.txq = c.txq /\ DOMAIN s = ConnFields /\ Kept(c, s) /\ s.nextMsg = c.nextMsg
      BY <1>1, <2>3 DEF Same, Kept
    <2>5. /\ DOMAIN b = ConnFields /\ b.txq = w /\ Kept(c, b) /\ b.cwnd = Unit
          /\ b.nextMsg = c.nextMsg /\ b.timer = s.timer /\ b.rexmit = s.rexmit
      BY <2>4 DEF ConnFields, Kept
    <2>6. /\ Listed(w) /\ Len(w) = Len(c.txq)
          /\ \A k \in 1 .. Len(c.txq) :
               /\ w[k].seg = c.txq[k].seg /\ w[k].msg = c.txq[k].msg /\ w[k].seq = c.txq[k].seq
               /\ w[k].data = c.txq[k].data /\ TxEntry(w[k])
               /\ w[k].sent <=> (c.txq[k].sent /\ (k \in {first} \/ ~c.txq[k].data))
      BY <1>3, TakeBackFacts
    <2> HIDE DEF w, b
    <2>7. Queue(b)
      <3>1. \A k \in 1 .. Len(w) : w[k].data => w[k].seg < c.nextSeg
        BY <2>6, GoodDomain DEF Shape, Queue
      <3>2. \A j, k \in 1 .. Len(w) : j < k /\ w[j].data /\ w[k].data => w[j].seg < w[k].seg
        BY <2>6, GoodDomain DEF Shape, Queue
      <3>3. \A k \in 1 .. Len(w) : TxEntry(w[k])
        BY <2>6
      <3>4. \A j, k \in 1 .. Len(w) : j < k /\ w[k].sent => w[j].sent
        <4>1. CASE AllData(c)
          BY <1>3, <2>2, <2>6, <4>1 DEF AllData
        <4>2. CASE Controls(c)
          BY <2>6, <4>2 DEF Controls
        <4>3. AllData(c) \/ Controls(c)
          BY DEF Good, Phase, Running
        <4> QED
          BY <4>1, <4>2, <4>3
      <3> QED
        BY SMTT(30), <2>5, <2>6, <3>1, <3>2, <3>3, <3>4 DEF Queue, Kept
    <2>8. Shape(b)
      <3>1. s.timer \in BOOLEAN /\ s.rexmit \in BOOLEAN
        BY <1>1, <2>3 DEF Same, Shape
      <3> QED
        BY <2>5, <2>7, <3>1, GoodDomain DEF Shape, Kept
    <2>9. /\ Shape(d) /\ d.txq = w /\ d.timer = TRUE /\ d.rexmit = TRUE /\ Kept(c, d)
      <3>1. d = ArmRexmit(b)
        BY DEF d
      <3>2. Shape(d) /\ d.txq = b.txq /\ d.timer = TRUE /\ d.rexmit = TRUE /\ Kept(b, d)
        BY Zenon, <2>8, <3>1, ArmFacts DEF Kept
      <3> QED
        BY <2>5, <3>2 DEF Kept
    <2>10. d.cwnd = Unit
      BY <2>5 DEF ArmRexmit, ConnFields, d
    <2>11. CASE Running(c)
      <3>1. RunStep(c, d)
        BY Zenon, <2>2, <2>9, <2>10, <2>11, ResentRun DEF w
      <3> QED
        BY <1>7, <2>11, <3>1, RunLink DEF Running, r, f
    <2>12. CASE c.st \in {"ci", "cc"} /\ c.txq # <<>> /\ Controls(c)
      <3>1. Controls(d)
        BY <2>6, <2>9, <2>12 DEF Controls
      <3>2. d.txq # <<>>
        BY <2>6, <2>9, <2>12, <1>3, ListedFacts
      <3>3. Good(d)
        BY <2>9, <2>12, <3>1, <3>2, GoodDomain DEF Good, Phase, Kept
      <3>4. Within(c, d)
        BY <3>1 DEF Within, Controls
      <3>5. LinkStep(c, d)
        BY <2>9, <2>12, <3>3, <3>4 DEF LinkStep, Kept
      <3> QED
        BY <1>7, <3>5 DEF r, f
    <2> QED
      BY <2>11, <2>12 DEF Good, Phase
  <1> QED
    BY Zenon, <1>2, <1>5, <1>6, <1>7

(* Whatever a timer was armed for, its expiry leaves the link timed, or     *)
(* ends it.                                                                 *)
LEMMA TimeoutLink ==
  ASSUME NEW c, Good(c), c.timer
  PROVE  LinkStep(c, Timeout(c))
  <1> DEFINE f == [c EXCEPT !.timer = FALSE]
             s == SendAck(f)
             t == Timeout(c)
  <1>1. /\ Shape(f) /\ Kept(c, f) /\ f.txq = c.txq /\ f.rexmit = c.rexmit /\ f.cwnd = c.cwnd
        /\ f.timer = FALSE /\ DOMAIN f = ConnFields /\ f.nextMsg = c.nextMsg
    BY StoppedFacts
  <1>2. \/ c.rexmit /\ t = Retransmit(f)
        \/ ~c.rexmit /\ c.st = "cr" /\ t = Refuse(f, "abandoned")
        \/ ~c.rexmit /\ c.st = "run" /\ t = ArmOther(s)
        \/ ~c.rexmit /\ c.st # "cr" /\ c.st # "run" /\ t = Close(f, "timeout", TRUE)
    <2>1. ~(c.st = "cr" /\ c.st = "run")
      OBVIOUS
    <2> HIDE DEF f
    <2> QED
      BY <2>1, Zenon DEF Timeout, f
  <1>3. CASE c.rexmit /\ t = Retransmit(f)
    BY <1>3, RetransmitLink
  <1> HIDE DEF f, t
  <1>4. CASE ~c.rexmit /\ c.st = "cr" /\ t = Refuse(f, "abandoned")
    <2> DEFINE e == Send(f, Pkt(f, "di"))
    <2>1. DOMAIN e = ConnFields /\ e.told = 0 /\ e.src = c.src /\ e.dst = c.dst
      BY <1>1, GoodDomain, SendSame DEF Same, Kept
    <2>2. t = Close(e, "abandoned", FALSE)
      BY <1>4, Zenon DEF Refuse
    <2> HIDE DEF e
    <2>3. t.st = "cl" /\ t.src = e.src /\ t.dst = e.dst /\ Over(t)
      BY Zenon, <2>1, <2>2, CloseFacts
    <2> QED
      BY <2>1, <2>3 DEF LinkStep, t
  <1>5. CASE ~c.rexmit /\ c.st = "run" /\ t = ArmOther(s)
    <2>1. Running(c) /\ ~Flying(c)
      BY <1>5 DEF Good, Phase, Running, Timed
    <2>2. Same(f, s) /\ Shape(s)
      BY Zenon, <1>1, SendSame, SameFacts
    <2> HIDE DEF s
    <2>3. Shape(t) /\ t.txq = s.txq /\ Kept(s, t) /\ t.cwnd = s.cwnd
      BY Zenon, <1>5, <2>2, ArmFacts DEF Kept
    <2>4. t.txq = c.txq /\ Kept(c, t) /\ t.cwnd = c.cwnd
      BY <1>1, <2>2, <2>3 DEF Same, Kept
    <2>5. Sendable(t) = {} /\ ~Flying(t) /\ AllData(t)
      BY Zenon, <2>1, <2>4 DEF Running, Sendable, FlowOk, Window, Kept, Flying, AllData
    <2>6. Within(c, t)
      BY <2>4 DEF Within, WasSent
    <2>7. RunStep(c, t)
      BY <2>1, <2>3, <2>4, <2>5, <2>6 DEF RunStep, Running, Kept, Timed
    <2> QED
      BY <1>5, <2>7, RunLink DEF t
  <1>6. CASE ~c.rexmit /\ c.st # "cr" /\ c.st # "run" /\ t = Close(f, "timeout", TRUE)
    <2>1. DOMAIN f = ConnFields /\ f.told = 0 /\ f.src = c.src /\ f.dst = c.dst
      BY <1>1, GoodDomain DEF Kept
    <2>2. t.st = "cl" /\ t.src = f.src /\ t.dst = f.dst /\ Over(t)
      BY Zenon, <1>6, <2>1, CloseFacts
    <2> QED
      BY <2>1, <2>2 DEF LinkStep, t
  <1> QED
    BY Zenon, <1>2, <1>3, <1>4, <1>5, <1>6 DEF f, t

(* The run state.                                                           *)
LEMMA InRunFacts ==
  ASSUME NEW c, Running(c), c.told = 0, NEW m
  PROVE  LET d == InRun(c, m) IN
         RunStep(c, d) \/ (d.st = "cl" /\ d.src = c.src /\ d.dst = c.dst /\ Over(d))
  <1> DEFINE k == IF c.rexmit THEN c ELSE [c EXCEPT !.timer = TRUE]
             s == SendDiscConf(k)
             d == InRun(c, m)
  <1>1. \/ d = HandleData(k, m) \/ d = RouteAck(k, m, TRUE) \/ d = RouteAck(k, m, FALSE)
        \/ d = HandleLinkService(k, m) \/ d = HandleInterrupt(k, m)
        \/ d = Close(s, "disconnected", TRUE) \/ d = Close(k, "disconnected", TRUE) \/ d = k
    <2> HIDE DEF k
    <2>1. d = CASE m.kind = "data" -> HandleData(k, m)
                [] m.kind = "ack" -> RouteAck(k, m, TRUE)
                [] m.kind = "ackother" -> RouteAck(k, m, FALSE)
                [] m.kind = "ls" -> HandleLinkService(k, m)
                [] m.kind = "int" -> HandleInterrupt(k, m)
                [] m.kind = "di" -> Close(s, "disconnected", TRUE)
                [] m.kind = "dc" -> Close(k, "disconnected", TRUE)
                [] OTHER -> k
      BY Zenon DEF InRun, k
    <2> HIDE DEF d, s
    <2> QED
      BY <2>1, Zenon
  <1>2. /\ DOMAIN k = ConnFields /\ k.txq = c.txq /\ Kept(c, k) /\ k.cwnd = c.cwnd
        /\ k.nextMsg = c.nextMsg /\ k.rexmit = c.rexmit /\ k.timer \in BOOLEAN
        /\ c.rexmit => k.timer = c.timer
    BY ZenonT(30) DEF Running, Shape, ConnFields, Kept
  <1> HIDE DEF k, d
  <1>3. Running(k)
    <2>1. Shape(k)
      BY <1>2 DEF Running, Shape, Queue, Kept
    <2>2. Sendable(k) = {} /\ AllData(k)
      BY Zenon, <1>2 DEF Running, Sendable, FlowOk, Window, Kept, AllData
    <2>3. Timed(k)
      BY <1>2 DEF Running, Timed, Flying
    <2> QED
      BY <1>2, <2>1, <2>2, <2>3 DEF Running, Kept
  <1>4. RunStep(c, k)
    BY <1>2, <1>3 DEF RunStep, Kept, Within, WasSent
  <1>5. RunStep(k, HandleData(k, m)) /\ RunStep(k, HandleLinkService(k, m))
    BY <1>3, HandleDataRun, HandleLinkServiceRun
  <1>6. RunStep(k, RouteAck(k, m, TRUE)) /\ RunStep(k, RouteAck(k, m, FALSE))
    BY <1>3, RouteAckRun, Zenon
  <1>7. RunStep(k, HandleInterrupt(k, m)) /\ Same(k, s)
    BY Zenon, <1>2, <1>3, SendSame, SameStep
  <1> HIDE DEF s
  <1>8. \A e : RunStep(k, e) => RunStep(c, e)
    BY <1>2, <1>4, RunThen
  <1>9. DOMAIN s = ConnFields /\ s.told = 0 /\ s.src = c.src /\ s.dst = c.dst
    BY <1>2, <1>7 DEF Same, Kept
  <1>10. k.told = 0 /\ k.src = c.src /\ k.dst = c.dst
    BY <1>2 DEF Kept
  <1>11. CASE d = Close(s, "disconnected", TRUE)
    <2>1. d.st = "cl" /\ d.src = s.src /\ d.dst = s.dst /\ Over(d)
      BY Zenon, <1>9, <1>11, CloseFacts
    <2> QED
      BY <1>9, <2>1 DEF d
  <1>12. CASE d = Close(k, "disconnected", TRUE)
    <2>1. d.st = "cl" /\ d.src = k.src /\ d.dst = k.dst /\ Over(d)
      BY Zenon, <1>2, <1>10, <1>12, CloseFacts
    <2> QED
      BY <1>10, <2>1 DEF d
  <1>13. CASE ~(d = Close(s, "disconnected", TRUE) \/ d = Close(k, "disconnected", TRUE))
    <2>1. \/ d = HandleData(k, m) \/ d = RouteAck(k, m, TRUE) \/ d = RouteAck(k, m, FALSE)
          \/ d = HandleLinkService(k, m) \/ d = HandleInterrupt(k, m) \/ d = k
      BY <1>1, <1>13, Zenon
    <2>2. RunStep(c, d)
      BY <1>4, <1>5, <1>6, <1>7, <1>8, <2>1, ZenonT(30)
    <2> QED
      BY <2>2 DEF d
  <1> QED
    BY Zenon, <1>11, <1>12, <1>13

(* Every packet in the state run.                                           *)
LEMMA InRunLink ==
  ASSUME NEW c, Good(c), c.st = "run", NEW m
  PROVE  LinkStep(c, InRun(c, m))
  <1> DEFINE d == InRun(c, m)
  <1>1. Running(c) /\ c.told = 0
    BY RunLink, GoodDomain
  <1>2. RunStep(c, d) \/ (d.st = "cl" /\ d.src = c.src /\ d.dst = c.dst /\ Over(d))
    BY <1>1, InRunFacts
  <1> HIDE DEF d
  <1>3. LinkStep(c, d)
    BY <1>2, RunLink DEF LinkStep
  <1> QED
    BY <1>3 DEF d

(* The acknowledgement of a connect message, or of none, leaves the link    *)
(* with an empty queue; it may then run.                                    *)
LEMMA OpenedFacts ==
  ASSUME NEW c, Shape(c), Timed(c), Controls(c), c.told = 0
  PROVE  LET p == ProcessAck(c, 0)
             k == [p EXCEPT !.st = "run"]
         IN  /\ Running(k) /\ k.txq = <<>> /\ k.told = 0 /\ k.src = c.src /\ k.dst = c.dst
             /\ k.flow = c.flow /\ k.xon = c.xon /\ k.maxSeg = c.maxSeg /\ k.maxMsg = c.maxMsg
             /\ Shape(p) /\ p.txq = <<>> /\ Kept(c, p)
  <1> DEFINE p == ProcessAck(c, 0)
             k == [p EXCEPT !.st = "run"]
  <1>1. Shape(p) /\ p.txq = <<>> /\ Sendable(p) = {} /\ Kept(c, p)
    BY ProcessAckControl
  <1> HIDE DEF p
  <1>2. /\ DOMAIN k = ConnFields /\ k.txq = <<>> /\ k.st = "run" /\ k.told = p.told
        /\ k.src = p.src /\ k.dst = p.dst /\ k.flow = p.flow /\ k.xon = p.xon
        /\ k.maxSeg = p.maxSeg /\ k.maxMsg = p.maxMsg /\ k.timer = p.timer /\ k.rexmit = p.rexmit
        /\ k.nextSeg = p.nextSeg /\ k.nextMsg = p.nextMsg
    BY <1>1 DEF Shape, ConnFields
  <1> HIDE DEF k
  <1>3. Len(k.txq) = 0 /\ Listed(k.txq) /\ DOMAIN k.txq = {}
    BY <1>2, ListedEmpty
  <1>4. Queue(k) /\ AllData(k) /\ ~Flying(k) /\ Sendable(k) = {}
    BY <1>3 DEF Queue, AllData, Flying, Sendable
  <1>5. Running(k)
    BY <1>1, <1>2, <1>4 DEF Running, Shape, Timed
  <1> QED
    BY <1>1, <1>2, <1>5 DEF Kept, k, p

(* What an opened link lets go is within the credit it was opened with.     *)
LEMMA OpenedWithin ==
  ASSUME NEW c, NEW k, NEW d, k.txq = <<>>, Within(k, d),
         k.flow = c.flow, k.xon = c.xon, k.maxSeg = c.maxSeg, k.maxMsg = c.maxMsg
  PROVE  Within(c, d)
  BY ListedEmpty DEF Within, WasSent, Credit

(* Every packet in the state cc: data and acknowledgements complete the     *)
(* connect.                                                                 *)
LEMMA InCcLink ==
  ASSUME NEW c, Good(c), c.st = "cc", NEW m
  PROVE  LinkStep(c, InCc(c, m))
  <1> DEFINE p == ProcessAck(c, 0)
             k == [p EXCEPT !.st = "run"]
             s == SendDiscConf(c)
             d == InCc(c, m)
  <1>1. d = InRun(k, m) \/ d = Close(s, "disconnected", TRUE) \/ d = c
    BY Zenon DEF InCc
  <1>2. Shape(c) /\ Timed(c) /\ Controls(c) /\ c.told = 0 /\ DOMAIN c = ConnFields
    BY GoodDomain DEF Good, Phase, Running, Timed
  <1>3. /\ Running(k) /\ k.txq = <<>> /\ k.told = 0 /\ k.src = c.src /\ k.dst = c.dst
        /\ k.flow = c.flow /\ k.xon = c.xon /\ k.maxSeg = c.maxSeg /\ k.maxMsg = c.maxMsg
    BY <1>2, OpenedFacts
  <1> HIDE DEF p, k, d
  <1>4. CASE d = InRun(k, m)
    <2>1. RunStep(k, d) \/ (d.st = "cl" /\ d.src = k.src /\ d.dst = k.dst /\ Over(d))
      BY <1>3, <1>4, InRunFacts
    <2>2. CASE RunStep(k, d)
      <3>1. Good(d) /\ d.st = "run" /\ d.src = c.src /\ d.dst = c.dst
        BY <1>3, <2>2 DEF RunStep, Running, Good, Phase
      <3>2. Within(c, d)
        BY <1>3, <2>2, OpenedWithin DEF RunStep
      <3> QED
        BY <3>1, <3>2 DEF LinkStep, d
    <2> QED
      BY <1>3, <2>1, <2>2 DEF LinkStep, d
  <1>5. CASE d = Close(s, "disconnected", TRUE)
    <2>1. Same(c, s)
      BY Zenon, <1>2, SendSame
    <2> HIDE DEF s
    <2> QED
      BY Zenon, <1>5, <2>1, CloseLink DEF d
  <1>6. CASE d = c
    BY SMTT(30), <1>2, <1>6, SameSelf, SameLink DEF d
  <1> QED
    BY Zenon, <1>1, <1>4, <1>5, <1>6

(* A link that is being opened from here.                                   *)
LEMMA ConfirmedLink ==
  ASSUME NEW c, Shape(c), Timed(c), Controls(c), c.told = 0, c.st \in {"ci", "cd"}, NEW m
  PROVE  LinkStep(c, Confirmed(c, m))
  <1> DEFINE b == [c EXCEPT !.dst = m.src, !.flow = m.arg]
             p == ProcessAck(b, 0)
             s == SendAck(p)
             a == ArmOther(s)
             d == [a EXCEPT !.st = "run"]
  <1>1. Confirmed(c, m) = d
    BY Zenon DEF Confirmed
  <1>2. /\ DOMAIN b = ConnFields /\ b.txq = c.txq /\ b.told = 0 /\ b.src = c.src
        /\ b.timer = c.timer /\ b.rexmit = c.rexmit /\ b.xon = c.xon
        /\ b.nextSeg = c.nextSeg /\ b.nextMsg = c.nextMsg
    BY DEF Shape, ConnFields
  <1> HIDE DEF b
  <1>3. Shape(b) /\ Timed(b) /\ Controls(b)
    BY <1>2 DEF Shape, Queue, Timed, Flying, Controls
  <1>4. Shape(p) /\ p.txq = <<>> /\ Kept(b, p)
    BY Zenon, <1>2, <1>3, OpenedFacts
  <1> HIDE DEF p
  <1>5. Same(p, s) /\ Shape(s)
    BY Zenon, <1>4, SendSame, SameFacts DEF Shape
  <1> HIDE DEF s
  <1>6. Shape(a) /\ a.txq = s.txq /\ Kept(s, a)
    BY Zenon, <1>5, ArmFacts DEF Kept
  <1>7. a.txq = <<>> /\ a.src = c.src /\ a.told = 0
    BY <1>2, <1>4, <1>5, <1>6 DEF Same, Kept
  <1> HIDE DEF a
  <1>8. /\ DOMAIN d = ConnFields /\ d.txq = <<>> /\ d.st = "run" /\ d.told = 0 /\ d.src = c.src
        /\ d.xon = a.xon /\ d.timer = a.timer /\ d.rexmit = a.rexmit
        /\ d.nextSeg = a.nextSeg /\ d.nextMsg = a.nextMsg
    BY <1>6, <1>7 DEF Shape, ConnFields
  <1> HIDE DEF d
  <1>9. Len(d.txq) = 0 /\ Listed(d.txq) /\ DOMAIN d.txq = {}
    BY SMTT(30), <1>8, ListedEmpty
  <1>10. Queue(d) /\ AllData(d) /\ ~Flying(d) /\ Sendable(d) = {} /\ Within(c, d)
    BY <1>9 DEF Queue, AllData, Flying, Sendable, Within
  <1>11. Running(d)
    BY <1>6, <1>8, <1>10 DEF Running, Shape, Timed
  <1> QED
    BY <1>1, <1>8, <1>10, <1>11 DEF LinkStep, Good, Phase, Running

(* Every packet in the state cd: the connect confirm opens the link.        *)
LEMMA InCdLink ==
  ASSUME NEW c, Good(c), c.st \in {"ci", "cd"}, NEW m
  PROVE  LinkStep(c, InCd(c, m))
  <1> DEFINE b == [c EXCEPT !.dst = m.src]
             s == SendDiscConf(b)
             d == InCd(c, m)
  <1>1. \/ d = Confirmed(c, m) \/ d = Close(s, "refused", TRUE)
        \/ d = Close(c, "refused", TRUE) \/ d = c
    BY Zenon DEF InCd
  <1>2. DOMAIN c = ConnFields /\ c.told = 0 /\ Shape(c)
    BY GoodDomain
  <1>3. Timed(c) /\ Controls(c)
    <2>1. CASE c.st = "ci"
      BY <2>1 DEF Good, Phase, Running, Timed
    <2>2. CASE c.st = "cd"
      <3>1. c.txq = <<>>
        BY <2>2 DEF Good, Phase, Running
      <3> QED
        BY <3>1, ListedEmpty DEF Timed, Flying, Controls
    <2> QED
      BY <2>1, <2>2
  <1>4. DOMAIN b = ConnFields /\ b.told = 0 /\ b.src = c.src
    BY <1>2 DEF ConnFields
  <1> HIDE DEF b
  <1>5. DOMAIN s = ConnFields /\ s.told = 0 /\ s.src = c.src
    BY <1>4, SendSame DEF Same
  <1> HIDE DEF s, d
  <1>6. CASE d = Confirmed(c, m)
    BY <1>2, <1>3, <1>6, ConfirmedLink DEF d
  <1>7. CASE d = Close(s, "refused", TRUE)
    <2>1. d.st = "cl" /\ d.src = s.src /\ Over(d)
      BY Zenon, <1>5, <1>7, CloseFacts
    <2> QED
      BY <1>5, <2>1 DEF LinkStep, d
  <1>8. CASE d = Close(c, "refused", TRUE)
    BY Zenon, <1>2, <1>8, SameSelf, CloseLink DEF d
  <1>9. CASE d = c
    BY <1>2, <1>9, SameSelf, SameLink DEF d
  <1> QED
    BY Zenon, <1>1, <1>6, <1>7, <1>8, <1>9

(* Every packet in the state ci: as in cd, and the connect acknowledgement  *)
(* leads to cd.                                                             *)
LEMMA InCiLink ==
  ASSUME NEW c, Good(c), c.st = "ci", NEW m
  PROVE  LinkStep(c, InCi(c, m))
  <1> DEFINE p == ProcessAck(c, 0)
             a == ArmOther(p)
             d == [a EXCEPT !.st = "cd"]
  <1>1. InCi(c, m) = d \/ InCi(c, m) = InCd(c, m)
    BY Zenon DEF InCi
  <1>2. Shape(c) /\ Timed(c) /\ Controls(c) /\ c.told = 0
    BY GoodDomain DEF Good, Phase, Running, Timed
  <1>3. Shape(p) /\ p.txq = <<>> /\ Kept(c, p)
    BY Zenon, <1>2, OpenedFacts
  <1> HIDE DEF p
  <1>4. Shape(a) /\ a.txq = p.txq /\ Kept(p, a) /\ a.timer = TRUE /\ a.rexmit = FALSE
    BY Zenon, <1>3, ArmFacts DEF Kept
  <1>5. a.txq = <<>> /\ a.src = c.src /\ a.told = 0
    BY <1>2, <1>3, <1>4 DEF Kept
  <1> HIDE DEF a
  <1>6. /\ DOMAIN d = ConnFields /\ d.txq = <<>> /\ d.st = "cd" /\ d.told = 0 /\ d.src = c.src
        /\ d.xon = a.xon /\ d.timer = TRUE /\ d.rexmit = FALSE
        /\ d.nextSeg = a.nextSeg /\ d.nextMsg = a.nextMsg
    BY <1>4, <1>5 DEF Shape, ConnFields
  <1> HIDE DEF d
  <1>7. Queue(d) /\ Within(c, d)
    BY <1>6, ListedEmpty DEF Queue, Within
  <1>8. Good(d)
    BY Zenon, <1>4, <1>6, <1>7 DEF Good, Phase, Shape
  <1>9. LinkStep(c, d)
    BY <1>6, <1>7, <1>8 DEF LinkStep
  <1> QED
    BY <1>1, <1>9, InCdLink

(* Whatever packet a link takes, it stays good or is over.                  *)
LEMMA ReceiveLink ==
  ASSUME NEW c, Good(c), NEW m
  PROVE  LinkStep(c, Receive(c, m))
  <1>1. DOMAIN c = ConnFields /\ Same(c, c) /\ Same(c, SendAckConn(c))
    BY Zenon, GoodDomain, SameSelf, SendSame
  <1>2. c.st \in {"ci", "cd", "cr", "cc", "run", "di"}
    BY DEF Good, Phase, Running
  <1> DEFINE d == Receive(c, m)
  <1>3. /\ c.st = "ci" => d = InCi(c, m)
        /\ c.st = "cd" => d = InCd(c, m)
        /\ c.st = "cr" => d = InCr(c, m)
        /\ c.st = "cc" => d = InCc(c, m)
        /\ c.st = "run" => d = InRun(c, m)
        /\ c.st = "di" => d = InDi(c, m)
    <2> DEFINE e1 == InCi(c, m)
               e2 == InCd(c, m)
               e3 == InCr(c, m)
               e4 == InCc(c, m)
               e5 == InRun(c, m)
               e6 == InDi(c, m)
    <2>1. d = CASE c.st = "ci" -> e1 [] c.st = "cd" -> e2 [] c.st = "cr" -> e3
                [] c.st = "cc" -> e4 [] c.st = "run" -> e5 [] c.st = "di" -> e6 [] OTHER -> c
      BY Zenon DEF Receive
    <2> HIDE DEF d, e1, e2, e3, e4, e5, e6
    <2>2. /\ c.st = "ci" => d = e1
          /\ c.st = "cd" => d = e2
          /\ c.st = "cr" => d = e3
          /\ c.st = "cc" => d = e4
          /\ c.st = "run" => d = e5
          /\ c.st = "di" => d = e6
      BY <2>1
    <2> QED
      BY <2>2 DEF e1, e2, e3, e4, e5, e6
  <1> HIDE DEF d
  <1>4. CASE c.st = "ci"
    BY <1>3, <1>4, InCiLink DEF d
  <1>5. CASE c.st = "cd"
    BY <1>3, <1>5, InCdLink DEF d
  <1>6. CASE c.st = "cr"
    <2>1. d = SendAckConn(c) \/ d = c
      BY <1>3, <1>6, Zenon DEF InCr
    <2> QED
      BY <1>1, <2>1, SameLink DEF d
  <1>7. CASE c.st = "cc"
    BY <1>3, <1>7, InCcLink DEF d
  <1>8. CASE c.st = "run"
    BY <1>3, <1>8, InRunLink DEF d
  <1>9. CASE c.st = "di"
    <2>1. d = Close(c, "disconnected", TRUE) \/ d = c
      BY <1>3, <1>9, Zenon DEF InDi
    <2> QED
      BY Zenon, <1>1, <2>1, SameLink, CloseLink DEF d
  <1> QED
    BY SMTT(30), <1>2, <1>4, <1>5, <1>6, <1>7, <1>8, <1>9

(* A new connection, called from here or from the other side.               *)
LEMMA NewFacts ==
  ASSUME NEW addr
  PROVE  LET c == New(addr) IN
         /\ Shape(c) /\ c.txq = <<>> /\ c.src = addr /\ c.told = 0 /\ DOMAIN c = ConnFields
  <1> DEFINE c == New(addr)
  <1>1. /\ DOMAIN c = ConnFields /\ c.txq = <<>> /\ c.src = addr /\ c.told = 0
        /\ c.timer = FALSE /\ c.rexmit = FALSE /\ c.xon = TRUE /\ c.nextSeg = 1 /\ c.nextMsg = 1
    <2>1. DOMAIN c = ConnFields
      BY DEF New, ConnFields
    <2>2. c.txq = <<>>
      BY DEF New
    <2>3. c.src = addr /\ c.told = 0 /\ c.nextSeg = 1 /\ c.nextMsg = 1
      BY DEF New
    <2>4. c.timer = FALSE /\ c.rexmit = FALSE /\ c.xon = TRUE
      BY DEF New
    <2> QED
      BY <2>1, <2>2, <2>3, <2>4
  <1> HIDE DEF c
  <1>2. Queue(c)
    BY <1>1, ListedEmpty DEF Queue
  <1>3. Shape(c)
    <2>1. c.timer \in BOOLEAN /\ c.rexmit \in BOOLEAN /\ c.xon \in BOOLEAN
      BY <1>1, Zenon
    <2>2. c.nextSeg \in Nat /\ c.nextMsg \in Nat
      BY <1>1
    <2> QED
      BY <1>1, <1>2, <2>1, <2>2, Zenon DEF Shape
  <1> QED
    BY <1>1, <1>3, Zenon DEF c

(* start_outbound leaves the connect initiate in the queue with the timer   *)
(* armed.                                                                   *)
LEMMA StartOutboundFacts ==
  ASSUME NEW addr
  PROVE  LET d == StartOutbound(New(addr)) IN
         Good(d) /\ d.src = addr /\ d.st = "ci" /\ DOMAIN d = ConnFields
  <1> DEFINE c == New(addr)
             m == Pkt(c, "ci")
             e == SendControl(c, m)
             d == [e EXCEPT !.st = "ci"]
  <1>1. StartOutbound(New(addr)) = d
    BY Zenon DEF StartOutbound
  <1>2. Shape(c) /\ c.txq = <<>> /\ c.src = addr /\ c.told = 0
    BY NewFacts
  <1> HIDE DEF c, m
  <1>3. /\ Shape(e) /\ e.txq # <<>> /\ Controls(e) /\ e.timer = TRUE /\ e.rexmit = TRUE
        /\ e.src = c.src /\ e.dst = c.dst /\ e.told = c.told /\ DOMAIN e = ConnFields
    BY Zenon, <1>2, SendControlFacts
  <1> HIDE DEF e
  <1>4. /\ DOMAIN d = ConnFields /\ d.st = "ci" /\ d.txq = e.txq /\ d.timer = TRUE /\ d.rexmit = TRUE
        /\ d.src = addr /\ d.told = 0 /\ d.xon = e.xon /\ d.nextSeg = e.nextSeg
        /\ d.nextMsg = e.nextMsg
    BY <1>2, <1>3 DEF ConnFields
  <1> HIDE DEF d
  <1>5. Shape(d) /\ Controls(d)
    BY Zenon, <1>3, <1>4 DEF Shape, Queue, Controls
  <1>6. Good(d)
    BY <1>3, <1>4, <1>5 DEF Good, Phase
  <1> QED
    BY <1>1, <1>4, <1>6

(* start_inbound leaves a link that waits for session control with the      *)
(* timer armed.                                                             *)
LEMMA StartInboundFacts ==
  ASSUME NEW addr, NEW m
  PROVE  LET d == StartInbound(New(addr), m) IN
         Good(d) /\ d.src = addr /\ d.dst = m.src /\ d.st = "cr" /\ DOMAIN d = ConnFields
  <1> DEFINE c == New(addr)
             k == [c EXCEPT !.dst = m.src, !.flow = m.arg, !.st = "cr"]
             s == SendAckConn(k)
             d == ArmOther(s)
  <1>1. StartInbound(New(addr), m) = d
    BY Zenon DEF StartInbound
  <1>2. Shape(c) /\ c.txq = <<>> /\ c.src = addr /\ c.told = 0
    BY NewFacts
  <1> HIDE DEF c
  <1>3. /\ DOMAIN k = ConnFields /\ k.txq = <<>> /\ k.src = addr /\ k.dst = m.src /\ k.told = 0
        /\ k.st = "cr" /\ k.timer = c.timer /\ k.rexmit = c.rexmit /\ k.xon = c.xon
        /\ k.nextSeg = c.nextSeg /\ k.nextMsg = c.nextMsg
    BY <1>2 DEF Shape, ConnFields
  <1> HIDE DEF k
  <1>4. Shape(k)
    BY <1>2, <1>3, ListedEmpty DEF Shape, Queue
  <1>5. Same(k, s) /\ Shape(s)
    BY Zenon, <1>3, <1>4, SendSame, SameFacts
  <1> HIDE DEF s
  <1>6. Shape(d) /\ d.txq = s.txq /\ Kept(s, d) /\ d.timer = TRUE /\ d.rexmit = FALSE
    BY Zenon, <1>5, ArmFacts DEF Kept
  <1> HIDE DEF d
  <1>7. d.txq = <<>> /\ d.src = addr /\ d.dst = m.src /\ d.told = 0 /\ d.st = "cr"
    BY <1>3, <1>5, <1>6 DEF Same, Kept
  <1>8. Good(d)
    BY SMTT(30), <1>6, <1>7 DEF Good, Phase
  <1> QED
    BY <1>1, <1>6, <1>7, <1>8 DEF Shape

(* A link that has been running for a while.                                *)
-----------------------------------------------------------------------------
(* The free addresses and those in use differ in their low parts, which     *)
(* return_id keeps.                                                         *)
Low(a) == a % Block

IdsOK(q, S) ==
    /\ q \in Seq(Addrs) /\ S \subseteq Addrs /\ IsFiniteSet(S)
    /\ \A k \in 1 .. Len(q) : Low(q[k]) # 0 /\ \A a \in S : Low(a) # Low(q[k])
    /\ \A j, k \in 1 .. Len(q) : Low(q[j]) = Low(q[k]) => j = k
    /\ \A a \in S : Low(a) # 0
    /\ \A a, b \in S : Low(a) = Low(b) => a = b
    /\ Len(q) + Cardinality(S) = MaxConns
    /\ EvenBlocks

(* The fields of a node's tables.                                           *)
TableFields == {"conns", "byRemote", "free", "closed"}

(* by_remote_ holds links that the other side opened.                       *)
Inbound(t, x) ==
    /\ t.byRemote[x] \in DOMAIN t.conns
    /\ t.conns[t.byRemote[x]].dst = x /\ t.conns[t.byRemote[x]].st \notin {"ci", "cd"}

(* The tables while a handler holds the connection at address a.            *)
Loose(t, a) ==
    /\ DOMAIN t = TableFields
    /\ IdsOK(t.free, DOMAIN t.conns \cup {a})
    /\ \A b \in DOMAIN t.conns \ {a} : Good(t.conns[b]) /\ t.conns[b].src = b
    /\ \A x \in DOMAIN t.byRemote : t.byRemote[x] # a => Inbound(t, x)
    /\ \A c \in t.closed : ClosedOK(c)

(* The connection that the handler leaves.                                  *)
Fileable(t, a, c) ==
    /\ c.src = a /\ DOMAIN c = ConnFields /\ ((Good(c) /\ c.st # "cl") \/ Over(c))
    /\ \A x \in DOMAIN t.byRemote :
          t.byRemote[x] = a => c.dst = x /\ c.st \notin {"ci", "cd"}

(* The tables of a node between handlers.                                   *)
TableOK(t) ==
    /\ DOMAIN t = TableFields
    /\ IdsOK(t.free, DOMAIN t.conns)
    /\ \A b \in DOMAIN t.conns : Good(t.conns[b]) /\ t.conns[b].src = b
    /\ \A x \in DOMAIN t.byRemote : Inbound(t, x)
    /\ \A c \in t.closed : ClosedOK(c)

(* What a step of a node may do to its links.                               *)
TableStep(t, u) ==
    TableOK(u) /\ \A b \in DOMAIN t.conns \cap DOMAIN u.conns : Within(t.conns[b], u.conns[b])
-----------------------------------------------------------------------------
(* A link that has been running for a while is good.                        *)
LEMMA OldLinkFacts ==
  ASSUME NEW src, NEW dst, NEW s \in Nat, NEW flow
  PROVE  LET d == OldLink(src, dst, s, flow) IN Good(d) /\ d.src = src /\ d.dst = dst /\ d.st = "run"
  <1> DEFINE c == New(src)
             d == OldLink(src, dst, s, flow)
  <1>1. Shape(c) /\ c.txq = <<>> /\ c.src = src /\ c.told = 0 /\ DOMAIN c = ConnFields
    BY NewFacts
  <1>2. d = [c EXCEPT !.st = "run", !.dst = dst, !.nextSend = s, !.nextExpect = s,
                     !.nextSeg = s, !.nextMsg = s, !.maxAcked = s - 1,
                     !.flow = flow, !.maxSeg = s - 1, !.maxMsg = s - 1,
                     !.intSend = s, !.intExpect = s, !.intMsg = s, !.intMax = s]
    BY Zenon DEF OldLink
  <1> HIDE DEF c, d
  <1>3. /\ DOMAIN d = ConnFields /\ d.txq = <<>> /\ d.src = src /\ d.dst = dst /\ d.told = 0
        /\ d.st = "run" /\ d.timer = c.timer /\ d.rexmit = c.rexmit /\ d.xon = c.xon
        /\ d.nextSeg = s /\ d.nextMsg = s
    BY Zenon, <1>1, <1>2 DEF ConnFields
  <1>4. Len(d.txq) = 0 /\ Listed(d.txq) /\ DOMAIN d.txq = {}
    BY <1>3, ListedEmpty
  <1>5. Queue(d) /\ AllData(d) /\ ~Flying(d) /\ Sendable(d) = {}
    BY <1>4 DEF Queue, AllData, Flying, Sendable
  <1>6. Running(d)
    BY <1>1, <1>3, <1>5 DEF Running, Shape, Timed
  <1> QED
    BY <1>3, <1>6 DEF Good, Phase, Running, d
-----------------------------------------------------------------------------
(* Link addresses.                                                          *)
LEMMA DivMod ==
  ASSUME NEW a \in Nat, NEW b \in Nat, b > 0
  PROVE  a = b * (a \div b) + (a % b) /\ a % b \in 0 .. b - 1 /\ a \div b \in Nat
  <1>1. a % b \in 0 .. b - 1
    OBVIOUS
  <1>2. a \div b \in Nat
    OBVIOUS
  <1>3. a = b * (a \div b) + (a % b)
    OBVIOUS
  <1> QED
    BY <1>1, <1>2, <1>3

(* Quotient and remainder are unique.                                       *)
LEMMA ModUnique ==
  ASSUME NEW b \in Nat, b > 0, NEW q1 \in Int, NEW q2 \in Int,
         NEW r1 \in 0 .. b - 1, NEW r2 \in 0 .. b - 1, b * q1 + r1 = b * q2 + r2
  PROVE  r1 = r2
  <1>1. CASE q1 > q2
    <2>1. b * (q1 - q2) >= b
      BY <1>1
    <2>2. b * (q1 - q2) = r2 - r1
      OBVIOUS
    <2> QED
      BY <2>1, <2>2
  <1>2. CASE q1 < q2
    <2>1. b * (q2 - q1) >= b
      BY <1>2
    <2>2. b * (q2 - q1) = r1 - r2
      OBVIOUS
    <2> QED
      BY <2>1, <2>2
  <1> QED
    BY <1>1, <1>2

(* A multiple of the modulus leaves the remainder.                          *)
LEMMA ModAdd ==
  ASSUME NEW b \in Nat, b > 0, NEW r \in 0 .. b - 1, NEW q \in Nat
  PROVE  (b * q + r) % b = r
  <1> DEFINE y == b * q + r
  <1>1. y \in Nat
    <2>1. b * q \in Nat
      OBVIOUS
    <2> QED
      BY <2>1
  <1> HIDE DEF y
  <1>2. y = b * (y \div b) + (y % b) /\ y % b \in 0 .. b - 1 /\ y \div b \in Nat
    BY <1>1, DivMod
  <1>3. b * q + r = b * (y \div b) + (y % b)
    BY <1>2 DEF y
  <1> DEFINE z == y \div b
             x == y % b
  <1> HIDE DEF z, x
  <1>4. b * q + r = b * z + x /\ x \in 0 .. b - 1 /\ z \in Int /\ q \in Int
    BY <1>2, <1>3 DEF x, z
  <1>5. r = x
    BY <1>4, ModUnique
  <1> QED
    BY <1>5 DEF x, y

(* The low part survives being cut to the width of an address.              *)
LEMMA LowCut ==
  ASSUME EvenBlocks, NEW y \in Nat
  PROVE  y % AddrMod \in Addrs /\ Low(y % AddrMod) = Low(y)
  <1> DEFINE M == AddrMod
             B == Block
             u == y \div M
             v == y % M
             h == v \div B
             l == v % B
             g == M \div B
  <1>1. M \in Nat /\ M > 0 /\ B \in Nat /\ B > 0 /\ M % B = 0
    BY TablesAssumption DEF Block, EvenBlocks
  <1>2. y = M * u + v /\ v \in 0 .. M - 1 /\ u \in Nat
    BY <1>1, DivMod
  <1>3. v = B * h + l /\ l \in 0 .. B - 1 /\ h \in Nat
    BY <1>1, <1>2, DivMod
  <1>4. M = B * g /\ g \in Nat
    <2>1. M = B * g + (M % B) /\ g \in Nat
      BY <1>1, DivMod
    <2> HIDE DEF g, B
    <2>2. B * g \in Nat
      BY <1>1, <2>1
    <2> QED
      BY <1>1, <2>1, <2>2
  <1> HIDE DEF B, M, u, v, h, l, g
  <1>5. y = B * (g * u + h) + l
    <2>1. M * u = B * (g * u)
      BY <1>1, <1>2, <1>4
    <2>2. B * (g * u + h) = B * (g * u) + B * h
      BY <1>1, <1>2, <1>3, <1>4
    <2>3. B * (g * u) \in Nat /\ B * h \in Nat
      <3>1. g * u \in Nat
        BY <1>2, <1>4
      <3>2. \A z \in Nat : B * z \in Nat
        BY <1>1
      <3> QED
        BY <1>3, <3>1, <3>2
    <2> QED
      BY SMTT(30), <1>2, <1>3, <2>1, <2>2, <2>3
  <1>6. g * u + h \in Nat
    BY <1>2, <1>3, <1>4
  <1>7. y % B = l
    <2> DEFINE q == g * u + h
    <2> HIDE DEF q
    <2>1. q \in Nat /\ y = B * q + l
      BY <1>5, <1>6 DEF q
    <2> QED
      BY <1>1, <1>3, <2>1, ModAdd
  <1> QED
    BY <1>2, <1>7 DEF Low, Addrs, v, l, B, M

(* return_id keeps the low part of an address.                              *)
LEMMA ReturnIdFacts ==
  ASSUME EvenBlocks, NEW id \in Addrs
  PROVE  ReturnId(id) \in Addrs /\ Low(ReturnId(id)) = Low(id)
  <1> DEFINE B == Block
             h == id \div B
             l == id % B
  <1>1. B \in Nat /\ B > 0 /\ id \in Nat
    BY TablesAssumption DEF Block, Addrs
  <1>2. id = B * h + l /\ l \in 0 .. B - 1 /\ h \in Nat
    BY <1>1, DivMod
  <1> HIDE DEF B, h, l
  <1>3. id + B = B * (h + 1) + l /\ h + 1 \in Nat
    <2>1. B * (h + 1) = B * h + B
      BY <1>1, <1>2
    <2>2. B * h \in Nat
      BY <1>1, <1>2
    <2> QED
      BY <1>1, <1>2, <2>1, <2>2
  <1>4. (id + B) % B = l
    <2> DEFINE q == h + 1
    <2> HIDE DEF q
    <2>1. q \in Nat /\ id + B = B * q + l
      BY <1>3 DEF q
    <2>2. (B * q + l) % B = l
      BY <1>1, <1>2, <2>1, ModAdd
    <2> QED
      BY <2>1, <2>2, Zenon
  <1>5. (id + B) % AddrMod \in Addrs /\ Low((id + B) % AddrMod) = Low(id + B)
    BY <1>1, LowCut
  <1> QED
    BY <1>4, <1>5 DEF ReturnId, Low, B, l

(* init_ids gives the i-th address the low part i.                          *)
LEMMA InitIdsFacts ==
  ASSUME EvenBlocks, NEW high, \A i \in 1 .. MaxConns : high[i] \in Nat
  PROVE  IdsOK(InitIds(high), {})
  <1> DEFINE q == InitIds(high)
             id(i) == (i + high[i] * Block) % AddrMod
  <1>1. MaxConns \in Nat /\ Block \in Nat /\ Block > 0 /\ Block = MaxConns + 1
    BY TablesAssumption DEF Block
  <1>2. q = [i \in 1 .. MaxConns |-> id(i)]
    BY Zenon DEF InitIds
  <1>3. \A i \in 1 .. MaxConns : id(i) \in Addrs /\ Low(id(i)) = i
    <2> TAKE i \in 1 .. MaxConns
    <2> DEFINE h == high[i]
               B == Block
               y == i + h * B
    <2>1. h \in Nat /\ B \in Nat /\ B > 0 /\ i \in 0 .. B - 1
      BY <1>1
    <2> HIDE DEF h, B
    <2>2. y = B * h + i /\ y \in Nat
      <3>1. h * B = B * h /\ B * h \in Nat
        BY <2>1
      <3> QED
        BY <2>1, <3>1
    <2> HIDE DEF y
    <2>3. y % B = i
      BY <2>1, <2>2, ModAdd
    <2>4. y % AddrMod \in Addrs /\ Low(y % AddrMod) = Low(y)
      BY <2>2, LowCut
    <2> QED
      BY <2>3, <2>4 DEF Low, y, h, B
  <1> HIDE DEF q, id
  <1>4. q \in Seq(Addrs) /\ Len(q) = MaxConns /\ \A i \in 1 .. MaxConns : q[i] = id(i)
    BY <1>1, <1>2, <1>3
  <1>5. \A i \in 1 .. Len(q) : Low(q[i]) = i
    BY <1>3, <1>4
  <1>6. IsFiniteSet({}) /\ Cardinality({}) = 0
    BY FS_EmptySet
  <1>7. \A k \in 1 .. Len(q) : Low(q[k]) # 0
    BY <1>4, <1>5
  <1>8. \A j, k \in 1 .. Len(q) : Low(q[j]) = Low(q[k]) => j = k
    BY <1>5
  <1>9. Len(q) + Cardinality({}) = MaxConns
    BY <1>1, <1>4, <1>6
  <1> QED
    BY <1>4, <1>6, <1>7, <1>8, <1>9 DEF IdsOK, q

(* get_id and return_id.                                                    *)
LEMMA TakeId ==
  ASSUME NEW q, NEW S, IdsOK(q, S), q # <<>>
  PROVE  IdsOK(Tail(q), S \cup {Head(q)}) /\ Head(q) \notin S
  <1> DEFINE a == Head(q)
             p == Tail(q)
             T == S \cup {a}
  <1>1. q \in Seq(Addrs) /\ Len(q) \in Nat /\ Len(q) > 0
    BY EmptySeq, LenProperties DEF IdsOK
  <1>2. /\ p \in Seq(Addrs) /\ Len(p) = Len(q) - 1 /\ a = q[1] /\ a \in Addrs
        /\ \A k \in 1 .. Len(p) : p[k] = q[k + 1] /\ k + 1 \in 1 .. Len(q) /\ k + 1 # 1
    BY <1>1, HeadTailProperties
  <1> HIDE DEF a, p
  <1>3. 1 \in 1 .. Len(q)
    BY <1>1
  <1>4. a \notin S
    BY <1>2, <1>3 DEF IdsOK
  <1>5. IsFiniteSet(T) /\ Cardinality(T) = Cardinality(S) + 1 /\ Cardinality(S) \in Nat
    BY <1>4, FS_AddElement, FS_CardinalityType DEF IdsOK
  <1>6. Len(p) + Cardinality(T) = MaxConns
    BY <1>1, <1>2, <1>5 DEF IdsOK
  <1>7. \A k \in 1 .. Len(p) : Low(p[k]) # 0 /\ \A b \in T : Low(b) # Low(p[k])
    BY <1>2, <1>3 DEF IdsOK
  <1>8. \A j, k \in 1 .. Len(p) : Low(p[j]) = Low(p[k]) => j = k
    <2> TAKE j, k \in 1 .. Len(p)
    <2> HAVE Low(p[j]) = Low(p[k])
    <2>1. j + 1 = k + 1
      BY <1>2 DEF IdsOK
    <2> QED
      BY <2>1
  <1>9. (\A b \in T : Low(b) # 0) /\ (\A b, c \in T : Low(b) = Low(c) => b = c) /\ T \subseteq Addrs
    BY <1>2, <1>3 DEF IdsOK
  <1> HIDE DEF T
  <1>10. IdsOK(p, T)
    BY <1>2, <1>5, <1>6, <1>7, <1>8, <1>9 DEF IdsOK
  <1> QED
    BY <1>4, <1>10 DEF T, a, p

(* return_id puts the address of a closed link back, under another high     *)
(* part.                                                                    *)
LEMMA GiveId ==
  ASSUME NEW q, NEW T, IdsOK(q, T), NEW a \in T
  PROVE  IdsOK(Append(q, ReturnId(a)), T \ {a})
  <1> DEFINE r == ReturnId(a)
             p == Append(q, r)
             S == T \ {a}
  <1>1. q \in Seq(Addrs) /\ Len(q) \in Nat /\ a \in Addrs
    BY LenProperties DEF IdsOK
  <1>2. r \in Addrs /\ Low(r) = Low(a)
    BY <1>1, ReturnIdFacts DEF IdsOK
  <1> HIDE DEF r
  <1>3. /\ p \in Seq(Addrs) /\ Len(p) = Len(q) + 1 /\ p[Len(q) + 1] = r
        /\ \A k \in 1 .. Len(q) : p[k] = q[k]
    BY <1>1, <1>2, AppendProperties
  <1> HIDE DEF p
  <1>4. \A k \in 1 .. Len(p) : k \in 1 .. Len(q) \/ k = Len(q) + 1
    BY <1>1, <1>3
  <1>5. IsFiniteSet(S) /\ Cardinality(S) = Cardinality(T) - 1 /\ Cardinality(T) \in Nat
    BY FS_RemoveElement, FS_CardinalityType DEF IdsOK
  <1>6. Len(p) + Cardinality(S) = MaxConns
    BY <1>1, <1>3, <1>5 DEF IdsOK
  <1>7. \A k \in 1 .. Len(p) : Low(p[k]) # 0 /\ \A b \in S : Low(b) # Low(p[k])
    <2> TAKE k \in 1 .. Len(p)
    <2>1. CASE k \in 1 .. Len(q)
      BY <1>3, <2>1 DEF IdsOK
    <2>2. CASE k = Len(q) + 1
      BY <1>2, <1>3, <2>2 DEF IdsOK
    <2> QED
      BY <1>4, <2>1, <2>2
  <1>8. \A j, k \in 1 .. Len(p) : Low(p[j]) = Low(p[k]) => j = k
    <2> TAKE j, k \in 1 .. Len(p)
    <2>1. CASE j \in 1 .. Len(q) /\ k \in 1 .. Len(q)
      BY <1>3, <2>1 DEF IdsOK
    <2>2. CASE j \in 1 .. Len(q) /\ k = Len(q) + 1
      BY <1>2, <1>3, <2>2 DEF IdsOK
    <2>3. CASE k \in 1 .. Len(q) /\ j = Len(q) + 1
      BY ZenonT(30), <1>2, <1>3, <2>3 DEF IdsOK
    <2> QED
      BY <1>4, <2>1, <2>2, <2>3
  <1>9. (\A b \in S : Low(b) # 0) /\ (\A b, c \in S : Low(b) = Low(c) => b = c) /\ S \subseteq Addrs
    BY DEF IdsOK
  <1> HIDE DEF S
  <1>10. IdsOK(p, S)
    BY SMTT(30), <1>3, <1>5, <1>6, <1>7, <1>8, <1>9 DEF IdsOK
  <1> QED
    BY <1>10 DEF S, p, r
-----------------------------------------------------------------------------
(* The tables.                                                              *)
(* A connection goes back to its table, or out of it for good.              *)
LEMMA FiledFacts ==
  ASSUME NEW t, NEW a, Loose(t, a), NEW c, Fileable(t, a, c)
  PROVE  LET u == Filed(t, c) IN
         /\ TableOK(u)
         /\ \A b \in DOMAIN u.conns : b # a => b \in DOMAIN t.conns /\ u.conns[b] = t.conns[b]
         /\ a \in DOMAIN u.conns => u.conns[a] = [c EXCEPT !.out = <<>>]
  <1> DEFINE d == [c EXCEPT !.out = <<>>]
             u == Filed(t, c)
  <1>a. c.src = a /\ DOMAIN c = ConnFields /\ ((Good(c) /\ c.st # "cl") \/ Over(c))
    BY DEF Fileable
  <1>b. \A x \in DOMAIN t.byRemote :
           t.byRemote[x] = a => c.dst = x /\ c.st \notin {"ci", "cd"}
    BY DEF Fileable
  <1>1. Same(c, d) /\ d.why = c.why /\ DOMAIN d = ConnFields
    BY <1>a DEF Same, ConnFields
  <1>2. a \in DOMAIN t.conns \cup {a} /\ DOMAIN t = TableFields
    BY DEF Loose
  <1>3. CASE c.st = "cl"
    <2> DEFINE cs == Restrict(t.conns, DOMAIN t.conns \ {d.src})
               br == Restrict(t.byRemote, DOMAIN t.byRemote \ {d.dst})
               fr == Append(t.free, ReturnId(d.src))
               cl == t.closed \cup {Ended(d)}
    <2>1. u = [t EXCEPT !.byRemote = br, !.free = fr, !.closed = cl, !.conns = cs]
      BY <1>3, Zenon DEF Filed, Retire
    <2>a. d.src = a /\ d.dst = c.dst
      BY <1>1, <1>a DEF Same
    <2> HIDE DEF d
    <2>2. DOMAIN cs = DOMAIN t.conns \ {a} /\ \A b \in DOMAIN cs : cs[b] = t.conns[b]
      BY <2>a DEF Restrict
    <2>3. DOMAIN br = DOMAIN t.byRemote \ {c.dst} /\ \A x \in DOMAIN br : br[x] = t.byRemote[x]
      BY <2>a DEF Restrict
    <2>4. IdsOK(fr, DOMAIN cs)
      <3>1. IdsOK(Append(t.free, ReturnId(a)), (DOMAIN t.conns \cup {a}) \ {a})
        BY <1>2, GiveId DEF Loose
      <3>2. (DOMAIN t.conns \cup {a}) \ {a} = DOMAIN cs
        BY <2>2
      <3> QED
        BY <2>a, <3>1, <3>2
    <2>5. \A e \in cl : ClosedOK(e)
      <3>1. Ended(d).told = c.told /\ Ended(d).why = c.why
        BY <1>1 DEF Ended, Same
      <3>2. ClosedOK(c)
        BY <1>3, <1>a DEF Over
      <3>3. ClosedOK(Ended(d))
        BY <3>1, <3>2 DEF ClosedOK
      <3> QED
        BY <3>3 DEF Loose
    <2> HIDE DEF cs, br, fr, cl, d, u
    <2>6. DOMAIN u = TableFields /\ u.conns = cs /\ u.byRemote = br /\ u.free = fr /\ u.closed = cl
      BY <1>2, <2>1 DEF TableFields
    <2>7. \A b \in DOMAIN cs : Good(cs[b]) /\ cs[b].src = b
      BY <2>2 DEF Loose
    <2>8. ASSUME NEW x \in DOMAIN br
          PROVE  Inbound(u, x)
      <3>1. x \in DOMAIN t.byRemote /\ x # c.dst /\ br[x] = t.byRemote[x]
        BY <2>3
      <3>2. t.byRemote[x] # a
        BY <1>b, <3>1
      <3>3. Inbound(t, x)
        BY <3>1, <3>2 DEF Loose
      <3> QED
        BY SMTT(30), <2>2, <2>6, <3>1, <3>2, <3>3 DEF Inbound
    <2>9. TableOK(u)
      BY SMTT(30), <2>4, <2>5, <2>6, <2>7, <2>8 DEF TableOK
    <2> QED
      BY <2>2, <2>6, <2>9 DEF u
  <1>4. CASE c.st # "cl"
    <2> DEFINE cs == Enter(t.conns, a, d)
    <2>1. u = [t EXCEPT !.conns = cs]
      BY <1>4, <1>a, Zenon DEF Filed
    <2>2. /\ DOMAIN cs = DOMAIN t.conns \cup {a} /\ cs[a] = d
          /\ \A b \in DOMAIN t.conns : b # a => cs[b] = t.conns[b]
      <3> HIDE DEF d
      <3> QED
        BY DEF Enter
    <2>3. Good(d) /\ d.src = a /\ d.dst = c.dst /\ d.st = c.st
      <3>1. LinkStep(c, d)
        BY <1>1, <1>4, <1>a, SameLink DEF Over
      <3> QED
        BY <1>1, <1>4, <1>a, <3>1 DEF LinkStep, Same, Over
    <2> HIDE DEF cs, d, u
    <2>4. /\ DOMAIN u = TableFields /\ u.conns = cs /\ u.byRemote = t.byRemote
          /\ u.free = t.free /\ u.closed = t.closed
      BY SMTT(30), <1>2, <2>1 DEF TableFields
    <2>5. \A b \in DOMAIN cs : Good(cs[b]) /\ cs[b].src = b
      BY <2>2, <2>3 DEF Loose
    <2>6. ASSUME NEW x \in DOMAIN t.byRemote
          PROVE  Inbound(u, x)
      <3>1. CASE t.byRemote[x] = a
        BY SMTT(30), <1>b, <2>2, <2>3, <2>4, <3>1 DEF Inbound
      <3>2. CASE t.byRemote[x] # a
        BY SMTT(30), <2>2, <2>4, <3>2 DEF Inbound, Loose
      <3> QED
        BY <3>1, <3>2
    <2>7. TableOK(u)
      BY <2>2, <2>4, <2>5, <2>6 DEF TableOK, Loose
    <2> QED
      BY <2>2, <2>4, <2>7 DEF u, d
  <1> QED
    BY <1>3, <1>4

(* A step of a link in the table.                                           *)
LEMMA LinkFiled ==
  ASSUME NEW t, TableOK(t), NEW a \in DOMAIN t.conns, NEW c, LinkStep(t.conns[a], c)
  PROVE  TableStep(t, Filed(t, c))
  <1> DEFINE o == t.conns[a]
             u == Filed(t, c)
  <1>1. Good(o) /\ o.src = a
    BY DEF TableOK
  <1>2. DOMAIN t.conns \cup {a} = DOMAIN t.conns
    OBVIOUS
  <1>3. Loose(t, a)
    BY SMTT(30), <1>2 DEF TableOK, Loose
  <1>4. c.src = a /\ DOMAIN c = ConnFields /\ ((Good(c) /\ c.st # "cl") \/ Over(c))
    BY <1>1, GoodDomain DEF LinkStep, Over
  <1>5. Fileable(t, a, c)
    <2>1. \A x \in DOMAIN t.byRemote : t.byRemote[x] = a => c.dst = x /\ c.st \notin {"ci", "cd"}
      BY DEF TableOK, Inbound, LinkStep
    <2> QED
      BY SMTT(30), <1>4, <2>1 DEF Fileable
  <1>6. /\ TableOK(u)
        /\ \A b \in DOMAIN u.conns : b # a => b \in DOMAIN t.conns /\ u.conns[b] = t.conns[b]
        /\ a \in DOMAIN u.conns => u.conns[a] = [c EXCEPT !.out = <<>>]
    BY SMTT(30), <1>3, <1>5, FiledFacts
  <1>7. Over(c) => a \notin DOMAIN u.conns
    <2>1. ASSUME Over(c), a \in DOMAIN u.conns
          PROVE  FALSE
      <3> DEFINE d == [c EXCEPT !.out = <<>>]
      <3>1. d.st = "cl"
        BY <2>1 DEF Over, ConnFields
      <3> HIDE DEF d, u
      <3>2. u.conns[a] = d
        BY <1>6, <2>1 DEF d
      <3>3. Good(u.conns[a])
        BY SMTT(30), <1>6, <2>1 DEF TableOK
      <3> QED
        BY SMTT(30), <3>1, <3>2, <3>3, GoodDomain
    <2> QED
      BY <2>1
  <1> HIDE DEF u, o
  <1>8. ASSUME NEW b \in DOMAIN t.conns \cap DOMAIN u.conns
        PROVE  Within(t.conns[b], u.conns[b])
    <2>1. CASE b # a
      BY <1>6, <2>1, WithinSelf
    <2>2. CASE b = a
      <3> DEFINE d == [c EXCEPT !.out = <<>>]
      <3>1. Same(c, d)
        BY <1>4 DEF Same, ConnFields
      <3> HIDE DEF d
      <3>2. Within(o, c)
        BY SMTT(30), <1>7, <2>2 DEF LinkStep, o
      <3>3. Within(o, d)
        BY <3>1, <3>2, SameFacts
      <3> QED
        BY <1>6, <2>2, <3>3 DEF o, d
    <2> QED
      BY <2>1, <2>2
  <1> QED
    BY SMTT(30), <1>6, <1>8 DEF TableStep, u

(* A new link takes the first free address.                                 *)
LEMMA NewFiled ==
  ASSUME NEW t, TableOK(t), t.free # <<>>, NEW c, c.src = Head(t.free), DOMAIN c = ConnFields,
         (Good(c) /\ c.st # "cl") \/ Over(c), NEW v, DOMAIN v = TableFields,
         v.free = Tail(t.free), v.conns = t.conns, v.closed = t.closed,
         \/ v.byRemote = t.byRemote
         \/ c.st \notin {"ci", "cd"} /\ v.byRemote = Enter(t.byRemote, c.dst, Head(t.free))
  PROVE  TableStep(t, Filed(v, c))
  <1> DEFINE a == Head(t.free)
             tl == Tail(t.free)
             br == v.byRemote
             u == Filed(v, c)
  <1>1. IdsOK(tl, DOMAIN t.conns \cup {a}) /\ a \notin DOMAIN t.conns
    BY Zenon, TakeId DEF TableOK
  <1>2. /\ DOMAIN v = TableFields /\ v.free = tl /\ v.byRemote = br /\ v.conns = t.conns
        /\ v.closed = t.closed
    OBVIOUS
  <1> HIDE DEF a, tl, br
  <1>3. ASSUME NEW x \in DOMAIN br
        PROVE  /\ br[x] # a => x \in DOMAIN t.byRemote /\ br[x] = t.byRemote[x]
               /\ br[x] = a => c.dst = x /\ c.st \notin {"ci", "cd"}
    <2>1. \A y \in DOMAIN t.byRemote : t.byRemote[y] # a
      BY <1>1 DEF TableOK, Inbound
    <2>2. CASE br = t.byRemote
      BY SMTT(30), <2>1, <2>2
    <2>3. CASE c.st \notin {"ci", "cd"} /\ br = Enter(t.byRemote, c.dst, a)
      <3>1. /\ DOMAIN br = DOMAIN t.byRemote \cup {c.dst} /\ br[c.dst] = a
            /\ \A y \in DOMAIN t.byRemote : y # c.dst => br[y] = t.byRemote[y]
        BY <2>3 DEF Enter
      <3>2. CASE x = c.dst
        BY SMTT(30), <2>3, <3>1, <3>2
      <3>3. CASE x # c.dst
        BY SMTT(30), <2>1, <3>1, <3>3
      <3> QED
        BY SMTT(30), <3>2, <3>3
    <2> QED
      BY SMTT(30), <2>2, <2>3 DEF a, br
  <1>4. Loose(v, a)
    <2>1. \A x \in DOMAIN v.byRemote : v.byRemote[x] # a => Inbound(v, x)
      BY <1>2, <1>3 DEF TableOK, Inbound
    <2>2. \A b \in DOMAIN v.conns \ {a} : Good(v.conns[b]) /\ v.conns[b].src = b
      BY <1>2 DEF TableOK
    <2>3. \A e \in v.closed : ClosedOK(e)
      BY <1>2 DEF TableOK
    <2> QED
      BY SMTT(30), <1>1, <1>2, <2>1, <2>2, <2>3 DEF Loose
  <1>5. /\ TableOK(u)
        /\ \A b \in DOMAIN u.conns : b # a => b \in DOMAIN v.conns /\ u.conns[b] = v.conns[b]
        /\ a \in DOMAIN u.conns => u.conns[a] = [c EXCEPT !.out = <<>>]
    <2>1. c.src = a
      BY DEF a
    <2>2. \A x \in DOMAIN v.byRemote : v.byRemote[x] = a => c.dst = x /\ c.st \notin {"ci", "cd"}
      BY <1>2, <1>3
    <2>3. Fileable(v, a, c)
      BY <2>1, <2>2 DEF Fileable
    <2> QED
      BY <1>4, <2>3, FiledFacts
  <1> HIDE DEF u
  <1>6. ASSUME NEW b \in DOMAIN t.conns \cap DOMAIN u.conns
        PROVE  Within(t.conns[b], u.conns[b])
    <2>1. b # a
      BY <1>1
    <2> QED
      BY <1>2, <1>5, <2>1, WithinSelf
  <1> QED
    BY <1>5, <1>6 DEF TableStep, u
(* The tables at the start: nothing, or one link that has been running.     *)
LEMMA FreshFacts ==
  ASSUME EvenBlocks, NEW high, \A i \in 1 .. MaxConns : high[i] \in Nat
  PROVE  TableOK(Fresh(high)) /\ DOMAIN Fresh(high).conns = {} /\ Fresh(high).free # <<>>
  <1> DEFINE t == Fresh(high)
             q == InitIds(high)
  <1>1. IdsOK(q, {})
    BY InitIdsFacts
  <1>2. q # <<>>
    <2>1. q \in Seq(Addrs) /\ Len(q) + 0 = MaxConns /\ Len(q) \in Nat
      BY <1>1, FS_EmptySet, LenProperties DEF IdsOK
    <2> QED
      BY <2>1, TablesAssumption
  <1> HIDE DEF q
  <1>3. DOMAIN Empty = {}
    BY DEF Empty
  <1>4. /\ DOMAIN t = TableFields /\ t.conns = Empty /\ t.byRemote = Empty /\ t.free = q
        /\ t.closed = {}
    BY DEF Fresh, TableFields, q
  <1> HIDE DEF t
  <1>5. TableOK(t)
    BY <1>1, <1>3, <1>4 DEF TableOK
  <1> QED
    BY <1>2, <1>3, <1>4, <1>5 DEF t
=============================================================================
