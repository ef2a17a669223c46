-------------------------- MODULE NspSending_proof --------------------------
(***************************************************************************)
(* Proofs about an NSP link that is running: what every handler of         *)
(* Connection does to the transmit queue, to the timer, and within which   *)
(* credit, for every modulus, window and retry limit.                      *)
(*                                                                         *)
(* What is in flight stands at the front of the queue (Queue), and while   *)
(* anything is in flight the timer is armed to send it again (Timed).  A   *)
(* running link has no segment left that it may send (Running).  Each      *)
(* handler is shown to lead from one running state to another, and to mark *)
(* as sent only what the credit before or after it allows (Within).  Most  *)
(* of them, acknowledgements, negative ones and new credit, end in         *)
(* send_blocked, so the facts about that are the heart of it               *)
(* (SendBlockedFacts).                                                     *)
(***************************************************************************)
EXTENDS NspConnection, SequenceTheorems, FiniteSetTheorems, WellFoundedInduction, TLAPS

(* The fields of a Connection, and of an entry of its transmit queue.       *)
ConnFields ==
    {"st", "src", "dst", "nextSend", "nextExpect", "txq", "nextSeg", "nextMsg", "maxAcked",
     "flow", "maxSeg", "maxMsg", "xon", "cwnd", "ssthresh", "nakFrom", "ooo", "ackPending",
     "assembly", "assembling", "intSend", "intExpect", "intTxq", "intMsg", "intMax",
     "timer", "rexmit", "retries", "out", "said", "got", "gotInt", "told", "why"}

EntryFields == {"seq", "seg", "msg", "sent", "data", "frame"}

(* A sequence, whatever is in it.                                           *)
Listed(q) == \E S : q \in Seq(S)

TxEntry(e) ==
    DOMAIN e = EntryFields /\ e.sent \in BOOLEAN /\ e.data \in BOOLEAN
    /\ e.seg \in Nat /\ e.msg \in Nat

(* The transmit queue: what has been sent comes first, and segments are in  *)
(* the order of their absolute numbers.                                     *)
Queue(c) ==
    /\ Listed(c.txq)
    /\ \A k \in 1 .. Len(c.txq) : TxEntry(c.txq[k])
    /\ \A k \in 1 .. Len(c.txq) : c.txq[k].data => c.txq[k].seg < c.nextSeg
    /\ \A j, k \in 1 .. Len(c.txq) :
          j < k /\ c.txq[j].data /\ c.txq[k].data => c.txq[j].seg < c.txq[k].seg
    /\ \A j, k \in 1 .. Len(c.txq) : j < k /\ c.txq[k].sent => c.txq[j].sent

(* The fields have their types and the queue is in order.                   *)
Shape(c) ==
    /\ DOMAIN c = ConnFields
    /\ c.timer \in BOOLEAN /\ c.rexmit \in BOOLEAN /\ c.xon \in BOOLEAN
    /\ c.nextSeg \in Nat /\ c.nextMsg \in Nat
    /\ Queue(c)

(* Something is in flight.                                                  *)
Flying(c) == \E k \in 1 .. Len(c.txq) : c.txq[k].sent

(* A link that is being opened holds its connect message and nothing else.  *)
Controls(c) ==
    \A k \in 1 .. Len(c.txq) : ~c.txq[k].data /\ c.txq[k].sent /\ c.txq[k].seq = 0

(* A running link has only data segments in its queue, and what is in       *)
(* flight is timed.                                                         *)
AllData(c) == \A k \in 1 .. Len(c.txq) : c.txq[k].data

Timed(c) == Flying(c) => c.timer /\ c.rexmit

(* A running link between handlers.                                         *)
Running(c) ==
    Shape(c) /\ c.st = "run" /\ AllData(c) /\ Sendable(c) = {} /\ Timed(c)

Phase(c) ==
    \/ c.st \in {"ci", "cc"} /\ c.txq # <<>> /\ Controls(c) /\ c.timer /\ c.rexmit
    \/ c.st \in {"cd", "cr"} /\ c.txq = <<>> /\ c.timer /\ ~c.rexmit
    \/ Running(c)
    \/ c.st = "di" /\ c.timer /\ ~c.rexmit

(* What a step lets go is within the credit of the state before or after.   *)
Credit(c, d, e) ==
    /\ c.xon \/ d.xon
    /\ c.flow = "seg" => e.seg <= c.maxSeg \/ e.seg <= d.maxSeg
    /\ c.flow = "msg" => e.msg <= c.maxMsg \/ e.msg <= d.maxMsg

(* A segment that was in flight already.                                    *)
WasSent(c, e) ==
    \E j \in 1 .. Len(c.txq) : c.txq[j].seg = e.seg /\ c.txq[j].msg = e.msg /\ c.txq[j].sent

(* Whatever is in flight after the step was so before or has the credit.    *)
Within(c, d) ==
    \A k \in 1 .. Len(d.txq) : d.txq[k].sent /\ d.txq[k].data =>
        WasSent(c, d.txq[k]) \/ Credit(c, d, d.txq[k])

(* Two states of a link that differ in nothing that sending depends on.     *)
Same(c, d) ==
    /\ DOMAIN d = ConnFields
    /\ d.st = c.st /\ d.src = c.src /\ d.dst = c.dst /\ d.told = c.told
    /\ d.txq = c.txq /\ d.nextSeg = c.nextSeg /\ d.nextMsg = c.nextMsg
    /\ d.timer = c.timer /\ d.rexmit = c.rexmit
    /\ d.xon = c.xon /\ d.cwnd = c.cwnd
    /\ d.flow = c.flow /\ d.maxSeg = c.maxSeg /\ d.maxMsg = c.maxMsg

(* Two states with the same state, addresses, numbering and credit.         *)
Kept(c, d) ==
    /\ d.st = c.st /\ d.src = c.src /\ d.dst = c.dst /\ d.told = c.told /\ d.nextSeg = c.nextSeg
    /\ d.xon = c.xon /\ d.flow = c.flow /\ d.maxSeg = c.maxSeg /\ d.maxMsg = c.maxMsg

(* A step of a running link that leaves it running.                         *)
RunStep(c, d) ==
    Running(d) /\ d.src = c.src /\ d.dst = c.dst /\ d.told = c.told /\ d.flow = c.flow /\ Within(c, d)

(* A link in the table.                                                     *)
Good(c) == Shape(c) /\ Phase(c) /\ c.told = 0

(* What session control has been told of a closed link, and a link that is  *)
(* over.                                                                    *)
ClosedOK(c) ==
    /\ c.told \in 0 .. 1
    /\ c.why = "rejected" => c.told = 0
    /\ c.why \notin {"rejected", "abandoned"} => c.told = 1

Over(c) == c.st = "cl" /\ DOMAIN c = ConnFields /\ ClosedOK(c)

(* A step of a link: it stays good, or it is over and session control has   *)
(* been told.  Only a link that was opened from here learns its far end.    *)
LinkStep(c, d) ==
    /\ d.src = c.src
    /\ c.st \notin {"ci", "cd"} => d.dst = c.dst /\ d.st \notin {"ci", "cd"}
    /\ \/ Good(d) /\ d.st # "cl" /\ Within(c, d)
       \/ Over(d)

-----------------------------------------------------------------------------
(* Sequences of entries, whatever the entries are.                          *)
LEMMA ListedFacts ==
  ASSUME NEW q, Listed(q)
  PROVE  Len(q) \in Nat /\ DOMAIN q = 1 .. Len(q) /\ (q = <<>> <=> Len(q) = 0)
  BY DEF Listed

(* The empty queue.                                                         *)
LEMMA ListedEmpty == Listed(<<>>) /\ Len(<<>>) = 0
  <1>1. <<>> \in Seq({})
    OBVIOUS
  <1> QED
    BY <1>1 DEF Listed

(* Queues put one behind the other.                                         *)
LEMMA ListedConcat ==
  ASSUME NEW p, NEW q, Listed(p), Listed(q)
  PROVE  /\ Listed(p \o q) /\ Len(p \o q) = Len(p) + Len(q)
         /\ \A i \in 1 .. Len(p) : (p \o q)[i] = p[i]
         /\ \A i \in 1 .. Len(q) : (p \o q)[Len(p) + i] = q[i]
  <1>1. PICK S : p \in Seq(S)
    BY DEF Listed
  <1>2. PICK T : q \in Seq(T)
    BY DEF Listed
  <1> DEFINE U == S \cup T
  <1>3. p \in Seq(U) /\ q \in Seq(U)
    BY <1>1, <1>2
  <1> HIDE DEF U
  <1>4. /\ p \o q \in Seq(U) /\ Len(p \o q) = Len(p) + Len(q)
        /\ \A i \in 1 .. Len(p) + Len(q) :
              (p \o q)[i] = IF i <= Len(p) THEN p[i] ELSE q[i - Len(p)]
    BY <1>3, ConcatProperties
  <1>5. Len(p) \in Nat /\ Len(q) \in Nat
    BY <1>3
  <1>6. \A i \in 1 .. Len(p) : (p \o q)[i] = p[i]
    BY <1>4, <1>5
  <1>7. \A i \in 1 .. Len(q) : (p \o q)[Len(p) + i] = q[i]
    <2> TAKE i \in 1 .. Len(q)
    <2>1. Len(p) + i \in 1 .. Len(p) + Len(q) /\ ~(Len(p) + i <= Len(p)) /\ Len(p) + i - Len(p) = i
      BY <1>5
    <2> QED
      BY <1>4, <2>1
  <1> QED
    BY <1>4, <1>6, <1>7 DEF Listed

(* A queue with one more entry.                                             *)
LEMMA ListedAppend ==
  ASSUME NEW q, NEW e, Listed(q)
  PROVE  /\ Listed(Append(q, e)) /\ Len(Append(q, e)) = Len(q) + 1
         /\ \A i \in 1 .. Len(q) : Append(q, e)[i] = q[i]
         /\ Append(q, e)[Len(q) + 1] = e
         /\ Append(q, e) # <<>>
  <1>1. PICK S : q \in Seq(S)
    BY DEF Listed
  <1> DEFINE U == S \cup {e}
  <1>2. q \in Seq(U) /\ e \in U
    BY <1>1
  <1> HIDE DEF U
  <1>3. /\ Append(q, e) \in Seq(U) /\ Append(q, e) # <<>> /\ Len(Append(q, e)) = Len(q) + 1
        /\ \A i \in 1 .. Len(q) : Append(q, e)[i] = q[i]
        /\ Append(q, e)[Len(q) + 1] = e
    BY <1>2, AppendProperties
  <1> QED
    BY <1>3 DEF Listed

(* What is left of a queue when its first n entries are taken off.          *)
LEMMA ListedRest ==
  ASSUME NEW q, Listed(q), NEW n \in 0 .. Len(q)
  PROVE  LET r == SubSeq(q, n + 1, Len(q)) IN
         /\ Listed(r) /\ Len(r) = Len(q) - n
         /\ \A i \in 1 .. Len(r) : r[i] = q[i + n] /\ i + n \in 1 .. Len(q)
  <1>1. PICK S : q \in Seq(S)
    BY DEF Listed
  <1>2. Len(q) \in Nat
    BY <1>1
  <1> DEFINE r == SubSeq(q, n + 1, Len(q))
  <1>3. CASE n = Len(q)
    <2>1. r \in Seq(S) /\ Len(r) = 0
      BY <1>1, <1>2, <1>3, SubSeqProperties
    <2>2. r = <<>>
      BY <2>1, EmptySeq
    <2> HIDE DEF r
    <2>3. Listed(r) /\ Len(r) = 0 /\ Len(q) - n = 0
      BY <1>2, <1>3, <2>1, <2>2, ListedEmpty
    <2>4. \A i \in 1 .. Len(r) : r[i] = q[i + n] /\ i + n \in 1 .. Len(q)
      BY <2>3
    <2> QED
      BY <2>3, <2>4 DEF r
  <1>4. CASE n < Len(q)
    <2>1. n + 1 \in 1 .. Len(q) /\ Len(q) \in n + 1 .. Len(q) /\ Len(q) \in 1 .. Len(q)
      BY <1>2, <1>4
    <2>2. /\ r \in Seq(S) /\ Len(r) = IF n + 1 <= Len(q) THEN Len(q) - (n + 1) + 1 ELSE 0
          /\ \A i \in 1 .. Len(q) - (n + 1) + 1 : r[i] = q[n + 1 + i - 1]
      BY <1>1, <1>2, <2>1, SubSeqProperties
    <2>3. Len(r) = Len(q) - n
      BY <1>2, <2>1, <2>2
    <2>4. \A i \in 1 .. Len(r) : n + 1 + i - 1 = i + n /\ i \in 1 .. Len(q) - (n + 1) + 1 /\ i + n \in 1 .. Len(q)
      BY <1>2, <2>3
    <2> HIDE DEF r
    <2>5. \A i \in 1 .. Len(r) : r[i] = q[i + n] /\ i + n \in 1 .. Len(q)
      BY <2>2, <2>4
    <2> QED
      BY <2>2, <2>3, <2>5 DEF Listed, r
  <1> QED
    BY <1>2, <1>3, <1>4

(* Every set of naturals that is not empty has a least element, and one     *)
(* with a bound a largest.                                                  *)
LEMMA LessThanWellFounded == IsWellFoundedOn({p \in Nat \X Nat : p[1] < p[2]}, Nat)
  BY NatLessThanWellFounded, Zenon DEF OpToRel

(* A set of numbers that is not empty has a least one.                      *)
LEMMA LeastNumber ==
  ASSUME NEW T, T \subseteq Nat, T # {}
  PROVE  \E x \in T : \A y \in T : x <= y
  <1> DEFINE R == {p \in Nat \X Nat : p[1] < p[2]}
  <1>1. PICK x \in T : \A y \in T : <<y, x>> \notin R
    BY Zenon, LessThanWellFounded, WFMin
  <1>2. ASSUME NEW y \in T PROVE x <= y
    <2>1. x \in Nat /\ y \in Nat /\ <<y, x>> \notin R
      BY <1>1
    <2>2. <<y, x>> \in Nat \X Nat /\ <<y, x>>[1] = y /\ <<y, x>>[2] = x
      BY <2>1
    <2>3. ~(y < x)
      BY <2>1, <2>2
    <2> QED
      BY <2>1, <2>3
  <1> QED
    BY <1>2

(* A bounded set of numbers that is not empty has a largest one.            *)
LEMMA LargestNumber ==
  ASSUME NEW b \in Nat, NEW T, T \subseteq 0 .. b, T # {}
  PROVE  Max(T) \in T /\ \A y \in T : y <= Max(T)
  <1> DEFINE D == {b - t : t \in T}
  <1>1. D \subseteq Nat /\ D # {}
    <2>1. \A t \in T : b - t \in Nat
      OBVIOUS
    <2> QED
      BY Zenon, <2>1
  <1>2. PICK d \in D : \A y \in D : d <= y
    BY Zenon, <1>1, LeastNumber
  <1>3. PICK t \in T : d = b - t
    OBVIOUS
  <1>4. \A y \in T : t >= y
    <2> TAKE y \in T
    <2>1. b - y \in D /\ y \in 0 .. b /\ t \in 0 .. b
      OBVIOUS
    <2> QED
      BY <1>2, <1>3, <2>1
  <1>5. Max(T) \in T /\ \A y \in T : Max(T) >= y
    BY Zenon, <1>4 DEF Max
  <1> QED
    BY <1>5
-----------------------------------------------------------------------------
(* in_flight counts: it is positive when something in the queue is marked   *)
(* sent.                                                                    *)
LEMMA InFlightFacts ==
  ASSUME NEW c, Listed(c.txq)
  PROVE  InFlight(c) \in Nat /\ (InFlight(c) > 0 <=> Flying(c))
  <1> DEFINE F == {k \in DOMAIN c.txq : c.txq[k].sent}
  <1>1. DOMAIN c.txq = 1 .. Len(c.txq) /\ Len(c.txq) \in Nat
    BY ListedFacts
  <1>2. IsFiniteSet(F)
    <2>1. IsFiniteSet(1 .. Len(c.txq))
      BY <1>1, FS_Interval
    <2>2. F \in SUBSET (1 .. Len(c.txq))
      BY <1>1
    <2> HIDE DEF F
    <2> QED
      BY Zenon, <2>1, <2>2, FS_Subset
  <1>3. InFlight(c) = Cardinality(F)
    BY DEF InFlight
  <1>4. Flying(c) <=> F # {}
    BY <1>1 DEF Flying
  <1> HIDE DEF F
  <1> QED
    BY <1>2, <1>3, <1>4, FS_CardinalityType, FS_EmptySet

(* A window of one segment.                                                 *)
LEMMA WindowOne ==
  ASSUME NEW c, c.cwnd = Unit
  PROVE  Window(c) = 1
  <1>1. QMax \in Nat /\ QMax >= 1 /\ Unit \div Unit = 1
    BY ConnectionAssumption DEF Unit
  <1>2. Min({1, QMax}) = 1
    BY <1>1 DEF Min
  <1>3. Max({1, 1}) = 1
    BY DEF Max
  <1> QED
    BY <1>1, <1>2, <1>3 DEF Window

(* Two states that agree on what sending depends on are both running or     *)
(* both not, and let the same segments go.                                  *)
LEMMA SameFacts ==
  ASSUME NEW c, NEW d, Same(c, d)
  PROVE  /\ Shape(c) => Shape(d)
         /\ Running(c) => Running(d)
         /\ \A e : Within(e, c) => Within(e, d)
         /\ \A e : Within(d, e) => Within(c, e)
  <1>1. Shape(c) => Shape(d)
    BY DEF Same, Shape, Queue
  <1>2. Running(c) => Running(d)
    BY Zenon, <1>1 DEF Same, Running, AllData, Sendable, FlowOk, Window, Timed, Flying
  <1>3. \A e : Within(e, c) => Within(e, d)
    BY DEF Same, Within, WasSent, Credit
  <1>4. \A e : Within(d, e) => Within(c, e)
    BY DEF Same, Within, WasSent, Credit
  <1> QED
    BY <1>1, <1>2, <1>3, <1>4

(* A step that sends nothing is within the credit.                          *)
LEMMA WithinSelf ==
  ASSUME NEW c
  PROVE  Within(c, c)
  BY DEF Within, WasSent

(* A step that changes nothing that matters, alone, before or after one     *)
(* that does.                                                               *)
LEMMA SameStep ==
  ASSUME NEW c, NEW d, Same(c, d)
  PROVE  /\ Running(c) => RunStep(c, d)
         /\ \A e : RunStep(e, c) => RunStep(e, d)
         /\ \A e : RunStep(d, e) => RunStep(c, e)
  BY SameFacts, WithinSelf DEF RunStep, Same

(* A sequence made entry by entry.                                          *)
LEMMA ListedMade ==
  ASSUME NEW n \in Nat, NEW f, f = [k \in 1 .. n |-> f[k]]
  PROVE  Listed(f) /\ Len(f) = n
  <1> DEFINE W == {f[k] : k \in 1 .. n}
  <1>1. \A k \in 1 .. n : f[k] \in W
    OBVIOUS
  <1> HIDE DEF W
  <1>2. f \in Seq(W) /\ Len(f) = n
    BY <1>1
  <1> QED
    BY <1>2 DEF Listed

(* Entries marked as sent, or as waiting again, are otherwise unchanged.    *)
LEMMA LetGoFacts ==
  ASSUME NEW q, Listed(q), \A k \in 1 .. Len(q) : TxEntry(q[k]), NEW S
  PROVE  LET w == LetGo(q, S) IN
         /\ Listed(w) /\ Len(w) = Len(q)
         /\ \A k \in 1 .. Len(q) :
               /\ w[k].seg = q[k].seg /\ w[k].msg = q[k].msg
               /\ w[k].data = q[k].data /\ TxEntry(w[k])
               /\ w[k].sent <=> (q[k].sent \/ k \in S)
  <1> DEFINE w == LetGo(q, S)
             en(k) == [q[k] EXCEPT !.sent = @ \/ k \in S]
  <1>1. DOMAIN q = 1 .. Len(q) /\ Len(q) \in Nat
    BY ListedFacts
  <1>2. w = [k \in 1 .. Len(q) |-> en(k)]
    BY <1>1, Zenon DEF LetGo
  <1>3. \A k \in 1 .. Len(q) :
           /\ en(k).seg = q[k].seg /\ en(k).msg = q[k].msg
           /\ en(k).data = q[k].data /\ TxEntry(en(k))
           /\ en(k).sent <=> (q[k].sent \/ k \in S)
    BY Zenon DEF TxEntry, EntryFields
  <1> HIDE DEF en, w
  <1>4. w = [k \in 1 .. Len(q) |-> w[k]] /\ \A k \in 1 .. Len(q) : w[k] = en(k)
    BY <1>2
  <1>5. Listed(w) /\ Len(w) = Len(q)
    BY <1>1, <1>4, ListedMade
  <1> QED
    BY <1>3, <1>4, <1>5 DEF w

(* What retransmit and process_nak do to the queue: entries lose their      *)
(* mark, but for those kept; nothing else changes.                          *)
LEMMA TakeBackFacts ==
  ASSUME NEW q, Listed(q), \A k \in 1 .. Len(q) : TxEntry(q[k]), NEW keep
  PROVE  LET w == TakeBack(q, keep) IN
         /\ Listed(w) /\ Len(w) = Len(q)
         /\ \A k \in 1 .. Len(q) :
               /\ w[k].seg = q[k].seg /\ w[k].msg = q[k].msg /\ w[k].seq = q[k].seq
               /\ w[k].data = q[k].data /\ TxEntry(w[k])
               /\ w[k].sent <=> (q[k].sent /\ (k \in keep \/ ~q[k].data))
  <1> DEFINE w == TakeBack(q, keep)
             en(k) == [q[k] EXCEPT !.sent = @ /\ (k \in keep \/ ~q[k].data)]
  <1>1. DOMAIN q = 1 .. Len(q) /\ Len(q) \in Nat
    BY ListedFacts
  <1>2. w = [k \in 1 .. Len(q) |-> en(k)]
    BY <1>1, Zenon DEF TakeBack
  <1>3. \A k \in 1 .. Len(q) :
           /\ en(k).seg = q[k].seg /\ en(k).msg = q[k].msg /\ en(k).seq = q[k].seq
           /\ en(k).data = q[k].data /\ TxEntry(en(k))
           /\ en(k).sent <=> (q[k].sent /\ (k \in keep \/ ~q[k].data))
    BY Zenon DEF TxEntry, EntryFields
  <1> HIDE DEF en, w
  <1>4. w = [k \in 1 .. Len(q) |-> w[k]] /\ \A k \in 1 .. Len(q) : w[k] = en(k)
    BY <1>2
  <1>5. Listed(w) /\ Len(w) = Len(q)
    BY <1>1, <1>4, ListedMade
  <1> QED
    BY <1>3, <1>4, <1>5 DEF w

(* send_blocked lets go exactly what may go.                                *)
LEMMA SendBlockedFacts ==
  ASSUME NEW c, Shape(c)
  PROVE  LET d == SendBlocked(c) IN
         /\ Shape(d) /\ Sendable(d) = {}
         /\ d.st = c.st /\ d.src = c.src /\ d.dst = c.dst /\ d.told = c.told /\ d.nextSeg = c.nextSeg
         /\ d.xon = c.xon /\ d.flow = c.flow /\ d.maxSeg = c.maxSeg /\ d.maxMsg = c.maxMsg
         /\ Len(d.txq) = Len(c.txq)
         /\ \A k \in 1 .. Len(c.txq) :
               /\ d.txq[k].seg = c.txq[k].seg /\ d.txq[k].msg = c.txq[k].msg
               /\ d.txq[k].data = c.txq[k].data
               /\ d.txq[k].sent => c.txq[k].sent \/ FlowOk(c, c.txq[k])
         /\ Timed(c) => Timed(d)
         /\ Sendable(c) = {} => d = c
  <1> DEFINE S == Sendable(c)
             w == LetGo(c.txq, S)
             d == SendBlocked(c)
  <1>1. /\ DOMAIN c.txq = 1 .. Len(c.txq) /\ Len(c.txq) \in Nat
        /\ \A k \in 1 .. Len(c.txq) : TxEntry(c.txq[k])
        /\ DOMAIN c = ConnFields
    BY ListedFacts DEF Shape, Queue
  <1>2. CASE S = {}
    BY <1>2 DEF SendBlocked
  <1>3. CASE S # {}
    <2>1. PICK frames : d = ArmRexmit([c EXCEPT !.out = @ \o frames, !.retries = 0, !.txq = w])
      <3>1. d = ArmRexmit([c EXCEPT !.out = @ \o Frames(c, S), !.retries = 0, !.txq = w])
        BY <1>3, Zenon DEF SendBlocked
      <3> QED
        BY <3>1, Zenon
    <2>2. /\ Listed(w) /\ Len(w) = Len(c.txq)
          /\ \A k \in 1 .. Len(c.txq) :
                /\ w[k].seg = c.txq[k].seg /\ w[k].msg = c.txq[k].msg
                /\ w[k].data = c.txq[k].data /\ TxEntry(w[k])
                /\ w[k].sent <=> (c.txq[k].sent \/ k \in S)
      BY LetGoFacts DEF Shape, Queue
    <2>3. \A k \in 1 .. Len(c.txq) :
             /\ w[k].seg = c.txq[k].seg /\ w[k].msg = c.txq[k].msg
             /\ w[k].data = c.txq[k].data /\ TxEntry(w[k])
             /\ w[k].sent <=> (c.txq[k].sent \/ k \in S)
      BY <2>2
    <2> HIDE DEF w
    <2>4. /\ DOMAIN d = ConnFields /\ d.txq = w /\ d.timer = TRUE /\ d.rexmit = TRUE
          /\ d.st = c.st /\ d.src = c.src /\ d.dst = c.dst /\ d.told = c.told /\ d.nextSeg = c.nextSeg
          /\ d.xon = c.xon /\ d.flow = c.flow /\ d.maxSeg = c.maxSeg /\ d.maxMsg = c.maxMsg
          /\ d.nextMsg = c.nextMsg /\ d.cwnd = c.cwnd
      BY <1>1, <2>1 DEF ArmRexmit, ConnFields
    <2> HIDE DEF d, S
    <2>5. \A k \in 1 .. Len(c.txq) : k \in S <=>
             ~c.txq[k].sent /\ \A j \in 1 .. k : c.txq[j].sent \/ FlowOk(c, c.txq[j])
      BY <1>1 DEF S, Sendable
    <2>6. Shape(d)
      <3>1. Queue(d)
        <4>1. \A j, k \in 1 .. Len(w) : j < k /\ w[k].sent => w[j].sent
          <5> SUFFICES ASSUME NEW j \in 1 .. Len(w), NEW k \in 1 .. Len(w), j < k, w[k].sent
                       PROVE  w[j].sent
            OBVIOUS
          <5>1. CASE c.txq[k].sent
            BY <2>2, <2>3, <5>1 DEF Shape, Queue
          <5>2. CASE k \in S
            <6>1. \A i \in 1 .. k : c.txq[i].sent \/ FlowOk(c, c.txq[i])
              BY <2>2, <2>5, <5>2
            <6>2. 1 .. j \subseteq 1 .. k /\ j \in 1 .. k
              BY <1>1, <2>2
            <6> QED
              BY <2>2, <2>3, <2>5, <6>1, <6>2
          <5> QED
            BY <2>2, <2>3, <5>1, <5>2
        <4>2. \A k \in 1 .. Len(w) : w[k].data => w[k].seg < c.nextSeg
          BY <2>2, <2>3 DEF Shape, Queue
        <4>3. \A j, k \in 1 .. Len(w) : j < k /\ w[j].data /\ w[k].data => w[j].seg < w[k].seg
          BY <2>2, <2>3 DEF Shape, Queue
        <4> QED
          BY <2>2, <2>3, <2>4, <4>1, <4>2, <4>3 DEF Queue
      <3> QED
        BY Zenon, <2>4, <3>1 DEF Shape
    <2>7. ASSUME NEW k \in 1 .. Len(c.txq), NEW e, e = c.txq[k], e.data = w[k].data, e.seg = w[k].seg, e.msg = w[k].msg
          PROVE  FlowOk(d, w[k]) <=> FlowOk(c, c.txq[k])
      <3>1. Window(d) = Window(c)
        BY <2>4 DEF Window
      <3>2. 1 \in 1 .. Len(c.txq)
        BY <1>1
      <3>3. d.txq[1].seg = c.txq[1].seg
        BY <2>3, <2>4, <3>2
      <3> QED
        BY <2>4, <2>7, <3>1, <3>3 DEF FlowOk
    <2>8. Sendable(d) = {}
      <3> SUFFICES ASSUME NEW k \in Sendable(d) PROVE FALSE
        OBVIOUS
      <3>1. /\ k \in 1 .. Len(c.txq) /\ ~w[k].sent
            /\ \A j \in 1 .. k : w[j].sent \/ FlowOk(d, w[j])
        BY <2>2, <2>4, ListedFacts DEF Sendable
      <3>2. \A j \in 1 .. k : j \in 1 .. Len(c.txq)
        BY <1>1, <3>1
      <3>3. \A j \in 1 .. k : c.txq[j].sent \/ FlowOk(c, c.txq[j])
        <4> TAKE j \in 1 .. k
        <4>1. j \in 1 .. Len(c.txq)
          BY <3>2
        <4>2. CASE w[j].sent
          <5>1. c.txq[j].sent \/ j \in S
            BY <2>3, <4>1, <4>2
          <5>2. j \in 1 .. j
            BY <4>1, <1>1
          <5> QED
            BY <2>5, <4>1, <5>1, <5>2
        <4>3. CASE FlowOk(d, w[j])
          BY <2>3, <2>7, <4>1, <4>3
        <4> QED
          BY <3>1, <4>2, <4>3
      <3> QED
        BY <2>3, <2>5, <3>1, <3>3
    <2>9. \A k \in 1 .. Len(c.txq) : w[k].sent => c.txq[k].sent \/ FlowOk(c, c.txq[k])
      <3> TAKE k \in 1 .. Len(c.txq)
      <3>1. k \in 1 .. k
        BY <1>1
      <3> QED
        BY <2>3, <2>5, <3>1
    <2>10. Timed(d)
      BY <2>4 DEF Timed
    <2> QED
      BY <1>3, <2>2, <2>3, <2>4, <2>6, <2>8, <2>9, <2>10 DEF d, S
  <1> QED
    BY <1>2, <1>3

-----------------------------------------------------------------------------
(* process_ack drops a beginning of the queue, all of it sent.              *)
LEMMA AckedCountFacts ==
  ASSUME NEW c, Listed(c.txq), NEW num
  PROVE  LET n == AckedCount(c, num) IN
         /\ n \in 0 .. Len(c.txq)
         /\ \A j \in 1 .. n : c.txq[j].sent
         /\ (\A j \in 1 .. Len(c.txq) : c.txq[j].sent /\ ~Before(num, c.txq[j].seq)) => n = Len(c.txq)
  <1> DEFINE T == {k \in 0 .. Len(c.txq) :
                     \A j \in 1 .. k : c.txq[j].sent /\ ~Before(num, c.txq[j].seq)}
             n == AckedCount(c, num)
  <1>1. Len(c.txq) \in Nat
    BY ListedFacts
  <1>2. T \subseteq 0 .. Len(c.txq) /\ 0 \in T
    BY <1>1
  <1>3. n = Max(T)
    BY DEF AckedCount
  <1>4. n \in T /\ \A y \in T : y <= n
    <2> HIDE DEF T, n
    <2> QED
      BY Zenon, <1>1, <1>2, <1>3, LargestNumber
  <1>5. (\A j \in 1 .. Len(c.txq) : c.txq[j].sent /\ ~Before(num, c.txq[j].seq)) => Len(c.txq) \in T
    BY <1>1
  <1>6. n \in 0 .. Len(c.txq) /\ \A j \in 1 .. n : c.txq[j].sent
    BY <1>4
  <1> HIDE DEF n, T
  <1>7. Len(c.txq) \in T => n = Len(c.txq)
    BY <1>1, <1>4, <1>6
  <1> QED
    BY <1>5, <1>6, <1>7 DEF n

(* process_ack drops the acknowledged entries from the front of the queue.  *)
LEMMA AckedFacts ==
  ASSUME NEW c, Shape(c), NEW n \in 0 .. Len(c.txq)
  PROVE  LET d == Acked(c, n) IN
         /\ Shape(d) /\ Len(d.txq) = Len(c.txq) - n
         /\ \A i \in 1 .. Len(d.txq) : d.txq[i] = c.txq[i + n] /\ i + n \in 1 .. Len(c.txq)
         /\ d.st = c.st /\ d.src = c.src /\ d.dst = c.dst /\ d.told = c.told /\ d.nextSeg = c.nextSeg
         /\ d.xon = c.xon /\ d.flow = c.flow /\ d.maxSeg = c.maxSeg /\ d.maxMsg = c.maxMsg
         /\ d.timer = c.timer /\ d.rexmit = c.rexmit
  <1> DEFINE d == Acked(c, n)
             r == SubSeq(c.txq, n + 1, Len(c.txq))
  <1>1. /\ Listed(r) /\ Len(r) = Len(c.txq) - n
        /\ \A i \in 1 .. Len(r) : r[i] = c.txq[i + n] /\ i + n \in 1 .. Len(c.txq)
    BY ListedRest DEF Shape, Queue
  <1>2. /\ DOMAIN d = ConnFields /\ d.txq = r
        /\ d.st = c.st /\ d.src = c.src /\ d.dst = c.dst /\ d.told = c.told /\ d.nextSeg = c.nextSeg
        /\ d.xon = c.xon /\ d.flow = c.flow /\ d.maxSeg = c.maxSeg /\ d.maxMsg = c.maxMsg
        /\ d.timer = c.timer /\ d.rexmit = c.rexmit /\ d.nextMsg = c.nextMsg
    BY DEF Acked, Shape, ConnFields
  <1> HIDE DEF d, r
  <1>3. Queue(d)
    <2>1. Listed(c.txq) /\ Len(c.txq) \in Nat
      BY ListedFacts DEF Shape, Queue
    <2>2. \A k \in 1 .. Len(r) : TxEntry(r[k]) /\ (r[k].data => r[k].seg < c.nextSeg)
      BY <1>1 DEF Shape, Queue
    <2>3. ASSUME NEW j \in 1 .. Len(r), NEW k \in 1 .. Len(r), j < k
          PROVE  /\ r[j].data /\ r[k].data => r[j].seg < r[k].seg
                 /\ r[k].sent => r[j].sent
      <3>1. /\ j + n \in 1 .. Len(c.txq) /\ k + n \in 1 .. Len(c.txq) /\ j + n < k + n
            /\ r[j] = c.txq[j + n] /\ r[k] = c.txq[k + n]
        BY <1>1, <2>1, <2>3
      <3> QED
        BY <3>1 DEF Shape, Queue
    <2> QED
      BY Zenon, <1>1, <1>2, <2>2, <2>3 DEF Queue
  <1>4. Shape(d)
    BY <1>2, <1>3 DEF Shape
  <1> QED
    BY <1>1, <1>2, <1>4 DEF d

(* Arming or stopping the timer changes only the timer.                     *)
LEMMA ArmFacts ==
  ASSUME NEW c, Shape(c)
  PROVE  /\ LET d == ArmRexmit(c) IN
            /\ Shape(d) /\ d.txq = c.txq /\ d.timer = TRUE /\ d.rexmit = TRUE
            /\ d.st = c.st /\ d.src = c.src /\ d.dst = c.dst /\ d.told = c.told /\ d.nextSeg = c.nextSeg
            /\ d.xon = c.xon /\ d.flow = c.flow /\ d.maxSeg = c.maxSeg /\ d.maxMsg = c.maxMsg
         /\ LET d == ArmOther(c) IN
            /\ Shape(d) /\ d.txq = c.txq /\ d.timer = TRUE /\ d.rexmit = FALSE
            /\ d.st = c.st /\ d.src = c.src /\ d.dst = c.dst /\ d.told = c.told /\ d.nextSeg = c.nextSeg
            /\ d.xon = c.xon /\ d.flow = c.flow /\ d.maxSeg = c.maxSeg /\ d.maxMsg = c.maxMsg
            /\ d.cwnd = c.cwnd
         /\ LET d == [c EXCEPT !.timer = FALSE] IN
            /\ Shape(d) /\ d.txq = c.txq /\ d.timer = FALSE /\ d.rexmit = c.rexmit
            /\ d.st = c.st /\ d.src = c.src /\ d.dst = c.dst /\ d.told = c.told /\ d.nextSeg = c.nextSeg
            /\ d.xon = c.xon /\ d.flow = c.flow /\ d.maxSeg = c.maxSeg /\ d.maxMsg = c.maxMsg
            /\ d.cwnd = c.cwnd
  BY DEF ArmRexmit, ArmOther, Shape, Queue, ConnFields

(* After process_ack has dropped what is acknowledged, the timer is armed   *)
(* when something is still in flight.                                       *)
LEMMA AckTimedFacts ==
  ASSUME NEW c, NEW d, NEW n, Shape(d), n \in Nat, d.rexmit = c.rexmit, d.timer = c.timer,
         n = 0 => (Flying(d) => Flying(c)), Timed(c)
  PROVE  LET e == AckTimed(c, d, n) IN
         /\ Shape(e) /\ e.txq = d.txq /\ Timed(e)
         /\ e.st = d.st /\ e.src = d.src /\ e.dst = d.dst /\ e.told = d.told /\ e.nextSeg = d.nextSeg
         /\ e.xon = d.xon /\ e.flow = d.flow /\ e.maxSeg = d.maxSeg /\ e.maxMsg = d.maxMsg
  <1> DEFINE e == AckTimed(c, d, n)
             off == [d EXCEPT !.timer = FALSE]
             P1 == n > 0 /\ InFlight(d) > 0
             P2 == InFlight(d) = 0 /\ c.rexmit /\ (n > 0 \/ d.txq = <<>>)
  <1>1. InFlight(d) \in Nat /\ (InFlight(d) > 0 <=> Flying(d)) /\ (d.txq = <<>> => Len(d.txq) = 0)
    BY InFlightFacts, ListedFacts DEF Shape, Queue
  <1>2. \/ P1 /\ e = ArmRexmit(d)
        \/ ~P1 /\ P2 /\ e = off
        \/ ~P1 /\ ~P2 /\ e = d
    <2>1. ~(P1 /\ P2)
      BY <1>1
    <2> HIDE DEF P1, P2
    <2>2. e = CASE P1 -> ArmRexmit(d) [] P2 -> off [] OTHER -> d
      BY Zenon DEF AckTimed, P1, P2
    <2> QED
      BY <2>1, <2>2, Zenon
  <1>3. CASE P1 /\ e = ArmRexmit(d)
    <2> DEFINE b == ArmRexmit(d)
    <2>1. /\ Shape(b) /\ b.txq = d.txq /\ b.timer = TRUE /\ b.rexmit = TRUE
          /\ b.st = d.st /\ b.src = d.src /\ b.dst = d.dst /\ b.told = d.told /\ b.nextSeg = d.nextSeg
          /\ b.xon = d.xon /\ b.flow = d.flow /\ b.maxSeg = d.maxSeg /\ b.maxMsg = d.maxMsg
      BY Zenon, ArmFacts
    <2> HIDE DEF b
    <2>2. Timed(b)
      BY <2>1 DEF Timed
    <2> QED
      BY <1>3, <2>1, <2>2 DEF b
  <1>4. CASE ~P1 /\ P2 /\ e = off
    <2>1. ~Flying(d)
      BY <1>1, <1>4 DEF Flying
    <2>2. /\ Shape(off) /\ off.txq = d.txq
          /\ off.st = d.st /\ off.src = d.src /\ off.dst = d.dst /\ off.told = d.told /\ off.nextSeg = d.nextSeg
          /\ off.xon = d.xon /\ off.flow = d.flow /\ off.maxSeg = d.maxSeg /\ off.maxMsg = d.maxMsg
      BY Zenon, ArmFacts
    <2> HIDE DEF off, e
    <2>3. ~Flying(e)
      BY <1>4, <2>1, <2>2 DEF Flying
    <2> QED
      BY <1>4, <2>2, <2>3 DEF Timed, e
  <1>5. CASE ~P1 /\ ~P2 /\ e = d
    <2>1. Timed(d)
      BY <1>1, <1>5 DEF Timed
    <2> QED
      BY <1>5, <2>1
  <1> QED
    BY <1>2, <1>3, <1>4, <1>5

(* process_ack leaves the end of the queue, nothing that could go waiting,  *)
(* and lets go only what the credit allows.                                 *)
LEMMA ProcessAckFacts ==
  ASSUME NEW c, Shape(c), Timed(c), NEW num
  PROVE  LET d == ProcessAck(c, num) IN
         /\ Shape(d) /\ Sendable(d) = {} /\ Timed(d) /\ Kept(c, d) /\ Within(c, d)
         /\ AllData(c) => AllData(d)
         /\ (\A j \in 1 .. Len(c.txq) : c.txq[j].sent /\ ~Before(num, c.txq[j].seq)) => d.txq = <<>>
  <1> DEFINE n == AckedCount(c, num)
             a == Acked(c, n)
             e == AckTimed(c, a, n)
             d == ProcessAck(c, num)
             every == \A j \in 1 .. Len(c.txq) : c.txq[j].sent /\ ~Before(num, c.txq[j].seq)
  <1>1. Len(c.txq) \in Nat /\ Listed(c.txq)
    BY ListedFacts DEF Shape, Queue
  <1>2. n \in 0 .. Len(c.txq) /\ (every => n = Len(c.txq))
    BY <1>1, AckedCountFacts
  <1> HIDE DEF every
  <1>3. d = SendBlocked(e)
    BY Zenon DEF ProcessAck
  <1> HIDE DEF n, d
  <1>4. /\ Shape(a) /\ Len(a.txq) = Len(c.txq) - n
        /\ \A i \in 1 .. Len(a.txq) : a.txq[i] = c.txq[i + n] /\ i + n \in 1 .. Len(c.txq)
        /\ Kept(c, a) /\ a.timer = c.timer /\ a.rexmit = c.rexmit
    BY <1>2, AckedFacts DEF Kept
  <1> HIDE DEF a
  <1>5. n = 0 => (Flying(a) => Flying(c))
    BY <1>2, <1>4 DEF Flying
  <1>6. Shape(e) /\ e.txq = a.txq /\ Timed(e) /\ Kept(a, e)
    <2>1. n \in Nat
      BY <1>1, <1>2
    <2> QED
      BY <1>4, <1>5, <2>1, AckTimedFacts DEF Kept
  <1> HIDE DEF e
  <1>7. /\ Shape(d) /\ Sendable(d) = {} /\ Timed(d) /\ Kept(e, d)
        /\ Len(d.txq) = Len(e.txq)
        /\ \A k \in 1 .. Len(e.txq) :
              /\ d.txq[k].seg = e.txq[k].seg /\ d.txq[k].msg = e.txq[k].msg
              /\ d.txq[k].data = e.txq[k].data
              /\ d.txq[k].sent => e.txq[k].sent \/ FlowOk(e, e.txq[k])
    BY <1>3, <1>6, SendBlockedFacts DEF Kept
  <1>8. Kept(c, d)
    BY <1>4, <1>6, <1>7 DEF Kept
  <1>9. Within(c, d)
    <2> SUFFICES ASSUME NEW k \in 1 .. Len(d.txq), d.txq[k].sent, d.txq[k].data
                 PROVE  WasSent(c, d.txq[k]) \/ Credit(c, d, d.txq[k])
      BY DEF Within
    <2>1. e.txq[k] = c.txq[k + n] /\ k + n \in 1 .. Len(c.txq)
      BY <1>4, <1>6, <1>7
    <2>2. CASE e.txq[k].sent
      BY <1>7, <2>1, <2>2 DEF WasSent
    <2>3. CASE FlowOk(e, e.txq[k])
      <3>1. /\ e.xon = c.xon /\ e.flow = c.flow /\ e.maxSeg = c.maxSeg /\ e.maxMsg = c.maxMsg
            /\ d.txq[k].seg = e.txq[k].seg /\ d.txq[k].msg = e.txq[k].msg /\ e.txq[k].data
        BY <1>4, <1>6, <1>7 DEF Kept
      <3> QED
        BY <2>3, <3>1 DEF FlowOk, Credit
    <2> QED
      BY <1>7, <2>2, <2>3
  <1>10. AllData(c) => AllData(d)
    BY <1>4, <1>6, <1>7 DEF AllData
  <1>11. every => d.txq = <<>>
    <2>1. Listed(d.txq)
      BY <1>7 DEF Shape, Queue
    <2>2. every => Len(d.txq) = 0
      BY <1>1, <1>2, <1>4, <1>6, <1>7
    <2> QED
      BY <2>1, <2>2, ListedFacts
  <1> QED
    BY <1>7, <1>8, <1>9, <1>10, <1>11 DEF d, every

(* process_ack keeps a link running, and sends within the credit.           *)
LEMMA ProcessAckRun ==
  ASSUME NEW c, Running(c), NEW num
  PROVE  RunStep(c, ProcessAck(c, num)) /\ Kept(c, ProcessAck(c, num))
  BY ProcessAckFacts DEF Running, RunStep, Kept

(* An acknowledgement of the connect message empties the queue.             *)
LEMMA ProcessAckControl ==
  ASSUME NEW c, Shape(c), Timed(c), Controls(c)
  PROVE  LET d == ProcessAck(c, 0) IN
         Shape(d) /\ d.txq = <<>> /\ Sendable(d) = {} /\ Kept(c, d)
  <1>1. \A j \in 1 .. Len(c.txq) : c.txq[j].sent /\ ~Before(0, c.txq[j].seq)
    BY DEF Controls, Before
  <1> QED
    BY <1>1, ProcessAckFacts

(* process_nak takes back what was sent and sends what the window allows.   *)
LEMMA ProcessNakRun ==
  ASSUME NEW c, Running(c)
  PROVE  RunStep(c, ProcessNak(c)) /\ Kept(c, ProcessNak(c))
  <1> DEFINE w == TakeBack(c.txq, {})
             b == [c EXCEPT !.nakFrom = c.txq[1].seq, !.ssthresh = Halved(c),
                            !.cwnd = Halved(c), !.txq = w]
             d == ProcessNak(c)
  <1>1. CASE c.txq = <<>> \/ ~c.txq[1].sent \/ c.nakFrom = c.txq[1].seq
    BY <1>1, WithinSelf DEF ProcessNak, RunStep, Kept, Running
  <1>2. CASE ~(c.txq = <<>> \/ ~c.txq[1].sent \/ c.nakFrom = c.txq[1].seq)
    <2>1. d = SendBlocked(b)
      BY <1>2, Zenon DEF ProcessNak
    <2> HIDE DEF d
    <2>2. /\ Listed(c.txq) /\ Len(c.txq) \in Nat
          /\ \A k \in 1 .. Len(c.txq) : TxEntry(c.txq[k]) /\ c.txq[k].data
      BY ListedFacts DEF Running, Shape, Queue, AllData
    <2>3. /\ Listed(w) /\ Len(w) = Len(c.txq)
          /\ \A k \in 1 .. Len(c.txq) :
               /\ w[k].seg = c.txq[k].seg /\ w[k].msg = c.txq[k].msg
               /\ w[k].data = c.txq[k].data /\ TxEntry(w[k])
               /\ w[k].sent <=> (c.txq[k].sent /\ (k \in {} \/ ~c.txq[k].data))
      BY <2>2, TakeBackFacts
    <2> HIDE DEF w
    <2>4. /\ DOMAIN b = ConnFields /\ b.txq = w /\ Kept(c, b)
          /\ b.timer = c.timer /\ b.rexmit = c.rexmit /\ b.nextMsg = c.nextMsg
      BY DEF Running, Shape, ConnFields, Kept
    <2> HIDE DEF b
    <2>5. \A k \in 1 .. Len(w) : ~w[k].sent /\ w[k].data
      BY <2>2, <2>3
    <2>6. Queue(b)
      <3>1. \A k \in 1 .. Len(w) : w[k].data => w[k].seg < c.nextSeg
        BY <2>3 DEF Running, Shape, Queue
      <3>2. \A j, k \in 1 .. Len(w) : j < k /\ w[j].data /\ w[k].data => w[j].seg < w[k].seg
        BY <2>3 DEF Running, Shape, Queue
      <3>3. \A k \in 1 .. Len(w) : TxEntry(w[k])
        BY <2>3
      <3> QED
        BY <2>3, <2>4, <2>5, <3>1, <3>2, <3>3 DEF Queue, Kept
    <2>7. Shape(b) /\ Timed(b)
      BY <2>4, <2>5, <2>6 DEF Running, Shape, Kept, Timed, Flying
    <2>8. /\ Shape(d) /\ Sendable(d) = {} /\ Timed(d) /\ Kept(b, d)
          /\ Len(d.txq) = Len(b.txq)
          /\ \A k \in 1 .. Len(b.txq) :
                /\ d.txq[k].seg = b.txq[k].seg /\ d.txq[k].msg = b.txq[k].msg
                /\ d.txq[k].data = b.txq[k].data
                /\ d.txq[k].sent => b.txq[k].sent \/ FlowOk(b, b.txq[k])
      BY <2>1, <2>7, SendBlockedFacts DEF Kept
    <2>9. Kept(c, d)
      BY <2>4, <2>8 DEF Kept
    <2>10. AllData(d)
      BY <2>4, <2>5, <2>8 DEF AllData
    <2>11. Within(c, d)
      <3> SUFFICES ASSUME NEW k \in 1 .. Len(d.txq), d.txq[k].sent, d.txq[k].data
                   PROVE  Credit(c, d, d.txq[k])
        BY DEF Within
      <3>1. FlowOk(b, w[k]) /\ w[k].data /\ d.txq[k].seg = w[k].seg /\ d.txq[k].msg = w[k].msg
        BY <2>4, <2>5, <2>8
      <3> QED
        BY <2>4, <3>1 DEF Kept, FlowOk, Credit
    <2> QED
      BY <2>8, <2>9, <2>10, <2>11 DEF RunStep, Running, Kept, d
  <1> QED
    BY <1>1, <1>2

(* A step after one that changes no credit.                                 *)
LEMMA RunTwice ==
  ASSUME NEW c, NEW p, NEW d, Kept(c, p), Within(c, p), AllData(p), RunStep(p, d)
  PROVE  Within(c, d) /\ d.src = c.src /\ d.dst = c.dst /\ d.told = c.told /\ d.flow = c.flow
         /\ Running(d)
  <1>1. Within(c, d)
    <2> SUFFICES ASSUME NEW k \in 1 .. Len(d.txq), d.txq[k].sent, d.txq[k].data
                 PROVE  WasSent(c, d.txq[k]) \/ Credit(c, d, d.txq[k])
      BY DEF Within
    <2>1. CASE WasSent(p, d.txq[k])
      <3>1. PICK j \in 1 .. Len(p.txq) :
                 /\ p.txq[j].seg = d.txq[k].seg /\ p.txq[j].msg = d.txq[k].msg /\ p.txq[j].sent
        BY <2>1 DEF WasSent
      <3>2. WasSent(c, p.txq[j]) \/ Credit(c, p, p.txq[j])
        BY <3>1 DEF Within, AllData
      <3> QED
        BY <3>1, <3>2 DEF WasSent, Credit, Kept
    <2>2. CASE Credit(p, d, d.txq[k])
      BY <2>2 DEF Credit, Kept
    <2> QED
      BY <2>1, <2>2 DEF RunStep, Within
  <1> QED
    BY <1>1 DEF RunStep, Kept

(* A step that changes nothing that matters after one of a running link.    *)
LEMMA RunThen ==
  ASSUME NEW c, NEW p, NEW d, RunStep(c, p), Kept(c, p), RunStep(p, d)
  PROVE  RunStep(c, d)
  BY RunTwice DEF RunStep, Running

(* What changes nothing but what is sent and received.                      *)
LEMMA SendSame ==
  ASSUME NEW c, DOMAIN c = ConnFields, NEW m
  PROVE  /\ Same(c, Send(c, m)) /\ Same(c, SendAck(c)) /\ Same(c, SendDiscConf(c))
         /\ Same(c, SendAckConn(c)) /\ Same(c, AckOther(c, m)) /\ Same(c, HandleInterrupt(c, m))
         /\ Same(c, TakeInSequence(c, m)) /\ Same(c, Hold(c, m))
         /\ Same(c, [c EXCEPT !.ackPending = TRUE])
  <1>1. \A x, y : DOMAIN x = ConnFields => Same(x, Send(x, y))
    BY DEF Same, Send, ConnFields
  <1>2. Same(c, SendAck(c))
    <2> DEFINE x == [c EXCEPT !.ackPending = FALSE]
    <2>1. Same(c, x)
      BY DEF Same, ConnFields
    <2> HIDE DEF x
    <2>2. Same(x, Send(x, Acking(c, Pkt(c, "ack"), "ack")))
      BY <1>1, <2>1 DEF Same
    <2>3. SendAck(c) = Send(x, Acking(c, Pkt(c, "ack"), "ack"))
      BY Zenon DEF SendAck, x
    <2> QED
      BY <2>1, <2>2, <2>3 DEF Same
  <1>3. Same(c, SendDiscConf(c)) /\ Same(c, SendAckConn(c))
    BY <1>1 DEF SendDiscConf, SendAckConn
  <1>4. Same(c, AckOther(c, m))
    <2> DEFINE x == IF SeenOther(c, m) THEN c ELSE [c EXCEPT !.intExpect = Plus(m.seq, 1)]
               y == [Pkt(x, "ackother") EXCEPT !.ack = Plus(x.intExpect, Modulus - 1), !.q = "ack"]
    <2>1. Same(c, x)
      BY DEF Same, ConnFields
    <2>2. AckOther(c, m) = Send(x, y)
      BY Zenon DEF AckOther
    <2> HIDE DEF x, y
    <2>3. Same(x, Send(x, y))
      BY <1>1, <2>1 DEF Same
    <2> QED
      BY <2>1, <2>2, <2>3 DEF Same
  <1>5. Same(c, HandleInterrupt(c, m))
    <2> DEFINE x == AckOther(c, m)
    <2> HIDE DEF x
    <2>1. Same(x, [x EXCEPT !.gotInt = Append(@, m.seg)])
      BY <1>4 DEF Same, ConnFields, x
    <2>2. HandleInterrupt(c, m) = x \/ HandleInterrupt(c, m) = [x EXCEPT !.gotInt = Append(@, m.seg)]
      BY Zenon DEF HandleInterrupt, x
    <2> QED
      BY Zenon, <1>4, <2>1, <2>2 DEF Same, x
  <1>6. Same(c, TakeInSequence(c, m))
    BY DEF Same, ConnFields, TakeInSequence
  <1>7. Same(c, Hold(c, m)) /\ Same(c, [c EXCEPT !.ackPending = TRUE])
    BY DEF Same, ConnFields, Hold
  <1> QED
    BY <1>1, <1>2, <1>3, <1>4, <1>5, <1>6, <1>7

(* An acknowledgement of the other subchannel changes nothing about the     *)
(* data subchannel.                                                         *)
LEMMA ProcessIntAckSame ==
  ASSUME NEW c, DOMAIN c = ConnFields, NEW num
  PROVE  Same(c, ProcessIntAck(c, num))
  BY DEF Same, ConnFields, ProcessIntAck

(* Same, and therefore running as before.                                   *)
LEMMA SameRun ==
  ASSUME NEW c, NEW d, Same(c, d), Running(c)
  PROVE  RunStep(c, d) /\ Kept(c, d) /\ DOMAIN d = ConnFields
  BY SameStep DEF Same, Kept

(* route_ack keeps a link running, whichever subchannel the number is for.  *)
LEMMA RouteAckRun ==
  ASSUME NEW c, Running(c), NEW m, NEW onData
  PROVE  RunStep(c, RouteAck(c, m, onData)) /\ Kept(c, RouteAck(c, m, onData))
  <1> DEFINE p == ProcessAck(c, m.ack)
             d == RouteAck(c, m, onData)
  <1>1. d = c \/ d = ProcessIntAck(c, m.ack) \/ d = ProcessNak(p) \/ d = p
    BY Zenon DEF RouteAck
  <1>2. RunStep(c, p) /\ Kept(c, p)
    BY ProcessAckRun
  <1> HIDE DEF p, d
  <1>3. RunStep(p, ProcessNak(p)) /\ Kept(p, ProcessNak(p))
    BY <1>2, ProcessNakRun DEF RunStep
  <1>4. RunStep(c, ProcessNak(p)) /\ Kept(c, ProcessNak(p))
    BY <1>2, <1>3, RunThen DEF Kept
  <1>5. RunStep(c, c) /\ Kept(c, c)
    BY WithinSelf DEF RunStep, Kept
  <1>6. RunStep(c, ProcessIntAck(c, m.ack)) /\ Kept(c, ProcessIntAck(c, m.ack))
    BY ProcessIntAckSame, SameRun DEF Running, Shape
  <1> QED
    BY <1>1, <1>2, <1>4, <1>5, <1>6 DEF d

(* handle_data keeps a link running: what it acknowledges and what it takes *)
(* in.                                                                      *)
LEMMA HandleDataRun ==
  ASSUME NEW c, Running(c), NEW m
  PROVE  RunStep(c, HandleData(c, m))
  <1> DEFINE p == RouteAck(c, m, TRUE)
             t == TakeInSequence(p, m)
             h == Hold(p, m)
             d == HandleData(c, m)
  <1>1. d = SendAck(p) \/ d = SendAck(t) \/ d = [t EXCEPT !.ackPending = TRUE] \/ d = SendAck(h)
    BY Zenon DEF HandleData, Before
  <1>a. RunStep(c, p) /\ Kept(c, p)
    BY RouteAckRun, Zenon
  <1> HIDE DEF p, d
  <1>2. RunStep(c, p) /\ Kept(c, p) /\ DOMAIN p = ConnFields
    BY <1>a DEF RunStep, Running, Shape
  <1>3. Same(p, t) /\ Same(p, h) /\ Same(p, SendAck(p))
    BY Zenon, <1>2, SendSame
  <1> HIDE DEF t, h
  <1>4. Same(t, SendAck(t)) /\ Same(t, [t EXCEPT !.ackPending = TRUE]) /\ Same(h, SendAck(h))
    BY <1>3, SendSame DEF Same
  <1>5. RunStep(c, t) /\ RunStep(c, h) /\ RunStep(c, SendAck(p))
    BY <1>2, <1>3, SameStep
  <1>6. RunStep(c, SendAck(t)) /\ RunStep(c, [t EXCEPT !.ackPending = TRUE]) /\ RunStep(c, SendAck(h))
    BY <1>4, <1>5, SameStep
  <1> QED
    BY Zenon, <1>1, <1>5, <1>6 DEF d

(* New credit lets go what it allows.                                       *)
LEMMA CreditedRun ==
  ASSUME NEW a, Running(a), NEW m
  PROVE  RunStep(a, SendBlocked(Credited(a, m)))
  <1> DEFINE b == Credited(a, m)
             d == SendBlocked(b)
  <1>1. /\ DOMAIN b = ConnFields /\ b.txq = a.txq /\ b.xon \in BOOLEAN
        /\ b.st = a.st /\ b.src = a.src /\ b.dst = a.dst /\ b.told = a.told
        /\ b.nextSeg = a.nextSeg /\ b.nextMsg = a.nextMsg
        /\ b.timer = a.timer /\ b.rexmit = a.rexmit /\ b.flow = a.flow
    BY Zenon DEF Credited, Running, Shape, ConnFields
  <1> HIDE DEF b
  <1>2. Shape(b) /\ Timed(b)
    BY <1>1 DEF Running, Shape, Queue, Timed, Flying
  <1>3. /\ Shape(d) /\ Sendable(d) = {} /\ Timed(d) /\ Kept(b, d)
        /\ Len(d.txq) = Len(b.txq)
        /\ \A k \in 1 .. Len(b.txq) :
              /\ d.txq[k].seg = b.txq[k].seg /\ d.txq[k].msg = b.txq[k].msg
              /\ d.txq[k].data = b.txq[k].data
              /\ d.txq[k].sent => b.txq[k].sent \/ FlowOk(b, b.txq[k])
    BY <1>2, SendBlockedFacts DEF Kept
  <1> HIDE DEF d
  <1>4. AllData(d)
    BY <1>1, <1>3 DEF AllData, Running
  <1>5. Within(a, d)
    <2> SUFFICES ASSUME NEW k \in 1 .. Len(d.txq), d.txq[k].sent, d.txq[k].data
                 PROVE  WasSent(a, d.txq[k]) \/ Credit(a, d, d.txq[k])
      BY DEF Within
    <2>1. CASE b.txq[k].sent
      BY <1>1, <1>3, <2>1 DEF WasSent
    <2>2. CASE FlowOk(b, b.txq[k])
      BY <1>1, <1>3, <2>2 DEF FlowOk, Credit, Kept
    <2> QED
      BY <1>3, <2>1, <2>2
  <1> QED
    BY <1>1, <1>3, <1>4, <1>5 DEF RunStep, Running, Kept, b, d

(* handle_link_service keeps a link running: credit and XON let go what     *)
(* waited for them.                                                         *)
LEMMA HandleLinkServiceRun ==
  ASSUME NEW c, Running(c), NEW m
  PROVE  RunStep(c, HandleLinkService(c, m))
  <1> DEFINE p == RouteAck(c, m, FALSE)
             a == AckOther(p, m)
             i == [a EXCEPT !.intMax = @ + m.credit]
             d == HandleLinkService(c, m)
  <1>1. d = a \/ d = i \/ d = SendBlocked(Credited(a, m))
    BY Zenon DEF HandleLinkService
  <1>a. RunStep(c, p) /\ Kept(c, p)
    BY RouteAckRun, Zenon
  <1> HIDE DEF p, d
  <1>2. RunStep(c, p) /\ Kept(c, p) /\ DOMAIN p = ConnFields
    BY <1>a DEF RunStep, Running, Shape
  <1>3. Same(p, a)
    BY Zenon, <1>2, SendSame
  <1> HIDE DEF a
  <1>4. RunStep(c, a) /\ Kept(c, a)
    BY <1>2, <1>3, SameStep DEF Kept, Same
  <1>5. Same(a, i)
    BY <1>3 DEF Same, ConnFields
  <1>6. RunStep(c, i)
    BY <1>4, <1>5, SameStep
  <1>7. RunStep(c, SendBlocked(Credited(a, m)))
    BY <1>4, CreditedRun, RunThen DEF RunStep
  <1> QED
    BY <1>1, <1>4, <1>6, <1>7 DEF d

(* An interrupt leaves the data subchannel alone.                           *)
LEMMA SendInterruptRun ==
  ASSUME NEW c, Running(c)
  PROVE  RunStep(c, SendInterrupt(c))
  <1> DEFINE m == [Acking(c, Pkt(c, "int"), "xack") EXCEPT !.seq = c.intSend, !.seg = c.intMsg]
             s == Send(c, m)
             b == [s EXCEPT !.intTxq = Append(@, OtherEntry(m)),
                            !.intSend = Plus(@, 1), !.intMsg = @ + 1]
  <1>1. SendInterrupt(c) = c \/ SendInterrupt(c) = b
    BY Zenon DEF SendInterrupt
  <1> HIDE DEF m
  <1>2. Same(c, s)
    BY Zenon, SendSame DEF Running, Shape
  <1> HIDE DEF s
  <1>3. Same(s, b)
    BY <1>2 DEF Same, ConnFields
  <1>4. RunStep(c, c)
    BY WithinSelf DEF RunStep
  <1> QED
    BY <1>1, <1>2, <1>3, <1>4, SameStep

(* send_segments puts new segments behind the others and sends what may go. *)
LEMMA SendDataRun ==
  ASSUME NEW c, Running(c), NEW n \in Nat
  PROVE  RunStep(c, SendData(c, n))
  <1> DEFINE seg(i) == Segment(c, i, n)
             segs == [i \in 1 .. n |-> seg(i)]
             new == [i \in 1 .. n |-> Entry(c, segs[i])]
             q == c.txq \o new
             parts == [i \in 1 .. n |-> Part(segs[i])]
             b == [c EXCEPT !.txq = q, !.nextSend = Plus(@, n), !.nextSeg = @ + n,
                            !.nextMsg = @ + 1, !.said = Append(@, parts)]
             d == SendData(c, n)
  <1>1. d = SendBlocked(b)
    BY Zenon DEF SendData, Running
  <1> HIDE DEF d
  <1>2. \A i \in 1 .. n : /\ TxEntry(new[i]) /\ new[i].seg = c.nextSeg + i - 1
                          /\ new[i].data = TRUE /\ new[i].sent = FALSE
    <2> TAKE i \in 1 .. n
    <2>1. new[i] = Entry(c, seg(i))
      BY Zenon
    <2>2. seg(i).seg = c.nextSeg + i - 1
      BY DEF Segment, Acking, Pkt
    <2>3. c.nextSeg \in Nat /\ c.nextMsg \in Nat
      BY DEF Running, Shape
    <2> HIDE DEF seg, new
    <2>4. c.nextSeg + i - 1 \in Nat
      BY <2>3
    <2> QED
      BY <2>1, <2>2, <2>3, <2>4 DEF Entry, TxEntry, EntryFields
  <1>3. Listed(new) /\ Len(new) = n
    <2>1. new = [i \in 1 .. n |-> new[i]]
      BY Zenon
    <2> HIDE DEF new
    <2> QED
      BY <2>1, ListedMade
  <1> HIDE DEF seg, segs, new, parts
  <1>4. /\ Listed(c.txq) /\ Len(c.txq) \in Nat
        /\ \A k \in 1 .. Len(c.txq) : TxEntry(c.txq[k]) /\ c.txq[k].data
      BY ListedFacts DEF Running, Shape, Queue, AllData
  <1>5. /\ Listed(q) /\ Len(q) = Len(c.txq) + n
        /\ \A k \in 1 .. Len(c.txq) : q[k] = c.txq[k]
        /\ \A i \in 1 .. n : q[Len(c.txq) + i] = new[i]
    <2>1. /\ Listed(q) /\ Len(q) = Len(c.txq) + Len(new)
          /\ \A k \in 1 .. Len(c.txq) : q[k] = c.txq[k]
          /\ \A i \in 1 .. Len(new) : q[Len(c.txq) + i] = new[i]
      <3> DEFINE p == c.txq
      <3>1. Listed(p) /\ Listed(new)
        BY <1>3, <1>4
      <3> HIDE DEF p
      <3>2. /\ Listed(p \o new) /\ Len(p \o new) = Len(p) + Len(new)
            /\ \A k \in 1 .. Len(p) : (p \o new)[k] = p[k]
            /\ \A i \in 1 .. Len(new) : (p \o new)[Len(p) + i] = new[i]
        BY <3>1, ListedConcat
      <3> QED
        BY <3>2, Zenon DEF p
    <2> HIDE DEF q
    <2> QED
      BY <1>3, <2>1
  <1> HIDE DEF q
  <1>6. /\ DOMAIN b = ConnFields /\ b.txq = q /\ b.nextSeg = c.nextSeg + n
        /\ b.nextMsg = c.nextMsg + 1 /\ b.st = c.st /\ b.src = c.src /\ b.dst = c.dst
        /\ b.told = c.told /\ b.xon = c.xon /\ b.flow = c.flow
        /\ b.maxSeg = c.maxSeg /\ b.maxMsg = c.maxMsg
        /\ b.timer = c.timer /\ b.rexmit = c.rexmit
    BY DEF Running, Shape, ConnFields
  <1> HIDE DEF b
  <1>7. c.nextSeg \in Nat /\ c.nextMsg \in Nat
    BY DEF Running, Shape
  <1>8. \A k \in 1 .. Len(q) : k \notin 1 .. Len(c.txq) =>
           /\ k - Len(c.txq) \in 1 .. n /\ q[k] = new[k - Len(c.txq)]
    BY <1>4, <1>5
  <1>9. \A k \in 1 .. Len(q) : k \notin 1 .. Len(c.txq) =>
           /\ TxEntry(q[k]) /\ q[k].data = TRUE /\ q[k].sent = FALSE
           /\ q[k].seg = c.nextSeg + (k - Len(c.txq)) - 1
    BY <1>2, <1>8
  <1>10. Queue(b)
    <2>1. \A k \in 1 .. Len(q) : TxEntry(q[k]) /\ q[k].data
      BY <1>4, <1>5, <1>9
    <2>2. \A k \in 1 .. Len(q) : q[k].seg < c.nextSeg + n
      <3> TAKE k \in 1 .. Len(q)
      <3>1. CASE k \in 1 .. Len(c.txq)
        <4>1. q[k].seg < c.nextSeg /\ q[k].seg \in Nat
          BY <1>4, <1>5, <3>1 DEF Running, Shape, Queue, TxEntry
        <4> QED
          BY <1>7, <4>1
      <3>2. CASE k \notin 1 .. Len(c.txq)
        BY <1>4, <1>7, <1>8, <1>9, <3>2
      <3> QED
        BY <3>1, <3>2
    <2>3. ASSUME NEW j \in 1 .. Len(q), NEW k \in 1 .. Len(q), j < k
          PROVE  q[j].seg < q[k].seg /\ (q[k].sent => q[j].sent)
      <3>1. CASE k \in 1 .. Len(c.txq)
        <4>1. j \in 1 .. Len(c.txq)
          BY <1>4, <2>3, <3>1
        <4> QED
          BY <1>4, <1>5, <2>3, <3>1, <4>1 DEF Running, Shape, Queue
      <3>2. CASE k \notin 1 .. Len(c.txq)
        <4>1. q[k].seg = c.nextSeg + (k - Len(c.txq)) - 1 /\ k - Len(c.txq) \in 1 .. n
          BY <1>8, <1>9, <3>2
        <4>a. q[k].sent = FALSE
          BY <1>9, <3>2
        <4> SUFFICES q[j].seg < q[k].seg
          BY <4>a
        <4>2. CASE j \in 1 .. Len(c.txq)
          <5>1. q[j].seg < c.nextSeg /\ q[j].seg \in Nat
            BY <1>4, <1>5, <4>2 DEF Running, Shape, Queue, TxEntry
          <5> QED
            BY <1>4, <1>7, <4>1, <5>1
        <4>3. CASE j \notin 1 .. Len(c.txq)
          <5>1. q[j].seg = c.nextSeg + (j - Len(c.txq)) - 1
            BY <1>9, <4>3
          <5> QED
            BY <1>4, <1>5, <1>7, <2>3, <4>1, <5>1
        <4> QED
          BY <4>2, <4>3
      <3> QED
        BY <3>1, <3>2
    <2> QED
      BY Zenon, <1>5, <1>6, <2>1, <2>2, <2>3 DEF Queue
  <1>11. Shape(b)
    <2>1. b.nextSeg \in Nat /\ b.nextMsg \in Nat
      BY <1>6, <1>7
    <2> QED
      BY <1>6, <1>10, <2>1 DEF Running, Shape
  <1>12. Timed(b)
    BY Zenon, <1>5, <1>6, <1>9 DEF Running, Timed, Flying
  <1>13. /\ Shape(d) /\ Sendable(d) = {} /\ Timed(d)
         /\ d.st = b.st /\ d.src = b.src /\ d.dst = b.dst /\ d.told = b.told /\ d.flow = b.flow
         /\ Len(d.txq) = Len(b.txq)
         /\ \A k \in 1 .. Len(b.txq) :
               /\ d.txq[k].seg = b.txq[k].seg /\ d.txq[k].msg = b.txq[k].msg
               /\ d.txq[k].data = b.txq[k].data
               /\ d.txq[k].sent => b.txq[k].sent \/ FlowOk(b, b.txq[k])
    BY <1>1, <1>11, <1>12, SendBlockedFacts
  <1>14. AllData(d)
    BY <1>4, <1>5, <1>6, <1>9, <1>13 DEF AllData
  <1>15. Within(c, d)
    <2> SUFFICES ASSUME NEW k \in 1 .. Len(d.txq), d.txq[k].sent, d.txq[k].data
                 PROVE  WasSent(c, d.txq[k]) \/ Credit(c, d, d.txq[k])
      BY DEF Within
    <2>1. CASE q[k].sent
      <3>1. k \in 1 .. Len(c.txq) /\ q[k] = c.txq[k]
        BY <1>5, <1>6, <1>9, <1>13, <2>1
      <3> QED
        BY <1>6, <1>13, <2>1, <3>1 DEF WasSent
    <2>2. CASE FlowOk(b, q[k])
      BY <1>6, <1>13, <2>2 DEF FlowOk, Credit
    <2> QED
      BY <1>6, <1>13, <2>1, <2>2
  <1> QED
    BY <1>6, <1>13, <1>14, <1>15 DEF RunStep, Running, d
=============================================================================
