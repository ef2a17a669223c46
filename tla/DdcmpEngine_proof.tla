------------------------- MODULE DdcmpEngine_proof --------------------------
(***************************************************************************)
(* Lemmas about one DDCMP engine: what every handler of it does to the     *)
(* window, to the payloads waiting behind it, to the ones handed up and to *)
(* the messages it sends, for every modulus and window.                    *)
(*                                                                         *)
(* Payloads are numbered as they are given, so "older" is "smaller".  A    *)
(* step of a station is described twice: as a sender (Sends: its window    *)
(* keeps old slots or gains newer ones, and what it puts on the line comes *)
(* out of the window, in order) and as a reader (Reads: it hands up        *)
(* nothing, starts a session because a START or STACK arrived, or takes    *)
(* the next number).  Each handler is shown to do both.                    *)
(***************************************************************************)
EXTENDS Ddcmp, SequenceTheorems, TLAPS

(* The last payload that a station has given a number, when it has been     *)
(* given g payloads in all.                                                 *)
High(e, g) == g - Len(e.notsent)

(* The window holds the last payloads numbered and notsent_ the ones after  *)
(* them; a station that is not running holds none.                          *)
EngineData(e, g) ==
    /\ Pending(e) <= High(e, g)
    /\ \A k \in 1 .. Len(e.notsent) : e.notsent[k] = High(e, g) + k
    /\ \A s \in Seqs : InWindow(s, e.a, e.n) =>
          e.unack[s].data = High(e, g) - Dist(s, e.n)
    /\ e.st # "running" => e.a = e.n /\ e.notsent = <<>>

(* An engine in the middle of a handler: the window may have room.          *)
Loose(e, g) ==
    /\ e \in Engine
    /\ Pending(e) <= QMax
    /\ \A s \in Seqs : (e.unack[s] # None) <=> InWindow(s, e.a, e.n)
    /\ EngineData(e, g)

(* An engine between handlers.                                              *)
Good(e, g) == Loose(e, g) /\ (e.notsent # <<>> => Pending(e) = QMax)

(* A message that starts a session, one with a payload, and a station that  *)
(* may take data messages (astart becomes running on the first one).        *)
Opening(m) == m.kind \in {"start", "stack"}
IsData(m) == m.kind = "data"
Live(e) == e.st \in {"running", "astart"}

(* The window of f: slots of e as they were, and new payloads.              *)
Kept(e, f, g) ==
    \A s \in Seqs : InWindow(s, f.a, f.n) =>
        \/ InWindow(s, e.a, e.n) /\ f.unack[s].data = e.unack[s].data
        \/ f.unack[s].data > High(e, g)

(* Data messages come out of the window, oldest first; a START or STACK is  *)
(* sent with an empty window only.                                          *)
OutOK(f) ==
    /\ \A i \in 1 .. Len(f.out) : IsData(f.out[i]) =>
          InWindow(f.out[i].num, f.a, f.n) /\ f.out[i].data = f.unack[f.out[i].num].data
    /\ \A i, j \in 1 .. Len(f.out) :
          i < j /\ IsData(f.out[i]) /\ IsData(f.out[j]) => f.out[i].data < f.out[j].data
    /\ \A i \in 1 .. Len(f.out) : Opening(f.out[i]) => f.a = f.n

(* The step of a station from e to f, which raises the payloads it has been *)
(* given from g to h, seen from the line it sends on.                       *)
Sends(e, f, g, h) ==
    Good(f, h) /\ Kept(e, f, g) /\ High(e, g) <= High(f, h) /\ OutOK(f)

(* The same step seen from the line it reads: m is the message it takes.    *)
Stays(e, f) == f.got = e.got /\ (Live(f) => Live(e) /\ f.r = e.r)
Reopens(e, f, m) == f.got = e.got /\ Opening(m)
Takes(e, f, m) ==
    /\ Live(e) /\ IsData(m) /\ m.num = Plus(e.r, 1)
    /\ f.r = m.num /\ f.got = Append(e.got, m.data)

Reads(e, f, m) == Stays(e, f) \/ Reopens(e, f, m) \/ Takes(e, f, m)

-----------------------------------------------------------------------------
(* The arithmetic of sequence numbers without the modulus.                  *)
LEMMA Numbers ==
  ASSUME conf \in Confs
  PROVE  /\ Modulus \in Nat /\ QMax \in Nat /\ QMax > 0 /\ QMax < Modulus
         /\ Seqs = 0 .. Modulus - 1 /\ 0 \in Seqs
  BY DdcmpAssumption DEF Modulus, QMax, Seqs

(* Adding to a sequence number stays below the modulus.                     *)
LEMMA PlusVal ==
  ASSUME conf \in Confs, NEW x \in Seqs, NEW k \in 0 .. Modulus
  PROVE  /\ Plus(x, k) \in Seqs
         /\ Plus(x, k) = IF x + k < Modulus THEN x + k ELSE x + k - Modulus
  <1>1. Modulus \in Nat /\ Modulus > 1 /\ x \in 0 .. Modulus - 1
    BY Numbers
  <1>2. CASE x + k < Modulus
    BY <1>1, <1>2 DEF Plus, Seqs
  <1>3. CASE x + k >= Modulus
    <2>1. x + k = Modulus * 1 + (x + k - Modulus) /\ x + k - Modulus \in 0 .. Modulus - 1
      BY <1>1, <1>3
    <2>2. (x + k) % Modulus = x + k - Modulus
      BY <1>1, <1>3, <2>1
    <2> QED
      BY <1>1, <1>3, <2>1, <2>2 DEF Plus, Seqs
  <1> QED
    BY <1>1, <1>2, <1>3

(* The distance from one sequence number to another, without the modulus.   *)
LEMMA DistVal ==
  ASSUME conf \in Confs, NEW x \in Seqs, NEW y \in Seqs
  PROVE  /\ Dist(x, y) \in Seqs
         /\ Dist(x, y) = IF x <= y THEN y - x ELSE y - x + Modulus
  <1>1. Modulus \in Nat /\ Modulus > 1 /\ x \in 0 .. Modulus - 1 /\ y \in 0 .. Modulus - 1
    BY Numbers
  <1>2. CASE x <= y
    BY <1>1, <1>2 DEF Dist, Seqs
  <1>3. CASE x > y
    <2>1. y - x = Modulus * (-1) + (y - x + Modulus) /\ y - x + Modulus \in 0 .. Modulus - 1
      BY <1>1, <1>3
    <2>2. (y - x) % Modulus = y - x + Modulus
      BY <1>1, <1>3, <2>1
    <2> QED
      BY <1>1, <1>3, <2>1, <2>2 DEF Dist, Seqs
  <1> QED
    BY <1>1, <1>2, <1>3

(* A number that follows s by as much as y does is y.                       *)
LEMMA DistInjective ==
  ASSUME conf \in Confs, NEW x \in Seqs, NEW y \in Seqs, NEW z \in Seqs
  PROVE  /\ Dist(x, y) = Dist(x, z) => y = z
         /\ Dist(x, x) = 0 /\ (Dist(x, y) = 0 => x = y)
         /\ Dist(x, y) \in Nat /\ Dist(x, y) < Modulus
  BY SMTT(30), Numbers, DistVal

(* The number k further on is at distance k.                                *)
LEMMA PlusDist ==
  ASSUME conf \in Confs, NEW x \in Seqs, NEW k \in 0 .. Modulus - 1
  PROVE  /\ Plus(x, k) \in Seqs /\ Dist(x, Plus(x, k)) = k
  <1>1. Plus(x, k) \in Seqs /\ Plus(x, k) = IF x + k < Modulus THEN x + k ELSE x + k - Modulus
    BY Numbers, PlusVal
  <1> HIDE DEF Plus, Dist
  <1>2. Dist(x, Plus(x, k)) = IF x <= Plus(x, k) THEN Plus(x, k) - x ELSE Plus(x, k) - x + Modulus
    BY <1>1, DistVal
  <1> QED
    BY <1>1, <1>2, Numbers

(* Distances add up, once around the modulus.                               *)
LEMMA Triangle ==
  ASSUME conf \in Confs, NEW x \in Seqs, NEW y \in Seqs, NEW z \in Seqs
  PROVE  /\ Dist(x, y) \in Nat /\ Dist(y, z) \in Nat /\ Dist(x, z) \in Nat
         /\ Dist(x, y) < Modulus /\ Dist(y, z) < Modulus /\ Dist(x, z) < Modulus
         /\ \/ Dist(x, y) + Dist(y, z) = Dist(x, z)
            \/ Dist(x, y) + Dist(y, z) = Dist(x, z) + Modulus
  <1>1. Dist(x, y) = IF x <= y THEN y - x ELSE y - x + Modulus
    BY DistVal
  <1>2. Dist(y, z) = IF y <= z THEN z - y ELSE z - y + Modulus
    BY DistVal
  <1>3. Dist(x, z) = IF x <= z THEN z - x ELSE z - x + Modulus
    BY DistVal
  <1>4. Modulus \in Nat /\ x \in 0 .. Modulus - 1 /\ y \in 0 .. Modulus - 1 /\ z \in 0 .. Modulus - 1
    BY Numbers
  <1> QED
    BY <1>1, <1>2, <1>3, <1>4

(* The window after numbers up to m have been freed.                        *)
LEMMA WindowFreed ==
  ASSUME conf \in Confs, NEW a \in Seqs, NEW m \in Seqs, NEW n \in Seqs,
         Dist(a, m) <= Dist(a, n)
  PROVE  /\ Dist(m, n) = Dist(a, n) - Dist(a, m)
         /\ \A s \in Seqs : InWindow(s, m, n) <=> InWindow(s, a, n) /\ ~InWindow(s, a, m)
  <1>0. /\ Dist(a, m) \in Nat /\ Dist(m, n) \in Nat /\ Dist(a, n) \in Nat
        /\ Dist(a, m) < Modulus /\ Dist(m, n) < Modulus /\ Dist(a, n) < Modulus
        /\ \/ Dist(a, m) + Dist(m, n) = Dist(a, n)
           \/ Dist(a, m) + Dist(m, n) = Dist(a, n) + Modulus
    BY Triangle
  <1>1. Dist(m, n) = Dist(a, n) - Dist(a, m)
    BY <1>0, Numbers
  <1>2. ASSUME NEW s \in Seqs
        PROVE  InWindow(s, m, n) <=> InWindow(s, a, n) /\ ~InWindow(s, a, m)
    <2>1. /\ Dist(a, m) \in Nat /\ Dist(m, s) \in Nat /\ Dist(a, s) \in Nat
          /\ Dist(a, m) < Modulus /\ Dist(m, s) < Modulus /\ Dist(a, s) < Modulus
          /\ \/ Dist(a, m) + Dist(m, s) = Dist(a, s)
             \/ Dist(a, m) + Dist(m, s) = Dist(a, s) + Modulus
      BY Triangle
    <2>2. Modulus \in Nat
      BY Numbers
    <2> QED
      BY <1>0, <1>1, <2>1, <2>2 DEF InWindow
  <1> QED
    BY <1>1, <1>2

(* A number in the window lies between its ends.                            *)
LEMMA WindowPoint ==
  ASSUME conf \in Confs, NEW a \in Seqs, NEW n \in Seqs, NEW s \in Seqs, InWindow(s, a, n)
  PROVE  /\ Dist(a, s) + Dist(s, n) = Dist(a, n)
         /\ Dist(a, s) \in Nat /\ Dist(s, n) \in Nat
         /\ Dist(a, s) > 0 /\ Dist(s, n) < Dist(a, n)
  <1>1. /\ Dist(a, s) \in Nat /\ Dist(s, n) \in Nat /\ Dist(a, n) \in Nat
        /\ Dist(a, s) < Modulus /\ Dist(s, n) < Modulus /\ Dist(a, n) < Modulus
        /\ \/ Dist(a, s) + Dist(s, n) = Dist(a, n)
           \/ Dist(a, s) + Dist(s, n) = Dist(a, n) + Modulus
    BY Triangle
  <1> QED
    BY <1>1, Numbers DEF InWindow

(* The window after k more numbers have been used.                          *)
LEMMA WindowGrown ==
  ASSUME conf \in Confs, NEW a \in Seqs, NEW n \in Seqs, NEW k \in Nat,
         Dist(a, n) + k < Modulus
  PROVE  /\ Plus(n, k) \in Seqs
         /\ Dist(a, Plus(n, k)) = Dist(a, n) + k
         /\ Dist(n, Plus(n, k)) = k
         /\ \A s \in Seqs :
              /\ InWindow(s, a, Plus(n, k)) <=> InWindow(s, a, n) \/ InWindow(s, n, Plus(n, k))
              /\ InWindow(s, a, n) => /\ ~InWindow(s, n, Plus(n, k))
                                      /\ Dist(s, Plus(n, k)) = Dist(s, n) + k
              /\ InWindow(s, n, Plus(n, k)) => /\ Dist(n, s) \in 1 .. k
                                               /\ Dist(s, Plus(n, k)) = k - Dist(n, s)
  <1>1. k \in 0 .. Modulus - 1
    BY DistVal, Numbers
  <1> DEFINE m == Plus(n, k)
  <1>2. m \in Seqs /\ Dist(n, m) = k
    BY <1>1, PlusDist
  <1> HIDE DEF m
  <1>0. Modulus \in Nat /\ Dist(a, n) \in Nat
    BY Triangle, Numbers
  <1>3. Dist(a, m) = Dist(a, n) + k
    BY SMTT(30), <1>0, <1>1, <1>2, Triangle, Numbers
  <1>4. ASSUME NEW s \in Seqs
        PROVE  /\ InWindow(s, a, m) <=> InWindow(s, a, n) \/ InWindow(s, n, m)
               /\ InWindow(s, a, n) => ~InWindow(s, n, m) /\ Dist(s, m) = Dist(s, n) + k
               /\ InWindow(s, n, m) => Dist(n, s) \in 1 .. k /\ Dist(s, m) = k - Dist(n, s)
    <2>1. /\ Dist(a, s) \in Nat /\ Dist(n, s) \in Nat /\ Dist(s, n) \in Nat /\ Dist(s, m) \in Nat
          /\ Dist(a, s) < Modulus /\ Dist(n, s) < Modulus /\ Dist(s, n) < Modulus
          /\ Dist(s, m) < Modulus
      BY <1>2, Triangle
    <2>2. \/ Dist(a, n) + Dist(n, s) = Dist(a, s)
          \/ Dist(a, n) + Dist(n, s) = Dist(a, s) + Modulus
      BY Triangle
    <2>3. \/ Dist(a, s) + Dist(s, n) = Dist(a, n)
          \/ Dist(a, s) + Dist(s, n) = Dist(a, n) + Modulus
      BY Triangle
    <2>4. \/ Dist(s, n) + k = Dist(s, m)
          \/ Dist(s, n) + k = Dist(s, m) + Modulus
      BY <1>2, Triangle
    <2>5. \/ Dist(n, s) + Dist(s, m) = k
          \/ Dist(n, s) + Dist(s, m) = k + Modulus
      BY <1>2, Triangle
    <2> QED
      BY <1>0, <1>1, <1>2, <1>3, <2>1, <2>2, <2>3, <2>4, <2>5 DEF InWindow
  <1> QED
    BY <1>2, <1>3, <1>4 DEF m

(* The k-th number of the window.                                           *)
LEMMA WindowPlus ==
  ASSUME conf \in Confs, NEW a \in Seqs, NEW n \in Seqs, NEW k \in 1 .. Dist(a, n)
  PROVE  /\ Plus(a, k) \in Seqs /\ InWindow(Plus(a, k), a, n)
         /\ Dist(a, Plus(a, k)) = k
         /\ Dist(Plus(a, k), n) = Dist(a, n) - k
  <1>0. Modulus \in Nat /\ Dist(a, n) \in Nat /\ Dist(a, n) < Modulus
    BY Triangle, Numbers
  <1>1. k \in 0 .. Modulus - 1
    BY <1>0
  <1> DEFINE m == Plus(a, k)
  <1>2. m \in Seqs /\ Dist(a, m) = k
    BY <1>1, PlusDist
  <1> HIDE DEF m
  <1>3. Dist(m, n) = Dist(a, n) - k
    <2>1. /\ Dist(m, n) \in Nat /\ Dist(m, n) < Modulus
          /\ k + Dist(m, n) = Dist(a, n) \/ k + Dist(m, n) = Dist(a, n) + Modulus
      BY <1>2, Triangle
    <2> QED
      BY <1>0, <2>1
  <1>4. InWindow(m, a, n)
    BY <1>0, <1>1, <1>2 DEF InWindow
  <1> QED
    BY <1>2, <1>3, <1>4 DEF m
-----------------------------------------------------------------------------
(* The types of the fields of an engine.                                    *)
LEMMA EngineFields ==
  ASSUME conf \in Confs, NEW e \in Engine
  PROVE  /\ e.st \in {"halted", "istart", "astart", "running", "maint"}
         /\ e.r \in Seqs /\ e.a \in Seqs /\ e.n \in Seqs
         /\ e.unack \in [Seqs -> Slot] /\ e.notsent \in Seq(Nat \ {0})
         /\ Len(e.notsent) \in Nat
         /\ e.timer \in BOOLEAN /\ e.out \in Seq(Message) /\ e.got \in Seq(Nat)
         /\ e.acked \in SUBSET Nat
         /\ Pending(e) \in Nat /\ Pending(e) < Modulus
  <1>1. e.a \in Seqs /\ e.n \in Seqs
    BY DEF Engine
  <1>2. Pending(e) \in Nat /\ Pending(e) < Modulus
    BY <1>1, Triangle DEF Pending
  <1> QED
    BY <1>1, <1>2 DEF Engine

(* What is left of a sequence without its first k elements.                 *)
LEMMA DropFirst ==
  ASSUME NEW S, NEW s \in Seq(S), NEW k \in Nat, k <= Len(s)
  PROVE  /\ SubSeq(s, k + 1, Len(s)) \in Seq(S)
         /\ Len(SubSeq(s, k + 1, Len(s))) = Len(s) - k
         /\ \A j \in 1 .. Len(s) - k : SubSeq(s, k + 1, Len(s))[j] = s[k + j]
  <1>1. Len(s) \in Nat /\ k + 1 \in Int /\ \A j \in k + 1 .. Len(s) : s[j] \in S
    BY ElementOfSeq
  <1>2. /\ SubSeq(s, k + 1, Len(s)) \in Seq(S)
        /\ Len(SubSeq(s, k + 1, Len(s))) = IF k + 1 <= Len(s) THEN Len(s) - (k + 1) + 1 ELSE 0
        /\ \A i \in 1 .. Len(s) - (k + 1) + 1 :
              SubSeq(s, k + 1, Len(s))[i] = s[(k + 1) + i - 1]
    BY <1>1, SubSeqProperties
  <1> QED
    BY <1>1, <1>2

(* The window has room for what send_queued takes out of notsent_.          *)
LEMMA RoomBounds ==
  ASSUME conf \in Confs, NEW e \in Engine, Pending(e) <= QMax
  PROVE  /\ Room(e) \in Nat /\ Room(e) <= Len(e.notsent) /\ Pending(e) + Room(e) <= QMax
         /\ Pending(e) + Room(e) < Modulus
         /\ Room(e) < Len(e.notsent) => Pending(e) + Room(e) = QMax
  BY EngineFields, Numbers DEF Room

(* send_queued, short of sending: the window takes what it has room for.    *)
LEMMA QueuedGood ==
  ASSUME conf \in Confs, NEW g \in Nat, NEW e, Loose(e, g)
  PROVE  /\ Good(Queued(e), g)
         /\ Queued(e).n = Plus(e.n, Room(e)) /\ Queued(e).a = e.a
         /\ Queued(e).st = e.st /\ Queued(e).r = e.r /\ Queued(e).got = e.got
         /\ Queued(e).out = e.out /\ Queued(e).acked = e.acked /\ Queued(e).timer = e.timer
         /\ Pending(Queued(e)) = Pending(e) + Room(e)
         /\ High(Queued(e), g) = High(e, g) + Room(e)
         /\ \A s \in Seqs : InWindow(s, e.a, e.n) =>
              /\ InWindow(s, Queued(e).a, Queued(e).n)
              /\ Queued(e).unack[s] = e.unack[s]
         /\ \A s \in Seqs : InWindow(s, Queued(e).a, Queued(e).n) /\ ~InWindow(s, e.a, e.n) =>
              Queued(e).unack[s].data > High(e, g)
  <1> DEFINE k == Room(e)
             m == Plus(e.n, k)
             q == Queued(e)
             rest == SubSeq(e.notsent, k + 1, Len(e.notsent))
             u == [s \in Seqs |-> IF InWindow(s, e.n, m)
                                  THEN [resp |-> e.r, data |-> e.notsent[Dist(e.n, s)]]
                                  ELSE e.unack[s]]
  <1>1. e \in Engine /\ Pending(e) <= QMax /\ EngineData(e, g)
    BY DEF Loose
  <1>2. /\ e.r \in Seqs /\ e.a \in Seqs /\ e.n \in Seqs
        /\ e.unack \in [Seqs -> Slot] /\ e.notsent \in Seq(Nat \ {0})
        /\ Len(e.notsent) \in Nat /\ Pending(e) \in Nat
    BY <1>1, EngineFields
  <1>3. /\ k \in Nat /\ k <= Len(e.notsent) /\ Pending(e) + k <= QMax /\ Pending(e) + k < Modulus
        /\ k < Len(e.notsent) => Pending(e) + k = QMax
    BY <1>1, RoomBounds
  <1>4. /\ m \in Seqs
        /\ Dist(e.a, m) = Pending(e) + k
        /\ Dist(e.n, m) = k
        /\ \A s \in Seqs :
             /\ InWindow(s, e.a, m) <=> InWindow(s, e.a, e.n) \/ InWindow(s, e.n, m)
             /\ InWindow(s, e.a, e.n) => ~InWindow(s, e.n, m) /\ Dist(s, m) = Dist(s, e.n) + k
             /\ InWindow(s, e.n, m) => Dist(e.n, s) \in 1 .. k /\ Dist(s, m) = k - Dist(e.n, s)
    BY <1>2, <1>3, WindowGrown DEF Pending
  <1>5. /\ q = [e EXCEPT !.n = m, !.unack = u, !.notsent = rest]
    BY DEF Queued
  <1>6. /\ q.n = m /\ q.a = e.a /\ q.unack = u /\ q.notsent = rest /\ q.st = e.st /\ q.r = e.r
        /\ q.got = e.got /\ q.out = e.out /\ q.acked = e.acked /\ q.timer = e.timer
    BY Zenon, <1>1, <1>5 DEF Engine
  <1>7. /\ rest \in Seq(Nat \ {0}) /\ Len(rest) = Len(e.notsent) - k
        /\ \A j \in 1 .. Len(rest) : rest[j] = e.notsent[k + j]
    <2>1. /\ rest \in Seq(Nat \ {0}) /\ Len(rest) = Len(e.notsent) - k
          /\ \A j \in 1 .. Len(e.notsent) - k : rest[j] = e.notsent[k + j]
      BY Zenon, <1>2, <1>3, DropFirst
    <2> HIDE DEF k, rest
    <2> QED
      BY Zenon, <2>1
  <1> HIDE DEF k, m, q, rest
  <1>8. \A s \in Seqs : InWindow(s, e.n, m) =>
          /\ e.notsent[Dist(e.n, s)] \in Nat \ {0}
          /\ e.notsent[Dist(e.n, s)] = High(e, g) + Dist(e.n, s)
    BY <1>1, <1>2, <1>3, <1>4, ElementOfSeq DEF EngineData
  <1>9. u \in [Seqs -> Slot]
    BY <1>2, <1>8 DEF Slot
  <1>10. q \in Engine
    BY Zenon, <1>1, <1>2, <1>4, <1>5, <1>7, <1>9 DEF Engine
  <1>11. High(e, g) \in Int /\ High(q, g) = High(e, g) + k /\ Pending(q) = Pending(e) + k
    BY <1>2, <1>3, <1>4, <1>6, <1>7 DEF High, Pending
  <1>12. \A s \in Seqs : (u[s] # None) <=> InWindow(s, e.a, m)
    BY <1>2, <1>4, <1>8 DEF Loose, None
  <1>13. EngineData(q, g)
    <2>1. Pending(q) <= High(q, g)
      BY <1>1, <1>2, <1>3, <1>11 DEF EngineData
    <2>2. \A j \in 1 .. Len(rest) : rest[j] = High(q, g) + j
      <3>9. Len(rest) = Len(e.notsent) - k /\ k \in Nat /\ Len(e.notsent) \in Nat
        BY <1>2, <1>3, <1>7
      <3> TAKE j \in 1 .. Len(rest)
      <3>0. rest[j] = e.notsent[k + j]
        BY <1>7
      <3>1. k + j \in 1 .. Len(e.notsent)
        BY <3>9
      <3>2. e.notsent[k + j] = High(e, g) + (k + j)
        BY <1>1, <3>1 DEF EngineData
      <3> QED
        BY <1>11, <3>9, <3>0, <3>1, <3>2
    <2>3. \A s \in Seqs : InWindow(s, e.a, m) => u[s].data = High(q, g) - Dist(s, m)
      <3> SUFFICES ASSUME NEW s \in Seqs, InWindow(s, e.a, m)
                   PROVE  u[s].data = High(q, g) - Dist(s, m)
        OBVIOUS
      <3>1. CASE InWindow(s, e.a, e.n)
        <4>1. ~InWindow(s, e.n, m) /\ Dist(s, m) = Dist(s, e.n) + k /\ Dist(s, e.n) \in Nat
          BY <1>2, <1>4, <3>1, Triangle
        <4>2. u[s].data = High(e, g) - Dist(s, e.n)
          BY <1>1, <3>1, <4>1 DEF EngineData
        <4> QED
          BY <1>3, <1>11, <4>1, <4>2
      <3>2. CASE InWindow(s, e.n, m)
        BY <1>3, <1>4, <1>8, <1>11, <3>2
      <3> QED
        BY <1>4, <3>1, <3>2
    <2>4. e.st # "running" => e.a = m /\ rest = <<>>
      <3> SUFFICES ASSUME e.st # "running" PROVE e.a = m /\ rest = <<>>
        OBVIOUS
      <3>1. e.a = e.n /\ Len(e.notsent) = 0
        BY <1>1 DEF EngineData
      <3>2. Len(rest) = 0 /\ k = 0
        BY <1>3, <1>7, <3>1
      <3> QED
        BY <1>2, <1>4, <1>7, <3>1, <3>2, DistInjective, EmptySeq
    <2> QED
      BY <1>6, <2>1, <2>2, <2>3, <2>4 DEF EngineData
  <1>14. q.notsent # <<>> => Pending(q) = QMax
    BY <1>3, <1>6, <1>7, <1>11, EmptySeq
  <1>15. Good(q, g)
    BY <1>3, <1>6, <1>10, <1>11, <1>12, <1>13, <1>14 DEF Good, Loose
  <1>16. ASSUME NEW s \in Seqs, InWindow(s, e.a, e.n)
         PROVE  InWindow(s, e.a, m) /\ u[s] = e.unack[s]
    BY <1>4, <1>16
  <1>17. ASSUME NEW s \in Seqs, InWindow(s, e.a, m), ~InWindow(s, e.a, e.n)
         PROVE  u[s].data > High(e, g)
    BY <1>3, <1>4, <1>8, <1>11, <1>17
  <1> QED
    BY <1>6, <1>11, <1>15, <1>16, <1>17 DEF k, m, q

(* What a good engine gives: its type, its payloads, and a window below the *)
(* modulus.                                                                 *)
LEMMA GoodFields ==
  ASSUME conf \in Confs, NEW g \in Nat, NEW e, Good(e, g)
  PROVE  /\ e \in Engine /\ Loose(e, g) /\ EngineData(e, g)
         /\ Pending(e) \in Nat /\ Pending(e) <= QMax /\ Pending(e) < Modulus
         /\ High(e, g) \in Nat
  <1>1. e \in Engine /\ Loose(e, g) /\ EngineData(e, g) /\ Pending(e) <= QMax
    BY DEF Good, Loose
  <1>2. Pending(e) \in Nat /\ Pending(e) < Modulus /\ Len(e.notsent) \in Nat
    BY <1>1, EngineFields
  <1>3. High(e, g) \in Int /\ Pending(e) <= High(e, g)
    BY <1>1, <1>2 DEF High, EngineData
  <1> QED
    BY <1>1, <1>2, <1>3

(* The fields that Good reads.                                              *)
LEMMA GoodSame ==
  ASSUME conf \in Confs, NEW g \in Nat, NEW f, Good(f, g), NEW d \in Engine,
         d.a = f.a, d.n = f.n, d.unack = f.unack, d.notsent = f.notsent,
         d.st # "running" => f.a = f.n /\ f.notsent = <<>>
  PROVE  Good(d, g) /\ High(d, g) = High(f, g)
  BY Zenon DEF Good, Loose, EngineData, High, Pending

(* A step that only adds a message to what is sent, one that carries no     *)
(* payload, or nothing at all.                                              *)
LEMMA SendsMore ==
  ASSUME conf \in Confs, NEW g \in Nat, NEW h \in Nat, NEW e, NEW f, Sends(e, f, g, h),
         NEW d \in Engine,
         d.a = f.a, d.n = f.n, d.unack = f.unack, d.notsent = f.notsent,
         d.st # "running" => f.a = f.n /\ f.notsent = <<>>,
         \/ d.out = f.out
         \/ \E m \in Message : /\ d.out = Append(f.out, m) /\ ~IsData(m)
                               /\ Opening(m) => f.a = f.n
  PROVE  Sends(e, d, g, h)
  <1>1. Good(f, h) /\ Kept(e, f, g) /\ High(e, g) <= High(f, h) /\ OutOK(f) /\ f.out \in Seq(Message)
    BY GoodFields, EngineFields DEF Sends
  <1>2. Good(d, h) /\ High(d, h) = High(f, h)
    BY <1>1, GoodSame
  <1>3. Kept(e, d, g)
    BY <1>1 DEF Kept
  <1>4. CASE d.out = f.out
    BY <1>1, <1>2, <1>3, <1>4 DEF OutOK, Sends
  <1>5. ASSUME NEW m \in Message, d.out = Append(f.out, m), ~IsData(m), Opening(m) => f.a = f.n
        PROVE  Sends(e, d, g, h)
    <2>1. /\ Len(d.out) = Len(f.out) + 1 /\ Len(f.out) \in Nat
          /\ \A i \in 1 .. Len(f.out) : d.out[i] = f.out[i]
          /\ d.out[Len(f.out) + 1] = m
      BY <1>1, <1>5, AppendProperties
    <2>2. \A i \in 1 .. Len(d.out) : (i \in 1 .. Len(f.out) /\ d.out[i] = f.out[i]) \/ d.out[i] = m
      BY <2>1
    <2>3. OutOK(d)
      BY <1>1, <1>5, <2>2 DEF OutOK
    <2> QED
      BY <1>1, <1>2, <1>3, <2>3 DEF Sends
  <1> QED
    BY <1>4, <1>5

(* A station that sends nothing and changes nothing.                        *)
LEMMA SendsNothing ==
  ASSUME conf \in Confs, NEW g \in Nat, NEW e, Good(e, g), e.out = <<>>
  PROVE  Sends(e, e, g, g)
  <1>1. High(e, g) <= High(e, g)
    BY GoodFields
  <1> QED
    BY <1>1, EmptySeq DEF Sends, Kept, OutOK

(* A data message made from an occupied slot of unack_ has its type.        *)
LEMMA MessageType ==
  ASSUME conf \in Confs, NEW kind \in Kinds, NEW num \in Seqs, NEW resp \in Seqs, NEW data \in Nat
  PROVE  /\ Msg(kind, num, resp, data) \in Message
         /\ Msg(kind, num, resp, data).kind = kind
         /\ Msg(kind, num, resp, data).num = num
         /\ Msg(kind, num, resp, data).resp = resp
         /\ Msg(kind, num, resp, data).data = data
  BY DEF Msg, Message

(* init_state: nothing is outstanding any more.                             *)
LEMMA InitStateSends ==
  ASSUME conf \in Confs, NEW g \in Nat, NEW e, Good(e, g), e.out = <<>>
  PROVE  /\ Sends(e, InitState(e), g, g)
         /\ InitState(e).a = InitState(e).n /\ InitState(e).notsent = <<>>
         /\ InitState(e).out = <<>> /\ InitState(e).got = e.got /\ InitState(e).st = e.st
         /\ InitState(e) \in Engine /\ InitState(e).r = 0
  <1> DEFINE f == InitState(e)
  <1>1. e \in Engine /\ High(e, g) \in Nat /\ e.notsent \in Seq(Nat \ {0}) /\ Len(e.notsent) \in Nat
    BY GoodFields, EngineFields
  <1>2. /\ f = [e EXCEPT !.r = 0, !.a = 0, !.n = 0, !.timer = FALSE,
                         !.unack = [s \in Seqs |-> None], !.notsent = <<>>]
        /\ 0 \in Seqs /\ None \in Slot
    BY Numbers DEF InitState, Slot, None
  <1>3. f \in Engine
    BY SMTT(30), <1>1, <1>2, EmptySeq DEF Engine
  <1>4. /\ f.a = 0 /\ f.n = 0 /\ f.unack = [s \in Seqs |-> None] /\ f.notsent = <<>>
        /\ f.out = <<>> /\ f.got = e.got /\ f.st = e.st /\ f.r = 0
    BY <1>1, <1>2 DEF Engine
  <1> HIDE DEF f
  <1>5. Dist(0, 0) = 0 /\ \A s \in Seqs : ~InWindow(s, 0, 0)
    <2>1. ASSUME NEW s \in Seqs PROVE ~InWindow(s, 0, 0)
      BY <1>2, DistInjective DEF InWindow
    <2> QED
      BY <1>2, <2>1, DistInjective
  <1>6. Pending(f) = 0 /\ High(f, g) = g /\ High(e, g) <= g
    BY <1>1, <1>4, <1>5, EmptySeq DEF Pending, High
  <1>7. EngineData(f, g)
    BY <1>4, <1>5, <1>6, EmptySeq DEF EngineData
  <1>8. Good(f, g)
    BY <1>3, <1>4, <1>5, <1>6, <1>7, Numbers DEF Good, Loose
  <1>9. Kept(e, f, g) /\ OutOK(f)
    BY <1>4, <1>5, EmptySeq DEF Kept, OutOK
  <1> QED
    BY <1>3, <1>4, <1>6, <1>8, <1>9 DEF Sends, f

(* process_ack frees what an acknowledgement in the window covers.          *)
LEMMA FreedLoose ==
  ASSUME conf \in Confs, NEW g \in Nat, NEW e, Good(e, g), NEW m \in Message, ~Stale(e, m)
  PROVE  /\ Loose(Freed(e, m), g) /\ High(Freed(e, m), g) = High(e, g)
         /\ Kept(e, Freed(e, m), g)
         /\ Freed(e, m).out = e.out /\ Freed(e, m).r = e.r /\ Freed(e, m).got = e.got
         /\ Freed(e, m).st = e.st
  <1> DEFINE f == Freed(e, m)
             x == m.resp
             u == [s \in Seqs |-> IF InWindow(s, e.a, x) THEN None ELSE e.unack[s]]
             t == e.acked \cup {e.unack[s].data : s \in {y \in Seqs : InWindow(y, e.a, x)}}
  <1>1. /\ e \in Engine /\ Loose(e, g) /\ EngineData(e, g) /\ Pending(e) \in Nat
        /\ Pending(e) <= QMax /\ High(e, g) \in Nat
    BY GoodFields
  <1>2. /\ e.a \in Seqs /\ e.n \in Seqs /\ e.unack \in [Seqs -> Slot] /\ e.acked \in SUBSET Nat
        /\ x \in Seqs
    BY <1>1, EngineFields DEF Message
  <1>3. Dist(e.a, x) \in Nat /\ Dist(e.a, x) <= Dist(e.a, e.n)
    BY <1>1, <1>2, Triangle DEF Stale, Pending
  <1>4. /\ Dist(x, e.n) = Dist(e.a, e.n) - Dist(e.a, x)
        /\ \A s \in Seqs : InWindow(s, x, e.n) <=> InWindow(s, e.a, e.n) /\ ~InWindow(s, e.a, x)
    BY <1>2, <1>3, WindowFreed
  <1>5. f = [e EXCEPT !.a = x, !.timer = (x # e.n), !.unack = u, !.acked = t]
    BY DEF Freed
  <1>6. /\ f.a = x /\ f.n = e.n /\ f.unack = u /\ f.notsent = e.notsent /\ f.out = e.out
        /\ f.r = e.r /\ f.got = e.got /\ f.st = e.st
    BY <1>1, <1>5 DEF Engine
  <1>7. u \in [Seqs -> Slot] /\ t \in SUBSET Nat
    BY SMTT(30), <1>2, Numbers DEF Slot, None
  <1>8. f \in Engine
    BY Zenon, <1>1, <1>2, <1>5, <1>7 DEF Engine
  <1> HIDE DEF f
  <1>9. /\ Pending(f) = Pending(e) - Dist(e.a, x) /\ Pending(f) <= Pending(e)
        /\ High(f, g) = High(e, g)
    BY <1>1, <1>3, <1>4, <1>6 DEF Pending, High
  <1>10. \A s \in Seqs : (u[s] # None) <=> InWindow(s, x, e.n)
    BY <1>1, <1>4 DEF Loose
  <1>11. EngineData(f, g)
    <2>1. Pending(f) <= High(f, g) /\ Pending(f) <= QMax
      BY <1>1, <1>3, <1>9, Numbers DEF EngineData
    <2>2. \A s \in Seqs : InWindow(s, x, e.n) => u[s].data = High(f, g) - Dist(s, e.n)
      BY <1>1, <1>4, <1>9 DEF EngineData
    <2>3. e.st # "running" => x = e.n /\ e.notsent = <<>>
      <3> SUFFICES ASSUME e.st # "running" PROVE x = e.n /\ e.notsent = <<>>
        OBVIOUS
      <3>1. e.a = e.n /\ e.notsent = <<>>
        BY <1>1 DEF EngineData
      <3>2. Dist(e.a, x) = 0
        BY <1>2, <1>3, <3>1, DistInjective
      <3> QED
        BY <1>2, <3>1, <3>2, DistInjective
    <2> QED
      BY <1>1, <1>6, <1>9, <2>1, <2>2, <2>3 DEF EngineData
  <1>12. Pending(f) <= QMax
    BY <1>1, <1>3, <1>9, Numbers
  <1>13. Loose(f, g)
    BY <1>6, <1>8, <1>10, <1>11, <1>12 DEF Loose
  <1>14. Kept(e, f, g)
    BY <1>4, <1>6 DEF Kept
  <1> QED
    BY <1>6, <1>9, <1>13, <1>14 DEF f

(* The data messages with the last len numbers of the window.               *)
LEMMA DataRun ==
  ASSUME conf \in Confs, NEW g \in Nat, NEW q, Good(q, g), NEW b \in Seqs, NEW len \in Nat,
         Dist(q.a, b) + len = Pending(q), Dist(b, q.n) = len,
         NEW k \in 1 .. len
  PROVE  /\ Data(q, Plus(b, k)) \in Message
         /\ IsData(Data(q, Plus(b, k))) /\ ~Opening(Data(q, Plus(b, k)))
         /\ Data(q, Plus(b, k)).num = Plus(b, k) /\ Plus(b, k) \in Seqs
         /\ Data(q, Plus(b, k)).data = q.unack[Plus(b, k)].data
         /\ Data(q, Plus(b, k)).resp = q.unack[Plus(b, k)].resp
         /\ InWindow(Plus(b, k), q.a, q.n)
         /\ Data(q, Plus(b, k)).data = High(q, g) - len + k
  <1> DEFINE s == Plus(b, k)
  <1>1. /\ q \in Engine /\ EngineData(q, g) /\ Pending(q) \in Nat /\ High(q, g) \in Nat
        /\ q.a \in Seqs /\ q.n \in Seqs /\ q.unack \in [Seqs -> Slot]
    BY GoodFields, EngineFields
  <1>2. s \in Seqs /\ InWindow(s, b, q.n) /\ Dist(b, s) = k /\ Dist(s, q.n) = len - k
    BY <1>1, WindowPlus
  <1> HIDE DEF s
  <1>3. /\ Dist(q.a, b) \in Nat /\ Dist(b, s) \in Nat /\ Dist(q.a, s) \in Nat
        /\ \/ Dist(q.a, b) + Dist(b, s) = Dist(q.a, s)
           \/ Dist(q.a, b) + Dist(b, s) = Dist(q.a, s) + Modulus
    BY <1>1, <1>2, Triangle
  <1>4. Pending(q) < Modulus /\ Modulus \in Nat
    BY <1>1, EngineFields, Numbers
  <1>5. Dist(q.a, s) = Dist(q.a, b) + k
    BY <1>1, <1>2, <1>3, <1>4
  <1>6. InWindow(s, q.a, q.n)
    BY <1>1, <1>3, <1>5 DEF InWindow, Pending
  <1>7. q.unack[s].data = High(q, g) - (len - k) /\ q.unack[s] \in Slot
    BY <1>1, <1>2, <1>6 DEF EngineData
  <1>8. q.unack[s].data \in Nat /\ q.unack[s].resp \in Seqs
    BY <1>7 DEF Slot
  <1>9. "data" \in Kinds /\ Data(q, s) = Msg("data", s, q.unack[s].resp, q.unack[s].data)
    BY DEF Kinds, Data
  <1>10. /\ Data(q, s) \in Message /\ Data(q, s).kind = "data" /\ Data(q, s).num = s
         /\ Data(q, s).resp = q.unack[s].resp /\ Data(q, s).data = q.unack[s].data
    BY <1>2, <1>8, <1>9, MessageType
  <1> QED
    BY <1>1, <1>2, <1>6, <1>7, <1>10 DEF s, IsData, Opening

(* send_queued and retransmit send a run of the window.                     *)
LEMMA RunSends ==
  ASSUME conf \in Confs, NEW g \in Nat, NEW h \in Nat, NEW e, NEW q, Good(q, h),
         Kept(e, q, g), High(e, g) <= High(q, h), q.out = <<>>,
         NEW b \in Seqs, NEW len \in Nat,
         Dist(q.a, b) + len = Pending(q), Dist(b, q.n) = len,
         NEW d \in Engine,
         d.a = q.a, d.n = q.n, d.unack = q.unack, d.notsent = q.notsent, d.st = q.st,
         d.out = <<>> \o [k \in 1 .. len |-> Data(q, Plus(b, k))]
  PROVE  Sends(e, d, g, h)
  <1> DEFINE o == [k \in 1 .. len |-> Data(q, Plus(b, k))]
  <1>1. \A k \in 1 .. len : 
          /\ o[k] \in Message /\ IsData(o[k]) /\ ~Opening(o[k])
          /\ o[k].data = q.unack[o[k].num].data /\ InWindow(o[k].num, q.a, q.n)
          /\ o[k].data = High(q, h) - len + k
    BY DataRun
  <1>2. o \in [1 .. len -> Message]
    BY <1>1
  <1>3. o \in Seq(Message) /\ Len(o) = len
    BY <1>2
  <1>4. d.out = o
    BY <1>3, ConcatEmptySeq
  <1> HIDE DEF o
  <1>5. Good(d, h) /\ High(d, h) = High(q, h) /\ High(q, h) \in Nat
    <2>1. Good(q, h) /\ (q.st # "running" => q.a = q.n /\ q.notsent = <<>>)
      BY GoodFields DEF EngineData
    <2> QED
      BY <2>1, GoodSame, GoodFields
  <1>6. Kept(e, d, g)
    BY DEF Kept
  <1>7. OutOK(d)
    <2>1. \A i \in 1 .. Len(d.out) : i \in 1 .. len /\ d.out[i] = o[i]
      BY <1>3, <1>4
    <2>2. \A i, j \in 1 .. Len(d.out) : i < j => d.out[i].data < d.out[j].data
      <3> SUFFICES ASSUME NEW i \in 1 .. Len(d.out), NEW j \in 1 .. Len(d.out), i < j
                   PROVE  o[i].data < o[j].data
        BY <2>1
      <3>1. o[i].data = High(q, h) - len + i /\ o[j].data = High(q, h) - len + j
        BY <1>1, <2>1
      <3>2. i \in Nat /\ j \in Nat
        BY <2>1
      <3> QED
        BY <1>5, <3>1, <3>2
    <2> QED
      BY <1>1, <2>1, <2>2 DEF OutOK
  <1> QED
    BY <1>5, <1>6, <1>7 DEF Sends

(* What send_queued makes of an engine: the messages that got a number are  *)
(* sent, or left to the retransmission.                                     *)
Filled(d) ==
    [Queued(d) EXCEPT !.out = @ \o [k \in 1 .. Room(d) |-> Data(Queued(d), Plus(d.n, k))],
                      !.timer = TRUE]

(* send_queued, whether it sends what it numbers or leaves it to the        *)
(* retransmission, fills the window in order.                               *)
LEMMA FilledSends ==
  ASSUME conf \in Confs, NEW g \in Nat, NEW h \in Nat, NEW e, NEW d, Loose(d, h),
         Kept(e, d, g), High(d, h) = High(e, g), d.out = <<>>,
         NEW f, f = Queued(d) \/ f = Filled(d)
  PROVE  /\ Sends(e, f, g, h)
         /\ f.st = d.st /\ f.r = d.r /\ f.got = d.got /\ f \in Engine
         /\ f = Queued(d) => f.out = <<>>
  <1> DEFINE q == Queued(d)
             len == Room(d)
  <1>1. /\ Good(q, h) /\ q.n = Plus(d.n, len) /\ q.a = d.a /\ q.out = d.out
        /\ q.st = d.st /\ q.r = d.r /\ q.got = d.got
        /\ Pending(q) = Pending(d) + len
        /\ High(q, h) = High(d, h) + len
        /\ \A s \in Seqs : InWindow(s, d.a, d.n) =>
             InWindow(s, q.a, q.n) /\ q.unack[s] = d.unack[s]
        /\ \A s \in Seqs : InWindow(s, q.a, q.n) /\ ~InWindow(s, d.a, d.n) =>
             q.unack[s].data > High(d, h)
    BY QueuedGood
  <1>2. d \in Engine /\ Pending(d) <= QMax
    BY DEF Loose
  <1>3. /\ len \in Nat /\ Pending(d) + len < Modulus /\ d.n \in Seqs /\ d.a \in Seqs
        /\ Len(d.notsent) \in Nat /\ Pending(d) \in Nat
    BY <1>2, RoomBounds, EngineFields
  <1>4. High(e, g) <= High(q, h)
    BY SMTT(30), <1>1, <1>3 DEF High
  <1>5. Kept(e, q, g)
    BY <1>1 DEF Kept
  <1>6. q \in Engine
    BY <1>1, GoodFields
  <1>9. f = q \/ f = [q EXCEPT !.out = @ \o [k \in 1 .. len |-> Data(q, Plus(d.n, k))],
                               !.timer = TRUE]
    BY DEF Filled
  <1>10. f = Queued(d) => f = q
    OBVIOUS
  <1> HIDE DEF q, len
  <1>7. CASE f = q
    <2>2. OutOK(q)
      BY <1>1, EmptySeq DEF OutOK
    <2> QED
      BY <1>1, <1>4, <1>5, <1>6, <1>7, <2>2 DEF Sends
  <1>8. CASE f = [q EXCEPT !.out = @ \o [k \in 1 .. len |-> Data(q, Plus(d.n, k))],
                           !.timer = TRUE]
    <2> DEFINE o == [k \in 1 .. len |-> Data(q, Plus(d.n, k))]
    <2>1. Dist(q.a, d.n) + len = Pending(q) /\ Dist(d.n, q.n) = len
      BY <1>1, <1>3, WindowGrown DEF Pending
    <2>2. o \in Seq(Message)
      <3>1. \A k \in 1 .. len : o[k] \in Message
        BY <1>1, <1>3, <2>1, DataRun
      <3> QED
        BY SMTT(30), <1>3, <3>1
    <2>3. f = [q EXCEPT !.out = <<>> \o o, !.timer = TRUE]
      BY <1>1, <1>6, <1>8
    <2> HIDE DEF o
    <2>4. <<>> \o o = o
      BY <2>2, ConcatEmptySeq
    <2>7. f = [q EXCEPT !.out = o, !.timer = TRUE]
      BY <2>3, <2>4
    <2>5. /\ f \in Engine /\ f.a = q.a /\ f.n = q.n /\ f.unack = q.unack
          /\ f.notsent = q.notsent /\ f.st = q.st /\ f.out = o /\ f.r = q.r /\ f.got = q.got
      BY ZenonT(30), <1>6, <2>2, <2>7 DEF Engine
    <2>6. Sends(e, f, g, h)
      BY <1>1, <1>3, <1>4, <1>5, <2>1, <2>4, <2>5, RunSends DEF o
    <2> QED
      BY <1>1, <1>10, <2>5, <2>6
  <1> QED
    BY <1>7, <1>8, <1>9

(* process_ack.                                                             *)
LEMMA ProcessAckSends ==
  ASSUME conf \in Confs, NEW g \in Nat, NEW e, Good(e, g), e.out = <<>>, NEW m \in Message
  PROVE  /\ Sends(e, ProcessAck(e, m), g, g)
         /\ ProcessAck(e, m).st = e.st /\ ProcessAck(e, m).r = e.r
         /\ ProcessAck(e, m).got = e.got /\ ProcessAck(e, m) \in Engine
         /\ m.kind = "nak" => ProcessAck(e, m).out = <<>>
  <1>1. CASE Stale(e, m)
    BY <1>1, SendsNothing, GoodFields DEF ProcessAck
  <1>2. CASE ~Stale(e, m)
    <2> DEFINE d == Freed(e, m)
               f == ProcessAck(e, m)
    <2>1. /\ Loose(d, g) /\ High(d, g) = High(e, g) /\ Kept(e, d, g)
          /\ d.out = <<>> /\ d.r = e.r /\ d.got = e.got /\ d.st = e.st
      BY <1>2, FreedLoose
    <2>2. (f = Queued(d) \/ f = Filled(d)) /\ (m.kind = "nak" => f = Queued(d))
      <3>1. f = IF (m.kind = "nak") \/ Room(d) = 0 THEN Queued(d) ELSE Filled(d)
        BY <1>2, Zenon DEF ProcessAck, SendQueued, Filled
      <3> QED
        BY <3>1, Zenon
    <2> HIDE DEF d, f
    <2>3. /\ Sends(e, f, g, g) /\ f.st = d.st /\ f.r = d.r /\ f.got = d.got /\ f \in Engine
          /\ f = Queued(d) => f.out = <<>>
      <3>1. /\ Loose(d, g) /\ Kept(e, d, g) /\ High(d, g) = High(e, g) /\ d.out = <<>>
            /\ f = Queued(d) \/ f = Filled(d)
        BY <2>1, <2>2
      <3> QED
        BY <3>1, FilledSends
    <2> QED
      BY <2>1, <2>2, <2>3 DEF f
  <1> QED
    BY <1>1, <1>2

(* retransmit.                                                              *)
LEMMA RetransmitSends ==
  ASSUME conf \in Confs, NEW g \in Nat, NEW e, NEW q, Sends(e, q, g, g), q.out = <<>>
  PROVE  /\ Sends(e, Retransmit(q), g, g)
         /\ Retransmit(q).st = q.st /\ Retransmit(q).r = q.r
         /\ Retransmit(q).got = q.got /\ Retransmit(q) \in Engine
  <1> DEFINE len == Pending(q)
             o == [k \in 1 .. len |-> Data(q, Plus(q.a, k))]
             f == Retransmit(q)
  <1>1. Good(q, g) /\ Kept(e, q, g) /\ High(e, g) <= High(q, g)
    BY DEF Sends
  <1>2. q \in Engine /\ len \in Nat /\ q.a \in Seqs /\ q.n \in Seqs /\ q.timer \in BOOLEAN
    BY <1>1, GoodFields, EngineFields
  <1>3. Dist(q.a, q.a) + len = Pending(q) /\ Dist(q.a, q.n) = len
    BY <1>2, DistInjective DEF Pending
  <1>4. o \in Seq(Message)
    <2>1. \A k \in 1 .. len : o[k] \in Message
      BY <1>1, <1>2, <1>3, DataRun
    <2> QED
      BY <1>2, <2>1
  <1>5. f = [q EXCEPT !.out = <<>> \o o, !.timer = @ \/ len > 0]
    BY DEF Retransmit
  <1> HIDE DEF o, len, f
  <1>6. <<>> \o o = o
    BY <1>4, ConcatEmptySeq
  <1>7. (q.timer \/ len > 0) \in BOOLEAN
    BY <1>2
  <1>8. /\ f \in Engine /\ f.a = q.a /\ f.n = q.n /\ f.unack = q.unack
        /\ f.notsent = q.notsent /\ f.st = q.st /\ f.out = <<>> \o o /\ f.r = q.r /\ f.got = q.got
    BY Zenon, <1>2, <1>4, <1>5, <1>6, <1>7 DEF Engine
  <1>9. Sends(e, f, g, g)
    BY <1>1, <1>2, <1>3, <1>8, RunSends DEF o
  <1> QED
    BY <1>8, <1>9 DEF f

(* SendData.                                                                *)
LEMMA SendDataSends ==
  ASSUME conf \in Confs, NEW g \in Nat, NEW e, Good(e, g), e.out = <<>>, e.st = "running"
  PROVE  /\ Sends(e, SendData(e, g + 1), g, g + 1)
         /\ SendData(e, g + 1).st = e.st /\ SendData(e, g + 1).r = e.r
         /\ SendData(e, g + 1).got = e.got /\ SendData(e, g + 1) \in Engine
  <1> DEFINE d == [e EXCEPT !.notsent = Append(@, g + 1)]
  <1>1. /\ e \in Engine /\ Loose(e, g) /\ EngineData(e, g) /\ e.notsent \in Seq(Nat \ {0})
        /\ Len(e.notsent) \in Nat /\ g + 1 \in Nat \ {0}
    BY GoodFields, EngineFields
  <1>2. /\ Append(e.notsent, g + 1) \in Seq(Nat \ {0})
        /\ Len(Append(e.notsent, g + 1)) = Len(e.notsent) + 1
        /\ \A i \in 1 .. Len(e.notsent) : Append(e.notsent, g + 1)[i] = e.notsent[i]
        /\ Append(e.notsent, g + 1)[Len(e.notsent) + 1] = g + 1
    BY <1>1, AppendProperties
  <1>3. /\ d \in Engine /\ d.a = e.a /\ d.n = e.n /\ d.unack = e.unack /\ d.st = e.st
        /\ d.notsent = Append(e.notsent, g + 1) /\ d.out = <<>> /\ d.r = e.r /\ d.got = e.got
    BY Zenon, <1>1, <1>2 DEF Engine
  <1> DEFINE f == SendData(e, g + 1)
  <1>4. f = Queued(d) \/ f = Filled(d)
    <2>1. f = IF FALSE \/ Room(d) = 0 THEN Queued(d) ELSE Filled(d)
      BY Zenon DEF SendData, SendQueued, Filled
    <2> QED
      BY <2>1, Zenon
  <1> HIDE DEF d, f
  <1>9. Len(d.notsent) = Len(e.notsent) + 1
    BY <1>2, <1>3
  <1>12. d.a = e.a /\ d.n = e.n /\ Len(e.notsent) \in Nat
    BY <1>1, <1>3
  <1>5. High(d, g + 1) = High(e, g) /\ Pending(d) = Pending(e) /\ High(e, g) \in Int
    BY <1>9, <1>12 DEF High, Pending
  <1>6. \A k \in 1 .. Len(d.notsent) : d.notsent[k] = High(d, g + 1) + k
    <2> TAKE k \in 1 .. Len(d.notsent)
    <2>1. k \in 1 .. Len(e.notsent) \/ k = Len(e.notsent) + 1
      BY <1>1, <1>2, <1>3
    <2>2. CASE k \in 1 .. Len(e.notsent)
      BY <1>1, <1>2, <1>3, <1>5, <2>2 DEF EngineData
    <2>3. CASE k = Len(e.notsent) + 1
      BY <1>1, <1>2, <1>3, <1>5, <2>3 DEF High
    <2> QED
      BY <2>1, <2>2, <2>3
  <1>7. EngineData(d, g + 1)
    BY <1>1, <1>3, <1>5, <1>6 DEF EngineData
  <1>8. Loose(d, g + 1) /\ Kept(e, d, g)
    BY <1>1, <1>3, <1>5, <1>7 DEF Loose, Kept
  <1>10. g + 1 \in Nat
    OBVIOUS
  <1>11. Sends(e, f, g, g + 1) /\ f.st = d.st /\ f.r = d.r /\ f.got = d.got /\ f \in Engine
    BY <1>3, <1>4, <1>5, <1>8, <1>10, FilledSends
  <1> QED
    BY <1>3, <1>11 DEF f
-----------------------------------------------------------------------------
(* send_msg adds a message to out and changes nothing else.                 *)
LEMMA SendMsgFields ==
  ASSUME conf \in Confs, NEW e \in Engine, NEW m \in Message
  PROVE  /\ SendMsg(e, m) \in Engine /\ SendMsg(e, m).out = Append(e.out, m)
         /\ SendMsg(e, m).a = e.a /\ SendMsg(e, m).n = e.n /\ SendMsg(e, m).unack = e.unack
         /\ SendMsg(e, m).notsent = e.notsent /\ SendMsg(e, m).st = e.st
         /\ SendMsg(e, m).r = e.r /\ SendMsg(e, m).got = e.got
  <1>1. e.out \in Seq(Message)
    BY EngineFields
  <1>2. Append(e.out, m) \in Seq(Message)
    BY <1>1, AppendProperties
  <1> DEFINE o == Append(e.out, m)
  <1> HIDE DEF o
  <1>3. SendMsg(e, m) = [e EXCEPT !.out = o] /\ o \in Seq(Message) /\ o = Append(e.out, m)
    BY <1>2 DEF SendMsg, o
  <1> QED
    BY Zenon, <1>3 DEF Engine

(* send_msg with a timer also starts the timer, and changes nothing else.   *)
LEMMA SendTimedFields ==
  ASSUME conf \in Confs, NEW e \in Engine, NEW m \in Message
  PROVE  /\ SendTimed(e, m) \in Engine /\ SendTimed(e, m).out = Append(e.out, m)
         /\ SendTimed(e, m).a = e.a /\ SendTimed(e, m).n = e.n /\ SendTimed(e, m).unack = e.unack
         /\ SendTimed(e, m).notsent = e.notsent /\ SendTimed(e, m).st = e.st
         /\ SendTimed(e, m).r = e.r /\ SendTimed(e, m).got = e.got
  <1> DEFINE f == SendMsg(e, m)
  <1>1. /\ f \in Engine /\ f.out = Append(e.out, m)
        /\ f.a = e.a /\ f.n = e.n /\ f.unack = e.unack
        /\ f.notsent = e.notsent /\ f.st = e.st /\ f.r = e.r /\ f.got = e.got
    BY SendMsgFields
  <1>2. SendTimed(e, m) = [f EXCEPT !.timer = TRUE]
    BY DEF SendTimed
  <1> HIDE DEF f
  <1>3. /\ [f EXCEPT !.timer = TRUE] \in Engine
        /\ [f EXCEPT !.timer = TRUE].out = f.out
        /\ [f EXCEPT !.timer = TRUE].a = f.a /\ [f EXCEPT !.timer = TRUE].n = f.n
        /\ [f EXCEPT !.timer = TRUE].unack = f.unack
        /\ [f EXCEPT !.timer = TRUE].notsent = f.notsent /\ [f EXCEPT !.timer = TRUE].st = f.st
        /\ [f EXCEPT !.timer = TRUE].r = f.r /\ [f EXCEPT !.timer = TRUE].got = f.got
    BY Zenon, <1>1 DEF Engine
  <1> QED
    BY <1>1, <1>2, <1>3

(* The messages without payload.                                            *)
LEMMA ControlMessages ==
  ASSUME conf \in Confs
  PROVE  /\ Start \in Message /\ Stack \in Message /\ Maintenance \in Message
         /\ ~IsData(Start) /\ ~IsData(Stack) /\ ~IsData(Maintenance) /\ ~Opening(Maintenance)
         /\ \A e \in Engine : 
              /\ Ack(e) \in Message /\ Nak(e) \in Message /\ Rep(e) \in Message
              /\ ~IsData(Ack(e)) /\ ~IsData(Nak(e)) /\ ~IsData(Rep(e))
              /\ ~Opening(Ack(e)) /\ ~Opening(Nak(e)) /\ ~Opening(Rep(e))
  <1>1. 0 \in Seqs /\ 0 \in Nat /\ {"start", "stack", "maint", "ack", "nak", "rep"} \subseteq Kinds
    BY Numbers DEF Kinds
  <1>2. \A kind \in Kinds, num \in Seqs, resp \in Seqs :
          Msg(kind, num, resp, 0) \in Message /\ Msg(kind, num, resp, 0).kind = kind
    BY <1>1, MessageType
  <1>3. /\ Start \in Message /\ Stack \in Message /\ Maintenance \in Message
        /\ ~IsData(Start) /\ ~IsData(Stack) /\ ~IsData(Maintenance) /\ ~Opening(Maintenance)
    BY <1>1, <1>2 DEF Start, Stack, Maintenance, IsData, Opening
  <1>4. ASSUME NEW e \in Engine
        PROVE  /\ Ack(e) \in Message /\ Nak(e) \in Message /\ Rep(e) \in Message
               /\ ~IsData(Ack(e)) /\ ~IsData(Nak(e)) /\ ~IsData(Rep(e))
               /\ ~Opening(Ack(e)) /\ ~Opening(Nak(e)) /\ ~Opening(Rep(e))
    <2>1. e.r \in Seqs /\ e.n \in Seqs
      BY EngineFields
    <2> QED
      BY <1>1, <1>2, <2>1 DEF Ack, Nak, Rep, IsData, Opening
  <1> QED
    BY <1>3, <1>4

(* An engine that sends a message that carries no payload besides.          *)
LEMMA SendMsgSends ==
  ASSUME conf \in Confs, NEW g \in Nat, NEW h \in Nat, NEW e, NEW f, Sends(e, f, g, h),
         NEW m \in Message, ~IsData(m), ~Opening(m)
  PROVE  Sends(e, SendMsg(f, m), g, h)
  <1>1. f \in Engine /\ (f.st # "running" => f.a = f.n /\ f.notsent = <<>>)
    BY GoodFields DEF Sends, EngineData
  <1> DEFINE d == SendMsg(f, m)
  <1>2. /\ d \in Engine /\ d.out = Append(f.out, m) /\ d.a = f.a /\ d.n = f.n
        /\ d.unack = f.unack /\ d.notsent = f.notsent /\ d.st = f.st
    BY <1>1, SendMsgFields
  <1> HIDE DEF d
  <1>3. Sends(e, d, g, h)
    BY <1>1, <1>2, SendsMore
  <1> QED
    BY <1>3 DEF d

(* connected, and do_restart that comes to it.                              *)
LEMMA ConnectedSends ==
  ASSUME conf \in Confs, NEW g \in Nat, NEW e, Good(e, g), e.out = <<>>
  PROVE  /\ Sends(e, Connected(e), g, g) /\ Connected(e).st = "istart"
         /\ Connected(e).got = e.got
  <1> DEFINE i == InitState(e)
             t == SendTimed(i, Start)
             f == Connected(e)
  <1>1. /\ Sends(e, i, g, g) /\ i.a = i.n /\ i.notsent = <<>> /\ i.out = <<>>
        /\ i.got = e.got /\ i \in Engine
    BY InitStateSends
  <1>2. Start \in Message /\ ~IsData(Start)
    BY ControlMessages
  <1>3. /\ t \in Engine /\ t.out = Append(i.out, Start) /\ t.a = i.a /\ t.n = i.n
        /\ t.unack = i.unack /\ t.notsent = i.notsent /\ t.got = i.got
    BY <1>1, <1>2, SendTimedFields
  <1>4. f = [t EXCEPT !.st = "istart"]
    BY DEF Connected
  <1> HIDE DEF i, t, f
  <1>5. /\ f \in Engine /\ f.out = t.out /\ f.a = t.a /\ f.n = t.n /\ f.unack = t.unack
        /\ f.notsent = t.notsent /\ f.got = t.got /\ f.st = "istart"
    BY Zenon, <1>3, <1>4 DEF Engine
  <1>6. Sends(e, f, g, g)
    BY Zenon, <1>1, <1>2, <1>3, <1>5, SendsMore
  <1> QED
    BY <1>1, <1>3, <1>5, <1>6 DEF f

(* Entering the maintenance state empties the window and sends nothing.     *)
LEMMA MaintSends ==
  ASSUME conf \in Confs, NEW g \in Nat, NEW e, Good(e, g), e.out = <<>>
  PROVE  Sends(e, Maint(e), g, g) /\ Maint(e).st = "maint" /\ Maint(e).got = e.got
  <1> DEFINE i == InitState(e)
             f == Maint(e)
  <1>1. /\ Sends(e, i, g, g) /\ i.a = i.n /\ i.notsent = <<>> /\ i.out = <<>>
        /\ i.got = e.got /\ i \in Engine
    BY InitStateSends
  <1>4. f = [i EXCEPT !.st = "maint"]
    BY DEF Maint
  <1> HIDE DEF i, f
  <1>5. /\ f \in Engine /\ f.out = i.out /\ f.a = i.a /\ f.n = i.n /\ f.unack = i.unack
        /\ f.notsent = i.notsent /\ f.got = i.got /\ f.st = "maint"
    BY Zenon, <1>1, <1>4 DEF Engine
  <1>6. Sends(e, f, g, g)
    BY <1>1, <1>5, SendsMore
  <1> QED
    BY <1>1, <1>5, <1>6 DEF f

(* do_restart.                                                              *)
LEMMA DoRestartSends ==
  ASSUME conf \in Confs, NEW g \in Nat, NEW e, Good(e, g), e.out = <<>>
  PROVE  Sends(e, DoRestart(e), g, g) /\ Stays(e, DoRestart(e))
  <1>1. CASE e.st = "istart"
    BY <1>1, SendsNothing DEF DoRestart, Stays, Live
  <1>2. CASE e.st # "istart"
    <2>1. Sends(e, Connected(e), g, g) /\ Connected(e).st = "istart" /\ Connected(e).got = e.got
      BY ConnectedSends
    <2>2. DoRestart(e) = Connected(e)
      BY <1>2 DEF DoRestart
    <2> QED
      BY <2>1, <2>2 DEF Stays, Live
  <1> QED
    BY <1>1, <1>2

(* A data message in the running state.                                     *)
LEMMA RunDataSends ==
  ASSUME conf \in Confs, NEW g \in Nat, NEW e, Good(e, g), e.out = <<>>, e.st = "running",
         NEW m \in Message, m.kind = "data"
  PROVE  Sends(e, RunData(e, m), g, g) /\ Reads(e, RunData(e, m), m)
  <1> DEFINE p == ProcessAck(e, m)
             d == Accept(p, m)
  <1>1. Sends(e, p, g, g) /\ p.st = e.st /\ p.r = e.r /\ p.got = e.got /\ p \in Engine
    BY ProcessAckSends
  <1>2. RunData(e, m) = IF InSequence(p, m) THEN SendMsg(d, Ack(d)) ELSE p
    BY DEF RunData
  <1> HIDE DEF p
  <1>3. CASE ~InSequence(p, m)
    BY <1>1, <1>2, <1>3 DEF Reads, Stays, Live
  <1>4. CASE InSequence(p, m)
    <2>1. m.num \in Seqs /\ m.data \in Nat /\ p.got \in Seq(Nat)
      BY <1>1, EngineFields DEF Message
    <2>2. Append(p.got, m.data) \in Seq(Nat)
      BY <2>1, AppendProperties
    <2>3. d = [p EXCEPT !.r = m.num, !.got = Append(p.got, m.data)]
      BY DEF Accept
    <2>4. /\ d \in Engine /\ d.out = p.out /\ d.a = p.a /\ d.n = p.n /\ d.unack = p.unack
          /\ d.notsent = p.notsent /\ d.st = p.st /\ d.r = m.num
          /\ d.got = Append(p.got, m.data)
      <3> DEFINE w == Append(p.got, m.data)
      <3> HIDE DEF w
      <3>1. d = [p EXCEPT !.r = m.num, !.got = w] /\ w \in Seq(Nat)
        BY <2>2, <2>3 DEF w
      <3>2. /\ d \in Engine /\ d.out = p.out /\ d.a = p.a /\ d.n = p.n /\ d.unack = p.unack
            /\ d.notsent = p.notsent /\ d.st = p.st /\ d.r = m.num /\ d.got = w
        BY Zenon, <1>1, <2>1, <3>1 DEF Engine
      <3> QED
        BY <3>2 DEF w
    <2> HIDE DEF d
    <2>5. Sends(e, d, g, g)
      BY <1>1, <2>4, SendsMore
    <2>6. Ack(d) \in Message /\ ~IsData(Ack(d)) /\ ~Opening(Ack(d))
      BY <2>4, ControlMessages
    <2>7. Sends(e, SendMsg(d, Ack(d)), g, g)
      BY <2>5, <2>6, SendMsgSends
    <2>8. SendMsg(d, Ack(d)).r = d.r /\ SendMsg(d, Ack(d)).got = d.got
      BY <2>4, <2>6, SendMsgFields
    <2>9. Takes(e, SendMsg(d, Ack(d)), m)
      BY <1>1, <1>4, <2>4, <2>8 DEF Takes, InSequence, Live, IsData
    <2> QED
      BY <1>2, <1>4, <2>7, <2>9 DEF Reads
  <1> QED
    BY <1>3, <1>4

(* Every message that arrives in the running state.                         *)
LEMMA RunningSends ==
  ASSUME conf \in Confs, NEW g \in Nat, NEW e, Good(e, g), e.out = <<>>, e.st = "running",
         NEW m \in Message
  PROVE  Sends(e, Running(e, m), g, g) /\ Reads(e, Running(e, m), m)
  <1>0. e \in Engine /\ m.kind \in Kinds /\ Sends(e, e, g, g)
    BY GoodFields, SendsNothing DEF Message
  <1>1. CASE m.kind = "data"
    BY <1>1, RunDataSends DEF Running
  <1>2. CASE m.kind = "ack"
    <2>1. Running(e, m) = ProcessAck(e, m)
      BY <1>2 DEF Running
    <2>2. /\ Sends(e, ProcessAck(e, m), g, g) /\ ProcessAck(e, m).r = e.r
          /\ ProcessAck(e, m).got = e.got
      BY ProcessAckSends
    <2> QED
      BY <2>1, <2>2 DEF Reads, Stays, Live
  <1>3. CASE m.kind = "nak"
    <2> DEFINE p == ProcessAck(e, m)
    <2>1. Running(e, m) = IF Stale(e, m) THEN e ELSE Retransmit(p)
      BY <1>3 DEF Running
    <2>2. Sends(e, p, g, g) /\ p.st = e.st /\ p.r = e.r /\ p.got = e.got /\ p.out = <<>>
      BY <1>3, ProcessAckSends
    <2> HIDE DEF p
    <2>3. Sends(e, Retransmit(p), g, g) /\ Retransmit(p).r = p.r /\ Retransmit(p).got = p.got
      BY <2>2, RetransmitSends
    <2> QED
      BY <1>0, <2>1, <2>2, <2>3 DEF Reads, Stays, Live
  <1>4. CASE m.kind \in {"rep", "stack"}
    <2>1. /\ Ack(e) \in Message /\ ~IsData(Ack(e)) /\ ~Opening(Ack(e))
          /\ Nak(e) \in Message /\ ~IsData(Nak(e)) /\ ~Opening(Nak(e))
      BY <1>0, ControlMessages
    <2>2. Running(e, m) = SendMsg(e, Ack(e)) \/ Running(e, m) = SendMsg(e, Nak(e))
      BY <1>4 DEF Running, Restack
    <2>3. Sends(e, SendMsg(e, Ack(e)), g, g) /\ Sends(e, SendMsg(e, Nak(e)), g, g)
      BY <1>0, <2>1, SendMsgSends
    <2>4. /\ SendMsg(e, Ack(e)).r = e.r /\ SendMsg(e, Ack(e)).got = e.got
          /\ SendMsg(e, Nak(e)).r = e.r /\ SendMsg(e, Nak(e)).got = e.got
      BY <1>0, <2>1, SendMsgFields
    <2> QED
      BY <2>2, <2>3, <2>4 DEF Reads, Stays, Live
  <1>5. CASE m.kind = "start"
    BY <1>5, DoRestartSends DEF Running, Reads
  <1>6. CASE m.kind = "maint"
    BY <1>6, MaintSends DEF Running, Reads, Stays, Live
  <1> QED
    BY <1>0, <1>1, <1>2, <1>3, <1>4, <1>5, <1>6 DEF Kinds

(* A step that starts with a change of state in which nothing is outstanding. *)
LEMMA SendsAfter ==
  ASSUME NEW g, NEW h, NEW e, NEW u, NEW f, Sends(u, f, g, h),
         u.a = e.a, u.n = e.n, u.unack = e.unack, u.notsent = e.notsent
  PROVE  Sends(e, f, g, h)
  BY DEF Sends, Kept, High

(* Entering the running state leaves the empty window as it is.             *)
LEMMA EnterRunningGood ==
  ASSUME conf \in Confs, NEW g \in Nat, NEW e, Good(e, g), e.out = <<>>
  PROVE  /\ Good(EnterRunning(e), g) /\ EnterRunning(e).out = <<>>
         /\ EnterRunning(e).st = "running" /\ EnterRunning(e).r = e.r
         /\ EnterRunning(e).got = e.got /\ EnterRunning(e) \in Engine
         /\ EnterRunning(e).a = e.a /\ EnterRunning(e).n = e.n
         /\ EnterRunning(e).unack = e.unack /\ EnterRunning(e).notsent = e.notsent
  <1> DEFINE u == EnterRunning(e)
  <1>1. e \in Engine
    BY GoodFields
  <1>2. u = [e EXCEPT !.st = "running", !.timer = FALSE]
    BY DEF EnterRunning
  <1> HIDE DEF u
  <1>3. /\ u \in Engine /\ u.out = e.out /\ u.a = e.a /\ u.n = e.n /\ u.unack = e.unack
        /\ u.notsent = e.notsent /\ u.got = e.got /\ u.st = "running" /\ u.r = e.r
    BY Zenon, <1>1, <1>2 DEF Engine
  <1>4. Good(u, g)
    BY <1>3, GoodSame
  <1> QED
    BY <1>3, <1>4 DEF u

(* Every message that arrives during the handshake.                         *)
LEMMA StartingSends ==
  ASSUME conf \in Confs, NEW g \in Nat, NEW e, Good(e, g), e.out = <<>>,
         e.st \in {"istart", "astart"}, NEW m \in Message
  PROVE  Sends(e, Starting(e, m), g, g) /\ Reads(e, Starting(e, m), m)
  <1> DEFINE u == EnterRunning(e)
  <1>0. /\ e \in Engine /\ m.kind \in Kinds /\ Sends(e, e, g, g)
        /\ e.a = e.n /\ e.notsent = <<>>
    BY Zenon, GoodFields, SendsNothing DEF Message, EngineData
  <1>1. /\ Good(u, g) /\ u.out = <<>> /\ u.st = "running" /\ u.r = e.r /\ u.got = e.got
        /\ u \in Engine /\ u.a = e.a /\ u.n = e.n /\ u.unack = e.unack /\ u.notsent = e.notsent
    BY EnterRunningGood
  <1>2. CASE m.kind = "stack"
    <2>1. Starting(e, m) = SendMsg(u, Ack(u))
      BY <1>2 DEF Starting
    <2> HIDE DEF u
    <2>2. Ack(u) \in Message /\ ~IsData(Ack(u)) /\ ~Opening(Ack(u)) /\ Sends(u, u, g, g)
      BY <1>1, ControlMessages, SendsNothing
    <2>3. Sends(e, u, g, g)
      BY <1>1, <2>2, SendsAfter
    <2>4. Sends(e, SendMsg(u, Ack(u)), g, g) /\ SendMsg(u, Ack(u)).got = u.got
      BY <1>1, <2>2, <2>3, SendMsgSends, SendMsgFields
    <2> QED
      BY <1>1, <1>2, <2>1, <2>4 DEF Reads, Reopens, Opening
  <1>3. CASE m.kind = "maint"
    BY <1>3, MaintSends DEF Starting, Reads, Stays, Live
  <1>4. CASE m.kind = "start"
    <2> DEFINE t == SendTimed(e, Stack)
               f == [t EXCEPT !.st = "astart"]
    <2>1. Starting(e, m) = f
      BY <1>4 DEF Starting
    <2>2. Stack \in Message /\ ~IsData(Stack)
      BY ControlMessages
    <2>3. /\ t \in Engine /\ t.out = Append(e.out, Stack) /\ t.a = e.a /\ t.n = e.n
          /\ t.unack = e.unack /\ t.notsent = e.notsent /\ t.got = e.got
      BY <1>0, <2>2, SendTimedFields
    <2> HIDE DEF t
    <2>4. /\ f \in Engine /\ f.out = t.out /\ f.a = t.a /\ f.n = t.n /\ f.unack = t.unack
          /\ f.notsent = t.notsent /\ f.got = t.got
      BY SMTT(30), <2>3 DEF Engine
    <2> HIDE DEF f
    <2>5. Sends(e, f, g, g)
      BY Zenon, <1>0, <2>2, <2>3, <2>4, SendsMore
    <2> QED
      BY <1>4, <2>1, <2>3, <2>4, <2>5 DEF Reads, Reopens, Opening
  <1>5. CASE e.st = "astart" /\ m.kind \in {"ack", "data"} /\ m.resp = 0
    <2>1. Starting(e, m) = Running(u, m)
      BY <1>5 DEF Starting
    <2> HIDE DEF u
    <2>2. Sends(u, Running(u, m), g, g) /\ Reads(u, Running(u, m), m)
      BY <1>1, RunningSends
    <2>3. Sends(e, Running(u, m), g, g)
      BY <1>1, <2>2, SendsAfter
    <2> QED
      BY <1>1, <1>5, <2>1, <2>2, <2>3 DEF Reads, Stays, Reopens, Takes, Live
  <1>6. CASE /\ m.kind \notin {"stack", "maint", "start"}
             /\ ~(e.st = "astart" /\ m.kind \in {"ack", "data"} /\ m.resp = 0)
    <2>1. Starting(e, m) = e
      BY <1>6 DEF Starting
    <2> QED
      BY <1>0, <2>1 DEF Reads, Stays
  <1> QED
    BY <1>2, <1>3, <1>4, <1>5, <1>6

(* receive.                                                                 *)
LEMMA ReceiveSends ==
  ASSUME conf \in Confs, NEW g \in Nat, NEW e, Good(e, g), e.out = <<>>, NEW m \in Message
  PROVE  Sends(e, Receive(e, m), g, g) /\ Reads(e, Receive(e, m), m)
  <1>0. e \in Engine /\ Sends(e, e, g, g) /\ Stays(e, e)
    BY GoodFields, SendsNothing DEF Stays
  <1>1. CASE e.st = "running"
    BY <1>1, RunningSends DEF Receive
  <1>2. CASE e.st \in {"istart", "astart"}
    <2>1. Receive(e, m) = Starting(e, m)
      BY <1>2 DEF Receive
    <2> QED
      BY <1>2, <2>1, StartingSends
  <1>3. CASE e.st = "maint" /\ m.kind = "start"
    <2>1. Receive(e, m) = DoRestart(e)
      BY <1>3 DEF Receive
    <2> QED
      BY <2>1, DoRestartSends DEF Reads
  <1>4. CASE /\ e.st \notin {"running", "istart", "astart"}
             /\ ~(e.st = "maint" /\ m.kind = "start")
    <2>1. Receive(e, m) = e
      BY <1>4 DEF Receive
    <2> QED
      BY <1>0, <2>1 DEF Reads
  <1> QED
    BY <1>1, <1>2, <1>3, <1>4

(* receive_error.                                                           *)
LEMMA ReceiveErrorSends ==
  ASSUME conf \in Confs, NEW g \in Nat, NEW e, Good(e, g), e.out = <<>>, NEW m \in Message
  PROVE  Sends(e, ReceiveError(e, m), g, g) /\ Stays(e, ReceiveError(e, m))
  <1>0. e \in Engine /\ Sends(e, e, g, g) /\ Stays(e, e)
    BY GoodFields, SendsNothing DEF Stays
  <1>1. CASE e.st # "running"
    BY <1>0, <1>1 DEF ReceiveError
  <1>2. CASE e.st = "running"
    <2> DEFINE p == IF m.kind = "data" THEN ProcessAck(e, m) ELSE e
    <2>1. ReceiveError(e, m) = SendMsg(p, Nak(p))
      BY <1>2 DEF ReceiveError
    <2>2. Sends(e, p, g, g) /\ p.r = e.r /\ p.got = e.got /\ p \in Engine
      BY <1>0, ProcessAckSends
    <2> HIDE DEF p
    <2>3. Nak(p) \in Message /\ ~IsData(Nak(p)) /\ ~Opening(Nak(p))
      BY <2>2, ControlMessages
    <2>4. Sends(e, SendMsg(p, Nak(p)), g, g)
      BY <2>2, <2>3, SendMsgSends
    <2>5. SendMsg(p, Nak(p)).r = p.r /\ SendMsg(p, Nak(p)).got = p.got
      BY <2>2, <2>3, SendMsgFields
    <2> QED
      BY <1>2, <2>1, <2>2, <2>4, <2>5 DEF Stays, Live
  <1> QED
    BY <1>1, <1>2

(* timeout.                                                                 *)
LEMMA TimeoutSends ==
  ASSUME conf \in Confs, NEW g \in Nat, NEW e, Good(e, g), e.out = <<>>
  PROVE  Sends(e, Timeout(e), g, g) /\ Stays(e, Timeout(e))
  <1> DEFINE f == [e EXCEPT !.timer = FALSE]
  <1>0. e \in Engine /\ Sends(e, e, g, g) /\ (e.st # "running" => e.a = e.n /\ e.notsent = <<>>)
    BY GoodFields, SendsNothing DEF EngineData
  <1>1. /\ f \in Engine /\ f.out = e.out /\ f.a = e.a /\ f.n = e.n /\ f.unack = e.unack
        /\ f.notsent = e.notsent /\ f.got = e.got /\ f.st = e.st /\ f.r = e.r
    BY Zenon, <1>0 DEF Engine
  <1>2. /\ e.st = "istart" => Timeout(e) = SendTimed(f, Start)
        /\ e.st = "astart" => Timeout(e) = SendTimed(f, Stack)
        /\ e.st = "running" => Timeout(e) = SendTimed(f, Rep(e))
        /\ e.st \notin {"istart", "astart", "running"} => Timeout(e) = f
    BY DEF Timeout
  <1> HIDE DEF f
  <1>3. Sends(e, f, g, g)
    BY <1>0, <1>1, SendsMore
  <1>4. ASSUME NEW m \in Message, ~IsData(m), Opening(m) => f.a = f.n
        PROVE  Sends(e, SendTimed(f, m), g, g) /\ Stays(e, SendTimed(f, m))
    <2> DEFINE d == SendTimed(f, m)
    <2>1. /\ d \in Engine /\ d.out = Append(f.out, m) /\ d.a = f.a /\ d.n = f.n
          /\ d.unack = f.unack /\ d.notsent = f.notsent /\ d.st = f.st /\ d.r = f.r
          /\ d.got = f.got
      BY <1>1, SendTimedFields
    <2> HIDE DEF d
    <2>2. Sends(e, d, g, g)
      BY ZenonT(30), <1>0, <1>1, <1>3, <1>4, <2>1, SendsMore
    <2> QED
      BY <1>1, <2>1, <2>2 DEF d, Stays, Live
  <1>5. /\ Start \in Message /\ ~IsData(Start) /\ Stack \in Message /\ ~IsData(Stack)
        /\ Rep(e) \in Message /\ ~IsData(Rep(e)) /\ ~Opening(Rep(e))
    BY SMTT(30), <1>0, ControlMessages
  <1>6. CASE e.st = "istart"
    BY SMTT(30), <1>0, <1>1, <1>2, <1>4, <1>5, <1>6
  <1>7. CASE e.st = "astart"
    BY SMTT(30), <1>0, <1>1, <1>2, <1>4, <1>5, <1>7
  <1>8. CASE e.st = "running"
    BY SMTT(30), <1>2, <1>4, <1>5, <1>8
  <1>9. CASE e.st \notin {"istart", "astart", "running"}
    BY <1>1, <1>2, <1>3, <1>9 DEF Stays, Live
  <1> QED
    BY <1>6, <1>7, <1>8, <1>9
=============================================================================
