---------------------------- MODULE Ddcmp_proof -----------------------------
(***************************************************************************)
(* Proofs about two DDCMP engines and the line between them, for every     *)
(* modulus, window, line capacity and bound, and whatever the line loses,  *)
(* damages and delays.                                                     *)
(*                                                                         *)
(* The invariant.  A sequence number tells a payload from at most          *)
(* Modulus - 1 others, and what keeps a station from taking an old one for *)
(* a new one is that everything old it may still meet is close behind: a   *)
(* data message under way, or a slot of unack_, that is not newer than a   *)
(* payload before it on the line, or than the last one handed up, belongs  *)
(* to the same session and is less than a window behind it (Echo).  A      *)
(* session starts with a START or STACK, and behind one nothing old        *)
(* follows.                                                                *)
(*                                                                         *)
(* The argument.  DdcmpEngine_proof shows what each handler does as a      *)
(* sender and as a reader; WaySends and WayReads then keep the line in     *)
(* order, and StationStep joins them.                                      *)
(***************************************************************************)
EXTENDS DdcmpEngine_proof

(* Payload d under number s is less than a window older than payload last   *)
(* under number num, in the same session.                                   *)
Echo(d, s, last, num) == Dist(s, num) = last - d /\ last - d < QMax

(* A payload under way that is not newer than one ahead of it.              *)
LineOrder(q) ==
    \A i, j \in 1 .. Len(q) :
        i < j /\ IsData(q[i]) /\ IsData(q[j]) /\ q[j].data <= q[i].data =>
            /\ Echo(q[j].data, q[j].num, q[i].data, q[i].num)
            /\ \A k \in i .. j : ~Opening(q[k])

(* A payload under way that is not newer than the last one handed up.       *)
LineReader(q, f) ==
    \A i \in 1 .. Len(q) :
        IsData(q[i]) /\ q[i].data <= Last(f.got) =>
            /\ \A k \in 1 .. i : ~Opening(q[k])
            /\ Live(f) => Echo(q[i].data, q[i].num, Last(f.got), f.r)

(* A payload in the window, which may be sent again, and one under way.     *)
WindowLine(e, q) ==
    \A s \in Seqs : InWindow(s, e.a, e.n) =>
        \A i \in 1 .. Len(q) : IsData(q[i]) /\ e.unack[s].data <= q[i].data =>
            /\ Echo(e.unack[s].data, s, q[i].data, q[i].num)
            /\ \A k \in i .. Len(q) : ~Opening(q[k])

(* A payload in the window and the last one handed up.                      *)
WindowReader(e, q, f) ==
    \A s \in Seqs : InWindow(s, e.a, e.n) /\ e.unack[s].data <= Last(f.got) =>
        /\ \A k \in 1 .. Len(q) : ~Opening(q[k])
        /\ Live(f) => Echo(e.unack[s].data, s, Last(f.got), f.r)

(* Nothing is under way or handed up that was never given a number.         *)
Bounds(q, f, high) ==
    /\ Last(f.got) <= high
    /\ \A i \in 1 .. Len(q) : IsData(q[i]) => q[i].data <= high

(* The way from station e to station f over the messages q under way.       *)
Way(e, q, f, g) ==
    /\ LineOrder(q) /\ LineReader(q, f) /\ WindowLine(e, q) /\ WindowReader(e, q, f)
    /\ Bounds(q, f, High(e, g))

(* Each payload is newer than the one before.                               *)
Ordered(got) == \A k \in 1 .. Len(got) - 1 : got[k] < got[k + 1]
-----------------------------------------------------------------------------
(* The way from a station to its peer is in order, whatever of what the     *)
(* station sends is cut off by a line that is full.                         *)
LEMMA WaySends ==
  ASSUME conf \in Confs, NEW g \in Nat, NEW h \in Nat, NEW e, NEW f, NEW r \in Engine,
         Good(e, g), Sends(e, f, g, h), NEW q \in Seq(Message), Way(e, q, r, g),
         NEW p \in Seq(Message), Len(p) <= Len(q \o f.out),
         \A i \in 1 .. Len(p) : p[i] = (q \o f.out)[i]
  PROVE  Way(f, p, r, h)
  <1> DEFINE O == Len(q)
  <1>1. /\ Good(f, h) /\ Kept(e, f, g) /\ High(e, g) <= High(f, h) /\ OutOK(f)
        /\ f \in Engine /\ f.out \in Seq(Message) /\ High(e, g) \in Nat /\ High(f, h) \in Nat
        /\ f.a \in Seqs /\ f.n \in Seqs /\ EngineData(f, h) /\ Pending(f) <= QMax
        /\ f.unack \in [Seqs -> Slot] /\ Pending(f) \in Nat
    BY GoodFields, EngineFields DEF Sends
  <1>2. /\ LineOrder(q) /\ LineReader(q, r) /\ WindowLine(e, q) /\ WindowReader(e, q, r)
        /\ Bounds(q, r, High(e, g))
    BY DEF Way
  <1>3. O \in Nat /\ Len(f.out) \in Nat /\ Len(p) \in Nat
    BY <1>1
  <1>4. \A i \in 1 .. Len(p) : 
          \/ i \in 1 .. O /\ p[i] = q[i]
          \/ i - O \in 1 .. Len(f.out) /\ i > O /\ p[i] = f.out[i - O]
    BY SMTT(30), <1>1, <1>3, ConcatProperties
  <1>5. Last(r.got) \in Nat /\ \A i \in 1 .. Len(p) : p[i] \in Message /\ p[i].data \in Nat /\ p[i].num \in Seqs
    <2>1. r.got \in Seq(Nat)
      BY EngineFields
    <2>2. Last(r.got) \in Nat
      BY <2>1, ElementOfSeq DEF Last
    <2>3. \A i \in 1 .. Len(p) : p[i] \in Message
      BY ElementOfSeq
    <2> QED
      BY <2>2, <2>3 DEF Message
  <1> HIDE DEF O
  \* What is sent in the window and is not news was in the window before.
  <1>6. ASSUME NEW s \in Seqs, InWindow(s, f.a, f.n), f.unack[s].data <= High(e, g)
        PROVE  InWindow(s, e.a, e.n) /\ e.unack[s].data = f.unack[s].data
    <2>1. f.unack[s].data \in Nat
      BY <1>1 DEF Slot
    <2> QED
      BY <1>1, <1>6, <2>1 DEF Kept
  \* Nothing opens a session while something is outstanding.
  <1>7. ASSUME NEW s \in Seqs, InWindow(s, f.a, f.n), NEW i \in 1 .. Len(p), i > O
        PROVE  ~Opening(p[i])
    <2>1. f.a # f.n
      BY <1>1, <1>7, DistInjective DEF InWindow
    <2>2. i - O \in 1 .. Len(f.out) /\ p[i] = f.out[i - O]
      BY <1>3, <1>4, <1>7
    <2> QED
      BY <1>1, <2>1, <2>2 DEF OutOK
  \* A data message that is sent is one of the window.
  <1>8. ASSUME NEW i \in 1 .. Len(p), i > O, IsData(p[i])
        PROVE  /\ p[i].num \in Seqs /\ InWindow(p[i].num, f.a, f.n)
               /\ p[i].data = f.unack[p[i].num].data
    <2>1. i - O \in 1 .. Len(f.out) /\ p[i] = f.out[i - O]
      BY <1>3, <1>4, <1>8
    <2> QED
      BY Zenon, <1>1, <1>5, <1>8, <2>1 DEF OutOK
  <1>9. ASSUME NEW i \in 1 .. Len(p), i <= O
        PROVE  i \in 1 .. O /\ p[i] = q[i]
    <2>1. ~(i > O)
      BY <1>3, <1>9
    <2> QED
      BY Zenon, <1>4, <2>1
  <1>10. LineOrder(p)
    <2> SUFFICES ASSUME NEW i \in 1 .. Len(p), NEW j \in 1 .. Len(p), i < j,
                        IsData(p[i]), IsData(p[j]), p[j].data <= p[i].data
                 PROVE  /\ Echo(p[j].data, p[j].num, p[i].data, p[i].num)
                        /\ \A k \in i .. j : ~Opening(p[k])
      BY DEF LineOrder
    <2>1. CASE j <= O
      <3>1. i \in 1 .. O /\ j \in 1 .. O /\ p[i] = q[i] /\ p[j] = q[j]
        BY <1>3, <1>9, <2>1
      <3>2. \A k \in i .. j : k \in 1 .. O /\ p[k] = q[k]
        BY <1>3, <1>9, <2>1
      <3> QED
        BY <1>2, <3>1, <3>2 DEF LineOrder, O
    <2>2. CASE i <= O /\ j > O
      <3>1. i \in 1 .. O /\ p[i] = q[i]
        BY <1>9, <2>2
      <3>2. /\ p[j].num \in Seqs /\ InWindow(p[j].num, f.a, f.n)
            /\ p[j].data = f.unack[p[j].num].data
        BY <1>8, <2>2
      <3>3. p[i].data <= High(e, g)
        BY SMTT(30), <1>2, <3>1 DEF Bounds, O
      <3>4. f.unack[p[j].num].data <= High(e, g)
        <4>1. p[i].data \in Nat /\ p[j].data \in Nat /\ High(e, g) \in Nat
          BY Zenon, <1>1, <1>5
        <4> QED
          BY SMTT(30), <3>2, <3>3, <4>1
      <3>5. InWindow(p[j].num, e.a, e.n) /\ e.unack[p[j].num].data = p[j].data
        BY <1>6, <3>2, <3>4
      <3>6. /\ Echo(p[j].data, p[j].num, p[i].data, p[i].num)
            /\ \A k \in i .. O : ~Opening(q[k])
        BY SMTT(30), <1>2, <3>1, <3>2, <3>5 DEF WindowLine, O
      <3>7. ASSUME NEW k \in i .. j PROVE ~Opening(p[k])
        <4>1. k \in 1 .. Len(p)
          BY <1>3
        <4>2. CASE k > O
          BY <1>7, <3>2, <4>1, <4>2
        <4>3. CASE k <= O
          BY <1>3, <1>9, <3>6, <4>1, <4>3
        <4> QED
          BY <1>3, <4>1, <4>2, <4>3
      <3> QED
        BY <3>6, <3>7
    <2>3. CASE i > O
      <3>1. /\ i - O \in 1 .. Len(f.out) /\ p[i] = f.out[i - O]
            /\ j - O \in 1 .. Len(f.out) /\ p[j] = f.out[j - O] /\ i - O < j - O
        BY <1>3, <1>4, <2>3
      <3>2. p[i].data < p[j].data
        BY Zenon, <1>1, <3>1 DEF OutOK
      <3> QED
        BY <1>5, <3>2
    <2> QED
      BY <1>3, <2>1, <2>2, <2>3
  <1>11. LineReader(p, r)
    <2> SUFFICES ASSUME NEW i \in 1 .. Len(p), IsData(p[i]), p[i].data <= Last(r.got)
                 PROVE  /\ \A k \in 1 .. i : ~Opening(p[k])
                        /\ Live(r) => Echo(p[i].data, p[i].num, Last(r.got), r.r)
      BY DEF LineReader
    <2>1. CASE i <= O
      <3>1. i \in 1 .. O /\ p[i] = q[i]
        BY <1>9, <2>1
      <3>2. \A k \in 1 .. i : k \in 1 .. O /\ p[k] = q[k]
        BY <1>3, <1>9, <2>1
      <3> QED
        BY <1>2, <3>1, <3>2 DEF LineReader, O
    <2>2. CASE i > O
      <3>1. /\ p[i].num \in Seqs /\ InWindow(p[i].num, f.a, f.n)
            /\ p[i].data = f.unack[p[i].num].data
        BY <1>8, <2>2
      <3>2. Last(r.got) <= High(e, g)
        BY <1>2 DEF Bounds
      <3>3. f.unack[p[i].num].data <= High(e, g)
        BY SMTT(30), <1>1, <1>5, <3>1, <3>2
      <3>4. InWindow(p[i].num, e.a, e.n) /\ e.unack[p[i].num].data = p[i].data
        BY <1>6, <3>1, <3>3
      <3>5. /\ \A k \in 1 .. O : ~Opening(q[k])
            /\ Live(r) => Echo(p[i].data, p[i].num, Last(r.got), r.r)
        BY <1>2, <3>1, <3>4 DEF WindowReader, O
      <3>6. ASSUME NEW k \in 1 .. i PROVE ~Opening(p[k])
        <4>1. k \in 1 .. Len(p)
          BY <1>3
        <4>2. CASE k > O
          BY <1>7, <3>1, <4>1, <4>2
        <4>3. CASE k <= O
          BY <1>3, <1>9, <3>5, <4>1, <4>3
        <4> QED
          BY <1>3, <4>1, <4>2, <4>3
      <3> QED
        BY <3>5, <3>6
    <2> QED
      BY <1>3, <2>1, <2>2
  <1>12. WindowLine(f, p)
    <2> SUFFICES ASSUME NEW s \in Seqs, InWindow(s, f.a, f.n),
                        NEW i \in 1 .. Len(p), IsData(p[i]), f.unack[s].data <= p[i].data
                 PROVE  /\ Echo(f.unack[s].data, s, p[i].data, p[i].num)
                        /\ \A k \in i .. Len(p) : ~Opening(p[k])
      BY DEF WindowLine
    <2>0. f.unack[s].data \in Nat
      BY <1>1 DEF Slot
    <2>1. CASE i <= O
      <3>1. i \in 1 .. O /\ p[i] = q[i]
        BY <1>9, <2>1
      <3>2. p[i].data <= High(e, g)
        BY SMTT(30), <1>2, <3>1 DEF Bounds, O
      <3>3. f.unack[s].data <= High(e, g)
        BY <1>1, <1>5, <2>0, <3>2
      <3>4. InWindow(s, e.a, e.n) /\ e.unack[s].data = f.unack[s].data
        BY <1>6, <3>3
      <3>5. /\ Echo(f.unack[s].data, s, p[i].data, p[i].num)
            /\ \A k \in i .. O : ~Opening(q[k])
        BY <1>2, <3>1, <3>4 DEF WindowLine, O
      <3>6. ASSUME NEW k \in i .. Len(p) PROVE ~Opening(p[k])
        <4>1. k \in 1 .. Len(p)
          BY <1>3
        <4>2. CASE k > O
          BY <1>7, <4>1, <4>2
        <4>3. CASE k <= O
          BY <1>3, <1>9, <3>5, <4>1, <4>3
        <4> QED
          BY <1>3, <4>1, <4>2, <4>3
      <3> QED
        BY <3>5, <3>6
    <2>2. CASE i > O
      <3> DEFINE t == p[i].num
      <3>1. t \in Seqs /\ InWindow(t, f.a, f.n) /\ p[i].data = f.unack[t].data
        BY <1>8, <2>2
      <3> HIDE DEF t
      <3>2. /\ f.unack[s].data = High(f, h) - Dist(s, f.n)
            /\ p[i].data = High(f, h) - Dist(t, f.n)
        BY <1>1, <3>1 DEF EngineData
      <3>3. /\ Dist(s, t) \in Nat /\ Dist(t, f.n) \in Nat /\ Dist(s, f.n) \in Nat
            /\ Dist(s, t) < Modulus /\ Dist(t, f.n) < Modulus /\ Dist(s, f.n) < Modulus
            /\ \/ Dist(s, t) + Dist(t, f.n) = Dist(s, f.n)
               \/ Dist(s, t) + Dist(t, f.n) = Dist(s, f.n) + Modulus
        BY <1>1, <3>1, Triangle
      <3>4. /\ Dist(f.a, s) > 0 /\ Dist(s, f.n) < Pending(f) /\ Dist(t, f.n) < Pending(f)
        BY <1>1, <3>1, WindowPoint DEF Pending
      <3>5. Dist(s, t) = p[i].data - f.unack[s].data /\ p[i].data - f.unack[s].data < QMax
        <4>1. /\ High(f, h) \in Nat /\ Pending(f) \in Nat /\ Pending(f) <= QMax /\ QMax \in Nat
              /\ Modulus \in Nat /\ p[i].data \in Nat
          BY SMTT(30), <1>1, <1>5, Numbers
        <4>2. Dist(t, f.n) <= Dist(s, f.n)
          BY SMTT(30), <2>0, <3>2, <3>3, <4>1
        <4>3. Dist(s, t) = Dist(s, f.n) - Dist(t, f.n)
          BY SMTT(30), <3>3, <4>1, <4>2
        <4>4. p[i].data - f.unack[s].data = Dist(s, f.n) - Dist(t, f.n)
          BY <3>2, <3>3, <4>1
        <4>5. Dist(s, f.n) - Dist(t, f.n) < QMax
          BY <3>3, <3>4, <4>1
        <4> QED
          BY <4>3, <4>4, <4>5
      <3>6. ASSUME NEW k \in i .. Len(p) PROVE ~Opening(p[k])
        <4>1. k \in 1 .. Len(p) /\ k > O
          BY <1>3, <2>2
        <4> QED
          BY <1>7, <4>1
      <3> QED
        BY <3>5, <3>6 DEF Echo, t
    <2> QED
      BY <1>3, <2>1, <2>2
  <1>13. WindowReader(f, p, r)
    <2> SUFFICES ASSUME NEW s \in Seqs, InWindow(s, f.a, f.n), f.unack[s].data <= Last(r.got)
                 PROVE  /\ \A k \in 1 .. Len(p) : ~Opening(p[k])
                        /\ Live(r) => Echo(f.unack[s].data, s, Last(r.got), r.r)
      BY DEF WindowReader
    <2>0. f.unack[s].data \in Nat
      BY <1>1 DEF Slot
    <2>1. Last(r.got) <= High(e, g)
      BY <1>2 DEF Bounds
    <2>2. f.unack[s].data <= High(e, g)
      BY <1>1, <1>5, <2>0, <2>1
    <2>3. InWindow(s, e.a, e.n) /\ e.unack[s].data = f.unack[s].data
      BY <1>6, <2>2
    <2>4. /\ \A k \in 1 .. O : ~Opening(q[k])
          /\ Live(r) => Echo(f.unack[s].data, s, Last(r.got), r.r)
      BY <1>2, <2>3 DEF WindowReader, O
    <2>5. ASSUME NEW k \in 1 .. Len(p) PROVE ~Opening(p[k])
      <3>1. CASE k > O
        BY <1>7, <3>1
      <3>2. CASE k <= O
        BY <1>9, <2>4, <3>2
      <3> QED
        BY <1>3, <3>1, <3>2
    <2> QED
      BY <2>4, <2>5
  <1>14. Bounds(p, r, High(f, h))
    <2>1. Last(r.got) <= High(f, h)
      BY <1>1, <1>2, <1>5 DEF Bounds
    <2>2. ASSUME NEW i \in 1 .. Len(p), IsData(p[i]) PROVE p[i].data <= High(f, h)
      <3>1. CASE i <= O
        <4>1. i \in 1 .. O /\ p[i] = q[i]
          BY <1>9, <3>1
        <4>2. p[i].data <= High(e, g)
          BY <1>2, <2>2, <4>1 DEF Bounds, O
        <4> QED
          BY <1>1, <1>5, <4>2
      <3>2. CASE i > O
        <4>1. /\ p[i].num \in Seqs /\ InWindow(p[i].num, f.a, f.n)
              /\ p[i].data = f.unack[p[i].num].data
          BY <1>8, <2>2, <3>2
        <4>2. p[i].data = High(f, h) - Dist(p[i].num, f.n) /\ Dist(p[i].num, f.n) \in Nat
          BY SMTT(30), <1>1, <4>1, Triangle DEF EngineData
        <4> QED
          BY <1>1, <4>2
      <3> QED
        BY <1>3, <3>1, <3>2
    <2> QED
      BY <2>1, <2>2 DEF Bounds
  <1> QED
    BY <1>10, <1>11, <1>12, <1>13, <1>14 DEF Way

(* The last payload handed up, before and after one more.                   *)
LEMMA LastFacts ==
  ASSUME NEW got \in Seq(Nat)
  PROVE  /\ Last(got) \in Nat
         /\ \A d \in Nat : Last(Append(got, d)) = d /\ Append(got, d) \in Seq(Nat)
         /\ \A d \in Nat : Ordered(got) /\ Last(got) < d => Ordered(Append(got, d))
  <1>1. Last(got) \in Nat
    BY ElementOfSeq DEF Last
  <1>2. ASSUME NEW d \in Nat
        PROVE  /\ Last(Append(got, d)) = d /\ Append(got, d) \in Seq(Nat)
               /\ Ordered(got) /\ Last(got) < d => Ordered(Append(got, d))
    <2>1. /\ Append(got, d) \in Seq(Nat) /\ Append(got, d) # <<>>
          /\ Len(Append(got, d)) = Len(got) + 1 /\ Len(got) \in Nat
          /\ \A i \in 1 .. Len(got) : Append(got, d)[i] = got[i]
          /\ Append(got, d)[Len(got) + 1] = d
      BY AppendProperties
    <2> DEFINE s == Append(got, d)
    <2> HIDE DEF s
    <2>2. /\ Len(s) = Len(got) + 1 /\ Len(got) \in Nat /\ s # <<>>
          /\ \A i \in 1 .. Len(got) : s[i] = got[i]
          /\ s[Len(got) + 1] = d
      BY <2>1 DEF s
    <2>3. Last(s) = d
      BY <2>2 DEF Last
    <2>4. ASSUME Ordered(got), Last(got) < d, NEW k \in 1 .. Len(s) - 1
          PROVE  s[k] < s[k + 1]
      <3>1. k \in 1 .. Len(got)
        BY <2>2
      <3>2. CASE k = Len(got)
        BY <2>2, <2>4, <3>1, <3>2, EmptySeq DEF Last
      <3>3. CASE k # Len(got)
        <4>1. k + 1 \in 1 .. Len(got) /\ k \in 1 .. Len(got) - 1
          BY <2>2, <3>1, <3>3
        <4> QED
          BY <2>2, <2>4, <3>1, <4>1 DEF Ordered
      <3> QED
        BY <3>2, <3>3
    <2> QED
      BY <2>1, <2>3, <2>4 DEF s, Ordered
  <1> QED
    BY <1>1, <1>2

(* The way to a station stays in order when the station does something that *)
(* is not about it.                                                         *)
LEMMA WayStays ==
  ASSUME NEW e, NEW g, NEW q, NEW r, NEW t, Way(e, q, r, g), Stays(r, t)
  PROVE  Way(e, q, t, g)
  BY DEF Way, Stays, LineReader, WindowReader, Bounds

(* A way in order without its first message.                                *)
LEMMA WayTail ==
  ASSUME conf \in Confs, NEW e, NEW g, NEW q \in Seq(Message), NEW r, Way(e, q, r, g), q # <<>>
  PROVE  Way(e, Tail(q), r, g)
  <1> DEFINE p == Tail(q)
  <1>1. /\ p \in Seq(Message) /\ Len(p) = Len(q) - 1 /\ Len(q) \in Nat
        /\ \A i \in 1 .. Len(p) : p[i] = q[i + 1]
    BY HeadTailProperties
  <1> HIDE DEF p
  <1>2. \A i \in 1 .. Len(p) : i + 1 \in 1 .. Len(q) /\ i \in Nat /\ p[i] = q[i + 1]
    BY <1>1
  <1>3. LineOrder(p)
    <2> SUFFICES ASSUME NEW i \in 1 .. Len(p), NEW j \in 1 .. Len(p), i < j,
                        IsData(p[i]), IsData(p[j]), p[j].data <= p[i].data
                 PROVE  /\ Echo(p[j].data, p[j].num, p[i].data, p[i].num)
                        /\ \A k \in i .. j : ~Opening(p[k])
      BY DEF LineOrder
    <2>1. /\ i + 1 \in 1 .. Len(q) /\ j + 1 \in 1 .. Len(q) /\ i + 1 < j + 1
          /\ p[i] = q[i + 1] /\ p[j] = q[j + 1]
      BY <1>2
    <2>2. /\ Echo(p[j].data, p[j].num, p[i].data, p[i].num)
          /\ \A k \in i + 1 .. j + 1 : ~Opening(q[k])
      BY SMTT(30), <2>1 DEF Way, LineOrder
    <2>3. \A k \in i .. j : k + 1 \in i + 1 .. j + 1 /\ p[k] = q[k + 1]
      BY <1>1, <1>2
    <2> QED
      BY <2>2, <2>3
  <1>4. LineReader(p, r)
    <2> SUFFICES ASSUME NEW i \in 1 .. Len(p), IsData(p[i]), p[i].data <= Last(r.got)
                 PROVE  /\ \A k \in 1 .. i : ~Opening(p[k])
                        /\ Live(r) => Echo(p[i].data, p[i].num, Last(r.got), r.r)
      BY DEF LineReader
    <2>1. i + 1 \in 1 .. Len(q) /\ p[i] = q[i + 1]
      BY <1>2
    <2>2. /\ \A k \in 1 .. i + 1 : ~Opening(q[k])
          /\ Live(r) => Echo(p[i].data, p[i].num, Last(r.got), r.r)
      BY <2>1 DEF Way, LineReader
    <2>3. \A k \in 1 .. i : k + 1 \in 1 .. i + 1 /\ p[k] = q[k + 1]
      BY <1>1, <1>2
    <2> QED
      BY <2>2, <2>3
  <1>5. WindowLine(e, p)
    <2> SUFFICES ASSUME NEW s \in Seqs, InWindow(s, e.a, e.n),
                        NEW i \in 1 .. Len(p), IsData(p[i]), e.unack[s].data <= p[i].data
                 PROVE  /\ Echo(e.unack[s].data, s, p[i].data, p[i].num)
                        /\ \A k \in i .. Len(p) : ~Opening(p[k])
      BY DEF WindowLine
    <2>1. i + 1 \in 1 .. Len(q) /\ p[i] = q[i + 1]
      BY <1>2
    <2>2. /\ Echo(e.unack[s].data, s, p[i].data, p[i].num)
          /\ \A k \in i + 1 .. Len(q) : ~Opening(q[k])
      BY <2>1 DEF Way, WindowLine
    <2>3. \A k \in i .. Len(p) : k + 1 \in i + 1 .. Len(q) /\ p[k] = q[k + 1]
      BY <1>1, <1>2
    <2> QED
      BY <2>2, <2>3
  <1>6. WindowReader(e, p, r) /\ Bounds(p, r, High(e, g))
    BY <1>2 DEF Way, WindowReader, Bounds
  <1> QED
    BY <1>3, <1>4, <1>5, <1>6 DEF Way, p

(* A station takes a message off the way to it: what it hands up is newer   *)
(* than all it handed up before, and the rest of the way is in order.       *)
LEMMA WayReads ==
  ASSUME conf \in Confs, NEW g \in Nat, NEW e, Good(e, g), NEW q \in Seq(Message), q # <<>>,
         NEW r \in Engine, NEW t \in Engine, Way(e, q, r, g), Reads(r, t, Head(q)),
         Ordered(r.got)
  PROVE  Way(e, Tail(q), t, g) /\ Ordered(t.got)
  <1> DEFINE p == Tail(q)
             m == Head(q)
  <1>1. /\ p \in Seq(Message) /\ Len(p) = Len(q) - 1 /\ Len(q) \in Nat /\ Len(q) > 0
        /\ \A i \in 1 .. Len(p) : p[i] = q[i + 1]
        /\ m = q[1] /\ m \in Message /\ m.num \in Seqs /\ m.data \in Nat
    <2>1. /\ p \in Seq(Message) /\ Len(p) = Len(q) - 1 /\ Len(q) \in Nat /\ Len(q) > 0
          /\ \A i \in 1 .. Len(p) : p[i] = q[i + 1]
          /\ m = q[1]
      BY HeadTailProperties, EmptySeq
    <2>2. q[1] \in Message
      BY <2>1, ElementOfSeq
    <2> QED
      BY <2>1, <2>2 DEF Message
  <1>2. Way(e, p, r, g)
    BY WayTail
  <1>9. r.got \in Seq(Nat) /\ r.r \in Seqs
    BY EngineFields
  <1> HIDE DEF p, m
  <1>3. CASE Stays(r, t)
    BY <1>2, <1>3, WayStays DEF p, Stays
  <1>4. CASE Reopens(r, t, m)
    \* Nothing that was handed up before is still under way or outstanding.
    <2>1. t.got = r.got /\ Opening(q[1]) /\ 1 \in 1 .. Len(q)
      BY <1>1, <1>4 DEF Reopens
    <2>2. ~\E i \in 1 .. Len(q) : IsData(q[i]) /\ q[i].data <= Last(r.got)
      <3> SUFFICES ASSUME NEW i \in 1 .. Len(q), IsData(q[i]), q[i].data <= Last(r.got)
                   PROVE  FALSE
        OBVIOUS
      <3>1. \A k \in 1 .. i : ~Opening(q[k])
        BY DEF Way, LineReader
      <3>2. 1 \in 1 .. i
        BY <1>1
      <3> QED
        BY <2>1, <3>1, <3>2
    <2>3. ~\E s \in Seqs : InWindow(s, e.a, e.n) /\ e.unack[s].data <= Last(r.got)
      BY <2>1 DEF Way, WindowReader
    <2>4. LineReader(p, t)
      <3>1. \A i \in 1 .. Len(p) : i + 1 \in 1 .. Len(q) /\ p[i] = q[i + 1]
        BY <1>1
      <3> QED
        BY <2>1, <2>2, <3>1 DEF LineReader
    <2>5. WindowReader(e, p, t)
      BY <2>1, <2>3 DEF WindowReader
    <2>6. Bounds(p, t, High(e, g))
      BY <1>2, <2>1 DEF Way, Bounds
    <2> QED
      BY <1>2, <2>1, <2>4, <2>5, <2>6 DEF Way, p
  <1>5. CASE Takes(r, t, m)
    <2>1. /\ Live(r) /\ IsData(m) /\ m.num = Plus(r.r, 1) /\ t.r = m.num
          /\ t.got = Append(r.got, m.data) /\ 1 \in 1 .. Len(q)
      BY <1>1, <1>5 DEF Takes
    <2>2. Last(r.got) \in Nat /\ Last(t.got) = m.data
      BY <1>1, <1>9, <2>1, LastFacts
    <2>3. Last(r.got) < m.data
      <3> SUFFICES ASSUME m.data <= Last(r.got) PROVE FALSE
        BY <1>1, <2>2
      <3>1. Echo(m.data, m.num, Last(r.got), r.r)
        BY <1>1, <2>1 DEF Way, LineReader
      <3>2. Dist(m.num, r.r) < QMax
        BY <1>1, <2>2, <3>1 DEF Echo
      <3>3. Modulus \in Nat /\ QMax \in Nat /\ QMax < Modulus /\ 1 \in 0 .. Modulus - 1
        BY Numbers
      <3>4. Dist(r.r, m.num) = 1
        BY <1>9, <2>1, <3>3, PlusDist
      <3>5. Dist(m.num, m.num) = 0
        BY <1>1, DistInjective
      <3>6. /\ Dist(m.num, r.r) \in Nat
            /\ \/ Dist(m.num, r.r) + Dist(r.r, m.num) = Dist(m.num, m.num)
               \/ Dist(m.num, r.r) + Dist(r.r, m.num) = Dist(m.num, m.num) + Modulus
        BY <1>1, <1>9, Triangle
      <3> QED
        BY <3>2, <3>3, <3>4, <3>5, <3>6
    <2>4. Ordered(t.got)
      BY <1>1, <1>9, <2>1, <2>3, LastFacts
    <2>5. LineReader(p, t)
      <3> SUFFICES ASSUME NEW i \in 1 .. Len(p), IsData(p[i]), p[i].data <= m.data
                   PROVE  /\ \A k \in 1 .. i : ~Opening(p[k])
                          /\ Echo(p[i].data, p[i].num, m.data, m.num)
        BY <2>1, <2>2 DEF LineReader
      <3>1. i + 1 \in 1 .. Len(q) /\ p[i] = q[i + 1] /\ 1 < i + 1
        BY <1>1
      <3>2. /\ Echo(p[i].data, p[i].num, m.data, m.num)
            /\ \A k \in 1 .. i + 1 : ~Opening(q[k])
        BY <1>1, <2>1, <3>1 DEF Way, LineOrder
      <3>3. \A k \in 1 .. i : k + 1 \in 1 .. i + 1 /\ p[k] = q[k + 1]
        BY SMTT(30), <1>1
      <3> QED
        BY <3>2, <3>3
    <2>6. WindowReader(e, p, t)
      <3> SUFFICES ASSUME NEW s \in Seqs, InWindow(s, e.a, e.n), e.unack[s].data <= m.data
                   PROVE  /\ \A k \in 1 .. Len(p) : ~Opening(p[k])
                          /\ Echo(e.unack[s].data, s, m.data, m.num)
        BY <2>1, <2>2 DEF WindowReader
      <3>1. /\ Echo(e.unack[s].data, s, m.data, m.num)
            /\ \A k \in 1 .. Len(q) : ~Opening(q[k])
        BY Zenon, <1>1, <2>1 DEF Way, WindowLine
      <3>2. \A k \in 1 .. Len(p) : k + 1 \in 1 .. Len(q) /\ p[k] = q[k + 1]
        BY <1>1
      <3> QED
        BY <3>1, <3>2
    <2>7. Bounds(p, t, High(e, g))
      <3>1. m.data <= High(e, g)
        BY <1>1, <2>1 DEF Way, Bounds
      <3> QED
        BY SMTT(30), <1>2, <2>2, <3>1 DEF Way, Bounds
    <2> QED
      BY <1>2, <2>4, <2>5, <2>6, <2>7 DEF Way, p
  <1> QED
    BY <1>3, <1>4, <1>5 DEF Reads, m

-----------------------------------------------------------------------------
(* What is left on a line that was full is a beginning of what was sent.    *)
LEMMA FitPrefix ==
  ASSUME conf \in Confs, NEW w \in Seq(Message)
  PROVE  /\ Fit(w) \in Seq(Message) /\ Len(Fit(w)) <= Len(w)
         /\ \A i \in 1 .. Len(Fit(w)) : Fit(w)[i] = w[i]
  <1>1. Capacity \in Nat /\ Len(w) \in Nat
    BY DdcmpAssumption DEF Capacity
  <1>2. CASE Lossy /\ Len(w) > Capacity
    <2>1. /\ SubSeq(w, 1, Capacity) \in Seq(Message)
          /\ Len(SubSeq(w, 1, Capacity)) = Capacity
          /\ \A i \in 1 .. Capacity : SubSeq(w, 1, Capacity)[i] = w[i]
      BY <1>1, <1>2, SubSeqProperties
    <2> QED
      BY <1>1, <1>2, <2>1 DEF Fit
  <1>3. CASE ~(Lossy /\ Len(w) > Capacity)
    BY <1>1, <1>3 DEF Fit
  <1> QED
    BY <1>2, <1>3

(* What the invariant says of the two ways of the line, as values.          *)
Ways(es, ls, gs) ==
    /\ es \in [Stations -> Engine] /\ ls \in [Stations -> Seq(Message)]
    /\ gs \in [Stations -> Nat]
    /\ \A i \in Stations : Good(es[i], gs[i]) /\ es[i].out = <<>> /\ Ordered(es[i].got)
    /\ \A i \in Stations : Way(es[i], ls[Peer(i)], es[Peer(i)], gs[i])

(* An engine whose messages have gone on the line is as good as before.     *)
LEMMA SentGood ==
  ASSUME conf \in Confs, NEW g \in Nat, NEW f, Good(f, g)
  PROVE  LET d == [f EXCEPT !.out = <<>>] IN
         /\ Good(d, g) /\ d.out = <<>> /\ d.got = f.got /\ d \in Engine
         /\ d.a = f.a /\ d.n = f.n /\ d.unack = f.unack /\ d.notsent = f.notsent
         /\ d.st = f.st /\ d.r = f.r
  <1> DEFINE d == [f EXCEPT !.out = <<>>]
  <1>1. f \in Engine /\ (f.st # "running" => f.a = f.n /\ f.notsent = <<>>)
    BY GoodFields DEF EngineData
  <1>2. /\ d.out = <<>> /\ d.got = f.got /\ d \in Engine
        /\ d.a = f.a /\ d.n = f.n /\ d.unack = f.unack /\ d.notsent = f.notsent
        /\ d.st = f.st /\ d.r = f.r
    BY Zenon, <1>1, EmptySeq DEF Engine
  <1> HIDE DEF d
  <1>3. Good(d, g)
    BY SMTT(30), <1>1, <1>2, GoodSame
  <1> QED
    BY <1>2, <1>3 DEF d

(* Emptying out changes nothing that a way speaks of.                       *)
LEMMA WaySame ==
  ASSUME NEW e, NEW d, NEW q, NEW r, NEW t, NEW g, Way(e, q, r, g),
         d.a = e.a, d.n = e.n, d.unack = e.unack, d.notsent = e.notsent,
         t.got = r.got, t.st = r.st, t.r = r.r
  PROVE  Way(d, q, t, g)
  BY DEF Way, LineReader, WindowLine, WindowReader, Bounds, Live, High

(* There are two stations, and each is the peer of the other.               *)
LEMMA PeerFacts ==
  \A i \in Stations : /\ Peer(i) \in Stations /\ Peer(i) # i /\ Peer(Peer(i)) = i
                      /\ \A j \in Stations : j = i \/ j = Peer(i)
  BY DEF Stations, Peer

(* A station becomes f and puts what it sent on the line, after it read     *)
(* nothing or the first message of the line to it.                          *)
LEMMA StationStep ==
  ASSUME conf \in Confs, NEW i \in Stations, NEW f, NEW h \in Nat, NEW left,
         Ways(eng, line, given), Sends(eng[i], f, given[i], h),
         \/ left = line /\ Stays(eng[i], f)
         \/ left = Rest(i) /\ line[i] # <<>> /\ Reads(eng[i], f, Head(line[i]))
  PROVE  Ways([eng EXCEPT ![i] = [f EXCEPT !.out = <<>>]],
              [left EXCEPT ![Peer(i)] = Fit(@ \o f.out)],
              [given EXCEPT ![i] = h])
  <1> DEFINE e == eng[i]
             p == Peer(i)
             x == eng[p]
             d == [f EXCEPT !.out = <<>>]
             w == line[p] \o f.out
             es == [eng EXCEPT ![i] = d]
             ls == [left EXCEPT ![p] = Fit(@ \o f.out)]
             gs == [given EXCEPT ![i] = h]
  <1>1. /\ eng \in [Stations -> Engine] /\ line \in [Stations -> Seq(Message)]
        /\ given \in [Stations -> Nat] /\ p \in Stations /\ p # i /\ Peer(p) = i
        /\ \A j \in Stations : j = i \/ j = p
    BY PeerFacts DEF Ways
  <1>2. /\ Good(e, given[i]) /\ Ordered(e.got) /\ Good(x, given[p]) /\ Ordered(x.got) /\ x.out = <<>>
        /\ Way(e, line[p], x, given[i]) /\ Way(x, line[i], e, given[p])
        /\ e \in Engine /\ x \in Engine /\ line[p] \in Seq(Message) /\ line[i] \in Seq(Message)
        /\ given[i] \in Nat /\ given[p] \in Nat
    BY SMTT(30), <1>1 DEF Ways
  <1>3. Good(f, h) /\ f \in Engine /\ f.out \in Seq(Message)
    <2>1. Good(f, h)
      BY DEF Sends
    <2>2. f \in Engine
      BY <2>1 DEF Good, Loose
    <2> QED
      BY <2>1, <2>2, EngineFields
  <1>4. /\ Good(d, h) /\ d.out = <<>> /\ d.got = f.got /\ d \in Engine
        /\ d.a = f.a /\ d.n = f.n /\ d.unack = f.unack /\ d.notsent = f.notsent
        /\ d.st = f.st /\ d.r = f.r
    BY <1>3, SentGood
  <1>5. /\ w \in Seq(Message) /\ Fit(w) \in Seq(Message) /\ Len(Fit(w)) <= Len(w)
        /\ \A k \in 1 .. Len(Fit(w)) : Fit(w)[k] = w[k]
    <2>1. w \in Seq(Message)
      BY SMTT(30), <1>2, <1>3, ConcatProperties
    <2> QED
      BY ZenonT(30), <2>1, FitPrefix
  <1>6. /\ left \in [Stations -> Seq(Message)] /\ left[p] = line[p]
        /\ \/ left[i] = line[i] /\ Stays(e, f)
           \/ line[i] # <<>> /\ left[i] = Tail(line[i]) /\ Reads(e, f, Head(line[i]))
    <2>1. CASE left = line /\ Stays(eng[i], f)
      BY <1>1, <2>1
    <2>2. CASE left = Rest(i) /\ line[i] # <<>> /\ Reads(eng[i], f, Head(line[i]))
      <3>1. Tail(line[i]) \in Seq(Message)
        BY <1>2, <2>2, HeadTailProperties
      <3> QED
        BY SMTT(30), <1>1, <2>2, <3>1 DEF Rest
    <2> QED
      BY <2>1, <2>2
  <1>7. /\ es \in [Stations -> Engine] /\ es[i] = d /\ es[p] = x
        /\ gs \in [Stations -> Nat] /\ gs[i] = h /\ gs[p] = given[p]
    BY <1>1, <1>4
  <1>8. ls \in [Stations -> Seq(Message)] /\ ls[p] = Fit(w) /\ ls[i] = left[i]
    BY SMTT(30), <1>1, <1>5, <1>6
  <1> HIDE DEF d, es, ls, gs, w
  <1>9. Way(d, Fit(w), x, h)
    <2>1. Way(f, Fit(w), x, h)
      <3> DEFINE v == Fit(w)
                 q == line[p]
                 G == given[i]
      <3>1. v \in Seq(Message) /\ Len(v) <= Len(q \o f.out) /\ q \in Seq(Message)
        BY Zenon, <1>2, <1>5 DEF w
      <3>2. \A k \in 1 .. Len(v) : v[k] = (q \o f.out)[k]
        BY ZenonT(30), <1>5 DEF w
      <3>3. /\ x \in Engine /\ Good(e, G) /\ Sends(e, f, G, h) /\ Way(e, q, x, G) /\ G \in Nat
        BY <1>2
      <3> HIDE DEF v, q, G, e, x
      <3>4. Way(f, v, x, h)
        BY SMTT(30), <3>1, <3>2, <3>3, WaySends
      <3> QED
        BY <3>4 DEF v
    <2> QED
      BY <1>4, <2>1, WaySame
  <1>10. Way(x, left[i], f, given[p]) /\ Ordered(f.got)
    <2>1. CASE left[i] = line[i] /\ Stays(e, f)
      BY SMTT(30), <1>2, <2>1, WayStays DEF Stays
    <2>2. CASE line[i] # <<>> /\ left[i] = Tail(line[i]) /\ Reads(e, f, Head(line[i]))
      BY SMTT(30), <1>2, <1>3, <2>2, WayReads
    <2> QED
      BY <1>6, <2>1, <2>2
  <1>11. Way(x, left[i], d, given[p])
    BY SMTT(30), <1>4, <1>10, WaySame
  <1>12. Ways(es, ls, gs)
    <2>1. \A j \in Stations : Good(es[j], gs[j]) /\ es[j].out = <<>> /\ Ordered(es[j].got)
      BY Zenon, <1>1, <1>2, <1>4, <1>7, <1>10
    <2>2. \A j \in Stations : Way(es[j], ls[Peer(j)], es[Peer(j)], gs[j])
      BY Zenon, <1>1, <1>7, <1>8, <1>9, <1>11
    <2> QED
      BY <1>7, <1>8, <2>1, <2>2 DEF Ways
  <1> QED
    BY <1>12 DEF es, ls, gs, d

(* Every step of the line and of its stations.                              *)
LEMMA NextWays ==
  ASSUME conf \in Confs, Ways(eng, line, given), Next
  PROVE  Ways(eng', line', given')
  <1>0. /\ eng \in [Stations -> Engine] /\ line \in [Stations -> Seq(Message)]
        /\ given \in [Stations -> Nat]
    BY DEF Ways
  <1>1. CASE Heal
    BY <1>1 DEF Heal
  <1>2. ASSUME NEW i \in Stations,
               \/ Connect(i) \/ Restart(i) \/ SendMaintenance(i) \/ Send(i)
               \/ Expire(i) \/ Arrive(i) \/ ArriveDamaged(i) \/ Lose(i)
        PROVE  Ways(eng', line', given')
    <2>1. /\ Good(eng[i], given[i]) /\ eng[i].out = <<>> /\ given[i] \in Nat
          /\ eng[i] \in Engine /\ line[i] \in Seq(Message)
          /\ [given EXCEPT ![i] = given[i]] = given
          /\ (line[i] # <<>> => Head(line[i]) \in Message)
      BY <1>0, HeadTailProperties DEF Ways
    <2>2. ASSUME NEW f, NEW h \in Nat, NEW left, Step(i, f, left),
                 given' = [given EXCEPT ![i] = h], Sends(eng[i], f, given[i], h),
                 \/ left = line /\ Stays(eng[i], f)
                 \/ left = Rest(i) /\ line[i] # <<>> /\ Reads(eng[i], f, Head(line[i]))
          PROVE  Ways(eng', line', given')
      <3>1. /\ eng' = [eng EXCEPT ![i] = [f EXCEPT !.out = <<>>]]
            /\ line' = [left EXCEPT ![Peer(i)] = Fit(@ \o f.out)]
        BY <2>2 DEF Step
      <3>2. Ways([eng EXCEPT ![i] = [f EXCEPT !.out = <<>>]],
                 [left EXCEPT ![Peer(i)] = Fit(@ \o f.out)], [given EXCEPT ![i] = h])
        BY Zenon, <2>2, StationStep
      <3> QED
        BY <2>2, <3>1, <3>2
    <2>3. CASE Connect(i)
      <3>1. Sends(eng[i], Connected(eng[i]), given[i], given[i]) /\ Stays(eng[i], Connected(eng[i]))
        BY <2>1, ConnectedSends DEF Stays, Live
      <3>2. Step(i, Connected(eng[i]), line) /\ given' = given
        BY <2>3 DEF Connect
      <3> QED
        BY <2>1, <2>2, <3>1, <3>2
    <2>4. CASE Restart(i)
      <3>1. Sends(eng[i], DoRestart(eng[i]), given[i], given[i]) /\ Stays(eng[i], DoRestart(eng[i]))
        BY <2>1, DoRestartSends
      <3>2. Step(i, DoRestart(eng[i]), line) /\ given' = given
        BY <2>4 DEF Restart
      <3> QED
        BY <2>1, <2>2, <3>1, <3>2
    <2>5. CASE SendMaintenance(i)
      <3>1. /\ Sends(eng[i], SendMsg(eng[i], Maintenance), given[i], given[i])
            /\ Stays(eng[i], SendMsg(eng[i], Maintenance))
        <4>1. Maintenance \in Message /\ ~IsData(Maintenance) /\ ~Opening(Maintenance)
          BY Numbers DEF Maintenance, Msg, Message, Kinds, IsData, Opening
        <4>2. Sends(eng[i], eng[i], given[i], given[i])
          BY <2>1, SendsNothing
        <4> QED
          BY <2>1, <4>1, <4>2, SendMsgSends, SendMsgFields DEF Stays, Live
      <3>2. Step(i, SendMsg(eng[i], Maintenance), line) /\ given' = given
        BY <2>5 DEF SendMaintenance
      <3> QED
        BY <2>1, <2>2, <3>1, <3>2
    <2>6. CASE Send(i)
      <3>1. /\ Sends(eng[i], SendData(eng[i], given[i] + 1), given[i], given[i] + 1)
            /\ Stays(eng[i], SendData(eng[i], given[i] + 1))
        BY <2>1, <2>6, SendDataSends DEF Send, Stays, Live
      <3>2. /\ Step(i, SendData(eng[i], given[i] + 1), line)
            /\ given' = [given EXCEPT ![i] = given[i] + 1] /\ given[i] + 1 \in Nat
        BY <2>1, <2>6 DEF Send
      <3> QED
        BY Zenon, <2>2, <3>1, <3>2
    <2>7. CASE Expire(i)
      <3>1. Sends(eng[i], Timeout(eng[i]), given[i], given[i]) /\ Stays(eng[i], Timeout(eng[i]))
        BY <2>1, TimeoutSends
      <3>2. Step(i, Timeout(eng[i]), line) /\ given' = given
        BY <2>7 DEF Expire
      <3> QED
        BY <2>1, <2>2, <3>1, <3>2
    <2>8. CASE Arrive(i)
      <3> DEFINE m == Head(line[i])
      <3>1. m \in Message /\ line[i] # <<>>
        BY <2>1, <2>8 DEF Arrive
      <3>2. Step(i, Receive(eng[i], m), Rest(i)) /\ given' = given
        BY <2>8 DEF Arrive
      <3>3. Sends(eng[i], Receive(eng[i], m), given[i], given[i]) /\ Reads(eng[i], Receive(eng[i], m), m)
        BY <2>1, <3>1, ReceiveSends
      <3> QED
        BY <2>1, <2>2, <3>1, <3>2, <3>3
    <2>9. CASE ArriveDamaged(i)
      <3> DEFINE m == Head(line[i])
      <3>1. m \in Message /\ line[i] # <<>>
        BY <2>1, <2>9 DEF ArriveDamaged
      <3>2. Step(i, ReceiveError(eng[i], m), Rest(i)) /\ given' = given
        BY <2>9 DEF ArriveDamaged
      <3>3. /\ Sends(eng[i], ReceiveError(eng[i], m), given[i], given[i])
            /\ Reads(eng[i], ReceiveError(eng[i], m), m)
        BY <2>1, <3>1, ReceiveErrorSends DEF Reads
      <3> QED
        BY <2>1, <2>2, <3>1, <3>2, <3>3
    <2>10. CASE Lose(i)
      <3>1. line[i] # <<>> /\ line' = Rest(i) /\ eng' = eng /\ given' = given
        BY <2>10 DEF Lose
      <3>2. Tail(line[i]) \in Seq(Message)
        BY <2>1, <3>1, HeadTailProperties
      <3>3. /\ line' \in [Stations -> Seq(Message)] /\ line'[i] = Tail(line[i])
            /\ \A j \in Stations : j # i => line'[j] = line[j]
        BY <1>0, <3>1, <3>2 DEF Rest
      <3>4. ASSUME NEW j \in Stations
            PROVE  Way(eng[j], line'[Peer(j)], eng[Peer(j)], given[j])
        <4>1. Way(eng[j], line[Peer(j)], eng[Peer(j)], given[j])
          BY DEF Ways
        <4>2. CASE Peer(j) = i
          <5> DEFINE q == line[i]
                     e == eng[j]
                     r == eng[i]
                     g == given[j]
          <5>1. q \in Seq(Message) /\ q # <<>> /\ Way(e, q, r, g)
            BY <2>1, <3>1, <4>1, <4>2
          <5> HIDE DEF q, e, r, g
          <5>2. Way(e, Tail(q), r, g)
            BY <5>1, WayTail
          <5> QED
            BY Zenon, <3>3, <4>2, <5>2 DEF q, e, r, g
        <4>3. CASE Peer(j) # i
          BY <3>3, <4>1, <4>3, PeerFacts
        <4> QED
          BY <4>2, <4>3
      <3> QED
        BY <3>1, <3>3, <3>4 DEF Ways
    <2> QED
      BY SMTT(30), <1>2, <2>3, <2>4, <2>5, <2>6, <2>7, <2>8, <2>9, <2>10
  <1> QED
    BY <1>1, <1>2 DEF Next

(* The line of a behaviour is one of Confs and does not change, the types   *)
(* hold, and the ways of the line are in order.                             *)
LineInv == conf \in Confs /\ lossy \in BOOLEAN /\ resets \in Nat /\ Ways(eng, line, given)

(* Two halted stations and an empty line.                                   *)
LEMMA LineInvInit == Init => LineInv
  <1> SUFFICES ASSUME Init PROVE LineInv
    OBVIOUS
  <1> DEFINE z == [st |-> "halted", r |-> 0, a |-> 0, n |-> 0,
                   unack |-> [s \in Seqs |-> None], notsent |-> <<>>,
                   timer |-> FALSE, out |-> <<>>, got |-> <<>>, acked |-> {}]
  <1>1. /\ conf \in Confs /\ eng = [i \in Stations |-> z] /\ line = [i \in Stations |-> <<>>]
        /\ given = [i \in Stations |-> 0] /\ lossy = Lossy /\ resets = 0
    BY DEF Init
  <1>2. 0 \in Seqs /\ Lossy \in BOOLEAN /\ QMax \in Nat
    BY <1>1, Numbers, DdcmpAssumption DEF Lossy
  <1>3. z \in Engine
    BY <1>2, EmptySeq DEF Engine, Slot, None
  <1>4. /\ z.a = 0 /\ z.n = 0 /\ z.notsent = <<>> /\ z.out = <<>> /\ z.got = <<>>
        /\ z.unack = [s \in Seqs |-> None] /\ z.st = "halted"
    OBVIOUS
  <1> HIDE DEF z
  <1>5. Dist(0, 0) = 0 /\ \A s \in Seqs : ~InWindow(s, z.a, z.n)
    <2>1. Dist(0, 0) = 0
      BY <1>1, <1>2, DistInjective
    <2>2. ASSUME NEW s \in Seqs PROVE Dist(0, s) \in Nat
      BY <1>1, <1>2, DistVal, Numbers DEF Seqs
    <2> QED
      BY <1>4, <2>1, <2>2 DEF InWindow
  <1>6. Good(z, 0)
    BY <1>2, <1>3, <1>4, <1>5, EmptySeq DEF Good, Loose, EngineData, High, Pending
  <1>7. Ordered(z.got) /\ Last(z.got) = 0
    BY SMTT(30), <1>4, EmptySeq DEF Ordered, Last
  <1>8. Way(z, <<>>, z, 0)
    <2>1. 1 .. Len(<<>>) = {} /\ Len(z.notsent) = 0
      BY <1>4, EmptySeq
    <2>2. LineOrder(<<>>) /\ LineReader(<<>>, z)
      BY Zenon, <2>1 DEF LineOrder, LineReader
    <2>3. WindowLine(z, <<>>) /\ WindowReader(z, <<>>, z)
      BY Zenon, <1>5 DEF WindowLine, WindowReader
    <2>4. High(z, 0) = 0
      BY <2>1 DEF High
    <2>5. Bounds(<<>>, z, High(z, 0))
      BY SMTT(30), <1>7, <2>1, <2>4 DEF Bounds
    <2> QED
      BY Zenon, <2>2, <2>3, <2>5 DEF Way
  <1>9. Ways(eng, line, given)
    BY <1>1, <1>3, <1>4, <1>6, <1>7, <1>8, PeerFacts, EmptySeq DEF Ways
  <1> QED
    BY <1>1, <1>2, <1>9 DEF LineInv

(* Every step keeps the invariant.                                          *)
LEMMA LineInvNext == LineInv /\ [Next]_vars => LineInv'
  <1> SUFFICES ASSUME LineInv, [Next]_vars PROVE LineInv'
    BY SMTT(30)
  <1>1. conf' = conf
    BY DEF Next, vars, Heal, Connect, Restart, SendMaintenance, Send, Expire, Arrive,
           ArriveDamaged, Lose
  <1>2. lossy' \in BOOLEAN /\ resets' \in Nat
    <2>1. lossy \in BOOLEAN /\ resets \in Nat
      BY SMTT(30) DEF LineInv
    <2>2. (lossy' = lossy \/ lossy' = FALSE) /\ (resets' = resets \/ resets' = resets + 1)
      BY DEF Next, vars, Heal, Connect, Restart, SendMaintenance, Send, Expire, Arrive,
             ArriveDamaged, Lose
    <2>3. resets' \in Nat
      BY <2>1, <2>2
    <2> QED
      BY Zenon, <2>1, <2>2, <2>3
  <1>3. Ways(eng', line', given')
    BY SMTT(30), NextWays DEF LineInv, vars
  <1>4. Ways(eng, line, given)'
    <2>1. /\ Modulus' = Modulus /\ QMax' = QMax /\ Seqs' = Seqs
      BY <1>1 DEF Modulus, QMax, Seqs
    <2>2. Message' = Message /\ Engine' = Engine
      BY <2>1 DEF Message, Engine, Slot
    <2>3. /\ \A x, y : Dist(x, y)' = Dist(x, y)
      BY <2>1 DEF Dist
    <2>4. /\ \A x, y, z : InWindow(x, y, z)' <=> InWindow(x, y, z)
      BY <2>3 DEF InWindow
    <2>5. \A x, y, z, w : Echo(x, y, z, w)' <=> Echo(x, y, z, w)
      BY <2>1, <2>3 DEF Echo
    <2>6. \A e, g : Good(e, g)' <=> Good(e, g)
      BY SMTT(30), <2>1, <2>2, <2>3, <2>4 DEF Good, Loose, EngineData, Pending, High
    <2>7. \A e, q, r, g : Way(e, q, r, g)' <=> Way(e, q, r, g)
      <3> SUFFICES ASSUME NEW e, NEW q, NEW r, NEW g
                   PROVE  Way(e, q, r, g)' <=> Way(e, q, r, g)
        OBVIOUS
      <3>1. LineOrder(q)' <=> LineOrder(q)
        BY <2>5 DEF LineOrder
      <3>2. LineReader(q, r)' <=> LineReader(q, r)
        BY SMTT(30), <2>5 DEF LineReader
      <3>3. WindowLine(e, q)' <=> WindowLine(e, q)
        BY SMTT(30), <2>1, <2>4, <2>5 DEF WindowLine
      <3>4. WindowReader(e, q, r)' <=> WindowReader(e, q, r)
        BY <2>1, <2>4, <2>5 DEF WindowReader
      <3>5. High(e, g)' = High(e, g) /\ (Bounds(q, r, High(e, g))' <=> Bounds(q, r, High(e, g)))
        BY DEF High, Bounds
      <3> QED
        BY Zenon, <3>1, <3>2, <3>3, <3>4, <3>5 DEF Way
    <2> QED
      BY <1>3, <2>2, <2>6, <2>7 DEF Ways
  <1> QED
    BY <1>1, <1>2, <1>4 DEF LineInv

(* The inductive invariant holds throughout.                                *)
LEMMA LineInvAlways == Spec => []LineInv
  <1> QED
    BY LineInvInit, LineInvNext, PTL DEF Spec

(* Whatever a line loses or damages, whenever timers fire, and however      *)
(* often a station restarts or sees maintenance messages: sequence numbers  *)
(* stay below the modulus, the window of a station never exceeds qmax_,     *)
(* unack_ holds a message for exactly the numbers in the window, and        *)
(* payloads wait in notsent_ only while the window is full (process_ack,    *)
(* send_queued, retransmit and init_state of the protocol engine).          *)
THEOREM EngineOKAlways == Spec => []EngineOK
  <1>1. LineInv => EngineOK
    BY DEF LineInv, Ways, Good, Loose, EngineOK, TypeOK, WindowOK, EngineWindowOK
  <1> QED
    BY <1>1, LineInvAlways, PTL

(* No payload is delivered twice or out of order: each one is newer than    *)
(* all that its station delivered before, for every modulus larger than the *)
(* window, over wrapped sequence numbers, losses, damage, premature timers  *)
(* and restarts (the check of num in receive).                              *)
THEOREM InOrderAlways == Spec => []InOrder
  <1>1. LineInv => InOrder
    BY DEF LineInv, Ways, Ordered, InOrder
  <1> QED
    BY <1>1, LineInvAlways, PTL
=============================================================================
