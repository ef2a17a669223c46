--------------------------- MODULE PtpLink_proof ----------------------------
(***************************************************************************)
(* Proofs about the point to point link, for every configuration and every *)
(* bound on the queue.                                                     *)
(***************************************************************************)
EXTENDS PtpLink, TLAPS

(* The items that the link posts to itself.                                 *)
Args == Kinds \cup {"", "now", "later"}
Items == [to : {"dl"}, kind : DlKinds, arg : Args] \cup [to : {"ci"}, kind : CiKinds, arg : Args]

(* The queue holds an item of this kind for this owner.                     *)
Is(w, o, k) == w.to = o /\ w.kind = k
Has(q, o, k) == \E i \in 1 .. Len(q) : Is(q[i], o, k)

(* One step of the queue: the front item is taken off if d, and the items p *)
(* are put at the back.                                                     *)
Moves(d, p) ==
    /\ p \in Seq(Items)
    /\ d => queue # <<>>
    /\ queue' = (IF d THEN Tail(queue) ELSE queue) \o p

(* What is left of the queue before the posts.                              *)
Rest(d) == IF d THEN Tail(queue) ELSE queue

-----------------------------------------------------------------------------
(* What the queue holds after a step.                                       *)
LEMMA HasTail ==
    ASSUME NEW q \in Seq(Items), q # <<>>, NEW o, NEW k
    PROVE  Has(q, o, k) <=> Is(Head(q), o, k) \/ Has(Tail(q), o, k)
<1>1. /\ Len(Tail(q)) = Len(q) - 1 /\ Len(q) \in Nat \ {0} /\ Head(q) = q[1]
      /\ \A i \in 1 .. Len(q) - 1 : Tail(q)[i] = q[i + 1]
  OBVIOUS
<1>2. ASSUME NEW i \in 1 .. Len(q), Is(q[i], o, k)
      PROVE  Is(Head(q), o, k) \/ Has(Tail(q), o, k)
  <2>1. CASE i = 1
    BY <1>1, <1>2, <2>1
  <2>2. CASE i # 1
    <3>1. i - 1 \in 1 .. Len(Tail(q)) /\ Tail(q)[i - 1] = q[i]
      BY <1>1, <2>2
    <3> QED
      BY <1>2, <3>1 DEF Has
  <2> QED
    BY <2>1, <2>2
<1>3. ASSUME NEW i \in 1 .. Len(Tail(q)), Is(Tail(q)[i], o, k)
      PROVE  Has(q, o, k)
  <2>1. i + 1 \in 1 .. Len(q) /\ q[i + 1] = Tail(q)[i]
    BY <1>1
  <2> QED
    BY <1>3, <2>1 DEF Has
<1>4. ASSUME Is(Head(q), o, k) PROVE Has(q, o, k)
  <2>1. 1 \in 1 .. Len(q)
    BY <1>1
  <2> QED
    BY <1>1, <1>4, <2>1 DEF Has
<1> QED
  BY <1>2, <1>3, <1>4 DEF Has

(* Two sequences one after the other.                                       *)
LEMMA HasConcat ==
    ASSUME NEW a \in Seq(Items), NEW b \in Seq(Items), NEW o, NEW k
    PROVE  Has(a \o b, o, k) <=> Has(a, o, k) \/ Has(b, o, k)
<1>1. /\ Len(a \o b) = Len(a) + Len(b) /\ Len(a) \in Nat /\ Len(b) \in Nat
      /\ \A i \in 1 .. Len(a) : (a \o b)[i] = a[i]
      /\ \A i \in 1 .. Len(b) : (a \o b)[Len(a) + i] = b[i]
  OBVIOUS
<1>2. ASSUME NEW i \in 1 .. Len(a \o b), Is((a \o b)[i], o, k)
      PROVE  Has(a, o, k) \/ Has(b, o, k)
  <2>1. CASE i <= Len(a)
    <3>1. i \in 1 .. Len(a) /\ (a \o b)[i] = a[i]
      BY <1>1, <2>1
    <3> QED
      BY <1>2, <3>1 DEF Has
  <2>2. CASE ~ (i <= Len(a))
    <3>1. i - Len(a) \in 1 .. Len(b) /\ (a \o b)[Len(a) + (i - Len(a))] = b[i - Len(a)]
      BY <1>1, <2>2
    <3>2. Len(a) + (i - Len(a)) = i
      BY <1>1
    <3> QED
      BY <1>2, <3>1, <3>2 DEF Has
  <2> QED
    BY <2>1, <2>2
<1>3. ASSUME NEW i \in 1 .. Len(a), Is(a[i], o, k)
      PROVE  Has(a \o b, o, k)
  <2>1. i \in 1 .. Len(a \o b)
    BY <1>1
  <2> QED
    BY <1>1, <1>3, <2>1 DEF Has
<1>4. ASSUME NEW i \in 1 .. Len(b), Is(b[i], o, k)
      PROVE  Has(a \o b, o, k)
  <2>1. Len(a) + i \in 1 .. Len(a \o b)
    BY <1>1
  <2> QED
    BY <1>1, <1>4, <2>1 DEF Has
<1> QED
  BY <1>2, <1>3, <1>4 DEF Has

(* The sequences that handlers post.                                        *)
LEMMA HasPosts ==
    ASSUME NEW o, NEW k
    PROVE  /\ ~ Has(<<>>, o, k)
           /\ \A v \in Items : Has(<<v>>, o, k) <=> Is(v, o, k)
           /\ \A v, w \in Items : Has(<<v, w>>, o, k) <=> Is(v, o, k) \/ Is(w, o, k)
  BY DEF Has

(* What a step of the queue makes of what it holds.                         *)
LEMMA HasAfter ==
    ASSUME queue \in Seq(Items), NEW d \in BOOLEAN, NEW p, Moves(d, p), NEW o, NEW k
    PROVE  /\ Has(queue', o, k) <=> Has(Rest(d), o, k) \/ Has(p, o, k)
           /\ d => (Has(queue, o, k) <=> Is(Head(queue), o, k) \/ Has(Rest(d), o, k))
           /\ ~ d => Rest(d) = queue
<1>1. Rest(d) \in Seq(Items) /\ p \in Seq(Items) /\ queue' = Rest(d) \o p
  BY DEF Moves, Rest
<1>2. Has(queue', o, k) <=> Has(Rest(d), o, k) \/ Has(p, o, k)
  BY <1>1, HasConcat
<1>3. ASSUME d PROVE Has(queue, o, k) <=> Is(Head(queue), o, k) \/ Has(Rest(d), o, k)
  BY <1>3, HasTail DEF Moves, Rest
<1> QED
  BY <1>2, <1>3 DEF Rest

(* The queue holds no more than one item of this kind.                      *)
Once(q, o, k) ==
    \A i, j \in 1 .. Len(q) : Is(q[i], o, k) /\ Is(q[j], o, k) => i = j

(* Taking the front off leaves at most one.                                 *)
LEMMA OnceTail ==
    ASSUME NEW q \in Seq(Items), q # <<>>, NEW o, NEW k, Once(q, o, k)
    PROVE  /\ Once(Tail(q), o, k)
           /\ Is(Head(q), o, k) => ~ Has(Tail(q), o, k)
<1>1. /\ Len(Tail(q)) = Len(q) - 1 /\ Len(q) \in Nat \ {0} /\ Head(q) = q[1]
      /\ \A i \in 1 .. Len(q) - 1 : Tail(q)[i] = q[i + 1]
  OBVIOUS
<1>2. ASSUME NEW i \in 1 .. Len(Tail(q)), NEW j \in 1 .. Len(Tail(q)),
             Is(Tail(q)[i], o, k), Is(Tail(q)[j], o, k)
      PROVE  i = j
  <2>1. /\ i + 1 \in 1 .. Len(q) /\ Tail(q)[i] = q[i + 1]
        /\ j + 1 \in 1 .. Len(q) /\ Tail(q)[j] = q[j + 1]
    BY <1>1
  <2>2. i + 1 = j + 1
    BY <1>2, <2>1 DEF Once
  <2> QED
    BY <2>2, <1>1
<1>3. ASSUME Is(Head(q), o, k), NEW i \in 1 .. Len(Tail(q)), Is(Tail(q)[i], o, k)
      PROVE  FALSE
  <2>1. 1 \in 1 .. Len(q) /\ i + 1 \in 1 .. Len(q) /\ Tail(q)[i] = q[i + 1] /\ 1 # i + 1
    BY <1>1
  <2> QED
    BY <1>1, <1>3, <2>1 DEF Once
<1> QED
  BY <1>2, <1>3 DEF Once, Has

(* Posting none leaves at most one.                                         *)
LEMMA OnceConcat ==
    ASSUME NEW a \in Seq(Items), NEW b \in Seq(Items), NEW o, NEW k, Once(a, o, k),
           ~ Has(b, o, k)
    PROVE  Once(a \o b, o, k)
<1>1. /\ Len(a \o b) = Len(a) + Len(b) /\ Len(a) \in Nat /\ Len(b) \in Nat
      /\ \A i \in 1 .. Len(a) : (a \o b)[i] = a[i]
      /\ \A i \in 1 .. Len(b) : (a \o b)[Len(a) + i] = b[i]
  OBVIOUS
<1>2. ASSUME NEW i \in 1 .. Len(a \o b), Is((a \o b)[i], o, k)
      PROVE  i \in 1 .. Len(a) /\ (a \o b)[i] = a[i]
  <2>1. CASE i <= Len(a)
    BY <1>1, <2>1
  <2>2. CASE ~ (i <= Len(a))
    <3>1. i - Len(a) \in 1 .. Len(b) /\ (a \o b)[Len(a) + (i - Len(a))] = b[i - Len(a)]
      BY <1>1, <2>2
    <3>2. Len(a) + (i - Len(a)) = i
      BY <1>1
    <3> QED
      BY <1>2, <3>1, <3>2 DEF Has
  <2> QED
    BY <2>1, <2>2
<1> QED
  BY <1>2 DEF Once

(* Posting one where there was none makes it the only one.                  *)
LEMMA OnceLast ==
    ASSUME NEW a \in Seq(Items), NEW w \in Items, NEW o, NEW k, ~ Has(a, o, k)
    PROVE  Once(a \o <<w>>, o, k)
<1>1. /\ Len(a \o <<w>>) = Len(a) + 1 /\ Len(a) \in Nat
      /\ \A i \in 1 .. Len(a) : (a \o <<w>>)[i] = a[i]
  OBVIOUS
<1>2. ASSUME NEW i \in 1 .. Len(a \o <<w>>), Is((a \o <<w>>)[i], o, k)
      PROVE  i = Len(a) + 1
  BY <1>1, <1>2 DEF Has
<1> QED
  BY <1>2 DEF Once

(* Every up report in the queue has a down report behind it.                *)
Followed(q) ==
    \A i \in 1 .. Len(q) :
        Is(q[i], "ci", "Up") => \E j \in 1 .. Len(q) : j > i /\ Is(q[j], "ci", "Down")

(* The front comes off: what was behind an up report is still queued.       *)
LEMMA FollowedTail ==
    ASSUME NEW q \in Seq(Items), q # <<>>, Followed(q)
    PROVE  /\ Followed(Tail(q))
           /\ Is(Head(q), "ci", "Up") => Has(Tail(q), "ci", "Down")
<1>1. /\ Len(Tail(q)) = Len(q) - 1 /\ Len(q) \in Nat \ {0} /\ Head(q) = q[1]
      /\ \A i \in 1 .. Len(q) - 1 : Tail(q)[i] = q[i + 1]
  OBVIOUS
<1>2. ASSUME NEW i \in 1 .. Len(q), Is(q[i], "ci", "Up")
      PROVE  \E j \in 1 .. Len(Tail(q)) : j + 1 > i /\ Is(Tail(q)[j], "ci", "Down")
  <2>1. PICK j \in 1 .. Len(q) : j > i /\ Is(q[j], "ci", "Down")
    BY <1>2 DEF Followed
  <2>2. j - 1 \in 1 .. Len(Tail(q)) /\ Tail(q)[j - 1] = q[(j - 1) + 1] /\ (j - 1) + 1 = j
    BY <1>1, <2>1
  <2> QED
    BY Zenon, <2>1, <2>2
<1>3. ASSUME NEW i \in 1 .. Len(Tail(q)), Is(Tail(q)[i], "ci", "Up")
      PROVE  \E j \in 1 .. Len(Tail(q)) : j > i /\ Is(Tail(q)[j], "ci", "Down")
  <2>1. i + 1 \in 1 .. Len(q) /\ Tail(q)[i] = q[i + 1]
    BY <1>1
  <2>2. PICK j \in 1 .. Len(Tail(q)) : j + 1 > i + 1 /\ Is(Tail(q)[j], "ci", "Down")
    BY <1>2, <1>3, <2>1
  <2> QED
    BY <2>2, <1>1
<1>4. ASSUME Is(Head(q), "ci", "Up") PROVE Has(Tail(q), "ci", "Down")
  <2>1. 1 \in 1 .. Len(q) /\ Is(q[1], "ci", "Up")
    BY <1>1, <1>4
  <2> QED
    BY <1>2, <2>1 DEF Has
<1> QED
  BY <1>3, <1>4 DEF Followed

(* Posting no up report keeps the others followed.                          *)
LEMMA FollowedConcat ==
    ASSUME NEW a \in Seq(Items), NEW b \in Seq(Items), Followed(a), ~ Has(b, "ci", "Up")
    PROVE  Followed(a \o b)
<1>1. /\ Len(a \o b) = Len(a) + Len(b) /\ Len(a) \in Nat /\ Len(b) \in Nat
      /\ \A i \in 1 .. Len(a) : (a \o b)[i] = a[i]
      /\ \A i \in 1 .. Len(b) : (a \o b)[Len(a) + i] = b[i]
  OBVIOUS
<1>2. ASSUME NEW i \in 1 .. Len(a \o b), Is((a \o b)[i], "ci", "Up")
      PROVE  \E j \in 1 .. Len(a \o b) : j > i /\ Is((a \o b)[j], "ci", "Down")
  <2>1. CASE i <= Len(a)
    <3>1. i \in 1 .. Len(a) /\ (a \o b)[i] = a[i]
      BY <1>1, <2>1
    <3>2. PICK j \in 1 .. Len(a) : j > i /\ Is(a[j], "ci", "Down")
      BY <1>2, <3>1 DEF Followed
    <3>3. j \in 1 .. Len(a \o b) /\ (a \o b)[j] = a[j]
      BY <1>1
    <3> QED
      BY <3>2, <3>3
  <2>2. CASE ~ (i <= Len(a))
    <3>1. i - Len(a) \in 1 .. Len(b) /\ (a \o b)[Len(a) + (i - Len(a))] = b[i - Len(a)]
      BY <1>1, <2>2
    <3>2. Len(a) + (i - Len(a)) = i
      BY <1>1
    <3> QED
      BY <1>2, <3>1, <3>2 DEF Has
  <2> QED
    BY <2>1, <2>2
<1> QED
  BY <1>2 DEF Followed

(* A down report at the back follows every up report.                       *)
LEMMA FollowedBy ==
    ASSUME NEW a \in Seq(Items), NEW b \in Seq(Items), Has(b, "ci", "Down"), ~ Has(b, "ci", "Up")
    PROVE  Followed(a \o b)
<1>1. /\ Len(a \o b) = Len(a) + Len(b) /\ Len(a) \in Nat /\ Len(b) \in Nat
      /\ \A i \in 1 .. Len(a) : (a \o b)[i] = a[i]
      /\ \A i \in 1 .. Len(b) : (a \o b)[Len(a) + i] = b[i]
  OBVIOUS
<1>2. PICK j \in 1 .. Len(b) : Is(b[j], "ci", "Down")
  BY DEF Has
<1>3. Len(a) + j \in 1 .. Len(a \o b) /\ Is((a \o b)[Len(a) + j], "ci", "Down")
  BY <1>1, <1>2
<1>4. ASSUME NEW i \in 1 .. Len(a \o b), Is((a \o b)[i], "ci", "Up"), ~ (i <= Len(a))
      PROVE  FALSE
  <2>1. i - Len(a) \in 1 .. Len(b) /\ (a \o b)[Len(a) + (i - Len(a))] = b[i - Len(a)]
    BY <1>1, <1>4
  <2>2. Len(a) + (i - Len(a)) = i
    BY <1>1
  <2> QED
    BY <1>4, <2>1, <2>2 DEF Has
<1>5. ASSUME NEW i \in 1 .. Len(a \o b), Is((a \o b)[i], "ci", "Up")
      PROVE  Len(a) + j > i
  BY <1>1, <1>4, <1>5
<1> QED
  BY <1>3, <1>5 DEF Followed

-----------------------------------------------------------------------------
(* The types, apart for the queue, the states, the flags and the circuit.   *)
TypedQueue == conf \in Confs /\ queue \in Seq(Items)

TypedStates ==
    /\ dl \in {"s0", "connecting", "running", "reconnecting", "shutdown"}
    /\ thread \in {"none", "checking", "posting", "receiving", "exited"}
    /\ sock \in 0 .. 2
    /\ proto \in {"halted", "start", "run", "maint"}

TypedFlags ==
    /\ stopnow \in BOOLEAN /\ isUp \in BOOLEAN /\ restartNow \in BOOLEAN /\ timer \in BOOLEAN
    /\ pending \in BOOLEAN /\ tx \in BOOLEAN /\ posted \in BOOLEAN

TypedCircuit ==
    /\ ci \in {"s0", "ds", "ri", "rv", "ru"} /\ adj \in {"none", "made", "up"}
    /\ citimer \in BOOLEAN /\ wanted \in BOOLEAN

Typed == TypedQueue /\ TypedStates /\ TypedFlags /\ TypedCircuit

(* What the provers need of sequences of items.                             *)
LEMMA Sequences ==
    /\ \A q \in Seq(Items), w \in Items : Append(q, w) = q \o <<w>>
    /\ \A q, p \in Seq(Items) : q \o p \in Seq(Items)
    /\ \A q \in Seq(Items) : q # <<>> => Tail(q) \in Seq(Items) /\ Head(q) \in Items
    /\ \A w \in Items : <<w>> \in Seq(Items)
    /\ \A q \in Seq(Items) : q \o <<>> = q
    /\ <<>> \in Seq(Items)
  OBVIOUS

(* Everything that is posted is an item, of the kind it was made.           *)
LEMMA Posted ==
    /\ \A j \in DlKinds, a \in Args :
        /\ ToDl(j, a) \in Items
        /\ \A o, k : Is(ToDl(j, a), o, k) <=> o = "dl" /\ k = j
    /\ \A j \in CiKinds, a \in Args :
        /\ ToCircuit(j, a) \in Items /\ Item("ci", j, a) \in Items
        /\ \A o, k : Is(ToCircuit(j, a), o, k) <=> o = "ci" /\ k = j
        /\ \A o, k : Is(Item("ci", j, a), o, k) <=> o = "ci" /\ k = j
  BY DEF ToDl, ToCircuit, Item, Items, Is

(* A handler that posts one item.                                           *)
LEMMA OnePost ==
    ASSUME NEW w \in Items
    PROVE  <<w>> \in Seq(Items) /\ \A o, k : Has(<<w>>, o, k) <=> Is(w, o, k)
  BY Zenon, HasPosts, Sequences

(* A handler that posts nothing.                                            *)
LEMMA NoPosts == <<>> \in Seq(Items) /\ \A o, k : ~ Has(<<>>, o, k)
  BY HasPosts, Sequences

(* A handler that posts one item more.                                      *)
LEMMA TwoPosts ==
    ASSUME NEW p \in Seq(Items), NEW w \in Items
    PROVE  /\ p \o <<w>> \in Seq(Items)
           /\ \A o, k : Has(p \o <<w>>, o, k) <=> Has(p, o, k) \/ Is(w, o, k)
  BY Zenon, HasConcat, OnePost, Sequences

(* The reports are posted once per change of is_up_.                        *)
LEMMA ReportPosts ==
    ASSUME Typed
    PROVE  /\ DownReport \in Seq(Items) /\ UpReport \in Seq(Items)
           /\ \A o, k : Has(DownReport, o, k) <=> isUp /\ o = "ci" /\ k = "Down"
           /\ \A o, k : Has(UpReport, o, k) <=> ~ isUp /\ o = "ci" /\ k = "Up"
<1>1. /\ ToCircuit("Down", "") \in Items
      /\ \A o, k : Is(ToCircuit("Down", ""), o, k) <=> o = "ci" /\ k = "Down"
  BY Zenon, Posted DEF Args, CiKinds
<1>2. /\ ToCircuit("Up", "") \in Items
      /\ \A o, k : Is(ToCircuit("Up", ""), o, k) <=> o = "ci" /\ k = "Up"
  BY Zenon, Posted DEF Args, CiKinds
<1>3. CASE isUp
  BY Zenon, <1>1, <1>3, OnePost, NoPosts DEF DownReport, UpReport
<1>4. CASE ~ isUp
  BY Zenon, <1>2, <1>4, OnePost, NoPosts DEF DownReport, UpReport
<1> QED
  BY <1>3, <1>4

(* Join: there is at most one ThreadExit, and it is there while the thread  *)
(* is done and not joined.                                                  *)
Join ==
    /\ Has(queue, "dl", "ThreadExit") <=> thread = "exited"
    /\ Once(queue, "dl", "ThreadExit")

(* Reports: an up report in the queue is true, or there is a down report    *)
(* behind it.                                                               *)
Reports == isUp \/ Followed(queue)

(* Status: a circuit that takes the datalink to be up when it is not has a  *)
(* down report coming.                                                      *)
Status == ci \in {"ri", "rv", "ru"} /\ ~ isUp => Has(queue, "ci", "Down")

(* Moving: what holds of a circuit that is kept up.                         *)
Moving ==
    /\ dl # "shutdown" /\ ~ Has(queue, "dl", "Stop") /\ ~ Has(queue, "ci", "CircuitStop")
    /\ ci = "s0" => /\ dl = "s0" /\ thread = "none" /\ ~ timer /\ ~ isUp
                    /\ \A k \in DlKinds : ~ Has(queue, "dl", k)
    /\ ci = "ds" /\ isUp => \/ Has(queue, "ci", "Up") \/ Has(queue, "ci", "Down")
                            \/ Has(queue, "dl", "Restart")
    /\ ci # "s0" => /\ dl = "s0" => Has(queue, "dl", "Start")
                    /\ dl = "connecting" => thread # "none"
                    /\ dl = "reconnecting" => thread # "none" \/ timer

(* The inductive invariant.  CircuitAgrees needs Reports (an up report that *)
(* is taken late has its down report behind it), JoinNeverBlocks needs      *)
(* Once, and NeverStranded needs what a kept circuit never sees: a Stop, a  *)
(* CircuitStop, or work for a datalink that was never opened.               *)
IInv ==
    /\ Typed /\ Join /\ Reports /\ Status /\ AdjacencyMatches /\ HaltedIsQuiet
    /\ Kept => Moving

(* A step that takes off no ThreadExit, posts none, and neither ends nor    *)
(* joins the thread.                                                        *)
LEMMA JoinKept ==
    ASSUME Typed, Join, NEW d \in BOOLEAN, NEW p, Moves(d, p),
           ~ Has(p, "dl", "ThreadExit"), d => ~ Is(Head(queue), "dl", "ThreadExit"),
           thread' = "exited" <=> thread = "exited"
    PROVE  Join'
<1>1. queue \in Seq(Items) /\ Once(queue, "dl", "ThreadExit")
  BY DEF Typed, TypedQueue, Join
<1>2. Has(queue', "dl", "ThreadExit") <=> Has(queue, "dl", "ThreadExit")
  BY <1>1, HasAfter
<1>3. Rest(d) \in Seq(Items) /\ Once(Rest(d), "dl", "ThreadExit")
  BY <1>1, OnceTail, Sequences DEF Moves, Rest
<1>4. Once(queue', "dl", "ThreadExit")
  BY Zenon, <1>3, OnceConcat DEF Moves, Rest
<1> QED
  BY <1>2, <1>4 DEF Join

(* A step that posts no up report, and a down report when the datalink goes *)
(* down.                                                                    *)
LEMMA ReportsKept ==
    ASSUME Typed, Reports, NEW d \in BOOLEAN, NEW p, Moves(d, p),
           ~ Has(p, "ci", "Up"), ~ isUp' => ~ isUp \/ Has(p, "ci", "Down")
    PROVE  Reports'
<1>1. Rest(d) \in Seq(Items) /\ p \in Seq(Items) /\ queue' = Rest(d) \o p /\ queue \in Seq(Items)
  BY Sequences DEF Moves, Rest, Typed, TypedQueue
<1>2. CASE isUp'
  BY <1>2 DEF Reports
<1>3. CASE Has(p, "ci", "Down")
  BY <1>1, <1>3, FollowedBy DEF Reports
<1>4. CASE ~ isUp
  <2>1. Followed(Rest(d))
    BY <1>4, <1>1, FollowedTail DEF Reports, Moves, Rest
  <2> QED
    BY <1>1, <2>1, FollowedConcat DEF Reports
<1> QED
  BY <1>2, <1>3, <1>4

(* What the queue holds after a step, and its type.                         *)
LEMMA QueueAfter ==
    ASSUME Typed, NEW d \in BOOLEAN, NEW p, Moves(d, p)
    PROVE  /\ queue' \in Seq(Items)
           /\ \A o, k : Has(queue', o, k) <=> Has(Rest(d), o, k) \/ Has(p, o, k)
           /\ d => \A o, k : Has(queue, o, k) <=> Is(Head(queue), o, k) \/ Has(Rest(d), o, k)
           /\ ~ d => Rest(d) = queue
<1>1. queue \in Seq(Items)
  BY DEF Typed, TypedQueue
<1>2. queue' \in Seq(Items)
  BY <1>1, Sequences DEF Moves
<1> QED
  BY <1>1, <1>2, HasAfter

(* A step that concerns neither the end of the thread nor an up report, and *)
(* posts a down report if the datalink goes down.                           *)
Plain(d, p) ==
    /\ Moves(d, p)
    /\ ~ Has(p, "dl", "ThreadExit") /\ (d => ~ Is(Head(queue), "dl", "ThreadExit"))
    /\ thread' = "exited" <=> thread = "exited"
    /\ ~ Has(p, "ci", "Up")
    /\ ~ isUp' => ~ isUp \/ Has(p, "ci", "Down")

(* Such a step keeps the facts about the queue.                             *)
LEMMA PlainStep ==
    ASSUME IInv, NEW d \in BOOLEAN, NEW p, Plain(d, p)
    PROVE  /\ Join' /\ Reports' /\ queue' \in Seq(Items)
           /\ \A o, k : Has(queue', o, k) <=> Has(Rest(d), o, k) \/ Has(p, o, k)
           /\ d => \A o, k : Has(queue, o, k) <=> Is(Head(queue), o, k) \/ Has(Rest(d), o, k)
           /\ ~ d => Rest(d) = queue
<1>1. Typed /\ Join /\ Reports /\ Moves(d, p)
  BY DEF IInv, Plain
<1>2. Join'
  BY <1>1, JoinKept DEF Plain
<1>3. Reports'
  BY <1>1, ReportsKept DEF Plain
<1> QED
  BY <1>1, <1>2, <1>3, QueueAfter

(* A step of the datalink, and one of the circuit.                          *)
LEMMA DlSide ==
    ASSUME IInv, UNCHANGED <<conf, civars, wanted>>
    PROVE  /\ conf' = conf /\ ci' = ci /\ wanted' = wanted /\ (Kept' <=> Kept)
           /\ conf' \in Confs /\ TypedCircuit' /\ AdjacencyMatches' /\ HaltedIsQuiet'
  BY DEF IInv, Typed, TypedQueue, TypedCircuit, civars, AdjacencyMatches, HaltedIsQuiet,
         Kept, Ddcmp, Mode

(* A step that leaves the datalink as it is.                                *)
LEMMA CiSide ==
    ASSUME IInv, UNCHANGED conf, UNCHANGED dlvars
    PROVE  /\ conf' = conf /\ dl' = dl /\ thread' = thread /\ isUp' = isUp /\ timer' = timer
           /\ (Kept' <=> Kept) /\ conf' \in Confs /\ TypedStates' /\ TypedFlags'
  BY DEF IInv, Typed, TypedQueue, TypedStates, TypedFlags, dlvars, Kept, Ddcmp, Mode

-----------------------------------------------------------------------------
(* The handlers of the datalink.                                            *)
LEMMA StopStep ==
    ASSUME IInv, DlStop, UNCHANGED <<conf, civars, wanted>> PROVE IInv'
<1>1. Plain(TRUE, DownReport)
  BY ReportPosts DEF IInv, DlStop, Plain, Moves, IsNext, GetThenPut, Is
<1>2. \A o, k : Is(Head(queue), o, k) <=> o = "dl" /\ k = "Stop"
  BY DEF DlStop, IsNext, Is
<1>3. TypedStates' /\ TypedFlags'
  BY Zenon DEF IInv, Typed, TypedStates, TypedFlags, DlStop, AfterStop
<1>4. Status' /\ (Kept' => Moving')
  BY Zenon, <1>1, <1>2, PlainStep, ReportPosts, DlSide DEF IInv, DlStop, Status, Moving
<1> QED
  BY Zenon, <1>1, <1>3, <1>4, PlainStep, DlSide DEF IInv, Typed, TypedQueue

(* What starting over posts and where it leaves the datalink.               *)
LEMMA OverPosts ==
    ASSUME Typed, NEW now \in BOOLEAN, StartOver(now, DownReport)
    PROVE  /\ \E p \in Seq(Items) :
                /\ queue' = Tail(queue) \o p
                /\ \A o, k : Has(p, o, k) <=> \/ isUp /\ o = "ci" /\ k = "Down"
                                              \/ now /\ o = "dl" /\ k = "Start"
           /\ dl' = (IF now THEN "s0" ELSE "reconnecting") /\ (~ now => timer')
           /\ timer' \in BOOLEAN /\ restartNow' = FALSE /\ sock' = 0 /\ tx' = FALSE
           /\ pending' \in BOOLEAN /\ posted' = posted
<1>1. /\ ToDl("Start", "") \in Items
      /\ \A o, k : Is(ToDl("Start", ""), o, k) <=> o = "dl" /\ k = "Start"
  BY Zenon, Posted DEF Args, DlKinds
<1>2. CASE now
  <2>1. /\ DownReport \o <<ToDl("Start", "")>> \in Seq(Items)
        /\ \A o, k : Has(DownReport \o <<ToDl("Start", "")>>, o, k)
                     <=> \/ isUp /\ o = "ci" /\ k = "Down"
                         \/ o = "dl" /\ k = "Start"
    BY Zenon, <1>1, TwoPosts, ReportPosts
  <2> QED
    BY Zenon, <1>2, <2>1 DEF StartOver, Disconnect, GetThenPut, Typed, TypedFlags
<1>3. CASE ~ now
  BY Zenon, <1>3, ReportPosts DEF StartOver, Disconnect, GetThenPut, Typed, TypedFlags
<1> QED
  BY Zenon, <1>2, <1>3

(* handle_reconnect, for a Reconnect and for a Restart.                     *)
LEMMA ReconnectStep ==
    ASSUME IInv, NEW kind \in {"Reconnect", "Restart"}, IsNext("dl", kind),
           NEW now \in BOOLEAN, HandleReconnect(now), UNCHANGED <<conf, civars, wanted>>
    PROVE  IInv'
<1>1. \A o, k : Is(Head(queue), o, k) <=> o = "dl" /\ k = kind
  BY DEF IsNext, Is
<1>2. Typed /\ kind \in DlKinds /\ kind # "ThreadExit" /\ kind # "Stop" /\ kind # "Start"
  BY DEF IInv, DlKinds
<1>3. CASE Joinable
  <2>1. Plain(TRUE, DownReport)
    BY <1>1, <1>2, <1>3, ReportPosts
       DEF HandleReconnect, Plain, Moves, IsNext, GetThenPut, StartOver
  <2>2. TypedStates' /\ TypedFlags'
    BY Zenon, <1>2, <1>3 DEF Typed, TypedStates, TypedFlags, HandleReconnect
  <2>3. isUp' = FALSE /\ dl' = "reconnecting" /\ thread' # "none"
    BY <1>3 DEF HandleReconnect, Joinable
  <2>7. \A o, k : /\ Has(queue, o, k) <=> (o = "dl" /\ k = kind) \/ Has(Rest(TRUE), o, k)
                  /\ Has(queue', o, k) <=> \/ Has(Rest(TRUE), o, k)
                                           \/ isUp /\ o = "ci" /\ k = "Down"
    BY Zenon, <1>1, <1>2, <2>1, PlainStep, ReportPosts
  <2>4. Status'
    BY Zenon, <2>3, <2>7, DlSide DEF IInv, Status
  <2>5. Kept' => Moving'
    BY Zenon, <1>2, <2>3, <2>7, DlSide DEF IInv, Moving
  <2> QED
    BY Zenon, <2>1, <2>2, <2>4, <2>5, PlainStep, DlSide DEF IInv, Typed, TypedQueue
<1>4. CASE ~ Joinable
  <2>0. StartOver(now, DownReport)
    BY <1>4 DEF HandleReconnect
  <2>1. PICK p \in Seq(Items) :
            /\ queue' = Tail(queue) \o p
            /\ \A o, k : Has(p, o, k) <=> \/ isUp /\ o = "ci" /\ k = "Down"
                                          \/ now /\ o = "dl" /\ k = "Start"
    BY Zenon, <1>2, <2>0, OverPosts
  <2>2. Plain(TRUE, p)
    BY <1>1, <1>2, <2>1 DEF HandleReconnect, Plain, Moves, IsNext
  <2>3. /\ isUp' = FALSE /\ thread' = thread /\ stopnow' = TRUE /\ proto' = proto
        /\ now => dl' = "s0"
        /\ ~ now => dl' = "reconnecting" /\ timer'
        /\ timer' \in BOOLEAN /\ restartNow' = FALSE /\ sock' = 0 /\ tx' = FALSE
        /\ pending' \in BOOLEAN /\ posted' = posted
    BY Zenon, <1>2, <2>0, OverPosts DEF HandleReconnect
  <2>7. \A o, k : /\ Has(queue, o, k) <=> (o = "dl" /\ k = kind) \/ Has(Rest(TRUE), o, k)
                  /\ Has(queue', o, k) <=> \/ Has(Rest(TRUE), o, k)
                                           \/ isUp /\ o = "ci" /\ k = "Down"
                                           \/ now /\ o = "dl" /\ k = "Start"
    BY Zenon, <1>1, <2>1, <2>2, PlainStep
  <2>4. TypedStates' /\ TypedFlags'
    <3>1. dl' \in {"s0", "reconnecting"} /\ restartNow' \in BOOLEAN /\ tx' \in BOOLEAN
      BY Zenon, <2>3
    <3>2. TypedStates'
      BY <1>2, <2>3, <3>1 DEF Typed, TypedStates
    <3>3. stopnow' \in BOOLEAN /\ isUp' \in BOOLEAN
      BY Zenon, <2>3
    <3>4. posted' \in BOOLEAN
      BY <1>2, <2>3 DEF Typed, TypedFlags
    <3> QED
      BY <2>3, <3>1, <3>2, <3>3, <3>4 DEF TypedFlags
  <2>5. Status'
    BY Zenon, <2>3, <2>7, DlSide DEF IInv, Status
  <2>6. Kept' => Moving'
    BY Zenon, <1>2, <2>3, <2>7, DlSide DEF IInv, Moving
  <2> QED
    BY Zenon, <2>2, <2>4, <2>5, <2>6, PlainStep, DlSide DEF IInv, Typed, TypedQueue
<1> QED
  BY <1>3, <1>4

(* The protocol engine starts its handshake again, or leaves it.            *)
LEMMA ProtoDownStep ==
    ASSUME IInv, NEW kind \in {"Restart", "Received"}, IsNext("dl", kind), Ddcmp,
           GetThenPut(DownReport), isUp' = FALSE, timer' \in BOOLEAN,
           proto' \in {"start", "maint"}, UNCHANGED <<conf, civars, wanted>>,
           UNCHANGED <<dl, thread, stopnow, restartNow, sock, pending, tx, posted>>
    PROVE  IInv'
<1>1. Plain(TRUE, DownReport)
  BY ReportPosts DEF IInv, Plain, Moves, IsNext, GetThenPut, Is
<1>2. \A o, k : Is(Head(queue), o, k) <=> o = "dl" /\ k = kind
  BY DEF IsNext, Is
<1>3. TypedStates' /\ TypedFlags'
  BY Zenon DEF IInv, Typed, TypedStates, TypedFlags
<1>4. Status' /\ (Kept' => Moving')
  BY Zenon, <1>1, <1>2, PlainStep, ReportPosts, DlSide DEF IInv, Status, Kept
<1> QED
  BY Zenon, <1>1, <1>3, <1>4, PlainStep, DlSide DEF IInv, Typed, TypedQueue

(* The thread is joined.                                                    *)
LEMMA ExitStep ==
    ASSUME IInv, DlThreadExit, UNCHANGED <<conf, civars, wanted>> PROVE IInv'
<1>1. \A o, k : Is(Head(queue), o, k) <=> o = "dl" /\ k = "ThreadExit"
  BY DEF DlThreadExit, IsNext, Is
<1>2. Typed /\ Join /\ queue \in Seq(Items) /\ queue # <<>> /\ Tail(queue) \in Seq(Items)
  BY Sequences DEF IInv, Typed, TypedQueue, DlThreadExit, IsNext
<1> DEFINE Leaves(now, p) ==
        /\ queue' = Tail(queue) \o p
        /\ \A o, k : Has(p, o, k) <=> \/ isUp /\ o = "ci" /\ k = "Down"
                                      \/ now /\ o = "dl" /\ k = "Start"
        /\ \/ dl = "shutdown" /\ ~ now /\ dl' = "s0"
           \/ dl # "shutdown" /\ now /\ dl' = "s0"
           \/ dl # "shutdown" /\ ~ now /\ dl' = "reconnecting" /\ timer'
        /\ timer' \in BOOLEAN /\ restartNow' \in BOOLEAN /\ sock' = 0 /\ tx' = FALSE
        /\ pending' \in BOOLEAN /\ posted' = posted
<1> HIDE DEF Leaves
<1>14. \E now \in BOOLEAN, p \in Seq(Items) : Leaves(now, p)
  <2>1. CASE dl = "shutdown"
    <3>1. FALSE \in BOOLEAN /\ DownReport \in Seq(Items)
      BY <1>2, ReportPosts
    <3>2. queue' = Tail(queue) \o DownReport /\ dl' = "s0" /\ timer' = timer
          /\ restartNow' = restartNow /\ sock' = 0 /\ tx' = FALSE /\ posted' = posted
          /\ pending' = (pending /\ ~ Ddcmp)
      BY <2>1 DEF DlThreadExit, Disconnect, GetThenPut
    <3>3. timer' \in BOOLEAN /\ restartNow' \in BOOLEAN /\ pending' \in BOOLEAN
      BY <1>2, <3>2 DEF Typed, TypedFlags
    <3>4. \A o, k : Has(DownReport, o, k) <=> isUp /\ o = "ci" /\ k = "Down"
      BY <1>2, ReportPosts
    <3>5. Leaves(FALSE, DownReport)
      BY <2>1, <3>2, <3>3, <3>4 DEF Leaves
    <3> QED
      BY Zenon, <3>1, <3>5
  <2>2. CASE dl # "shutdown"
    <3>1. restartNow \in BOOLEAN /\ StartOver(restartNow, DownReport)
      BY <1>2, <2>2 DEF DlThreadExit, Typed, TypedFlags
    <3>2. PICK p \in Seq(Items) :
            /\ queue' = Tail(queue) \o p
            /\ \A o, k : Has(p, o, k) <=> \/ isUp /\ o = "ci" /\ k = "Down"
                                          \/ restartNow /\ o = "dl" /\ k = "Start"
      BY Zenon, <1>2, <3>1, OverPosts
    <3>3. /\ dl' = (IF restartNow THEN "s0" ELSE "reconnecting") /\ (~ restartNow => timer')
          /\ timer' \in BOOLEAN /\ restartNow' = FALSE /\ sock' = 0 /\ tx' = FALSE
          /\ pending' \in BOOLEAN /\ posted' = posted
      BY Zenon, <1>2, <3>1, OverPosts
    <3>4. Leaves(restartNow, p)
      BY Zenon, <2>2, <3>1, <3>2, <3>3 DEF Leaves
    <3> QED
      BY <3>1, <3>4
  <2> QED
    BY <2>1, <2>2
<1>15. PICK now \in BOOLEAN, p \in Seq(Items) : Leaves(now, p)
  BY <1>14
<1>3. /\ queue' = Tail(queue) \o p
      /\ \A o, k : Has(p, o, k) <=> \/ isUp /\ o = "ci" /\ k = "Down"
                                    \/ now /\ o = "dl" /\ k = "Start"
      /\ \/ dl = "shutdown" /\ ~ now /\ dl' = "s0"
         \/ dl # "shutdown" /\ now /\ dl' = "s0"
         \/ dl # "shutdown" /\ ~ now /\ dl' = "reconnecting" /\ timer'
      /\ timer' \in BOOLEAN /\ restartNow' \in BOOLEAN /\ sock' = 0 /\ tx' = FALSE
      /\ pending' \in BOOLEAN /\ posted' = posted
  BY <1>15 DEF Leaves
<1>4. /\ isUp' = FALSE /\ thread' = "none" /\ stopnow' = stopnow /\ proto' = proto
  BY DEF DlThreadExit
<1>5. TypedStates'
  <2>1. dl' \in {"s0", "reconnecting"}
    BY <1>3
  <2> QED
    BY <1>2, <1>3, <1>4, <2>1 DEF Typed, TypedStates
<1>6. TypedFlags'
  <2>1. stopnow' \in BOOLEAN /\ posted' \in BOOLEAN
    BY <1>2, <1>3, <1>4 DEF Typed, TypedFlags
  <2>2. isUp' \in BOOLEAN /\ tx' \in BOOLEAN
    BY Zenon, <1>3, <1>4
  <2> QED
    BY <1>3, <2>1, <2>2 DEF TypedFlags
<1>7. Once(Tail(queue), "dl", "ThreadExit") /\ ~ Has(Tail(queue), "dl", "ThreadExit")
  BY <1>1, <1>2, OnceTail DEF Join
<1>8. Moves(TRUE, p) /\ Rest(TRUE) = Tail(queue)
  BY <1>2, <1>3 DEF Moves, Rest
<1>9. /\ queue' \in Seq(Items)
      /\ \A o, k : /\ Has(queue, o, k) <=> (o = "dl" /\ k = "ThreadExit") \/ Has(Rest(TRUE), o, k)
                   /\ Has(queue', o, k) <=> \/ Has(Rest(TRUE), o, k)
                                            \/ isUp /\ o = "ci" /\ k = "Down"
                                            \/ now /\ o = "dl" /\ k = "Start"
  BY Zenon, <1>1, <1>2, <1>3, <1>8, QueueAfter
<1>10. Join'
  <2>1. ~ Has(p, "dl", "ThreadExit")
    BY <1>3
  <2>2. Once(queue', "dl", "ThreadExit")
    BY Zenon, <1>2, <1>3, <1>7, <2>1, OnceConcat
  <2>3. ~ Has(queue', "dl", "ThreadExit")
    BY Zenon, <1>7, <1>8, <1>9
  <2> QED
    BY <1>4, <2>2, <2>3 DEF Join
<1>11. Reports'
  <2>1. ~ Has(p, "ci", "Up") /\ (~ isUp' => ~ isUp \/ Has(p, "ci", "Down")) /\ Reports
    BY <1>3, <1>4 DEF IInv
  <2> QED
    BY Zenon, <1>2, <1>8, <2>1, ReportsKept
<1>12. Status'
  BY Zenon, <1>4, <1>9, DlSide DEF IInv, Status
<1>13. Kept' => Moving'
  BY Zenon, <1>3, <1>4, <1>9, DlSide DEF IInv, Moving, DlKinds
<1> QED
  BY <1>5, <1>6, <1>9, <1>10, <1>11, <1>12, <1>13, DlSide DEF IInv, Typed, TypedQueue

(* An item that is dropped, passed up, or asks for a reconnect.             *)
LEMMA QuietStep ==
    ASSUME IInv, NEW kind \in {"Start", "Connected", "Received", "Flush"}, IsNext("dl", kind),
           kind = "Start" => dl # "s0", NEW p \in Seq(Items), GetThenPut(p),
           \A o, k : Has(p, o, k) => (o = "ci" /\ k = "Received") \/ (o = "dl" /\ k = "Reconnect"),
           UNCHANGED <<conf, civars, wanted>>, UNCHANGED <<dl, thread, isUp>>,
           Kept => UNCHANGED timer, TypedStates', TypedFlags'
    PROVE  IInv'
<1>1. \A o, k : Is(Head(queue), o, k) <=> o = "dl" /\ k = kind
  BY DEF IsNext, Is
<1>2. kind \in DlKinds /\ kind # "ThreadExit" /\ kind # "Stop" /\ kind # "Restart"
  BY DEF DlKinds
<1>3. Plain(TRUE, p)
  BY <1>1, <1>2 DEF Plain, Moves, IsNext, GetThenPut
<1>4. \A o, k : /\ Has(queue, o, k) <=> (o = "dl" /\ k = kind) \/ Has(Rest(TRUE), o, k)
                /\ Has(queue', o, k) <=> Has(Rest(TRUE), o, k) \/ Has(p, o, k)
  BY Zenon, <1>1, <1>3, PlainStep
<1>5. Status'
  BY Zenon, <1>4, DlSide DEF IInv, Status
<1>6. ASSUME Kept' PROVE Moving'
  <2>1. /\ Moving /\ ci' = ci /\ dl' = dl /\ thread' = thread /\ isUp' = isUp
        /\ timer' = timer
    BY <1>6, DlSide DEF IInv
  <2>2. ci # "s0"
    BY Zenon, <1>2, <1>4, <2>1 DEF Moving
  <2>3. ~ Has(queue', "dl", "Stop") /\ ~ Has(queue', "ci", "CircuitStop")
    BY Zenon, <1>4, <2>1 DEF Moving
  <2>4. /\ Has(queue, "ci", "Up") => Has(queue', "ci", "Up")
        /\ Has(queue, "ci", "Down") => Has(queue', "ci", "Down")
        /\ Has(queue, "dl", "Restart") => Has(queue', "dl", "Restart")
        /\ dl = "s0" /\ Has(queue, "dl", "Start") => Has(queue', "dl", "Start")
    BY Zenon, <1>2, <1>4
  <2> QED
    BY <2>1, <2>2, <2>3, <2>4 DEF Moving
<1> QED
  BY Zenon, <1>3, <1>5, <1>6, PlainStep, DlSide DEF IInv, Typed, TypedQueue

(* s0 takes a Start: the thread is there from now on.                       *)
LEMMA OpenStep ==
    ASSUME IInv, NEW opened \in BOOLEAN, DlOpen(opened), UNCHANGED <<conf, civars, wanted>>
    PROVE  IInv'
<1>1. \A o, k : Is(Head(queue), o, k) <=> o = "dl" /\ k = "Start"
  BY DEF DlOpen, IsNext, Is
<1>2. Typed
  BY DEF IInv
<1>3. /\ dl' = "connecting" /\ isUp' = isUp /\ thread' # "none"
      /\ thread' = "exited" <=> thread = "exited"
  BY <1>2 DEF DlOpen, Joinable, Typed, TypedStates
<1>4. Plain(TRUE, <<>>)
  BY <1>1, <1>3, NoPosts DEF DlOpen, Plain, Moves, IsNext, GetThenPut
<1>5. \A o, k : /\ Has(queue, o, k) <=> (o = "dl" /\ k = "Start") \/ Has(Rest(TRUE), o, k)
                /\ Has(queue', o, k) <=> Has(Rest(TRUE), o, k)
  BY Zenon, <1>1, <1>4, PlainStep, NoPosts
<1>6. TypedStates'
  <2>1. sock' \in 0 .. 2
    BY <1>2 DEF DlOpen, Connect, FreshSocket, Typed, TypedStates
  <2>2. thread' \in {"none", "checking", "posting", "receiving", "exited"}
    BY <1>2 DEF DlOpen, Typed, TypedStates
  <2> QED
    BY <1>2, <1>3, <2>1, <2>2 DEF DlOpen, Typed, TypedStates
<1>7. TypedFlags'
  <2>1. stopnow' \in BOOLEAN
    BY <1>2 DEF DlOpen, Typed, TypedFlags
  <2>2. timer' \in BOOLEAN
    BY DEF DlOpen, Connect
  <2>3. pending' \in BOOLEAN
    BY <1>2 DEF DlOpen, Connect, Typed, TypedFlags
  <2> QED
    BY <1>2, <2>1, <2>2, <2>3 DEF DlOpen, Connect, Typed, TypedFlags
<1>8. Status'
  BY Zenon, <1>3, <1>5, DlSide DEF IInv, Status
<1>9. Kept' => Moving'
  BY Zenon, <1>3, <1>5, DlSide DEF IInv, Moving, DlKinds
<1> QED
  BY Zenon, <1>4, <1>6, <1>7, <1>8, <1>9, PlainStep, DlSide DEF IInv, Typed, TypedQueue

(* The datalink comes up: the circuit is told.                              *)
LEMMA UpStep ==
    ASSUME IInv, NEW kind \in {"Connected", "Received"}, IsNext("dl", kind),
           NEW p \in Seq(Items), GetThenPut(p),
           \A o, k : Has(p, o, k) => o = "ci" /\ k \in {"Up", "Received"},
           isUp' = TRUE, ~ isUp => Has(p, "ci", "Up"), dl' \in {dl, "running"},
           UNCHANGED <<conf, civars, wanted>>, UNCHANGED thread, Kept => UNCHANGED timer,
           TypedStates', TypedFlags'
    PROVE  IInv'
<1>1. \A o, k : Is(Head(queue), o, k) <=> o = "dl" /\ k = kind
  BY DEF IsNext, Is
<1>2. kind \in DlKinds /\ kind # "ThreadExit" /\ kind # "Restart" /\ kind # "Start"
  BY DEF DlKinds
<1>3. Typed /\ Join /\ Moves(TRUE, p) /\ ~ Has(p, "dl", "ThreadExit")
  BY DEF IInv, Moves, IsNext, GetThenPut
<1>4. Join'
  BY Zenon, <1>1, <1>2, <1>3, JoinKept
<1>5. Reports'
  BY DEF Reports
<1>6. /\ queue' \in Seq(Items)
      /\ \A o, k : /\ Has(queue, o, k) <=> (o = "dl" /\ k = kind) \/ Has(Rest(TRUE), o, k)
                   /\ Has(queue', o, k) <=> Has(Rest(TRUE), o, k) \/ Has(p, o, k)
  BY Zenon, <1>1, <1>3, QueueAfter
<1>7. Status'
  BY DEF Status
<1>8. Kept' => Moving'
  BY Zenon, <1>2, <1>6, DlSide DEF IInv, Moving
<1> QED
  BY <1>4, <1>5, <1>6, <1>7, <1>8, DlSide DEF IInv, Typed, TypedQueue

(* A packet passed up to the circuit.                                       *)
LEMMA ReceivedPost ==
    ASSUME Typed, NEW o1, NEW k1, IsNext(o1, k1)
    PROVE  /\ Data \in Seq(Items) /\ <<ToCircuit("Received", Arg)>> \in Seq(Items)
           /\ \A o, k : Has(Data, o, k) <=> o = "ci" /\ k = "Received"
           /\ \A o, k : Has(<<ToCircuit("Received", Arg)>>, o, k) <=> o = "ci" /\ k = "Received"
<1>1. Head(queue) \in Items
  BY Sequences DEF Typed, TypedQueue, IsNext
<1>2. Arg \in Args
  BY <1>1 DEF Arg, Items
<1>3. "Received" \in CiKinds
  BY DEF CiKinds
<1>4. /\ ToCircuit("Received", Arg) \in Items
      /\ \A o, k : Is(ToCircuit("Received", Arg), o, k) <=> o = "ci" /\ k = "Received"
  BY <1>2, <1>3, Posted
<1> QED
  BY <1>4, OnePost DEF Data

(* Connected: Multinet is up, DDCMP begins its handshake.                   *)
LEMMA ConnectedStep ==
    ASSUME IInv, DlConnected, UNCHANGED <<conf, civars, wanted>> PROVE IInv'
<1>1. Typed /\ IsNext("dl", "Connected")
  BY DEF IInv, DlConnected
<1>2. CASE dl = "connecting" /\ ~ Ddcmp
  <2>1. /\ dl' = "running" /\ isUp' = TRUE /\ timer' = timer /\ proto' = proto
        /\ thread' = thread /\ GetThenPut(UpReport)
        /\ UNCHANGED <<stopnow, restartNow, sock, pending, tx, posted>>
    BY <1>2 DEF DlConnected
  <2>2. TypedStates'
    BY <1>1, <2>1 DEF Typed, TypedStates
  <2>3. TypedFlags'
    BY <1>1, <2>1 DEF Typed, TypedFlags
  <2>4. /\ UpReport \in Seq(Items) /\ (~ isUp => Has(UpReport, "ci", "Up"))
        /\ \A o, k : Has(UpReport, o, k) => o = "ci" /\ k \in {"Up", "Received"}
    BY <1>1, ReportPosts
  <2> QED
    BY <1>1, <2>1, <2>2, <2>3, <2>4, UpStep
<1>3. CASE dl = "connecting" /\ Ddcmp
  <2>1. /\ dl' = "running" /\ isUp' = isUp /\ timer' = TRUE /\ proto' = "start"
        /\ thread' = thread /\ GetThenPut(<<>>)
        /\ UNCHANGED <<stopnow, restartNow, sock, pending, tx, posted>>
    BY <1>3 DEF DlConnected
  <2>2. TypedStates'
    BY <1>1, <2>1 DEF Typed, TypedStates
  <2>3. TypedFlags'
    <3>1. timer' \in BOOLEAN
      BY <2>1
    <3> QED
      BY <1>1, <2>1, <3>1 DEF Typed, TypedFlags
  <2>4. \A o, k : Is(Head(queue), o, k) <=> o = "dl" /\ k = "Connected"
    BY <1>1 DEF IsNext, Is
  <2>5. Plain(TRUE, <<>>)
    BY <1>1, <2>1, <2>4, NoPosts DEF Plain, Moves, IsNext, GetThenPut
  <2>8. \A o, k : /\ Has(queue, o, k) <=> (o = "dl" /\ k = "Connected") \/ Has(Rest(TRUE), o, k)
                  /\ Has(queue', o, k) <=> Has(Rest(TRUE), o, k)
    BY Zenon, <2>4, <2>5, PlainStep, NoPosts
  <2>6. Status'
    BY Zenon, <2>1, <2>8, DlSide DEF IInv, Status
  <2>7. ~ Kept'
    BY <1>3, DlSide DEF Kept
  <2> QED
    BY Zenon, <2>2, <2>3, <2>5, <2>6, <2>7, PlainStep, DlSide DEF IInv, Typed, TypedQueue
<1>4. CASE dl # "connecting"
  <2>1. /\ GetThenPut(<<>>) /\ UNCHANGED timer /\ UNCHANGED <<dl, thread, isUp>>
        /\ UNCHANGED <<proto, stopnow, restartNow, sock, pending, tx, posted>>
    BY <1>4 DEF DlConnected
  <2>2. TypedStates'
    BY <1>1, <2>1 DEF Typed, TypedStates
  <2>3. TypedFlags'
    BY <1>1, <2>1 DEF Typed, TypedFlags
  <2> QED
    BY Zenon, <1>1, <2>1, <2>2, <2>3, QuietStep, NoPosts
<1> QED
  BY <1>2, <1>3, <1>4

(* A handler that leaves the datalink as it is.                             *)
LEMMA UnchangedStep ==
    ASSUME IInv, UNCHANGED dlvars
    PROVE  /\ UNCHANGED <<dl, thread, isUp>> /\ UNCHANGED timer
           /\ TypedStates' /\ TypedFlags'
  BY DEF IInv, Typed, TypedStates, TypedFlags, dlvars

(* A Start, acted on or ignored.                                            *)
LEMMA StartStep ==
    ASSUME IInv, DlStart, UNCHANGED <<conf, civars, wanted>> PROVE IInv'
<1>1. CASE \E opened \in BOOLEAN : DlOpen(opened)
  BY <1>1, OpenStep
<1>2. CASE IsNext("dl", "Start") /\ dl # "s0" /\ GetThenPut(<<>>) /\ UNCHANGED dlvars
  BY Zenon, <1>2, UnchangedStep, QuietStep, NoPosts
<1> QED
  BY <1>1, <1>2 DEF DlStart

(* A frame passed up or dropped.                                            *)
LEMMA ForwardStep ==
    ASSUME IInv, DlForward \/ DlDrop, UNCHANGED <<conf, civars, wanted>> PROVE IInv'
<1>1. Typed /\ IsNext("dl", "Received") /\ UNCHANGED dlvars
  BY DEF IInv, DlForward, DlDrop
<1>2. CASE DlForward
  BY Zenon, <1>1, <1>2, UnchangedStep, QuietStep, ReceivedPost DEF DlForward
<1>3. CASE DlDrop
  BY Zenon, <1>1, <1>3, UnchangedStep, QuietStep, NoPosts DEF DlDrop
<1> QED
  BY <1>2, <1>3

(* flush_posted, with or without an error.                                  *)
LEMMA FlushStep ==
    ASSUME IInv, DlFlush, UNCHANGED <<conf, civars, wanted>> PROVE IInv'
<1>1. Typed /\ IsNext("dl", "Flush")
  BY DEF IInv, DlFlush
<1>2. /\ UNCHANGED <<dl, thread, isUp>> /\ UNCHANGED timer /\ TypedStates'
  BY <1>1 DEF DlFlush, Typed, TypedStates
<1>3. TypedFlags'
  <2>1. posted' \in BOOLEAN /\ tx' \in BOOLEAN
    BY Zenon, <1>1 DEF DlFlush, Typed, TypedFlags
  <2> QED
    BY <1>1, <2>1 DEF DlFlush, Typed, TypedFlags
<1>4. /\ ToDl("Reconnect", "later") \in Items
      /\ \A o, k : Is(ToDl("Reconnect", "later"), o, k) <=> o = "dl" /\ k = "Reconnect"
  BY Zenon, Posted DEF Args, DlKinds
<1>5. CASE GetThenPut(<<>>)
  BY Zenon, <1>1, <1>2, <1>3, <1>5, QuietStep, NoPosts
<1>6. CASE GetThenPut(<<ToDl("Reconnect", "later")>>)
  BY Zenon, <1>1, <1>2, <1>3, <1>4, <1>6, QuietStep, OnePost
<1> QED
  BY Zenon, <1>5, <1>6 DEF DlFlush

(* The engine completes its handshake or takes data.                        *)
LEMMA EngineStep ==
    ASSUME IInv, ProtoUp \/ ProtoRun, UNCHANGED <<conf, civars, wanted>> PROVE IInv'
<1>1. Typed /\ IsNext("dl", "Received")
  BY Zenon DEF IInv, ProtoUp, ProtoRun
<1>2. PICK up \in BOOLEAN, set \in BOOLEAN, posts \in {<<>>, Data} :
        \/ ProtoReceive("run", up, set, UpReport \o posts) /\ up
        \/ ProtoReceive("run", up, set, posts) /\ up = isUp
  BY Zenon, <1>1 DEF ProtoUp, ProtoRun, Typed, TypedFlags
<1>3. /\ Ddcmp /\ proto' = "run" /\ timer' \in BOOLEAN /\ isUp' = up
      /\ UNCHANGED <<dl, thread, stopnow, restartNow, sock, pending, tx, posted>>
  BY <1>2 DEF ProtoReceive
<1>4. ~ Kept
  BY <1>3 DEF Kept
<1>5. TypedStates'
  BY <1>1, <1>3 DEF Typed, TypedStates
<1>6. TypedFlags'
  <2>1. isUp' \in BOOLEAN
    BY <1>2, <1>3
  <2> QED
    BY <1>1, <1>3, <2>1 DEF Typed, TypedFlags
<1>7. posts \in Seq(Items) /\ \A o, k : Has(posts, o, k) => o = "ci" /\ k = "Received"
  BY Zenon, <1>1, <1>2, ReceivedPost, NoPosts
<1>8. CASE ProtoReceive("run", up, set, UpReport \o posts) /\ up
  <2>1. /\ UpReport \in Seq(Items)
        /\ \A o, k : Has(UpReport, o, k) <=> ~ isUp /\ o = "ci" /\ k = "Up"
    BY <1>1, ReportPosts
  <2>2. UpReport \o posts \in Seq(Items)
    BY <1>7, <2>1, Sequences
  <2>3. \A o, k : Has(UpReport \o posts, o, k) <=> Has(UpReport, o, k) \/ Has(posts, o, k)
    BY <1>7, <2>1, HasConcat
  <2>4. /\ ~ isUp => Has(UpReport \o posts, "ci", "Up")
        /\ \A o, k : Has(UpReport \o posts, o, k) => o = "ci" /\ k \in {"Up", "Received"}
    BY <1>7, <2>1, <2>3
  <2>5. GetThenPut(UpReport \o posts) /\ isUp' = TRUE /\ dl' = dl /\ thread' = thread
    BY <1>2, <1>3, <1>8 DEF ProtoReceive
  <2> QED
    BY Zenon, <1>1, <1>4, <1>5, <1>6, <2>2, <2>4, <2>5, UpStep
<1>9. CASE ProtoReceive("run", up, set, posts) /\ up = isUp
  <2>1. GetThenPut(posts) /\ UNCHANGED <<dl, thread, isUp>>
    BY <1>3, <1>9 DEF ProtoReceive
  <2> QED
    BY <1>1, <1>4, <1>5, <1>6, <1>7, <2>1, QuietStep
<1> QED
  BY <1>2, <1>8, <1>9

(* Every handler of the datalink on the node thread.                        *)
LEMMA DlNodeStep ==
    ASSUME IInv, DlNodeThread, UNCHANGED <<conf, civars, wanted>> PROVE IInv'
<1>1. CASE DlReconnect
  <2>1. (Arg = "now") \in BOOLEAN
    OBVIOUS
  <2> QED
    BY Zenon, <1>1, <2>1, ReconnectStep DEF DlReconnect
<1>2. CASE DlRestart
  BY Zenon, <1>2, ReconnectStep DEF DlRestart
<1>3. CASE ProtoRestart
  BY Zenon, <1>3, ProtoDownStep DEF ProtoRestart
<1>4. CASE ProtoStart \/ ProtoMaint
  BY Zenon, <1>4, ProtoDownStep DEF ProtoStart, ProtoMaint, ProtoReceive
<1> QED
  BY <1>1, <1>2, <1>3, <1>4, StopStep, ExitStep, StartStep, ConnectedStep, ForwardStep,
     FlushStep, EngineStep DEF DlNodeThread

-----------------------------------------------------------------------------
(* The timer of the datalink and its receive thread: they take nothing off  *)
(* the queue.                                                               *)
(* Only posts.                                                              *)
Puts(p) == p \in Seq(Items) /\ queue' = queue \o p

(* What a step that only posts keeps of the facts about the queue.          *)
LEMMA PutsStep ==
    ASSUME IInv, NEW p, Puts(p)
    PROVE  /\ queue' \in Seq(Items)
           /\ \A o, k : Has(queue', o, k) <=> Has(queue, o, k) \/ Has(p, o, k)
           /\ ~ Has(p, "dl", "ThreadExit") /\ (thread' = "exited" <=> thread = "exited") => Join'
           /\ ~ Has(p, "ci", "Up") /\ (~ isUp' => ~ isUp \/ Has(p, "ci", "Down")) => Reports'
<1>1. queue \in Seq(Items) /\ p \in Seq(Items) /\ queue' = queue \o p
  BY DEF IInv, Typed, TypedQueue, Puts
<1>2. queue' \in Seq(Items) /\ \A o, k : Has(queue', o, k) <=> Has(queue, o, k) \/ Has(p, o, k)
  BY <1>1, HasConcat, Sequences
<1>3. ASSUME ~ Has(p, "dl", "ThreadExit"), thread' = "exited" <=> thread = "exited" PROVE Join'
  BY <1>1, <1>2, <1>3, OnceConcat DEF IInv, Join
<1>4. ASSUME ~ Has(p, "ci", "Up"), ~ isUp' => ~ isUp \/ Has(p, "ci", "Down") PROVE Reports'
  <2>1. CASE isUp'
    BY <2>1 DEF Reports
  <2>2. CASE ~ isUp
    BY <1>1, <1>4, <2>2, FollowedConcat DEF IInv, Reports
  <2>3. CASE Has(p, "ci", "Down")
    BY <1>1, <1>4, <2>3, FollowedBy DEF Reports
  <2> QED
    BY <1>4, <2>1, <2>2, <2>3
<1> QED
  BY <1>2, <1>3, <1>4

(* A step that leaves the queue alone posts nothing.                        *)
LEMMA UnmovedQueue ==
    ASSUME Typed, UNCHANGED queue PROVE Puts(<<>>)
  BY Sequences, NoPosts DEF Puts, Typed, TypedQueue

(* A step that posts what no one waits for, and leaves a thread that runs.  *)
LEMMA PostStep ==
    ASSUME IInv, NEW p, Puts(p), UNCHANGED <<conf, civars, wanted>>,
           \A o, k : Has(p, o, k) => o = "dl" /\ k \in {"Connected", "Received", "Reconnect"},
           dl' = dl, isUp' = isUp, timer' = timer \/ ~ Kept \/ (timer /\ dl # "reconnecting"),
           thread' = "exited" <=> thread = "exited", thread' = "none" <=> thread = "none",
           thread # "none" \/ timer, TypedStates', TypedFlags'
    PROVE  IInv'
<1>1. ~ Has(p, "dl", "ThreadExit") /\ ~ Has(p, "ci", "Up")
  OBVIOUS
<1>2. /\ Join' /\ Reports' /\ queue' \in Seq(Items)
      /\ \A o, k : Has(queue', o, k) <=> Has(queue, o, k) \/ Has(p, o, k)
  BY <1>1, PutsStep
<1>3. Status'
  BY <1>2, DlSide DEF IInv, Status
<1>4. ASSUME Kept' PROVE Moving'
  <2>1. /\ Kept /\ Moving /\ ci' = ci
    BY <1>4, DlSide DEF IInv
  <2>2. ci # "s0"
    BY <2>1 DEF Moving
  <2>3. ~ Has(queue', "dl", "Stop") /\ ~ Has(queue', "ci", "CircuitStop")
    BY <1>2, <2>1 DEF Moving
  <2>4. /\ Has(queue, "ci", "Up") => Has(queue', "ci", "Up")
        /\ Has(queue, "ci", "Down") => Has(queue', "ci", "Down")
        /\ Has(queue, "dl", "Restart") => Has(queue', "dl", "Restart")
        /\ Has(queue, "dl", "Start") => Has(queue', "dl", "Start")
    BY <1>2
  <2> QED
    BY <2>1, <2>2, <2>3, <2>4 DEF Moving
<1> QED
  BY <1>2, <1>3, <1>4, DlSide DEF IInv, Typed, TypedQueue

(* An expiry, for the state machine or for the DDCMP engine.                *)
LEMMA DlTimerStep ==
    ASSUME IInv, DlTimer, UNCHANGED <<conf, civars, wanted>> PROVE IInv'
<1>1. Typed
  BY DEF IInv
<1>2. CASE ProtoTimeout
  <2>1. /\ timer /\ Ddcmp /\ timer' \in BOOLEAN /\ UNCHANGED queue
        /\ UNCHANGED <<dl, thread, stopnow, isUp, restartNow, sock, pending, tx, posted, proto>>
    BY <1>2 DEF ProtoTimeout
  <2>2. TypedStates'
    BY <1>1, <2>1 DEF Typed, TypedStates
  <2>3. TypedFlags'
    BY <1>1, <2>1 DEF Typed, TypedFlags
  <2>4. ~ Kept
    BY <2>1 DEF Kept
  <2> QED
    BY Zenon, <1>1, <2>1, <2>2, <2>3, <2>4, UnmovedQueue, PostStep, NoPosts
<1>3. CASE DlTimeout
  <2>1. /\ timer /\ timer' = FALSE
        /\ UNCHANGED <<thread, stopnow, isUp, restartNow, sock, pending, tx, posted, proto>>
        /\ dl' = (IF dl = "reconnecting" THEN "s0" ELSE dl)
    BY Zenon, <1>3 DEF DlTimeout
  <2>2. TypedStates'
    <3>1. dl' \in {"s0", "connecting", "running", "reconnecting", "shutdown"}
      BY <1>1, <2>1 DEF Typed, TypedStates
    <3> QED
      BY <1>1, <2>1, <3>1 DEF Typed, TypedStates
  <2>3. TypedFlags'
    <3>1. timer' \in BOOLEAN
      BY Zenon, <2>1
    <3> QED
      BY <1>1, <2>1, <3>1 DEF Typed, TypedFlags
  <2>4. CASE dl = "connecting"
    <3>1. /\ ToDl("Reconnect", "now") \in Items
          /\ \A o, k : Is(ToDl("Reconnect", "now"), o, k) <=> o = "dl" /\ k = "Reconnect"
      BY Zenon, Posted DEF Args, DlKinds
    <3>2. Puts(<<ToDl("Reconnect", "now")>>)
      BY <1>3, <2>4, <3>1, OnePost DEF DlTimeout, PutAll, Puts
    <3>3. dl' = dl /\ isUp' = isUp /\ thread' = thread
      BY <2>1, <2>4
    <3> QED
      BY <2>1, <2>2, <2>3, <2>4, <3>1, <3>2, <3>3, PostStep, OnePost
  <2>5. CASE dl \notin {"connecting", "reconnecting"}
    <3>1. Puts(<<>>)
      BY Zenon, <1>1, <1>3, <2>5, UnmovedQueue DEF DlTimeout
    <3>2. dl' = dl /\ isUp' = isUp /\ thread' = thread /\ dl # "reconnecting"
      BY <2>1, <2>5
    <3> QED
      BY Zenon, <2>1, <2>2, <2>3, <3>1, <3>2, PostStep, NoPosts
  <2>6. CASE dl = "reconnecting"
    <3>1. /\ ToDl("Start", "") \in Items
          /\ \A o, k : Is(ToDl("Start", ""), o, k) <=> o = "dl" /\ k = "Start"
      BY Zenon, Posted DEF Args, DlKinds
    <3>2. Puts(<<ToDl("Start", "")>>)
      BY Zenon, <1>3, <2>6, <3>1, OnePost DEF DlTimeout, PutAll, Puts
    <3> DEFINE p == <<ToDl("Start", "")>>
    <3>7. Puts(p) /\ \A o, k : Has(p, o, k) <=> o = "dl" /\ k = "Start"
      BY Zenon, <3>1, <3>2, OnePost
    <3> HIDE DEF p
    <3>8. /\ ~ Has(p, "dl", "ThreadExit") /\ ~ Has(p, "ci", "Up")
          /\ thread' = thread /\ isUp' = isUp
      BY <2>1, <3>7
    <3>3. /\ Join' /\ Reports' /\ queue' \in Seq(Items)
          /\ \A o, k : Has(queue', o, k) <=> Has(queue, o, k) \/ (o = "dl" /\ k = "Start")
      BY <3>7, <3>8, PutsStep
    <3>4. dl' = "s0" /\ isUp' = isUp /\ thread' = thread
      BY <2>1, <2>6
    <3>5. Status'
      BY <3>3, <3>4, DlSide DEF IInv, Status
    <3>6. Kept' => Moving'
      BY <2>1, <3>3, <3>4, DlSide DEF IInv, Moving
    <3> QED
      BY <2>2, <2>3, <3>3, <3>5, <3>6, DlSide DEF IInv, Typed, TypedQueue
  <2> QED
    BY <2>4, <2>5, <2>6
<1> QED
  BY <1>2, <1>3 DEF DlTimer

(* The thread ends, and its ThreadExit is the only one.                     *)
LEMMA FinishStep ==
    ASSUME IInv, thread \in {"checking", "receiving"}, ThreadFinish,
           UNCHANGED <<conf, civars, wanted>>
    PROVE  IInv'
<1>1. Typed /\ Join /\ Reports /\ queue \in Seq(Items)
  BY DEF IInv, Typed, TypedQueue
<1>2. /\ ToDl("ThreadExit", "") \in Items
      /\ \A o, k : Is(ToDl("ThreadExit", ""), o, k) <=> o = "dl" /\ k = "ThreadExit"
  BY Zenon, Posted DEF Args, DlKinds
<1> DEFINE p == <<ToDl("ThreadExit", "")>>
<1>3. p \in Seq(Items) /\ \A o, k : Has(p, o, k) <=> o = "dl" /\ k = "ThreadExit"
  BY Zenon, <1>2, OnePost
<1>4. queue' = queue \o p /\ Puts(p)
  BY Zenon, <1>1, <1>2, <1>3, Sequences DEF ThreadFinish, Put, Puts
<1> HIDE DEF p
<1>5. /\ queue' \in Seq(Items)
      /\ \A o, k : Has(queue', o, k) <=> Has(queue, o, k) \/ (o = "dl" /\ k = "ThreadExit")
  BY <1>3, <1>4, PutsStep
<1>6. /\ thread' = "exited" /\ dl' = dl /\ isUp' = isUp /\ timer' = timer
      /\ UNCHANGED <<stopnow, restartNow, sock, pending, tx, posted, proto>>
  BY Zenon DEF ThreadFinish
<1>7. ~ Has(queue, "dl", "ThreadExit")
  BY <1>1 DEF Join
<1>8. Join'
  <2>1. Once(queue', "dl", "ThreadExit")
    BY Zenon, <1>1, <1>2, <1>4, <1>7, OnceLast DEF p
  <2> QED
    BY <1>5, <1>6, <2>1 DEF Join
<1>9. Reports'
  BY <1>3, <1>4, <1>6, PutsStep
<1>10. TypedStates'
  BY <1>1, <1>6 DEF Typed, TypedStates
<1>11. TypedFlags'
  BY <1>1, <1>6 DEF Typed, TypedFlags
<1>12. Status'
  BY <1>5, <1>6, DlSide DEF IInv, Status
<1>13. Kept' => Moving'
  BY <1>5, <1>6, DlSide DEF IInv, Moving
<1> QED
  BY <1>5, <1>8, <1>9, <1>10, <1>11, <1>12, <1>13, DlSide DEF IInv, Typed, TypedQueue

(* Every step of the receive thread.                                        *)
LEMMA ThreadStep ==
    ASSUME IInv, ReceiveThread, UNCHANGED <<conf, civars, wanted>> PROVE IInv'
<1>1. Typed /\ conf \in Confs /\ queue \in Seq(Items)
  BY DEF IInv, Typed, TypedQueue
<1>2. CASE CheckOk
  <2>1. /\ thread = "checking" /\ thread' = "posting" /\ UNCHANGED queue
        /\ UNCHANGED <<dl, stopnow, isUp, restartNow, timer, tx, posted, proto>>
    BY <1>2 DEF CheckOk
  <2>2. sock' \in 0 .. 2
    BY <1>1, <1>2 DEF CheckOk, FreshSocket, Typed, TypedStates
  <2>5. pending' \in BOOLEAN
    BY Zenon, <1>1, <1>2 DEF CheckOk, Typed, TypedFlags
  <2>3. TypedStates'
    BY <1>1, <2>1, <2>2 DEF Typed, TypedStates
  <2>4. TypedFlags'
    BY <1>1, <2>1, <2>5 DEF Typed, TypedFlags
  <2> QED
    BY <1>1, <2>1, <2>3, <2>4, UnmovedQueue, PostStep, NoPosts
<1>3. CASE PostConnected
  <2>1. /\ thread = "posting" /\ thread' = "receiving" /\ Put(ToDl("Connected", ""))
        /\ UNCHANGED <<dl, stopnow, isUp, restartNow, timer, sock, pending, tx, posted, proto>>
    BY Zenon, <1>3 DEF PostConnected
  <2>2. /\ ToDl("Connected", "") \in Items
        /\ \A o, k : Is(ToDl("Connected", ""), o, k) <=> o = "dl" /\ k = "Connected"
    BY Zenon, Posted DEF Args, DlKinds
  <2>3. Puts(<<ToDl("Connected", "")>>)
    BY Zenon, <1>1, <2>1, <2>2, Sequences DEF Put, Puts
  <2>4. TypedStates'
    BY Zenon, <1>1, <2>1 DEF Typed, TypedStates
  <2>5. TypedFlags'
    BY Zenon, <1>1, <2>1 DEF Typed, TypedFlags
  <2> QED
    BY Zenon, <2>1, <2>2, <2>3, <2>4, <2>5, PostStep, OnePost
<1>4. CASE \E r \in Packets : Receive(r)
  <2>1. PICK r \in Packets : Receive(r)
    BY <1>4
  <2>2. r \in Args
    BY Zenon, <1>1, ConfAssumption DEF Packets, Args
  <2>3. /\ ToDl("Received", r) \in Items
        /\ \A o, k : Is(ToDl("Received", r), o, k) <=> o = "dl" /\ k = "Received"
    BY <2>2, Posted DEF DlKinds
  <2>4. Puts(<<ToDl("Received", r)>>)
    BY <1>1, <2>1, <2>3, Sequences DEF Receive, Put, Puts
  <2>5. thread = "receiving" /\ UNCHANGED dlvars
    BY <2>1 DEF Receive
  <2> QED
    BY <2>3, <2>4, <2>5, UnchangedStep, PostStep, OnePost
<1>5. CASE ConnectionFails \/ ThreadStops
  BY <1>5, FinishStep DEF ConnectionFails, ThreadStops
<1> QED
  BY <1>2, <1>3, <1>4, <1>5 DEF ReceiveThread

-----------------------------------------------------------------------------
(* The handlers of the circuit.                                             *)
LEMMA CircuitSame ==
    ASSUME IInv, UNCHANGED civars, UNCHANGED wanted
    PROVE  ci' = ci /\ TypedCircuit' /\ AdjacencyMatches' /\ HaltedIsQuiet'
  BY DEF IInv, Typed, TypedCircuit, civars, AdjacencyMatches, HaltedIsQuiet

(* What the frames that a handler sends leave behind.                       *)
LEMMA SendPosts ==
    ASSUME IInv, NEW rest \in Seq(Items), SendFrame(rest)
    PROVE  /\ \E p \in Seq(Items) :
                /\ queue' = rest \o p
                /\ \A o, k : Has(p, o, k) => o = "dl" /\ k \in {"Flush", "Reconnect"}
           /\ dl' = dl /\ thread' = thread /\ isUp' = isUp /\ (timer => timer')
           /\ TypedStates' /\ TypedFlags'
<1>1. Typed
  BY DEF IInv
<1>2. /\ UNCHANGED <<dl, thread, stopnow, isUp, restartNow, sock, pending, proto>>
      /\ timer' = (timer \/ proto = "run")
  BY Zenon DEF SendFrame
<1>3. TypedStates'
  BY <1>1, <1>2 DEF Typed, TypedStates
<1>4. TypedFlags'
  <2>1. tx' \in BOOLEAN /\ posted' \in BOOLEAN
    <3>1. tx \in BOOLEAN /\ posted \in BOOLEAN
      BY <1>1 DEF Typed, TypedFlags
    <3> QED
      BY Zenon, <3>1 DEF SendFrame
  <2>2. timer' \in BOOLEAN
    BY <1>2
  <2> QED
    BY <1>1, <1>2, <2>1, <2>2 DEF Typed, TypedFlags
<1>5. /\ ToDl("Flush", "") \in Items /\ ToDl("Reconnect", "later") \in Items
      /\ \A o, k : Is(ToDl("Flush", ""), o, k) => o = "dl" /\ k = "Flush"
      /\ \A o, k : Is(ToDl("Reconnect", "later"), o, k) => o = "dl" /\ k = "Reconnect"
  <2>1. "Flush" \in DlKinds /\ "Reconnect" \in DlKinds /\ "" \in Args /\ "later" \in Args
    BY DEF Args, DlKinds
  <2> QED
    BY Zenon, <2>1, Posted
<1> DEFINE Sent(p) == /\ queue' = rest \o p
                      /\ \A o, k : Has(p, o, k) => o = "dl" /\ k \in {"Flush", "Reconnect"}
<1>6. \E p \in Seq(Items) : Sent(p)
  <2>1. CASE queue' = rest
    <3>1. Sent(<<>>) /\ <<>> \in Seq(Items)
      BY <2>1, NoPosts, Sequences
    <3> QED
      BY Zenon, <3>1
  <2>2. CASE queue' = Append(rest, ToDl("Flush", ""))
    <3>1. Sent(<<ToDl("Flush", "")>>) /\ <<ToDl("Flush", "")>> \in Seq(Items)
      BY Zenon, <1>5, <2>2, OnePost, Sequences
    <3> HIDE DEF Sent
    <3> QED
      BY Zenon, <3>1
  <2>3. CASE queue' = Append(rest, ToDl("Reconnect", "later"))
    <3>1. /\ Sent(<<ToDl("Reconnect", "later")>>)
          /\ <<ToDl("Reconnect", "later")>> \in Seq(Items)
      BY Zenon, <1>5, <2>3, OnePost, Sequences
    <3> HIDE DEF Sent
    <3> QED
      BY Zenon, <3>1
  <2> QED
    BY Zenon, <2>1, <2>2, <2>3 DEF SendFrame
<1> QED
  BY Zenon, <1>2, <1>3, <1>4, <1>6

(* An item that the circuit ignores.                                        *)
LEMMA IgnoreStep ==
    ASSUME IInv, NEW kind \in CiKinds, IsNext("ci", kind), Ignore, UNCHANGED <<conf, wanted>>,
           kind = "Down" => ci = "s0", kind = "Up" => ci # "ds"
    PROVE  IInv'
<1>1. \A o, k : Is(Head(queue), o, k) <=> o = "ci" /\ k = kind
  BY DEF IsNext, Is
<1>2. /\ GetThenPut(<<>>) /\ UNCHANGED civars /\ UNCHANGED dlvars
      /\ UNCHANGED conf /\ UNCHANGED wanted
  BY DEF Ignore
<1>3. /\ dl' = dl /\ thread' = thread /\ isUp' = isUp /\ timer' = timer
      /\ (Kept' <=> Kept) /\ conf' \in Confs /\ TypedStates' /\ TypedFlags'
  BY <1>2, CiSide
<1>4. ci' = ci /\ TypedCircuit' /\ AdjacencyMatches' /\ HaltedIsQuiet'
  BY <1>2, CircuitSame
<1>5. Plain(TRUE, <<>>)
  BY <1>1, <1>2, <1>3, NoPosts DEF Plain, Moves, IsNext, GetThenPut
<1>6. \A o, k : /\ Has(queue, o, k) <=> (o = "ci" /\ k = kind) \/ Has(Rest(TRUE), o, k)
                /\ Has(queue', o, k) <=> Has(Rest(TRUE), o, k)
  BY Zenon, <1>1, <1>5, PlainStep, NoPosts
<1>7. Status'
  BY Zenon, <1>3, <1>4, <1>6 DEF IInv, Status
<1>8. Kept' => Moving'
  BY Zenon, <1>3, <1>4, <1>6 DEF IInv, Moving
<1> QED
  BY Zenon, <1>3, <1>4, <1>5, <1>7, <1>8, PlainStep DEF IInv, Typed, TypedQueue

(* What restart () makes of the circuit.                                    *)
LEMMA RestartedSide ==
    ASSUME IInv, Restarted, UNCHANGED <<conf, wanted>>, UNCHANGED dlvars
    PROVE  /\ ci' = "ds" /\ TypedCircuit' /\ AdjacencyMatches' /\ HaltedIsQuiet'
           /\ dl' = dl /\ thread' = thread /\ isUp' = isUp /\ timer' = timer
           /\ (Kept' <=> Kept) /\ conf' \in Confs /\ TypedStates' /\ TypedFlags'
<1>1. UNCHANGED conf /\ wanted' = wanted
  OBVIOUS
<1>2. ci' = "ds" /\ adj' = "none" /\ citimer' = FALSE
  BY DEF Restarted
<1>3. TypedCircuit'
  BY Zenon, <1>1, <1>2 DEF IInv, Typed, TypedCircuit
<1>4. AdjacencyMatches' /\ HaltedIsQuiet'
  BY <1>2 DEF AdjacencyMatches, HaltedIsQuiet
<1> QED
  BY <1>1, <1>2, <1>3, <1>4, CiSide

(* restart () asks the datalink to restart.                                 *)
LEMMA RestartPost ==
    /\ RestartPosts \in Seq(Items)
    /\ \A o, k : Has(RestartPosts, o, k) <=> o = "dl" /\ k = "Restart"
<1>1. /\ ToDl("Restart", "") \in Items
      /\ \A o, k : Is(ToDl("Restart", ""), o, k) <=> o = "dl" /\ k = "Restart"
  BY Zenon, Posted DEF Args, DlKinds
<1> QED
  BY Zenon, <1>1, OnePost DEF RestartPosts

(* A down report or a packet that makes the circuit start over.             *)
LEMMA RestartStep ==
    ASSUME IInv, NEW kind \in {"Down", "Received"}, IsNext("ci", kind), ci # "s0",
           RestartCircuit, UNCHANGED <<conf, wanted>>
    PROVE  IInv'
<1>1. \A o, k : Is(Head(queue), o, k) <=> o = "ci" /\ k = kind
  BY DEF IsNext, Is
<1>2. Restarted /\ GetThenPut(RestartPosts) /\ UNCHANGED dlvars
  BY DEF RestartCircuit
<1>3. /\ ci' = "ds" /\ TypedCircuit' /\ AdjacencyMatches' /\ HaltedIsQuiet'
      /\ dl' = dl /\ thread' = thread /\ isUp' = isUp /\ timer' = timer
      /\ (Kept' <=> Kept) /\ conf' \in Confs /\ TypedStates' /\ TypedFlags'
  BY <1>2, RestartedSide
<1>4. Plain(TRUE, RestartPosts)
  BY <1>1, <1>2, <1>3, RestartPost DEF Plain, Moves, IsNext, GetThenPut
<1>5. \A o, k : /\ Has(queue, o, k) <=> (o = "ci" /\ k = kind) \/ Has(Rest(TRUE), o, k)
                /\ Has(queue', o, k) <=> Has(Rest(TRUE), o, k) \/ (o = "dl" /\ k = "Restart")
  BY Zenon, <1>1, <1>4, PlainStep, RestartPost
<1>6. Status'
  BY <1>3 DEF Status
<1>7. Kept' => Moving'
  BY Zenon, <1>3, <1>5 DEF IInv, Moving
<1> QED
  BY Zenon, <1>3, <1>4, <1>6, <1>7, PlainStep DEF IInv, Typed, TypedQueue

(* The timer of the circuit and the listen timer of the adjacency.          *)
LEMMA CiTimerStep ==
    ASSUME IInv, CiTimers, UNCHANGED <<conf, wanted>> PROVE IInv'
<1>1. Typed /\ queue \in Seq(Items) /\ HaltedIsQuiet /\ AdjacencyMatches
  BY DEF IInv, Typed, TypedQueue
<1>2. ASSUME Restarted, PutAll(RestartPosts), UNCHANGED dlvars, ci # "s0" PROVE IInv'
  <2>1. /\ ci' = "ds" /\ TypedCircuit' /\ AdjacencyMatches' /\ HaltedIsQuiet'
        /\ dl' = dl /\ thread' = thread /\ isUp' = isUp /\ timer' = timer
        /\ (Kept' <=> Kept) /\ conf' \in Confs /\ TypedStates' /\ TypedFlags'
    BY <1>2, RestartedSide
  <2>2. /\ Puts(RestartPosts) /\ ~ Has(RestartPosts, "dl", "ThreadExit")
        /\ ~ Has(RestartPosts, "ci", "Up")
    BY <1>2, RestartPost DEF PutAll, Puts
  <2>3. /\ Join' /\ Reports' /\ queue' \in Seq(Items)
        /\ \A o, k : Has(queue', o, k) <=> Has(queue, o, k) \/ (o = "dl" /\ k = "Restart")
    BY <2>1, <2>2, PutsStep, RestartPost
  <2>4. Status'
    BY <2>1 DEF Status
  <2>5. Kept' => Moving'
    BY <1>2, <2>1, <2>3 DEF IInv, Moving
  <2> QED
    BY <2>1, <2>3, <2>4, <2>5 DEF IInv, Typed, TypedQueue
<1>3. ASSUME ci = "ru", SendFrame(queue), UNCHANGED civars PROVE IInv'
  <2>1. PICK p \in Seq(Items) :
            /\ queue' = queue \o p
            /\ \A o, k : Has(p, o, k) => o = "dl" /\ k \in {"Flush", "Reconnect"}
    BY Zenon, <1>1, <1>3, SendPosts
  <2>2. /\ dl' = dl /\ thread' = thread /\ isUp' = isUp /\ (timer => timer')
        /\ TypedStates' /\ TypedFlags'
    BY <1>1, <1>3, SendPosts
  <2>3. ci' = ci /\ TypedCircuit' /\ AdjacencyMatches' /\ HaltedIsQuiet'
    BY <1>3, CircuitSame
  <2>4. (Kept' <=> Kept) /\ conf' \in Confs
    BY <1>1 DEF Kept, Ddcmp, Mode, Typed, TypedQueue
  <2>5. Puts(p) /\ ~ Has(p, "dl", "ThreadExit") /\ ~ Has(p, "ci", "Up")
    BY <2>1 DEF Puts
  <2>6. /\ Join' /\ Reports' /\ queue' \in Seq(Items)
        /\ \A o, k : Has(queue', o, k) <=> Has(queue, o, k) \/ Has(p, o, k)
    BY <2>2, <2>5, PutsStep
  <2>7. Status'
    BY <2>2, <2>3, <2>6 DEF IInv, Status
  <2>8. Kept' => Moving'
    BY <1>3, <2>1, <2>2, <2>3, <2>4, <2>6 DEF IInv, Moving
  <2> QED
    BY <2>2, <2>3, <2>4, <2>6, <2>7, <2>8 DEF IInv, Typed, TypedQueue
<1>4. CASE CiTimeout
  <2>1. citimer /\ ci \notin {"s0", "ds"}
    BY <1>1, <1>4 DEF CiTimeout, HaltedIsQuiet
  <2>2. TimeoutPosts = RestartPosts
    BY Zenon, <2>1 DEF TimeoutPosts
  <2> QED
    BY <1>2, <1>3, <1>4, <2>1, <2>2 DEF CiTimeout
<1>5. CASE AdjTimeout
  <2>1. ci # "s0"
    BY <1>1, <1>5 DEF AdjTimeout, AdjacencyMatches
  <2> QED
    BY <1>2, <1>5, <2>1 DEF AdjTimeout
<1> QED
  BY <1>4, <1>5 DEF CiTimers

(* A handler that leaves the circuit in one of its waiting or running       *)
(* states: after an up report, whose down report is queued if it is late,   *)
(* or after a packet.                                                       *)
LEMMA ActiveStep ==
    ASSUME IInv, NEW kind \in {"Up", "Received"}, IsNext("ci", kind), ci # "s0",
           kind = "Received" => ci \in {"ri", "rv"},
           NEW p \in Seq(Items), queue' = Tail(queue) \o p,
           \A o, k : Has(p, o, k) => o = "dl" /\ k \in {"Flush", "Reconnect"},
           UNCHANGED <<conf, wanted>>, ci' \in {"ri", "rv", "ru"},
           dl' = dl, thread' = thread, isUp' = isUp, timer => timer',
           TypedStates', TypedFlags', TypedCircuit', AdjacencyMatches', HaltedIsQuiet'
    PROVE  IInv'
<1>1. \A o, k : Is(Head(queue), o, k) <=> o = "ci" /\ k = kind
  BY DEF IsNext, Is
<1>2. Plain(TRUE, p)
  BY <1>1 DEF Plain, Moves, IsNext
<1>3. \A o, k : /\ Has(queue, o, k) <=> (o = "ci" /\ k = kind) \/ Has(Rest(TRUE), o, k)
                /\ Has(queue', o, k) <=> Has(Rest(TRUE), o, k) \/ Has(p, o, k)
  BY Zenon, <1>1, <1>2, PlainStep
<1>4. (Kept' <=> Kept) /\ conf' \in Confs
  BY DEF Kept, Ddcmp, Mode, IInv, Typed, TypedQueue
<1>5. Status'
  <2>1. SUFFICES ASSUME ~ isUp PROVE Has(queue', "ci", "Down")
    BY DEF Status
  <2>2. CASE kind = "Up"
    <3>1. Followed(queue) /\ queue \in Seq(Items) /\ queue # <<>> /\ Rest(TRUE) = Tail(queue)
      BY <2>1 DEF IInv, Reports, Typed, TypedQueue, IsNext, Rest
    <3>2. Has(Tail(queue), "ci", "Down")
      BY <1>1, <2>2, <3>1, FollowedTail
    <3> QED
      BY Zenon, <1>3, <3>1, <3>2
  <2>3. CASE kind = "Received"
    BY Zenon, <1>3, <2>1, <2>3 DEF IInv, Status
  <2> QED
    BY <2>2, <2>3
<1>6. Kept' => Moving'
  BY Zenon, <1>3, <1>4 DEF IInv, Moving
<1> QED
  BY Zenon, <1>2, <1>4, <1>5, <1>6, PlainStep DEF IInv, Typed, TypedQueue

(* CircuitStart opens the datalink.                                         *)
LEMMA CiStartStep ==
    ASSUME IInv, CiStart, UNCHANGED <<conf, wanted>> PROVE IInv'
<1>1. CASE ci # "s0"
  BY Zenon, <1>1, IgnoreStep DEF CiStart, CiKinds
<1>2. CASE ci = "s0"
  <2>1. /\ IsNext("ci", "CircuitStart") /\ ci' = "ds" /\ adj' = "none" /\ citimer' = citimer
        /\ GetThenPut(<<ToDl("Start", "")>>) /\ UNCHANGED dlvars /\ UNCHANGED conf
    BY Zenon, <1>2 DEF CiStart
  <2>2. /\ dl' = dl /\ thread' = thread /\ isUp' = isUp /\ timer' = timer
        /\ (Kept' <=> Kept) /\ conf' \in Confs /\ TypedStates' /\ TypedFlags'
    BY Zenon, <2>1, CiSide
  <2>3. TypedCircuit' /\ AdjacencyMatches' /\ HaltedIsQuiet'
    BY Zenon, <1>2, <2>1 DEF IInv, Typed, TypedCircuit, AdjacencyMatches, HaltedIsQuiet
  <2>4. \A o, k : Is(Head(queue), o, k) <=> o = "ci" /\ k = "CircuitStart"
    BY Zenon, <2>1 DEF IsNext, Is
  <2>5. /\ ToDl("Start", "") \in Items
        /\ \A o, k : Is(ToDl("Start", ""), o, k) <=> o = "dl" /\ k = "Start"
    BY Zenon, Posted DEF Args, DlKinds
  <2> DEFINE p == <<ToDl("Start", "")>>
  <2>6. p \in Seq(Items) /\ \A o, k : Has(p, o, k) <=> o = "dl" /\ k = "Start"
    BY Zenon, <2>5, OnePost
  <2>11. GetThenPut(p)
    BY Zenon, <2>1
  <2> HIDE DEF p
  <2>12. queue # <<>> /\ queue' = Tail(queue) \o p
    BY Zenon, <2>1, <2>11 DEF IsNext, GetThenPut
  <2>7. Plain(TRUE, p)
    BY <2>2, <2>4, <2>6, <2>12 DEF Plain, Moves
  <2>8. \A o, k : /\ Has(queue, o, k) <=> (o = "ci" /\ k = "CircuitStart") \/ Has(Rest(TRUE), o, k)
                  /\ Has(queue', o, k) <=> Has(Rest(TRUE), o, k) \/ (o = "dl" /\ k = "Start")
    BY Zenon, <2>4, <2>6, <2>7, PlainStep
  <2>9. Status'
    BY Zenon, <2>1 DEF Status
  <2>10. Kept' => Moving'
    BY Zenon, <1>2, <2>1, <2>2, <2>8 DEF IInv, Moving, DlKinds
  <2> QED
    BY Zenon, <2>2, <2>3, <2>7, <2>9, <2>10, PlainStep DEF IInv, Typed, TypedQueue
<1> QED
  BY <1>1, <1>2

(* CircuitStop closes it: only a circuit on demand is stopped.              *)
LEMMA CiStopStep ==
    ASSUME IInv, CiStop, UNCHANGED <<conf, wanted>> PROVE IInv'
<1>1. CASE ci = "s0"
  BY <1>1, IgnoreStep DEF CiStop, CiKinds
<1>2. CASE ci # "s0"
  <2>1. /\ IsNext("ci", "CircuitStop") /\ ci' = "s0" /\ adj' = AdjOnStop /\ citimer' = FALSE
        /\ GetThenPut(<<ToDl("Stop", "")>>) /\ UNCHANGED dlvars /\ UNCHANGED conf
    BY Zenon, <1>2 DEF CiStop
  <2>2. /\ dl' = dl /\ thread' = thread /\ isUp' = isUp /\ timer' = timer
        /\ (Kept' <=> Kept) /\ conf' \in Confs /\ TypedStates' /\ TypedFlags'
    BY Zenon, <2>1, CiSide
  <2>3. TypedCircuit' /\ AdjacencyMatches' /\ HaltedIsQuiet'
    <3>1. adj' \in {"none", "made"}
      BY Zenon, <2>1 DEF IInv, Typed, TypedCircuit, AdjacencyMatches, AdjOnStop
    <3> QED
      BY Zenon, <2>1, <3>1 DEF IInv, Typed, TypedCircuit, AdjacencyMatches, HaltedIsQuiet
  <2>4. \A o, k : Is(Head(queue), o, k) <=> o = "ci" /\ k = "CircuitStop"
    BY Zenon, <2>1 DEF IsNext, Is
  <2>5. /\ ToDl("Stop", "") \in Items
        /\ \A o, k : Is(ToDl("Stop", ""), o, k) <=> o = "dl" /\ k = "Stop"
    BY Zenon, Posted DEF Args, DlKinds
  <2> DEFINE p == <<ToDl("Stop", "")>>
  <2>6. p \in Seq(Items) /\ \A o, k : Has(p, o, k) <=> o = "dl" /\ k = "Stop"
    BY Zenon, <2>5, OnePost
  <2>11. GetThenPut(p)
    BY Zenon, <2>1
  <2> HIDE DEF p
  <2>12. queue # <<>> /\ queue' = Tail(queue) \o p
    BY Zenon, <2>1, <2>11 DEF IsNext, GetThenPut
  <2>7. Plain(TRUE, p)
    BY <2>2, <2>4, <2>6, <2>12 DEF Plain, Moves
  <2>8. \A o, k : Has(queue, o, k) <=> (o = "ci" /\ k = "CircuitStop") \/ Has(Rest(TRUE), o, k)
    BY Zenon, <2>4, <2>7, PlainStep
  <2>9. Status'
    BY Zenon, <2>1 DEF Status
  <2>10. ~ Kept'
    BY Zenon, <2>2, <2>8 DEF IInv, Moving
  <2> QED
    BY Zenon, <2>2, <2>3, <2>7, <2>9, <2>10, PlainStep DEF IInv, Typed, TypedQueue
<1> QED
  BY <1>1, <1>2

(* An up report, acted on in ds.                                            *)
LEMMA CiUpStep ==
    ASSUME IInv, CiUp, UNCHANGED <<conf, wanted>> PROVE IInv'
<1>1. CASE ci # "ds"
  BY <1>1, IgnoreStep DEF CiUp, CiKinds
<1>2. CASE ci = "ds"
  <2>1. /\ IsNext("ci", "Up") /\ ci' = "ri" /\ adj' = "none" /\ citimer' = TRUE
        /\ SendFrame(Tail(queue)) /\ wanted' = wanted
    BY <1>2 DEF CiUp
  <2>2. TypedCircuit' /\ AdjacencyMatches' /\ HaltedIsQuiet'
    <3>1. citimer' \in BOOLEAN
      BY <2>1
    <3> QED
      BY <2>1, <3>1 DEF IInv, Typed, TypedCircuit, AdjacencyMatches, HaltedIsQuiet
  <2>3. Tail(queue) \in Seq(Items)
    BY <2>1, Sequences DEF IInv, Typed, TypedQueue, IsNext
  <2>4. PICK p \in Seq(Items) :
            /\ queue' = Tail(queue) \o p
            /\ \A o, k : Has(p, o, k) => o = "dl" /\ k \in {"Flush", "Reconnect"}
    BY Zenon, <2>1, <2>3, SendPosts
  <2>5. /\ dl' = dl /\ thread' = thread /\ isUp' = isUp /\ (timer => timer')
        /\ TypedStates' /\ TypedFlags'
    BY Zenon, <2>1, <2>3, SendPosts
  <2> QED
    BY <1>2, <2>1, <2>2, <2>4, <2>5, ActiveStep
<1> QED
  BY <1>1, <1>2

(* An init or a verification that is accepted.                              *)
LEMMA CiReceiveStep ==
    ASSUME IInv, RiInit \/ RvVerify, UNCHANGED <<conf, wanted>> PROVE IInv'
<1>1. IsNext("ci", "Received") /\ ci \in {"ri", "rv"} /\ wanted' = wanted
  BY DEF RiInit, RvVerify
<1>2. Tail(queue) \in Seq(Items)
  BY <1>1, Sequences DEF IInv, Typed, TypedQueue, IsNext
<1>3. /\ ci' \in {"rv", "ru"} /\ adj' = (IF ci' = "ru" THEN "up" ELSE "made") /\ citimer' = TRUE
      /\ SendFrame(Tail(queue)) \/ (GetThenPut(<<>>) /\ UNCHANGED dlvars)
  BY DEF RiInit, RvVerify, Up
<1>4. TypedCircuit' /\ AdjacencyMatches' /\ HaltedIsQuiet'
  <2>1. citimer' \in BOOLEAN /\ adj' \in {"made", "up"}
    BY <1>3
  <2> QED
    BY <1>1, <1>3, <2>1 DEF IInv, Typed, TypedCircuit, AdjacencyMatches, HaltedIsQuiet
<1>5. CASE SendFrame(Tail(queue))
  <2>1. PICK p \in Seq(Items) :
            /\ queue' = Tail(queue) \o p
            /\ \A o, k : Has(p, o, k) => o = "dl" /\ k \in {"Flush", "Reconnect"}
    BY Zenon, <1>2, <1>5, SendPosts
  <2>2. /\ dl' = dl /\ thread' = thread /\ isUp' = isUp /\ (timer => timer')
        /\ TypedStates' /\ TypedFlags'
    BY Zenon, <1>2, <1>5, SendPosts
  <2> QED
    BY <1>1, <1>3, <1>4, <2>1, <2>2, ActiveStep
<1>6. CASE GetThenPut(<<>>) /\ UNCHANGED dlvars
  <2>1. /\ dl' = dl /\ thread' = thread /\ isUp' = isUp /\ (timer => timer')
        /\ TypedStates' /\ TypedFlags' /\ queue' = Tail(queue) \o <<>>
    BY <1>6, UnchangedStep DEF GetThenPut
  <2> QED
    BY Zenon, <1>1, <1>3, <1>4, <2>1, NoPosts, ActiveStep
<1> QED
  BY <1>3, <1>5, <1>6

(* Every handler of the circuit on the node thread.                         *)
LEMMA CiNodeStep ==
    ASSUME IInv, CiNodeThread, UNCHANGED <<conf, wanted>> PROVE IInv'
<1>1. CASE CiDown
  <2>1. CASE ci = "s0"
    BY <1>1, <2>1, IgnoreStep DEF CiDown, CiKinds
  <2>2. CASE ci # "s0"
    BY <1>1, <2>2, RestartStep DEF CiDown
  <2> QED
    BY <2>1, <2>2
<1>2. CASE CiRefused
  <2>1. ci # "s0"
    BY <1>2 DEF CiRefused, Refused
  <2> QED
    BY <1>2, <2>1, RestartStep DEF CiRefused
<1>3. CASE CiReceived
  BY <1>3, IgnoreStep DEF CiReceived, CiKinds
<1> QED
  BY <1>1, <1>2, <1>3, CiStartStep, CiStopStep, CiUpStep, CiReceiveStep DEF CiNodeThread

-----------------------------------------------------------------------------
(* The node starts and stops the circuit.                                   *)
LEMMA OperatorStep ==
    ASSUME IInv, StartCircuit \/ StopCircuit, UNCHANGED conf PROVE IInv'
<1>1. PICK kind \in {"CircuitStart", "CircuitStop"} :
        /\ Put(Item("ci", kind, "")) /\ UNCHANGED dlvars /\ UNCHANGED civars
        /\ wanted' \in BOOLEAN /\ (kind = "CircuitStop" => ~ Kept)
  BY Zenon DEF StartCircuit, StopCircuit, Kept
<1>2. /\ dl' = dl /\ thread' = thread /\ isUp' = isUp /\ timer' = timer
      /\ (Kept' <=> Kept) /\ conf' \in Confs /\ TypedStates' /\ TypedFlags'
  BY Zenon, <1>1, CiSide
<1>3. ci' = ci /\ TypedCircuit' /\ AdjacencyMatches' /\ HaltedIsQuiet'
  BY Zenon, <1>1 DEF IInv, Typed, TypedCircuit, civars, AdjacencyMatches, HaltedIsQuiet
<1>4. /\ Item("ci", kind, "") \in Items
      /\ \A o, k : Is(Item("ci", kind, ""), o, k) <=> o = "ci" /\ k = kind
  <2>1. kind \in CiKinds /\ "" \in Args
    BY DEF CiKinds, Args
  <2> QED
    BY Zenon, <2>1, Posted
<1> DEFINE p == <<Item("ci", kind, "")>>
<1>5. p \in Seq(Items) /\ \A o, k : Has(p, o, k) <=> o = "ci" /\ k = kind
  BY Zenon, <1>4, OnePost
<1>6. Puts(p)
  BY Zenon, <1>1, <1>4, <1>5, Sequences DEF Put, Puts, IInv, Typed, TypedQueue
<1> HIDE DEF p
<1>7. ~ Has(p, "dl", "ThreadExit") /\ ~ Has(p, "ci", "Up")
  BY <1>5
<1>8. /\ Join' /\ Reports' /\ queue' \in Seq(Items)
      /\ \A o, k : Has(queue', o, k) <=> Has(queue, o, k) \/ (o = "ci" /\ k = kind)
  BY <1>2, <1>5, <1>6, <1>7, PutsStep
<1>9. Status'
  BY <1>2, <1>3, <1>8 DEF IInv, Status
<1>10. Kept' => Moving'
  BY Zenon, <1>1, <1>2, <1>3, <1>8 DEF IInv, Moving
<1> QED
  BY <1>2, <1>3, <1>8, <1>9, <1>10 DEF IInv, Typed, TypedQueue

(* The invariant holds of a node that has just been made.                   *)
LEMMA InitHolds == Init => IInv
<1> SUFFICES ASSUME Init PROVE IInv
  OBVIOUS
<1> USE DEF Init, DlInit, CiInit
<1>1. Typed
  <2>1. TypedQueue
    BY Sequences DEF TypedQueue
  <2>2. TypedStates
    BY DEF TypedStates
  <2>3. TypedFlags
    BY Zenon DEF TypedFlags
  <2>4. TypedCircuit
    BY Zenon DEF TypedCircuit
  <2> QED
    BY <2>1, <2>2, <2>3, <2>4 DEF Typed
<1>2. \A o, k : ~ Has(queue, o, k)
  BY NoPosts
<1>3. Join /\ Reports
  BY <1>2 DEF Join, Reports, Once, Followed
<1>4. Status /\ AdjacencyMatches /\ HaltedIsQuiet /\ Moving
  BY <1>2 DEF Status, AdjacencyMatches, HaltedIsQuiet, Moving
<1> QED
  BY <1>1, <1>3, <1>4 DEF IInv

(* A step of something else.                                                *)
LEMMA StutterStep ==
    ASSUME IInv, UNCHANGED vars PROVE IInv'
<1>1. /\ UNCHANGED conf /\ UNCHANGED queue /\ UNCHANGED dlvars /\ UNCHANGED civars
      /\ UNCHANGED wanted
  BY DEF vars
<1>2. /\ dl' = dl /\ thread' = thread /\ isUp' = isUp /\ timer' = timer
      /\ (Kept' <=> Kept) /\ conf' \in Confs /\ TypedStates' /\ TypedFlags'
  BY <1>1, CiSide
<1>3. ci' = ci /\ TypedCircuit' /\ AdjacencyMatches' /\ HaltedIsQuiet'
  BY <1>1, CircuitSame
<1> QED
  BY <1>1, <1>2, <1>3 DEF IInv, Typed, TypedQueue, Join, Reports, Status, Moving

(* Every step keeps the invariant.                                          *)
LEMMA NextHolds == IInv /\ [Next]_vars => IInv'
<1> SUFFICES ASSUME IInv, [Next]_vars PROVE IInv'
  OBVIOUS
<1>1. CASE UNCHANGED vars
  BY <1>1, StutterStep
<1>2. CASE StartCircuit \/ StopCircuit
  BY <1>2, OperatorStep, StutterStep DEF Next
<1>3. CASE (NodeThread \/ Timers \/ Thread) /\ UNCHANGED wanted /\ UNCHANGED conf
  BY <1>3, DlNodeStep, CiNodeStep, DlTimerStep, CiTimerStep, ThreadStep
     DEF NodeThread, Timers, Thread
<1> QED
  BY <1>1, <1>2, <1>3 DEF Next

(* The way the properties speak of the queue.                               *)
LEMMA QueuedIsHas == \A o, k : Queued(o, k) <=> Has(queue, o, k)
  BY DEF Queued, Has, Is

(* The invariant implies the properties the runs check.                     *)
LEMMA Consequences == IInv => JoinNeverBlocks /\ CircuitAgrees /\ NeverStranded
<1> SUFFICES ASSUME IInv PROVE JoinNeverBlocks /\ CircuitAgrees /\ NeverStranded
  OBVIOUS
<1>1. JoinNeverBlocks
  BY QueuedIsHas DEF IInv, Join, JoinNeverBlocks
<1>2. NeverStranded
  BY QueuedIsHas DEF IInv, Moving, NeverStranded, ReportOnItsWay, AlwaysRetrying
<1>3. TypeOK
  <2>1. \A i \in 1 .. Len(queue) : queue[i] \in Items
    BY DEF IInv, Typed, TypedQueue
  <2>2. \A i \in 1 .. Len(queue) :
          \/ queue[i].to = "dl" /\ queue[i].kind \in DlKinds
          \/ queue[i].to = "ci" /\ queue[i].kind \in CiKinds
    BY <2>1 DEF Items
  <2>3. {stopnow, isUp, restartNow, timer, pending, tx, posted} \subseteq BOOLEAN
    BY DEF IInv, Typed, TypedFlags
  <2>4. {citimer, wanted} \subseteq BOOLEAN
    BY DEF IInv, Typed, TypedCircuit
  <2> QED
    BY <2>2, <2>3, <2>4 DEF IInv, Typed, TypedStates, TypedCircuit, TypeOK
<1>4. StatusAgrees
  BY QueuedIsHas DEF IInv, Status, StatusAgrees
<1> QED
  BY <1>1, <1>2, <1>3, <1>4 DEF IInv, CircuitAgrees

(* The inductive invariant: the facts about the queue that make the         *)
(* properties below stable under every handler, expiry and thread step.     *)
THEOREM LinkInvariant == Spec => []IInv
  BY InitHolds, NextHolds, PTL DEF Spec

(* PtpDatalink::validate joins the receive thread when it takes a           *)
(* ThreadExit off the queue: there is one exactly while the thread is done  *)
(* and not joined, so the node thread never waits in join.                  *)
THEOREM JoinNeverBlocksSafe == Spec => []JoinNeverBlocks
<1>1. IInv => JoinNeverBlocks
  BY Consequences
<1> QED
  BY <1>1, LinkInvariant, PTL

(* What the circuit takes the datalink to be, the adjacency it holds and    *)
(* its timer agree with the datalink after every handler (report_down,      *)
(* PtpCircuit's restart and halt), whatever reports and packets cross.      *)
THEOREM CircuitAgreesSafe == Spec => []CircuitAgrees
<1>1. IInv => CircuitAgrees
  BY Consequences
<1> QED
  BY <1>1, LinkInvariant, PTL

(* A Multinet circuit that is kept up always has something that moves it    *)
(* on: a Start or a report in the queue, the receive thread, or the holdoff *)
(* timer (HandleReconnect, ThreadExit, the ds state that has no timeout).   *)
THEOREM NeverStrandedSafe == Spec => []NeverStranded
<1>1. IInv => NeverStranded
  BY Consequences
<1> QED
  BY <1>1, LinkInvariant, PTL
=============================================================================
