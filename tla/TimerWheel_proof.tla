-------------------------- MODULE TimerWheel_proof --------------------------
(***************************************************************************)
(* Proofs about the timer wheel, for any set of timers, any wheel size and *)
(* any intervals.  The inductive invariant adds to the properties what     *)
(* makes the revision count work: an item's count never exceeds its        *)
(* timer's, and a timer has at most one place where its current count is   *)
(* held: the wheel, the wheel thread's hands, or one item of the queue.    *)
(***************************************************************************)
EXTENDS TimerWheel, TLAPS

(* A timer on the wheel is armed. *)
LinkedIsArmed == \A t \in Timers : Linked(t) => armed[t]

(* Counts only grow, so no item is ahead of its timer. *)
NotAhead ==
    /\ \A i \in 1 .. Len(queue) : queue[i].rev <= rev[queue[i].timer]
    /\ wheel = "post" => item.rev <= rev[item.timer]

(* An item with the current count stands for a timer that is off the wheel *)
(* and armed, and is the only one for its timer.                           *)
HeldIsArmed ==
    wheel = "post" /\ ~ StaleItem(item) => armed[item.timer] /\ ~ Linked(item.timer)

LiveItemOffWheel ==
    \A i \in 1 .. Len(queue) : ~ StaleItem(queue[i]) => ~ Linked(queue[i].timer)

LiveItemUnique ==
    /\ \A i, j \in 1 .. Len(queue) :
         ~ StaleItem(queue[i]) /\ ~ StaleItem(queue[j])
            /\ queue[i].timer = queue[j].timer => i = j
    /\ wheel = "post" /\ ~ StaleItem(item) =>
         \A i \in 1 .. Len(queue) :
            queue[i].timer = item.timer => StaleItem(queue[i])

RevInv ==
    /\ WheelTypeOK
    /\ NoStaleTimeout
    /\ ArmedIsPending
    /\ LinkedIsArmed
    /\ NotAhead
    /\ HeldIsArmed
    /\ LiveItemOffWheel
    /\ LiveItemUnique

-----------------------------------------------------------------------------
(* start asks for at least one tick, and the slot it links on is the one   *)
(* that many ticks ahead, with one wrap at most.                           *)
LEMMA TicksPositive == ASSUME NEW ms \in Requests PROVE Ticks(ms) \in Nat \ {0}
  <1>1. ms \in Nat
    BY WheelAssumption
  <1>2. ms \div TickMs \in Nat
    BY <1>1, WheelAssumption
  <1> QED
    BY <1>2 DEF Ticks

(* A slot that lies ahead of the hand is a slot of the wheel.               *)
LEMMA SlotAhead ==
  ASSUME NEW p \in 0 .. Slots - 1, NEW k \in 0 .. Slots - 1
  PROVE  /\ (p + k) % Slots \in 0 .. Slots - 1
         /\ (p + k) % Slots = IF p + k < Slots THEN p + k ELSE p + k - Slots
  <1>1. Slots \in Nat /\ Slots > 1
    BY WheelAssumption
  <1>2. CASE p + k < Slots
    BY <1>1, <1>2
  <1>3. CASE p + k >= Slots
    <2>1. p + k = Slots * 1 + (p + k - Slots) /\ p + k - Slots \in 0 .. Slots - 1
      BY <1>1, <1>3
    <2> QED
      BY <1>1, <1>3, <2>1
  <1> QED
    BY <1>1, <1>2, <1>3
(* What taking the head off the work queue does to the positions of the    *)
(* items behind it, and what appending one does.                           *)
LEMMA QueueTail ==
  ASSUME NEW q \in Seq(Items), q # <<>>
  PROVE  /\ Tail(q) \in Seq(Items)
         /\ Len(q) \in Nat /\ Len(Tail(q)) \in Nat
         /\ 1 \in 1 .. Len(q) /\ Head(q) = q[1] /\ q[1] \in Items
         /\ \A i \in 1 .. Len(Tail(q)) :
              i + 1 \in 1 .. Len(q) /\ Tail(q)[i] = q[i + 1]
         /\ \A j \in 1 .. Len(q) : j # 1 =>
              j - 1 \in 1 .. Len(Tail(q)) /\ Tail(q)[j - 1] = q[j]
  OBVIOUS

(* An item put at the back of the queue.                                    *)
LEMMA QueueAppend ==
  ASSUME NEW q \in Seq(Items), NEW e \in Items
  PROVE  /\ Append(q, e) \in Seq(Items)
         /\ Len(q) \in Nat /\ Len(Append(q, e)) = Len(q) + 1
         /\ \A i \in 1 .. Len(q) :
              i \in 1 .. Len(q) + 1 /\ Append(q, e)[i] = q[i]
         /\ Append(q, e)[Len(q) + 1] = e
  OBVIOUS

(* Every queued item names a timer and a revision.                          *)
LEMMA QueueItems ==
  ASSUME NEW q \in Seq(Items)
  PROVE  \A i \in 1 .. Len(q) : q[i].timer \in Timers /\ q[i].rev \in Nat
  <1>1. \A i \in 1 .. Len(q) : q[i] \in Items
    OBVIOUS
  <1> QED
    BY <1>1 DEF Items

-----------------------------------------------------------------------------
(* The conjuncts of the invariant are preserved by every step.  Each action *)
(* is a step; where an action disturbs several conjuncts it is split.       *)
LEMMA TypePreserved == WheelTypeOK /\ [WheelNext]_wheelVars => WheelTypeOK'
  <1> SUFFICES ASSUME WheelTypeOK, [WheelNext]_wheelVars PROVE WheelTypeOK'
    OBVIOUS
  <1> USE WheelAssumption DEF WheelTypeOK, Unlinked
  <1>1. CASE UNCHANGED wheelVars
    BY <1>1 DEF wheelVars
  <1>2. CASE Discard \/ Fire
    <2>1. queue' \in Seq(Items)
      BY Zenon, <1>2, QueueTail DEF Discard, Fire
    <2>2. armed' \in [Timers -> BOOLEAN]
      BY Zenon, <1>2 DEF Discard, Fire
    <2> QED
      BY <1>2, <2>1, <2>2 DEF Discard, Fire
  <1>3. CASE Startup \/ Shutdown \/ ThreadExit \/ SweepDone
    BY Zenon, <1>3 DEF Startup, Shutdown, ThreadExit, SweepDone
  <1>4. CASE Advance
    <2>1. pos' \in 0 .. Slots - 1
      BY <1>4, SlotAhead DEF Advance, NextPos
    <2>2. togo' \in [Timers -> Int]
      BY <1>4 DEF Advance
    <2> QED
      BY <1>4, <2>1, <2>2 DEF Advance
  <1>5. CASE Post
    <2>1. queue' \in Seq(Items)
      BY <1>5, QueueAppend DEF Post
    <2> QED
      BY <1>5, <2>1 DEF Post
  <1>6. ASSUME NEW t \in Timers, ExpireTimer(t) PROVE WheelTypeOK'
    BY <1>6 DEF ExpireTimer, Unlink, CapturedRev, Items
  <1>7. ASSUME NEW t \in Timers, StopTimer(t) PROVE WheelTypeOK'
    BY <1>7 DEF StopTimer, Unlink
  <1>8. ASSUME NEW t \in Timers, NEW ms \in Requests, StartTimer(t, ms) PROVE WheelTypeOK'
    <2>1. (pos + Ticks(ms)) % Slots \in 0 .. Slots - 1
      <3>1. Ticks(ms) \in 0 .. Slots - 1
        BY <1>8, TicksPositive DEF StartTimer
      <3> QED
        BY Zenon, <3>1, SlotAhead
    <2>2. Ticks(ms) \in Nat /\ LinkPlace(links) \in Int
      BY TicksPositive DEF LinkPlace
    <2>3. armed' \in [Timers -> BOOLEAN]
      BY <1>8 DEF StartTimer
    <2>4. rev' \in [Timers -> Nat]
      BY SMTT(30), <1>8 DEF StartTimer
    <2>5. place' \in [Timers -> Int]
      BY <1>8 DEF StartTimer, LinkPlace
    <2>8. born' \in [Timers -> Nat]
      BY <1>8 DEF StartTimer
    <2>6. togo' \in [Timers -> Int]
      BY <1>8, <2>2 DEF StartTimer
    <2>7. slot' \in [Timers -> -1 .. Slots - 1]
      BY SMTT(30), <1>8, <2>1 DEF StartTimer
    <2> QED
      BY Zenon, <1>8, <2>3, <2>4, <2>5, <2>6, <2>7, <2>8 DEF StartTimer
  <1> QED
    BY Zenon, <1>1, <1>2, <1>3, <1>4, <1>5, <1>6, <1>7, <1>8
    DEF WheelNext, NodeThread, WheelThread

(* The wheel starts with every timer off it and an empty queue.             *)
LEMMA RevInit == WheelInit => RevInv
  <1> SUFFICES ASSUME WheelInit PROVE RevInv
    OBVIOUS
  <1>1. WheelTypeOK
    <2>1. armed \in [Timers -> BOOLEAN] /\ running \in BOOLEAN
      BY Zenon DEF WheelInit
    <2>2. queue \in Seq(Items)
      BY DEF WheelInit
    <2> QED
      BY <2>1, <2>2, WheelAssumption DEF WheelInit, WheelTypeOK, Unlinked
  <1>2. \A i \in 1 .. Len(queue) : FALSE
    BY DEF WheelInit
  <1> QED
    BY <1>1, <1>2
    DEF WheelInit, RevInv, NoStaleTimeout, ArmedIsPending, LinkedIsArmed, NotAhead,
        HeldIsArmed, LiveItemOffWheel, LiveItemUnique, Linked, Unlinked

(* Every step of the node thread and of the wheel thread keeps the invariant. *)
LEMMA RevStep == RevInv /\ [WheelNext]_wheelVars => RevInv'
  <1> SUFFICES ASSUME RevInv, [WheelNext]_wheelVars PROVE RevInv'
    OBVIOUS
  <1>0. WheelTypeOK /\ WheelTypeOK'
    BY TypePreserved DEF RevInv
  <1>1. CASE UNCHANGED wheelVars
    BY <1>0, <1>1
    DEF wheelVars, RevInv, NoStaleTimeout, ArmedIsPending, LinkedIsArmed, NotAhead,
        HeldIsArmed, LiveItemOffWheel, LiveItemUnique, Linked, StaleItem
  <1>2. CASE Startup \/ Shutdown \/ ThreadExit \/ SweepDone \/ Advance
    BY <1>0, <1>2
    DEF Startup, Shutdown, ThreadExit, SweepDone, Advance, RevInv,
        NoStaleTimeout, ArmedIsPending, LinkedIsArmed, NotAhead,
        HeldIsArmed, LiveItemOffWheel, LiveItemUnique, Linked, StaleItem
  <1>3. CASE Discard
    <2>1. /\ \A i \in 1 .. Len(queue') :
               i + 1 \in 1 .. Len(queue) /\ queue'[i] = queue[i + 1]
          /\ \A j \in 1 .. Len(queue) : j # 1 =>
               j - 1 \in 1 .. Len(queue') /\ queue'[j - 1] = queue[j]
          /\ Head(queue) = queue[1] /\ Len(queue) \in Nat /\ Len(queue') \in Nat
      BY <1>0, <1>3, QueueTail DEF Discard, WheelTypeOK
    <2>2. ArmedIsPending'
      <3> SUFFICES ASSUME NEW t \in Timers, armed'[t], ~ Linked(t)',
                          ~ (wheel' = "post" /\ item' = [timer |-> t, rev |-> rev'[t]])
                   PROVE  \E i \in 1 .. Len(queue') : queue'[i] = [timer |-> t, rev |-> rev'[t]]
        BY Zenon DEF ArmedIsPending
      <3>1. PICK j \in 1 .. Len(queue) : queue[j] = [timer |-> t, rev |-> rev[t]]
        BY <1>3 DEF Discard, RevInv, ArmedIsPending, Linked
      <3>2. queue[j].timer = t /\ queue[j].rev = rev[t]
        BY <3>1
      <3>3. j # 1
        BY <1>3, <2>1, <3>2 DEF Discard, StaleItem
      <3> QED
        <4>1. j - 1 \in 1 .. Len(queue') /\ queue'[j - 1] = [timer |-> t, rev |-> rev[t]]
          BY <2>1, <3>1, <3>3
        <4> QED
          BY Zenon, <1>3, <4>1 DEF Discard
    <2>3. NoStaleTimeout' /\ LinkedIsArmed' /\ NotAhead' /\ HeldIsArmed' /\ LiveItemOffWheel'
      BY <1>0, <1>3, <2>1
      DEF Discard, RevInv, NoStaleTimeout, LinkedIsArmed, NotAhead, HeldIsArmed,
          LiveItemOffWheel, Linked, StaleItem
    <2>4. LiveItemUnique'
      BY <1>0, <1>3, <2>1 DEF Discard, RevInv, LiveItemUnique, StaleItem
    <2> QED
      BY <1>0, <2>2, <2>3, <2>4 DEF RevInv
  <1>4. CASE Fire
    <2>1. /\ \A i \in 1 .. Len(queue') :
               i + 1 \in 1 .. Len(queue) /\ queue'[i] = queue[i + 1]
          /\ \A j \in 1 .. Len(queue) : j # 1 =>
               j - 1 \in 1 .. Len(queue') /\ queue'[j - 1] = queue[j]
          /\ Head(queue) = queue[1] /\ 1 \in 1 .. Len(queue)
          /\ Len(queue) \in Nat /\ Len(queue') \in Nat
      BY <1>0, <1>4, QueueTail DEF Fire, WheelTypeOK
    <2>2. ~ StaleItem(queue[1]) /\ queue[1] \in Items /\ queue[1].timer \in Timers
      BY Zenon, <1>0, <1>4, <2>1, QueueTail DEF Fire, WheelTypeOK, Items
    <2>3. armed' = [armed EXCEPT ![queue[1].timer] = FALSE]
      BY Zenon, <1>4, <2>1 DEF Fire
    <2>4. UNCHANGED <<slot, rev, wheel, item>>
      BY <1>4 DEF Fire
    <2>5. ArmedIsPending'
      <3> SUFFICES ASSUME NEW t \in Timers, armed'[t], ~ Linked(t)',
                          ~ (wheel' = "post" /\ item' = [timer |-> t, rev |-> rev'[t]])
                   PROVE  \E i \in 1 .. Len(queue') : queue'[i] = [timer |-> t, rev |-> rev'[t]]
        BY Zenon DEF ArmedIsPending
      <3>1. t # queue[1].timer /\ armed[t]
        BY SMTT(30), <1>0, <2>2, <2>3 DEF WheelTypeOK
      <3>2. PICK j \in 1 .. Len(queue) : queue[j] = [timer |-> t, rev |-> rev[t]]
        BY <2>4, <3>1 DEF RevInv, ArmedIsPending, Linked
      <3>3. j # 1
        BY <3>1, <3>2
      <3>4. j - 1 \in 1 .. Len(queue') /\ queue'[j - 1] = [timer |-> t, rev |-> rev[t]]
        BY <2>1, <3>2, <3>3
      <3> QED
        BY <2>4, <3>4
    <2>6. NoStaleTimeout'
      <3> SUFFICES ASSUME NEW i \in 1 .. Len(queue'), ~ StaleItem(queue[i])'
                   PROVE  armed'[queue'[i].timer]
        BY DEF NoStaleTimeout
      <3>1. i + 1 \in 1 .. Len(queue) /\ queue'[i] = queue[i + 1] /\ i + 1 # 1
        BY <2>1
      <3>2. ~ StaleItem(queue[i + 1])
        BY <2>4, <3>1 DEF StaleItem
      <3>3. queue[i + 1].timer # queue[1].timer
        BY <2>1, <2>2, <3>1, <3>2 DEF RevInv, LiveItemUnique
      <3>4. armed[queue[i + 1].timer]
        BY <3>1, <3>2 DEF RevInv, NoStaleTimeout
      <3> QED
        BY <1>0, <2>2, <2>3, <3>1, <3>3, <3>4 DEF WheelTypeOK, Items
    <2>7. LinkedIsArmed'
      <3>1. ~ Linked(queue[1].timer)
        BY <2>1, <2>2 DEF RevInv, LiveItemOffWheel
      <3> QED
        BY Zenon, <1>0, <2>2, <2>3, <2>4, <3>1 DEF RevInv, LinkedIsArmed, Linked, WheelTypeOK
    <2>8. HeldIsArmed'
      <3> SUFFICES ASSUME wheel = "post", ~ StaleItem(item)
                   PROVE  armed'[item.timer] /\ ~ Linked(item.timer)
        BY <2>4 DEF HeldIsArmed, StaleItem, Linked
      <3>1. armed[item.timer] /\ ~ Linked(item.timer) /\ item.timer \in Timers
        BY <1>0 DEF RevInv, HeldIsArmed, WheelTypeOK, Items
      <3>2. item.timer # queue[1].timer
        BY <2>1, <2>2 DEF RevInv, LiveItemUnique
      <3> QED
        BY <1>0, <2>3, <3>1, <3>2 DEF WheelTypeOK
    <2>9. NotAhead' /\ LiveItemOffWheel'
      BY <1>0, <1>4, <2>1 DEF Fire, RevInv, NotAhead, LiveItemOffWheel, Linked, StaleItem
    <2>10. LiveItemUnique'
      BY <1>0, <1>4, <2>1 DEF Fire, RevInv, LiveItemUnique, StaleItem
    <2> QED
      BY <1>0, <2>5, <2>6, <2>7, <2>8, <2>9, <2>10 DEF RevInv
  <1>5. CASE Post
    <2>1. /\ Len(queue) \in Nat /\ Len(queue') = Len(queue) + 1
          /\ \A i \in 1 .. Len(queue) : i \in 1 .. Len(queue') /\ queue'[i] = queue[i]
          /\ queue'[Len(queue')] = item /\ item \in Items
      BY <1>0, <1>5, QueueAppend DEF Post, WheelTypeOK
    <2>2. UNCHANGED <<slot, rev, armed>> /\ wheel = "post" /\ wheel' = "sweep"
      BY <1>5 DEF Post
    <2>3. \A i \in 1 .. Len(queue') : i \in 1 .. Len(queue) \/ (queue'[i] = item /\ i = Len(queue'))
      BY <2>1
    <2>4. ArmedIsPending'
      <3> SUFFICES ASSUME NEW t \in Timers, armed[t], ~ Linked(t)
                   PROVE  \E i \in 1 .. Len(queue') : queue'[i] = [timer |-> t, rev |-> rev[t]]
        BY <2>2 DEF ArmedIsPending, Linked
      <3>1. CASE item = [timer |-> t, rev |-> rev[t]]
        BY <2>1, <3>1
      <3>2. CASE \E i \in 1 .. Len(queue) : queue[i] = [timer |-> t, rev |-> rev[t]]
        BY <2>1, <3>2
      <3> QED
        BY <3>1, <3>2 DEF RevInv, ArmedIsPending
    <2>5. LinkedIsArmed' /\ HeldIsArmed'
      BY <2>2 DEF RevInv, LinkedIsArmed, HeldIsArmed, Linked
    <2>6. NoStaleTimeout' /\ NotAhead' /\ LiveItemOffWheel'
      BY SMTT(30), <2>1, <2>2, <2>3
      DEF RevInv, NoStaleTimeout, NotAhead, HeldIsArmed, LiveItemOffWheel, Linked, StaleItem
    <2>7. LiveItemUnique'
      BY <2>1, <2>2, <2>3 DEF RevInv, LiveItemUnique, StaleItem
    <2> QED
      BY <1>0, <2>4, <2>5, <2>6, <2>7 DEF RevInv
  <1>6. ASSUME NEW t \in Timers, ExpireTimer(t) PROVE RevInv'
    <2>1. /\ slot' = [slot EXCEPT ![t] = Unlinked]
          /\ rev' = [rev EXCEPT ![t] = rev[t] + 1]
          /\ item' = [timer |-> t, rev |-> rev[t] + 1]
          /\ wheel = "sweep" /\ wheel' = "post"
          /\ UNCHANGED <<queue, armed>>
      BY <1>6 DEF ExpireTimer, Unlink, CapturedRev
    <2>2. Linked(t) /\ armed[t]
      BY <1>0, <1>6 DEF ExpireTimer, Front, RevInv, LinkedIsArmed, Linked, WheelTypeOK, Unlinked
    <2>3. /\ item'.timer = t /\ item'.rev = rev'[t]
          /\ rev' \in [Timers -> Nat] /\ rev \in [Timers -> Nat]
          /\ \A u \in Timers : u # t => slot'[u] = slot[u] /\ rev'[u] = rev[u]
          /\ slot'[t] = Unlinked /\ rev'[t] = rev[t] + 1
      BY SMTT(30), <1>0, <2>1 DEF WheelTypeOK
    <2>10. \A i \in 1 .. Len(queue) : queue[i].timer \in Timers /\ queue[i].rev \in Nat
      BY <1>0, QueueItems DEF WheelTypeOK
    <2>4. \A i \in 1 .. Len(queue) : queue[i].timer = t => StaleItem(queue[i])'
      BY SMTT(30), <2>1, <2>3, <2>10 DEF RevInv, NotAhead, StaleItem
    <2>5. \A i \in 1 .. Len(queue) :
            queue[i].timer # t => (StaleItem(queue[i])' <=> StaleItem(queue[i]))
      BY <2>1, <2>3, <2>10 DEF StaleItem
    <2>6. ArmedIsPending'
      <3> SUFFICES ASSUME NEW u \in Timers, armed[u], u # t, ~ Linked(u)
                   PROVE  \E i \in 1 .. Len(queue) : queue[i] = [timer |-> u, rev |-> rev[u]]
        BY <2>1, <2>3 DEF ArmedIsPending, Linked
      <3> QED
        BY <2>1 DEF RevInv, ArmedIsPending
    <2>7. LinkedIsArmed' /\ NotAhead' /\ HeldIsArmed'
      BY <2>1, <2>2, <2>3, <2>10
      DEF RevInv, LinkedIsArmed, NotAhead, HeldIsArmed, Linked, StaleItem
    <2>8. NoStaleTimeout' /\ LiveItemOffWheel'
      BY <2>1, <2>3, <2>4, <2>5, <2>10 DEF RevInv, NoStaleTimeout, LiveItemOffWheel, Linked
    <2>9. LiveItemUnique'
      BY <2>1, <2>3, <2>4, <2>5, <2>10 DEF RevInv, LiveItemUnique
    <2> QED
      BY <1>0, <2>6, <2>7, <2>8, <2>9 DEF RevInv
  <1>7. ASSUME NEW t \in Timers,
               \/ StopTimer(t)
               \/ \E ms \in Requests : StartTimer(t, ms)
        PROVE  RevInv'
    <2>1. /\ rev' = [rev EXCEPT ![t] = rev[t] + 1]
          /\ UNCHANGED <<queue, item, wheel>>
      BY <1>7 DEF StopTimer, StartTimer, Unlink
    <2>2. /\ \A i \in 1 .. Len(queue) : queue[i].timer \in Timers /\ queue[i].rev \in Nat
          /\ wheel = "post" => item.timer \in Timers /\ item.rev \in Nat
          /\ rev \in [Timers -> Nat] /\ rev'[t] = rev[t] + 1
          /\ \A u \in Timers : u # t => rev'[u] = rev[u]
      <3>1. \A i \in 1 .. Len(queue) : queue[i].timer \in Timers /\ queue[i].rev \in Nat
        BY <1>0, QueueItems DEF WheelTypeOK
      <3>2. wheel = "post" => item.timer \in Timers /\ item.rev \in Nat
        BY <1>0 DEF WheelTypeOK, Items
      <3> QED
        BY <1>0, <2>1, <3>1, <3>2 DEF WheelTypeOK
    <2>3. /\ \A i \in 1 .. Len(queue) : queue[i].timer = t => StaleItem(queue[i])'
          /\ wheel = "post" /\ item.timer = t => StaleItem(item)'
      BY <2>1, <2>2 DEF RevInv, NotAhead, StaleItem
    <2>4. /\ \A i \in 1 .. Len(queue) :
               queue[i].timer # t => (StaleItem(queue[i])' <=> StaleItem(queue[i]))
          /\ wheel = "post" /\ item.timer # t => (StaleItem(item)' <=> StaleItem(item))
      BY <2>1, <2>2 DEF StaleItem
    <2>5. \A u \in Timers : u # t => armed'[u] = armed[u] /\ slot'[u] = slot[u]
      BY Zenon, <1>0, <1>7 DEF StopTimer, StartTimer, Unlink, WheelTypeOK
    <2>6. (slot'[t] # Unlinked /\ armed'[t]) \/ (slot'[t] = Unlinked /\ ~ armed'[t])
      <3>1. CASE StopTimer(t)
        BY <1>0, <3>1 DEF StopTimer, Unlink, WheelTypeOK
      <3>2. ASSUME NEW ms \in Requests, StartTimer(t, ms)
            PROVE  slot'[t] # Unlinked /\ armed'[t]
        <4>1. Ticks(ms) \in 0 .. Slots - 1
          BY <3>2, TicksPositive, WheelAssumption DEF StartTimer
        <4>2. (pos + Ticks(ms)) % Slots \in 0 .. Slots - 1
          BY Zenon, <1>0, <4>1, SlotAhead DEF WheelTypeOK
        <4>3. slot'[t] = (pos + Ticks(ms)) % Slots /\ armed'[t]
          BY <1>0, <3>2 DEF StartTimer, WheelTypeOK
        <4> QED
          BY <4>2, <4>3, WheelAssumption DEF Unlinked
      <3> QED
        BY <1>7, <3>1, <3>2
    <2>7. ArmedIsPending'
      BY <2>1, <2>2, <2>5, <2>6 DEF RevInv, ArmedIsPending, Linked
    <2>8. LinkedIsArmed' /\ NotAhead'
      BY <2>1, <2>2, <2>5, <2>6 DEF RevInv, LinkedIsArmed, NotAhead, Linked
    <2>9. HeldIsArmed'
      BY <2>1, <2>2, <2>3, <2>4, <2>5 DEF RevInv, HeldIsArmed, Linked
    <2>10. NoStaleTimeout' /\ LiveItemOffWheel'
      BY SMTT(30), <2>1, <2>2, <2>3, <2>4, <2>5 DEF RevInv, NoStaleTimeout, LiveItemOffWheel, Linked
    <2>11. LiveItemUnique'
      BY <2>1, <2>2, <2>3, <2>4 DEF RevInv, LiveItemUnique
    <2> QED
      BY <1>0, <2>7, <2>8, <2>9, <2>10, <2>11 DEF RevInv
  <1> QED
    BY <1>1, <1>2, <1>3, <1>4, <1>5, <1>6, <1>7 DEF WheelNext, NodeThread, WheelThread
-----------------------------------------------------------------------------
(* OnTime is inductive given the types: the wheel advances only from        *)
(* "idle", when every linked timer has a tick togo, and a sweep ends only   *)
(* when the list of its slot is empty.                                      *)
LEMMA OnTimeStep == WheelTypeOK /\ OnTime /\ [WheelNext]_wheelVars => OnTime'
  <1> SUFFICES ASSUME WheelTypeOK, OnTime, [WheelNext]_wheelVars PROVE OnTime'
    OBVIOUS
  <1> USE WheelAssumption DEF Linked, Unlinked
  <1>1. CASE UNCHANGED wheelVars
    BY <1>1 DEF wheelVars, OnTime
  <1>2. CASE Discard \/ Fire \/ Startup \/ Shutdown \/ ThreadExit \/ Post
    BY <1>2 DEF Discard, Fire, Startup, Shutdown, ThreadExit, Post, OnTime
  <1>3. CASE SweepDone
    BY <1>3 DEF SweepDone, OnTime, WheelTypeOK
  <1>4. CASE Advance
    <2>1. pos' = IF pos + 1 < Slots THEN pos + 1 ELSE pos + 1 - Slots
      BY <1>4, SlotAhead DEF Advance, NextPos, WheelTypeOK
    <2>2. pos \in 0 .. Slots - 1 /\ UNCHANGED slot /\ wheel' = "sweep"
      BY <1>4 DEF Advance, WheelTypeOK
    <2>3. ASSUME NEW t \in Timers, slot[t] # -1
          PROVE  /\ slot[t] \in 0 .. Slots - 1
                 /\ slot[t] = pos + togo[t] \/ slot[t] = pos + togo[t] - Slots
                 /\ togo[t] \in 1 .. Slots - 1
                 /\ togo'[t] = togo[t] - 1
      BY <1>4, <2>3 DEF Advance, OnTime, WheelTypeOK
    <2>4. ASSUME NEW t \in Timers, slot[t] # -1
          PROVE  /\ slot[t] = pos' + togo'[t] \/ slot[t] = pos' + togo'[t] - Slots
                 /\ togo'[t] \in 0 .. Slots - 1
      BY <2>1, <2>2, <2>3, <2>4
    <2> QED
      BY <2>2, <2>4 DEF OnTime
  <1>5. ASSUME NEW t \in Timers, ExpireTimer(t) PROVE OnTime'
    BY <1>5 DEF ExpireTimer, Unlink, OnTime, WheelTypeOK
  <1>6. ASSUME NEW t \in Timers, StopTimer(t) PROVE OnTime'
    BY <1>6 DEF StopTimer, Unlink, OnTime, WheelTypeOK
  <1>7. ASSUME NEW t \in Timers, NEW ms \in Requests, StartTimer(t, ms) PROVE OnTime'
    <2>1. Ticks(ms) \in 1 .. Slots - 1
      BY <1>7, TicksPositive DEF StartTimer
    <2>2. (pos + Ticks(ms)) % Slots =
             IF pos + Ticks(ms) < Slots THEN pos + Ticks(ms)
                                        ELSE pos + Ticks(ms) - Slots
      <3>1. Ticks(ms) \in 0 .. Slots - 1 /\ pos \in 0 .. Slots - 1
        BY <2>1 DEF WheelTypeOK
      <3> QED
        BY Zenon, <3>1, SlotAhead
    <2>3. slot'[t] = (pos + Ticks(ms)) % Slots /\ togo'[t] = Ticks(ms)
      BY <1>7 DEF StartTimer, WheelTypeOK
    <2>4. /\ \A u \in Timers : u # t => slot'[u] = slot[u] /\ togo'[u] = togo[u]
          /\ UNCHANGED <<pos, wheel>>
      BY <1>7 DEF StartTimer, WheelTypeOK
    <2>5. /\ slot'[t] = pos + togo'[t] \/ slot'[t] = pos + togo'[t] - Slots
          /\ togo'[t] \in 1 .. Slots - 1
      BY <2>1, <2>2, <2>3 DEF WheelTypeOK
    <2> QED
      BY <2>4, <2>5 DEF OnTime
  <1> QED
    BY <1>1, <1>2, <1>3, <1>4, <1>5, <1>6, <1>7 DEF WheelNext, NodeThread, WheelThread

(* The place of a timer in its slot's list is the number of its start.      *)
PlaceIsBorn == place = born

(* Every step keeps the order of linking.                                   *)
LEMMA PlaceStep == PlaceIsBorn /\ [WheelNext]_wheelVars => PlaceIsBorn'
  BY DEF PlaceIsBorn, WheelNext, NodeThread, WheelThread, wheelVars, Discard, Fire, Startup,
         Shutdown, ThreadExit, Advance, ExpireTimer, Post, SweepDone, StopTimer, StartTimer, LinkPlace

-----------------------------------------------------------------------------
(* Every reachable state is well typed: the wheel is indexed in range.      *)
THEOREM TypeCorrect == WheelSpec => []WheelTypeOK
  <1>1. WheelInit => WheelTypeOK
    BY RevInit DEF RevInv
  <1> QED
    BY <1>1, TypePreserved, PTL DEF WheelSpec

(* The inductive invariant holds in every reachable state.                  *)
THEOREM RevInvariant == WheelSpec => []RevInv
  BY RevInit, RevStep, PTL DEF WheelSpec

(* timeout () is never called on a timer that its owner stopped or          *)
(* restarted after the wheel thread took it off the wheel, whatever the     *)
(* interleaving of the two threads (Timeout::dispatch, TimerWheel::tick).   *)
THEOREM NoStaleTimeoutSafe == WheelSpec => []NoStaleTimeout
  <1>1. RevInv => NoStaleTimeout
    BY DEF RevInv
  <1> QED
    BY <1>1, RevInvariant, PTL

(* A started timer is never forgotten: the revision count discards only     *)
(* items that a later start or stop has replaced.                           *)
THEOREM ArmedIsPendingSafe == WheelSpec => []ArmedIsPending
  <1>1. RevInv => ArmedIsPending
    BY DEF RevInv
  <1> QED
    BY <1>1, RevInvariant, PTL

(* A timer expires at exactly the tick it was started for, for every wheel  *)
(* size and whatever the sweep is doing when start runs.                    *)
THEOREM OnTimeSafe == WheelSpec => []OnTime
  <1>1. WheelInit => OnTime
    BY DEF WheelInit, OnTime, Linked, Unlinked
  <1> QED
    BY <1>1, TypeCorrect, OnTimeStep, PTL DEF WheelSpec

(* The wheel never leaves its array and no timer on it misses its tick      *)
(* (TimerWheel::tick, TimerWheel::start).                                   *)
THEOREM WheelSoundSafe == WheelSpec => []WheelSound
  BY TypeCorrect, OnTimeSafe, PTL DEF WheelSound

(* Timers due at the same tick expire in start order (the comment in        *)
(* TimerWheel::start).                                                      *)
THEOREM FireOrderSafe == WheelSpec => FireOrder
  <1> DEFINE Ordered ==
        wheel = "sweep" /\ wheel' = "post" =>
          \A u \in Timers : slot[u] = pos => born[item'.timer] <= born[u]
  <1>1. WheelInit => PlaceIsBorn
    BY DEF WheelInit, PlaceIsBorn
  <1>2. PlaceIsBorn /\ [WheelNext]_wheelVars => [Ordered]_wheelVars
    <2> SUFFICES ASSUME PlaceIsBorn, WheelNext, wheel = "sweep", wheel' = "post"
                 PROVE  \A u \in Timers : slot[u] = pos => born[item'.timer] <= born[u]
      BY DEF wheelVars
    <2>1. PICK t \in Timers : ExpireTimer(t)
      BY DEF WheelNext, NodeThread, WheelThread, Discard, Fire, Startup, Shutdown,
             ThreadExit, Advance, Post, SweepDone, StopTimer, StartTimer
    <2>2. item'.timer = t
      BY <2>1 DEF ExpireTimer
    <2> QED
      BY <2>1, <2>2 DEF ExpireTimer, Front, PlaceIsBorn
  <1>3. WheelSpec => []PlaceIsBorn
    BY <1>1, PlaceStep, PTL DEF WheelSpec
  <1> QED
    BY <1>2, <1>3, PTL DEF WheelSpec, FireOrder
=============================================================================
