----------------------------- MODULE TimerWheel -----------------------------
(***************************************************************************)
(* The timer wheel of a node and the way its expiries reach the node       *)
(* thread (include/decnet/common/timers.h, src/common/timers.cc, the work  *)
(* queue of include/decnet/common/work.h).                                 *)
(*                                                                         *)
(* Two threads take part.  The wheel thread advances the wheel one slot    *)
(* per tick and, one timer at a time under the wheel's mutex, unlinks what *)
(* is due and posts a Timeout work item outside the mutex.  The node       *)
(* thread takes work items off the queue; its handlers start and stop      *)
(* timers.  An expiry is therefore decided on one thread and delivered on  *)
(* the other, and the timer may have been stopped or restarted in between: *)
(* every item carries the timer's revision count and a changed count makes *)
(* the item stale.                                                         *)
(*                                                                         *)
(* The doubly linked list of a slot is represented by slot[t], the slot a  *)
(* timer is linked on, and place[t], its place in the list's order.        *)
(***************************************************************************)
EXTENDS Integers, Sequences

CONSTANTS Timers,    \* the Timer objects
          Slots,     \* wheel_.size ()
          TickMs,    \* tick_, in milliseconds
          Requests,  \* the intervals, in milliseconds, that layers ask for
          MaxRev     \* bound: no owner operates on a timer past this count

ASSUME WheelAssumption ==
    /\ Slots \in Nat /\ Slots > 1
    /\ TickMs \in Nat /\ TickMs > 0
    /\ Requests \subseteq Nat

ASSUME NoWrapAssumption == MaxRev < 2^30   \* revcount_ (unsigned) never wraps

VARIABLES
    pos,      \* pos_: the slot the wheel stands at
    slot,     \* slot[t]: the slot t is linked on, or Unlinked
    place,    \* place[t]: order of t within the list of its slot
    links,    \* how many times a timer was linked
    rev,      \* rev[t]: Cque::revcount_
    running,  \* running_
    wheel,    \* the wheel thread: "none", "idle", "sweep" or "post"
    item,     \* the expired timer and its captured count, while "post"
    queue,    \* the Timeout items in the node's work queue
    \* history, read by no action
    armed,    \* armed[t]: started by its owner, not stopped or fired since
    togo,     \* togo[t]: ticks to go until t is due
    born      \* born[t]: the number of the start that armed t

wheelVars == <<pos, slot, place, links, rev, running, wheel, item, queue,
               armed, togo, born>>

Unlinked == -1
NoItem == [timer |-> Unlinked, rev |-> 0]

WheelInit ==
    /\ pos = 0
    /\ slot = [t \in Timers |-> Unlinked]
    /\ place = [t \in Timers |-> 0]
    /\ links = 0
    /\ rev = [t \in Timers |-> 0]
    /\ running = FALSE
    /\ wheel = "none"
    /\ item = NoItem
    /\ queue = <<>>
    /\ armed = [t \in Timers |-> FALSE]
    /\ togo = [t \in Timers |-> 0]
    /\ born = [t \in Timers |-> 0]

-----------------------------------------------------------------------------
(* Cque::linked and Cque::unlink.  Unlinking is counted even when the timer *)
(* is on no list.                                                           *)
Linked(t) == slot[t] # Unlinked

Unlink(t) ==
    /\ slot' = [slot EXCEPT ![t] = Unlinked]
    /\ rev' = [rev EXCEPT ![t] = @ + 1]

(* Faulty variant of Ticks: no minimum of one tick.                         *)
TicksNoMinimum(ms) == ms \div TickMs

(* TimerWheel::start: the interval in ticks, at least one.                  *)
Ticks(ms) == IF ms \div TickMs = 0 THEN 1 ELSE ms \div TickMs

(* Faulty variant of LinkPlace: add_after, the front of the list.           *)
LinkPlaceFront(n) == -n

(* The place add_before gives an item on a slot's list head: the back.      *)
LinkPlace(n) == n + 1

(* A handler on the node thread starts, or restarts, a timer.  An interval  *)
(* the wheel does not span throws before anything changes.                  *)
StartTimer(t, ms) ==
    /\ rev[t] < MaxRev
    /\ Ticks(ms) < Slots
    /\ slot' = [slot EXCEPT ![t] = (pos + Ticks(ms)) % Slots]
    /\ rev' = [rev EXCEPT ![t] = @ + 1]
    /\ place' = [place EXCEPT ![t] = LinkPlace(links)]
    /\ links' = links + 1
    /\ armed' = [armed EXCEPT ![t] = TRUE]
    /\ togo' = [togo EXCEPT ![t] = Ticks(ms)]
    /\ born' = [born EXCEPT ![t] = links + 1]
    /\ UNCHANGED <<pos, running, wheel, item, queue>>

(* A handler on the node thread stops a timer.                              *)
StopTimer(t) ==
    /\ rev[t] < MaxRev
    /\ Unlink(t)
    /\ armed' = [armed EXCEPT ![t] = FALSE]
    /\ UNCHANGED <<pos, place, links, running, wheel, item, queue, togo, born>>

(* Faulty variant of StaleItem: only a count from the future is stale.      *)
StaleItemIfAhead(w) == rev[w.timer] < w.rev

(* Timeout::dispatch on the node thread: drop the item when the count has   *)
(* moved on, call timeout () otherwise.                                     *)
StaleItem(w) == rev[w.timer] # w.rev

Discard ==
    /\ queue # <<>>
    /\ StaleItem(Head(queue))
    /\ queue' = Tail(queue)
    /\ UNCHANGED <<pos, slot, place, links, rev, running, wheel, item,
                   armed, togo, born>>

Fire ==
    /\ queue # <<>>
    /\ ~ StaleItem(Head(queue))
    /\ queue' = Tail(queue)
    /\ armed' = [armed EXCEPT ![Head(queue).timer] = FALSE]
    /\ UNCHANGED <<pos, slot, place, links, rev, running, wheel, item,
                   togo, born>>
-----------------------------------------------------------------------------
(* TimerWheel::startup and shutdown.  Shutdown clears running_ and then     *)
(* joins, so the thread is gone before the wheel can be started again.      *)
Startup ==
    /\ ~ running /\ wheel = "none"
    /\ running' = TRUE
    /\ wheel' = "idle"
    /\ UNCHANGED <<pos, slot, place, links, rev, item, queue, armed, togo, born>>

Shutdown ==
    /\ running
    /\ running' = FALSE
    /\ UNCHANGED <<pos, slot, place, links, rev, wheel, item, queue,
                   armed, togo, born>>

(* TimerWheel::run: the loop condition is tested between ticks only.        *)
ThreadExit ==
    /\ wheel = "idle" /\ ~ running
    /\ wheel' = "none"
    /\ UNCHANGED <<pos, slot, place, links, rev, running, item, queue,
                   armed, togo, born>>

(* Faulty variant of NextPos: no wrap.                                      *)
NextPosNoWrap(p) == p + 1

(* TimerWheel::tick, first critical section: the wheel moves on a slot.     *)
NextPos(p) == (p + 1) % Slots

Advance ==
    /\ wheel = "idle" /\ running
    /\ pos' = NextPos(pos)
    /\ wheel' = "sweep"
    /\ togo' = [t \in Timers |-> IF Linked(t) THEN togo[t] - 1 ELSE togo[t]]
    /\ UNCHANGED <<slot, place, links, rev, running, item, queue, armed, born>>

(* Each later critical section: the front of the list is unlinked and its   *)
(* count is read, in that order.                                            *)
Front(t) ==
    /\ slot[t] = pos
    /\ \A u \in Timers : slot[u] = pos => place[t] <= place[u]

(* Faulty variant of CapturedRev: the count is read before the unlink.      *)
CapturedRevEarly(t) == rev[t]

CapturedRev(t) == rev[t] + 1

ExpireTimer(t) ==
    /\ wheel = "sweep"
    /\ Front(t)
    /\ Unlink(t)
    /\ item' = [timer |-> t, rev |-> CapturedRev(t)]
    /\ wheel' = "post"
    /\ UNCHANGED <<pos, place, links, running, queue, armed, togo, born>>

(* Outside the mutex: add_work.                                             *)
Post ==
    /\ wheel = "post"
    /\ queue' = Append(queue, item)
    /\ item' = NoItem
    /\ wheel' = "sweep"
    /\ UNCHANGED <<pos, slot, place, links, rev, running, armed, togo, born>>

SweepDone ==
    /\ wheel = "sweep"
    /\ \A t \in Timers : slot[t] # pos
    /\ wheel' = "idle"
    /\ UNCHANGED <<pos, slot, place, links, rev, running, item, queue,
                   armed, togo, born>>
-----------------------------------------------------------------------------
NodeThread == Discard \/ Fire

WheelThread ==
    \/ Advance \/ Post \/ SweepDone \/ ThreadExit
    \/ \E t \in Timers : ExpireTimer(t)

WheelNext ==
    \/ NodeThread
    \/ WheelThread
    \/ Startup \/ Shutdown
    \/ \E t \in Timers : StopTimer(t)
    \/ \E t \in Timers, ms \in Requests : StartTimer(t, ms)

WheelSpec == WheelInit /\ [][WheelNext]_wheelVars

(* The wheel thread wakes up every tick and the node thread drains its      *)
(* queue: both are always running threads.  Starting, stopping and shutting *)
(* down are choices and get no fairness.                                    *)
FairWheelSpec == WheelSpec /\ WF_wheelVars(NodeThread) /\ WF_wheelVars(WheelThread)
-----------------------------------------------------------------------------
Items == [timer : Timers, rev : Nat]

(* The types of the variables, and that the wheel never stands at or links  *)
(* a timer on a slot that does not exist (wheel_ is indexed unchecked).      *)
WheelTypeOK ==
    /\ pos \in 0 .. Slots - 1
    /\ slot \in [Timers -> -1 .. Slots - 1]
    /\ place \in [Timers -> Int]
    /\ links \in Nat
    /\ rev \in [Timers -> Nat]
    /\ running \in BOOLEAN
    /\ wheel \in {"none", "idle", "sweep", "post"}
    /\ wheel = "post" => item \in Items
    /\ queue \in Seq(Items)
    /\ armed \in [Timers -> BOOLEAN]
    /\ togo \in [Timers -> Int]
    /\ born \in [Timers -> Nat]

(* Timeout::dispatch never calls timeout () on a timer whose owner stopped  *)
(* or restarted it after the wheel decided that it expired, nor a second    *)
(* time for one start: an item that passes the revcount check belongs to a  *)
(* timer that is still armed.                                               *)
NoStaleTimeout ==
    \A i \in 1 .. Len(queue) :
        ~ StaleItem(queue[i]) => armed[queue[i].timer]

(* No start is ever lost: a timer that is armed is linked on the wheel, in  *)
(* the hands of the wheel thread, or in the queue with a current count, so  *)
(* the discard of a stale Timeout never discards the only one.              *)
ArmedIsPending ==
    \A t \in Timers : armed[t] =>
        \/ Linked(t)
        \/ wheel = "post" /\ item = [timer |-> t, rev |-> rev[t]]
        \/ \E i \in 1 .. Len(queue) : queue[i] = [timer |-> t, rev |-> rev[t]]

(* A linked timer is as many slots ahead of the wheel as it has ticks togo, *)
(* whenever start ran relative to tick: in particular nothing that starts   *)
(* during a sweep lands on the slot being swept, and a sweep leaves nothing *)
(* behind for the next turn of the wheel.                                   *)
OnTime ==
    \A t \in Timers : Linked(t) =>
        /\ slot[t] = pos + togo[t] \/ slot[t] = pos + togo[t] - Slots
        /\ togo[t] \in 0 .. Slots - 1
        /\ togo[t] = 0 => wheel \in {"sweep", "post"}

(* The wheel keeps to its array and every timer on it to its tick (tick,    *)
(* start).                                                                  *)
WheelSound == WheelTypeOK /\ OnTime

(* Timers due at the same tick expire in the order they were started, which *)
(* the comment in start says NSP relies on.                                 *)
FireOrder ==
    [][wheel = "sweep" /\ wheel' = "post" =>
         \A u \in Timers : slot[u] = pos => born[item'.timer] <= born[u]]_wheelVars

(* While the wheel runs, a started timer fires unless its owner stops it    *)
(* (or restarts it for ever, which MaxRev excludes).                        *)
ArmedFires ==
    \A t \in Timers : armed[t] ~> (~ armed[t] \/ ~ running)
=============================================================================
