------------------------------- MODULE Ddcmp --------------------------------
(***************************************************************************)
(* The DDCMP protocol engine (src/datalink/ddcmp.cc), run by the two       *)
(* stations of a line.  Each method of the engine that changes its state   *)
(* is an operator from an engine to an engine; the messages it hands to    *)
(* its send hook pile up in the field out and go on the line at the end of *)
(* the step.                                                               *)
(*                                                                         *)
(* The line delivers in order.  While it is lossy it may lose a message, or *)
(* damage the payload of one; a lossy line may get well for good.          *)
(*                                                                         *)
(* ackflag_ is raised and answered inside one call of receive, so it is no *)
(* part of the state between steps.  A payload is the count of payloads    *)
(* the station has been given so far: successive ones are told apart.      *)
(***************************************************************************)
EXTENDS Integers, Sequences

CONSTANT Confs   \* the lines checked: their parameters and bounds

ASSUME DdcmpAssumption ==
    \A c \in Confs :
        /\ c.modulus \in Nat /\ c.qmax \in Nat \ {0} /\ c.qmax < c.modulus
        /\ c.lossy \in BOOLEAN /\ c.prompt \in BOOLEAN /\ c.capacity \in Nat

Stations == {"A", "B"}
Peer(i) == IF i = "A" THEN "B" ELSE "A"

None == [resp |-> 0, data |-> 0]

VARIABLES
    conf,     \* the line of this behaviour
    eng,      \* the engine of each station: state_, r_, a_, n_, unack_,
              \* notsent_, its timer, and the history of the payloads it has
              \* delivered (got) and has seen acknowledged (acked)
    line,     \* messages under way to each station
    lossy,    \* the line may lose and damage messages
    given,    \* payloads each station has been given
    resets    \* restarts and maintenance messages so far

vars == <<conf, eng, line, lossy, given, resets>>

Modulus == conf.modulus       \* of the sequence numbers: 256
QMax == conf.qmax             \* qmax_, the window: 7
Lossy == conf.lossy           \* the line is lossy to begin with
Prompt == conf.prompt         \* timers outlast the line: none fires with a
                              \* message under way
MaxSend == conf.send          \* bound: payloads each station is given
Capacity == conf.capacity     \* bound: messages a lossy line can hold
MaxLine == conf.line          \* bound: messages under way when a station may
                              \* add more
MaxResets == conf.resets      \* bound: restarts asked for by routing
MaxMaint == conf.maint        \* bound: maintenance messages

Seqs == 0 .. Modulus - 1
-----------------------------------------------------------------------------
(* Seq: addition, distance and the window test are modulo Modulus.          *)
Plus(x, k) == (x + k) % Modulus
Dist(x, y) == (y - x) % Modulus
InWindow(s, lo, hi) == Dist(lo, s) # 0 /\ Dist(lo, s) <= Dist(lo, hi)

Msg(kind, num, resp, data) == [kind |-> kind, num |-> num, resp |-> resp, data |-> data]
Start == Msg("start", 0, 0, 0)
Stack == Msg("stack", 0, 0, 0)
Ack(e) == Msg("ack", 0, e.r, 0)
Nak(e) == Msg("nak", 0, e.r, 0)
Rep(e) == Msg("rep", e.n, 0, 0)
Maintenance == Msg("maint", 0, 0, 0)
Data(e, s) == Msg("data", s, e.unack[s].resp, e.unack[s].data)

(* send_msg: the second form also starts the timer.                         *)
SendMsg(e, m) == [e EXCEPT !.out = Append(@, m)]
SendTimed(e, m) == [SendMsg(e, m) EXCEPT !.timer = TRUE]

Pending(e) == Dist(e.a, e.n)

InitState(e) ==
    [e EXCEPT !.r = 0, !.a = 0, !.n = 0, !.timer = FALSE,
              !.unack = [s \in Seqs |-> None], !.notsent = <<>>]

Connected(e) == [SendTimed(InitState(e), Start) EXCEPT !.st = "istart"]

DoRestart(e) == IF e.st = "istart" THEN e ELSE Connected(e)

EnterRunning(e) == [e EXCEPT !.st = "running", !.timer = FALSE]

\* Faulty variant: one more than the window holds.
RoomOneMore(e) ==
    IF Len(e.notsent) <= QMax - Pending(e) THEN Len(e.notsent) ELSE QMax - Pending(e) + 1

(* send_queued: number and store what the window has room for, and send it  *)
(* unless the retransmission after a NAK is going to.                       *)
Room(e) == IF Len(e.notsent) < QMax - Pending(e) THEN Len(e.notsent) ELSE QMax - Pending(e)

Queued(e) ==
    LET n == Plus(e.n, Room(e)) IN
    [e EXCEPT !.n = n,
              !.unack = [s \in Seqs |-> IF InWindow(s, e.n, n)
                                        THEN [resp |-> e.r, data |-> e.notsent[Dist(e.n, s)]]
                                        ELSE @[s]],
              !.notsent = SubSeq(@, Room(e) + 1, Len(@))]

SendQueued(e, queueOnly) ==
    LET q == Queued(e) IN
    IF queueOnly \/ Room(e) = 0 THEN q
    ELSE [q EXCEPT !.out = @ \o [k \in 1 .. Room(e) |-> Data(q, Plus(e.n, k))],
                   !.timer = TRUE]

(* process_ack: an acknowledgement outside the window is stale.  Else free  *)
(* what it acknowledges, run the timer while something is outstanding, and  *)
(* fill the window.                                                         *)
Stale(e, m) == Dist(e.a, m.resp) > Pending(e)

Freed(e, m) ==
    [e EXCEPT !.a = m.resp,
              !.timer = (m.resp # e.n),
              !.unack = [s \in Seqs |-> IF InWindow(s, e.a, m.resp) THEN None ELSE @[s]],
              !.acked = @ \cup {e.unack[s].data : s \in {x \in Seqs : InWindow(x, e.a, m.resp)}}]

ProcessAck(e, m) ==
    IF Stale(e, m) THEN e ELSE SendQueued(Freed(e, m), m.kind = "nak")

(* retransmit: everything outstanding, as it was first sent.  The code      *)
(* skips an empty slot; WindowOK says that there is none.                   *)
Retransmit(e) ==
    [e EXCEPT !.out = @ \o [k \in 1 .. Pending(e) |-> Data(e, Plus(e.a, k))],
              !.timer = @ \/ Pending(e) > 0]
-----------------------------------------------------------------------------
\* Faulty variant: takes any message it does not have yet.
InSequenceNewer(e, m) == m.num # e.r

(* receive, in the running state.  Data out of sequence is ignored.         *)
InSequence(e, m) == m.num = Plus(e.r, 1)

\* Faulty variant: the number last received does not wrap.
AcceptNoWrap(e, m) == [e EXCEPT !.r = @ + 1, !.got = Append(@, m.data)]

Accept(e, m) == [e EXCEPT !.r = m.num, !.got = Append(@, m.data)]

\* Faulty variant: acknowledges the number of the message it ignores.
RunDataAcksAny(e, m) ==
    LET p == ProcessAck(e, m) IN
    IF InSequence(p, m) THEN LET d == Accept(p, m) IN SendMsg(d, Ack(d))
    ELSE SendMsg(p, Msg("ack", 0, m.num, 0))

RunData(e, m) ==
    LET p == ProcessAck(e, m) IN
    IF InSequence(p, m) THEN LET d == Accept(p, m) IN SendMsg(d, Ack(d)) ELSE p

Maint(e) == [InitState(e) EXCEPT !.st = "maint"]

\* Faulty variant: a running station leaves a repeated STACK unanswered.
RestackIgnored(e) == e

Restack(e) == SendMsg(e, Ack(e))

Running(e, m) ==
    CASE m.kind = "data" -> RunData(e, m)
      [] m.kind = "ack" -> ProcessAck(e, m)
      [] m.kind = "nak" -> IF Stale(e, m) THEN e ELSE Retransmit(ProcessAck(e, m))
      [] m.kind = "rep" -> SendMsg(e, IF m.num = e.r THEN Ack(e) ELSE Nak(e))
      [] m.kind = "stack" -> Restack(e)
      [] m.kind = "start" -> DoRestart(e)
      [] m.kind = "maint" -> Maint(e)

(* receive, in the states of the handshake.                                 *)
Starting(e, m) ==
    CASE m.kind = "stack" -> LET u == EnterRunning(e) IN SendMsg(u, Ack(u))
      [] m.kind = "maint" -> Maint(e)
      [] m.kind = "start" -> [SendTimed(e, Stack) EXCEPT !.st = "astart"]
      [] e.st = "astart" /\ m.kind \in {"ack", "data"} /\ m.resp = 0 ->
            Running(EnterRunning(e), m)
      [] OTHER -> e

Receive(e, m) ==
    CASE e.st = "running" -> Running(e, m)
      [] e.st \in {"istart", "astart"} -> Starting(e, m)
      [] e.st = "maint" /\ m.kind = "start" -> DoRestart(e)
      [] OTHER -> e

(* receive_error: the header of a damaged data message is still good; that  *)
(* of a maintenance message carries no acknowledgement.                     *)
ReceiveError(e, m) ==
    IF e.st # "running" THEN e
    ELSE LET p == IF m.kind = "data" THEN ProcessAck(e, m) ELSE e IN SendMsg(p, Nak(p))

\* Faulty variant: the reply timer is not started again.
TimeoutOnce(e) ==
    LET f == [e EXCEPT !.timer = FALSE] IN
    CASE e.st = "istart" -> SendTimed(f, Start)
      [] e.st = "astart" -> SendTimed(f, Stack)
      [] e.st = "running" -> SendMsg(f, Rep(e))
      [] OTHER -> f

(* timeout: the timer has run out.                                          *)
Timeout(e) ==
    LET f == [e EXCEPT !.timer = FALSE] IN
    CASE e.st = "istart" -> SendTimed(f, Start)
      [] e.st = "astart" -> SendTimed(f, Stack)
      [] e.st = "running" -> SendTimed(f, Rep(e))
      [] OTHER -> f

SendData(e, p) ==
    IF e.st # "running" THEN e
    ELSE SendQueued([e EXCEPT !.notsent = Append(@, p)], FALSE)
-----------------------------------------------------------------------------
Init ==
    /\ conf \in Confs
    /\ eng = [i \in Stations |->
                [st |-> "halted", r |-> 0, a |-> 0, n |-> 0,
                 unack |-> [s \in Seqs |-> None], notsent |-> <<>>,
                 timer |-> FALSE, out |-> <<>>, got |-> <<>>, acked |-> {}]]
    /\ line = [i \in Stations |-> <<>>]
    /\ lossy = Lossy
    /\ given = [i \in Stations |-> 0]
    /\ resets = 0

(* Station i becomes e; what it sent joins what is left under way.  Bound:  *)
(* a line that was lossy holds Capacity messages, and no more.              *)
Fit(msgs) == IF Lossy /\ Len(msgs) > Capacity THEN SubSeq(msgs, 1, Capacity) ELSE msgs

Step(i, e, left) ==
    /\ eng' = [eng EXCEPT ![i] = [e EXCEPT !.out = <<>>]]
    /\ line' = [left EXCEPT ![Peer(i)] = Fit(@ \o e.out)]

Rest(i) == [line EXCEPT ![i] = Tail(@)]

Quiet(i) == Len(line[Peer(i)]) < MaxLine

Connect(i) ==
    /\ eng[i].st = "halted"
    /\ Step(i, Connected(eng[i]), line)
    /\ UNCHANGED <<conf, lossy, given, resets>>

Restart(i) ==
    /\ eng[i].st # "halted" /\ resets < MaxResets /\ Quiet(i)
    /\ resets' = resets + 1
    /\ Step(i, DoRestart(eng[i]), line)
    /\ UNCHANGED <<conf, lossy, given>>

SendMaintenance(i) ==
    /\ eng[i].st # "halted" /\ resets < MaxMaint /\ Quiet(i)
    /\ resets' = resets + 1
    /\ Step(i, SendMsg(eng[i], Maintenance), line)
    /\ UNCHANGED <<conf, lossy, given>>

Send(i) ==
    /\ eng[i].st = "running" /\ given[i] < MaxSend[i] /\ Quiet(i)
    /\ given' = [given EXCEPT ![i] = @ + 1]
    /\ Step(i, SendData(eng[i], given[i] + 1), line)
    /\ UNCHANGED <<conf, lossy, resets>>

Expire(i) ==
    /\ eng[i].timer /\ Quiet(i)
    /\ Prompt => \A j \in Stations : line[j] = <<>>
    /\ Step(i, Timeout(eng[i]), line)
    /\ UNCHANGED <<conf, lossy, given, resets>>

Arrive(i) ==
    /\ line[i] # <<>>
    /\ Step(i, Receive(eng[i], Head(line[i])), Rest(i))
    /\ UNCHANGED <<conf, lossy, given, resets>>

ArriveDamaged(i) ==
    /\ lossy /\ line[i] # <<>> /\ Head(line[i]).kind \in {"data", "maint"}
    /\ Step(i, ReceiveError(eng[i], Head(line[i])), Rest(i))
    /\ UNCHANGED <<conf, lossy, given, resets>>

Lose(i) ==
    /\ lossy /\ line[i] # <<>>
    /\ line' = Rest(i)
    /\ UNCHANGED <<conf, eng, lossy, given, resets>>

Heal ==
    /\ lossy /\ lossy' = FALSE
    /\ UNCHANGED <<conf, eng, line, given, resets>>

Next ==
    \/ Heal
    \/ \E i \in Stations :
        \/ Connect(i) \/ Restart(i) \/ SendMaintenance(i) \/ Send(i)
        \/ Expire(i) \/ Arrive(i) \/ ArriveDamaged(i) \/ Lose(i)

Spec == Init /\ [][Next]_vars
-----------------------------------------------------------------------------
(* When Connect, Arrive and Expire can be taken, and the steps that they    *)
(* alone take once the line is well.                                        *)
Halted(i) == eng[i].st = "halted"
UnderWay(i) == line[i] # <<>>
Idle(i) == \A j \in Stations : line[j] = <<>>
Due(i) == eng[i].timer /\ Quiet(i) /\ (Prompt => Idle(i))

Opens(i) == Halted(i) /\ eng'[i].st # "halted"
Taken(i) == Len(line'[i]) < Len(line[i])

(* The line is lossy for some time only, messages under way arrive, and a   *)
(* timer fires even if the other station's keeps the line busy meanwhile.   *)
Fairness ==
    /\ <>~lossy
    /\ \A i \in Stations :
        /\ []<>~Halted(i) \/ []<><<Opens(i)>>_vars
        /\ []<>~UnderWay(i) \/ []<><<Taken(i)>>_vars
        /\ <>[]~Due(i) \/ []<><<Expire(i)>>_vars

FairSpec == Spec /\ Fairness
-----------------------------------------------------------------------------
Kinds == {"data", "ack", "nak", "rep", "start", "stack", "maint"}
Message == [kind : Kinds, num : Seqs, resp : Seqs, data : Nat]
Slot == [resp : Seqs, data : Nat]

(* The type of an engine.                                                   *)
Engine ==
    [st : {"halted", "istart", "astart", "running", "maint"},
     r : Seqs, a : Seqs, n : Seqs, unack : [Seqs -> Slot], notsent : Seq(Nat \ {0}),
     timer : BOOLEAN, out : Seq(Message), got : Seq(Nat), acked : SUBSET Nat]

(* Sequence numbers stay below the modulus and every variable has its type. *)
TypeOK ==
    /\ eng \in [Stations -> Engine]
    /\ line \in [Stations -> Seq(Message)]
    /\ lossy \in BOOLEAN
    /\ given \in [Stations -> Nat]
    /\ resets \in Nat

(* The window of a station never exceeds qmax_, whatever acknowledgements   *)
(* arrive; unack_ holds a message for exactly the numbers in the window, so *)
(* a retransmission never misses one; and payloads wait in notsent_ only    *)
(* while the window is full (process_ack, send_queued, init_state).         *)
EngineWindowOK(e) ==
    /\ Pending(e) <= QMax
    /\ \A s \in Seqs : (e.unack[s] # None) <=> InWindow(s, e.a, e.n)
    /\ e.notsent # <<>> => Pending(e) = QMax

WindowOK == \A i \in Stations : EngineWindowOK(eng[i])

EngineOK == TypeOK /\ WindowOK

(* A station delivers no payload twice and none out of order, also when     *)
(* sequence numbers wrap and when sessions restart (the check of num).      *)
InOrder ==
    \A i \in Stations : \A k \in 1 .. Len(eng[i].got) - 1 : eng[i].got[k] < eng[i].got[k + 1]

(* A payload that its sender takes to be acknowledged (process_ack frees    *)
(* its slot) has been delivered by the peer.                                *)
Delivered(i) == {eng[i].got[k] : k \in 1 .. Len(eng[i].got)}

NoSilentLoss == \A i \in Stations : eng[i].acked \subseteq Delivered(Peer(i))

(* Delivery is in order and at most once, over restarts too; and without    *)
(* them an acknowledgement means delivery (process_ack, check of num).      *)
Delivery == InOrder /\ (Prompt /\ MaxResets = 0 => NoSilentLoss)

(* Two stations that are connected, and restarted no more, complete the     *)
(* handshake and stay running, if timers outlast the line: neither restarts *)
(* the other for ever.                                                      *)
SettlesRunning == <>[](Prompt => \A i \in Stations : eng[i].st = "running")

(* Everything a station has outstanding is acknowledged in the end.         *)
Drains == \A i \in Stations : (Prompt /\ Pending(eng[i]) > 0) ~> (Pending(eng[i]) = 0)

(* After losses and a restart the handshake completes for good (Protocol's  *)
(* start states) and what is outstanding is acknowledged (timeout, REP).    *)
Settles == SettlesRunning /\ Drains
-----------------------------------------------------------------------------
(* Two DDCMP engines implement a reliable link in each direction.           *)
Last(got) == IF got = <<>> THEN 0 ELSE got[Len(got)]

(* What the link holds: what a station was given, outstanding or waiting    *)
(* for the window, and its peer has not delivered.                          *)
Held(i) ==
    LET e == eng[i]
        window == [k \in 1 .. Pending(e) |-> e.unack[Plus(e.a, k)].data]
    IN SelectSeq(window \o e.notsent, LAMBDA p : p > Last(eng[Peer(i)].got))

Link == INSTANCE ReliableLink WITH
            Payloads <- UNION {1 .. c.send[i] : c \in Confs, i \in Stations},
            held <- [i \in Stations |-> IF MaxResets = 0 THEN Held(i) ELSE <<>>],
            got <- [i \in Stations |-> IF MaxResets = 0 THEN eng[i].got ELSE <<>>]

(* As long as neither engine restarts, each payload given to a station is   *)
(* delivered by its peer once and in order, whatever the line loses or      *)
(* damages: no acknowledgement takes a payload off the link.                *)
ImplementsReliableLink == Link!Spec
=============================================================================
