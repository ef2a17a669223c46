-------------------------------- MODULE Mop ---------------------------------
(***************************************************************************)
(* MOP on one circuit, src/mop/mop.cc, and the requests API clients make   *)
(* of it, Client::mop_request and mop_loop of src/api/server.cc: system    *)
(* identity, counters and loopback, each with a receipt number, one timer  *)
(* for all that wait, and loop tests of several messages.                  *)
(*                                                                         *)
(* Every station of the LAN runs the same handlers.  Frames arrive in any  *)
(* order, or never; a multicast loop is answered by everybody.  A          *)
(* message carries, as history, the number of the request it belongs to    *)
(* (no) and a loop message the stations it went through (went).            *)
(***************************************************************************)
EXTENDS Integers, Sequences, FiniteSets, FiniteSetsExt, SequencesExt

CONSTANTS Stations,   \* the other stations of the circuit
          Self,       \* this one
          Receipts,   \* the receipt numbers, 0 among them: 2^16
          Jobs,       \* the requests one API client makes
          Confs,      \* what it may ask for
          Timeout,    \* ticks a request waits
          Pause,      \* ticks between two loop messages
          None

VARIABLES conf,   \* the requests of this behaviour, by job
          mop,    \* the circuit: receipt_, pending_, its timer, heard_
          job,    \* the client's requests under way, and their answers
          wire,   \* frames on the LAN
          left    \* budgets of the environment

vars == <<conf, mop, job, wire, left>>

Multicast == "multicast"
-----------------------------------------------------------------------------
(* The one timer waits for the earliest deadline, at least a tick.          *)
rearm(m) ==
    [m EXCEPT !.timer =
        IF m.pending = <<>> THEN None
        ELSE Max({1, Min({m.pending[r].left : r \in DOMAIN m.pending})})]

\* Faulty variant: the least number that is free.
next_receiptFirst(m) == Min(Receipts \ ({0} \cup DOMAIN m.pending))

(* The next number that is neither 0 nor waited for.                        *)
next_receipt(m) ==
    LET Free(r) == r # 0 /\ r \notin DOMAIN m.pending
        Nth(i) == (m.receipt + i) % Cardinality(Receipts)
    IN Nth(Min({i \in 1 .. Cardinality(Receipts) : Free(Nth(i))}))

Without(f, S) == [r \in DOMAIN f \ S |-> f[r]]

wait_for(m, r, kind, j, ticks) ==
    LET p == [kind |-> kind, job |-> j, left |-> ticks, no |-> m.no + 1] IN
    rearm([m EXCEPT !.receipt = r, !.no = @ + 1,
                    !.pending = [q \in DOMAIN m.pending \cup {r} |->
                                    IF q = r THEN p ELSE m.pending[q]]])

Waits(m, r, kind) == r \in DOMAIN m.pending /\ m.pending[r].kind = kind

take(m, r) == rearm([m EXCEPT !.pending = Without(@, {r})])
-----------------------------------------------------------------------------
(* What is sent: to one station, or to every other one.                     *)
Send(from, to, msg) ==
    {[from |-> from, to |-> s, msg |-> msg] :
        s \in IF to = Multicast THEN (Stations \cup {Self}) \ {from} ELSE {to}}

Message(t, r, no) == [t |-> t, receipt |-> r, no |-> no]

(* LoopHandler::loop: forward to each station after the first, then here,   *)
(* where the reply function is found.                                       *)
LoopMessage(then, r, no) ==
    [t |-> "loop", receipt |-> r, no |-> no, functions |-> Append(then, Self), skip |-> 0, went |-> <<>>]

(* MopCircuit::request_id, request_counters and loop.  Each takes what the  *)
(* node is, s, to what it becomes.                                          *)
State == [m |-> mop, j |-> job, out |-> {}]

Request(s, j, kind, dest) ==
    LET r == next_receipt(s.m)
        m == wait_for(s.m, r, kind, j, Timeout)
        msg == IF kind = "loop" THEN LoopMessage(Tail(dest), r, m.no) ELSE Message("ask " \o kind, r, m.no)
    IN [s EXCEPT !.m = m, !.out = @ \cup Send(Self, Head(dest), msg)]

After(s, j) == [s EXCEPT !.m = wait_for(@, next_receipt(s.m), "later", j, Pause)]

mop_loop(s, j) == Request(s, j, "loop", s.j[j].dest)

Answer(s, j, a) == [s EXCEPT !.j[j].answers = Append(@, a)]

(* The callbacks of a request for identity or counters, and of a loop       *)
(* message: the last one answers, another follows at once or after a pause. *)
Done(s, j, ok, from) == Answer(s, j, [ok |-> ok, from |-> from])

LoopDone(s, j, ok, from) ==
    LET c == s.j[j]
        dest == IF ok /\ Head(c.dest) = Multicast THEN <<from>> \o Tail(c.dest) ELSE c.dest
        t == [s EXCEPT !.j[j].delays = Append(@, ok), !.j[j].dest = dest]
    IN IF Len(c.delays) + 1 >= c.packets THEN Answer(t, j, [ok |-> TRUE, from |-> Head(dest)])
       ELSE IF ok /\ ~c.fast THEN After(t, j)
       ELSE mop_loop(t, j)

(* Every callback does nothing once the client has gone.                    *)
Callback(s, p, ok, from) ==
    CASE s.m.gone -> s
      [] ~s.m.gone /\ p.kind = "later" -> mop_loop(s, p.job)
      [] ~s.m.gone /\ p.kind = "loop"  -> LoopDone(s, p.job, ok, from)
      [] ~s.m.gone /\ p.kind \in {"id", "counters"} -> Done(s, p.job, ok, from)
-----------------------------------------------------------------------------
Become(s, gone) ==
    \E n \in {s} :
        /\ mop' = n.m
        /\ job' = n.j
        /\ wire' = (wire \ gone) \cup n.out

NewJob(c) == [asked |-> TRUE, dest |-> c.dest, packets |-> c.packets, fast |-> c.fast,
              delays |-> <<>>, answers |-> <<>>]

NoJob == [asked |-> FALSE, dest |-> <<>>, packets |-> 0, fast |-> FALSE, delays |-> <<>>, answers |-> <<>>]

(* Client::mop_request: a loop goes through at most three stations, none of *)
(* them a multicast address but the only one.                               *)
LoopRefused(dest) == Len(dest) > 3 \/ (Multicast \in Range(dest) /\ Len(dest) > 1)

mop_request(j) ==
    /\ mop.running /\ ~mop.gone /\ ~job[j].asked
    /\ LET c == conf[j]
           s == [State EXCEPT !.j[j] = NewJob(c)]
       IN Become(CASE c.kind = "loop" /\ LoopRefused(c.dest) -> Answer(s, j, [ok |-> FALSE, from |-> None])
                   [] c.kind = "loop" /\ ~LoopRefused(c.dest) -> mop_loop(s, j)
                   [] c.kind # "loop" -> Request(s, j, c.kind, c.dest), {})
    /\ UNCHANGED <<conf, left>>

(* MopCircuit::answer_id, answer_counters and answer_loop: an answer nobody *)
(* waits for is ignored.  took is the last one taken, and by which request. *)
answer(s, kind, msg, from) ==
    IF ~Waits(s.m, msg.receipt, kind) THEN s
    ELSE LET p == s.m.pending[msg.receipt]
             how == [asked |-> p.no, given |-> msg.no, job |-> p.job,
                     went |-> IF kind = "loop" THEN msg.went ELSE <<from>>]
         IN Callback([s EXCEPT !.m = [take(@, msg.receipt) EXCEPT !.took = {how}]], p, TRUE, from)

(* SysIdHandler::dispatch at the station a frame is for.                    *)
SysIdDispatch(f) ==
    LET m == f.msg IN
    CASE m.t = "ask id"       -> [State EXCEPT !.out = Send(f.to, f.from, Message("id", m.receipt, m.no))]
      [] m.t = "ask counters" -> [State EXCEPT !.out = Send(f.to, f.from, Message("counters", m.receipt, m.no))]
      [] m.t = "counters"     -> answer(State, "counters", m, f.from)
      [] m.t = "id"           ->
            LET s == [State EXCEPT !.m.heard = @ \cup {f.from}] IN
            IF f.to # Self THEN State ELSE IF m.receipt # 0 THEN answer(s, "id", m, f.from) ELSE s

\* Faulty variant: steps past one function too many.
LoopDispatchSkips(f) ==
    LET m == f.msg
        more == m.skip < Len(m.functions)
        next == IF m.skip + 2 <= Len(m.functions) THEN m.skip + 2 ELSE m.skip + 1
    IN IF more THEN [State EXCEPT !.out = Send(f.to, m.functions[next], [m EXCEPT !.skip = next, !.went = Append(@, f.to)])]
       ELSE IF f.to = Self THEN answer(State, "loop", m, f.from) ELSE State

(* LoopHandler::dispatch: step past the forward function and pass the       *)
(* message on, or take the reply.                                           *)
LoopDispatch(f) ==
    LET m == f.msg
        next == m.skip + 1
    IN IF next <= Len(m.functions)
       THEN IF m.functions[next] = Multicast THEN State
            ELSE [State EXCEPT !.out = Send(f.to, m.functions[next], [m EXCEPT !.skip = next, !.went = Append(@, f.to)])]
       ELSE IF f.to = Self THEN answer(State, "loop", m, f.from) ELSE State

Deliver ==
    /\ mop.running
    /\ \E f \in wire : Become(IF f.msg.t = "loop" THEN LoopDispatch(f) ELSE SysIdDispatch(f), {f})
    /\ UNCHANGED <<conf, left>>

(* SysIdHandler::timeout of any station: it says who it is.                 *)
Announce ==
    /\ left.announce > 0 /\ mop.running
    /\ \E s \in Stations \cup {Self} : wire' = wire \cup Send(s, Multicast, Message("id", 0, 0))
    /\ left' = [left EXCEPT !.announce = @ - 1]
    /\ UNCHANGED <<conf, mop, job>>

Down(n) == IF n = 0 THEN 0 ELSE n - 1

(* A tick of the clock.                                                     *)
Tick ==
    /\ mop.timer # None /\ mop.timer > 0
    /\ mop' = [mop EXCEPT !.timer = Down(@),
                          !.pending = [r \in DOMAIN @ |-> [@[r] EXCEPT !.left = Down(@)]]]
    /\ UNCHANGED <<conf, job, wire, left>>

Expired(m) == {r \in DOMAIN m.pending : m.pending[r].left = 0}

CallAll(s, ps, ok) == FoldLeft(LAMBDA t, p : Callback(t, p, ok, None), s, ps)

\* Faulty variant: the timer is not started again for the rest.
timeoutUntimed ==
    /\ mop.timer # None /\ mop.timer = 0
    /\ LET gone == Expired(mop)
           m == [mop EXCEPT !.pending = Without(@, gone), !.timer = None]
           ps == [i \in 1 .. Cardinality(gone) |-> mop.pending[SetToSortSeq(gone, <)[i]]]
       IN Become(CallAll([State EXCEPT !.m = m], ps, FALSE), {})
    /\ UNCHANGED <<conf, left>>

(* MopCircuit::timeout: what has waited too long is taken out, the timer    *)
(* started for the rest, then the callbacks, which may ask again.           *)
timeout ==
    /\ mop.timer # None /\ mop.timer = 0
    /\ LET gone == Expired(mop)
           m == rearm([mop EXCEPT !.pending = Without(@, gone)])
           ps == [i \in 1 .. Cardinality(gone) |-> mop.pending[SetToSortSeq(gone, <)[i]]]
       IN Become(CallAll([State EXCEPT !.m = m], ps, FALSE), {})
    /\ UNCHANGED <<conf, left>>

(* Client::closed.                                                          *)
ClientGoes ==
    /\ left.go > 0 /\ ~mop.gone
    /\ mop' = [mop EXCEPT !.gone = TRUE]
    /\ left' = [left EXCEPT !.go = @ - 1]
    /\ UNCHANGED <<conf, job, wire>>

(* MopCircuit::stop.  Node::stop ends the API clients before the layers.    *)
Stop ==
    /\ mop.running /\ mop.gone
    /\ LET m == [mop EXCEPT !.pending = <<>>, !.timer = None, !.running = FALSE]
           ps == [i \in 1 .. Cardinality(DOMAIN mop.pending) |->
                    mop.pending[SetToSortSeq(DOMAIN mop.pending, <)[i]]]
       IN Become(CallAll([State EXCEPT !.m = m], ps, FALSE), wire)
    /\ UNCHANGED <<conf, left>>

Init ==
    \E c \in Confs, r \in {0, Cardinality(Receipts) - 2} :
        /\ conf = c.ask
        /\ left = c.left
        /\ mop = [receipt |-> r, pending |-> <<>>, timer |-> None, heard |-> {}, running |-> TRUE,
                  gone |-> FALSE, no |-> 0, took |-> {}]
        /\ job = [j \in Jobs |-> NoJob]
        /\ wire = {}

Next ==
    \/ \E j \in Jobs : mop_request(j)
    \/ Deliver \/ Announce \/ Tick \/ timeout \/ ClientGoes \/ Stop

Spec == Init /\ [][Next]_vars
-----------------------------------------------------------------------------
TypeOK ==
    /\ DOMAIN mop.pending \subseteq Receipts \ {0}
    /\ \A r \in DOMAIN mop.pending :
        mop.pending[r].kind \in {"id", "counters", "loop", "later"} /\ mop.pending[r].left \in 0 .. Max({Timeout, Pause})
    /\ mop.timer = None \/ mop.timer \in 0 .. Max({Timeout, Pause})
    /\ mop.heard \subseteq Stations
    /\ \A f \in wire : f.to \in Stations \cup {Self}

(* An answer is taken for the request it answers ("an answer to one request *)
(* cannot be taken for another's", MopCircuit::next_receipt), unless the    *)
(* receipt numbers not in use have all been given out in between.           *)
OwnAnswer ==
    \A h \in mop.took :
        \/ h.asked = h.given
        \/ h.asked - h.given >= Cardinality(Receipts) - 1 - (Cardinality(Jobs) - 1)

(* A loop message that counts as answered went through every station its    *)
(* client named, in order (LoopHandler::loop and dispatch), and one sent to *)
(* the multicast address through the one that answered.                     *)
LoopWentRound ==
    \A h \in mop.took :
        (h.asked = h.given /\ conf[h.job].kind = "loop") =>
            /\ Len(h.went) = Len(conf[h.job].dest)
            /\ \A i \in DOMAIN h.went : conf[h.job].dest[i] \in {h.went[i], Multicast}

(* A client has one answer to each request, a loop test's after exactly the *)
(* messages asked for, and until it has that answer exactly one entry of    *)
(* the table is working on it, with the timer running for the earliest      *)
(* deadline (MopCircuit::timeout, take and Client::mop_loop).               *)
WorkedOn ==
    /\ \A j \in Jobs : job[j].asked /\ mop.running /\ ~mop.gone =>
        LET at == {r \in DOMAIN mop.pending : mop.pending[r].job = j} IN
        /\ Cardinality(at) + Len(job[j].answers) = 1
        /\ Len(job[j].delays) <= job[j].packets
        /\ conf[j].kind = "loop" /\ at = {} /\ ~LoopRefused(conf[j].dest) => Len(job[j].delays) = job[j].packets
    /\ mop.pending # <<>> =>
        mop.timer # None /\ \A r \in DOMAIN mop.pending : mop.timer <= Max({1, mop.pending[r].left})
=============================================================================
