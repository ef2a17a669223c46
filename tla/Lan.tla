-------------------------------- MODULE Lan --------------------------------
(***************************************************************************)
(* Routing on a broadcast circuit (src/routing/lan.cc): stations learn of  *)
(* each other from multicast hellos, routers confirm that they hear each   *)
(* other and elect a designated router, and endnodes use the one elected.  *)
(* A station's circuit is a record, and each method that changes it an     *)
(* operator on the record; the frames a method sends go to the field out   *)
(* and from there on the wire.                                             *)
(***************************************************************************)
EXTENDS Integers, FiniteSets, Sequences, SequencesExt

CONSTANT Confs   \* the networks examined; see MCLan

VARIABLES
    conf,     \* the network, fixed from the start
    circ,     \* the circuit of each station
    wire,     \* frames under way to each station, in order
    calm,     \* no frame is lost any more, and nobody falls silent unheard
    changes,  \* how often stations have come, gone, started and stopped
    heard     \* history: <<r, n>> when router r has handled a hello of router n

vars == <<conf, circ, wire, calm, changes, heard>>

(* Node addresses are positive numbers, the area their high part.           *)
None == 0
MaxQueue == conf.maxQueue   \* bound: frames under way to a station
Routers == conf.routers
Endnodes == conf.endnodes
Stations == Routers \cup Endnodes
Addresses == UNION {c.routers \cup c.endnodes : c \in Confs}
SameArea(s, n) == conf.area[s] = conf.area[n]
BothL2(s, n) == {s, n} \subseteq conf.l2

NoEntry == [state |-> "none", prio |-> 0]

(* The members after construction.  timer says that drtimer_ is in the      *)
(* wheel, waiting is drtimer_running_.  An entry of adj has its listen      *)
(* timer in the wheel from the first hello on.                              *)
Off == [power |-> FALSE, on |-> FALSE, prio |-> 0,
        adj |-> [n \in Stations |-> NoEntry], dr |-> None,
        isdr |-> FALSE, waiting |-> FALSE, timer |-> FALSE, out |-> <<>>]

Constructed(prio) == [Off EXCEPT !.power = TRUE, !.prio = prio]
-----------------------------------------------------------------------------
(* The routers that a circuit has an entry for.                             *)
KnownRouters(c) == {n \in Routers : c.adj[n].state # "none"}

\* A faulty variant: only confirmed neighbours are listed.
BuildElistTwoWay(c) == {n \in Routers : c.adj[n].state = "up"}

(* build_elist.  The flag that tells two-way neighbours apart is not read.  *)
BuildElist(c) == KnownRouters(c)

Hello(c, s, list) == [from |-> s, prio |-> c.prio, list |-> list]

(* send_hello.  The designated router's hello goes to the endnodes too.     *)
SendHello(c, s) ==
    [c EXCEPT !.out = Append(@, [hello |-> Hello(c, s, BuildElist(c)),
                                 to |-> (IF c.isdr THEN Stations ELSE Routers) \ {s}])]

(* better_dr: priority, then address.                                       *)
BetterDr(prioA, a, prioB, b) == prioA > prioB \/ (prioA = prioB /\ a > b)

\* A faulty variant: a tie goes to the lower address at a router that is one
\* of the two.
BestDrSelfish(c, s) ==
    LET prio(n) == IF n = s THEN c.prio ELSE c.adj[n].prio
        field == {s} \cup {n \in KnownRouters(c) : SameArea(s, n)}
    IN  IF \A n \in field : prio(n) <= c.prio THEN s
        ELSE CHOOSE b \in field : \A n \in field \ {b} : BetterDr(prio(b), b, prio(n), n)

BestDr(c, s) ==
    LET prio(n) == IF n = s THEN c.prio ELSE c.adj[n].prio
        field == {s} \cup {n \in KnownRouters(c) : SameArea(s, n)}
    IN  CHOOSE b \in field : \A n \in field \ {b} : BetterDr(prio(b), b, prio(n), n)

\* Faulty variants: a router that is beaten stays designated; the timer of a
\* router that is beaten stops without a note of it.
CalcDrStays(c, s) ==
    LET who == BestDr(c, s)
    IN  IF who = s
        THEN IF c.isdr \/ c.waiting THEN c ELSE [c EXCEPT !.waiting = TRUE, !.timer = TRUE]
        ELSE IF c.dr = who THEN c
             ELSE [c EXCEPT !.waiting = FALSE, !.timer = FALSE, !.dr = who]
CalcDrForgetsFlag(c, s) ==
    LET who == BestDr(c, s)
        beaten == IF c.isdr THEN SendHello([c EXCEPT !.isdr = FALSE], s) ELSE c
    IN  IF who = s
        THEN IF c.isdr \/ c.waiting THEN c ELSE [c EXCEPT !.waiting = TRUE, !.timer = TRUE]
        ELSE IF beaten.dr = who THEN beaten
             ELSE [beaten EXCEPT !.timer = FALSE, !.dr = who]

CalcDr(c, s) ==
    LET who == BestDr(c, s)
        beaten == IF c.isdr THEN SendHello([c EXCEPT !.isdr = FALSE], s) ELSE c
    IN  IF who = s
        THEN IF c.isdr \/ c.waiting THEN c ELSE [c EXCEPT !.waiting = TRUE, !.timer = TRUE]
        ELSE IF beaten.dr = who THEN beaten
             ELSE [beaten EXCEPT !.waiting = FALSE, !.timer = FALSE, !.dr = who]

(* become_dr, the callback of drtimer_.                                     *)
BecomeDr(c, s) ==
    LET fired == [c EXCEPT !.waiting = FALSE, !.timer = FALSE]
    IN  IF BestDr(c, s) = s THEN SendHello([fired EXCEPT !.isdr = TRUE, !.dr = s], s)
        ELSE CalcDr(fired, s)

(* adjacency_up and adjacency_down of the class they share.                 *)
AdjacencyUp(c, n) == [c EXCEPT !.adj[n].state = "up"]
AdjacencyErased(c, n) == [c EXCEPT !.adj[n] = NoEntry]
-----------------------------------------------------------------------------
(* RoutingLanCircuit::adjacency_down; an entry is there when it is called.  *)
RouterAdjacencyDown(c, s, n) ==
    LET d == [AdjacencyErased(c, n) EXCEPT !.dr = IF @ = n THEN None ELSE @]
    IN  IF n \in Routers THEN SendHello(CalcDr(d, s), s) ELSE d

(* RoutingLanCircuit::handle, a router's hello.                             *)
\* A faulty variant: one hello is enough.
RouterHearsRouterOneWay(c, s, h) ==
    IF ~SameArea(s, h.from) /\ ~BothL2(s, h.from) THEN c
    ELSE CalcDr([c EXCEPT !.adj[h.from] = [state |-> "up", prio |-> h.prio]], s)

RouterHearsRouter(c, s, h) ==
    LET n == h.from
        noted == [c EXCEPT !.adj[n] = [state |-> IF @.state = "up" THEN "up" ELSE "init",
                                       prio |-> h.prio]]
    IN  IF ~SameArea(s, n) /\ ~BothL2(s, n) THEN c
        ELSE CalcDr(IF s \in h.list THEN AdjacencyUp(noted, n) ELSE noted, s)

(* The same, an endnode's hello: hearing it is enough.                      *)
RouterHearsEndnode(c, s, n) ==
    IF SameArea(s, n) THEN AdjacencyUp(c, n) ELSE c

(* EndnodeLanCircuit::handle, a router's hello.                             *)
\* A faulty variant: the adjacency to the old router stays.
EndnodeHearsRouterKeepsOld(c, s, n) ==
    IF ~SameArea(s, n) \/ c.dr = n THEN c
    ELSE AdjacencyUp([c EXCEPT !.dr = n], n)

EndnodeHearsRouter(c, s, n) ==
    LET left == IF c.dr = None THEN c ELSE AdjacencyErased(c, c.dr)
    IN  IF ~SameArea(s, n) \/ c.dr = n THEN c
        ELSE AdjacencyUp([left EXCEPT !.dr = n], n)

(* adj_timeout of both classes, after Adjacency::timeout.                   *)
\* A faulty variant: the endnode goes on using the router.
AdjTimeoutKeepsDr(c, s, n) ==
    IF s \in Routers THEN RouterAdjacencyDown(c, s, n) ELSE AdjacencyErased(c, n)

AdjTimeout(c, s, n) ==
    IF s \in Routers THEN RouterAdjacencyDown(c, s, n)
    ELSE AdjacencyErased([c EXCEPT !.dr = IF @ = n THEN None ELSE @], n)

(* start of both classes.                                                   *)
StartCircuit(c, s) ==
    LET started == SendHello([c EXCEPT !.on = TRUE], s)
    IN  IF s \in Routers THEN CalcDr(started, s) ELSE started

(* stop: a router says farewell with an empty list.  drtimer_running_ stays *)
(* as it is, and so do the adjacencies and isdr_.                           *)
StopCircuit(c, s) ==
    LET farewell == [hello |-> Hello(c, s, {}), to |-> Routers \ {s}]
    IN  IF s \in Routers
        THEN [c EXCEPT !.on = FALSE, !.timer = FALSE, !.out = Append(@, farewell)]
        ELSE [c EXCEPT !.on = FALSE]
-----------------------------------------------------------------------------
(* What a circuit has sent goes on the wire to the stations that are there; *)
(* a wire that is full loses the rest.                                      *)
FramesTo(c, t) ==
    LET mine == SelectSeq(c.out, LAMBDA f : t \in f.to)
    IN  [i \in 1 .. Len(mine) |-> mine[i].hello]

Carried(q) == SubSeq(q, 1, IF Len(q) < MaxQueue THEN Len(q) ELSE MaxQueue)

Put(s, circuit, w) ==
    \E c \in {circuit} :
      /\ circ' = [circ EXCEPT ![s] = [c EXCEPT !.out = <<>>]]
      /\ wire' = [t \in Stations |->
                    IF ~(IF t = s THEN c ELSE circ[t]).power THEN <<>>
                    ELSE IF c.out = <<>> THEN w[t]
                    ELSE Carried(w[t] \o FramesTo(c, t))]

(* Some stations have been started before the LAN was connected.            *)
Init ==
    /\ conf \in Confs
    /\ circ = [s \in Stations |->
                 IF s \in conf.present
                 THEN [StartCircuit(Constructed(conf.prio), s) EXCEPT !.out = <<>>] ELSE Off]
    /\ wire = [s \in Stations |-> <<>>]
    /\ calm = ~conf.lossy /\ changes = 0 /\ heard = {}

Change == changes < conf.changes /\ changes' = changes + 1

(* The node is started: BaseRouter::start, which holds the circuits of a    *)
(* node that is on demand.                                                  *)
Boot(s) ==
    /\ ~circ[s].power
    /\ Change
    /\ \E p \in {conf.prio} \cup conf.newPrios[s] :
          LET c == Constructed(p)
          IN  Put(s, IF s \in conf.onDemand THEN c ELSE StartCircuit(c, s), wire)
    /\ UNCHANGED <<conf, calm, heard>>

(* An API client arrives at a node that is on demand; none was there.       *)
ClientArrives(s) ==
    /\ s \in conf.onDemand /\ circ[s].power /\ ~circ[s].on
    /\ Change
    /\ Put(s, StartCircuit(circ[s], s), wire)
    /\ UNCHANGED <<conf, calm, heard>>

(* The idle timer of such a node: stop_circuits.                            *)
IdleTimeout(s) ==
    /\ s \in conf.onDemand /\ circ[s].on
    /\ Change
    /\ Put(s, StopCircuit(circ[s], s), wire)
    /\ UNCHANGED <<conf, calm, heard>>

(* Node::stop: the circuits are stopped and the process ends.               *)
Shutdown(s) ==
    /\ circ[s].power
    /\ Change
    /\ Put(s, [Off EXCEPT !.out = StopCircuit(circ[s], s).out], wire)
    /\ UNCHANGED <<conf, calm, heard>>

(* The process ends without a farewell.                                     *)
Crash(s) ==
    /\ circ[s].power
    /\ Change
    /\ Put(s, Off, wire)
    /\ UNCHANGED <<conf, calm, heard>>

(* LanCircuit::timeout, the hello timer.  The interval is long: the wires   *)
(* have room by then.                                                       *)
HelloTimeout(s) ==
    /\ circ[s].on
    /\ \A t \in Stations : Len(wire[t]) < MaxQueue
    /\ Put(s, SendHello(circ[s], s), wire)
    /\ UNCHANGED <<conf, calm, changes, heard>>

DrTimeout(s) ==
    /\ circ[s].timer
    /\ Put(s, BecomeDr(circ[s], s), wire)
    /\ UNCHANGED <<conf, calm, changes, heard>>

(* The listen timer: three hello intervals, so that it expires only on a    *)
(* station that is silent once no frame is lost.  To endnodes a router is   *)
(* silent unless it is designated.                                          *)
Silent(s, n) ==
    /\ ~circ[n].on \/ (s \in Endnodes /\ ~circ[n].isdr)
    /\ \A i \in 1 .. Len(wire[s]) : wire[s][i].from # n

ListenTimeout(s, n) ==
    /\ circ[s].adj[n].state # "none"
    /\ calm => Silent(s, n)
    /\ Put(s, AdjTimeout(circ[s], s, n), wire)
    /\ UNCHANGED <<conf, calm, changes, heard>>

(* dispatch.  The port hears frames whether the circuit is started or not.  *)
Receive(s) ==
    /\ wire[s] # <<>>
    /\ LET h == Head(wire[s])
           c == circ[s]
           handled == IF s \in Endnodes THEN EndnodeHearsRouter(c, s, h.from)
                      ELSE IF h.from \in Routers THEN RouterHearsRouter(c, s, h)
                      ELSE RouterHearsEndnode(c, s, h.from)
       IN  /\ Put(s, handled, [wire EXCEPT ![s] = Tail(@)])
           /\ heard' = heard \cup ({<<s, h.from>>} \cap (Routers \X Routers))
    /\ UNCHANGED <<conf, calm, changes>>

Lose(s) ==
    /\ ~calm /\ wire[s] # <<>>
    /\ wire' = [wire EXCEPT ![s] = Tail(@)]
    /\ UNCHANGED <<conf, circ, calm, changes, heard>>

(* From now on the LAN is well.                                             *)
Heal ==
    /\ ~calm /\ calm' = TRUE
    /\ UNCHANGED <<conf, circ, wire, changes, heard>>

Next ==
    \/ \E s \in Stations : Boot(s)
    \/ \E s \in Stations : ClientArrives(s)
    \/ \E s \in Stations : IdleTimeout(s)
    \/ \E s \in Stations : Shutdown(s)
    \/ \E s \in Stations : Crash(s)
    \/ \E s \in Stations : HelloTimeout(s)
    \/ \E s \in Stations : DrTimeout(s)
    \/ \E s, n \in Stations : ListenTimeout(s, n)
    \/ \E s \in Stations : Receive(s)
    \/ \E s \in Stations : Lose(s)
    \/ Heal

Spec == Init /\ [][Next]_vars

(* Timers run out, frames are handled and the LAN gets well at some time; a *)
(* station's hello is not put off for ever by the others' frames.           *)
FairSpec ==
    /\ Spec
    /\ WF_vars(Heal)
    /\ WF_vars(\E s \in Stations : Receive(s))
    /\ WF_vars(\E s \in Stations : DrTimeout(s))
    /\ WF_vars(\E s, n \in Stations : ListenTimeout(s, n))
    /\ \A s \in Addresses : SF_vars(s \in Stations /\ HelloTimeout(s))
-----------------------------------------------------------------------------
TypeOK ==
    /\ conf \in Confs /\ calm \in BOOLEAN /\ changes \in 0 .. conf.changes
    /\ heard \subseteq Routers \X Routers
    /\ \A s \in Stations :
         LET c == circ[s]
         IN  /\ {c.power, c.on, c.isdr, c.waiting, c.timer} \subseteq BOOLEAN
             /\ c.dr \in Routers \cup {None} /\ c.out = <<>>
             /\ \A n \in Stations : c.adj[n].state \in {"none", "init", "up"}
             /\ c.adj[s] = NoEntry
             /\ Len(wire[s]) <= MaxQueue
             /\ (s \in Endnodes) =>
                  \A i \in 1 .. Len(wire[s]) : wire[s][i].from \in Routers

(* The election is never out of date at a router: one that acts as          *)
(* designated router knows of nobody better and says so itself, and one     *)
(* that defers to another still has that one's entry.  calc_dr runs in      *)
(* every handler that changes what best_dr reads.                           *)
ElectionCurrent ==
    \A r \in Routers :
      LET c == circ[r]
      IN  /\ c.isdr => BestDr(c, r) = r /\ c.dr = r
          /\ c.dr \notin {None, r} => c.dr \in KnownRouters(c)

(* A started router that knows of nobody better acts as designated router   *)
(* or has the timer running that makes it ("The winner waits DRDELAY before *)
(* acting as DR."): drtimer_running_ and the timer never come apart.        *)
WinnerWaits ==
    \A r \in Routers :
      circ[r].on /\ BestDr(circ[r], r) = r => circ[r].isdr \/ circ[r].timer

(* An adjacency between routers is up only if the other one has heard this  *)
(* one: finding ourselves in its list is the proof that handle asks for.    *)
UpMeansHeard ==
    \A r, n \in Routers : circ[r].adj[n].state = "up" => <<n, r>> \in heard

(* An endnode has an adjacency with the router it uses and with no other:   *)
(* adjacency_down and dr_ go together when routers change or fall silent.   *)
OneRouter ==
    \A e \in Endnodes :
      {n \in Stations : circ[e].adj[n].state # "none"} = {circ[e].dr} \ {None}

(* What a station holds of its neighbours is sound: routers are up only if  *)
(* they hear each other, endnodes have their router and no other (handle,   *)
(* adjacency_down).                                                         *)
NeighboursSound == TypeOK /\ UpMeansHeard /\ OneRouter

(* A router's part in the election is never out of date (calc_dr): it acts, *)
(* defers to somebody it knows, or has the timer running.                   *)
ElectionSound == ElectionCurrent /\ WinnerWaits

(* Who is there in the end, and who should win.                             *)
Live == {r \in Routers : circ[r].on}
Rivals(s) == {r \in Live : SameArea(r, s)}
Winner(s) ==
    IF Rivals(s) = {} THEN None
    ELSE CHOOSE w \in Rivals(s) : \A r \in Rivals(s) \ {w} :
           BetterDr(circ[w].prio, w, circ[r].prio, r)

(* The routers of an area agree on the best of them, and that one alone     *)
(* acts.                                                                    *)
ElectionSettled ==
    \A r \in Live : circ[r].dr = Winner(r) /\ (circ[r].isdr <=> r = Winner(r))

(* Routers have each other as two-way neighbours, and nobody who has gone   *)
(* or may not be a neighbour.                                               *)
TwoWaySettled ==
    \A r \in Live : \A n \in Routers \ {r} :
        (circ[r].adj[n].state = "up")
          <=> (n \in Live /\ (SameArea(r, n) \/ BothL2(r, n)))

(* Every endnode uses the designated router of its area, or none when there *)
(* is none.                                                                 *)
EndnodeFollows == \A e \in Endnodes : circ[e].power => circ[e].dr = Winner(e)

Settled == ElectionSettled /\ TwoWaySettled /\ EndnodeFollows

(* Once stations stop coming and going and the LAN is well it settles for   *)
(* good, whatever was lost or believed before: one designated router to an  *)
(* area, routers two-way, endnodes with that router (calc_dr, handle).      *)
Settles == <>[]Settled
=============================================================================
