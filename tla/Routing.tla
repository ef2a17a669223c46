------------------------------ MODULE Routing ------------------------------
(***************************************************************************)
(* Routers of level 1 and 2 that exchange routing messages and forward     *)
(* data packets (src/routing/l1router.cc, the endnode of                   *)
(* src/routing/routing.cc), over circuits abstracted to a pair of FIFO     *)
(* channels.                                                               *)
(*                                                                         *)
(* A router is a record: its two routing matrices m[1] (nodes) and m[2]    *)
(* (areas), the adjacencies that are up, the attached flag, and one update *)
(* process per circuit and level, reduced to its send-routing-message      *)
(* marks and its holdoff.  There is one circuit between two neighbours, so *)
(* the neighbour's address names the adjacency and the circuit.            *)
(*                                                                         *)
(* A channel carries what the circuit reports to the routing layer:        *)
(*   "up", "down"  the adjacency comes up or goes down                     *)
(*   "route"       one routing message                                     *)
(*   "data"        one data packet                                         *)
(* The routing initialization of a circuit precedes everything the         *)
(* neighbour sends once it is up, so "up" is the first item of a channel.  *)
(***************************************************************************)
EXTENDS Integers, FiniteSets, Sequences, SequencesExt

CONSTANTS
    Confs,      \* the networks: see NetworkOK
    Width,      \* an address is area * Width + node number
    InfHops,    \* INFHOPS and INFCOST, "unreachable"
    InfCost,
    VisitTop,   \* VISIT_LIMIT_MAX, the largest visit count of the header
    AreaTop,    \* the largest area number an update process advertises
    MaxUpdates  \* bound: a full update waits for this much room

VARIABLES
    conf,       \* the network of this behaviour
    rt,         \* rt[r]: the state of router r
    chan,       \* chan[<<a, b>>]: what a's circuit to b brings to b
    live,       \* the circuits that work
    faults,     \* how many circuit ups and downs, losses and packets remain
    fate        \* where the last packet that arrived was delivered

vars == <<conf, rt, chan, live, faults, fate>>

None == 0
Area(n) == n \div Width
Tid(n) == n % Width
Inf == [hops |-> InfHops, cost |-> InfCost]
Ids == 0 .. Width - 1
Levels == {1, 2}

Routers == DOMAIN conf.level
Nodes == Routers \cup conf.endnodes
Circuits == DOMAIN conf.cost
Neighbours(r) == {n \in Nodes : {r, n} \in Circuits}
Cost(a, b) == conf.cost[{a, b}]
Areas == 1 .. conf.maxarea

\* A network: levels of routers, endnodes, circuits with their costs, the
\* size of each router's table and the limits of both matrices.
NetworkOK(c) ==
    /\ c.level \in [DOMAIN c.level -> Levels]
    /\ \A p \in DOMAIN c.cost :
        /\ Cardinality(p) = 2 /\ p \subseteq DOMAIN c.level \cup c.endnodes
        /\ c.cost[p] \in 1 .. InfCost
        /\ \A n \in p : n \in c.endnodes =>
            p \cap DOMAIN c.level # {} /\ \A q \in DOMAIN c.cost : n \in q => q = p
    /\ \A r \in DOMAIN c.level :
        Tid(r) \in 1 .. c.maxnodes[r] /\ c.maxnodes[r] < Width
    /\ c.maxhops < InfHops /\ c.maxcost < InfCost /\ c.maxarea \in 1 .. AreaTop

ASSUME ConfsOK == \A c \in Confs : NetworkOK(c)

-----------------------------------------------------------------------------
(* The update process of one circuit and level.                            *)

\* wants_updates (level): the neighbour must be a router, and an area
\* router for level 2; nothing is known of it while the circuit is down.
Wants(R, n, lv) ==
    /\ n \in R.up
    /\ n \in Routers
    /\ lv = 2 => conf.level[n] = 2

\* A faulty variant: only the latest change is marked.
SetSrmLatest(R, lv, ids) ==
    [R EXCEPT !.srm = [p \in DOMAIN @ |-> IF p[2] = lv /\ Wants(R, p[1], lv) THEN ids ELSE @[p]],
              !.holdoff = @ \cup {p \in DOMAIN R.srm : p[2] = lv /\ Wants(R, p[1], lv)}]

\* Router::set_srm, set_asrm and Update::set_srm: mark the destinations on
\* every circuit with someone to tell, and send in T2.
SetSrm(R, lv, ids) ==
    LET S == {n \in Neighbours(R.id) : Wants(R, n, lv)}
    IN  [R EXCEPT !.srm = [p \in DOMAIN @ |->
                               IF p[2] = lv /\ p[1] \in S THEN @[p] \cup ids ELSE @[p]],
                  !.holdoff = @ \cup S \X {lv}]

\* What a level of the router advertises: nodes from zero, areas from one.
Advertised(R, lv) == IF lv = 1 THEN 0 .. conf.maxnodes[R.id] ELSE 1 .. AreaTop

Entry(R, lv, i) ==
    IF lv = 2 /\ i \notin Areas THEN Inf ELSE R.m[lv].best[i]

\* build: entries in order of destination, a new segment (two words more)
\* at each gap, a message ends when its words fill the block.
AddEntry(R, lv, b, i) ==
    LET words == b.words + IF b.words > 0 /\ i = b.prev + 1 THEN 1 ELSE 3
        ent == [j \in DOMAIN b.ent \cup {i} |-> Entry(R, lv, j)]
        full == 2 * words >= conf.room
    IN  [done |-> IF full THEN Append(b.done, ent) ELSE b.done,
         ent |-> IF full THEN <<>> ELSE ent,
         words |-> IF full THEN 0 ELSE words,
         prev |-> i]

\* A faulty variant: everything goes into one message.
BuildOne(R, lv, ids) ==
    <<[kind |-> "route", lv |-> lv, ent |-> [i \in ids |-> Entry(R, lv, i)]]>>

Build(R, lv, ids) ==
    LET order == SelectSeq([k \in 1 .. Width |-> k - 1], LAMBDA i : i \in ids)
        b == FoldLeft(LAMBDA acc, i : AddEntry(R, lv, acc, i),
                      [done |-> <<>>, ent |-> <<>>, words |-> 0, prev |-> 0], order)
        all == IF b.words = 0 THEN b.done ELSE Append(b.done, b.ent)
    IN  [k \in 1 .. Len(all) |-> [kind |-> "route", lv |-> lv, ent |-> all[k]]]

-----------------------------------------------------------------------------
(* The decision process.                                                   *)

\* The columns that offer destination i: the neighbour (or the router
\* itself) with its hops and cost, and the endnode that has this number.
Offers(R, lv, i) ==
    {[adj |-> k, e |-> R.m[lv].col[k][i]] : k \in DOMAIN R.m[lv].col}
    \cup IF lv = 1 /\ R.end[i].adj # None THEN {R.end[i]} ELSE {}

\* compute: lowest cost wins, ties go to the higher neighbour address, and
\* a route beyond the limits is no route.
Best(R, lv, i) ==
    LET C == {o \in Offers(R, lv, i) : o.e.cost < InfCost}
        best == CHOOSE o \in C : \A p \in C :
                    \/ o.e.cost < p.e.cost
                    \/ o.e.cost = p.e.cost /\ o.adj >= p.adj
    IN  IF C = {} THEN [adj |-> None, e |-> Inf]
        ELSE IF best.e.cost > conf.maxcost \/ best.e.hops > conf.maxhops
             THEN [adj |-> None, e |-> Inf] ELSE best

\* compute over a set of destinations: what changed is marked for update.
Compute(R, lv, ids) ==
    LET new == [i \in ids |-> Best(R, lv, i)]
        changed == {i \in ids : R.m[lv].best[i] # new[i].e}
        R1 == [R EXCEPT
                 !.m[lv].best = [i \in DOMAIN @ |-> IF i \in ids THEN new[i].e ELSE @[i]],
                 !.m[lv].oadj = [i \in DOMAIN @ |-> IF i \in ids THEN new[i].adj ELSE @[i]]]
    IN  IF changed = {} THEN R1 ELSE SetSrm(R1, lv, changed)

ComputeRoutes(R, ids) == Compute(R, 1, ids \cap 0 .. conf.maxnodes[R.id])

\* compute_areas: then the attached flag, and destination 0 of the node
\* table, which stands for the nearest area router.
ComputeAreas(R, ids) ==
    LET R1 == Compute(R, 2, ids)
        attached == \E a \in Areas \ {Area(R.id)} : R1.m[2].oadj[a] # None
        self == IF attached THEN [hops |-> 0, cost |-> 0] ELSE Inf
        R2 == [R1 EXCEPT !.attached = attached, !.m[1].col[R.id][0] = self]
    IN  IF attached = R.attached THEN R1
        ELSE ComputeRoutes(SetSrm(R2, 1, {0}), {0})

EmptyColumn == [i \in Ids |-> Inf]
SelfColumn(i) == [EmptyColumn EXCEPT ![i] = [hops |-> 0, cost |-> 0]]
NoMatrix == [col |-> <<>>, best |-> EmptyColumn, oadj |-> [i \in Ids |-> None]]

Restrict1(f, S) == [k \in S |-> f[k]]
SetColumn(R, lv, n, column) ==
    [R EXCEPT !.m[lv].col = [k \in DOMAIN @ \cup {n} |-> IF k = n THEN column ELSE @[k]]]

\* L1Router::start and L2Router::start.
Started(r) ==
    LET R0 == [id |-> r, up |-> {}, attached |-> FALSE,
               m |-> [lv \in Levels |-> NoMatrix],
               end |-> [i \in Ids |-> [adj |-> None, e |-> Inf]],
               srm |-> [p \in Neighbours(r) \X Levels |-> {}], holdoff |-> {}]
        R1 == ComputeRoutes(SetColumn(R0, 1, r, SelfColumn(Tid(r))), Ids)
    IN  IF conf.level[r] = 1 THEN R1
        ELSE ComputeAreas(SetColumn(R1, 2, r, SelfColumn(Area(r))), Areas)

-----------------------------------------------------------------------------
(* Adjacency changes and routing messages.                                 *)

\* L1Router::adj_up: a router gets an empty column and is told everything,
\* an endnode is entered at the cost of its circuit.
L1AdjUp(R, n) ==
    LET t == Tid(n)
        end == [adj |-> n, e |-> [hops |-> 1, cost |-> Cost(R.id, n)]]
    IN  IF n \in Routers
        THEN SetSrm(SetColumn(R, 1, n, EmptyColumn), 1, 0 .. conf.maxnodes[R.id])
        ELSE IF t > conf.maxnodes[R.id] THEN R
        ELSE ComputeRoutes([R EXCEPT !.end[t] = end], {t})

AreaRouters(R, n) == conf.level[R.id] = 2 /\ n \in Routers /\ conf.level[n] = 2

AdjUp(R0, n) ==
    LET R == [R0 EXCEPT !.up = @ \cup {n}] IN
    IF AreaRouters(R, n)
    THEN SetSrm(L1AdjUp(SetColumn(R, 2, n, EmptyColumn), n), 2, Areas)
    ELSE L1AdjUp(R, n)

\* A faulty variant: only the lost neighbour itself is recomputed.
L1AdjDownOne(R, n) ==
    IF n \in Routers
    THEN ComputeRoutes([R EXCEPT !.m[1].col = Restrict1(@, DOMAIN @ \ {n})], {Tid(n)})
    ELSE R

L1AdjDown(R, n) ==
    LET t == Tid(n) IN
    IF n \in Routers
    THEN ComputeRoutes([R EXCEPT !.m[1].col = Restrict1(@, DOMAIN @ \ {n})], Ids)
    ELSE IF t > conf.maxnodes[R.id] THEN R
    ELSE ComputeRoutes([R EXCEPT !.end[t] = [adj |-> None, e |-> Inf]], {t})

\* A faulty variant: the area column of a lost neighbour stays.
AdjDownLevel1(R, n) == [L1AdjDown(R, n) EXCEPT !.up = @ \ {n}]

\* L2Router::adj_down; the circuit forgets its neighbour only afterwards,
\* so its own update process is marked too.
AdjDown(R, n) ==
    LET R1 == L1AdjDown(R, n)
        R2 == IF AreaRouters(R, n)
              THEN ComputeAreas([R1 EXCEPT !.m[2].col = Restrict1(@, DOMAIN @ \ {n})], Areas)
              ELSE R1
    IN  [R2 EXCEPT !.up = @ \ {n}]

\* updates (): one hop more than the sender, and the cost of the circuit.
Received(R, n, e) ==
    LET h == e.hops + 1
        c == e.cost + Cost(R.id, n)
    IN  [hops |-> IF h > InfHops THEN InfHops ELSE h,
         cost |-> IF c > InfCost THEN InfCost ELSE c]

\* One entry of a routing message: destinations beyond the table are left
\* out, an entry that changes is stored and recomputed.
Update1(R, n, lv, i, e) ==
    LET known == IF lv = 1 THEN i <= conf.maxnodes[R.id] ELSE i \in Areas
        R1 == [R EXCEPT !.m[lv].col[n][i] = Received(R, n, e)]
    IN  IF ~ known \/ R.m[lv].col[n][i] = Received(R, n, e) THEN R
        ELSE IF lv = 1 THEN ComputeRoutes(R1, {i}) ELSE ComputeAreas(R1, {i})

\* routing_message: a level 1 router does not read area messages, and a
\* neighbour without a column is not heard.
RoutingMessage(R, n, msg) ==
    IF (msg.lv = 2 /\ conf.level[R.id] = 1) \/ n \notin DOMAIN R.m[msg.lv].col THEN R
    ELSE LET order == SelectSeq([k \in 1 .. Width |-> k - 1],
                                LAMBDA i : i \in DOMAIN msg.ent)
         IN  FoldLeft(LAMBDA S, i : Update1(S, n, msg.lv, i, msg.ent[i]), R, order)

-----------------------------------------------------------------------------
(* Forwarding.                                                             *)

\* A faulty variant: an attached area router asks the node table.
FindOadjLevel1(R, dst) ==
    <<R.m[1].oadj[IF Area(dst) # Area(R.id) THEN 0 ELSE Tid(dst)], FALSE>>

\* find_oadj of both levels: <<adjacency, out of range>>.
FindOadj(R, dst) ==
    LET t == IF Area(dst) # Area(R.id) THEN 0 ELSE Tid(dst) IN
    IF R.attached /\ Area(dst) # Area(R.id)
    THEN IF Area(dst) > conf.maxarea THEN <<None, TRUE>>
         ELSE <<R.m[2].oadj[Area(dst)], FALSE>>
    ELSE IF t > conf.maxnodes[R.id] THEN <<None, TRUE>>
    ELSE <<R.m[1].oadj[t], FALSE>>

\* A packet on its way back may use twice the visits, as far as the field.
VisitLimit(pkt) ==
    IF ~ pkt.rts THEN conf.maxvisits
    ELSE IF 2 * conf.maxvisits > VisitTop THEN VisitTop ELSE 2 * conf.maxvisits

Returned(pkt) ==
    [pkt EXCEPT !.dst = pkt.src, !.src = pkt.dst, !.rts = TRUE, !.rqr = FALSE]

\* A faulty variant: visits are not counted.
ForwardUncounted(R, pkt) ==
    LET p == IF FindOadj(R, pkt.dst)[1] = None /\ pkt.rqr THEN Returned(pkt) ELSE pkt
    IN  [to |-> FindOadj(R, p.dst)[1], pkt |-> p]

\* forward: where the packet goes and what it has become; None when it is
\* dropped (aged, out of range or unreachable).  A packet that asks for it
\* is turned round once.
Forward(R, pkt) ==
    LET Try(p) == LET a == FindOadj(R, p.dst)[1] IN
                  IF a = None \/ (a # R.id /\ p.visit >= VisitLimit(p))
                  THEN [to |-> None, pkt |-> p]
                  ELSE [to |-> a, pkt |-> IF a = R.id THEN p
                                          ELSE [p EXCEPT !.visit = @ + 1]]
    IN  IF Try(pkt).to = None /\ pkt.rqr /\ ~ pkt.rts
        THEN Try(Returned(pkt)) ELSE Try(pkt)

-----------------------------------------------------------------------------
(* The network.                                                            *)

Pairs == {p \in Nodes \X Nodes : {p[1], p[2]} \in Circuits}
Put(ch, a, b, msgs) ==
    IF {a, b} \in live THEN [ch EXCEPT ![<<a, b>>] = @ \o msgs] ELSE ch
Data(pkt) == [kind |-> "data", pkt |-> pkt]
NoFate == [at |-> None]

Cold == [n \in Nodes |-> IF n \in Routers THEN Started(n) ELSE [id |-> n, up |-> {}]]

\* The network at rest, reached from Cold by one of its schedules: all
\* adjacencies come up, then all routers tell all neighbours everything, as
\* often as a route has hops.
Fold(op(_, _), R, S) == FoldSet(LAMBDA n, acc : op(acc, n), R, S)
AllUp(f) ==
    [n \in Nodes |-> IF n \in Routers THEN Fold(AdjUp, f[n], Neighbours(n))
                     ELSE [f[n] EXCEPT !.up = Neighbours(n)]]
Told(R, S, lv) ==
    IF lv > conf.level[S.id] \/ ~ Wants(S, R.id, lv) THEN R
    ELSE FoldLeft(LAMBDA acc, m : RoutingMessage(acc, S.id, m), R,
                  Build(S, lv, Advertised(S, lv)))
Round(f) ==
    [n \in Nodes |->
        IF n \notin Routers THEN f[n]
        ELSE Fold(LAMBDA R, x : Told(Told(R, f[x], 1), f[x], 2), f[n],
                  Neighbours(n) \cap Routers)]
AtRest ==
    LET f == Round(Round(Round(AllUp(Cold)))) IN
    [n \in Nodes |-> IF n \notin Routers THEN f[n]
                     ELSE [f[n] EXCEPT !.holdoff = {},
                                       !.srm = [p \in DOMAIN @ |-> {}]]]

Init ==
    /\ conf \in Confs
    /\ chan = [p \in Pairs |-> <<>>]
    /\ IF conf.rest THEN rt = AtRest /\ live = Circuits ELSE rt = Cold /\ live = {}
    /\ faults = conf.faults
    /\ fate = NoFate

\* The circuit initializes at both ends; what it brings follows.
CircuitUp(l) ==
    /\ l \in Circuits \ live
    /\ faults.ups > 0
    /\ faults' = [faults EXCEPT !.ups = @ - 1]
    /\ live' = live \cup {l}
    /\ chan' = [p \in Pairs |-> IF {p[1], p[2]} = l
                                THEN Append(chan[p], [kind |-> "up"]) ELSE chan[p]]
    /\ UNCHANGED <<conf, rt, fate>>

\* The circuit fails: what is under way is lost, each end is told.
CircuitDown(l) ==
    /\ l \in live
    /\ faults.downs > 0
    /\ faults' = [faults EXCEPT !.downs = @ - 1]
    /\ live' = live \ {l}
    /\ chan' = [p \in Pairs |-> IF {p[1], p[2]} = l
                                THEN <<[kind |-> "down"]>> ELSE chan[p]]
    /\ UNCHANGED <<conf, rt, fate>>

\* A datagram circuit may lose a message.
Lose(p) ==
    /\ faults.losses > 0
    /\ chan[p] # <<>> /\ Head(chan[p]).kind \in {"route", "data"}
    /\ faults' = [faults EXCEPT !.losses = @ - 1]
    /\ chan' = [chan EXCEPT ![p] = Tail(@)]
    /\ UNCHANGED <<conf, rt, live, fate>>

IsNext(p, kind) == p \in Pairs /\ chan[p] # <<>> /\ Head(chan[p]).kind = kind
Taken(p) == [chan EXCEPT ![p] = Tail(@)]

TakeUp(p) ==
    LET R == rt[p[2]] IN
    /\ IsNext(p, "up")
    /\ rt' = [rt EXCEPT ![R.id] = IF R.id \in Routers THEN AdjUp(R, p[1])
                                  ELSE [R EXCEPT !.up = {p[1]}]]
    /\ chan' = Taken(p)
    /\ UNCHANGED <<conf, live, faults, fate>>

TakeDown(p) ==
    LET R == rt[p[2]] IN
    /\ IsNext(p, "down")
    /\ rt' = [rt EXCEPT ![R.id] = IF p[1] \notin R.up THEN R
                                  ELSE IF R.id \in Routers THEN AdjDown(R, p[1])
                                  ELSE [R EXCEPT !.up = {}]]
    /\ chan' = Taken(p)
    /\ UNCHANGED <<conf, live, faults, fate>>

TakeRoute(p) ==
    /\ IsNext(p, "route")
    /\ rt' = [rt EXCEPT ![p[2]] = RoutingMessage(@, p[1], Head(chan[p]))]
    /\ chan' = Taken(p)
    /\ UNCHANGED <<conf, live, faults, fate>>

\* A router hands the packet on: to the adjacency (an endnode is only sent
\* what is addressed to it), to itself, or nowhere.
Dispose(ch, r, pkt) ==
    LET f == Forward(rt[r], pkt) IN
    /\ chan' = IF f.to \in {None, r} \/ (f.to \in conf.endnodes /\ f.pkt.dst # f.to)
               THEN ch ELSE Put(ch, r, f.to, <<Data([f.pkt EXCEPT !.crossed = @ + 1])>>)
    /\ fate' = IF f.to = r THEN [at |-> r, pkt |-> f.pkt] ELSE fate

TakeData(p) ==
    LET pkt == Head(chan[p]).pkt IN
    /\ IsNext(p, "data")
    /\ IF p[2] \in Routers THEN Dispose(Taken(p), p[2], pkt)
       ELSE /\ chan' = Taken(p)
            /\ fate' = IF pkt.dst = p[2] THEN [at |-> p[2], pkt |-> pkt] ELSE fate
    /\ UNCHANGED <<conf, rt, live, faults>>

NewPacket(n, dst, rqr) ==
    [src |-> n, dst |-> dst, rqr |-> rqr, rts |-> FALSE, visit |-> 0,
     crossed |-> 0]     \* a ghost: how many circuits routers have sent it over

\* L1Router::send.
Send(r, dst, rqr) ==
    /\ faults.packets > 0
    /\ r \in Routers
    /\ faults' = [faults EXCEPT !.packets = @ - 1]
    /\ Dispose(chan, r, NewPacket(r, dst, rqr))
    /\ UNCHANGED <<conf, rt, live>>

\* EndnodeRouting::send: to itself, or to the one neighbour; the circuit
\* refuses while it is down and the packet comes back if that was asked.
EndnodeSend(n, dst, rqr) ==
    LET pkt == NewPacket(n, dst, rqr)
        back == IF dst = n THEN pkt ELSE Returned(pkt)
    IN
    /\ faults.packets > 0
    /\ n \in conf.endnodes
    /\ faults' = [faults EXCEPT !.packets = @ - 1]
    /\ IF dst # n /\ rt[n].up # {}
       THEN chan' = Put(chan, n, CHOOSE r \in rt[n].up : TRUE, <<Data(pkt)>>) /\ UNCHANGED fate
       ELSE /\ UNCHANGED chan
            /\ fate' = IF dst = n \/ rqr THEN [at |-> n, pkt |-> back] ELSE fate
    /\ UNCHANGED <<conf, rt, live>>

Updates(ch, p, lv) == Len(SelectSeq(ch[p], LAMBDA m : m.kind = "route" /\ m.lv = lv))

\* Update::timeout and send_now: a triggered update carries the marked
\* destinations, a periodic one carries all; the marks are cleared.  Without
\* conf.periodic the behaviour is shorter than T1.
Timeout(r, n, lv) ==
    LET R == rt[r]
        ids == IF R.srm[<<n, lv>>] = {} THEN Advertised(R, lv) ELSE R.srm[<<n, lv>>]
    IN
    /\ r \in Routers /\ n \in Neighbours(r) /\ lv <= conf.level[r]
    /\ conf.periodic \/ <<n, lv>> \in R.holdoff
    /\ Updates(chan, <<r, n>>, lv) < MaxUpdates
    /\ IF Wants(R, n, lv)
       THEN /\ chan' = Put(chan, r, n, Build(R, lv, ids))
            /\ rt' = [rt EXCEPT ![r].holdoff = @ \ {<<n, lv>>}, ![r].srm[<<n, lv>>] = {}]
       ELSE /\ rt' = [rt EXCEPT ![r].holdoff = @ \ {<<n, lv>>}]
            /\ UNCHANGED chan
    /\ UNCHANGED <<conf, live, faults, fate>>

AllNodes == UNION {DOMAIN c.level \cup c.endnodes : c \in Confs}

Next ==
    \/ \E l \in Circuits : CircuitUp(l) \/ CircuitDown(l)
    \/ \E p \in Pairs : Lose(p) \/ TakeUp(p) \/ TakeDown(p) \/ TakeRoute(p) \/ TakeData(p)
    \/ \E n \in Nodes, dst \in conf.dests, rqr \in BOOLEAN :
          Send(n, dst, rqr) \/ EndnodeSend(n, dst, rqr)
    \/ \E r \in Routers, n \in Nodes, lv \in Levels : Timeout(r, n, lv)

(* Weak fairness of TakeUp, TakeDown, TakeRoute and TakeData for each       *)
(* channel, and of Timeout for each timer: the node thread takes what a    *)
(* circuit brings and timers expire, while circuits need not come up, fail *)
(* or lose anything.  It is written out, "not enabled again and again, or  *)
(* done again and again", with the effect that tells the step from the     *)
(* others.                                                                 *)
Waiting(p) == p \in Pairs /\ chan[p] # <<>>
Read(p) == p \in Pairs /\ Len(chan'[p]) < Len(chan[p])

Due(r, n, lv) ==
    /\ r \in Routers /\ <<r, n>> \in Pairs /\ lv <= conf.level[r]
    /\ Updates(chan, <<r, n>>, lv) < MaxUpdates
    /\ \/ <<n, lv>> \in rt[r].holdoff
       \/ conf.periodic /\ {r, n} \in live /\ Wants(rt[r], n, lv)
Expired(r, n, lv) ==
    /\ r \in Routers /\ <<r, n>> \in Pairs
    /\ \/ <<n, lv>> \in rt[r].holdoff /\ <<n, lv>> \notin rt'[r].holdoff
       \/ Updates(chan', <<r, n>>, lv) > Updates(chan, <<r, n>>, lv)

Fairness ==
    \A a \in AllNodes, b \in AllNodes :
        /\ []<>(~ Waiting(<<a, b>>)) \/ []<><<Read(<<a, b>>)>>_vars
        /\ \A lv \in Levels :
            []<>(~ Due(a, b, lv)) \/ []<><<Expired(a, b, lv)>>_vars

Spec == Init /\ [][Next]_vars /\ Fairness

-----------------------------------------------------------------------------
Entries == [hops : 0 .. InfHops, cost : 0 .. InfCost]

TypeOK ==
    /\ \A r \in Routers :
        /\ rt[r].up \subseteq Neighbours(r)
        /\ \A lv \in Levels :
            /\ DOMAIN rt[r].m[lv].col \subseteq Routers
            /\ \A k \in DOMAIN rt[r].m[lv].col : rt[r].m[lv].col[k] \in [Ids -> Entries]
            /\ rt[r].m[lv].best \in [Ids -> Entries]
            /\ rt[r].m[lv].oadj \in [Ids -> Nodes \cup {None}]
        /\ \A p \in DOMAIN rt[r].srm : rt[r].srm[p] \subseteq Ids
        /\ rt[r].attached \in BOOLEAN
    /\ live \subseteq Circuits

(* The tables are never stale: after every handler the stored best routes  *)
(* and output adjacencies of a router are those its columns give, although *)
(* the code recomputes only the destinations it believes affected.         *)
TablesCurrent ==
    \A r \in Routers, lv \in Levels :
        \A i \in (IF lv = 1 THEN 0 .. conf.maxnodes[r] ELSE Areas) :
            lv <= conf.level[r] =>
                /\ rt[r].m[lv].best[i] = Best(rt[r], lv, i).e
                /\ rt[r].m[lv].oadj[i] = Best(rt[r], lv, i).adj

(* Destination 0 leads somewhere exactly while some area router in reach   *)
(* says so: an area router offers it when, and only when, its own area     *)
(* table reaches another area.                                             *)
AttachedIsAdvertised ==
    \A r \in Routers : conf.level[r] = 2 =>
        LET other == \E a \in Areas \ {Area(r)} : rt[r].m[2].oadj[a] # None IN
        /\ rt[r].attached = other
        /\ (rt[r].m[1].col[r][0].cost = 0) = other
        /\ other => rt[r].m[1].oadj[0] = r

(* The tables and the attached flag of a router follow from its columns     *)
(* after every handler (L1Router::compute, L2Router::compute_areas).        *)
TablesSound == TypeOK /\ TablesCurrent /\ AttachedIsAdvertised

\* What the messages under way from a to b will make of b's entry.
RECURSIVE Pending(_, _, _, _, _)
Pending(q, a, b, lv, i) ==
    IF q = <<>>
    THEN IF a \in DOMAIN rt[b].m[lv].col THEN rt[b].m[lv].col[a][i] ELSE Inf
    ELSE LET m == q[Len(q)] IN
         IF m.kind = "route" /\ m.lv = lv /\ i \in DOMAIN m.ent THEN Received(rt[b], a, m.ent[i])
         ELSE IF m.kind \in {"up", "down"} THEN Inf
         ELSE Pending(SubSeq(q, 1, Len(q) - 1), a, b, lv, i)

(* No change is forgotten: on a circuit that loses nothing, what a         *)
(* neighbour holds, or will hold once it has read what is under way, is    *)
(* what the router would advertise now, or the destination is marked and   *)
(* the update timer runs its short interval.                               *)
NothingForgotten ==
    conf.faults.losses = 0 =>
    \A p \in Pairs, lv \in Levels :
        LET a == p[1]
            b == p[2]
            ids == IF lv = 1 THEN 0 .. conf.maxnodes[a] ELSE Areas
            in == IF lv = 1 THEN 0 .. conf.maxnodes[b] ELSE Areas
        IN  (a \in Routers /\ b \in Routers /\ {a, b} \in live /\ b \in rt[a].up
              /\ (lv = 2 => AreaRouters(rt[a], b))
              /\ "down" \notin {chan[<<b, a>>][k].kind : k \in 1 .. Len(chan[<<b, a>>])})
            => \A i \in ids \cap in :
                \/ i \in rt[a].srm[<<b, lv>>] /\ <<b, lv>> \in rt[a].holdoff
                \/ Pending(chan[p], a, b, lv, i) = Received(rt[b], a, Entry(rt[a], lv, i))

(* Every routing message fits the block the neighbour can take: six bytes  *)
(* of header and checksum, and two per word.                               *)
UpdateFits ==
    \A p \in Pairs : \A k \in 1 .. Len(chan[p]) :
        chan[p][k].kind = "route" =>
            LET ids == DOMAIN chan[p][k].ent
                segments == Cardinality({i \in ids : i - 1 \notin ids})
            IN  2 * (Cardinality(ids) + 2 * segments) + 6 <= conf.room + 16

(* What a router has to say reaches its neighbours: every change is under   *)
(* way or marked, in messages that fit (set_srm, build, update timer).      *)
ChangesAdvertised == NothingForgotten /\ UpdateFits

(* No packet travels for ever: whatever loops the tables pass through, it  *)
(* crosses at most the limit of circuits on its way out, and at most twice *)
(* the limit, as far as the six bit field goes, before it is back.         *)
TravelBounded ==
    \A p \in Pairs : \A k \in 1 .. Len(chan[p]) :
        chan[p][k].kind = "data" =>
            LET pkt == chan[p][k].pkt IN
            /\ pkt.crossed <= VisitTop
            /\ pkt.crossed <= (IF pkt.rts THEN 2 ELSE 1) * conf.maxvisits

(* A packet is delivered at its destination and nowhere else, returned     *)
(* packets at their sender: an attached area router never takes traffic of *)
(* another area for its own through destination 0.                         *)
DeliveredAtDestination == fate # NoFate => fate.at = fate.pkt.dst

(* A packet ends within its visit limit, and only its destination takes it  *)
(* (forward, find_oadj).                                                    *)
ForwardingSound == TravelBounded /\ DeliveredAtDestination

(* "Level 1 data does not go out of area" (wants_updates), and level 1 work *)
(* is declined for an out of area neighbour (L2Router::adj_up): no router  *)
(* ever routes a node of its own area through another area.                *)
LevelOneStaysInArea ==
    \A r \in Routers : \A i \in Ids \ {0} :
        LET a == rt[r].m[1].oadj[i] IN a # None => Area(a) = Area(r)

-----------------------------------------------------------------------------
(* Reference: least costs over the circuits that work.                     *)

\* A level 1 route starts and ends in the router's area.
Origins(r, lv, i) ==
    IF lv = 2 THEN {x \in Routers : conf.level[x] = 2 /\ Area(x) = i}
    ELSE {n \in Nodes : Area(n) = Area(r) /\ IF i = 0 THEN n \in Routers /\ rt[n].attached
                                             ELSE Tid(n) = i}

Speakers(r, lv, i) ==
    {x \in Routers : /\ lv <= conf.level[x]
                     /\ lv = 1 => i <= conf.maxnodes[x] /\ Area(x) = Area(r)}

\* The least cost of a path of at most k circuits from n to an origin of i.
RECURSIVE Dist(_, _, _, _, _)
Dist(k, r, lv, i, n) ==
    IF n \in Origins(r, lv, i) THEN 0
    ELSE IF k = 0 \/ n \notin Speakers(r, lv, i) THEN InfCost
    ELSE LET via == {Dist(k - 1, r, lv, i, x) + Cost(n, x) :
                        x \in {y \in Neighbours(n) : {y, n} \in live}}
             least == CHOOSE c \in via \cup {InfCost} : \A d \in via \cup {InfCost} : c <= d
         IN  least

\* A router that is settled knows the least cost and a neighbour on a path
\* of that cost.
Settled(r, lv, i) ==
    LET far == Cardinality(Routers)
        d == Dist(far, r, lv, i, r)
        a == rt[r].m[lv].oadj[i]
    IN  /\ rt[r].m[lv].best[i].cost = d
        /\ IF d = InfCost THEN a = None
           ELSE IF d = 0 THEN a = r
           ELSE a # r /\ d = Cost(r, a) + Dist(far, r, lv, i, a)

\* The destinations of a router; at level 1 without the numbers that nodes of
\* other areas bear, whose routes LevelOneStaysInArea is about.
Own(r, lv) ==
    IF lv = 2 THEN Areas
    ELSE 0 .. conf.maxnodes[r] \ {Tid(n) : n \in {x \in Nodes : Area(x) # Area(r)}}

(* The tables have converged, as they do once circuits have stopped         *)
(* failing, through any loop and count to infinity on the way: every router *)
(* holds least cost routes to every area in reach and to every node in      *)
(* reach within its own, and none to the others.  A number that a node of   *)
(* another area bears is left out: the code does not keep level 1 within    *)
(* the area.                                                                *)
Converged ==
    \A r \in Routers, lv \in Levels : lv <= conf.level[r] =>
        \A i \in Own(r, lv) : Settled(r, lv, i)
=============================================================================
