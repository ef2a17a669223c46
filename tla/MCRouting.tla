----------------------------- MODULE MCRouting -----------------------------
(* Small networks for Routing.  Addresses are area * 4 + node number.      *)
EXTENDS Routing

NoFaults == [ups |-> 0, downs |-> 0, losses |-> 0, packets |-> 0]

\* Three level 1 routers in a triangle with one dear side; two circuits may
\* fail.
Triangle ==
    [level |-> [r \in {5, 6, 7} |-> 1], endnodes |-> {},
     cost |-> [p \in {{5, 6}, {6, 7}, {5, 7}} |-> IF p = {5, 7} THEN 3 ELSE 1],
     maxnodes |-> [r \in {5, 6, 7} |-> 3], maxhops |-> 3, maxcost |-> 4, maxarea |-> 1,
     maxvisits |-> 2, rest |-> TRUE, periodic |-> FALSE, room |-> 64, dests |-> {},
     faults |-> [NoFaults EXCEPT !.downs = 1, !.ups = 1]]

\* Two routers and an endnode that a packet is sent to and from.
Chain ==
    [level |-> [r \in {5, 6} |-> 1], endnodes |-> {7},
     cost |-> [p \in {{5, 6}, {6, 7}} |-> 1],
     maxnodes |-> [r \in {5, 6} |-> 3], maxhops |-> 3, maxcost |-> 4, maxarea |-> 1,
     maxvisits |-> 2, rest |-> TRUE, periodic |-> FALSE, room |-> 1, dests |-> {5, 7, 10},
     faults |-> [NoFaults EXCEPT !.downs = 1, !.packets = 1]]

\* The same, with one lost message.
Lossy == [Chain EXCEPT !.faults = [NoFaults EXCEPT !.ups = 2, !.losses = 1], !.rest = FALSE,
                       !.dests = {}, !.periodic = TRUE]

\* Two areas: a level 1 router, its area router and one of another area.
TwoAreas ==
    [level |-> [r \in {5, 6, 11} |-> IF r = 5 THEN 1 ELSE 2], endnodes |-> {},
     cost |-> [p \in {{5, 6}, {6, 11}} |-> 1],
     maxnodes |-> [r \in {5, 6, 11} |-> 3], maxhops |-> 3, maxcost |-> 4, maxarea |-> 2,
     maxvisits |-> 2, rest |-> TRUE, periodic |-> FALSE, room |-> 64, dests |-> {5, 11},
     faults |-> [NoFaults EXCEPT !.downs = 1, !.packets = 1]]

\* The same with node number 1 in both areas.
SameNumber ==
    [TwoAreas EXCEPT
        !.level = [r \in {5, 6, 9} |-> IF r = 5 THEN 1 ELSE 2],
        !.cost = [p \in {{5, 6}, {6, 9}} |-> 1],
        !.maxnodes = [r \in {5, 6, 9} |-> 3], !.dests = {5},
        !.rest = FALSE, !.faults = [NoFaults EXCEPT !.ups = 2]]

MCConfs == {Triangle, Chain, Lossy, TwoAreas}
MCSameNumber == {SameNumber}
=============================================================================
