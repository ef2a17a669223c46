------------------------------- MODULE MCLan -------------------------------
(* The networks in which TLC examines Lan.                                  *)
EXTENDS Lan

Net(rs, es, ch) ==
    [routers |-> rs, endnodes |-> es, area |-> [s \in rs \cup es |-> 1], l2 |-> {},
     prio |-> 1, newPrios |-> [s \in rs \cup es |-> {}], onDemand |-> {},
     present |-> {}, lossy |-> TRUE, maxQueue |-> 1, changes |-> ch]

(* Three routers on a LAN that is well: one joins the other two, and one    *)
(* goes.                                                                    *)
ThreeRouters == [Net({1, 2, 3}, {}, 2) EXCEPT !.lossy = FALSE, !.present = {1, 2}]

(* Two routers that come and go, one of them with a new priority each time. *)
Priorities == [Net({1, 2}, {}, 4) EXCEPT !.newPrios[1] = {2}, !.maxQueue = 2]

(* An endnode, on demand, with two routers, on a LAN that is well.           *)
WithEndnode == [Net({1, 2}, {3}, 2) EXCEPT !.lossy = FALSE, !.onDemand = {3}, !.present = {1, 3}]

(* Two area routers, one of them from elsewhere, and an endnode.            *)
TwoAreas == [Net({1, 3}, {2}, 3) EXCEPT !.area[3] = 2, !.l2 = {1, 3}]

Networks == {ThreeRouters, Priorities, WithEndnode, TwoAreas}
=============================================================================
