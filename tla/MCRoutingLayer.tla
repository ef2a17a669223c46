--------------------------- MODULE MCRoutingLayer ---------------------------
(***************************************************************************)
(* The two halves of the routing layer, examined together: the networks of *)
(* MCRouting, whose tables are exchanged and whose packets are forwarded,  *)
(* and the LANs of MCLan, whose stations find each other.  A behaviour is  *)
(* one or the other; the half it does not choose stands still.             *)
(***************************************************************************)
EXTENDS MCRouting

CONSTANT LanConfs

VARIABLES which, lanConf, circ, wire, calm, changes, heard

lanVars == <<lanConf, circ, wire, calm, changes, heard>>

Lan == INSTANCE MCLan WITH Confs <- LanConfs, conf <- lanConf
\* The LANs themselves depend on no constant.
Networks == INSTANCE MCLan WITH Confs <- {}, conf <- lanConf
LanAll == Networks!Networks

LayerInit ==
    /\ which \in {"routing", "lan"}
    /\ Init /\ (which # "routing" => conf = Chain)
    /\ Lan!Init /\ (which # "lan" => lanConf = Lan!ThreeRouters)

LayerNext ==
    \/ which = "routing" /\ Next /\ UNCHANGED <<which, lanVars>>
    \/ which = "lan" /\ Lan!Next /\ UNCHANGED <<which, vars>>

(* The fairness of Routing and of Lan; a network of Routing that stands     *)
(* still is at rest.                                                        *)
LayerSpec ==
    /\ LayerInit /\ [][LayerNext]_<<which, vars, lanVars>>
    /\ Fairness
    /\ WF_lanVars(which = "lan" /\ Lan!Heal)
    /\ WF_lanVars(which = "lan" /\ \E s \in Lan!Stations : Lan!Receive(s))
    /\ WF_lanVars(which = "lan" /\ \E s \in Lan!Stations : Lan!DrTimeout(s))
    /\ WF_lanVars(which = "lan" /\ \E s, n \in Lan!Stations : Lan!ListenTimeout(s, n))
    /\ \A s \in Lan!Addresses :
         SF_lanVars(which = "lan" /\ s \in Lan!Stations /\ Lan!HelloTimeout(s))
-----------------------------------------------------------------------------
(* The tables of a router are those its neighbours' updates give, after     *)
(* every handler (L1Router::compute, L2Router::compute_areas).             *)
TablesHold == which = "routing" => TablesSound

(* Every change of a table is told to every neighbour, in messages that fit *)
(* (Update::set_srm, Update::build).                                        *)
ChangesTold == which = "routing" => ChangesAdvertised

(* A packet travels no further than its visits allow, and is delivered only *)
(* where it was sent (L1Router::forward).                                   *)
PacketsArriveOrStop == which = "routing" => ForwardingSound

(* Once circuits have stopped failing the tables hold least cost routes, at *)
(* both levels, but for the node numbers that another area uses too         *)
(* (L1Router::compute, Update::timeout).                                    *)
RoutesConverge == <>[](which = "routing" => Converged)

(* A station has as neighbours those it heard, each in the state the hellos *)
(* confirm (RoutingLanCircuit::handle).                                     *)
NeighboursSound == which = "lan" => Lan!NeighboursSound

(* The designated router of a LAN follows what its routers know, and waits  *)
(* before it acts (RoutingLanCircuit::calc_dr).                             *)
ElectionSound == which = "lan" => Lan!ElectionSound

(* Once stations stop coming and going, routers agree on a designated       *)
(* router and endnodes use it (RoutingLanCircuit::calc_dr,                  *)
(* EndnodeLanCircuit::handle).                                              *)
LanSettles == <>[](which = "lan" => Lan!Settled)
=============================================================================
