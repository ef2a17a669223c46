------------------------------ MODULE PtpLink -------------------------------
(***************************************************************************)
(* A point to point circuit and its datalink on one work queue, the        *)
(* receive thread, the neighbour, and the node's control of the circuit:   *)
(* start_circuits and stop_circuits as Node calls them, once for a node    *)
(* that keeps its circuits up, and again and again for one that runs them  *)
(* on demand of its API clients (src/common/node.cc).                      *)
(***************************************************************************)
EXTENDS PtpCircuit

VARIABLE wanted     \* circuits_up_

vars == <<conf, queue, dlvars, civars, wanted>>

Init ==
    /\ queue = <<>>
    /\ DlInit
    /\ CiInit
    /\ wanted = FALSE

(* start_circuits: Node::api_client_arrived, or routing's start.            *)
StartCircuit ==
    /\ ~ wanted
    /\ Len(queue) < MaxQueue
    /\ wanted' = TRUE
    /\ Put(Item("ci", "CircuitStart", ""))
    /\ UNCHANGED <<dlvars, civars>>

(* stop_circuits: the idle timer of Node.                                   *)
StopCircuit ==
    /\ conf.onDemand /\ wanted
    /\ Len(queue) < MaxQueue
    /\ wanted' = FALSE
    /\ Put(Item("ci", "CircuitStop", ""))
    /\ UNCHANGED <<dlvars, civars>>

NodeThread ==
    \/ DlNodeThread /\ UNCHANGED civars
    \/ CiNodeThread

Timers ==
    \/ DlTimer /\ UNCHANGED civars
    \/ CiTimers

Thread == ReceiveThread /\ UNCHANGED civars

Next ==
    /\ \/ StartCircuit
       \/ StopCircuit
       \/ (NodeThread \/ Timers \/ Thread) /\ UNCHANGED wanted
    /\ UNCHANGED conf

Spec == Init /\ [][Next]_vars

(* The node thread drains its queue and armed timers fire; the receive      *)
(* thread notices a stop request at its next poll.  Of the network it is    *)
(* assumed that opening a socket, connecting, and the DDCMP handshake do    *)
(* not fail every time they are tried again, and that frames keep coming.   *)
Fairness ==
    /\ WF_vars(NodeThread /\ UNCHANGED <<conf, wanted>>)
    /\ WF_vars(DlTimer /\ UNCHANGED <<conf, civars, wanted>>)
    /\ WF_vars(CiTimeout /\ UNCHANGED <<conf, wanted>>)
    /\ WF_vars((PostConnected \/ ThreadStops) /\ UNCHANGED <<conf, civars, wanted>>)
    /\ SF_vars(DlOpen(TRUE) /\ UNCHANGED <<conf, civars, wanted>>)
    /\ SF_vars(CheckOk /\ UNCHANGED <<conf, civars, wanted>>)
    /\ SF_vars((\E p \in Packets : Receive(p)) /\ UNCHANGED <<conf, civars, wanted>>)
    /\ SF_vars(ProtoUp /\ UNCHANGED <<conf, civars, wanted>>)

FairSpec == Spec /\ Fairness
-----------------------------------------------------------------------------
DlKinds == {"Start", "Stop", "Restart", "Reconnect", "Connected", "ThreadExit",
            "Received", "Flush"}
CiKinds == {"CircuitStart", "CircuitStop", "Up", "Down", "Received"}

(* Every variable has its type, and every queued item is one its owner      *)
(* knows: no status report or request is sent to the wrong layer.           *)
TypeOK ==
    /\ dl \in {"s0", "connecting", "running", "reconnecting", "shutdown"}
    /\ thread \in {"none", "checking", "posting", "receiving", "exited"}
    /\ {stopnow, isUp, restartNow, timer, pending, tx, posted} \subseteq BOOLEAN
    /\ sock \in 0 .. 2
    /\ proto \in {"halted", "start", "run", "maint"}
    /\ ci \in {"s0", "ds", "ri", "rv", "ru"}
    /\ adj \in {"none", "made", "up"}
    /\ {citimer, wanted} \subseteq BOOLEAN
    /\ \A i \in 1 .. Len(queue) :
        \/ queue[i].to = "dl" /\ queue[i].kind \in DlKinds
        \/ queue[i].to = "ci" /\ queue[i].kind \in CiKinds

(* The node thread joins the receive thread when it takes a ThreadExit off  *)
(* the queue (PtpDatalink::validate).  There is one in the queue exactly    *)
(* when the thread is done and not yet joined, so the join never waits and  *)
(* no thread is left unjoined.                                              *)
JoinNeverBlocks == Queued("dl", "ThreadExit") <=> thread = "exited"

(* A circuit that takes the datalink to be up while it is not will hear of  *)
(* it: the Down report is in the queue (report_down is called once, and     *)
(* PtpCircuit in ri, rv and ru acts on it).                                 *)
StatusAgrees == ci \in {"ri", "rv", "ru"} /\ ~ isUp => Queued("ci", "Down")

(* The ds state has no timeout: a circuit that waits in it for a datalink   *)
(* that is up already has a report on its way, or its restart request has   *)
(* still to be handled.                                                     *)
ReportOnItsWay ==
    ci = "ds" /\ isUp =>
        Queued("ci", "Up") \/ Queued("ci", "Down") \/ Queued("dl", "Restart")

(* The adjacency is up exactly while the circuit is in ru: every way out of *)
(* ru takes it down (restart, CircuitStop, listen timeout).                 *)
AdjacencyMatches == (adj = "up") <=> (ci = "ru")

(* halt () and restart () leave no circuit timer behind: s0 would take its  *)
(* expiry as a request to open the datalink again.                          *)
HaltedIsQuiet == ci \in {"s0", "ds"} => ~ citimer

(* What the circuit believes of the datalink, and what it holds, agree with  *)
(* the datalink's state after every handler of either (report_down,         *)
(* PtpCircuit's restart and halt).                                          *)
CircuitAgrees == TypeOK /\ StatusAgrees /\ AdjacencyMatches /\ HaltedIsQuiet

(* While the circuit is open the datalink has something that will move it   *)
(* on: a Start in the queue, its thread, or the holdoff timer.              *)
AlwaysRetrying ==
    ci # "s0" =>
        /\ dl = "s0" => Queued("dl", "Start")
        /\ dl = "connecting" => thread # "none"
        /\ dl = "reconnecting" => thread # "none" \/ timer

(* A circuit that is kept up is never stranded by its datalink, whatever     *)
(* requests, expiries and thread exits cross in the queue.  One on demand    *)
(* may be (shutdown_state ignores Start), and so may one over DDCMP, whose   *)
(* timer expiries all go to the protocol engine.                             *)
Kept == ~Ddcmp /\ ~conf.onDemand

NeverStranded == Kept => ReportOnItsWay /\ AlwaysRetrying

(* The node thread opens or closes socket_ only while the receive thread is *)
(* not running (include/decnet/datalink/ptp.h:114).                         *)
SocketQuiet == [][sock' # sock /\ thread' = thread => ~ ThreadAlive]_vars

(* While routing waits for the datalink, the datalink keeps retrying        *)
(* (include/decnet/datalink/ptp.h:15): it always gets back to connecting.   *)
KeepsRetrying ==
    (ci = "ds" /\ wanted) ~> (dl = "connecting" \/ ci # "ds" \/ ~ wanted)

(* Over UDP, where no connect timer cuts an attempt short, the datalink     *)
(* reports up in the end and the circuit goes on.                           *)
ComesUp == (Mode = "udp" /\ ci = "ds" /\ wanted) ~> (ci # "ds" \/ ~ wanted)

(* A circuit that is kept up: its datalink always gets back to connecting,  *)
(* and over UDP it comes up.                                                *)
KeepsTrying == (Kept => KeepsRetrying) /\ ComesUp
=============================================================================
