----------------------------- MODULE PtpCircuit -----------------------------
(***************************************************************************)
(* The routing layer's point to point circuit (src/routing/ptp.cc) and the *)
(* life of its adjacency (src/routing/adjacency.cc), on top of the         *)
(* datalink's port, which turns open, close and restart into work items    *)
(* for the datalink (src/datalink/datalink.cc).                            *)
(*                                                                         *)
(* A received packet is reduced to what the states tell apart:             *)
(*   "init"    an acceptable Phase IV init                                 *)
(*   "badinit" an init refused for its type, blocking, address or phase    *)
(*   "verify"  the expected verification                                   *)
(*   "wrong"   a verification with another value                           *)
(*   "hello"   a valid hello, or data, from the neighbour                  *)
(*   "alien"   a hello from another node or with bad test data             *)
(*   "imposed" a verification from another node                            *)
(***************************************************************************)
EXTENDS PtpDatalink

VARIABLES
    ci,       \* state of the PtpCircuit state machine
    citimer,  \* the circuit's timer (init, verification or hello) is armed
    adj       \* the adjacency: "none", "made" (not up yet) or "up"; while
              \* it is up its listen timer is armed

civars == <<ci, citimer, adj>>

RequestVerify == conf.verify

CiInit == ci = "s0" /\ citimer = FALSE /\ adj = "none"

(* restart (why): a running circuit loses its adjacency, whose listen timer *)
(* stops with it; the datalink is asked to restart.                         *)
Restarted ==
    /\ adj' = "none"
    /\ citimer' = FALSE
    /\ ci' = "ds"

RestartPosts == <<ToDl("Restart", "")>>

RestartCircuit ==
    /\ Restarted
    /\ GetThenPut(RestartPosts)
    /\ UNCHANGED dlvars

Ignore == GetThenPut(<<>>) /\ UNCHANGED <<civars, dlvars>>

(* s0 (CircuitStart): open the datalink.                                    *)
CiStart ==
    /\ IsNext("ci", "CircuitStart")
    /\ \/ /\ ci = "s0"
          /\ ci' = "ds"
          /\ adj' = "none"
          /\ GetThenPut(<<ToDl("Start", "")>>)
          /\ UNCHANGED <<citimer, dlvars>>
       \/ ci # "s0" /\ Ignore

(* CircuitStop: halt, which stops the timer and closes the datalink; ru     *)
(* takes the adjacency down first.  The other states leave an adjacency     *)
(* that is not up in place.                                                 *)
AdjOnStop == IF ci = "ru" THEN "none" ELSE adj

CiStop ==
    /\ IsNext("ci", "CircuitStop")
    /\ \/ /\ ci # "s0"
          /\ ci' = "s0"
          /\ citimer' = FALSE
          /\ adj' = AdjOnStop
          /\ GetThenPut(<<ToDl("Stop", "")>>)
          /\ UNCHANGED dlvars
       \/ ci = "s0" /\ Ignore

(* DlStatus up: ds sends the init message and waits for the neighbour's.    *)
CiUp ==
    /\ IsNext("ci", "Up")
    /\ \/ /\ ci = "ds"
          /\ ci' = "ri"
          /\ adj' = "none"
          /\ citimer' = TRUE
          /\ SendFrame(Tail(queue))
       \/ ci # "ds" /\ Ignore

(* DlStatus down: every state but s0 starts over.                           *)
CiDown ==
    /\ IsNext("ci", "Down")
    /\ \/ ci # "s0" /\ RestartCircuit
       \/ ci = "s0" /\ Ignore

(* up (): the adjacency comes up and the hello timer is started.            *)
Up == ci' = "ru" /\ adj' = "up" /\ citimer' = TRUE

(* ri (PtpInit): send our verification if the init asks for it, then wait   *)
(* for the neighbour's or come up.                                          *)
RiInit ==
    /\ IsNext("ci", "Received") /\ Arg = "init" /\ ci = "ri"
    /\ \/ RequestVerify /\ ci' = "rv" /\ adj' = "made" /\ citimer' = TRUE
       \/ ~ RequestVerify /\ Up
    /\ \/ SendFrame(Tail(queue))
       \/ GetThenPut(<<>>) /\ UNCHANGED dlvars

RvVerify ==
    /\ IsNext("ci", "Received") /\ Arg = "verify" /\ ci = "rv"
    /\ Up
    /\ GetThenPut(<<>>)
    /\ UNCHANGED dlvars

(* The packets that make a state start over.                                *)
Refused ==
    \/ ci = "ri" /\ Arg \in {"badinit", "verify", "wrong", "imposed"}
    \/ ci = "rv" /\ Arg \in {"wrong", "imposed"}
    \/ ci = "ru" /\ Arg \in {"alien", "imposed"}

CiRefused == IsNext("ci", "Received") /\ Refused /\ RestartCircuit

(* Everything else changes nothing here: ru restarts the listen timer of    *)
(* the adjacency, forwards data and hands routing messages on.              *)
CiReceived ==
    /\ IsNext("ci", "Received")
    /\ ~ Refused
    /\ ~ (ci = "ri" /\ Arg = "init")
    /\ ~ (ci = "rv" /\ Arg = "verify")
    /\ Ignore

(* The circuit's timer fires: ri and rv give up, ru sends a hello, and s0   *)
(* would take it as the word to start again.  ds ignores it.                *)
TimeoutPosts == IF ci = "s0" THEN <<ToDl("Start", "")>> ELSE RestartPosts

CiTimeout ==
    /\ citimer /\ Len(queue) < MaxQueue
    /\ \/ /\ ci \in {"s0", "ri", "rv"}
          /\ Restarted
          /\ PutAll(TimeoutPosts)
          /\ UNCHANGED dlvars
       \/ /\ ci = "ru"
          /\ SendFrame(queue)
          /\ UNCHANGED civars

(* Adjacency::timeout: the listen timer fires, the adjacency goes down and  *)
(* adj_timeout restarts the circuit.                                        *)
AdjTimeout ==
    /\ adj = "up" /\ Len(queue) < MaxQueue
    /\ Restarted
    /\ PutAll(RestartPosts)
    /\ UNCHANGED dlvars

CiNodeThread ==
    \/ CiStart \/ CiStop \/ CiUp \/ CiDown \/ RiInit \/ RvVerify
    \/ CiRefused \/ CiReceived

CiTimers == CiTimeout \/ AdjTimeout
=============================================================================
