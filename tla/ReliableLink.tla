---------------------------- MODULE ReliableLink ----------------------------
(***************************************************************************)
(* What DDCMP promises the layer above between two stations that are both  *)
(* running: each payload given to one (Protocol::send) is handed up by the *)
(* other (the deliver hook) once, and in order.                            *)
(***************************************************************************)
EXTENDS Naturals, Sequences

CONSTANTS Stations, Peer(_), Payloads

VARIABLES held,   \* payloads on their way from each station, oldest first
          got     \* payloads each station has delivered

vars == <<held, got>>

Init ==
    /\ held = [i \in Stations |-> <<>>]
    /\ got = [i \in Stations |-> <<>>]

(* Station i is given the next payload.                                    *)
Give(i) ==
    /\ \E p \in Payloads : held' = [held EXCEPT ![i] = Append(@, p)]
    /\ UNCHANGED got

(* Station i delivers the oldest payload on its way to it.                 *)
Deliver(i) ==
    /\ held[Peer(i)] # <<>>
    /\ got' = [got EXCEPT ![i] = Append(@, Head(held[Peer(i)]))]
    /\ held' = [held EXCEPT ![Peer(i)] = Tail(@)]

Next == \E i \in Stations : Give(i) \/ Deliver(i)

Spec == Init /\ [][Next]_vars
=============================================================================
