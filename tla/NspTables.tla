----------------------------- MODULE NspTables ------------------------------
(***************************************************************************)
(* The tables of an NSP layer (class NSP of src/nsp/nsp.cc): by_addr_      *)
(* (conns), by_remote_, free_ids_ and the connections closed (the history  *)
(* of closed_).  A layer's tables are one record.                          *)
(***************************************************************************)
EXTENDS NspConnection, Functions

CONSTANTS MaxConns,   \* max_connections: 4095
          AddrMod     \* link addresses are modulo this: 65536

(* The largest high part that init_ids gives an address.                    *)
Block == MaxConns + 1
MaxHigh == (AddrMod - 1) \div Block

(* config.cc accepts every max-connections.                                 *)
ASSUME TablesAssumption == MaxConns \in Nat \ {0} /\ AddrMod \in Nat \ {0}

(* The blocks of init_ids fill the address space, as those of the default   *)
(* 4095 do.  With any other number the last block is cut off, and the       *)
(* addresses change their low parts when they wrap.                         *)
EvenBlocks == AddrMod % Block = 0

Addrs == 0 .. AddrMod - 1

(* init_ids and return_id: the low part of an address stays the same.       *)
InitIds(high) == [i \in 1 .. MaxConns |-> (i + high[i] * Block) % AddrMod]

\* Faulty variant: the low part moves.
ReturnIdNext(id) == (id + 1) % AddrMod

ReturnId(id) == (id + Block) % AddrMod

Empty == [x \in {} |-> x]

Enter(table, key, v) == [x \in DOMAIN table \cup {key} |-> IF x = key THEN v ELSE table[x]]

Fresh(high) == [conns |-> Empty, byRemote |-> Empty, free |-> InitIds(high), closed |-> {}]

(* A link that has been running for a while: segments up to s - 1, one to a *)
(* message, and as many interrupts went either way.                         *)
OldLink(src, dst, s, flow) ==
    [New(src) EXCEPT !.st = "run", !.dst = dst, !.nextSend = s, !.nextExpect = s,
                     !.nextSeg = s, !.nextMsg = s, !.maxAcked = s - 1,
                     !.flow = flow, !.maxSeg = s - 1, !.maxMsg = s - 1,
                     !.intSend = s, !.intExpect = s, !.intMsg = s, !.intMax = s]

(* close_connection.  Of a closed connection only its history matters.      *)
Ended(c) == [src |-> c.src, dst |-> c.dst, said |-> c.said, got |-> c.got, gotInt |-> c.gotInt,
             assembly |-> c.assembly, told |-> c.told, why |-> c.why]

Retire(t, c) ==
    [t EXCEPT !.byRemote = Restrict(@, DOMAIN @ \ {c.dst}),
              !.free = Append(@, ReturnId(c.src)),
              !.closed = @ \cup {Ended(c)},
              !.conns = Restrict(@, DOMAIN @ \ {c.src})]

Filed(t, c) ==
    LET d == [c EXCEPT !.out = <<>>] IN
    IF c.st = "cl" THEN Retire(t, d) ELSE [t EXCEPT !.conns = Enter(@, c.src, d)]
=============================================================================
