------------------------------- MODULE Codec --------------------------------
(***************************************************************************)
(* One node builds a message and another one reads it.  On the way the     *)
(* message may be cut short, as by a sender that leaves out what it has    *)
(* nothing to say in, or a word of a routing update may change.  A message *)
(* is [fam, cls, ctx, p]: the protocol, the class, what the reader knows   *)
(* beside the bytes (the entity kind of a reply), and the fields.          *)
(***************************************************************************)
EXTENDS Packets

CONSTANTS Messages,     \* the messages the node builds
          Deltas        \* what a changed word is increased by

VARIABLES msg, wire, got, step, harm
vars == <<msg, wire, got, step, harm>>

Dap == INSTANCE DapMessages
Nice == INSTANCE NiceCodec

Headers == {"routing", "nsp", "mop", "ConnectData", "Elist", "RSent"}

\* A peer may block several DAP messages into one; this node never does.
Blocked(ms) ==
    FlattenSeq([i \in DOMAIN ms |->
        LET b == Dap!PutDap(ms[i].type, ms[i].p)
        IN  <<b[1], IF i < Len(ms) THEN 2 ELSE 0>>
            \o (IF i < Len(ms) THEN <<Len(b) - 2>> ELSE <<>>) \o Rest(b, 2)])

Buildable(m) ==
    CASE m.fam \in Headers -> FitsMessage(m.cls, m.p)
      [] m.fam = "dap" -> \A i \in DOMAIN m.p.blocked : Dap!FitsDap(m.p.blocked[i].type, m.p.blocked[i].p)
      [] OTHER -> TRUE

Bytes(m) ==
    CASE m.fam \in Headers -> PutMessage(m.cls, m.p)
      [] m.fam = "dap" -> Blocked(m.p.blocked)
      [] m.cls = "request" -> Nice!PutRequest(m.p)
      [] m.cls \in {"read", "loop"} -> Nice!PutReply(m.p)
      [] m.cls = "event" -> Nice!PutEvent(m.p)

Reading(m, b) ==
    LET Result(t) == IF ~t.ok THEN Refused
                     ELSE [cls |-> m.cls, p |-> IF m.fam = "dap" THEN [blocked |-> t.v] ELSE t.v]
    IN  IF m.fam \in Headers THEN TakeMessage(m.fam, b)
        ELSE Result(CASE m.fam = "dap" -> Dap!TakeDapAll(b)
                      [] m.cls = "request" -> Nice!TakeRequest(b)
                      [] m.cls = "read" -> Nice!TakeReadReply(m.ctx, b)
                      [] m.cls = "loop" -> Nice!TakeLoopReply(b)
                      [] m.cls = "event" -> Nice!TakeEvent(b))

NoMessage == [fam |-> "none", cls |-> "none"]

Init ==
    /\ msg = NoMessage /\ wire = <<>> /\ got = Refused
    /\ step = "idle" /\ harm = "none"

Send ==
    /\ step = "idle"
    /\ \E m \in Messages : Buildable(m) /\ msg' = m /\ wire' = Bytes(m)
    /\ step' = "sent"
    /\ UNCHANGED <<got, harm>>

Cut(n) ==
    /\ step = "sent" /\ harm = "none"
    /\ wire' = First(wire, n) /\ harm' = "cut"
    /\ UNCHANGED <<msg, got, step>>

\* The i-th word of a routing update's body changes by d.
Change(i, d) ==
    /\ step = "sent" /\ harm = "none" /\ msg.cls \in Routings
    /\ LET at  == 2 * i + 3
           old == Num(SubSeq(wire, at, at + 1))
           new == (old + d) % 65536
       IN  /\ (new - old) % 65535 # 0
           /\ wire' = First(wire, at - 1) \o Uint(new, 2) \o Rest(wire, at + 1)
    /\ harm' = "changed"
    /\ UNCHANGED <<msg, got, step>>

Receive ==
    /\ step = "sent"
    /\ got' = Reading(msg, wire) /\ step' = "read"
    /\ UNCHANGED <<msg, wire, harm>>

Finish ==
    /\ step = "read"
    /\ msg' = NoMessage /\ wire' = <<>> /\ got' = Refused /\ step' = "idle" /\ harm' = "none"

Next ==
    \/ Send
    \/ \E n \in 0..(Len(wire) - 1) : Cut(n)
    \/ \E i \in 1..((Len(wire) - 4) \div 2), d \in Deltas : Change(i, d)
    \/ Receive
    \/ Finish

Spec == Init /\ [][Next]_vars

-----------------------------------------------------------------------------
\* What a reader sees of a message: a counter its field has no room for is
\* at its largest, and a connect message names the fields it carries.
Seen(m) ==
    CASE m.cls \in {"read", "event"} ->
            [m.p EXCEPT !.params = [k \in DOMAIN @ |->
                [@[k] EXCEPT !.count.value =
                    IF @ > Nice!CounterMax(m.p.params[k].count.bytes)
                    THEN Nice!CounterMax(m.p.params[k].count.bytes) ELSE @]]]
      [] m.cls = "ConnectData" -> ConnectPacket(m.p)
      [] OTHER -> m.p

\* Every message a node builds is read by another as the same class with the
\* same fields: the encoders and decoders of packet/*.h, of the routing
\* messages, of session control, NICE, events and DAP agree with each other,
\* and no class takes over the flags of another.
RoundTrip ==
    step = "read" /\ harm = "none" => got.cls = msg.cls /\ got.p = Seen(msg)

\* The value a reader gives a field that a cut message no longer has.
Default(m, name) ==
    CASE name \in {"acknum", "acknum2"} -> -1
      [] m.cls = "request" -> Nice!Request[name]
      [] m.cls \in {"read", "loop"} -> Nice!Reply(0, 65535, <<>>)[name]
      [] m.cls = "SysId" /\ name \notin {"code", "receipt"} -> 0

OpenEnded == {"payload", "body", "rest"}
Lists == {"params", "unknown"}

SaysLess(m, name, cut, whole, dflt) ==
    IF name \in OpenEnded THEN IsPrefix(cut, whole)
    ELSE IF name \in Lists
    THEN DOMAIN cut \subseteq DOMAIN whole /\ \A x \in DOMAIN cut : cut[x] = whole[x]
    ELSE cut = whole \/ cut = dflt

\* A message cut short is refused, or read as one of the same class in which
\* every field is what the sender wrote or what a missing field stands for:
\* a length byte, a flag or an optional field never makes the reader take
\* one field's bytes for another's.  Routing updates rely on their checksum.
CutSaysLess ==
    step = "read" /\ harm = "cut" /\ got.cls # "none" /\ msg.cls \notin Routings =>
        /\ got.cls = msg.cls
        /\ IF msg.fam = "dap"
           THEN LET cut == got.p.blocked
                    whole == msg.p.blocked
                IN  /\ Len(cut) <= Len(whole)
                    /\ \A i \in DOMAIN cut :
                        /\ cut[i].type = whole[i].type
                        /\ \A x \in DOMAIN cut[i].p :
                            SaysLess(msg, x, cut[i].p[x], whole[i].p[x],
                                     Dap!DapDefaults(whole[i].type)[x])
           ELSE \A x \in DOMAIN got.p :
                    SaysLess(msg, x, got.p[x], Seen(msg)[x], Default(msg, x))

\* A class all of whose fields have a fixed place or a length has nothing
\* optional: no proper prefix of such a message is read as a message.
Strict == {"PtpInit", "PtpInit3", "PtpVerify", "PtpHello", "RouterHello", "Elist",
           "RSent", "EndnodeHello", "LinkSvcMsg", "ConnConf", "DiscConf", "DiscInit",
           "RequestId", "RequestCounters", "Counters", "ConsoleRequest",
           "ConsoleRelease", "ConnectData"}

\* A strict message cut anywhere is refused (MissingData of the decoders).
CutRefused ==
    step = "read" /\ harm = "cut" /\ msg.cls \in Strict => got.cls = "none"

\* A routing update with one changed word is never taken for an update of
\* the same phase: the checksum of routing_messages.cc catches every change
\* of one word that one's complement arithmetic can tell.
ChangeCaught ==
    step = "read" /\ harm = "changed" => got.cls # msg.cls

\* What was accepted can be sent on: reading and writing it again changes
\* nothing, as when a router forwards a packet or a list is kept and resent.
SentOnUnchanged ==
    step = "read" /\ got.cls # "none" =>
        LET again == [msg EXCEPT !.cls = got.cls, !.p = got.p]
        IN  /\ Buildable(again)
            /\ Reading(msg, Bytes(again)) = got
=============================================================================
