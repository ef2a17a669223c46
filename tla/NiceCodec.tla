----------------------------- MODULE NiceCodec ------------------------------
(***************************************************************************)
(* The encodings of network management: NICE values, entities, parameter   *)
(* lists, requests and replies (nice/value.cc, entity.cc, params.cc,       *)
(* packets.cc), and the event record that carries them (events.cc).        *)
(* Numbers of more than four bytes are left out: TLC's integers end there. *)
(***************************************************************************)
EXTENDS Wire

(***************************************************************************)
(* Values: [kind, bytes, num, str, items].                                 *)
(***************************************************************************)
Value(kind, bytes, num, str, items) ==
    [kind |-> kind, bytes |-> bytes, num |-> num, str |-> str, items |-> items]

du(v, n) == Value("du", n, v, <<>>, <<>>)
ds(v, n) == Value("ds", n, v, <<>>, <<>>)
h(v, n) == Value("h", n, v, <<>>, <<>>)
o(v, n) == Value("o", n, v, <<>>, <<>>)
c(v, n) == Value("c", n, v, <<>>, <<>>)
ai(s) == Value("ai", 0, 0, s, <<>>)
hi(s) == Value("hi", 0, 0, s, <<>>)
cm(items) == Value("cm", Len(items), 0, <<>>, items)

type_code(v) ==
    CASE v.kind = "du" -> v.bytes
      [] v.kind = "ds" -> 16 + v.bytes
      [] v.kind = "h"  -> 32 + v.bytes
      [] v.kind = "o"  -> 48 + v.bytes
      [] v.kind = "ai" -> 64
      [] v.kind = "hi" -> 32
      [] v.kind = "c"  -> 128 + v.bytes
      [] v.kind = "cm" -> 192 + v.bytes

Counted(s) == <<Len(s)>> \o s

RECURSIVE PutValue(_)
PutValue(v) ==
    <<type_code(v)>> \o
    CASE v.kind \in {"du", "ds", "h", "o", "c"} -> Uint(v.num, v.bytes)
      [] v.kind \in {"ai", "hi"} -> Counted(v.str)
      [] v.kind = "cm" -> FlattenSeq([i \in DOMAIN v.items |-> PutValue(v.items[i])])

TakeByte(b) == IF b = <<>> THEN Bad ELSE Take(b, Head(b), 1)
TakeUint(b, n) == IF Len(b) < n THEN Bad ELSE Take(b, Num(First(b, n)), n)

sign_extend(v, n) == IF v >= 256^n \div 2 THEN v - 256^n ELSE v

TakeCounted(b) == TakeImage(b, 255)

\* Replace the value of a successful reading.
Map(t, F(_)) == IF t.ok THEN [t EXCEPT !.v = F(t.v)] ELSE Bad

check_bytes(n, t) == IF n \in 1..15 THEN t ELSE Bad

(***************************************************************************)
(* decode and decode_body.  The coded group has a five bit count, of which *)
(* the constructors accept fifteen.                                        *)
(***************************************************************************)
RECURSIVE TakeValue(_, _), TakeValues(_, _)
TakeValue(code, b) ==
    LET n5 == code % 32
        n  == code % 16
        Number(F(_, _)) == LET G(v) == F(v, n)
                           IN  IF n = 0 THEN Bad ELSE Map(TakeUint(b, n), G)
        Signed(v, w) == ds(sign_extend(v, w), w)
        Coded(v) == c(v, n5)
    IN  CASE code >= 128 /\ n5 = 0 -> Bad
          [] code >= 192 /\ n5 > 0 -> check_bytes(n5, Map(TakeValues(n5, b), cm))
          [] code \in 128..191 /\ n5 > 0 -> check_bytes(n5, Map(TakeUint(b, n5), Coded))
          [] code \in 0..15 -> Number(du)
          [] code \in 16..31 -> Number(Signed)
          [] code = 32 -> Map(TakeCounted(b), hi)
          [] code \in 33..47 -> Number(h)
          [] code \in 48..63 -> Number(o)
          [] code = 64 -> Map(TakeCounted(b), ai)
          [] code \in 65..127 -> Bad
TakeValues(n, b) ==
    LET first == IF b = <<>> THEN Bad ELSE TakeValue(Head(b), Tail(b))
        more  == TakeValues(n - 1, first.left)
    IN  IF n = 0 THEN Take(b, <<>>, 0)
        ELSE IF ~first.ok THEN Bad
        ELSE IF ~more.ok THEN Bad
        ELSE [more EXCEPT !.v = <<first.v>> \o @]

(***************************************************************************)
(* Entities.  Kinds: 0 node, 5 area, 255 none, the rest counted strings.   *)
(***************************************************************************)
NiceNode(id, name, executor) == [id |-> id, name |-> name, executor |-> executor]
NoNode == NiceNode(0, <<>>, FALSE)
Entity(kind, node, area, name) ==
    [kind |-> kind, node |-> node, area |-> area, name |-> name]

PutNode(n) ==
    Uint(n.id, 2) \o <<Len(n.name) + (IF n.executor THEN 128 ELSE 0)>> \o n.name

TakeNode(b) ==
    LET len == b[3] % 128
    IN  IF Len(b) < 3 THEN Bad
        ELSE IF Len(b) < 3 + len THEN Bad
        ELSE Take(b, NiceNode(Num(First(b, 2)), SubSeq(b, 4, 3 + len), b[3] >= 128), 3 + len)

PutEntityBody(e) ==
    CASE e.kind = 0   -> PutNode(e.node)
      [] e.kind = 5   -> <<0, e.area % 256>>
      [] e.kind = 255 -> <<>>
      [] OTHER        -> Counted(e.name)

TakeEntityBody(kind, b) ==
    LET Node(n) == Entity(kind, n, 0, <<>>)
        Named(s) == Entity(kind, NoNode, 0, s)
    IN  CASE kind = 0   -> Map(TakeNode(b), Node)
          [] kind = 5   -> IF Len(b) < 2 THEN Bad
                           ELSE IF b[1] # 0 THEN Bad
                           ELSE Take(b, Entity(5, NoNode, b[2], <<>>), 2)
          [] kind = 255 -> Take(b, Entity(255, NoNode, 0, <<>>), 0)
          [] OTHER      -> Map(TakeCounted(b), Named)

(***************************************************************************)
(* Parameter lists: a function of the key, whose top bit says counter.     *)
(***************************************************************************)
key_of(number, counter) == (number % 32768) + (IF counter THEN 32768 ELSE 0)
NoCount == [value |-> 0, bytes |-> 2, mapped |-> FALSE, map |-> 0]
Plain(v) == [value |-> v, count |-> NoCount]
Counter(v, bytes, mapped, map) ==
    [value |-> ai(<<>>),
     count |-> [value |-> v, bytes |-> bytes, mapped |-> mapped, map |-> map]]

counter_code(n, mapped) ==
    (CASE n = 1 -> 40960 [] n = 2 -> 49152 [] n = 4 -> 57344)
        + (IF mapped THEN 4096 ELSE 0)

\* A count its field has no room for reads as the largest one.  The largest
\* four byte count is beyond TLC's integers and is not reached.
CounterMax(n) == CASE n = 1 -> 255 [] n = 2 -> 65535 [] n = 4 -> 2147483647

Saturate(count) ==
    IF count.value > CounterMax(count.bytes) THEN CounterMax(count.bytes) ELSE count.value

PutParam(key, p) ==
    IF key < 32768 THEN Uint(key, 2) \o PutValue(p.value)
    ELSE Uint((key % 4096) + counter_code(p.count.bytes, p.count.mapped), 2)
         \o (IF p.count.mapped THEN Uint(p.count.map, 2) ELSE <<>>)
         \o Uint(Saturate(p.count), p.count.bytes)

PutParams(params) ==
    LET keys == SetToSortSeq(DOMAIN params, <)
    IN  FlattenSeq([i \in DOMAIN keys |-> PutParam(keys[i], params[keys[i]])])

\* One counter after its number.
TakeCounter(num, b) ==
    LET code   == num \div 8192
        bytes  == CASE code = 5 -> 1 [] code = 6 -> 2 [] code = 7 -> 4
        mapped == (num \div 4096) % 2 = 1
        map    == IF mapped THEN TakeUint(b, 2) ELSE Take(b, 0, 0)
        count  == TakeUint(map.left, bytes)
    IN  IF code \notin {5, 6, 7} THEN Bad
        ELSE IF ~map.ok THEN Bad
        ELSE IF ~count.ok THEN Bad
        ELSE [count EXCEPT !.v = Counter(count.v, bytes, mapped, map.v)]

RECURSIVE TakeParams(_, _)
TakeParams(b, acc) ==
    LET num == Num(First(b, 2))
        ctr == num >= 32768
        after == Rest(b, 2)
        one == IF Len(b) < 2 THEN Bad
               ELSE IF ctr THEN TakeCounter(num, after)
               ELSE IF after = <<>> THEN Bad
               ELSE Map(TakeValue(Head(after), Tail(after)), Plain)
        key == IF ctr THEN key_of(num % 4096, TRUE) ELSE key_of(num, FALSE)
    IN  IF b = <<>> THEN Take(b, acc, 0)
        ELSE IF ~one.ok THEN Bad
        ELSE TakeParams(one.left, (key :> one.v) @@ acc)

(***************************************************************************)
(* The entity of a request: by name (code > 0), by number (0) or as a      *)
(* wildcard (< 0), of which -6 and -7 carry a node number.                 *)
(***************************************************************************)
ReqEntity(etype, code, name, id, area) ==
    [etype |-> etype, code |-> code, name |-> name, id |-> id, area |-> area]
make_node(id) == ReqEntity(0, 0, <<>>, id, 0)
make_named(etype, name) == ReqEntity(etype, Len(name), name, 0, 0)
make_area(a) == ReqEntity(5, 0, <<>>, 0, a)
make_wild(etype, code) == ReqEntity(etype, code, <<>>, 0, 0)

PutReqEntity(e) ==
    IF e.code < 0
    THEN Uint(e.code, 1)
         \o (IF e.etype = 0 /\ e.code \in {-6, -7} THEN Uint(e.id, 2) ELSE <<>>)
    ELSE IF e.code > 0 THEN Counted(e.name)
    ELSE CASE e.etype = 0 -> <<0>> \o Uint(e.id, 2)
           [] e.etype = 5 -> <<0, e.area % 256>>
           [] OTHER -> Counted(e.name)

CarriesNumber(code) == code = 0 \/ code < -5

TakeReqEntity(etype, b) ==
    LET code == sign_extend(b[1], 1)
        more == Tail(b)
        Numbered(id) == ReqEntity(0, code, <<>>, id, 0)
        Area(a) == ReqEntity(5, 0, <<>>, 0, a)
    IN  IF b = <<>> THEN Bad
        ELSE CASE etype = 0 /\ CarriesNumber(code) -> Map(TakeUint(more, 2), Numbered)
               [] etype = 5 /\ code = 0 -> Map(TakeByte(more), Area)
               [] etype = 5 /\ code > 0 -> Bad
               [] etype # 5 /\ code > 0 ->
                    IF Len(more) < code THEN Bad
                    ELSE Take(more, ReqEntity(etype, code, First(more, code), 0, 0), code)
               [] code = 0 /\ etype \notin {0, 5} -> Bad
               [] code < 0 /\ ~(etype = 0 /\ CarriesNumber(code)) ->
                    Take(more, make_wild(etype, code), 0)

(***************************************************************************)
(* Requests: functions 20 (read), 19 (set), 21 (zero) and 18 (test).       *)
(***************************************************************************)
fn_test == 18
fn_set == 19
fn_read == 20
fn_zero == 21

Request ==
    [function |-> 0, permanent |-> 0, readzero |-> 0, info |-> 0, entity_type |-> 0,
     entity |-> make_node(0), qual_circuit |-> <<>>, qual_node |-> <<>>,
     test_type |-> 0, access_ctl |-> 0, username |-> <<>>, password |-> <<>>,
     account |-> <<>>, loop_count |-> 1, loop_length |-> 128, loop_with |-> 2,
     physical_address |-> <<>>]

PutRequest(r) ==
    <<r.function>> \o
    CASE r.function \in {fn_read, fn_set} ->
            <<128 * r.permanent + 16 * r.info + r.entity_type>> \o PutReqEntity(r.entity)
            \o (IF r.function = fn_read /\ r.qual_circuit # <<>>
                THEN Uint(501, 2) \o Counted(r.qual_circuit[1]) ELSE <<>>)
            \o (IF r.function = fn_read /\ r.qual_node # <<>>
                THEN Uint(800, 2) \o PutReqEntity(r.qual_node[1]) ELSE <<>>)
      [] r.function = fn_zero ->
            <<128 * r.readzero + r.entity_type>> \o PutReqEntity(r.entity)
      [] r.function = fn_test ->
            <<r.test_type + 128 * r.access_ctl>> \o PutReqEntity(r.entity)
            \o (IF r.access_ctl = 1
                THEN Counted(r.username) \o Counted(r.password) \o Counted(r.account)
                ELSE <<>>)
            \o Uint(150, 2) \o Uint(r.loop_count, 2)
            \o Uint(151, 2) \o Uint(r.loop_length, 2)
            \o Uint(152, 2) \o Uint(r.loop_with, 1)
            \o (IF r.test_type = 3 /\ r.physical_address # <<>>
                THEN Uint(10, 2) \o Counted(r.physical_address) ELSE <<>>)

\* The qualifiers after the entity of a read; an unknown one ends it all.
RECURSIVE TakeQualifiers(_, _)
TakeQualifiers(b, r) ==
    LET num == Num(First(b, 2))
        t   == CASE num \in {501, 822} -> TakeCounted(Rest(b, 2))
                 [] num = 800 -> TakeReqEntity(0, Rest(b, 2))
                 [] OTHER -> Bad
    IN  IF b = <<>> THEN Take(b, r, 0)
        ELSE IF Len(b) < 2 THEN Bad
        ELSE IF ~t.ok THEN Bad
        ELSE TakeQualifiers(t.left, IF num = 800 THEN [r EXCEPT !.qual_node = <<t.v>>]
                                    ELSE [r EXCEPT !.qual_circuit = <<t.v>>])

\* Loop parameters travel without their type code; the table supplies it.
find_req_param(num, circuit) ==
    CASE num \in {150, 151} -> 2
      [] num = 152 -> 129
      [] circuit /\ num \in {10, 153} -> 32
      [] circuit /\ num = 154 -> 129
      [] circuit /\ num \in {155, 156} -> 64
      [] OTHER -> -1

RECURSIVE TakeLoopParams(_, _)
TakeLoopParams(b, r) ==
    LET num  == Num(First(b, 2))
        code == find_req_param(num, r.test_type = 3)
        t    == TakeValue(code, Rest(b, 2))
    IN  IF b = <<>> THEN Take(b, r, 0)
        ELSE IF Len(b) < 2 \/ code = -1 THEN Bad
        ELSE IF ~t.ok THEN Bad
        ELSE TakeLoopParams(t.left,
                CASE num = 150 -> [r EXCEPT !.loop_count = t.v.num]
                  [] num = 151 -> [r EXCEPT !.loop_length = t.v.num]
                  [] num = 152 -> [r EXCEPT !.loop_with = t.v.num]
                  [] num = 10  -> [r EXCEPT !.physical_address = t.v.str]
                  [] OTHER     -> r)

TakeAccess(b, r) ==
    LET user == TakeCounted(b)
        pass == TakeCounted(user.left)
        acct == TakeCounted(pass.left)
    IN  IF r.access_ctl = 0 THEN Take(b, r, 0)
        ELSE IF ~user.ok THEN Bad
        ELSE IF ~pass.ok THEN Bad
        ELSE IF ~acct.ok THEN Bad
        ELSE Take(acct.left, [r EXCEPT !.username = user.v, !.password = pass.v,
                                       !.account = acct.v], 0)

TakeRequest(b) ==
    LET fn    == b[1]
        flags == b[2]
        top   == flags \div 128
        test  == flags % 8
        etype == IF fn # fn_test THEN flags % 8
                 ELSE CASE test = 0 -> 0 [] test = 1 -> 1 [] test = 3 -> 3 [] OTHER -> -1
        ent   == TakeReqEntity(etype, Rest(b, 2))
        r     == [Request EXCEPT !.function = fn, !.entity_type = etype, !.entity = ent.v]
        access == TakeAccess(ent.left, [r EXCEPT !.test_type = test, !.access_ctl = top])
    IN  IF Len(b) < 2 THEN Bad
        ELSE IF fn \notin {fn_read, fn_set, fn_zero, fn_test} \/ etype = -1 THEN Bad
        ELSE IF ~ent.ok THEN Bad
        ELSE CASE fn \in {fn_read, fn_set} ->
                    TakeQualifiers(ent.left, [r EXCEPT !.permanent = top,
                                                       !.info = (flags \div 16) % 8])
               [] fn = fn_zero -> Take(ent.left, [r EXCEPT !.readzero = top], 0)
               [] fn = fn_test -> IF ~access.ok THEN Bad
                                  ELSE TakeLoopParams(access.left, access.v)

(***************************************************************************)
(* Replies.  An entity and its parameters, or the count of messages not    *)
(* looped, follow the header; which of them is known from the request.     *)
(***************************************************************************)
Reply(rc, detail, message) ==
    [retcode |-> rc, detail |-> detail, message |-> message,
     entity |-> <<>>, params |-> <<>>, notlooped |-> <<>>]

PutReply(r) ==
    Uint(r.retcode, 1) \o Uint(r.detail, 2) \o Counted(r.message)
    \o (IF r.notlooped = <<>> THEN <<>> ELSE Uint(r.notlooped[1], 2))
    \o (IF r.entity = <<>> THEN <<>> ELSE PutEntityBody(r.entity[1]) \o PutParams(r.params))

\* parse_header, whose detail and message may be missing.
TakeReplyHeader(b) ==
    LET rc  == sign_extend(b[1], 1)
        det == IF Len(b) = 1 THEN Take(Tail(b), 65535, 0) ELSE TakeUint(Tail(b), 2)
        msg == IF det.left = <<>> THEN Take(det.left, <<>>, 0) ELSE TakeCounted(det.left)
    IN  IF b = <<>> THEN Bad
        ELSE IF ~det.ok THEN Bad
        ELSE IF ~msg.ok THEN Bad
        ELSE [msg EXCEPT !.v = Reply(rc, det.v, msg.v)]

TakeLoopReply(b) ==
    LET hdr == TakeReplyHeader(b)
        Looped(n) == [hdr.v EXCEPT !.notlooped = <<n>>]
    IN  IF ~hdr.ok THEN Bad
        ELSE IF hdr.left = <<>> THEN hdr
        ELSE Map(TakeUint(hdr.left, 2), Looped)

TakeReadReply(kind, b) ==
    LET hdr == TakeReplyHeader(b)
        ent == TakeEntityBody(kind, hdr.left)
        Full(ps) == [hdr.v EXCEPT !.entity = <<ent.v>>, !.params = ps]
    IN  IF Len(b) < 4 THEN Bad
        ELSE IF ~hdr.ok THEN Bad
        ELSE IF hdr.left = <<>> THEN hdr
        ELSE IF ~ent.ok THEN Bad
        ELSE Map(TakeParams(ent.left, <<>>), Full)

(***************************************************************************)
(* Event records.                                                          *)
(***************************************************************************)
PutEvent(ev) ==
    <<ev.function, ev.sinks>>
    \o Uint((ev.code % 32) + 64 * ev.cls, 2)
    \o Uint(ev.halfday, 2) \o Uint(ev.seconds, 2)
    \o Uint((ev.milliseconds % 1024) + 32768 * ev.ms_absent, 2)
    \o PutNode(ev.source) \o <<ev.entity.kind>> \o PutEntityBody(ev.entity)
    \o PutParams(ev.params)

TakeEvent(b) ==
    LET At(i) == Num(SubSeq(b, i, i + 1))
        src == TakeNode(Rest(b, 10))
        ent == TakeEntityBody(Head(src.left), Tail(src.left))
        Full(ps) ==
            [function |-> b[1], sinks |-> b[2] % 8, code |-> At(3) % 32,
             cls |-> (At(3) \div 64) % 512, halfday |-> At(5), seconds |-> At(7),
             milliseconds |-> At(9) % 1024, ms_absent |-> At(9) \div 32768,
             source |-> src.v, entity |-> ent.v, params |-> ps]
    IN  IF Len(b) < 10 THEN Bad
        ELSE IF ~src.ok THEN Bad
        ELSE IF src.left = <<>> THEN Bad
        ELSE IF ~ent.ok THEN Bad
        ELSE Map(TakeParams(ent.left, <<>>), Full)
=============================================================================
