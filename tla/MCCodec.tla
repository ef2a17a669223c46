------------------------------ MODULE MCCodec -------------------------------
(***************************************************************************)
(* Messages of every class, with values at the edges of their fields.      *)
(***************************************************************************)
EXTENDS Codec

Msg(fam, cls, p) == [fam |-> fam, cls |-> cls, ctx |-> 0, p |-> p]
Nothing == [x \in {} |-> <<>>]

Hi == <<170, 0, 4, 0>>
Hdr(type) == [control |-> 1, type |-> type, ext_type |-> 0, pf |-> 0]
IntEdges == {0, 1, 65535}
Texts == {<<>>, <<65>>, <<65, 0>>}

RoutingMsgs ==
    {Msg("routing", "ShortData", [sfpd |-> 2, rqr |-> f, rts |-> 1 - f, vers |-> 0,
        pf |-> 0, dstnode |-> 1025, srcnode |-> n, visit |-> v, payload |-> s]) :
        f \in {0, 1}, n \in IntEdges, v \in {0, 63}, s \in Texts}
    \union {Msg("routing", "LongData", [lfpd |-> 6, rqr |-> f, rts |-> 0, ie |-> 1,
        vers |-> 0, pf |-> 0, dsthi |-> Hi, dstnode |-> 1025, srchi |-> Hi,
        srcnode |-> n, visit |-> 63, payload |-> s]) :
        f \in {0, 1}, n \in IntEdges, s \in Texts}
    \union {Msg("routing", "PtpInit", With(Hdr(0), [srcnode |-> n, ntype |-> 2,
        verif |-> 1, blo |-> 0, blksize |-> 576, tiver |-> <<2, 0, 0>>,
        timer |-> n, reserved |-> s])) : n \in IntEdges, s \in Texts}
    \union {Msg("routing", "PtpInit3", With(Hdr(0), [srcnode |-> n, ntype |-> 3,
        verif |-> 0, blo |-> 1, blksize |-> 576, tiver |-> <<1, 3, 0>>,
        reserved |-> s])) : n \in IntEdges, s \in Texts}
    \union {Msg("routing", "PtpVerify", With(Hdr(1), [srcnode |-> 1025, fcnval |-> s])) :
        s \in Texts}
    \union {Msg("routing", "PtpHello", With(Hdr(2), [srcnode |-> 1025, testdata |-> s])) :
        s \in Texts}
    \union {Msg("routing", "NopMsg", [flags |-> 8, payload |-> s]) : s \in Texts}
    \union {Msg("routing", "RouterHello", With(Hdr(5), [tiver |-> <<2, 0, 0>>,
        hiid |-> Hi, id |-> n, ntype |-> 1, blksize |-> 1498, prio |-> 127,
        timer |-> 15, elist |-> s])) : n \in IntEdges, s \in Texts}
    \union {Msg("routing", "EndnodeHello", With(Hdr(6), [tiver |-> <<2, 0, 0>>,
        hiid |-> Hi, id |-> n, ntype |-> 3, blksize |-> 1498,
        neighbor |-> Hi \o <<1, 4>>, timer |-> 15, testdata |-> s])) :
        n \in IntEdges, s \in Texts}
    \union {Msg("Elist", "Elist", [rslist |-> s]) : s \in Texts}
    \union {Msg("RSent", "RSent", [hiid |-> Hi, router |-> n, prio |-> 127,
        twoway |-> f]) : n \in IntEdges, f \in {0, 1}}

Entries == {<<1>>, <<65535>>, <<0, 32767>>, <<1023, 65534, 0>>}
Segment(s, e) == [startid |-> s, entries |-> e]

Updates ==
    {Msg("routing", "L1Routing", With(Hdr(3), [srcnode |-> 1025,
        segments |-> <<Segment(s, e)>>])) : s \in {0, 1, 1021}, e \in Entries}
    \union {Msg("routing", "L1Routing", With(Hdr(3), [srcnode |-> 1025,
        segments |-> <<Segment(0, e), Segment(7, f)>>])) : e, f \in Entries}
    \union {Msg("routing", "L2Routing", With(Hdr(4), [srcnode |-> 1025,
        segments |-> <<Segment(s, e)>>])) : s \in {1, 61}, e \in Entries}
    \union {Msg("routing", "PhaseIIIRouting", With(Hdr(3), [srcnode |-> 3,
        entries |-> e])) : e \in Entries}

Acks == {-1, 0, 4095, 4096 + 17}
NspHdr(flag, a, b) == [msgflag |-> flag, dstaddr |-> 8193, srcaddr |-> 65535,
                       acknum |-> a, acknum2 |-> b]
AckPairs == {<<a, b>> \in Acks \X Acks : a = -1 => b = -1}

NspMsgs ==
    {Msg("nsp", "AckData", NspHdr(4, a[1], a[2])) : a \in AckPairs}
    \union {Msg("nsp", "AckOther", NspHdr(20, a[1], a[2])) : a \in AckPairs}
    \union {Msg("nsp", "AckConn", [msgflag |-> 36, dstaddr |-> 1, payload |-> s]) :
        s \in Texts}
    \union {Msg("nsp", "DataSeg", With(NspHdr(flag, a[1], a[2]),
        [segnum_bits |-> n, dly |-> 1, payload |-> s])) :
        flag \in {0, 96}, a \in AckPairs, n \in {0, 4095}, s \in Texts}
    \union {Msg("nsp", "IntMsg", With(NspHdr(48, a[1], a[2]),
        [segnum |-> n, payload |-> s])) : a \in AckPairs, n \in {0, 4095}, s \in Texts}
    \union {Msg("nsp", "LinkSvcMsg", With(NspHdr(16, a[1], a[2]),
        [segnum |-> 1, fcmod |-> 2, fcval_int |-> 1, fcval |-> v])) :
        a \in AckPairs, v \in {-128, -1, 0, 127}}
    \union {Msg("nsp", "ConnInit", [msgflag |-> flag, dstaddr |-> 0, srcaddr |-> 1,
        mb1 |-> 1, fcopt |-> 2, mbz |-> 0, info |-> 127, segsize |-> 1459,
        payload |-> s]) : flag \in {24, 104}, s \in Texts}
    \union {Msg("nsp", "ConnConf", [msgflag |-> 40, dstaddr |-> 1, srcaddr |-> 1,
        mb1 |-> 1, fcopt |-> 0, mbz |-> 0, info |-> 2, segsize |-> 1459,
        data_ctl |-> s]) : s \in Texts}
    \union {Msg("nsp", "DiscConf", [msgflag |-> 72, dstaddr |-> 1, srcaddr |-> 0,
        reason |-> r]) : r \in {1, 41, 42}}
    \union {Msg("nsp", "DiscInit", [msgflag |-> 56, dstaddr |-> 1, srcaddr |-> 0,
        reason |-> r, data_ctl |-> s]) : r \in {0, 38}, s \in Texts}

User(f, n, name) == [fmt |-> f, num |-> n, name |-> name, group |-> 0, user |-> 0]
Users == {User(0, 17, <<>>), User(1, 0, <<65>>),
          [fmt |-> 2, num |-> 0, name |-> <<66>>, group |-> 513, user |-> 65535]}
ConnectMsgs ==
    {Msg("ConnectData", "ConnectData", [dstname |-> d, srcname |-> u, auth |-> 0,
        userdata |-> 0, proxy |-> 1, proxy_uic |-> 0, reserved |-> 0, scver |-> 1,
        mbz2 |-> 0, payload |-> <<>>, rqstrid |-> i, passwrd |-> w, account |-> a,
        connectdata |-> x]) :
        d \in Users, u \in Users, i \in Texts, w \in Texts, a \in {<<>>, <<67>>},
        x \in Texts}

SysIdBase == [code |-> 7, receipt |-> 513, unknown |-> Nothing, loop |-> 1, dump |-> 0,
    ploader |-> 0, sloader |-> 0, boot |-> 0, carrier |-> 1, counters |-> 1,
    carrier_reserved |-> 0]
Softwares == {[is_code |-> TRUE, code |-> k, text |-> <<>>] : k \in {-2, -1, 0}}
    \union {[is_code |-> FALSE, code |-> 0, text |-> <<65, 66>>]}
SysIds ==
    {SysIdBase, With(SysIdBase, [unknown |-> (999 :> <<1, 2>>)])}
    \union {With(SysIdBase, [version |-> <<3, 0, 0>>, hwaddr |-> Hi \o <<1, 4>>,
        reservation_timer |-> 90, console_user |-> Zeros(6), console_cmd_size |-> 256,
        console_resp_size |-> 256, device |-> 9, processor |-> 2, datalink |-> 1,
        bufsize |-> 1498, software |-> w]) : w \in Softwares}
CounterFields == {"time_since_zeroed", "bytes_recv", "bytes_sent", "pkts_recv",
    "pkts_sent", "mcbytes_recv", "mcpkts_recv", "pkts_deferred", "pkts_1_collision",
    "pkts_mult_collision", "send_fail", "send_reasons", "recv_fail", "recv_reasons",
    "unk_dest", "data_overrun", "no_sys_buf", "no_user_buf"}
MopMsgs ==
    {Msg("mop", "SysId", p) : p \in SysIds}
    \union {Msg("mop", "RequestId", [code |-> 5, receipt |-> n]) : n \in IntEdges}
    \union {Msg("mop", "RequestCounters", [code |-> 9, receipt |-> n]) : n \in IntEdges}
    \union {Msg("mop", "Counters", With([code |-> 11, receipt |-> 1],
        [x \in CounterFields |-> n])) : n \in IntEdges}
    \union {Msg("mop", "ConsoleRequest", [code |-> 13, verification |-> Zeros(8)]),
            Msg("mop", "ConsoleRelease", [code |-> 15])}
    \union {Msg("mop", "ConsoleCommand", [code |-> 17, seq |-> f, break |-> 1 - f,
        payload |-> s]) : f \in {0, 1}, s \in Texts}
    \union {Msg("mop", "ConsoleResponse", [code |-> 19, seq |-> f, cmd_lost |-> 0,
        resp_lost |-> 1, payload |-> s]) : f \in {0, 1}, s \in Texts}

Named == Nice!make_named(3, <<67, 45, 48>>)
ReqEntities == {Nice!make_node(0), Nice!make_node(1025), Nice!make_named(0, <<65>>),
    Nice!make_wild(0, -1), Nice!make_wild(0, -5), Nice!ReqEntity(0, -6, <<>>, 2048, 0),
    Nice!ReqEntity(0, -7, <<>>, 3, 0), Nice!make_area(63), Nice!make_wild(5, -2),
    Named, Nice!make_wild(3, -1), Nice!make_wild(1, -2)}
Requests ==
    {[Nice!Request EXCEPT !.function = fn, !.entity_type = e.etype, !.entity = e,
        !.info = i, !.permanent = f] :
        fn \in {19, 20}, e \in ReqEntities, i \in {0, 3}, f \in {0, 1}}
    \union {[Nice!Request EXCEPT !.function = 20, !.entity_type = e.etype, !.entity = e,
        !.qual_circuit = q, !.qual_node = n] : e \in {Nice!make_wild(0, -1), Named},
        q \in {<<>>, << <<67>> >>},
        n \in {<<>>, <<Nice!make_node(1026)>>, <<Nice!ReqEntity(0, -6, <<>>, 2048, 0)>>}}
    \union {[Nice!Request EXCEPT !.function = 21, !.entity_type = e.etype, !.entity = e,
        !.readzero = f] : e \in ReqEntities, f \in {0, 1}}
    \union {[Nice!Request EXCEPT !.function = 18, !.test_type = e.etype,
        !.entity_type = e.etype, !.entity = e, !.access_ctl = f,
        !.username = IF f = 1 THEN <<65>> ELSE <<>>, !.loop_count = 65535,
        !.loop_length = 1, !.physical_address = IF e.etype = 3 THEN a ELSE <<>>] :
        e \in {Nice!make_node(1025), Nice!make_named(1, <<76>>), Named},
        f \in {0, 1}, a \in {<<>>, Hi \o <<1, 4>>}}

Params == {<<>>,
    (0 :> Nice!Plain(Nice!c(3, 1))) @@ (7 :> Nice!Plain(Nice!ai(<<65>>))),
    (5 :> Nice!Plain(Nice!ds(-2, 1))) @@ (6 :> Nice!Plain(Nice!hi(<<1, 2>>)))
        @@ (8 :> Nice!Plain(Nice!cm(<<Nice!du(1025, 2), Nice!ai(<<66>>)>>))),
    (9 :> Nice!Plain(Nice!h(10, 1))) @@ (10 :> Nice!Plain(Nice!o(511, 2)))
        @@ (32768 :> Nice!Counter(300, 1, FALSE, 0)),
    (32768 + 1000 :> Nice!Counter(70000, 2, TRUE, 5))
        @@ (32768 + 4095 :> Nice!Counter(70000, 4, FALSE, 0))}
Entities == {Nice!Entity(0, Nice!NiceNode(1025, <<65>>, f), 0, <<>>) : f \in BOOLEAN}
    \union {Nice!Entity(5, Nice!NoNode, 63, <<>>), Nice!Entity(3, Nice!NoNode, 0, <<67>>)}
NiceMsgs ==
    {Msg("nice", "request", r) : r \in Requests}
    \union {[fam |-> "nice", cls |-> "read", ctx |-> e.kind,
        p |-> [Nice!Reply(rc, 65535, <<>>) EXCEPT !.entity = <<e>>, !.params = ps]] :
        rc \in {1, -128}, e \in Entities, ps \in Params}
    \union {[fam |-> "nice", cls |-> "read", ctx |-> 3, p |-> Nice!Reply(rc, d, s)] :
        rc \in {2, -8}, d \in {65535, 3}, s \in Texts}
    \union {Msg("nice", "loop", [Nice!Reply(rc, d, s) EXCEPT !.notlooped = n]) :
        rc \in {1, -28}, d \in {65535, 3}, s \in Texts, n \in {<<>>, <<513>>}}
    \union {Msg("nice", "event", [function |-> 1, sinks |-> 7, code |-> 31, cls |-> cl,
        halfday |-> 65535, seconds |-> 43199, milliseconds |-> 999, ms_absent |-> f,
        source |-> Nice!NiceNode(1025, <<65>>, FALSE), entity |-> e, params |-> ps]) :
        cl \in {4, 511}, f \in {0, 1}, ps \in Params,
        e \in Entities \union {Nice!Entity(255, Nice!NoNode, 0, <<>>)}}

DapMsg(type, p) == [type |-> type, p |-> With(Dap!DapDefaults(type), p)]
Attr == DapMsg(2, [menu |-> {0, 1, 2, 3, 6, 20}, datatype |-> {0}, rfm |-> 2,
    rat |-> {1, 8}, alq |-> 300, sbn |-> 65536])
FileName == DapMsg(15, [nametype |-> {0}, namespec |-> <<65, 46, 66>>])
Ack == DapMsg(6, Nothing)
DapMsgs ==
    {Msg("dap", "dap", [blocked |-> <<m>>]) : m \in
        {DapMsg(1, [bufsiz |-> 4096, ostype |-> 192, version1 |-> 7, syscap |-> k]) :
            k \in {{}, {0}, {1, 6, 7, 41}, {83}}}
        \union {Attr, FileName, Ack, DapMsg(5, Nothing), DapMsg(2, [menu |-> {}])}
        \union {DapMsg(3, [accfunc |-> 1, accopt |-> {2}, filespec |-> <<65>>,
            fac |-> {0, 1}, display |-> {0, 8}, password |-> s]) : s \in {<<>>, <<80>>}}
        \union {DapMsg(4, [ctlfunc |-> 2, menu |-> k, rac |-> IF 0 \in k THEN 2 ELSE 0,
            key |-> IF 1 \in k THEN <<1, 2>> ELSE <<>>]) : k \in {{}, {0}, {0, 1}}}
        \union {DapMsg(7, [cmpfunc |-> 1, fop |-> {0, 40}, check |-> 513]),
                DapMsg(9, [code |-> 20480, rest |-> <<1>>])}
        \union {DapMsg(8, [recnum |-> n, payload |-> s]) : n \in {0, 255, 256}, s \in Texts}
        \union {DapMsg(13, [menu |-> {0, 3}, cdt |-> <<48, 49>>, rvn |-> 1]),
                DapMsg(14, [menu |-> {0, 1, 4}, owner |-> <<91>>, sys |-> {0}, wld |-> {3}]),
                DapMsg(77, [body |-> <<1, 2>>])}}
    \union {Msg("dap", "dap", [blocked |-> <<Attr, FileName>>]),
            Msg("dap", "dap", [blocked |-> <<Attr, Ack, FileName>>]),
            Msg("dap", "dap", [blocked |-> <<FileName, Ack>>])}

AllMessages == RoutingMsgs \union Updates \union NspMsgs \union ConnectMsgs
    \union MopMsgs \union NiceMsgs \union DapMsgs
AllDeltas == {1, 256, 65535}
=============================================================================
