------------------------------ MODULE Packets -------------------------------
(***************************************************************************)
(* The messages of routing, NSP, session control and MOP: their layouts,   *)
(* and the indexes that pick a class from the first bytes of a frame       *)
(* (routing/packets.h, nsp/packets.h, session/packets.h, mop/packets.h,    *)
(* packet/indexed.h).  Class makes a class of a layout and of whether it   *)
(* allows bytes after its last field.                                      *)
(***************************************************************************)
EXTENDS Wire, Bitwise

Class(rows, extra) == [rows |-> rows, extra |-> extra]

(***************************************************************************)
(* Routing layer.                                                          *)
(***************************************************************************)
Nodeid(name) == B(2, name)

Version(name) == BV(3, name)

ShortData == Class(<<
    BM(<< <<"sfpd", 0, 3>>, <<"rqr", 3, 1>>, <<"rts", 4, 1>>, <<"vers", 6, 1>>,
          <<"pf", 7, 1>> >>),
    Nodeid("dstnode"), Nodeid("srcnode"), BM(<< <<"visit", 0, 6>> >>),
    Payload("payload")>>, TRUE)

LongData == Class(<<
    BM(<< <<"lfpd", 0, 3>>, <<"rqr", 3, 1>>, <<"rts", 4, 1>>, <<"ie", 5, 1>>,
          <<"vers", 6, 1>>, <<"pf", 7, 1>> >>),
    RES(2), BV(4, "dsthi"), Nodeid("dstnode"), RES(2), BV(4, "srchi"),
    Nodeid("srcnode"), RES(1), B(1, "visit"), RES(2), Payload("payload")>>, TRUE)

CtlHdr == BM(<< <<"control", 0, 1>>, <<"type", 1, 3>>, <<"ext_type", 4, 3>>,
                <<"pf", 7, 1>> >>)

PtpInitHdr == <<CtlHdr, Nodeid("srcnode"),
    BM(<< <<"ntype", 0, 2>>, <<"verif", 2, 1>>, <<"blo", 3, 1>> >>),
    B(2, "blksize"), Version("tiver")>>

PtpInit == Class(PtpInitHdr \o <<B(2, "timer"), I(64, "reserved")>>, FALSE)

PtpInit3 == Class(PtpInitHdr \o <<I(64, "reserved")>>, FALSE)

PtpVerify == Class(<<CtlHdr, Nodeid("srcnode"), I(64, "fcnval")>>, FALSE)

PtpHello == Class(<<CtlHdr, Nodeid("srcnode"), I(128, "testdata")>>, FALSE)

NopMsg == Class(<<B(1, "flags"), Payload("payload")>>, TRUE)

RouterHello == Class(<<CtlHdr, Version("tiver"), BV(4, "hiid"), Nodeid("id"),
    BM(<< <<"ntype", 0, 2>> >>), B(2, "blksize"), B(1, "prio"), RES(1),
    B(2, "timer"), RES(1), I(244, "elist")>>, FALSE)

Elist == Class(<<RES(7), I(236, "rslist")>>, FALSE)

RSent == Class(<<BV(4, "hiid"), Nodeid("router"),
    BM(<< <<"prio", 0, 7>>, <<"twoway", 7, 1>> >>)>>, FALSE)

EndnodeHello == Class(<<CtlHdr, Version("tiver"), BV(4, "hiid"), Nodeid("id"),
    BM(<< <<"ntype", 0, 2>> >>), B(2, "blksize"), RES(9), BV(6, "neighbor"),
    B(2, "timer"), RES(1), I(128, "testdata")>>, FALSE)

(***************************************************************************)
(* Routing messages, which code themselves: a four byte header, 16 bit     *)
(* words, and a one's complement checksum seeded by the phase.             *)
(***************************************************************************)
\* A 32 bit sum with the carries folded back in twice.
ones_complement_sum(words, seed) ==
    LET Fold(s) == (s % 65536) + (s \div 65536)
    IN  Fold(Fold(FoldLeft(+, seed, words))) % 65536

\* payload_words; a body that is empty or of odd length is an error.
WordsOf(b) ==
    [i \in 1..((Len(b) - 4) \div 2) |-> Num(SubSeq(b, 2 * i + 3, 2 * i + 4))]

HasWords(b) == Len(b) > 4 /\ Len(b) % 2 = 0

\* Faulty variant: the first word is left out of the residue.
ResidueShort(b) ==
    LET w == WordsOf(b)
    IN  ones_complement_sum(Rest(Front(w), 1) \o <<65535 - Last(w)>>, 0)

\* RoutingMessage::index_key: the residue, with the checksum complemented.
Residue(b) ==
    LET w == WordsOf(b)
    IN  ones_complement_sum(Front(w) \o <<65535 - Last(w)>>, 0)

SegmentWords(s) == <<Len(s.entries), s.startid>> \o s.entries

\* encode_packet of the three classes: encode_header and append_body.
PutRouting(cls, p) ==
    LET words == IF cls = "PhaseIIIRouting" THEN p.entries
                 ELSE FlattenSeq([i \in DOMAIN p.segments |-> SegmentWords(p.segments[i])])
        seed  == IF cls = "PhaseIIIRouting" THEN 0 ELSE 1
    IN  <<p.control + 2 * p.type + 16 * p.ext_type + 128 * p.pf>>
        \o Uint(p.srcnode, 2) \o <<0>>
        \o FlattenSeq([i \in DOMAIN words |-> Uint(words[i], 2)])
        \o Uint(ones_complement_sum(words, seed), 2)

valid_segment(cls, s) ==
    /\ s.entries # <<>>
    /\ cls = "L1Routing" => Len(s.entries) + s.startid <= 1024
    /\ cls = "L2Routing" => s.startid # 0 /\ Len(s.entries) + s.startid <= 64

RECURSIVE TakeSegments(_, _)
TakeSegments(cls, w) ==
    IF w = <<>> THEN Take(w, <<>>, 0)
    ELSE IF Len(w) < 2 THEN Bad
    ELSE IF Len(w) - 2 < w[1] THEN Bad
    ELSE LET seg  == [startid |-> w[2], entries |-> SubSeq(w, 3, 2 + w[1])]
             tail == TakeSegments(cls, Rest(w, 2 + w[1]))
         IN  IF ~valid_segment(cls, seg) \/ ~tail.ok THEN Bad
             ELSE Take(w, <<seg>> \o tail.v, Len(w))

\* decode_into: decode_header, then the segments or the single run.
TakeRouting(cls, b) ==
    LET w == Front(WordsOf(b))
        hdr == [control |-> b[1] % 2, type |-> (b[1] \div 2) % 8,
                ext_type |-> (b[1] \div 16) % 8, pf |-> b[1] \div 128,
                srcnode |-> Num(SubSeq(b, 2, 3))]
        segs == TakeSegments(cls, w)
    IN  IF w = <<>> THEN Bad
        ELSE IF cls = "PhaseIIIRouting" THEN Take(b, With(hdr, [entries |-> w]), Len(b))
        ELSE IF segs.ok THEN Take(b, With(hdr, [segments |-> segs.v]), Len(b))
        ELSE Bad

(***************************************************************************)
(* NSP.                                                                    *)
(***************************************************************************)
AckNum(name) == Row("AckNum", 2, name, <<>>)

Seq12(name) == Row("Seq", 2, name, <<>>)

NspAckHdr == <<B(1, "msgflag"), B(2, "dstaddr"), B(2, "srcaddr"),
               AckNum("acknum"), AckNum("acknum2")>>

AckData == Class(NspAckHdr, FALSE)

AckOther == Class(NspAckHdr, FALSE)

AckConn == Class(<<B(1, "msgflag"), B(2, "dstaddr"), Payload("payload")>>, TRUE)

DataSeg == Class(NspAckHdr \o
    <<BM(<< <<"segnum_bits", 0, 12>>, <<"dly", 12, 1>> >>), Payload("payload")>>, TRUE)

IntMsg == Class(NspAckHdr \o <<Seq12("segnum"), Payload("payload")>>, TRUE)

LinkSvcMsg == Class(NspAckHdr \o <<Seq12("segnum"),
    BM(<< <<"fcmod", 0, 2>>, <<"fcval_int", 2, 2>> >>), SIGNED(1, "fcval")>>, FALSE)

NspConnHdr == <<B(1, "msgflag"), B(2, "dstaddr"), B(2, "srcaddr"),
    BM(<< <<"mb1", 0, 2>>, <<"fcopt", 2, 2>>, <<"mbz", 4, 4>> >>),
    EX(1, "info"), B(2, "segsize")>>

ConnInit == Class(NspConnHdr \o <<Payload("payload")>>, TRUE)

ConnConf == Class(NspConnHdr \o <<I(16, "data_ctl")>>, FALSE)

DiscConf == Class(<<B(1, "msgflag"), B(2, "dstaddr"), B(2, "srcaddr"),
                    B(2, "reason")>>, FALSE)

DiscInit == Class(<<B(1, "msgflag"), B(2, "dstaddr"), B(2, "srcaddr"),
                    B(2, "reason"), I(16, "data_ctl")>>, FALSE)

(***************************************************************************)
(* Session control's connect message: the optional fields travel in the    *)
(* payload, and flags say which of them are there.                         *)
(***************************************************************************)
EndUser(name) == Row("EndUser", 0, name, <<>>)

ConnectData == Class(<<EndUser("dstname"), EndUser("srcname"),
    BM(<< <<"auth", 0, 1>>, <<"userdata", 1, 1>>, <<"proxy", 2, 1>>,
          <<"proxy_uic", 3, 1>>, <<"reserved", 4, 1>>, <<"scver", 5, 2>>,
          <<"mbz2", 7, 1>> >>), Payload("payload")>>, TRUE)

HasAuth(p) == ~(p.rqstrid = <<>> /\ p.passwrd = <<>> /\ p.account = <<>>)

\* encode_message: the flags follow from the fields that are not empty.
ConnectPacket(p) ==
    LET Counted(s) == <<Len(s)>> \o s
        auth == IF HasAuth(p) THEN 1 ELSE 0
        userdata == IF p.connectdata # <<>> THEN 1 ELSE 0
    IN  With(p, [auth |-> auth, userdata |-> userdata,
                 payload |-> (IF auth = 1
                              THEN Counted(p.rqstrid) \o Counted(p.passwrd)
                                   \o Counted(p.account)
                              ELSE <<>>)
                             \o (IF userdata = 1 THEN Counted(p.connectdata) ELSE <<>>)])

FitsConnect(p) ==
    /\ HasAuth(p) => \A s \in {p.rqstrid, p.passwrd, p.account} : Len(s) <= 39
    /\ Len(p.connectdata) <= 16
    /\ Fits(ConnectData.rows, ConnectPacket(p))

\* The fields that the flags of a connect message name, from its payload.
TakeOptional(fixed) ==
    LET Image(t, f) == IF t.ok THEN Set(t.v, f[1], TakeImage(t.left, f[2])) ELSE Bad
        c == fixed.v
        none == With(c, [rqstrid |-> <<>>, passwrd |-> <<>>, account |-> <<>>,
                         connectdata |-> <<>>])
        auth == << <<"rqstrid", 39>>, <<"passwrd", 39>>, <<"account", 39>> >>
        userdata == << <<"connectdata", 16>> >>
    IN  IF ~fixed.ok THEN Bad
        ELSE FoldLeft(Image, Take(c.payload, none, 0),
                      (IF c.auth = 1 THEN auth ELSE <<>>)
                      \o (IF c.userdata = 1 THEN userdata ELSE <<>>))

\* parse_message.  Bytes after the fields the flags name are ignored.
TakeConnect(b) == TakeOptional(Decode(ConnectData.rows, TRUE, b))

(***************************************************************************)
(* MOP.                                                                    *)
(***************************************************************************)
SoftwareId(name) == Row("SoftwareId", 0, name, <<>>)

SysId == Class(<<B(1, "code"), RES(1), B(2, "receipt"), TLV(<<
    <<1, Version("version")>>,
    <<2, BM(<< <<"loop", 0, 1>>, <<"dump", 1, 1>>, <<"ploader", 2, 1>>,
               <<"sloader", 3, 1>>, <<"boot", 4, 1>>, <<"carrier", 5, 1>>,
               <<"counters", 6, 1>>, <<"carrier_reserved", 7, 1>> >>)>>,
    <<3, BV(6, "console_user")>>, <<4, B(2, "reservation_timer")>>,
    <<5, B(2, "console_cmd_size")>>, <<6, B(2, "console_resp_size")>>,
    <<7, BV(6, "hwaddr")>>, <<100, B(1, "device")>>,
    <<200, SoftwareId("software")>>, <<300, B(1, "processor")>>,
    <<400, B(1, "datalink")>>, <<401, B(2, "bufsize")>> >>)>>, FALSE)

RequestId == Class(<<B(1, "code"), RES(1), B(2, "receipt")>>, FALSE)

RequestCounters == Class(<<B(1, "code"), B(2, "receipt")>>, FALSE)

Counters == Class(
    <<B(1, "code"), B(2, "receipt"), B(2, "time_since_zeroed"), B(4, "bytes_recv"),
      B(4, "bytes_sent"), B(4, "pkts_recv"), B(4, "pkts_sent"), B(4, "mcbytes_recv"),
      B(4, "mcpkts_recv"), B(4, "pkts_deferred"), B(4, "pkts_1_collision"),
      B(4, "pkts_mult_collision"), B(2, "send_fail"), B(2, "send_reasons"),
      B(2, "recv_fail"), B(2, "recv_reasons"), B(2, "unk_dest"),
      B(2, "data_overrun"), B(2, "no_sys_buf"), B(2, "no_user_buf")>>, FALSE)

ConsoleRequest == Class(<<B(1, "code"), BV(8, "verification")>>, FALSE)

ConsoleRelease == Class(<<B(1, "code")>>, FALSE)

ConsoleCommand == Class(<<B(1, "code"),
    BM(<< <<"seq", 0, 1>>, <<"break", 1, 1>> >>), Payload("payload")>>, TRUE)

ConsoleResponse == Class(<<B(1, "code"),
    BM(<< <<"seq", 0, 1>>, <<"cmd_lost", 1, 1>>, <<"resp_lost", 2, 1>> >>),
    Payload("payload")>>, TRUE)

(***************************************************************************)
(* The indexes.  A registration claims the keys that agree with its key on *)
(* the bits of its mask, and takes them over from earlier ones.  A nested  *)
(* level is named like a class and resolved by its own index.              *)
(***************************************************************************)
Reg(key, mask, cls) == [key |-> key, mask |-> mask, cls |-> cls]

Claims(r, key) == (key & r.mask) = (r.key & r.mask)

\* PacketIndex::create for one level: the last registration that claims the
\* key, or nothing.
Find(regs, limit, key) ==
    IF key >= limit THEN "none"
    ELSE LET claim == {i \in DOMAIN regs : Claims(regs[i], key)}
         IN  IF claim = {} THEN "none" ELSE regs[Max(claim)].cls

register_routing_packets == <<
    Reg(2, 199, "ShortData"), Reg(6, 199, "LongData"),
    Reg(1, 143, "PtpInit34"), Reg(11, 143, "RouterHello"),
    Reg(13, 143, "EndnodeHello"), Reg(3, 143, "PtpVerify"),
    Reg(5, 143, "PtpHello"), Reg(8, 255, "NopMsg"),
    Reg(7, 143, "P34Routing"), Reg(9, 143, "P4L2Routing")>>

register_nsp_packets == <<
    Reg(4, 255, "AckData"), Reg(20, 255, "AckOther"), Reg(36, 255, "AckConn"),
    Reg(0, 159, "DataSeg"), Reg(48, 255, "IntMsg"), Reg(16, 255, "LinkSvcMsg"),
    Reg(24, 255, "ConnInit"), Reg(104, 255, "ConnInit"), Reg(40, 255, "ConnConf"),
    Reg(72, 255, "DiscConf"), Reg(56, 255, "DiscInit")>>

register_mop_packets == <<
    Reg(5, 255, "RequestId"), Reg(7, 255, "SysId"), Reg(9, 255, "RequestCounters"),
    Reg(11, 255, "Counters"), Reg(13, 255, "ConsoleRequest"),
    Reg(15, 255, "ConsoleRelease"), Reg(17, 255, "ConsoleCommand"),
    Reg(19, 255, "ConsoleResponse")>>

\* The class of a frame, walking the levels.
ClassOf(family, b) ==
    LET top == CASE family = "routing" -> Find(register_routing_packets, 128, b[1])
                 [] family = "nsp"     -> Find(register_nsp_packets, 128, b[1])
                 [] family = "mop"     -> Find(register_mop_packets, 256, b[1])
        Phase(w) == CASE w = 65534 -> "L1Routing" [] w = 65535 -> "PhaseIIIRouting"
                      [] OTHER -> "none"
    IN  IF b = <<>> THEN "none"
        ELSE IF top = "PtpInit34"
        THEN IF Len(b) < 7 THEN "none"
             ELSE CASE b[7] = 2 -> "PtpInit" [] b[7] = 1 -> "PtpInit3" [] OTHER -> "none"
        ELSE IF top = "P34Routing"
        THEN IF HasWords(b) THEN Phase(Residue(b)) ELSE "none"
        ELSE IF top = "P4L2Routing"
        THEN IF HasWords(b) /\ Residue(b) = 65534 THEN "L2Routing" ELSE "none"
        ELSE top

Layouts ==
    [ShortData |-> ShortData, LongData |-> LongData, PtpInit |-> PtpInit,
     PtpInit3 |-> PtpInit3, PtpVerify |-> PtpVerify, PtpHello |-> PtpHello,
     NopMsg |-> NopMsg, RouterHello |-> RouterHello, EndnodeHello |-> EndnodeHello,
     AckData |-> AckData, AckOther |-> AckOther, AckConn |-> AckConn,
     DataSeg |-> DataSeg, IntMsg |-> IntMsg, LinkSvcMsg |-> LinkSvcMsg,
     ConnInit |-> ConnInit, ConnConf |-> ConnConf, DiscConf |-> DiscConf,
     DiscInit |-> DiscInit, SysId |-> SysId, RequestId |-> RequestId,
     RequestCounters |-> RequestCounters, Counters |-> Counters,
     ConsoleRequest |-> ConsoleRequest, ConsoleRelease |-> ConsoleRelease,
     ConsoleCommand |-> ConsoleCommand, ConsoleResponse |-> ConsoleResponse,
     Elist |-> Elist, RSent |-> RSent]

Routings == {"L1Routing", "L2Routing", "PhaseIIIRouting"}

Refused == [cls |-> "none"]

\* Encoding a message of a class: whether it throws, and the bytes.
FitsMessage(cls, p) ==
    IF cls = "ConnectData" THEN FitsConnect(p)
    ELSE cls \notin Routings => Fits(Layouts[cls].rows, p)

PutMessage(cls, p) ==
    IF cls = "ConnectData" THEN Put(ConnectData.rows, ConnectPacket(p))
    ELSE IF cls \in Routings THEN PutRouting(cls, p)
    ELSE Put(Layouts[cls].rows, p)

\* The body of a message, by its class.
TakeBody(cls, b) ==
    CASE cls = "none" -> Bad
      [] cls = "ConnectData" -> TakeConnect(b)
      [] cls \in Routings -> TakeRouting(cls, b)
      [] OTHER -> Decode(Layouts[cls].rows, Layouts[cls].extra, b)

Parsed(cls, t) == IF t.ok THEN [cls |-> cls, p |-> t.v] ELSE Refused

TakeAs(cls, b) == Parsed(cls, TakeBody(cls, b))

\* try_parse_indexed, or the class's own parse for what has no index.
TakeMessage(family, b) ==
    TakeAs(IF family \in {"routing", "nsp", "mop"} THEN ClassOf(family, b) ELSE family, b)
=============================================================================
