-------------------------------- MODULE Wire --------------------------------
(***************************************************************************)
(* The packet framework: little endian buffers, the field codecs, bit      *)
(* groups, tag/length/value lists, and the layouts made of them            *)
(* (include/decnet/packet: buffer.h, field.h, group.h, packet.h).          *)
(*                                                                         *)
(* A byte is a number in 0..255 and a buffer a sequence of them.  A layout *)
(* is a sequence of rows; a packet is a function from field names to       *)
(* values, and an optional field that is absent is not in its domain.      *)
(* Integers and flags are numbers, strings are byte sequences.  Encoding   *)
(* is split into what the codec refuses (Fits, the FieldOverflow throws)   *)
(* and the bytes it writes (Put).  Decoding consumes a prefix of a buffer: *)
(* Take(b, v, n) is success with value v after n bytes, Bad is a throw.    *)
(***************************************************************************)
EXTENDS Integers, Sequences, SequencesExt, FiniteSetsExt

\* Encoder::uint: n bytes, least significant first; a negative number is
\* written in two's complement.
Uint(v, n) == [i \in 1..n |-> (v \div 256^(i - 1)) % 256]

\* Decoder::uint.
Num(b) == FoldRight(LAMBDA x, acc : x + 256 * acc, b, 0)

Zeros(n) == [i \in 1..n |-> 0]

First(b, n) == SubSeq(b, 1, n)

Rest(b, n) == SubSeq(b, n + 1, Len(b))

Bad == [ok |-> FALSE]

Take(b, v, n) == [ok |-> TRUE, v |-> v, left |-> Rest(b, n)]

\* One row of a layout: a codec k with its width or maximum n, the member it
\* reads and writes, and the sub-rows of a group.
Row(k, n, name, sub) == [k |-> k, n |-> n, name |-> name, sub |-> sub]

B(n, name) == Row("B", n, name, <<>>)

SIGNED(n, name) == Row("SIGNED", n, name, <<>>)

BV(n, name) == Row("BV", n, name, <<>>)

I(max, name) == Row("I", max, name, <<>>)

EX(max, name) == Row("EX", max, name, <<>>)

Payload(name) == Row("Payload", 0, name, <<>>)

RES(n) == Row("RES", n, "", <<>>)

\* A bit group: bits is a sequence of <<name, first bit, number of bits>>.
BM(bits) ==
    Row("BM", (Max({bits[i][2] + bits[i][3] - 1 : i \in DOMAIN bits}) + 8) \div 8,
        "", bits)

\* A list of items that fills the rest of the packet, in its wild, tolerant
\* form with two byte tags and one byte lengths (the only form in use).
\* entries is a sequence of <<tag, row>>.
TLV(entries) == Row("TLV", 0, "unknown", entries)

\* The seven-bit groups of an extensible integer (of at most 28 bits here).
ExBytes(v) ==
    LET size == Min({i \in 1..4 : v < 128^i})
    IN  [i \in 1..size |->
            ((v \div 128^(i - 1)) % 128) + (IF i < size THEN 128 ELSE 0)]

\* Whether a field's encoder accepts the value.
FitsField(r, v) ==
    CASE r.k = "B"       -> r.n < 4 => v < 256^r.n
      [] r.k = "SIGNED"  -> -(256^r.n \div 2) <= v /\ v < 256^r.n \div 2
      [] r.k = "BV"      -> Len(v) <= r.n
      [] r.k = "I"       -> Len(v) <= r.n
      [] r.k = "EX"      -> Len(ExBytes(v)) <= r.n
      [] r.k = "EndUser" -> Len(v.name) <= 16
      [] r.k = "SoftwareId" -> IF v.is_code THEN v.code \in -2..0
                                            ELSE Len(v.text) <= 127
      [] OTHER           -> TRUE

\* A fixed string is filled up with zeros on the right.
Pad(v, n) == v \o Zeros(n - Len(v))

\* The bytes of one field.  An acknowledgement number is its qualifier and
\* twelve bits of number as one value, or -1 when the field is absent.
PutField(r, v) ==
    CASE r.k \in {"B", "SIGNED"} -> Uint(v, r.n)
      [] r.k = "BV"      -> Pad(v, r.n)
      [] r.k = "I"       -> <<Len(v)>> \o v
      [] r.k = "EX"      -> ExBytes(v)
      [] r.k = "Payload" -> v
      [] r.k = "Seq"     -> Uint(v, 2)
      [] r.k = "AckNum"  -> IF v = -1 THEN <<>> ELSE Uint(32768 + v, 2)
      [] r.k = "EndUser" ->
            <<v.fmt, v.num>>
            \o (IF v.fmt = 2 THEN Uint(v.group, 2) \o Uint(v.user, 2) ELSE <<>>)
            \o (IF v.fmt \in {1, 2} THEN <<Len(v.name)>> \o v.name ELSE <<>>)
      [] r.k = "SoftwareId" ->
            IF v.is_code THEN Uint(v.code, 1) ELSE <<Len(v.text)>> \o v.text

GroupSum(bits, p) ==
    FoldLeft(LAMBDA acc, f : acc + p[f[1]] * 2^f[2], 0, bits)

\* The items of a TLV list: the known ones that are present, in the order of
\* the layout (a bit group is always present), then the unknown ones by tag.
Items(r, p) ==
    LET known == SelectSeq(r.sub, LAMBDA e : e[2].k = "BM" \/ e[2].name \in DOMAIN p)
        Item(tag, value) == Uint(tag, 2) \o <<Len(value)>> \o value
        Value(e) == IF e[2].k = "BM" THEN Uint(GroupSum(e[2].sub, p), e[2].n)
                                     ELSE PutField(e[2], p[e[2].name])
        tags == SetToSortSeq(DOMAIN p.unknown, <)
    IN  FlattenSeq([i \in DOMAIN known |-> Item(known[i][1], Value(known[i]))])
        \o FlattenSeq([i \in DOMAIN tags |-> Item(tags[i], p.unknown[tags[i]])])

FitsRow(r, p) ==
    CASE r.k = "RES" -> TRUE
      [] r.k = "BM"  -> \A i \in DOMAIN r.sub : p[r.sub[i][1]] < 2^r.sub[i][3]
      [] r.k = "TLV" -> \A i \in DOMAIN r.sub :
                            r.sub[i][2].name \in DOMAIN p
                            => FitsField(r.sub[i][2], p[r.sub[i][2].name])
      [] OTHER       -> FitsField(r, p[r.name])

PutRow(r, p) ==
    CASE r.k = "RES" -> Zeros(r.n)
      [] r.k = "BM"  -> Uint(GroupSum(r.sub, p), r.n)
      [] r.k = "TLV" -> Items(r, p)
      [] OTHER       -> PutField(r, p[r.name])

\* Packet::encode, and whether it throws instead.
Fits(layout, p) == \A i \in DOMAIN layout : FitsRow(layout[i], p)

Put(layout, p) == FlattenSeq([i \in DOMAIN layout |-> PutRow(layout[i], p)])

(***************************************************************************)
(* Decoding.                                                               *)
(***************************************************************************)
\* Faulty variant: a count beyond the end of the packet takes what is there.
TakeImageShort(b, max) ==
    IF Len(b) = 0 \/ b[1] > max THEN Bad
    ELSE LET n == Min({b[1], Len(b) - 1}) IN Take(b, SubSeq(b, 2, n + 1), n + 1)

\* A one byte count, refused beyond max, and that many bytes.
TakeImage(b, max) ==
    IF Len(b) = 0 \/ b[1] > max \/ Len(b) - 1 < b[1]
    THEN Bad
    ELSE Take(b, SubSeq(b, 2, b[1] + 1), b[1] + 1)

TakeEx(b, max) ==
    LET ends == {i \in 1..Len(b) : i <= max /\ b[i] < 128}
    IN  IF ends = {} THEN Bad
        ELSE Take(b, FoldRight(LAMBDA x, acc : (x % 128) + 128 * acc,
                               First(b, Min(ends)), 0), Min(ends))

\* AckNumField::decode: the field is there when the top bit of the next word
\* is set; a reserved qualifier is consumed and means nothing.
TakeAckNum(b) ==
    IF Len(b) < 2 \/ Num(First(b, 2)) < 32768 THEN Take(b, -1, 0)
    ELSE IF Num(First(b, 2)) >= 49152 THEN Take(b, -1, 2)
    ELSE Take(b, Num(First(b, 2)) - 32768, 2)

\* EndUserField::decode, valid() included.
TakeEndUser(b) ==
    LET uic  == IF b[1] = 2 THEN 4 ELSE 0
        text == TakeImage(Rest(b, 2 + uic), 16)
        User(name) == [fmt |-> b[1], num |-> b[2], name |-> name,
                       group |-> IF b[1] = 2 THEN Num(SubSeq(b, 3, 4)) ELSE 0,
                       user |-> IF b[1] = 2 THEN Num(SubSeq(b, 5, 6)) ELSE 0]
    IN  IF Len(b) < 2 THEN Bad
        ELSE IF b[1] > 2 \/ Len(b) < 2 + uic THEN Bad
        ELSE IF b[1] = 0 THEN (IF b[2] = 0 THEN Bad ELSE Take(b, User(<<>>), 2))
        ELSE IF ~text.ok THEN Bad
        ELSE IF text.v = <<>> THEN Bad
        ELSE Take(b, User(text.v), 3 + uic + Len(text.v))

\* SoftwareIdField::decode: the count is signed, and zero or less is a code.
TakeSoftwareId(b) ==
    IF Len(b) = 0 THEN Bad
    ELSE IF b[1] = 0 \/ b[1] >= 128
    THEN Take(b, [is_code |-> TRUE, text |-> <<>>,
                  code |-> IF b[1] = 0 THEN 0 ELSE b[1] - 256], 1)
    ELSE IF Len(b) - 1 < b[1] THEN Bad
    ELSE Take(b, [is_code |-> FALSE, code |-> 0,
                  text |-> SubSeq(b, 2, b[1] + 1)], b[1] + 1)

TakeField(r, b) ==
    CASE r.k \in {"B", "SIGNED", "Seq", "BV"} /\ Len(b) < r.n -> Bad
      [] r.k = "B" /\ Len(b) >= r.n -> Take(b, Num(First(b, r.n)), r.n)
      [] r.k = "Seq" /\ Len(b) >= r.n -> Take(b, Num(First(b, 2)) % 4096, 2)
      [] r.k = "BV" /\ Len(b) >= r.n -> Take(b, First(b, r.n), r.n)
      [] r.k = "SIGNED" /\ Len(b) >= r.n ->
            LET u == Num(First(b, r.n))
            IN  Take(b, IF u >= 256^r.n \div 2 THEN u - 256^r.n ELSE u, r.n)
      [] r.k = "I"          -> TakeImage(b, r.n)
      [] r.k = "EX"         -> TakeEx(b, r.n)
      [] r.k = "Payload"    -> Take(b, b, Len(b))
      [] r.k = "AckNum"     -> TakeAckNum(b)
      [] r.k = "EndUser"    -> TakeEndUser(b)
      [] r.k = "SoftwareId" -> TakeSoftwareId(b)

With(p, q) == [x \in DOMAIN p \union DOMAIN q |->
                  IF x \in DOMAIN q THEN q[x] ELSE p[x]]

GroupFields(bits, word) ==
    [x \in {bits[i][1] : i \in DOMAIN bits} |->
        LET f == CHOOSE f \in Range(bits) : f[1] = x
        IN  (word \div 2^f[2]) % 2^f[3]]

\* The packet p with the member name set to what was read.
Set(p, name, t) == IF t.ok THEN [t EXCEPT !.v = With(p, [x \in {name} |-> t.v])] ELSE Bad

\* One row that is no list: the packet with the row's fields set.
TakeSimple(r, b, p) ==
    IF r.k \in {"RES", "BM"}
    THEN IF Len(b) < r.n THEN Bad
         ELSE Take(b, IF r.k = "RES" THEN p
                      ELSE With(p, GroupFields(r.sub, Num(First(b, r.n)))), r.n)
    ELSE Set(p, r.name, TakeField(r, b))

\* TlvGroup::decode, wild and tolerant: an item cut short by the end of the
\* packet is dropped, bytes a known item does not use are ignored, and an
\* item of unknown tag is kept.
RECURSIVE TakeItems(_, _, _)
TakeItems(r, b, p) ==
    IF Len(b) < 3 THEN Take(b, p, Len(b))
    ELSE IF Len(b) - 3 < b[3] THEN Take(b, p, Len(b))
    ELSE LET tag   == Num(First(b, 2))
             value == SubSeq(b, 4, 3 + b[3])
             known == {e \in Range(r.sub) : e[1] = tag}
             t     == TakeSimple((CHOOSE e \in known : TRUE)[2], value, p)
             kept  == With(p, [unknown |-> With(p.unknown, [x \in {tag} |-> value])])
         IN  IF known = {} THEN TakeItems(r, Rest(b, 3 + b[3]), kept)
             ELSE IF t.ok THEN TakeItems(r, Rest(b, 3 + b[3]), t.v)
             ELSE Bad

\* What the members a list may leave alone hold before it is read.
Unset(r) ==
    FoldLeft(LAMBDA p, e : IF e[2].k = "BM" THEN With(p, GroupFields(e[2].sub, 0)) ELSE p,
             [unknown |-> [x \in {} |-> <<>>]], r.sub)

\* The end of the packet; bytes left over are an error unless the class
\* allows them.
TakeEnd(r, b, p) == IF b # <<>> /\ ~r.sub THEN Bad ELSE Take(b, p, 0)

TakeRow(r, b, p) ==
    CASE r.k = "TLV" -> TakeItems(r, b, With(p, Unset(r)))
      [] r.k = "END" -> TakeEnd(r, b, p)
      [] OTHER       -> TakeSimple(r, b, p)

\* Packet::decode over a whole buffer.
Decode(layout, extra, b) ==
    LET Step(acc, r) == IF acc.ok THEN TakeRow(r, acc.left, acc.v) ELSE Bad
    IN  FoldLeft(Step, Take(b, [x \in {} |-> 0], 0),
                 Append(layout, Row("END", 0, "", extra)))
=============================================================================
