---------------------------- MODULE DapMessages -----------------------------
(***************************************************************************)
(* The Data Access Protocol's messages (dap/messages.h, dap/messages.cc).  *)
(* A message is a type and a function from field names to values; an EX    *)
(* bit field is the set of its bits.  A row of a message is                *)
(* <<codec, size, name, menu bit or -1, default>>: a row with a menu bit   *)
(* is there when the message's menu has the bit, and every row takes its   *)
(* default when the message ends before it.                                *)
(***************************************************************************)
EXTENDS Wire

Config ==
    << <<"b", 2, "bufsiz", -1, 0>>, <<"b", 1, "ostype", -1, 0>>,
       <<"b", 1, "filesys", -1, 0>>, <<"b", 1, "version1", -1, 0>>,
       <<"b", 1, "version2", -1, 0>>, <<"b", 1, "version3", -1, 0>>,
       <<"b", 1, "version4", -1, 0>>, <<"b", 1, "version5", -1, 0>>,
       <<"ex", 12, "syscap", -1, {}>> >>

Attributes ==
    << <<"ex", 6, "menu", -1, {}>>, <<"ex", 2, "datatype", 0, {1}>>,
       <<"b", 1, "org", 1, 0>>, <<"b", 1, "rfm", 2, 1>>, <<"ex", 3, "rat", 3, {}>>,
       <<"b", 2, "bls", 4, 512>>, <<"b", 2, "mrs", 5, 0>>, <<"int", 5, "alq", 6, 0>>,
       <<"b", 1, "bks", 7, 0>>, <<"b", 1, "fsz", 8, 0>>, <<"int", 5, "mrn", 9, 0>>,
       <<"image", 40, "runsys", 10, <<>> >>, <<"b", 2, "deq", 11, 0>>,
       <<"ex", 6, "fop", 12, {}>>, <<"b", 1, "bsz", 13, 8>>, <<"ex", 6, "dev", 14, {}>>,
       <<"ex", 6, "sdc", 15, {}>>, <<"b", 2, "lrl", 16, 0>>, <<"int", 5, "hbk", 17, 0>>,
       <<"int", 5, "ebk", 18, 0>>, <<"b", 2, "ffb", 19, 0>>, <<"int", 5, "sbn", 20, 0>> >>

Access ==
    << <<"b", 1, "accfunc", -1, 0>>, <<"ex", 5, "accopt", -1, {}>>,
       <<"image", 255, "filespec", -1, <<>> >>, <<"ex", 3, "fac", -1, {1}>>,
       <<"ex", 3, "shr", -1, {1}>>, <<"ex", 4, "display", -1, {}>>,
       <<"given", 40, "password", -1, <<>> >> >>

Control ==
    << <<"b", 1, "ctlfunc", -1, 1>>, <<"ex", 4, "menu", -1, {}>>,
       <<"b", 1, "rac", 0, 0>>, <<"image", 255, "key", 1, <<>> >>,
       <<"b", 1, "krf", 2, 0>>, <<"ex", 6, "rop", 3, {}>> >>

AccessComplete ==
    << <<"b", 1, "cmpfunc", -1, 0>>, <<"ex", 6, "fop", -1, {}>>, <<"b", 2, "check", -1, 0>> >>

Status == << <<"b", 2, "code", -1, 0>>, <<"rest", 0, "rest", -1, <<>> >> >>

DateTime ==
    << <<"ex", 6, "menu", -1, {}>>, <<"fixed", 18, "cdt", 0, <<>> >>,
       <<"fixed", 18, "rdt", 1, <<>> >>, <<"fixed", 18, "edt", 2, <<>> >>,
       <<"b", 2, "rvn", 3, 0>> >>

Protection ==
    << <<"ex", 6, "menu", -1, {}>>, <<"image", 40, "owner", 0, <<>> >>,
       <<"ex", 3, "sys", 1, {}>>, <<"ex", 3, "own", 2, {}>>,
       <<"ex", 3, "grp", 3, {}>>, <<"ex", 3, "wld", 4, {}>> >>

Name == << <<"ex", 3, "nametype", -1, {}>>, <<"image", 200, "namespec", -1, <<>> >> >>

DapRows(type) ==
    CASE type = 1 -> Config [] type = 2 -> Attributes [] type = 3 -> Access
      [] type = 4 -> Control [] type = 5 -> << <<"b", 1, "confunc", -1, 4>> >>
      [] type = 6 -> <<>> [] type = 7 -> AccessComplete
      [] type = 8 -> << <<"int", 8, "recnum", -1, 0>>, <<"rest", 0, "payload", -1, <<>> >> >>
      [] type = 9 -> Status [] type = 13 -> DateTime [] type = 14 -> Protection
      [] type = 15 -> Name
      [] OTHER -> << <<"rest", 0, "body", -1, <<>> >> >>

\* The value every member of a message has before it is read.
DapDefaults(type) ==
    LET rows == DapRows(type)
    IN  [x \in {rows[i][3] : i \in DOMAIN rows} |->
            (CHOOSE r \in Range(rows) : r[3] = x)[5]]

\* Ext::encode: as few bytes as the highest bit needs.
ExtSize(bits) == IF bits = {} THEN 1 ELSE Max(bits) \div 7 + 1

\* Faulty variant: only the lowest seven bits of the field are written.
PutExtShort(bits) ==
    << FoldFunction(+, 0, [j \in 0..6 |-> IF j \in bits THEN 2^j ELSE 0]) >>

PutExt(bits) ==
    LET n == ExtSize(bits)
        Group(i) == FoldFunction(+, 0,
                        [j \in 0..6 |-> IF 7 * (i - 1) + j \in bits THEN 2^j ELSE 0])
    IN  [i \in 1..n |-> Group(i) + (IF i < n THEN 128 ELSE 0)]

\* put_image_int: no byte at all for zero.
IntBytes(v) == Uint(v, IF v = 0 THEN 0 ELSE Min({i \in 1..4 : i = 4 \/ v < 256^i}))

Written(r, p) == r[4] = -1 \/ r[4] \in p.menu

FitsDap(type, p) ==
    \A r \in Range(DapRows(type)) : Written(r, p) =>
        CASE r[1] = "ex" -> ExtSize(p[r[3]]) <= r[2]
          [] r[1] = "int" -> Len(IntBytes(p[r[3]])) <= r[2]
          [] r[1] \in {"image", "given", "fixed"} -> Len(p[r[3]]) <= r[2]
          [] OTHER -> TRUE

PutDapRow(r, p) ==
    LET v == p[r[3]]
    IN  IF ~Written(r, p) THEN <<>>
        ELSE CASE r[1] = "b" -> Uint(v, r[2])
               [] r[1] = "ex" -> PutExt(v)
               [] r[1] = "int" -> <<Len(IntBytes(v))>> \o IntBytes(v)
               [] r[1] = "image" -> <<Len(v)>> \o v
               [] r[1] = "given" -> IF v = <<>> THEN <<>> ELSE <<Len(v)>> \o v
               [] r[1] = "fixed" -> Pad(v, r[2])
               [] r[1] = "rest" -> v

\* encode: the type, a FLAGS byte that announces nothing, and the body.
PutDap(type, p) ==
    LET rows == DapRows(type)
    IN  <<type, 0>> \o FlattenSeq([i \in DOMAIN rows |-> PutDapRow(rows[i], p)])

(***************************************************************************)
(* Decoding.                                                               *)
(***************************************************************************)
\* Faulty variant: a bit field may go on past the end of the message.
TakeExtOpen(b, max) ==
    LET ends == {i \in 1..Len(b) : i <= max /\ (b[i] < 128 \/ i = Len(b))}
    IN  IF ends = {} THEN Bad
        ELSE Take(b, {k \in 0..(7 * Min(ends) - 1) :
                        (b[k \div 7 + 1] \div 2^(k % 7)) % 2 = 1}, Min(ends))

TakeExt(b, max) ==
    LET ends == {i \in 1..Len(b) : i <= max /\ b[i] < 128}
    IN  IF ends = {} THEN Bad
        ELSE Take(b, {k \in 0..(7 * Min(ends) - 1) :
                        (b[k \div 7 + 1] \div 2^(k % 7)) % 2 = 1}, Min(ends))

\* Faulty variant: the last character goes with the zeros.
TrimZerosShort(s) ==
    LET zeros == {i \in DOMAIN s : s[i] = 0}
    IN  IF zeros = {} THEN s ELSE First(s, Min(zeros) - 2)

\* A fixed text ends at its first zero byte.
TrimZeros(s) ==
    LET zeros == {i \in DOMAIN s : s[i] = 0}
    IN  IF zeros = {} THEN s ELSE First(s, Min(zeros) - 1)

TakeNumber(r, b) ==
    IF Len(b) < r[2] THEN Bad ELSE Take(b, Num(First(b, r[2])), r[2])

\* Reader: the default once the message has run out, an error within a field.
TakeDapRow(r, b) ==
    IF b = <<>> THEN Take(b, r[5], 0)
    ELSE CASE r[1] = "b" -> TakeNumber(r, b)
           [] r[1] = "ex" -> TakeExt(b, r[2])
           [] r[1] \in {"image", "given"} -> TakeImage(b, r[2])
           [] r[1] = "int" -> LET t == TakeImage(b, r[2])
                              IN  IF t.ok THEN [t EXCEPT !.v = Num(t.v)] ELSE Bad
           [] r[1] = "fixed" -> IF Len(b) < r[2] THEN Bad
                                ELSE Take(b, TrimZeros(First(b, r[2])), r[2])
           [] r[1] = "rest" -> Take(b, b, Len(b))

\* decode_body.  What follows the last field is ignored.
TakeDap(type, b) ==
    LET Step(acc, r) ==
            IF ~acc.ok THEN Bad
            ELSE IF ~Written(r, acc.v) THEN acc
            ELSE LET t == TakeDapRow(r, acc.left)
                 IN  IF t.ok THEN [t EXCEPT !.v = With(acc.v, [x \in {r[3]} |-> t.v])]
                     ELSE Bad
    IN  FoldLeft(Step, Take(b, DapDefaults(type), 0), DapRows(type))

Bit(byte, k) == (byte \div 2^k) % 2 = 1

\* A message's header: where its body starts and ends.  FLAGS may go on for
\* several bytes, of which only the first has meaning here.
DapHeader(b) ==
    LET ext  == Min({h \in 2..Len(b) : b[h] < 128 \/ h = Len(b)})
        h1   == IF Bit(b[2], 0) THEN ext + 1 ELSE ext
        wide == Bit(b[2], 2)
        cut  == Bit(b[2], 1) /\ Len(b) < h1 + (IF wide THEN 2 ELSE 1)
        h2   == IF ~Bit(b[2], 1) THEN h1 ELSE h1 + (IF wide THEN 2 ELSE 1)
        end  == IF ~Bit(b[2], 1) THEN Len(b) ELSE h2 + Num(SubSeq(b, h1 + 1, h2))
        h3   == IF Bit(b[2], 3) THEN h2 + 1 ELSE h2
    IN  IF Len(b) = 1 THEN [ok |-> TRUE, start |-> 1, end |-> 1]
        ELSE IF cut THEN Bad
        ELSE IF end > Len(b) \/ Bit(b[2], 5) \/ Bit(b[2], 6) \/ h3 > end THEN Bad
        ELSE [ok |-> TRUE, start |-> h3, end |-> end]

\* decode: every message of one session control message.
RECURSIVE TakeDapAll(_)
TakeDapAll(b) ==
    IF b = <<>> THEN Take(b, <<>>, 0)
    ELSE LET hdr == DapHeader(b)
             m   == TakeDap(b[1], SubSeq(b, hdr.start + 1, hdr.end))
             more == TakeDapAll(Rest(b, hdr.end))
         IN  IF ~hdr.ok THEN Bad
             ELSE IF ~m.ok \/ ~more.ok THEN Bad
             ELSE Take(b, <<[type |-> b[1], p |-> m.v]>> \o more.v, Len(b))
=============================================================================
