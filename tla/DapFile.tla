------------------------------ MODULE DapFile ------------------------------
(***************************************************************************)
(* The file algorithms of the File Access Listener, src/src/dap/fal.cc and *)
(* src/include/decnet/dap/messages.h, as operators: how a file's size is   *)
(* told in blocks, how block mode turns what a requester wrote into what   *)
(* record mode would have stored, and how a file is cut into records.      *)
(* Bytes are numbers; BlkSize stands for the 512 bytes of a virtual block. *)
(***************************************************************************)
EXTENDS Integers, Sequences, SequencesExt, FiniteSetsExt

CONSTANT BlkSize        \* fal.cc's blksize

NL == 10
CR == 13
FillCount == 65535      \* a record count that says: the rest of the block is unused

Zeros(n) == [i \in 1 .. n |-> 0]

\* One block by its VBN, short at the end of the file; empty past the end.
ReadBlock(content, vbn) ==
  IF vbn = 0 THEN <<>>
  ELSE SubSeq(content, (vbn - 1) * BlkSize + 1,
              Min({vbn * BlkSize, Len(content)}))

\* fseek past the end and fwrite: the hole reads as zeros.
WriteAt(content, at, bytes) ==
  LET n == IF bytes = <<>> THEN Len(content)
           ELSE Max({Len(content), at + Len(bytes)})
  IN  [i \in 1 .. n |-> IF i > at /\ i <= at + Len(bytes) THEN bytes[i - at]
                        ELSE IF i <= Len(content) THEN content[i] ELSE 0]

\* Faulty variant: the end of file block is the last one that holds data.
SizeToldCeiling(size) == [ebk |-> (size + BlkSize - 1) \div BlkSize, ffb |-> size % BlkSize]

\* What describe says of a file's size, and what the Attributes message's
\* size () makes of it at the other end.
SizeTold(size) == [ebk |-> size \div BlkSize + 1, ffb |-> size % BlkSize]
SizeTaken(told) ==
  IF told.ebk = 0 THEN 0 ELSE (told.ebk - 1) * BlkSize + told.ffb

\* Line ends a text record may carry are dropped before one newline is stored.
RECURSIVE StripLineEnd(_)
StripLineEnd(r) ==
  IF r # <<>> /\ Last(r) \in {NL, CR} THEN StripLineEnd(Front(r)) ELSE r

\* The records a text file is read as: a last line with no newline is one too.
RECURSIVE LineAt(_, _)
LineAt(content, pos) ==
  IF pos >= Len(content) \/ content[pos + 1] = NL THEN <<>>
  ELSE <<content[pos + 1]>> \o LineAt(content, pos + 1)

\* The records of an RMS variable length file as block mode writes it, each
\* a count word, the data, and a pad byte when the count is odd.
RECURSIVE unpack_records(_, _, _, _, _)
unpack_records(raw, pos, hdr, lines, exact) ==
  IF pos + 2 > Len(raw) THEN <<>>
  ELSE LET n == raw[pos + 1] + 256 * raw[pos + 2]
       IN  IF n = FillCount
             THEN unpack_records(raw, (pos \div BlkSize + 1) * BlkSize,
                                 hdr, lines, exact)
           ELSE IF \/ n = 0 /\ ~exact /\ \A i \in pos + 1 .. Len(raw) : raw[i] = 0
                   \/ pos + 2 + n > Len(raw)
             THEN <<>>
           ELSE SubSeq(raw, pos + 3 + Min({hdr, n}), pos + 2 + n)
                \o (IF lines THEN <<NL>> ELSE <<>>)
                \o unpack_records(raw, pos + 2 + n + (n % 2), hdr, lines, exact)

(***************************************************************************)
(* Attributes as the listener uses them: the record format, whether its    *)
(* attributes imply line ends, the size (-1 when no end of file block was  *)
(* given), VFC's fixed part, and whether the block size is one it takes.   *)
(***************************************************************************)
NoAttr == [given |-> FALSE, rfm |-> "none", rat |-> "none", size |-> -1,
           fsz |-> 0, bls |-> TRUE]

text(attr) == attr.given /\ attr.rat = "cr"

\* Make a file written in block mode what record mode would have stored.
unblock(written, attr) ==
  LET exact == attr.given /\ attr.size >= 0 /\ attr.size <= Len(written)
      raw   == IF exact THEN SubSeq(written, 1, attr.size) ELSE written
      rfm   == IF attr.given THEN attr.rfm ELSE "none"
      \* Stream text loses the CR before each LF.
      keep(i) == ~(rfm = "stm" /\ raw[i] = CR /\ i < Len(raw) /\ raw[i + 1] = NL)
  IN  CASE rfm = "var" -> unpack_records(raw, 0, 0, text(attr), exact)
        [] rfm = "vfc" -> unpack_records(raw, 0, IF attr.fsz > 0 THEN attr.fsz ELSE 2,
                                         text(attr), exact)
        [] rfm \in {"stm", "slf", "scr"} ->
             FlattenSeq([i \in 1 .. Len(raw) |-> IF keep(i) THEN <<raw[i]>> ELSE <<>>])
        [] OTHER -> raw
=============================================================================
