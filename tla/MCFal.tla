------------------------------- MODULE MCFal -------------------------------
(***************************************************************************)
(* Two requesters on one tree: a file, a file in a directory, a file       *)
(* nobody may read, and a link that leads out of the root.                 *)
(***************************************************************************)
EXTENDS Fal

MCUpper == [n \in {"a", "A", "b", "B", "sub", "priv", "out", ".t1", ".t2", "*"} |->
              IF n = "a" THEN "A" ELSE IF n = "b" THEN "B" ELSE n]
MCNameOrder == <<".t1", ".t2", "A", "a", "b", "out", "priv", "sub">>
MCTmpName == <<".t1", ".t2">>

MaxIno == 6

MCTree == (<<"a">> :> Entry("file", 1)) @@ (<<"sub">> :> Entry("dir", 0))
          @@ (<<"sub", "b">> :> Entry("file", 2))
          @@ (<<"priv">> :> [Entry("file", 3) EXCEPT !.readable = FALSE])
          @@ (<<"out">> :> Entry("outdir", 0))

MCBytes == [n \in 0 .. MaxIno |-> CASE n = 1 -> <<65, NL, 66>> [] n = 2 -> <<67, 68>>
                                    [] n = 3 -> <<69>> [] OTHER -> <<>>]

At(dirs, name) == [ok |-> TRUE, dirs |-> dirs, name |-> name]
Access(f, spec) == [Msg("access") EXCEPT !.f = f, !.spec = spec]
Control(f, rac, key) == [Msg("control") EXCEPT !.f = f, !.rac = rac, !.key = key]
Done(f) == [Msg("complete") EXCEPT !.f = f]
Data(key, bytes) == [Msg("data") EXCEPT !.key = key, !.bytes = bytes]
Attr(rfm, rat, size) == [Msg("attr") EXCEPT !.attr = [NoAttr EXCEPT
                           !.given = TRUE, !.rfm = rfm, !.rat = rat, !.size = size]]
Config == Msg("config")

Conf(b1, b2, w1, w2, n1, n2, faults, kills) ==
  [tree |-> MCTree, bytes |-> MCBytes, first |-> {<<Config>>},
   batches |-> <<b1, b2>>, writable |-> <<w1, w2>>,
   left |-> [messages |-> <<n1, n2>>, faults |-> faults, kills |-> kills]]

\* One reads while the other replaces what it reads.
Readers == {<<Access("open", At(<<>>, "*"))>>, <<Attr("var", "none", -1), Access("open", At(<<>>, "A"))>>,
            <<Control("connect", "none", -1), Control("get", "seqf", -1)>>,
            <<Control("connect", "none", -1), Control("get", "blkf", -1)>>,
            <<Control("connect", "none", -1), Control("get", "blk", 1)>>,
            <<Control("get", "blk", 2)>>, <<Done("close")>>, <<Done("eos")>>}
Writers == {<<Access("create", At(<<>>, "A")), Control("connect", "none", -1), Control("put", "none", -1)>>,
            <<Attr("var", "cr", -1), Access("create", At(<<>>, "a"))>>,
            <<Data(0, <<70, NL>>)>>, <<Done("close")>>, <<Done("purge")>>}
ReadWhileWriting == Conf(Readers, Writers, FALSE, TRUE, 3, 4, 1, 1)

\* Block mode: blocks out of order, cut to the size given, unpacked.
Blocks == {<<Attr("fix", "none", 3), Access("create", At(<<"sub">>, "a"))>>,
           <<Attr("var", "cr", -1), Access("create", At(<<"sub">>, "b"))>>,
           <<Control("connect", "none", -1), Control("put", "blk", 2)>>,
           <<Control("put", "blkf", 0)>>,
           <<Data(0, <<1, 0>>)>>, <<Data(1, <<1, 0>>)>>, <<Data(2, <<71, 72>>)>>, <<Data(0, <<>>)>>,
           <<Done("eos"), Done("close")>>, <<Access("directory", At(<<>>, ""))>>}
BlockWriter == Conf({}, Blocks, FALSE, TRUE, 0, 6, 0, 0)

\* Names: erase, rename, make and remove, one writer and then two.
Names == {<<Access("erase", At(<<>>, "*"))>>, <<Access("erase", At(<<"sub">>, ""))>>,
          <<Access("create", At(<<"A">>, ""))>>, <<Access("erase", At(<<"sub">>, "b"))>>,
          <<Access("rename", At(<<"sub">>, "B"))>>,
          <<Access("rename", At(<<>>, "A")), [Msg("name") EXCEPT !.spec = At(<<>>, "b")]>>,
          <<Access("rename", At(<<"sub">>, "b")), [Msg("name") EXCEPT !.spec = At(<<>>, "b")]>>,
          <<Access("create", At(<<>>, "A")), Done("close")>>,
          <<Access("create", At(<<"out">>, "a"))>>, <<Access("directory", At(<<>>, "out"))>>, <<Access("directory", At(<<"out">>, ""))>>,
          <<Access("directory", At(<<>>, "*"))>>, <<Access("directory", At(<<>>, ".*"))>>,
          <<Access("erase", At(<<>>, ".*"))>>,
          <<Access("submit", NoSpec)>>}
OneNamer == Conf({<<Access("open", At(<<>>, "*"))>>, <<Done("close")>>,
                  <<Control("connect", "none", -1), Control("get", "seqf", -1)>>},
                 Names, FALSE, TRUE, 3, 3, 0, 0)
TwoNamers == Conf(Names, Names, TRUE, TRUE, 2, 2, 0, 0)
MCConfs == {ReadWhileWriting, BlockWriter, OneNamer, TwoNamers}
=============================================================================
