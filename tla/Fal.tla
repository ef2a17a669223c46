-------------------------------- MODULE Fal --------------------------------
(***************************************************************************)
(* The File Access Listener (src/src/dap/fal.cc): one process per logical  *)
(* link, all serving the same directory tree.  fs maps a path below the    *)
(* root to a directory entry, data an inode to its bytes, and ses holds    *)
(* one FalServer per link.  Several requesters use the tree at once, so a  *)
(* handler is cut wherever the code waits for a message, and between the   *)
(* system calls another process can get in between of.                     *)
(*                                                                         *)
(* A file specification is what split_spec makes of it: the directories    *)
(* and the name, "" for none, "*" for a wildcard and ".*" for one that     *)
(* asks for hidden files; ok is FALSE when it tries to leave the root.  An entry "outdir" or "outfile" is a symbolic  *)
(* link that leads out of the root.                                        *)
(***************************************************************************)
EXTENDS DapFile, FiniteSets

CONSTANTS
  Sessions,     \* the links, 1 .. n
  Upper,        \* a name in upper case
  NameOrder,    \* the names files may have, in the order a listing sorts them
  TmpName,      \* the temporary name mkstemp makes for each session, hidden
  Confs         \* what the requesters may do and the tree they find

VARIABLES
  conf,         \* the chosen configuration
  fs,           \* path -> [kind, ino, readable]
  data,         \* inode -> bytes
  ses,          \* the servers
  left          \* what the environment may still do

vars == <<conf, fs, data, ses, left>>

Paths == DOMAIN fs

is_wild(name) == name \in {"*", ".*"}
Wild(spec) == is_wild(spec.name)
Hidden(p) == \E i \in Sessions : Last(p) = TmpName[i]
NoSpec == [ok |-> FALSE, dirs |-> <<>>, name |-> ""]

\* A DAP message, as far as the listener looks at it.
Msg(t) == [t |-> t, f |-> "", spec |-> NoSpec, rac |-> "none", key |-> -1,
           bytes |-> <<>>, attr |-> NoAttr]

\* What a handler keeps between messages, and what it has done (put and got
\* are what this access moved, told the size it described, answers the
\* error status and the Access Complete that it sent).
Local == [found |-> <<>>, ino |-> 0, pos |-> 0, mode |-> "none",
          target |-> <<>>, from |-> <<>>, block |-> FALSE, vbn |-> 1,
          end |-> 0, put |-> <<>>, got |-> <<>>, told |-> [ino |-> 0, size |-> 0]]

NewServer == [pc |-> "start", attr |-> NoAttr, acc |-> Msg("none"), pending |-> <<>>,
              answers |-> <<>>, killed |-> FALSE, listed |-> {}, my |-> Local]

(* ------------------------------- the tree ------------------------------ *)

IsDir(f, p) == p = <<>> \/ (p \in DOMAIN f /\ f[p].kind \in {"dir", "outdir"})
\* Faulty variant: any path that can be named is taken to be inside.
inside_rootNamed(f, p) == p = <<>> \/ p \in DOMAIN f

inside_root(f, p) == p = <<>> \/ (p \in DOMAIN f /\ f[p].kind \in {"dir", "file"})
Entries(f, dir) == {p \in DOMAIN f : p # <<>> /\ Front(p) = dir}

\* The name of an entry that is name, or failing that the only one that is
\* name in another case; "" if there is none.
lookup(f, dir, name) ==
  LET same == {p \in Entries(f, dir) : Upper[Last(p)] = Upper[name]}
  IN  IF Append(dir, name) \in DOMAIN f THEN name
      ELSE IF Cardinality(same) = 1 THEN Last(CHOOSE p \in same : TRUE)
      ELSE ""

\* The directory the components lead to, each one looked up, or "none".
\* every says whether each step must be inside the root or only the last.
RECURSIVE Walk(_, _, _, _)
Walk(f, at, dirs, every) ==
  IF dirs = <<>> THEN IF inside_root(f, at) THEN <<at>> ELSE <<>>
  ELSE LET n == lookup(f, at, Head(dirs))
           p == Append(at, n)
       IN  IF n = "" \/ ~IsDir(f, p) \/ (every /\ ~inside_root(f, p)) THEN <<>>
           ELSE Walk(f, p, Tail(dirs), every)

Served(f, p, wantDirs) ==
  /\ inside_root(f, p)
  /\ f[p].kind = "dir" => wantDirs
  /\ f[p].readable

\* Faulty variant: "*" matches every name, as fnmatch has it.
MatchesAll(pattern, p) == pattern = ".*" => Hidden(p)

\* Hidden files only when the pattern asks for them.
Matches(pattern, p) == Hidden(p) <=> pattern = ".*"

Listed(f, dir, pattern, wantDirs) ==
  LET all == [i \in 1 .. Len(NameOrder) |-> Append(dir, NameOrder[i])]
  IN  SelectSeq(all, LAMBDA p : p \in DOMAIN f /\ Matches(pattern, p) /\ Served(f, p, wantDirs))

\* The files that match a specification; err says which error was sent.
find(f, spec, wantDirs) ==
  LET no(e) == [err |-> e, list |-> <<>>]
      at == Walk(f, <<>>, spec.dirs, TRUE)
  IN  IF ~spec.ok THEN no("fnm")
      ELSE IF at = <<>> THEN no("dnf")
      ELSE LET dir == at[1]
               g   == IF spec.name = "" THEN "*" ELSE spec.name
               n   == IF is_wild(g) THEN "" ELSE lookup(f, dir, g)
               p   == Append(dir, n)
           IN  CASE is_wild(g) -> [err |-> "", list |-> Listed(f, dir, g, wantDirs)]
                 [] n # "" /\ wantDirs /\ IsDir(f, p) ->
                      [err |-> "", list |-> Listed(f, p, "*", wantDirs)]
                 [] n # "" /\ ~(wantDirs /\ IsDir(f, p)) /\ Served(f, p, wantDirs) ->
                      [err |-> "", list |-> <<p>>]
                 [] OTHER -> no("")

\* Faulty variant: a name that differs only in case is a new file.
new_fileTwin(f, spec) ==
  LET at == Walk(f, <<>>, spec.dirs, FALSE)
  IN  IF ~spec.ok \/ spec.name = "" \/ Wild(spec) THEN [err |-> "fnm", path |-> <<>>]
      ELSE IF at = <<>> THEN [err |-> "dnf", path |-> <<>>]
      ELSE LET p == Append(at[1], spec.name)
           IN  IF p \in DOMAIN f /\ f[p].kind # "file" THEN [err |-> "fex", path |-> <<>>]
               ELSE [err |-> "", path |-> p]

\* Where a new file named by spec would go.
new_file(f, spec) ==
  LET at == Walk(f, <<>>, spec.dirs, FALSE)
  IN  IF ~spec.ok \/ spec.name = "" \/ Wild(spec) THEN [err |-> "fnm", path |-> <<>>]
      ELSE IF at = <<>> THEN [err |-> "dnf", path |-> <<>>]
      ELSE LET had == lookup(f, at[1], spec.name)
               p   == Append(at[1], IF had = "" THEN spec.name ELSE had)
           IN  IF p \in DOMAIN f /\ f[p].kind # "file" THEN [err |-> "fex", path |-> <<>>]
               ELSE [err |-> "", path |-> p]

(* ------------------------- answers and their end ----------------------- *)

(***************************************************************************)
(* w is what one handler works on: the tree, the bytes and its server.     *)
(* Every way out of a handler is Return: the locals go, and with them the  *)
(* attributes that preceded the Access.                                    *)
(***************************************************************************)
Return(w) == [w EXCEPT !.s.pc = "idle", !.s.my = Local, !.s.attr = NoAttr]

status(w, mic) == Return([w EXCEPT !.s.answers = Append(@, "status")])
Complete(w)    == Return([w EXCEPT !.s.answers = Append(@, "complete")])

\* The errors that end an access, as the code tells them apart.
OutOfSync(w)   == status(w, "sync")
Unsupported(w) == status(w, "unsupported")

(* ------------------------------ directory ------------------------------ *)

\* Nothing to list: the specification is wrong, or the one name it gives is
\* not there.
NothingFound(r, spec) == r.err # "" \/ (r.list = <<>> /\ spec.name # "" /\ ~Wild(spec))

Listing(w, spec, list) ==
  [w EXCEPT !.s.listed = {[at |-> p, entry |-> w.fs[p], by |-> spec.name] : p \in ToSet(list)}]

\* Faulty variant: an error ends the listing, as it ends the other accesses.
directoryShort(w, a) ==
  LET r == find(w.fs, a.spec, TRUE)
  IN  IF NothingFound(r, a.spec) THEN status(w, r.err)
      ELSE Complete(Listing(w, a.spec, r.list))

\* The listing ends with Access Complete, error or not.
directory(w, a) ==
  LET r == find(w.fs, a.spec, TRUE)
      v == Listing(w, a.spec, r.list)
  IN  Complete(IF NothingFound(r, a.spec) THEN [v EXCEPT !.s.answers = Append(@, "status")]
               ELSE v)

(* --------------------------------- get --------------------------------- *)

\* What describe says of the file's size; nothing if it has gone.
describe(w, p) ==
  IF p \in DOMAIN w.fs
  THEN [ino |-> w.fs[p].ino, size |-> SizeTaken(SizeTold(Len(w.data[w.fs[p].ino])))]
  ELSE [ino |-> 0, size |-> 0]

\* The next file of a wildcard open, or the end of it.
Describe(w) ==
  IF w.s.my.found = <<>> THEN Complete(w)
  ELSE [w EXCEPT !.s.pc = "getConnect", !.s.my.ino = 0, !.s.my.pos = 0,
                 !.s.my.got = <<>>, !.s.my.told = describe(w, Head(w.s.my.found))]

NextFile(w) == Describe([w EXCEPT !.s.my.found = Tail(@)])

get(w, a) ==
  LET r == find(w.fs, a.spec, FALSE)
  IN  IF w.s.attr.given /\ ~w.s.attr.bls THEN Unsupported(w)
      ELSE IF r.err # "" THEN status(w, r.err)
      ELSE IF r.list = <<>> /\ ~Wild(a.spec) THEN status(w, "fnf")
      ELSE Describe([w EXCEPT !.s.my.found = r.list])

\* Connect to read the file, or close to skip it.
GetConnect(w, m) ==
  CASE m.t = "complete" /\ m.f = "close" -> NextFile(w)
    [] m.t # "control"                   -> OutOfSync(w)
    [] m.t = "control" /\ m.f # "connect" -> Unsupported(w)
    [] OTHER                             -> [w EXCEPT !.s.pc = "getGet"]

\* One block by its VBN for a random block GET.
SendBlock(w, m) ==
  LET b == ReadBlock(w.data[w.s.my.ino], IF m.key < 0 THEN 0 ELSE m.key)
  IN  [w EXCEPT !.s.pc = "getBlk",
                !.s.my.got = IF b = <<>> THEN @ ELSE Append(@, [at |-> m.key, bytes |-> b])]

\* How the file is to be moved: whole in blocks, as lines, or as records of
\* the block's size.
Mode(w, m) ==
  CASE m.rac \in {"blk", "blkf"} -> m.rac
    [] m.rac = "seqf" /\ w.s.attr.given /\ w.s.attr.rfm \in {"var", "stm"} -> "text"
    [] OTHER -> "fix"

GetGet(w, m) ==
  LET p    == Head(w.s.my.found)
      open == [w EXCEPT !.s.my.ino = w.fs[p].ino, !.s.my.mode = Mode(w, m)]
  IN  IF m.t # "control" THEN OutOfSync(w)
      ELSE IF m.f # "get" \/ m.rac \notin {"seqf", "blkf", "blk"} THEN Unsupported(w)
      ELSE IF p \notin DOMAIN w.fs THEN status(w, "prv")
      ELSE IF w.fs[p].kind = "dir" THEN status(w, "rer")
      ELSE IF m.rac = "blk" THEN SendBlock(open, m)
      ELSE [open EXCEPT !.s.pc = "sending"]

\* The next Data message of a transfer, at the position the last one ended.
\* Lines carry CR LF unless the record attributes imply line ends.
NextPiece(content, pos, mode, implied) ==
  IF mode = "text"
  THEN LET line == LineAt(content, pos)
       IN  [bytes |-> line \o (IF implied THEN <<>> ELSE <<CR, NL>>),
            used  |-> Len(line) + 1]
  ELSE LET b == SubSeq(content, pos + 1, Min({pos + BlkSize, Len(content)}))
       IN  [bytes |-> IF mode = "fix" THEN b \o Zeros(BlkSize - Len(b)) ELSE b,
            used  |-> BlkSize]

SendPiece(w) ==
  LET n == NextPiece(w.data[w.s.my.ino], w.s.my.pos, w.s.my.mode, text(w.s.attr))
  IN  [w EXCEPT !.s.my.got = Append(@, [at |-> w.s.my.pos, bytes |-> n.bytes]),
                !.s.my.pos = @ + n.used]

AtEof(w) == w.s.my.pos >= Len(w.data[w.s.my.ino])

\* The requester closes, perhaps after saying end of stream.
GetClose(w, m) ==
  CASE m.t # "complete" -> OutOfSync(w)
    [] m.t = "complete" /\ m.f = "close" -> NextFile(w)
    [] m.t = "complete" /\ m.f = "eos" /\ w.s.pc # "getClose" ->
         [w EXCEPT !.s.pc = "getClose"]
    [] OTHER -> Unsupported(w)

GetBlk(w, m) ==
  CASE m.t = "control" /\ m.f = "get" /\ m.rac = "blk" -> SendBlock(w, m)
    [] m.t = "control" /\ ~(m.f = "get" /\ m.rac = "blk") -> Unsupported(w)
    [] OTHER -> GetClose(w, m)

(* -------------------------------- create ------------------------------- *)

Dirname(p) == Front(p)
TmpPath(i, w) == Append(Dirname(w.s.my.target), TmpName[i])
Without(f, p) == [q \in DOMAIN f \ {p} |-> f[q]]
Entry(kind, ino) == [kind |-> kind, ino |-> ino, readable |-> TRUE]

\* Inodes nothing names, has open or has described can be used again.
InUse == {fs[p].ino : p \in Paths} \cup {ses[i].my.ino : i \in Sessions}
         \cup {ses[i].my.told.ino : i \in Sessions}
FreshIno == CHOOSE n \in DOMAIN data \ InUse : n # 0

\* Faulty variant: an abandoned transfer leaves its temporary file.
abandonKept(i, w) == w

abandon(i, w) == [w EXCEPT !.fs = Without(@, TmpPath(i, w))]

\* directory_named: a directory and no file in it.
NamesDirectory(spec) == spec.ok /\ spec.name = "" /\ spec.dirs # <<>>

\* The parent must be there; the new one must not.
make_directory(w, dirs) ==
  LET at == Walk(w.fs, <<>>, Front(dirs), TRUE)
      p  == Append(at[1], Last(dirs))
  IN  IF is_wild(Last(dirs)) THEN status(w, "fnm")
      ELSE IF at = <<>> THEN status(w, "dnf")
      ELSE IF lookup(w.fs, at[1], Last(dirs)) # "" THEN status(w, "fex")
      ELSE Complete([w EXCEPT !.fs = p :> Entry("dir", 0) @@ @])

\* Only an empty one.
remove_directory(w, dirs) ==
  LET at == Walk(w.fs, <<>>, dirs, TRUE)
  IN  IF Contains(dirs, "*") THEN status(w, "fnm")
      ELSE IF at = <<>> THEN status(w, "dnf")
      ELSE IF Entries(w.fs, at[1]) # {} THEN status(w, "prv")
      ELSE Complete([w EXCEPT !.fs = Without(@, at[1])])

\* Faulty variant: the file is written under its own name.
CreateOpenInPlace(i, w, p, fails) ==
  LET ino == IF p \in DOMAIN w.fs THEN w.fs[p].ino ELSE FreshIno
  IN  IF fails THEN status(w, "prv")
      ELSE [w EXCEPT !.s.pc = "create", !.s.my.target = p, !.s.my.ino = ino,
                     !.fs = p :> Entry("file", ino)
                            @@ Append(Dirname(p), TmpName[i]) :> Entry("file", ino) @@ @,
                     !.data[ino] = <<>>]

\* Written under a temporary name, so that a transfer that fails part way
\* leaves any older file as it was.
CreateOpen(i, w, p, fails) ==
  LET ino == FreshIno
  IN  IF fails THEN status(w, "prv")
      ELSE [w EXCEPT !.s.pc = "create", !.s.my.target = p, !.s.my.ino = ino,
                     !.fs = Append(Dirname(p), TmpName[i]) :> Entry("file", ino) @@ @,
                     !.data[ino] = <<>>]

create(i, w, a, fails) ==
  LET r == new_file(w.fs, a.spec)
  IN  IF ~conf.writable[i] THEN status(w, "prv")
      ELSE IF NamesDirectory(a.spec) THEN make_directory(w, a.spec.dirs)
      ELSE IF r.err # "" THEN status(w, r.err)
      ELSE CreateOpen(i, w, r.path, fails)

\* One Data message: at its block in block mode, a line with its own line
\* ends dropped for text, and as it is otherwise.
PutData(i, w, m, fails) ==
  LET my  == w.s.my
      vbn == IF m.key > 0 THEN m.key ELSE my.vbn
      old == w.data[my.ino]
      new == IF my.block THEN WriteAt(old, (vbn - 1) * BlkSize, m.bytes)
             ELSE IF text(w.s.attr) THEN old \o StripLineEnd(m.bytes) \o <<NL>>
             ELSE old \o m.bytes
      put == [w EXCEPT !.data[my.ino] = new,
                       !.s.my.put = Append(@, [at |-> IF my.block THEN vbn ELSE 0,
                                               bytes |-> m.bytes])]
  IN  IF fails \/ (my.block /\ vbn = 0) THEN status(abandon(i, w), "wer")
      ELSE IF ~my.block THEN put
      ELSE [put EXCEPT !.s.my.vbn = vbn + (Len(m.bytes) + BlkSize - 1) \div BlkSize,
                       !.s.my.end = Max({@, (vbn - 1) * BlkSize + Len(m.bytes)})]

PutControl(i, w, m) ==
  CASE m.f = "connect" -> w
    [] m.f \notin {"connect", "put"} -> Unsupported(abandon(i, w))
    [] m.f = "put" /\ m.rac \in {"blk", "blkf"} ->
         [w EXCEPT !.s.my.block = TRUE, !.s.my.vbn = IF m.key >= 0 THEN m.key ELSE @]
    [] OTHER -> w

\* replace_file fails where a directory has taken the name meanwhile, or
\* the temporary file is not there any more.
Stored(i, w, fails) ==
  LET my  == w.s.my
      all == w.data[my.ino]
      d   == IF my.block THEN unblock(SubSeq(all, 1, my.end), w.s.attr) ELSE all
      bad == \/ fails
             \/ IsDir(w.fs, my.target) \/ TmpPath(i, w) \notin DOMAIN w.fs
             \/ my.block /\ Len(all) < my.end
  IN  IF bad THEN status(abandon(i, w), "wer")
      ELSE Complete([w EXCEPT !.data[my.ino] = d,
                              !.fs = my.target :> Entry("file", my.ino)
                                     @@ Without(@, TmpPath(i, w))])

\* Faulty variant: a purge is not answered.
PutCompleteSilent(i, w, m, fails) ==
  CASE m.f = "eos"   -> w
    [] m.f = "purge" -> Return(abandon(i, w))
    [] OTHER         -> Stored(i, w, fails)

\* End of stream is answered and the close awaited.
PutComplete(i, w, m, fails) ==
  CASE m.f = "eos"   -> w
    [] m.f = "purge" -> Complete(abandon(i, w))
    [] OTHER         -> Stored(i, w, fails)

Create(i, w, m, fails) ==
  CASE m.t = "control"  -> PutControl(i, w, m)
    [] m.t = "data"     -> PutData(i, w, m, fails)
    [] m.t = "complete" -> PutComplete(i, w, m, fails)
    [] OTHER            -> OutOfSync(abandon(i, w))

(* --------------------------- erase and rename -------------------------- *)

erase(i, w, a) ==
  LET r == find(w.fs, a.spec, FALSE)
  IN  IF ~conf.writable[i] THEN status(w, "prv")
      ELSE IF NamesDirectory(a.spec) THEN remove_directory(w, a.spec.dirs)
      ELSE IF a.spec.ok /\ a.spec.name = "" THEN status(w, "fnm")
      ELSE IF r.err # "" THEN status(w, r.err)
      ELSE IF r.list = <<>> THEN status(w, "fnf")
      ELSE [w EXCEPT !.s.pc = "erasing", !.s.my.found = r.list]

\* unlink, one file of the list; another process may have been quicker.
EraseNext(w) ==
  LET p == Head(w.s.my.found)
  IN  IF p \notin DOMAIN w.fs \/ IsDir(w.fs, p) THEN status(w, "prv")
      ELSE IF Len(w.s.my.found) = 1 THEN Complete([w EXCEPT !.fs = Without(@, p)])
      ELSE [w EXCEPT !.fs = Without(@, p), !.s.my.found = Tail(@)]

rename(i, w, a) ==
  IF ~conf.writable[i] THEN status(w, "prv")
  ELSE [w EXCEPT !.s.pc = "renameName", !.s.acc = a]

\* Faulty variant: what is at the new name is not looked at.
RenameToUnchecked(w, m) ==
  LET a == w.s.acc
      r == find(w.fs, a.spec, FALSE)
      t == new_file(w.fs, m.spec)
  IN  IF m.t # "name" THEN OutOfSync(w)
      ELSE IF Wild(a.spec) THEN status(w, "fnm")
      ELSE IF r.err # "" THEN status(w, r.err)
      ELSE IF Len(r.list) # 1 THEN status(w, "fnf")
      ELSE IF t.err # "" THEN status(w, t.err)
      ELSE [w EXCEPT !.s.pc = "renaming", !.s.my.from = r.list[1], !.s.my.target = t.path]

\* The new name follows in a Name message.
RenameTo(w, m) ==
  LET a == w.s.acc
      r == find(w.fs, a.spec, FALSE)
      t == new_file(w.fs, m.spec)
  IN  IF m.t # "name" THEN OutOfSync(w)
      ELSE IF Wild(a.spec) THEN status(w, "fnm")
      ELSE IF r.err # "" THEN status(w, r.err)
      ELSE IF Len(r.list) # 1 THEN status(w, "fnf")
      ELSE IF t.err # "" THEN status(w, t.err)
      ELSE IF t.path \in DOMAIN w.fs THEN status(w, "fex")
      ELSE [w EXCEPT !.s.pc = "renaming", !.s.my.from = r.list[1], !.s.my.target = t.path]

\* rename (2), after the check that nothing had the new name.
RenameNow(w) ==
  LET from == w.s.my.from
      to   == w.s.my.target
      bad  == \/ from \notin DOMAIN w.fs \/ IsDir(w.fs, from)
              \/ ~IsDir(w.fs, Dirname(to)) \/ IsDir(w.fs, to)
  IN  IF bad THEN status(w, "prv")
      ELSE Complete([w EXCEPT !.fs = to :> w.fs[from] @@ Without(@, from)])

(* ------------------------------ the session ---------------------------- *)

access(i, w, a, fails) ==
  LET v == [w EXCEPT !.s.answers = <<>>, !.s.acc = a]
  IN  CASE a.f = "directory" -> directory(v, a)
        [] a.f = "open"      -> get(v, a)
        [] a.f = "create"    -> create(i, v, a, fails)
        [] a.f = "erase"     -> erase(i, v, a)
        [] a.f = "rename"    -> rename(i, v, a)
        [] OTHER             -> Unsupported(v)

\* run: Configuration first, anything else ends the session; then one
\* access after another, with the attributes that came before it.
Run(i, w, m, fails) ==
  CASE w.s.pc = "start" /\ m.t = "config" -> [w EXCEPT !.s.pc = "idle"]
    [] w.s.pc = "start" /\ m.t # "config" -> [w EXCEPT !.s.pc = "gone"]
    [] w.s.pc = "idle" /\ m.t = "attr"    -> [w EXCEPT !.s.attr = m.attr]
    [] w.s.pc = "idle" /\ m.t \in {"dattim", "protection", "config"} -> w
    [] w.s.pc = "idle" /\ m.t = "access"  -> access(i, w, m, fails)
    [] OTHER -> w       \* out of sync, said so, and carried on

Handle(i, w, m, fails) ==
  CASE w.s.pc \in {"start", "idle"}        -> Run(i, w, m, fails)
    [] w.s.pc = "getConnect"               -> GetConnect(w, m)
    [] w.s.pc = "getGet"                   -> GetGet(w, m)
    [] w.s.pc = "getBlk"                   -> GetBlk(w, m)
    [] w.s.pc \in {"getDone", "getClose"}  -> GetClose(w, m)
    [] w.s.pc = "create"                   -> Create(i, w, m, fails)
    [] w.s.pc = "renameName"               -> RenameTo(w, m)

(* ------------------------------- actions ------------------------------- *)

World(i) == [fs |-> fs, data |-> data, s |-> ses[i]]
Put(i, w) == /\ fs' = w.fs
             /\ data' = w.data
             /\ ses' = [ses EXCEPT ![i] = w.s]

Waiting(i) == ses[i].pc \notin {"gone", "sending", "erasing", "renaming"}

\* next: what one session control message carries, one DAP message or
\* several; one that cannot be decoded is answered and forgotten.
Receive(i) ==
  /\ Waiting(i) /\ ses[i].pending = <<>> /\ left.messages[i] > 0
  /\ left' = [left EXCEPT !.messages[i] = @ - 1]
  /\ \E b \in IF ses[i].pc = "start" THEN conf.first
             ELSE conf.batches[i] \cup {<<>>} :
       ses' = [ses EXCEPT ![i].pending = b]
  /\ UNCHANGED <<conf, fs, data>>

Serve(i) ==
  /\ Waiting(i) /\ ses[i].pending # <<>>
  /\ \E fails \in BOOLEAN :
       /\ fails => left.faults > 0
       /\ left' = [left EXCEPT !.faults = @ - IF fails THEN 1 ELSE 0]
       /\ Put(i, Handle(i, [World(i) EXCEPT !.s.pending = Tail(@)],
                        Head(ses[i].pending), fails))
  /\ UNCHANGED conf

Send(i) ==
  /\ ses[i].pc = "sending" /\ ~AtEof(World(i))
  /\ Put(i, SendPiece(World(i)))
  /\ UNCHANGED <<conf, left>>

SendEof(i) ==
  /\ ses[i].pc = "sending" /\ AtEof(World(i))
  /\ Put(i, [World(i) EXCEPT !.s.pc = "getDone"])
  /\ UNCHANGED <<conf, left>>

ReadError(i) ==
  /\ ses[i].pc = "sending" /\ left.faults > 0
  /\ left' = [left EXCEPT !.faults = @ - 1]
  /\ Put(i, status(World(i), "rer"))
  /\ UNCHANGED conf

Unlink(i) ==
  /\ ses[i].pc = "erasing"
  /\ Put(i, EraseNext(World(i)))
  /\ UNCHANGED <<conf, left>>

Rename(i) ==
  /\ ses[i].pc = "renaming"
  /\ Put(i, RenameNow(World(i)))
  /\ UNCHANGED <<conf, left>>

\* The link is gone: what was received before is handled first, and a
\* transfer under way is abandoned.
LinkGone(i) ==
  /\ Waiting(i) /\ ses[i].pending = <<>>
  /\ LET w == World(i)
         v == IF w.s.pc = "create" THEN abandon(i, w) ELSE w
     IN  Put(i, [v EXCEPT !.s.pc = "gone", !.s.my = Local])
  /\ UNCHANGED <<conf, left>>

\* decnetd kills the process: nothing is cleaned up.
Kill(i) ==
  /\ ses[i].pc # "gone" /\ left.kills > 0
  /\ left' = [left EXCEPT !.kills = @ - 1]
  /\ Put(i, [World(i) EXCEPT !.s.pc = "gone", !.s.killed = TRUE, !.s.my = Local])
  /\ UNCHANGED conf

Init ==
  /\ conf \in Confs
  /\ fs = conf.tree
  /\ data = conf.bytes
  /\ ses = [i \in Sessions |-> NewServer]
  /\ left = conf.left

Next ==
  \/ \E i \in Sessions : Receive(i)
  \/ \E i \in Sessions : Serve(i)
  \/ \E i \in Sessions : Send(i)
  \/ \E i \in Sessions : SendEof(i)
  \/ \E i \in Sessions : ReadError(i)
  \/ \E i \in Sessions : Unlink(i)
  \/ \E i \in Sessions : Rename(i)
  \/ \E i \in Sessions : LinkGone(i)
  \/ \E i \in Sessions : Kill(i)

Spec == Init /\ [][Next]_vars

(* ------------------------------ properties ----------------------------- *)

Bytes(f, d, p) == d[f[p].ino]
OneWriter == Cardinality({i \in Sessions : conf.writable[i]}) <= 1

TypeOK ==
  /\ \A p \in Paths : /\ fs[p].kind \in {"file", "dir", "outfile", "outdir"}
                      /\ fs[p].ino \in DOMAIN data
  /\ \A n \in DOMAIN data : \A k \in 1 .. Len(data[n]) : data[n][k] \in 0 .. 255
  /\ \A i \in Sessions :
       /\ ses[i].pc \in {"start", "idle", "getConnect", "getGet", "getBlk", "sending",
                         "getDone", "getClose", "create", "renameName", "renaming",
                         "erasing", "gone"}
       /\ ses[i].my.ino \in DOMAIN data
       /\ ToSet(ses[i].answers) \subseteq {"status", "complete"}

\* All the pieces of a transfer were put the same way.
OneMode(my) == \A k \in 1 .. Len(my.put) : my.block <=> my.put[k].at # 0

\* What a requester that put these pieces means the file to hold: each byte
\* the last one written there in block mode, one line a record for text.
Meant(my, attr) ==
  LET n     == Len(my.put)
      at(k) == (my.put[k].at - 1) * BlkSize
      ends  == {at(k) + Len(my.put[k].bytes) : k \in 1 .. n}
      on(b) == {k \in 1 .. n : b > at(k) /\ b <= at(k) + Len(my.put[k].bytes)}
      image == [b \in 1 .. Max(ends \cup {0}) |->
                  IF on(b) = {} THEN 0 ELSE my.put[Max(on(b))].bytes[b - at(Max(on(b)))]]
      line(r) == SelectSeq(r, LAMBDA c : c \notin {NL, CR}) \o <<NL>>
  IN  IF my.block THEN unblock(image, attr)
      ELSE FlattenSeq([k \in 1 .. n |-> IF text(attr) THEN line(my.put[k].bytes)
                                        ELSE my.put[k].bytes])

\* "A file being written is renamed into place only when the transfer
\* completes" (README.md): whatever the requesters do, however a transfer
\* ends, a name that can be seen changes only when a create is closed, to
\* all of what its requester sent, or when a file is renamed to it whole.
OnlyWholeFilesAppear ==
  [][\A p \in DOMAIN fs' :
       (/\ ~Hidden(p) /\ fs'[p].kind = "file"
        /\ p \notin Paths \/ Bytes(fs', data', p) # Bytes(fs, data, p))
       => \E i \in Sessions :
            /\ ses[i].my.target = p /\ ses'[i].pc = "idle"
            /\ \/ /\ ses[i].pc = "create"
                  /\ OneMode(ses[i].my) =>
                       Bytes(fs', data', p) = Meant(ses[i].my, ses[i].attr)
               \/ /\ ses[i].pc = "renaming"
                  /\ Bytes(fs', data', p) = Bytes(fs, data, ses[i].my.from)]_vars

\* What the pieces a get has sent amount to, as bytes of the file.
Sent(s) ==
  FlattenSeq([k \in 1 .. Len(s.my.got) |->
                IF s.my.mode = "text"
                THEN (IF text(s.attr) THEN s.my.got[k].bytes
                      ELSE SubSeq(s.my.got[k].bytes, 1, Len(s.my.got[k].bytes) - 2)) \o <<NL>>
                ELSE s.my.got[k].bytes])

\* A reader is sent one version of the file, in order and to its end, while
\* other requesters replace, rename or erase it: at end of file it has
\* every byte, but for the newline a last line lacks or the fill of a last
\* record; and the size described is that of the file if it is still the
\* one described.
ReaderSeesOneVersion ==
  \A i \in Sessions :
    LET s == ses[i]
        d == data[s.my.ino]
    IN  /\ s.pc \in {"getDone", "getClose"} /\ s.my.mode \in {"text", "fix", "blkf"} =>
             /\ IsPrefix(d, Sent(s))
             /\ Len(Sent(s)) - Len(d) < (IF s.my.mode = "fix" THEN BlkSize ELSE 2)
             /\ s.my.mode = "blkf" => Sent(s) = d
        /\ \A k \in 1 .. Len(s.my.got) :
             s.my.mode = "blk" => s.my.got[k].bytes = ReadBlock(d, s.my.got[k].at)
        /\ s.my.ino # 0 /\ s.my.told.ino = s.my.ino => s.my.told.size = Len(d)

\* A transfer that ends any way but by the process being killed leaves no
\* temporary file behind (create's abandon and the rename at close).
NoTemporaryLeft ==
  \A i \in Sessions : ses[i].pc # "create" /\ ~ses[i].killed =>
                         \A p \in Paths : Last(p) # TmpName[i]

\* "Nothing outside the root is reachable, through ".." or through a
\* symbolic link" (fal.h), and what cannot be read is not seen: this holds
\* of what is listed, opened, written and renamed.  A file still being
\* written, which has a hidden name, is seen only by who asks for hidden
\* files (find).
OnlyTheTreeIsServed ==
  \A i \in Sessions :
    LET s == ses[i] IN
    /\ \A l \in s.listed : /\ l.entry.readable /\ l.entry.kind \in {"file", "dir"}
                           /\ Hidden(l.at) => l.by = ".*"
    /\ \A k \in 1 .. Len(s.my.found) : Hidden(s.my.found[k]) => s.acc.spec.name = ".*"
    /\ \A d \in Paths : s.my.target # <<>> /\ d = Front(s.my.target) => fs[d].kind = "dir"
    /\ s.my.ino # 0 => \A p \in Paths : fs[p].ino = s.my.ino => fs[p].readable

\* What may end an access: one completion or one error status, but always a
\* completion for a directory listing, after an error too.
Endings(f) ==
  IF f = "directory" THEN {<<"complete">>, <<"status", "complete">>}
  ELSE {<<"complete">>, <<"status">>}

\* Every access is ended once, as its function has it, whatever the
\* requester sends in the middle of it, and not before it is over
\* (FalServer::access and the functions it calls).
AnsweredOnce ==
  \A i \in Sessions :
    LET s == ses[i] IN
    s.pc # "gone" => IF s.pc = "idle" /\ s.acc.t = "access" THEN s.answers \in Endings(s.acc.f)
                     ELSE s.answers = <<>>

\* "Replace a file that differs only in case rather than make a twin."
\* (new_file): with one requester that may write, no directory gets two
\* entries that differ only in case.
NoTwinsOneWriter ==
  OneWriter => \A p, q \in Paths : p # q /\ Front(p) = Front(q) => Upper[Last(p)] # Upper[Last(q)]

\* "Renaming onto an existing file is refused." (tests/test_fal.cc): with
\* one requester that may write, nothing has the new name when rename is
\* called.
RenameKeepsOthers ==
  OneWriter => \A i \in Sessions : ses[i].pc = "renaming" => ses[i].my.target \notin Paths
=============================================================================
