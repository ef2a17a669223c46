------------------------------- MODULE Names --------------------------------
(***************************************************************************)
(* Node names: the node's name database (src/common/node.cc), the lists    *)
(* fetched over HTTP and their cache file (src/common/nodefetch.cc), and   *)
(* the names learned from other nodes (src/common/namelearner.cc).         *)
(*                                                                         *)
(* The database is a record and every method an operator from database to  *)
(* database.  A Nodeinfo is known by its address and gen, which tells the  *)
(* entry apart from one that took its place.  The daemon's fetch thread    *)
(* and "decnetd --fetch-nodes" are processes that share the cache file,    *)
(* whose two halves are written one after the other.                       *)
(***************************************************************************)
EXTENDS Integers, Sequences, FiniteSets, FiniteSetsExt, SequencesExt, Functions, TLC

CONSTANTS Ids,      \* node addresses
          Self,     \* this node's own
          Inodes,   \* files the disk has room for
          Confs,    \* the configurations checked
          None

VARIABLES conf,     \* configuration lines, successive lists, what others say
          server,   \* the list now served: its Last-Modified, an index
          disk,     \* directory and contents: the cache and its temporary
          proc,     \* the fetching processes
          db,       \* the node's database, None while the daemon is down
          queue,    \* lists posted to the node's thread
          learner,  \* busy_, asked_ and the queries' links
          left      \* budgets of the environment

vars == <<conf, server, disk, proc, db, queue, learner, left>>

Procs == {"daemon", "tool"}
-----------------------------------------------------------------------------
(* The database.                                                            *)
Empty == [byId |-> <<>>, byName |-> <<>>, named |-> {}, gen |-> 0]

Drop(f, x) == Restrict(f, DOMAIN f \ {x})

NameOf(d, id) == IF id \in DOMAIN d.byId THEN d.byId[id].name ELSE None

(* A new entry takes the place of one with the same address; what the index *)
(* by name says of the old one stays.                                       *)
add_node(d, id, name) ==
    LET e == [id |-> id, gen |-> d.gen + 1] IN
    [d EXCEPT !.gen = @ + 1,
              !.byId = (id :> [name |-> name, gen |-> d.gen + 1]) @@ @,
              !.byName = IF name = None THEN @ ELSE (name :> e) @@ @]

find_node(d, id) == IF id \in DOMAIN d.byId THEN d ELSE add_node(d, id, None)

set_node_name(d, id, name) ==
    LET f == find_node(d, id)
        old == f.byId[id].name
        freed == IF old = None THEN f.byName ELSE Drop(f.byName, old)
    IN  CASE id \in d.named                 -> d
          [] id \notin d.named /\ old = name -> f
          [] OTHER -> [f EXCEPT !.byId[id].name = name,
                                !.byName = (name :> [id |-> id, gen |-> f.byId[id].gen]) @@ freed]

\* Faulty variant: does not look whether another node has the name.
learn_node_nameAnyway(d, id, name) ==
    IF id = Self \/ NameOf(d, id) # None \/ name \notin conf.valid THEN d
    ELSE set_node_name(d, id, name)

(* A learned name only fills a gap.                                         *)
learn_node_name(d, id, name) ==
    IF \/ name \notin conf.valid \/ id = Self
       \/ NameOf(d, id) # None \/ name \in DOMAIN d.byName
    THEN d
    ELSE set_node_name(d, id, name)
-----------------------------------------------------------------------------
(* The disk: names lead to inodes, and a writer keeps the one it opened.    *)
Whole(k) == <<k, k>>
NoFile == <<>>

Cache == IF disk.cache = None THEN NoFile ELSE disk.data[disk.cache]

(* read_cached_validator: on the first line.                                *)
read_cached_validator == IF Cache = NoFile THEN 0 ELSE Cache[1]

InUse == {disk.cache, disk.tmp} \cup {proc[p].fd : p \in Procs}

(* The lines of the cache, each half as its writer left it.                 *)
HalfNames(h, k) ==
    CASE k = 0 -> <<>>
      [] k # 0 /\ h = 1 -> SubSeq(conf.lists[k], 1, 1)
      [] k # 0 /\ h = 2 -> Tail(conf.lists[k])

CacheNames == FlattenSeq([h \in DOMAIN Cache |-> HalfNames(h, Cache[h])])

(* Config and Node::Node: the lines in order, the cache where its line is;  *)
(* a name that is not a node name refuses the configuration.                *)
Lines ==
    FlattenSeq([i \in DOMAIN conf.lines |-> IF conf.lines[i].own THEN <<conf.lines[i]>> ELSE CacheNames])

\* Faulty variant: waits for the network to say.
LoadedWithout ==
    FoldLeft(LAMBDA d, n : IF ~n.own THEN d
                           ELSE [add_node(d, n.id, n.name) EXCEPT !.named = @ \cup {n.id}],
             Empty, Lines)

Loaded ==
    FoldLeft(LAMBDA d, n : LET a == add_node(d, n.id, n.name) IN
                           IF n.own THEN [a EXCEPT !.named = @ \cup {n.id}] ELSE a,
             Empty, Lines)

NoLearner == [busy |-> {}, fresh |-> {}, query |-> [id \in Ids |-> "none"], more |-> {}]

Boot ==
    /\ db = None /\ left.boot > 0 /\ (conf.alone => proc["tool"].pc = "off")
    /\ \A i \in DOMAIN Lines : Lines[i].name \in conf.valid
    /\ db' = Loaded
    /\ proc' = [proc EXCEPT !["daemon"].pc = "fetch"]
    /\ left' = [left EXCEPT !.boot = @ - 1]
    /\ UNCHANGED <<conf, server, disk, queue, learner>>

(* The daemon is killed, or the machine stops.                              *)
Crash ==
    /\ db # None /\ left.boot > 0
    /\ db' = None
    /\ queue' = <<>>
    /\ learner' = NoLearner
    /\ proc' = [proc EXCEPT !["daemon"] = [pc |-> "off", got |-> 0, fd |-> None]]
    /\ UNCHANGED <<conf, server, disk, left>>
-----------------------------------------------------------------------------
(* The fetch: fetch_all of the daemon's thread, and main of the tool.       *)
ServerChanges ==
    /\ server < Len(conf.lists)
    /\ server' = server + 1
    /\ UNCHANGED <<conf, disk, proc, db, queue, learner, left>>

ToolStarts ==
    /\ proc["tool"].pc = "off" /\ left.tool > 0 /\ (conf.alone => db = None)
    /\ proc' = [proc EXCEPT !["tool"].pc = "fetch"]
    /\ left' = [left EXCEPT !.tool = @ - 1]
    /\ UNCHANGED <<conf, server, disk, db, queue, learner>>

Rest(p) == IF p = "daemon" THEN "wait" ELSE "off"

FetchFails(p) ==
    /\ proc[p].pc = "fetch" /\ left.fail > 0
    /\ proc' = [proc EXCEPT ![p].pc = Rest(p)]
    /\ left' = [left EXCEPT !.fail = @ - 1]
    /\ UNCHANGED <<conf, server, disk, db, queue, learner>>

(* fetch_node_list: 304 when the validator is the list's.                   *)
Fetch(p) ==
    /\ proc[p].pc = "fetch"
    /\ proc' = [proc EXCEPT ![p].pc = IF read_cached_validator = server THEN Rest(p) ELSE "open",
                            ![p].got = server]
    /\ UNCHANGED <<conf, server, disk, db, queue, learner, left>>

\* Faulty variant: writes the cache itself.
OpenTmpInPlace(p) ==
    LET i == IF disk.cache # None THEN disk.cache ELSE Min(Inodes \ InUse) IN
    /\ proc[p].pc = "open"
    /\ disk' = [disk EXCEPT !.cache = i, !.tmp = i, !.data[i] = NoFile]
    /\ proc' = [proc EXCEPT ![p].pc = "first", ![p].fd = i]
    /\ UNCHANGED <<conf, server, db, queue, learner, left>>

(* write_node_list: the temporary is opened and emptied, written, renamed.  *)
OpenTmp(p) ==
    LET i == IF disk.tmp # None THEN disk.tmp ELSE Min(Inodes \ InUse) IN
    /\ proc[p].pc = "open"
    /\ disk' = [disk EXCEPT !.tmp = i, !.data[i] = NoFile]
    /\ proc' = [proc EXCEPT ![p].pc = "first", ![p].fd = i]
    /\ UNCHANGED <<conf, server, db, queue, learner, left>>

WriteFirst(p) ==
    /\ proc[p].pc = "first"
    /\ disk' = [disk EXCEPT !.data[proc[p].fd] =
                    IF Len(@) = 2 THEN <<proc[p].got, @[2]>> ELSE <<proc[p].got>>]
    /\ proc' = [proc EXCEPT ![p].pc = "second"]
    /\ UNCHANGED <<conf, server, db, queue, learner, left>>

(* Nought stands for the zeros of a file that another emptied meanwhile.    *)
WriteSecond(p) ==
    /\ proc[p].pc = "second"
    /\ disk' = [disk EXCEPT !.data[proc[p].fd] = <<IF @ = NoFile THEN 0 ELSE @[1], proc[p].got>>]
    /\ proc' = [proc EXCEPT ![p].pc = "rename"]
    /\ UNCHANGED <<conf, server, db, queue, learner, left>>

(* The disk is full: the temporary stays and the cache as it was.           *)
WriteFails(p) ==
    /\ proc[p].pc \in {"open", "first", "second"} /\ left.fail > 0
    /\ proc' = [proc EXCEPT ![p].pc = "post", ![p].fd = None]
    /\ left' = [left EXCEPT !.fail = @ - 1]
    /\ UNCHANGED <<conf, server, disk, db, queue, learner>>

RenameTmp(p) ==
    /\ proc[p].pc = "rename"
    /\ disk' = IF disk.tmp = None THEN disk ELSE [disk EXCEPT !.cache = disk.tmp, !.tmp = None]
    /\ proc' = [proc EXCEPT ![p].pc = "post", ![p].fd = None]
    /\ UNCHANGED <<conf, server, db, queue, learner, left>>

(* Only the daemon has a node to tell, and tells it also when the cache     *)
(* could not be written.                                                    *)
Post(p) ==
    /\ proc[p].pc = "post"
    /\ queue' = IF p = "daemon" THEN Append(queue, proc[p].got) ELSE queue
    /\ proc' = [proc EXCEPT ![p].pc = Rest(p)]
    /\ UNCHANGED <<conf, server, disk, db, learner, left>>

(* run: the refresh time has passed.                                        *)
Refresh ==
    /\ proc["daemon"].pc = "wait"
    /\ proc' = [proc EXCEPT !["daemon"].pc = "fetch"]
    /\ UNCHANGED <<conf, server, disk, db, queue, learner, left>>

Apply ==
    /\ queue # <<>>
    /\ db' = FoldLeft(LAMBDA d, n : set_node_name(d, n.id, n.name), db, conf.lists[Head(queue)])
    /\ queue' = Tail(queue)
    /\ UNCHANGED <<conf, server, disk, proc, learner, left>>
-----------------------------------------------------------------------------
(* The learner.  A query is none, called, running or closing.               *)
MayAsk(id) == id # Self /\ id \notin learner.busy /\ id \notin learner.fresh

(* ask: busy first, then the connect, which fails if NSP has no address.    *)
AskAll(L, S) ==
    [L EXCEPT !.fresh = @ \cup S, !.busy = @ \cup S,
              !.query = [id \in Ids |-> IF id \in S THEN "called" ELSE @[id]]]

Tick ==
    LET S == {id \in conf.neighbours : MayAsk(id)} IN
    /\ db # None /\ S # {} /\ left.ask > 0
    /\ \E failed \in {{}, S} :
          learner' = [AskAll(learner, S \ failed) EXCEPT !.fresh = @ \cup failed]
    /\ left' = [left EXCEPT !.ask = @ - 1]
    /\ UNCHANGED <<conf, server, disk, proc, db, queue>>

LinkRunning(id) ==
    /\ db # None /\ left.ask > 0 /\ MayAsk(id) /\ NameOf(db, id) = None
    /\ learner' = AskAll(learner, {id})
    /\ left' = [left EXCEPT !.ask = @ - 1]
    /\ UNCHANGED <<conf, server, disk, proc, db, queue>>

RefreshPasses ==
    /\ learner.fresh # {} /\ left.ask > 0
    /\ learner' = [learner EXCEPT !.fresh = {}]
    /\ UNCHANGED <<conf, server, disk, proc, db, queue, left>>

(* The connect is accepted, and the question sent.                          *)
QueryConnected(id) ==
    /\ learner.query[id] = "called"
    /\ learner' = [learner EXCEPT !.query[id] = "running"]
    /\ UNCHANGED <<conf, server, disk, proc, db, queue, left>>

(* data_received: several answers were announced, a name, or the end.       *)
ManyCome(id) ==
    /\ learner.query[id] = "running" /\ id \notin learner.more
    /\ learner' = [learner EXCEPT !.more = @ \cup {id}]
    /\ UNCHANGED <<conf, server, disk, proc, db, queue, left>>

Found(id, n) ==
    /\ learner.query[id] = "running" /\ left.found > 0
    /\ db' = learn_node_name(db, n.id, n.name)
    /\ learner' = [learner EXCEPT !.query[id] = IF id \in learner.more THEN @ ELSE "closing"]
    /\ left' = [left EXCEPT !.found = @ - 1]
    /\ UNCHANGED <<conf, server, disk, proc, queue>>

NoMore(id) ==
    /\ learner.query[id] = "running"
    /\ learner' = [learner EXCEPT !.query[id] = "closing"]
    /\ UNCHANGED <<conf, server, disk, proc, db, queue, left>>

\* Faulty variant: the node asked stays busy unless it answered.
QueryEndsOpen(id) ==
    /\ learner.query[id] # "none"
    /\ learner' = [learner EXCEPT !.query[id] = "none", !.more = @ \ {id},
                                  !.busy = IF learner.query[id] = "closing" THEN @ \ {id} ELSE @]
    /\ UNCHANGED <<conf, server, disk, proc, db, queue, left>>

(* disconnected: refused, given up, lost, or over.                          *)
QueryEnds(id) ==
    /\ learner.query[id] # "none"
    /\ learner' = [learner EXCEPT !.query[id] = "none", !.more = @ \ {id}, !.busy = @ \ {id}]
    /\ UNCHANGED <<conf, server, disk, proc, db, queue, left>>
-----------------------------------------------------------------------------
Init ==
    /\ conf \in Confs
    /\ server = 1
    /\ disk = [cache |-> None, tmp |-> None, data |-> [i \in Inodes |-> NoFile]]
    /\ proc = [p \in Procs |-> [pc |-> "off", got |-> 0, fd |-> None]]
    /\ db = None
    /\ queue = <<>>
    /\ learner = NoLearner
    /\ left = conf.left

Next ==
    \/ Boot
    \/ Crash
    \/ ServerChanges
    \/ ToolStarts
    \/ \E p \in Procs : FetchFails(p)
    \/ \E p \in Procs : Fetch(p)
    \/ \E p \in Procs : OpenTmp(p)
    \/ \E p \in Procs : WriteFirst(p)
    \/ \E p \in Procs : WriteSecond(p)
    \/ \E p \in Procs : WriteFails(p)
    \/ \E p \in Procs : RenameTmp(p)
    \/ \E p \in Procs : Post(p)
    \/ Refresh
    \/ Apply
    \/ Tick
    \/ \E id \in Ids : LinkRunning(id)
    \/ RefreshPasses
    \/ \E id \in Ids : QueryConnected(id)
    \/ \E id \in Ids : ManyCome(id)
    \/ \E id \in Ids : \E n \in conf.heard : Found(id, n)
    \/ \E id \in Ids : NoMore(id)
    \/ \E id \in Ids : QueryEnds(id)

Spec == Init /\ [][Next]_vars

Fetching(p) ==
    Fetch(p) \/ OpenTmp(p) \/ WriteFirst(p) \/ WriteSecond(p) \/ RenameTmp(p) \/ Post(p)

(* The threads run, the daemon is started again after a crash, and a link   *)
(* does not last for ever.                                                  *)
Fairness ==
    /\ WF_vars(Boot) /\ WF_vars(Refresh) /\ WF_vars(Apply)
    /\ \A p \in Procs : WF_vars(Fetching(p))
    /\ \A id \in Ids : WF_vars(QueryEnds(id))

FairSpec == Spec /\ Fairness
-----------------------------------------------------------------------------
TypeOK ==
    /\ server \in DOMAIN conf.lists
    /\ \A p \in Procs : proc[p].pc \in {"off", "fetch", "wait", "open", "first", "second", "rename", "post"}
    /\ db # None => \A id \in DOMAIN db.byId : db.byId[id].gen <= db.gen

(* A reader of the cache never sees part of a list, whenever the daemon is  *)
(* killed or the disk fills up (write_node_list).                           *)
CacheWhole == Cache = NoFile \/ \E k \in DOMAIN conf.lists : Cache = Whole(k)

(* Names found in the network fill gaps: they replace no name, and give no  *)
(* node a name that another address has (Node::learn_node_name).            *)
LearnedFillsGaps ==
    [][\A id \in Ids, n \in conf.heard : Found(id, n) =>
          \A k \in Ids : NameOf(db', k) # NameOf(db, k) =>
              /\ NameOf(db, k) = None
              /\ \A j \in Ids \ {k} : NameOf(db', j) # NameOf(db', k)]_vars

(* A node has one query at a time, which its busy_ entry stands for.        *)
BusyIsAsked == learner.busy = {id \in Ids : learner.query[id] # "none"}

(* In the end the database names every node as the list does, but for those *)
(* the configuration names (NodeFetcher::fetch_all, Node::set_node_name).   *)
Current ==
    db # None /\ \A i \in DOMAIN conf.lists[server] :
        LET n == conf.lists[server][i] IN n.id \in db.named \/ NameOf(db, n.id) = n.name

NamesArrive == <>[]Current
=============================================================================
