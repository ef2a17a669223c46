---------------------------- MODULE EventLogger ----------------------------
(***************************************************************************)
(* The event logger of src/events/logger.cc: event lists and filters, the  *)
(* local file sink, the remote sink with its queue and its logical link,   *)
(* and the receiver (object 26) at the far end.                            *)
(*                                                                         *)
(* Everything runs on the node's thread and synchronously: sending a       *)
(* record, or the connect message, goes down through NSP to routing, and   *)
(* routing logs an event of its own when the far node is unreachable,      *)
(* before the first call has returned.  The node is a record, every method *)
(* an operator from node to node, and that recursion is the operators'.    *)
(*                                                                         *)
(* An event is its identifier <<class, code>> and no, the how manieth of   *)
(* those the remote sink's filters chose.                                  *)
(***************************************************************************)
EXTENDS Integers, Sequences, FiniteSets, FiniteSetsExt, SequencesExt

CONSTANTS QueueLimit,   \* queue_limit, records the remote sink holds: 50
          Links,        \* the link addresses NSP has to give
          Window,       \* segments NSP lets out before an acknowledgement
          Catalogue,    \* known_events, as identifiers
          Confs,        \* the configurations checked
          None

VARIABLES conf,   \* the configuration: the event lists at both ends
          node,   \* the node: its sinks and its links
          far,    \* what reached the far node, and what its sinks took
          left    \* budgets of the environment

vars == <<conf, node, far, left>>

SinkTypes == {"console", "file", "monitor"}
Lost == <<0, 0>>
Unreachable == <<4, 1>>
-----------------------------------------------------------------------------
(* parse_events: an entry may name a class, which holds for the entries     *)
(* after it, and a code, a range or all codes.                              *)
filterable_events == {id \in Catalogue : id[1] < 31 \/ id[1] >= 480}

Entry(cls, lo, hi) == [cls |-> cls, lo |-> lo, hi |-> hi]

EventRange(cls, e) == {<<cls, c>> : c \in e.lo .. (IF e.hi = None THEN e.lo ELSE e.hi)}

\* Faulty variant: the class holds for its own entry only.
ParseEntryAlone(got, e) ==
    [cls |-> 0, ids |-> got.ids \cup EventRange(IF e.cls = None THEN 0 ELSE e.cls, e)]

ParseEntry(got, e) ==
    LET cls == IF e.cls = None THEN got.cls ELSE e.cls IN
    [cls |-> cls, ids |-> got.ids \cup EventRange(cls, e)]

parse_events(list) == FoldLeft(ParseEntry, [cls |-> None, ids |-> {}], list).ids

set_filter(ids) == ids \cap filterable_events

(* The list that names every event.                                        *)
All == <<Entry(None, None, None)>>

(* The constructor: what one line of the configuration makes of a filter.   *)
Filter(list) == IF list = All THEN filterable_events ELSE set_filter(parse_events(list))
-----------------------------------------------------------------------------
NoLink == [st |-> "free", given |-> <<>>]

NewNode ==
    [queue |-> <<>>, conn |-> None, connecting |-> FALSE, sending |-> FALSE,
     stopped |-> FALSE, known |-> TRUE, timer |-> FALSE,
     file |-> <<>>, open |-> TRUE,
     link |-> [l \in Links |-> NoLink], route |-> TRUE,
     \* history: how many events the filters chose, the records that went
     \* down with a link, and for a record that found the queue full the
     \* one that told of it
     no |-> 0, drowned |-> {}, told |-> <<>>]

Free(n) == {l \in Links : n.link[l].st = "free"}

sinkmask(id) == {t \in SinkTypes : id \in Filter(conf.remote[t])}

RECURSIVE logevent(_, _), send_events(_), Drain(_)

(* NSP hands a frame to routing, which says so if there is no way there.    *)
Transmit(n) == IF n.route THEN n ELSE logevent(n, Unreachable)

(* Connection::send_data: only what the window lets out goes at once.       *)
SendData(n, l, e) ==
    LET m == [n EXCEPT !.link[l].given = Append(@, e)] IN
    IF Len(m.link[l].given) <= Window THEN Transmit(m) ELSE m

Drain(n) ==
    IF n.queue = <<>> \/ n.conn = None THEN n
    ELSE Drain(SendData([n EXCEPT !.queue = Tail(@)], n.conn, Head(n.queue)))

\* Faulty variant: forgets that a connect is under way.
OpenLinkForgets(n) ==
    IF Free(n) = {} THEN [n EXCEPT !.timer = TRUE]
    ELSE LET l == Min(Free(n)) IN Transmit([n EXCEPT !.link[l].st = "ci"])

(* Session::connect, through NSP::connect: the connect message is sent, and *)
(* what that raises has come back, before connecting_ is set.               *)
OpenLink(n) ==
    IF Free(n) = {} THEN [n EXCEPT !.timer = TRUE]
    ELSE LET l == Min(Free(n)) IN [Transmit([n EXCEPT !.link[l].st = "ci"]) EXCEPT !.connecting = TRUE]

send_events(n) ==
    CASE n.stopped                           -> n
      [] ~n.stopped /\ n.conn # None         ->
            IF n.sending THEN n ELSE [Drain([n EXCEPT !.sending = TRUE]) EXCEPT !.sending = FALSE]
      [] ~n.stopped /\ n.conn = None         ->
            IF n.connecting \/ ~n.known THEN n
            ELSE IF ~conf.known THEN [n EXCEPT !.known = FALSE]
            ELSE OpenLink(n)

LostRecord(e) == [id |-> Lost, no |-> e.no, to |-> SinkTypes]

\* Faulty variant: a full queue drops its oldest record.
OverflowOldest(n, e) == [n EXCEPT !.queue = Append(Tail(@), e)]

\* Faulty variant: the record that tells of the loss is one more.
OverflowPush(n, e) ==
    IF Last(n.queue).id = Lost THEN n ELSE [n EXCEPT !.queue = Append(@, LostRecord(e))]

(* A full queue: the newest record becomes "events lost", once.             *)
Overflow(n, e) ==
    LET m == [n EXCEPT !.told = (e.no :> Last(n.queue).no) @@ @] IN
    IF Last(n.queue).id = Lost THEN m
    ELSE [m EXCEPT !.queue = Append(Front(@), LostRecord(Last(@)))]

RemoteSink_writeevent(n, id, mask) ==
    LET e == [id |-> id, no |-> n.no + 1, to |-> mask]
        m == [n EXCEPT !.no = @ + 1]
    IN  IF Len(n.queue) >= QueueLimit THEN Overflow(m, e)
        ELSE send_events([m EXCEPT !.queue = Append(@, e)])

LocalFile_writeevent(n, id) == IF n.open THEN [n EXCEPT !.file = Append(@, id)] ELSE n

SinkLog(n, s, id) ==
    CASE s = "local"  -> IF id \in Filter(conf.file) THEN LocalFile_writeevent(n, id) ELSE n
      [] s = "remote" -> IF sinkmask(id) # {} THEN RemoteSink_writeevent(n, id, sinkmask(id)) ELSE n

logevent(n, id) == FoldLeft(LAMBDA m, s : SinkLog(m, s, id), n, conf.sinks)
-----------------------------------------------------------------------------
(* What the connection's application tells the sink.                        *)
link_up(n, l) == send_events([n EXCEPT !.conn = l, !.connecting = FALSE])

\* Faulty variant: waits for the next event to try again.
link_downUntimed(n) == [n EXCEPT !.conn = None, !.connecting = FALSE]

link_down(n) == [n EXCEPT !.conn = None, !.connecting = FALSE, !.timer = @ \/ ~n.stopped]

(* RemoteSink::stop; disconnecting sends a message, which may raise events. *)
stop(n) ==
    LET s == [n EXCEPT !.stopped = TRUE]
        d == IF s.conn = None THEN s ELSE Transmit(s)
    IN  [d EXCEPT !.conn = None, !.connecting = FALSE, !.timer = FALSE]

(* Node::stop_layers, as far as the sinks see it: remote sinks, then        *)
(* session control and NSP with every link, then every sink.                *)
StopLayers(n) ==
    LET r == stop(n) IN [stop([r EXCEPT !.link = [l \in Links |-> NoLink]]) EXCEPT !.open = FALSE]

(* logremoteevent: the sinks the record asks for, each with its own filter. *)
logremoteevent(f, e) ==
    [f EXCEPT !.rcvd = Append(@, e),
              !.shown = [t \in SinkTypes |-> IF t \in e.to /\ e.id \in Filter(conf.far[t])
                                             THEN Append(@[t], e) ELSE @[t]]]
-----------------------------------------------------------------------------
Log(id) ==
    /\ left.log > 0 /\ ~node.stopped
    /\ node' = logevent(node, id)
    /\ left' = [left EXCEPT !.log = @ - 1]
    /\ UNCHANGED <<conf, far>>

(* The far session accepts, whose receiver takes everybody.                 *)
Accepted(l) ==
    /\ node.link[l].st = "ci" /\ node.route
    /\ node' = link_up([node EXCEPT !.link[l].st = "run"], l)
    /\ UNCHANGED <<conf, far, left>>

(* A record arrives and is acknowledged, which may let the next one out.    *)
Deliver(l) ==
    LET given == node.link[l].given
        acked == [node EXCEPT !.link[l].given = Tail(@)]
    IN  /\ node.link[l].st = "run" /\ node.route /\ given # <<>>
        /\ far' = logremoteevent(far, Head(given))
        /\ node' = IF Len(given) > Window THEN Transmit(acked) ELSE acked
        /\ UNCHANGED <<conf, left>>

(* NSP sends again what was not acknowledged.                               *)
Retransmit(l) ==
    /\ left.again > 0 /\ ~node.route /\ ~node.stopped
    /\ node.link[l].st = "ci" \/ node.link[l].given # <<>>
    /\ node' = Transmit(node)
    /\ left' = [left EXCEPT !.again = @ - 1]
    /\ UNCHANGED <<conf, far>>

(* The far end refuses or disconnects, or NSP gives up.                     *)
Ends(l) ==
    LET n == [node EXCEPT !.drowned = @ \cup {e.no : e \in ToSet(node.link[l].given)},
                          !.link[l] = NoLink]
    IN  /\ left.ends > 0 /\ node.link[l].st # "free"
        /\ node' = link_down(n)
        /\ left' = [left EXCEPT !.ends = @ - 1]
        /\ UNCHANGED <<conf, far>>

RetryTimeout ==
    /\ node.timer
    /\ node' = send_events([node EXCEPT !.timer = FALSE])
    /\ UNCHANGED <<conf, far, left>>

RouteChanges ==
    /\ left.route > 0 /\ (conf.steady => node.conn # None)
    /\ node' = [node EXCEPT !.route = ~@]
    /\ left' = [left EXCEPT !.route = @ - 1]
    /\ UNCHANGED <<conf, far>>

Stop ==
    /\ ~node.stopped /\ left.stop
    /\ node' = StopLayers(node)
    /\ left' = [left EXCEPT !.stop = FALSE]
    /\ UNCHANGED <<conf, far>>
-----------------------------------------------------------------------------
Init ==
    /\ conf \in Confs
    /\ node = NewNode
    /\ far = [rcvd |-> <<>>, shown |-> [t \in SinkTypes |-> <<>>]]
    /\ left = conf.left

Next ==
    \/ \E id \in conf.raised : Log(id)
    \/ \E l \in Links : Accepted(l)
    \/ \E l \in Links : Deliver(l)
    \/ \E l \in Links : Retransmit(l)
    \/ \E l \in Links : Ends(l)
    \/ RetryTimeout
    \/ RouteChanges
    \/ Stop

Spec == Init /\ [][Next]_vars

(* The node's timers run out and NSP keeps sending; the way to the far node *)
(* is there in the end.                                                     *)
Fairness ==
    /\ \A l \in Links : WF_vars(Accepted(l)) /\ WF_vars(Deliver(l))
    /\ WF_vars(RetryTimeout)
    /\ <>[]node.route

FairSpec == Spec /\ Fairness
-----------------------------------------------------------------------------
Given(n) == IF n.conn = None THEN <<>> ELSE n.link[n.conn].given

(* Everything that left the filters, in the order the far end sees it.      *)
Stream == far.rcvd \o Given(node) \o node.queue

TypeOK ==
    /\ Len(node.queue) <= QueueLimit
    /\ node.conn \in Links \cup {None}
    /\ ~node.sending
    /\ \A l \in Links : node.link[l].st \in {"free", "ci", "run"}
    /\ \A e \in ToSet(Stream) : e.id \in Catalogue /\ e.to \subseteq SinkTypes /\ e.to # {}

(* Records reach the far end in the order they were logged and none of them *)
(* twice, and where one is missing the record before the hole is "events    *)
(* lost" (RemoteSink::writeevent), or its link took it down.                *)
HolesMarked ==
    LET s == Stream
        Excused(k) == k \in node.drowned \/ (k \in DOMAIN node.told /\ node.told[k] \in node.drowned)
        Missing(a, b) == {k \in a + 1 .. b - 1 : ~Excused(k)}
    IN  ~node.stopped =>
        /\ \A i \in 1 .. Len(s) - 1 :
              s[i].no < s[i + 1].no /\ (s[i].id = Lost \/ Missing(s[i].no, s[i + 1].no) = {})
        /\ s = <<>> => Missing(0, node.no + 1) = {}
        /\ s # <<>> => /\ Missing(0, s[1].no) = {}
                       /\ Last(s).id = Lost \/ Missing(Last(s).no, node.no + 1) = {}

(* A record is marked for the far sinks whose event list, as the operator   *)
(* wrote it, names the event (parse_events, RemoteSink::sinkmask).          *)
FiltersAsWritten ==
    \A e \in ToSet(Stream) :
        e.id # Lost => e.to = {t \in SinkTypes : e.id \in conf.meant[t]}

(* One logical link at most is open or being opened for a sink: connects    *)
(* are retried every conn_retry seconds, not while one is under way.        *)
OneLink == Cardinality({l \in Links : node.link[l].st # "free"}) <= 1

(* A sink of the far node shows, in order, the events that were meant for   *)
(* it here and that its own list there names: unlike the comment in         *)
(* logremoteevent has it, the far node filters again.                       *)
ShownAsMeant ==
    \A t \in SinkTypes :
        far.shown[t] = SelectSeq(far.rcvd, LAMBDA e :
            /\ e.id \in Filter(conf.far[t])
            /\ IF e.id = Lost THEN t \in e.to ELSE e.id \in conf.meant[t])

(* What waits in the queue is sent in the end, however often the link was   *)
(* refused or lost (RemoteSink::link_down, timeout).                        *)
QueueDrains == (node.queue # <<>>) ~> (node.queue = <<>> \/ node.stopped \/ ~node.known)
=============================================================================
