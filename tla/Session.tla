------------------------------ MODULE Session ------------------------------
(***************************************************************************)
(* Session control (src/session/session.cc), the applications it runs -    *)
(* the object programs of src/session/process.cc, the built in objects,    *)
(* the conversations of API clients - and the node thread's half of the    *)
(* API server (src/api/server.cc).  What the node thread owns is one       *)
(* record n, and every method an operator from record to record.           *)
(*                                                                         *)
(* NSP is here only for what it does to a conversation: the state of its   *)
(* connection, when it calls session control, and when it frees the        *)
(* connection.  A connection object that has been freed is not made anew:  *)
(* a call of it marks it "misused", and what the program does after that   *)
(* is open.  Payloads and access control fields are left out.              *)
(***************************************************************************)
EXTENDS Integers, Sequences, FiniteSets, FiniteSetsExt, SequencesExt

CONSTANTS Links,        \* the connection objects NSP can make, numbered
          Clients,      \* API clients
          MaxHandle,    \* no client can come to be given more handles
          MaxQueued     \* MAX_QUEUED, in messages

Handles == 1 .. MaxHandle

App(kind, client, h, listen) == [kind |-> kind, client |-> client, h |-> h, listen |-> listen]
Nobody == App("none", 0, 0, 0)

(* A client as it connects, and a program that was never run.               *)
NewClient ==
    [gone |-> FALSE, holding |-> FALSE, held |-> <<>>, next |-> 1, conns |-> <<>>, binds |-> <<>>]
NoProgram ==
    [st |-> "none", stdin |-> FALSE, out |-> FALSE, err |-> FALSE, stopping |-> FALSE,
     conn |-> FALSE, to |-> <<>>]

NewNode(objects) ==
    [link |-> [l \in Links |-> "unborn"], oldLink |-> {},
     objects |-> objects, app |-> [l \in Links |-> Nobody],
     live |-> {}, finished |-> {}, oldFinished |-> {},
     client |-> [c \in Clients |-> NewClient],
     outq |-> [c \in Clients |-> <<>>], closing |-> [c \in Clients |-> FALSE],
     prog |-> [l \in Links |-> NoProgram], join |-> 0,
     \* history: the connections that were rejected; what each client was told
     \* of each of its handles, and that it left it
     refused |-> {},
     said |-> [c \in Clients |-> [h \in Handles |-> <<>>]]]

Drop(f, x) == [y \in DOMAIN f \ {x} |-> f[y]]
-----------------------------------------------------------------------------
(* NSP: the calls of Connection that session control makes, close, and the  *)
(* sweep of connections that were closed a grace period ago.                *)
SweepClosed(n) ==
    [n EXCEPT !.link = [l \in Links |-> IF l \in n.oldLink THEN "freed" ELSE @[l]],
              !.oldLink = {}]

\* Closing a connection a second time may sweep that very connection.
CloseConnection(n, l) ==
    [SweepClosed(n) EXCEPT !.link[l] = IF @ = "freed" THEN "misused" ELSE "cl"]

(* A call of a connection, with k for its effect.                           *)
Call(n, l, k) ==
    IF n.link[l] \in {"freed", "misused"} THEN [n EXCEPT !.link[l] = "misused"] ELSE k

Accept(n, l) == Call(n, l, [n EXCEPT !.link[l] = IF @ = "cr" THEN "cc" ELSE @])

Reject(n, l) == Call(n, l, [CloseConnection(n, l) EXCEPT !.refused = @ \cup {l}])

Disconnect(n, l) == Call(n, l, [n EXCEPT !.link[l] = IF @ = "cl" THEN @ ELSE "di"])

\* send_data: what is sent is left out.
SendData(n, l) == Call(n, l, n)

Unborn(n) == {l \in Links : n.link[l] = "unborn"}
-----------------------------------------------------------------------------
(* Objects.  The table is searched by number or by name.                    *)
Object(num, name, app) == [num |-> num, name |-> name, app |-> app]

MayAdd(n, num, name) ==
    /\ num # 0 \/ name # ""
    /\ \A o \in n.objects : (num # 0 => o.num # num) /\ (name # "" => o.name # name)

AddObject(n, num, name, app) == [n EXCEPT !.objects = @ \cup {Object(num, name, app)}]

\* Faulty variant: takes every object with the number, which may be none.
RemoveObjectNumber(n, num, name) == [n EXCEPT !.objects = {o \in @ : o.num # num}]

RemoveObject(n, num, name) ==
    [n EXCEPT !.objects = {o \in @ : o.num # num \/ o.name # name}]

(* The objects that are there unless the configuration claims them.         *)
Builtin == App("builtin", 0, 0, 0)
Defaults ==
    <<Object(25, "MIRROR", Builtin), Object(0, "TIMESTAMP", Builtin),
      Object(26, "EVENTLOGGER", Builtin), Object(19, "NML", Builtin)>>

AddDefaultObjects(n) ==
    FoldLeft(LAMBDA s, o : IF MayAdd(s, o.num, o.name) THEN AddObject(s, o.num, o.name, o.app) ELSE s,
             n, Defaults)

(* The built in objects take every connect; what they answer to a message   *)
(* changes nothing here.                                                    *)
BuiltinConnected(n, l) == Accept(n, l)

(* A connect asks by number if it gives one, else by name.                  *)
Asked(n, dst) ==
    {o \in n.objects : IF dst.num # 0 THEN o.num = dst.num
                       ELSE dst.name # "" /\ o.name = dst.name}
-----------------------------------------------------------------------------
(* The API client.  A message says what happened to a handle.               *)
Msg(type, h) == [type |-> type, h |-> h]

\* Faulty variant: the queue has no limit.
SendUnbounded(n, c, m) == [n EXCEPT !.outq[c] = Append(@, m)]

Send(n, c, m) ==
    IF n.closing[c] THEN n
    ELSE IF Len(n.outq[c]) = MaxQueued THEN [n EXCEPT !.closing[c] = TRUE]
    ELSE [n EXCEPT !.outq[c] = Append(@, m),
                   !.said[c] = IF m.h = 0 THEN @ ELSE [@ EXCEPT ![m.h] = Append(@, m.type)]]

(* send_session: while a request is handled its reply goes first.           *)
SendSession(n, c, m) ==
    IF n.client[c].holding THEN [n EXCEPT !.client[c].held = Append(@, m)] ELSE Send(n, c, m)

Known(n, c, h) == h \in DOMAIN n.client[c].conns

Conn(l, outbound) == [l |-> l, outbound |-> outbound, confirmed |-> FALSE]

AddInbound(n, l) ==
    LET a == n.app[l]
        c == a.client
        h == n.client[c].next
        told == SendSession(n, c, Msg("connect", h))
    IN  [told EXCEPT !.app[l].h = h, !.client[c].next = h + 1,
                     !.client[c].conns = (h :> Conn(l, FALSE)) @@ @]

(* ApiApplication: events go to the client while it still has the handle.   *)
Tell(n, l, type) ==
    LET a == n.app[l] IN
    IF Known(n, a.client, a.h) THEN SendSession(n, a.client, Msg(type, a.h)) ELSE n

ApiConnected(n, l) ==
    LET a == n.app[l] IN
    IF a.listen # 0
    THEN IF n.client[a.client].gone THEN Reject(n, l) ELSE AddInbound(n, l)
    ELSE IF ~Known(n, a.client, a.h) THEN n
    ELSE Tell([n EXCEPT !.client[a.client].conns[a.h].confirmed = TRUE], l, "accept")

\* Faulty variant: keeps the handle of a link that is gone.
ApiDisconnectedKept(n, l) ==
    LET a == n.app[l] IN Tell(n, l, IF a.listen = 0 THEN "reject" ELSE "disconnect")

\* Faulty variant: tells a client that gave the handle up.
ApiDisconnectedAnyway(n, l) ==
    LET a == n.app[l] IN
    [SendSession(n, a.client, Msg("disconnect", a.h)) EXCEPT !.client[a.client].conns = Drop(@, a.h)]

ApiDisconnected(n, l) ==
    LET a == n.app[l]
        conns == n.client[a.client].conns
        rejected == a.listen = 0 /\ ~conns[a.h].confirmed
    IN  IF ~Known(n, a.client, a.h) THEN n
        ELSE [Tell(n, l, IF rejected THEN "reject" ELSE "disconnect")
                EXCEPT !.client[a.client].conns = Drop(@, a.h)]
-----------------------------------------------------------------------------
(* ProcessApplication: a program, its standard input and the threads that   *)
(* read its output and its log.                                             *)
ProgramSend(n, l, type) ==
    IF n.prog[l].stdin THEN [n EXCEPT !.prog[l].to = Append(@, type)] ELSE n

Spawn(n, l) ==
    [n EXCEPT !.prog[l] = [NoProgram EXCEPT !.st = "running", !.stdin = TRUE, !.out = TRUE,
                                            !.err = TRUE, !.conn = TRUE]]

(* connect_received: the program runs, or the connect is rejected.          *)
ProgramConnected(n, l, ok) ==
    IF ok THEN ProgramSend(Spawn(n, l), l, "connect")
    ELSE Reject([n EXCEPT !.prog[l].conn = TRUE], l)

\* Faulty variant: leaves the program's input open.
ShutdownOpen(n, l) == [n EXCEPT !.prog[l].stopping = TRUE, !.join = l]

(* shutdown, up to its join of the two reader threads: the node thread      *)
(* waits there, and Joined is the rest.                                     *)
Shutdown(n, l) ==
    [n EXCEPT !.prog[l].stopping = TRUE, !.prog[l].stdin = FALSE, !.join = l]

ProgramDisconnected(n, l) == Shutdown(ProgramSend(n, l, "disconnect"), l)

(* handle: a request that the program wrote.                                *)
HandleProgram(n, l, type) ==
    CASE ~n.prog[l].conn         -> n
      [] type = "accept"         -> Accept(n, l)
      [] type = "reject"         -> Reject(n, l)
      [] type = "disconnect"     -> Disconnect(n, l)
      [] type = "data"           -> SendData(n, l)
      [] OTHER                   -> n
-----------------------------------------------------------------------------
(* Session control, as NSP calls it.                                        *)
\* Faulty variant: forgets the conversation at once.
RetireFreed(n, l) == [n EXCEPT !.live = @ \ {l}]

Retire(n, l) ==
    IF l \notin n.live THEN n
    ELSE [n EXCEPT !.finished = (@ \ n.oldFinished) \cup {l}, !.oldFinished = {},
                   !.live = @ \ {l}]

(* connect_received; ok is whether a program can be started.                *)
ConnectReceived(n, l, dst, ok) ==
    LET born == [n EXCEPT !.link[l] = "cr"] IN
    IF dst.bad \/ Asked(n, dst) = {} THEN Reject(born, l)
    ELSE LET a == (CHOOSE o \in Asked(n, dst) : TRUE).app
             s == [born EXCEPT !.app[l] = a, !.live = @ \cup {l}]
         IN  CASE a.kind = "builtin" -> BuiltinConnected(s, l)
               [] a.kind = "prog"    -> ProgramConnected(s, l, ok)
               [] a.kind = "api"     -> ApiConnected(s, l)

(* connect: outbound, for an API client.                                    *)
Connect(n, l, a) == [n EXCEPT !.link[l] = "ci", !.app[l] = a, !.live = @ \cup {l}]

(* data_received, interrupt_received and run_state.                         *)
Event(n, l, type) ==
    CASE l \notin n.live         -> n
      [] n.app[l].kind = "api"   -> Tell(n, l, type)
      [] n.app[l].kind = "prog"  -> ProgramSend(n, l, type)
      [] OTHER                   -> n

ConnectConfirmed(n, l) == IF l \in n.live THEN ApiConnected(n, l) ELSE n

(* disconnected, then NSP's close.  A program is waited for in between.     *)
Disconnected(n, l) ==
    CASE l \notin n.live         -> CloseConnection(n, l)
      [] n.app[l].kind = "prog"  -> ProgramDisconnected(n, l)
      [] n.app[l].kind = "api"   -> CloseConnection(Retire(ApiDisconnected(n, l), l), l)
      [] OTHER                   -> CloseConnection(Retire(n, l), l)

\* Faulty variant: leaves a program that still runs to itself.
ReapExited(n) ==
    [n EXCEPT !.prog[n.join].st = IF @ = "exited" THEN "reaped" ELSE @, !.join = 0]

(* The end of shutdown: the program is killed if it still runs.             *)
Reap(n) == [n EXCEPT !.prog[n.join].st = "reaped", !.join = 0]

(* The rest of disconnected and of NSP's close, after the wait.             *)
Joined(n) ==
    LET l == n.join IN CloseConnection(Retire([Reap(n) EXCEPT !.prog[l].conn = FALSE], l), l)
-----------------------------------------------------------------------------
(* Requests of an API client.  A request names a handle or an object.       *)
DoConnect(n, c, r) ==
    LET h == n.client[c].next
        s == [n EXCEPT !.client[c].next = h + 1]
        l == Min(Unborn(n))
    IN  CASE r.dst.bad         -> Send(n, c, Msg("reject", 0))
          [] Unborn(n) = {}    -> Send(s, c, Msg("error", 0))
          [] OTHER -> LET k == Connect(s, l, App("api", c, h, 0)) IN
                      Send([k EXCEPT !.client[c].conns = (h :> Conn(l, TRUE)) @@ @],
                           c, Msg("connecting", h))

DoBind(n, c, r) ==
    LET h == n.client[c].next
        s == [n EXCEPT !.client[c].next = h + 1]
        added == AddObject(s, r.dst.num, r.dst.name, App("api", c, 0, h))
    IN  IF ~MayAdd(n, r.dst.num, r.dst.name) THEN Send(s, c, Msg("error", 0))
        ELSE Send([added EXCEPT !.client[c].binds = (h :> r.dst) @@ @], c, Msg("bind", h))

DoBound(n, c, r) ==
    LET b == n.client[c].binds[r.h] IN
    IF r.type # "disconnect" THEN Send(n, c, Msg("error", 0))
    ELSE [RemoveObject(n, b.num, b.name) EXCEPT !.client[c].binds = Drop(@, r.h)]

DoHandle(n, c, r) ==
    LET k == n.client[c].conns[r.h]
        forgot == [n EXCEPT !.client[c].conns = Drop(@, r.h),
                            !.said[c][r.h] = IF n.closing[c] THEN @ ELSE Append(@, "left")]
    IN  CASE r.type = "accept"     -> Accept([n EXCEPT !.client[c].conns[r.h].confirmed = TRUE], k.l)
          [] r.type = "reject"     -> Reject(forgot, k.l)
          [] r.type = "disconnect" -> Disconnect(forgot, k.l)
          [] r.type = "data"       -> SendData(n, k.l)
          [] OTHER                 -> Send(n, c, Msg("error", 0))

(* session_request, under answer.                                           *)
Answer(n, c, r) ==
    CASE r.type = "connect"                   -> DoConnect(n, c, r)
      [] r.type = "bind"                      -> DoBind(n, c, r)
      [] r.h \in DOMAIN n.client[c].binds     -> DoBound(n, c, r)
      [] Known(n, c, r.h)                     -> DoHandle(n, c, r)
      [] OTHER                                -> Send(n, c, Msg("error", 0))

(* handle: what is said of handles meanwhile follows the reply.             *)
Handle(n, c, r) ==
    LET k == Answer([n EXCEPT !.client[c].holding = TRUE], c, r)
        s == [k EXCEPT !.client[c].holding = FALSE, !.client[c].held = <<>>]
    IN  IF n.client[c].gone THEN n
        ELSE FoldLeft(LAMBDA t, m : Send(t, c, m), s, k.client[c].held)

\* Faulty variant: leaves the links to the conversations themselves.
AbandonNothing(n, c) == n

(* closed: the client's objects are withdrawn and its links fail.           *)
Abandon(n, c) ==
    FoldSet(LAMBDA h, s : LET k == n.client[c].conns[h] IN
                          IF ~k.outbound /\ ~k.confirmed THEN Reject(s, k.l) ELSE Disconnect(s, k.l),
            n, DOMAIN n.client[c].conns)

Withdraw(n, c) ==
    FoldSet(LAMBDA h, s : RemoveObject(s, n.client[c].binds[h].num, n.client[c].binds[h].name),
            n, DOMAIN n.client[c].binds)

Closed(n, c) ==
    IF n.client[c].gone THEN n
    ELSE [Abandon(Withdraw(n, c), c) EXCEPT !.client[c].gone = TRUE, !.client[c].conns = <<>>,
                                            !.client[c].binds = <<>>]

(* Session::stop puts every conversation with the finished ones; NSP::stop  *)
(* then frees its connections.                                              *)
StopLayers(n) ==
    [n EXCEPT !.finished = @ \cup n.live, !.live = {},
              !.link = [l \in Links |-> IF @[l] \in {"unborn", "cl", "misused"} THEN @[l] ELSE "freed"]]
=============================================================================
