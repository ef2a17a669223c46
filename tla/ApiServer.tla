----------------------------- MODULE ApiServer ------------------------------
(***************************************************************************)
(* The API server and the object programs at work: the node thread, which  *)
(* does all that the module Session describes, the reader and writer       *)
(* threads of each API client, the threads that read a program's output,   *)
(* the programs themselves, NSP's end of each link, the on demand circuits *)
(* (src/common/node.cc) and the thread that stops the node.                *)
(*                                                                         *)
(* The work queue is one sequence per source: nothing orders what two      *)
(* sources post.  The grace of a minute before something is freed is over  *)
(* (GracePasses) only when no work is waiting and no program is waited     *)
(* for.                                                                    *)
(***************************************************************************)
EXTENDS Session

CONSTANTS Confs,        \* configurations: see MCApiServer
          MaxInbox,     \* bound on the work a client has posted
          IdleSteps     \* api --idle, in steps of the idle timer

VARIABLES
    conf,       \* the configuration
    n,          \* what the node thread owns
    reader,     \* client -> its socket: away, open, or done
    inbox,      \* client -> work it has posted
    lines,      \* connection -> requests its program has posted
    demand,     \* [clients, up, idle]: api_clients_, circuits_up_, idle_timer_
    main,       \* the thread in Node::stop and ~Node: up, api, stopped, down, gone
    left        \* budgets: [asks, calls, talk]

vars == <<conf, n, reader, inbox, lines, demand, main, left>>

Init ==
    /\ conf \in Confs
    /\ n = AddDefaultObjects(NewNode(conf.objects))
    /\ reader = [c \in Clients |-> "away"]
    /\ inbox = [c \in Clients |-> <<>>]
    /\ lines = [l \in Links |-> <<>>]
    /\ demand = [clients |-> 0, up |-> FALSE, idle |-> 0]
    /\ main = "up"
    /\ left = conf.left

(* The node thread runs unless it waits for a program or has ended.         *)
Looping == main \in {"up", "api", "stopped"}
Free == n.join = 0 /\ Looping
Running == main \in {"up", "api"}
-----------------------------------------------------------------------------
(* The accept loop, and the threads of a client.                            *)
Arrive(c) ==
    /\ main = "up" /\ reader[c] = "away" /\ c \in conf.clients
    /\ reader' = [reader EXCEPT ![c] = "open"]
    /\ inbox' = [inbox EXCEPT ![c] = Append(@, [type |-> "arrived"])]
    /\ UNCHANGED <<conf, n, lines, demand, main, left>>

Ask(c, r) ==
    /\ reader[c] = "open" /\ left.asks > 0 /\ Len(inbox[c]) < MaxInbox
    /\ inbox' = [inbox EXCEPT ![c] = Append(@, r)]
    /\ left' = [left EXCEPT !.asks = @ - 1]
    /\ UNCHANGED <<conf, n, reader, lines, demand, main>>

\* Faulty variant: tells nobody.
ReadEndsSilent(c) ==
    /\ reader[c] = "open"
    /\ reader' = [reader EXCEPT ![c] = "done"]
    /\ UNCHANGED <<conf, n, inbox, lines, demand, main, left>>

(* read ends: the client closed, or this end shut the socket down.          *)
ReadEnds(c) ==
    /\ reader[c] = "open"
    /\ reader' = [reader EXCEPT ![c] = "done"]
    /\ inbox' = [inbox EXCEPT ![c] = Append(@, [type |-> "closed"])]
    /\ UNCHANGED <<conf, n, lines, demand, main, left>>

Write(c) ==
    /\ n.outq[c] # <<>> /\ ~n.closing[c]
    /\ \/ n' = [n EXCEPT !.outq[c] = Tail(@)]
       \/ reader[c] = "done" /\ n' = [n EXCEPT !.closing[c] = TRUE]
    /\ UNCHANGED <<conf, reader, inbox, lines, demand, main, left>>
-----------------------------------------------------------------------------
(* Circuits on demand.                                                      *)
ClientArrived(d) == [d EXCEPT !.clients = @ + 1, !.idle = 0, !.up = TRUE]

\* Faulty variant: waits for the next client to leave.
ClientLeftUntimed(d) == [d EXCEPT !.clients = Max({0, @ - 1})]

ClientLeft(d) ==
    LET k == Max({0, d.clients - 1}) IN
    [d EXCEPT !.clients = k, !.idle = IF k = 0 /\ d.up THEN IdleSteps ELSE @]

(* The idle timer takes a step towards its deadline.                        *)
IdleTimeout ==
    /\ Free /\ demand.idle > 0
    /\ demand' = [demand EXCEPT !.idle = @ - 1, !.up = @ /\ (demand.idle > 1 \/ demand.clients > 0)]
    /\ UNCHANGED <<conf, n, reader, inbox, lines, main, left>>
-----------------------------------------------------------------------------
(* The node thread takes a client's work.                                   *)
Serve(c) ==
    LET w == Head(inbox[c]) IN
    /\ Free /\ inbox[c] # <<>>
    /\ inbox' = [inbox EXCEPT ![c] = Tail(@)]
    /\ \/ w.type = "arrived" /\ demand' = ClientArrived(demand) /\ UNCHANGED n
       \/ /\ w.type = "closed" /\ n' = Closed(n, c)
          /\ demand' = IF n.client[c].gone THEN demand ELSE ClientLeft(demand)
       \/ /\ w.type \notin {"arrived", "closed"}
          /\ n' = Handle(n, c, w) /\ UNCHANGED demand
    /\ UNCHANGED <<conf, reader, lines, main, left>>

ServeProgram(l) ==
    /\ Free /\ lines[l] # <<>>
    /\ n' = HandleProgram(n, l, Head(lines[l]))
    /\ lines' = [lines EXCEPT ![l] = Tail(@)]
    /\ UNCHANGED <<conf, reader, inbox, demand, main, left>>
-----------------------------------------------------------------------------
(* NSP calls session control.                                               *)
ByNsp(k) ==
    /\ Free /\ Running /\ n' = k
    /\ UNCHANGED <<conf, reader, inbox, lines, demand, main>>

(* A connect from another node.                                             *)
Inbound(dst, ok) ==
    LET l == Min(Unborn(n)) IN
    /\ left.calls > 0 /\ Unborn(n) # {}
    /\ ByNsp(ConnectReceived(n, l, dst, ok))
    /\ left' = [left EXCEPT !.calls = @ - 1]

Confirmed(l) ==
    n.link[l] = "ci" /\ ByNsp(ConnectConfirmed([n EXCEPT !.link[l] = "run"], l)) /\ UNCHANGED left

RunState(l) ==
    n.link[l] = "cc" /\ ByNsp(Event([n EXCEPT !.link[l] = "run"], l, "runstate")) /\ UNCHANGED left

DataReceived(l) ==
    /\ n.link[l] = "run" /\ left.talk > 0
    /\ ByNsp(Event(n, l, "data"))
    /\ left' = [left EXCEPT !.talk = @ - 1]

(* Refused, disconnected, confirmed disconnected or timed out.              *)
LinkEnds(l) ==
    n.link[l] \in {"ci", "cc", "run", "di"} /\ ByNsp(Disconnected(n, l)) /\ UNCHANGED left

(* The connect timer of a link that was never answered.                     *)
AnswerTimeout(l) ==
    n.link[l] = "cr" /\ ByNsp(Reject(n, l)) /\ UNCHANGED left
-----------------------------------------------------------------------------
(* Programs.  A reader thread ends with the program, or after the first     *)
(* line it reads once the application is stopping.                          *)
Say(l, type) ==
    /\ n.prog[l].st = "running" /\ n.prog[l].out /\ left.asks > 0
    /\ lines' = [lines EXCEPT ![l] = Append(@, type)]
    /\ n' = [n EXCEPT !.prog[l].out = ~n.prog[l].stopping]
    /\ left' = [left EXCEPT !.asks = @ - 1]
    /\ UNCHANGED <<conf, reader, inbox, demand, main>>

Log(l) ==
    /\ n.prog[l].st = "running" /\ n.prog[l].stopping /\ n.prog[l].err
    /\ n' = [n EXCEPT !.prog[l].err = FALSE]
    /\ UNCHANGED <<conf, reader, inbox, lines, demand, main, left>>

Exit(l) ==
    /\ n.prog[l].st = "running"
    /\ n' = [n EXCEPT !.prog[l].st = "exited", !.prog[l].out = FALSE, !.prog[l].err = FALSE]
    /\ UNCHANGED <<conf, reader, inbox, lines, demand, main, left>>

JoinProgram ==
    /\ n.join # 0 /\ ~n.prog[n.join].out /\ ~n.prog[n.join].err
    /\ n' = IF main = "down" THEN Reap(n) ELSE Joined(n)
    /\ UNCHANGED <<conf, reader, inbox, lines, demand, main, left>>
-----------------------------------------------------------------------------
Quiet == (\A c \in Clients : inbox[c] = <<>>) /\ (\A l \in Links : lines[l] = <<>>)

GracePasses ==
    LET closed == {l \in Links : n.link[l] = "cl"} IN
    /\ Free /\ Running /\ Quiet /\ ~(closed \subseteq n.oldLink /\ n.finished \subseteq n.oldFinished)
    /\ n' = [n EXCEPT !.oldLink = closed, !.oldFinished = n.finished]
    /\ UNCHANGED <<conf, reader, inbox, lines, demand, main, left>>

(* Node::stop: the clients go first, while the node thread runs; their      *)
(* readers have posted all they will.                                       *)
StopApi ==
    /\ conf.stops /\ main = "up"
    /\ main' = "api"
    /\ n' = [n EXCEPT !.closing = [c \in Clients |-> TRUE]]
    /\ UNCHANGED <<conf, reader, inbox, lines, demand, left>>

(* Then the node thread takes stop_layers, and after it Shutdown.  What a   *)
(* program's reader posts between the two is still dispatched; what it      *)
(* posts later stays in the queue.                                          *)
StopNode ==
    /\ main = "api" /\ Free
    /\ \A c \in Clients : reader[c] # "open" /\ inbox[c] = <<>>
    /\ main' = "stopped"
    /\ n' = StopLayers(n)
    /\ demand' = [demand EXCEPT !.idle = 0]
    /\ UNCHANGED <<conf, reader, inbox, lines, left>>

EndLoop ==
    /\ main = "stopped" /\ Free
    /\ main' = "down"
    /\ UNCHANGED <<conf, n, reader, inbox, lines, demand, left>>

(* ~Node: session control frees its conversations, and ~ProcessApplication  *)
(* shuts the program down.                                                  *)
Destroy(l) ==
    /\ main = "down" /\ n.join = 0 /\ l \in n.finished
    /\ \E s \in {IF n.prog[l].st \in {"none", "reaped"} THEN n ELSE Shutdown(n, l)} :
          n' = [s EXCEPT !.finished = @ \ {l}]
    /\ UNCHANGED <<conf, reader, inbox, lines, demand, main, left>>

Destroyed ==
    /\ main = "down" /\ n.join = 0 /\ n.finished = {}
    /\ main' = "gone"
    /\ UNCHANGED <<conf, n, reader, inbox, lines, demand, left>>

Stopping == StopNode \/ EndLoop \/ (\E l \in Links : Destroy(l)) \/ Destroyed

Next ==
    \/ \E c \in Clients : Arrive(c)
    \/ \E c \in Clients : \E r \in conf.requests : Ask(c, r)
    \/ \E c \in Clients : ReadEnds(c)
    \/ \E c \in Clients : Write(c)
    \/ \E c \in Clients : Serve(c)
    \/ \E l \in Links : ServeProgram(l)
    \/ \E d \in conf.wanted, ok \in BOOLEAN : Inbound(d, ok)
    \/ \E l \in Links : Confirmed(l)
    \/ \E l \in Links : RunState(l)
    \/ \E l \in Links : DataReceived(l)
    \/ \E l \in Links : LinkEnds(l)
    \/ \E l \in Links : AnswerTimeout(l)
    \/ \E l \in Links : \E type \in conf.says : Say(l, type)
    \/ \E l \in Links : Log(l)
    \/ \E l \in Links : Exit(l)
    \/ JoinProgram
    \/ IdleTimeout
    \/ GracePasses
    \/ StopApi
    \/ StopNode
    \/ EndLoop
    \/ \E l \in Links : Destroy(l)
    \/ Destroyed

Spec == Init /\ [][Next]_vars

(* What the scheduling guarantees: the node thread takes the work it has,   *)
(* a socket that was shut down ends its reader, the timer of a link in di   *)
(* runs out, and a program whose input is closed exits.                     *)
Fairness ==
    /\ \A c \in Clients :
          /\ []<>(~(Free /\ inbox[c] # <<>>)) \/ []<><<Len(inbox'[c]) < Len(inbox[c])>>_vars
          /\ []<>(~(reader[c] = "open" /\ n.closing[c])) \/ []<><<reader'[c] = "done">>_reader
    /\ \A l \in Links :
          /\ []<>(~(Free /\ Running /\ n.link[l] = "di")) \/ []<><<n'.link[l] # "di">>_n
          /\ []<>(~(n.prog[l].st = "running" /\ ~n.prog[l].stdin))
             \/ []<><<n'.prog[l].st # "running">>_n
    /\ []<>(~ENABLED JoinProgram) \/ []<><<JoinProgram>>_vars
    /\ []<>(~ENABLED Stopping) \/ []<><<Stopping>>_vars

FairSpec == Spec /\ Fairness
-----------------------------------------------------------------------------
(* The values of the variables; no more is queued for a client than         *)
(* Client::send lets through.                                               *)
TypeOK ==
    /\ \A l \in Links : n.link[l] \in {"unborn", "ci", "cr", "cc", "run", "di", "cl", "freed",
                                      "misused"}
    /\ \A c \in Clients : /\ Len(n.outq[c]) <= MaxQueued
                          /\ reader[c] \in {"away", "open", "done"}
                          /\ n.client[c].next \in 1 .. MaxHandle + 1
    /\ demand \in [clients : 0 .. Cardinality(Clients), up : BOOLEAN, idle : 0 .. IdleSteps]
    /\ main \in {"up", "api", "stopped", "down", "gone"}

(* Every handle an API client holds (Client::conns_) is that of a link that *)
(* is still open, so that a request acts on a live SessionConnection and    *)
(* not on one that was freed after its grace period.  It is not so for a    *)
(* call that NSP has rejected because the client did not answer it in time  *)
(* (Connection::cr): of that nobody is told, and the client keeps the       *)
(* handle.                                                                  *)
HandlesOpen ==
    Running =>
    \A c \in Clients : \A h \in DOMAIN n.client[c].conns :
        LET l == n.client[c].conns[h].l IN
        l \in n.live /\ (l \in n.refused \/ n.link[l] \in {"ci", "cr", "cc", "run"})

(* What read_stdout posts carries the address of its ProcessApplication:    *)
(* the application is there when the node thread takes the request, even    *)
(* when its link ended in between or the layers have stopped (retire,       *)
(* Session::stop).  While the layers run its connection is there too,       *)
(* unless that was rejected, by the program or for it: reject leaves the    *)
(* application with a connection that is freed a minute later.              *)
PostedWorkAlive ==
    \A l \in Links : lines[l] # <<>> /\ Looping =>
        /\ l \in n.live \cup n.finished
        /\ Running /\ n.prog[l].conn /\ l \notin n.refused => n.link[l] \notin {"freed", "misused"}

(* "session control releases connections before NSP frees them"             *)
(* (Node::stop_layers, src/common/node.cc:404-405): no request of an        *)
(* application acts on a connection that has been freed.                    *)
ReleasedFirst == \A l \in Links : n.link[l] # "misused"

(* What a client is told of one handle is a story in order: it begins with  *)
(* the reply or event that names the handle, an outbound link is accepted   *)
(* or refused, data comes only on a link that runs, and nothing follows the *)
(* end, nor the client's own reject or disconnect.                          *)
HandleStory ==
    \A c \in Clients : \A h \in Handles :
        LET s == n.said[c][h] IN
        \A k \in DOMAIN s :
            /\ (k = 1) = (s[k] \in {"connecting", "connect", "bind"})
            /\ s[k] \in {"reject", "disconnect", "left"} => k = Len(s)
            /\ s[k] = "reject" => k = 2 /\ s[1] = "connecting"
            /\ s[k] = "accept" => k = 2 /\ s[1] = "connecting"
            /\ s[k] = "runstate" => k = 2 /\ s[1] = "connect"
            /\ s[k] = "data" => s[2] \in {"accept", "runstate"}

(* What a client holds and is told of a link is true: handles are those of  *)
(* open links, and what is said of each is in order (Client::known, add_    *)
(* inbound, disconnected).                                                  *)
HandlesTrue == HandlesOpen /\ HandleStory

(* When Client::closed has run nothing of the client is left: no handle, no *)
(* object that a connect could still find, and no link of its that has not  *)
(* at least begun to close.                                                 *)
GoneLeavesNothing ==
    \A c \in Clients : n.client[c].gone =>
        /\ \A o \in n.objects : o.app.client # c
        /\ \A l \in Links : n.app[l].client = c => n.link[l] \in {"di", "cl", "freed", "misused"}

(* The objects that clients have bound are exactly those session control    *)
(* finds under their numbers and names: remove_object takes one object and  *)
(* no other, whatever order clients bind, withdraw and leave in.            *)
BoundMatchesTable ==
    \A c \in Clients :
        {o \in n.objects : o.app.client = c}
          = {Object(n.client[c].binds[h].num, n.client[c].binds[h].name, App("api", c, 0, h)) :
                h \in DOMAIN n.client[c].binds}

(* Circuits on demand: api_clients_ counts the clients the node thread has  *)
(* seen arrive and not leave, the circuits are up while there is one, and   *)
(* without one the idle timer runs until they are down.                     *)
CircuitsFollowClients ==
    LET here == {c \in Clients : /\ reader[c] # "away" /\ ~n.client[c].gone
                                 /\ \A k \in DOMAIN inbox[c] : inbox[c][k].type # "arrived"}
    IN  /\ demand.clients = Cardinality(here)
        /\ here # {} => demand.up
        /\ Running /\ here = {} /\ demand.up => demand.idle > 0

(* The tables follow the clients, whatever order they arrive, ask, fail and *)
(* leave in: no object, link or circuit outlives the client it is for, and  *)
(* no more is queued for one than Client::send allows (Client::closed).     *)
TablesFollowClients == TypeOK /\ GoneLeavesNothing /\ BoundMatchesTable /\ CircuitsFollowClients

(* The messages to a program are in order (ProcessApplication), and when    *)
(* the node is gone every program that was started has been reaped: no      *)
(* conversation is lost on the way to the destructor that reaps it, not     *)
(* even that of a program which rejected its call and is told no more, and  *)
(* a program that goes on running when its pipes are drained is killed.     *)
ProgramStory ==
    \A l \in Links :
        LET s == n.prog[l].to IN
        /\ \A k \in DOMAIN s :
              /\ (k = 1) = (s[k] = "connect")
              /\ s[k] = "runstate" => k = 2
              /\ s[k] = "data" => s[2] = "runstate"
              /\ s[k] = "disconnect" => k = Len(s)
        /\ main = "gone" => n.prog[l].st \in {"none", "reaped"}

(* A client that does not read, or whose connection the server ends, is     *)
(* gone in the end: the reader wakes, and what it posts is served.          *)
DroppedClientGoes ==
    \A c \in Clients : (reader[c] # "away" /\ n.closing[c]) ~> n.client[c].gone

(* Node::stop and ~Node finish: no reader thread and no program keeps them  *)
(* waiting.                                                                 *)
StopFinishes == (main = "api") ~> (main = "gone")

(* Clients that are dropped go, and a node that is stopped comes to its end *)
(* (Client::read, Server::stop, Node::stop).                                *)
EverythingEnds == DroppedClientGoes /\ StopFinishes
=============================================================================
