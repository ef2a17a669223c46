---------------------------- MODULE PtpDatalink -----------------------------
(***************************************************************************)
(* A point to point datalink: the state machine that runs on the node      *)
(* thread and the receive thread that does the blocking I/O                *)
(* (src/datalink/ptp.cc), with the hooks of its concrete classes: TCP      *)
(* Multinet that connects, TCP Multinet that listens, UDP Multinet         *)
(* (src/datalink/multinet.cc) and DDCMP (src/datalink/ddcmp_link.cc).      *)
(*                                                                         *)
(* The one timer of the datalink is abstracted by the contract of module   *)
(* TimerWheel: a timer that is armed and not restarted or stopped fires on *)
(* the node thread at some later point, and no other expiry is seen.       *)
(*                                                                         *)
(* The DDCMP engine is abstracted to whether its handshake is complete;    *)
(* module Ddcmp models it.                                                 *)
(*                                                                         *)
(* The work queue of the node (include/decnet/common/work.h) is here too:  *)
(* any thread puts items at the back, the node thread takes them off the   *)
(* front and hands each one to its owner (Node::mainloop).  A work item is *)
(* a record with the element it is addressed to, its kind and an argument. *)
(***************************************************************************)
EXTENDS Naturals, Sequences

CONSTANTS Confs,     \* the configurations to consider
          MaxQueue   \* bound: the receive thread, the timers and the
                     \* operator post only while the queue is shorter

(* mode is the kind of datalink; verify says that the neighbour must        *)
(* authenticate (request_verify_); onDemand that the circuit stops when no  *)
(* API client is left (api --on-demand); packets are what arrives from the  *)
(* neighbour.                                                               *)
Kinds == {"init", "badinit", "verify", "wrong", "imposed", "hello", "alien"}
Modes == {"connect", "listen", "udp", "ddcmp"}

ASSUME ConfAssumption ==
    Confs \subseteq [mode : Modes, verify : BOOLEAN, onDemand : BOOLEAN, packets : SUBSET Kinds]

VARIABLES
    queue,       \* the node's work queue
    conf,        \* the configuration, one of Confs: never changes
    dl,          \* state of the PtpDatalink state machine
    thread,      \* receive thread: "none" is not joinable, "exited" has
                 \* posted its ThreadExit and is still to be joined
    stopnow,     \* stopnow_
    isUp,        \* is_up_
    restartNow,  \* restart_now_
    timer,       \* the datalink's timer is armed
    sock,        \* socket_: 0 when closed, else tells successive sockets apart
    pending,     \* listener_ (and connecting_ of DDCMP over TCP) is open
    tx,          \* txbuf_ holds frames
    posted,      \* posted_: a flush is in the work queue
    proto        \* DDCMP engine: "halted", "start" (istart, astart), "run"
                 \* or "maint"

Item(owner, kind, arg) == [to |-> owner, kind |-> kind, arg |-> arg]

(* WorkQueue::put, from a thread other than the node thread.               *)
Put(w) == queue' = Append(queue, w)

(* The node thread's next item is addressed to owner and of that kind.     *)
IsNext(owner, kind) ==
    /\ queue # <<>>
    /\ Head(queue).to = owner
    /\ Head(queue).kind = kind

Arg == Head(queue).arg

(* WorkQueue::get, with the items the handler posts, in order.             *)
GetThenPut(posts) == queue' = Tail(queue) \o posts

(* A handler that runs from no queue item (a timer) posts its items.       *)
PutAll(posts) == queue' = queue \o posts

Queued(owner, kind) ==
    \E i \in 1 .. Len(queue) : queue[i].to = owner /\ queue[i].kind = kind
-----------------------------------------------------------------------------
dlvars == <<dl, thread, stopnow, isUp, restartNow, timer, sock, pending, tx, posted, proto>>

DlInit ==
    /\ conf \in Confs
    /\ dl = "s0"
    /\ thread = "none"
    /\ stopnow = FALSE /\ isUp = FALSE /\ restartNow = FALSE
    /\ timer = FALSE
    /\ sock = 0 /\ pending = FALSE
    /\ tx = FALSE /\ posted = FALSE
    /\ proto = "halted"

Mode == conf.mode
Packets == conf.packets
Ddcmp == Mode = "ddcmp"
Tcp == Mode \in {"connect", "listen"}

Joinable == thread # "none"
ThreadAlive == thread \in {"checking", "posting", "receiving"}

ToDl(kind, arg) == Item("dl", kind, arg)
ToCircuit(kind, arg) == Item("ci", kind, arg)

\* Faulty variant: a report that is lost.
DownReportLost == <<>>

(* report_up and report_down: idempotent, one DlStatus per change.          *)
UpReport == IF isUp THEN <<>> ELSE <<ToCircuit("Up", "")>>
DownReport == IF isUp THEN <<ToCircuit("Down", "")>> ELSE <<>>

(* connect (): opens the socket, or fails to.  Multinet in Listen mode and  *)
(* DDCMP over TCP open what the thread gets its socket from.  Connect mode  *)
(* arms the connect timer either way, Listen mode when the bind failed.     *)
FreshSocket == IF sock = 1 THEN 2 ELSE 1
SocketFromThread == Mode \in {"listen", "ddcmp"}
ArmsTimer(opened) == Mode = "connect" \/ (Mode = "listen" /\ ~ opened)

Connect(opened) ==
    /\ IF SocketFromThread
       THEN pending' = opened /\ UNCHANGED sock
       ELSE sock' = (IF opened THEN FreshSocket ELSE 0) /\ UNCHANGED pending
    /\ timer' = (timer \/ ArmsTimer(opened))
    /\ UNCHANGED <<tx, posted>>

(* disconnect (): closes the socket; frames still buffered were for this    *)
(* connection and are dropped.  TcpMultinet leaves a listener open.         *)
Disconnect ==
    /\ sock' = 0
    /\ pending' = (pending /\ ~ Ddcmp)
    /\ tx' = FALSE
    /\ UNCHANGED posted
-----------------------------------------------------------------------------
(* validate (Stop): handle_stop.                                            *)
AfterStop == IF Joinable THEN "shutdown" ELSE "s0"

DlStop ==
    /\ IsNext("dl", "Stop")
    /\ stopnow' = TRUE
    /\ isUp' = FALSE
    /\ dl' = AfterStop
    /\ GetThenPut(DownReport)
    /\ UNCHANGED <<thread, restartNow, timer, sock, pending, tx, posted, proto>>

\* Faulty variant: the holdoff timer is not started.
StartOverNoHoldoff(now, reports) ==
    /\ Disconnect
    /\ restartNow' = FALSE
    /\ dl' = IF now THEN "s0" ELSE "reconnecting"
    /\ GetThenPut(IF now THEN reports \o <<ToDl("Start", "")>> ELSE reports)
    /\ UNCHANGED timer

(* reconnecting (ThreadExit or Reconnect): start over now, or after the     *)
(* holdoff.  now is restart_now_ as the caller leaves it.                   *)
StartOver(now, reports) ==
    /\ Disconnect
    /\ restartNow' = FALSE
    /\ \/ /\ now
          /\ dl' = "s0"
          /\ GetThenPut(reports \o <<ToDl("Start", "")>>)
          /\ UNCHANGED timer
       \/ /\ ~ now
          /\ dl' = "reconnecting"
          /\ timer' = TRUE
          /\ GetThenPut(reports)

(* handle_reconnect: ask the thread to stop and wait for its exit, unless   *)
(* there is none.                                                           *)
HandleReconnect(now) ==
    /\ stopnow' = TRUE
    /\ isUp' = FALSE
    /\ \/ /\ Joinable
          /\ dl' = "reconnecting"
          /\ restartNow' = now
          /\ GetThenPut(DownReport)
          /\ UNCHANGED <<timer, sock, pending, tx, posted>>
       \/ ~ Joinable /\ StartOver(now, DownReport)
    /\ UNCHANGED <<thread, proto>>

DlReconnect ==
    /\ IsNext("dl", "Reconnect")
    /\ HandleReconnect(Arg = "now")

(* Restart, from routing.  DDCMP restarts its protocol and keeps the        *)
(* connection when it has one: Protocol::restart reports down if the        *)
(* protocol was running, and does nothing while it is starting.             *)
DlRestart ==
    /\ IsNext("dl", "Restart")
    /\ ~ (Ddcmp /\ dl = "running")
    /\ HandleReconnect(TRUE)

ProtoRestart ==
    /\ IsNext("dl", "Restart")
    /\ Ddcmp /\ dl = "running"
    /\ proto' = "start"
    /\ timer' = TRUE
    /\ isUp' = FALSE
    /\ GetThenPut(DownReport)
    /\ UNCHANGED <<dl, thread, stopnow, restartNow, sock, pending, tx, posted>>

(* validate (ThreadExit): join, report down; then the shutdown state goes   *)
(* to s0 and every other state starts over.                                 *)
DlThreadExit ==
    /\ IsNext("dl", "ThreadExit")
    /\ thread' = "none"
    /\ isUp' = FALSE
    /\ \/ /\ dl = "shutdown"
          /\ Disconnect
          /\ dl' = "s0"
          /\ GetThenPut(DownReport)
          /\ UNCHANGED <<restartNow, timer>>
       \/ dl # "shutdown" /\ StartOver(restartNow, DownReport)
    /\ UNCHANGED <<stopnow, proto>>

(* s0 (Start): connect and start the thread.  A thread that is still        *)
(* joinable makes start_thread return at once.  Every other state ignores   *)
(* Start.                                                                   *)
DlOpen(opened) ==
    /\ IsNext("dl", "Start") /\ dl = "s0"
    /\ dl' = "connecting"
    /\ Connect(opened)
    /\ thread' = IF Joinable THEN thread ELSE "checking"
    /\ stopnow' = (stopnow /\ Joinable)
    /\ GetThenPut(<<>>)
    /\ UNCHANGED <<isUp, restartNow, proto>>

DlStart ==
    \/ \E opened \in BOOLEAN : DlOpen(opened)
    \/ IsNext("dl", "Start") /\ dl # "s0" /\ GetThenPut(<<>>) /\ UNCHANGED dlvars

(* connecting (Connected): Multinet is up at once, DDCMP starts its         *)
(* handshake and its timer.  Ignored in every other state.                  *)
DlConnected ==
    /\ IsNext("dl", "Connected")
    /\ \/ /\ dl = "connecting"
          /\ dl' = "running"
          /\ \/ ~ Ddcmp /\ isUp' = TRUE /\ GetThenPut(UpReport)
                /\ UNCHANGED <<timer, proto>>
             \/ Ddcmp /\ proto' = "start" /\ timer' = TRUE /\ GetThenPut(<<>>)
                /\ UNCHANGED isUp
       \/ /\ dl # "connecting"
          /\ GetThenPut(<<>>)
          /\ UNCHANGED <<dl, isUp, timer, proto>>
    /\ UNCHANGED <<thread, stopnow, restartNow, sock, pending, tx, posted>>

\* Faulty variant: the end of the holdoff begins another.
DlTimeoutAgain ==
    /\ timer /\ ~ Ddcmp /\ Len(queue) < MaxQueue
    /\ timer' = (dl = "reconnecting")
    /\ PutAll(IF dl = "connecting" THEN <<ToDl("Reconnect", "now")>> ELSE <<>>)
    /\ UNCHANGED <<dl, thread, stopnow, isUp, restartNow, sock, pending, tx, posted, proto>>

(* The timer fires.  Multinet hands it to the state machine.  Ddcmp         *)
(* overrides timeout () and hands every expiry to the protocol engine,      *)
(* which sends START or REP again and re-arms the timer.                    *)
DlTimeout ==
    /\ timer /\ ~ Ddcmp /\ Len(queue) < MaxQueue
    /\ timer' = FALSE
    /\ \/ /\ dl = "connecting"
          /\ PutAll(<<ToDl("Reconnect", "now")>>)
          /\ UNCHANGED dl
       \/ /\ dl = "reconnecting"
          /\ PutAll(<<ToDl("Start", "")>>)
          /\ dl' = "s0"
       \/ dl \notin {"connecting", "reconnecting"} /\ UNCHANGED <<dl, queue>>
    /\ UNCHANGED <<thread, stopnow, isUp, restartNow, sock, pending, tx, posted, proto>>

ProtoTimeout ==
    /\ timer /\ Ddcmp
    /\ timer' = (proto \in {"start", "run"})
    /\ UNCHANGED <<dl, thread, stopnow, isUp, restartNow, sock, pending, tx, posted, proto, queue>>

(* running (Received): Multinet passes the frame up; every other state      *)
(* drops it.                                                                *)
DlForward ==
    /\ IsNext("dl", "Received")
    /\ dl = "running" /\ ~ Ddcmp
    /\ GetThenPut(<<ToCircuit("Received", Arg)>>)
    /\ UNCHANGED dlvars

DlDrop ==
    /\ IsNext("dl", "Received")
    /\ dl # "running"
    /\ GetThenPut(<<>>)
    /\ UNCHANGED dlvars

(* DDCMP hands the message to its engine, which completes the handshake,    *)
(* starts it again or enters maintenance mode, takes data (also when the    *)
(* data completes the handshake), or does nothing that shows here.          *)
ProtoReceive(next, up, set, posts) ==
    /\ IsNext("dl", "Received")
    /\ Ddcmp /\ dl = "running"
    /\ proto' = next
    /\ timer' = set
    /\ isUp' = up
    /\ GetThenPut(posts)
    /\ UNCHANGED <<dl, thread, stopnow, restartNow, sock, pending, tx, posted>>

Data == <<ToCircuit("Received", Arg)>>

ProtoUp ==
    /\ IsNext("dl", "Received") /\ proto = "start"
    /\ \E posts \in {<<>>, Data} : ProtoReceive("run", TRUE, FALSE, UpReport \o posts)

ProtoStart == ProtoReceive("start", FALSE, TRUE, DownReport)

ProtoMaint == ProtoReceive("maint", FALSE, FALSE, DownReport)

ProtoRun ==
    /\ IsNext("dl", "Received") /\ proto = "run"
    /\ \E set \in BOOLEAN, posts \in {<<>>, Data} : ProtoReceive("run", isUp, set, posts)

(* TcpMultinet::flush_posted: write what is buffered, or leave it to the    *)
(* receive thread while the connection is full; an error asks for a         *)
(* reconnect (with the holdoff).                                            *)
DlFlush ==
    /\ IsNext("dl", "Flush")
    /\ posted' = FALSE
    /\ \/ tx' \in {FALSE, tx} /\ GetThenPut(<<>>)
       \/ tx /\ tx' = tx /\ GetThenPut(<<ToDl("Reconnect", "later")>>)
    /\ UNCHANGED <<dl, thread, stopnow, isUp, restartNow, timer, sock, pending, proto>>
-----------------------------------------------------------------------------
(* The receive thread: run ().  check_connection gives up when a stop is    *)
(* requested, when the connection fails or when there is nothing to wait    *)
(* for; stopnow_ is tested once more before Connected is posted.  Where the *)
(* thread gets the socket, it closes what it got it from.                   *)
CheckOk ==
    /\ thread = "checking" /\ ~ stopnow
    /\ IF SocketFromThread
       THEN pending /\ pending' = FALSE /\ sock' = FreshSocket
       ELSE sock # 0 /\ UNCHANGED <<sock, pending>>
    /\ thread' = "posting"
    /\ UNCHANGED <<dl, stopnow, isUp, restartNow, timer, tx, posted, proto, queue>>

PostConnected ==
    /\ thread = "posting"
    /\ thread' = "receiving"
    /\ Put(ToDl("Connected", ""))
    /\ UNCHANGED <<dl, stopnow, isUp, restartNow, timer, sock, pending, tx, posted, proto>>

\* Faulty variant: the exit is posted by a thread that goes on.
ThreadFinishEarly ==
    /\ Put(ToDl("ThreadExit", ""))
    /\ UNCHANGED dlvars

ThreadFinish ==
    /\ thread' = "exited"
    /\ Put(ToDl("ThreadExit", ""))
    /\ UNCHANGED <<dl, stopnow, isUp, restartNow, timer, sock, pending, tx, posted, proto>>

(* The connection fails or is lost.  Multinet over UDP has none to lose.    *)
ConnectionFails ==
    /\ Mode # "udp" /\ thread \in {"checking", "receiving"}
    /\ Len(queue) < MaxQueue
    /\ ThreadFinish

(* The thread notices stopnow_, at its next poll timeout at the latest, or  *)
(* finds that nothing was opened.                                           *)
NothingOpen == IF SocketFromThread THEN ~ pending ELSE sock = 0

ThreadStops ==
    /\ \/ thread \in {"checking", "receiving"} /\ stopnow
       \/ thread = "checking" /\ NothingOpen
    /\ ThreadFinish

Receive(p) ==
    /\ thread = "receiving"
    /\ Len(queue) < MaxQueue
    /\ Put(ToDl("Received", p))
    /\ UNCHANGED dlvars
-----------------------------------------------------------------------------
(* send (): a frame from the circuit, sent by a handler that leaves rest of *)
(* the queue.  TCP Multinet drops it (the backlog is full), buffers it for  *)
(* one flush by the node thread, has it written at once or by the receive   *)
(* thread, or finds that the connection has failed.  UDP writes it; DDCMP   *)
(* runs its reply timer.                                                    *)
Takes == dl = "running" /\ sock # 0

SendFrame(rest) ==
    /\ \/ Tcp /\ Takes
          /\ \/ queue' = rest /\ tx' \in BOOLEAN /\ UNCHANGED posted
             \/ /\ queue' = IF posted THEN rest ELSE Append(rest, ToDl("Flush", ""))
                /\ tx' = TRUE /\ posted' = TRUE
             \/ /\ queue' = Append(rest, ToDl("Reconnect", "later"))
                /\ tx' = TRUE /\ UNCHANGED posted
       \/ ~ (Tcp /\ Takes) /\ queue' = rest /\ UNCHANGED <<tx, posted>>
    /\ timer' = (timer \/ proto = "run")
    /\ UNCHANGED <<dl, thread, stopnow, isUp, restartNow, sock, pending, proto>>

DlNodeThread ==
    \/ DlStop \/ DlReconnect \/ DlRestart \/ ProtoRestart \/ DlThreadExit
    \/ DlStart \/ DlConnected \/ DlForward \/ DlDrop \/ DlFlush
    \/ ProtoUp \/ ProtoStart \/ ProtoMaint \/ ProtoRun

DlTimer == DlTimeout \/ ProtoTimeout

ReceiveThread ==
    \/ CheckOk \/ PostConnected \/ ConnectionFails \/ ThreadStops
    \/ \E p \in Packets : Receive(p)
=============================================================================
