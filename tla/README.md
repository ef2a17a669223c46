# A verification of cppdecnet

cppdecnet is a DECnet Phase IV node in C++. This directory holds TLA+ modules
that model it, the TLC configurations that check them on small instances, and
proofs that TLAPS checks for every value of the constants. `PROJECT.json` lists
the components, the runs, which lines of the code each definition stands for,
the hazards of the code, and the findings.

## 1. The system

One **node thread** runs every protocol layer. Everything reaches it through
one FIFO of work items (`include/decnet/common/work.h`, `Node::mainloop`). Any
other thread (the timer wheel, one receive thread per datalink, the API and
HTTP servers, process readers, the node list fetcher) only posts items to it.

| Part | Code | Module |
|---|---|---|
| Timer wheel | `common/timers.cc` | `TimerWheel` |
| Work queue, node thread | `common/work.h`, `node.cc` | `PtpDatalink`, and in each composition |
| Point to point datalink, Multinet, DDCMP datalink | `datalink/ptp.cc`, `multinet.cc`, `ddcmp_link.cc` | `PtpDatalink` |
| DDCMP engine | `datalink/ddcmp.cc` | `Ddcmp` |
| LAN datalink | `datalink/bc.cc` | `Mop` (filter and ports) |
| Point to point circuit | `routing/ptp.cc`, `adjacency.cc` | `PtpCircuit` |
| LAN circuit | `routing/lan.cc` | `Lan` |
| Decision, update, forwarding | `routing/l1router.cc`, `routing.cc` | `Routing` |
| NSP | `nsp/nsp.cc` | `NspConnection`, `NspTables`, `Nsp` |
| Session control, object programs | `session/session.cc`, `process.cc` | `Session` |
| API server, on demand circuits, end of the node | `api/server.cc`, `common/node.cc` | `ApiServer` |
| Event logger | `events/logger.cc` | `EventLogger` |
| Node names | `common/node.cc`, `nodefetch.cc`, `namelearner.cc` | `Names` |
| MOP | `mop/mop.cc` and its part of `api/server.cc` | `Mop` |
| File access listener | `dap/fal.cc` | `Fal`, `DapFile` |
| Packet framework | `packet/*.h` | `Wire` |
| Messages of routing, NSP, session, MOP | `*/packets.h`, `*/packets.cc`, `routing_messages.cc` | `Packets` |
| DAP messages | `dap/messages.*` | `DapMessages` |
| NICE values, entities, replies, events | `nice/*.cc`, `events/events.cc` | `NiceCodec` |

**Interactions.** A datalink reports up and down to its circuit through the
queue; a circuit asks it to start, stop and restart through the queue. A
circuit's adjacency feeds the decision process. Routing hands packets to NSP,
NSP hands connections and data to session control, which hands them to
applications, programs and API clients. The event sink and the name learner
are applications of session control. Every layer uses the timer wheel.

**Hard behaviours.** Items posted before a state change and handled after it;
timers that expire as they are stopped; a thread that must be joined without
blocking the node; reports and requests that cross; lost, damaged and repeated
messages; numbers that wrap; restarts in the middle of a handshake; queues at
their limits; objects freed while work for them is under way; a call that comes
back to its caller before it returns; a crash between writing a file and
renaming it. The `hazards` of `PROJECT.json` name the lines.

## 2. The modules

In most modules what one thread owns is a record and every method that changes
it an operator from record to record, in the code's order; what a method sends
goes to a field `out` and from there to whoever receives it. The actions are
the work items, packets, timers and calls from outside. `conf`, chosen in the
initial state, is the configuration or the situation, so that one run covers
several; the MC modules define the values.

### Timer wheel

`slot`, `place` and `rev` are a timer's list, its position on it and its
revcount. `tick` is three kinds of step, as it takes the mutex again for every
timer: `Advance` moves the wheel, `ExpireTimer` unlinks the front timer and captures
its revcount, `Post` puts the Timeout in the queue outside the mutex. `Fire`
and `Discard` are the two outcomes of `Timeout::dispatch`. `armed`, `togo` and
`born` are history: what the owner of the timer believes.

The other modules use timers as the contract proved here: an armed timer fires
once, later, on the node thread, unless it is stopped.

### Point to point link (`PtpDatalink`, `PtpCircuit`, `PtpLink`)

`PtpDatalink` has one action per work item and state group. The receive thread
goes through `checking` (check_connection), `posting` (between the test of
`stopnow_` and the Connected item), `receiving` and `exited`. Its ThreadExit is
posted as its last act, which is one step. DDCMP's engine is reduced to
starting, running or in maintenance mode; `Ddcmp` has the rest. Received
packets are reduced to what the circuit's states tell apart. `PtpLink` composes
datalink and circuit on one queue with the node's start and stop.

### DDCMP (`Ddcmp`, `ReliableLink`)

Two engines on a line. A payload is the number of payloads given so far, so the
order of delivery shows. Numbers are modulo `conf.modulus` (256 in the code),
the window is `conf.qmax` (7). The line keeps the order. It loses and damages
messages while `lossy`, and may get well for good (`Heal`). `conf.prompt` says
that timers outlast the line: none fires while a message is under way. Without
it timers fire at any time.

`ReliableLink` is the abstract specification: payloads given to a station are
delivered by the other, once and in order. The refinement mapping reads off
what the link still holds: the window followed by the queue, without what the
peer has delivered.

### Routing (`Routing`)

A router is its two matrices (nodes, areas), the adjacencies that are up, the
attached flag, and an update process per circuit and level. `compute` and
`compute_areas` are operators over the whole matrix, as in the code. A circuit
is a pair of FIFO channels that carry the reports of the circuit (up, down),
routing messages and data packets; a failing circuit loses what is on it.
Updates are cut to the block size and batched by their holdoff; forwarding has
the visit count, return to sender and the endnode. Infinity for hops and cost,
the visit limit and the address width are constants.

### LAN circuit (`Lan`)

An entry of `adj` is `init` or `up` as in the code, and has its listen timer
running. `timer` and `waiting` are the DR timer and the flag
`drtimer_running_`, which the code keeps apart. MAC addresses, block sizes and
the data packets are left out.

Hellos to a station arrive in order, or are lost; listen timers expire at any
time. From `Heal` on nothing is lost and a listen timer expires only on a
station that has fallen silent. Stations boot, crash, shut down, and, if on
demand, are started and stopped. There may be two designated routers for a
time, by design: a router that starts waits 5 seconds and hellos come every 10.
What is promised, and checked, is agreement once things are quiet.

`MCRoutingLayer` examines both halves of the routing layer in one run: a
behaviour is a network of `MCRouting` or a LAN of `MCLan`.

### NSP (`NspConnection`, `NspTables`, `Nsp`)

`NspConnection` is one end of a logical link. `NspTables` has a node's tables
(`by_addr_`, `by_remote_`, `free_ids_`) and what it does to file a link, to
close one and to give its address back. `Nsp` puts two nodes on a network, with
one action per call from session control, packet and timer. An application may answer a connect in the callback
or later. Of closed connections only the history is kept.

The network is a bag for each node: it loses packets and lets them overtake
each other. Nothing repeats packets but retransmission. Payloads are segment
numbers, so that order and wholeness show. `cwnd_` and `ssthresh_` are kept in
hundredths. Both nodes are Phase IV. With `conf.foreign` node B stands for
another implementation: it may send link service messages and repeat them, set
the delay bit and turn an acknowledgement into a negative one. This code never
sends those, but handles them. The run and the proofs have blocks of addresses
that fill the address space (`EvenBlocks`): `MaxConns + 1` divides the number of
addresses, as 4096 does for the default of 4095 connections. `init_ids` and
`return_id` rely on it, but the configuration does not ask for it.

### Session control and the API server (`Session`, `ApiServer`)

`Session` is what the node thread owns: the object table, the connections with
their applications, what is retired and waits to be freed, and the node
thread's half of each API client and program. `ApiServer` adds the threads: the
reader and the writer of each client, the two readers of each program, the
programs, the thread that stops the node. NSP is there for what it does to a
conversation: its state, when it calls session control, when it frees the
connection. A connection is `freed` when NSP has let go of it, and `misused`
once something has called it after that. The work queue is one sequence per
source, as nothing orders what two sources post. The grace of a minute before
something is freed ends (`GracePasses`) only when no work is waiting; that no
thread holds work back for a minute is the code's own assumption
(`process.cc:152`). A program that rejects its call may go on writing; its
conversation stays until the node goes (`refused` keeps which those are).

The node ends in four steps, as in the code: `stop_layers` is dispatched
(`StopNode`), then whatever was posted before `Shutdown`, then `Shutdown` ends
the loop (`EndLoop`), and the destructor shuts down the programs that are left
one after the other (`Destroy`, `Destroyed`).

While a client's request is answered, events for it are held back
(`holding`, `held`) and sent after the reply, as in `Client::handle`. Nothing
is ever held back in fact: packets that a node sends itself come back by the
work queue (`BaseRouter::deliver_later`), not inside the call as the comment at
`server.cc:386` has it.

### Services, one to a behaviour (`MCServices`)

`Fal`, `Codec`, `EventLogger`, `Names` and `Mop` share no state with each other
or with the rest. `MCServices` lets a behaviour choose one; the others stand
still in an initial state.

*`Fal`*: each link is a process, all on one tree. `fs` maps paths to entries,
`data` inodes to bytes. A handler is cut wherever the code waits for a message
and between system calls that another process can get in between of. File
contents are bytes, so record formats, block mode and sizes are computed
(`DapFile`).

*`Codec`* with `Wire`, `Packets`, `DapMessages`, `NiceCodec`: messages are byte
sequences. One node builds a message, it may be cut short or one word of it
changed, and another reads it. Layouts are data, as in the code; encoding and
decoding fold over them.

*`EventLogger`*: filters, the local sink, the remote sink with its queue and its
link, the receiver. Sending goes down to routing, which may log an event before
the call returns; that recursion is a recursion of operators.

*`Names`*: the daemon, its fetch thread and the tool `--fetch-nodes` share the
cache file, which is written in two parts and renamed. Crashes may come between
any two steps. Names are also learned from neighbours and from the ends of
links.

*`Mop`*: all stations run the same handlers; frames arrive in any order, or
never. A message carries as history the request it belongs to and the stations
it went through.

## 3. The runs

| Run | Question |
|---|---|
| `ptp` | Do circuit and datalink stay agreed, is the thread joined only when it is done, does anything outlive a restart or a stop, does a circuit that is kept up go on trying? |
| `ddcmp_timers` | Can a stopped timer fire, a started one be lost, early, late or out of order? Does a DDCMP acknowledgement mean delivery, do window and order survive everything at once and the wrap, is it a reliable link, does it settle and drain after losses and a restart? |
| `nsp` | Do links pair up, messages arrive whole and in order, is credit respected, is the end of a link told once, does no link wait for ever? |
| `routing_layer` | Are tables ever stale, is every change told, does every packet stop, do routes converge to least cost? Is an election ever out of date, and do the stations of a LAN settle? |
| `api_server` | Does a handle always name the conversation the client means, does posted work find its object alive, do tables follow the clients, is every program reaped and its story kept, does everything that ends come to its end? |
| `services` | Does a reader of a file see one version of it, are only whole files ever visible, does every message mean the same at the other end or is its damage seen, is every lost event marked, is the cached list whole, do learned names only fill gaps, does a MOP answer go to its own request? |

A property of `routing_layer`, `services` and some of the others is the
conjunction of the properties of the modules, each stated and commented there.
A behaviour of `ddcmp_timers` is one of `TimerWheel` or one of `Ddcmp`
(`MCDdcmpTimers`); they share nothing.

Six runs show where the code does something other than its comments or
documents say:

| Run | What happens |
|---|---|
| `ptp_socket_race` | The connect timer, never stopped, expires in `reconnecting` while the receive thread runs; `connect` replaces the socket under it. |
| `ptp_ddcmp_holdoff` | `Ddcmp::timeout` hands the end of the holdoff to the engine; the datalink stays in `reconnecting`. |
| `nsp_timeout` | An application does not answer a call in time. `Connection::cr` rejects for it, with `notify` false: nobody tells the application, as the comment there says. |
| `routing_areas` | Level 1 work is not declined for a neighbour of another area: its level 1 update is taken for nodes with the same numbers here, and what is for them goes there. |
| `api_released` | A line that a program writes between `stop_layers` and `Shutdown` is handled with a connection that `NSP::stop` has freed, as `Session::stop` does not release it. |
| `names_shifted` | `set_node_name` removes the old name from the index although another node of the list has just taken it; the name is then learned for a second address. |

The passing runs stay within limits that the code has, most of them noted with
the hazards:

* A point to point circuit on demand that is started again before its receive
  thread has exited waits in `ds` for ever, as `shutdown_state` ignores a
  Start. `KeepsTrying` is about circuits that are kept up.
* A DDCMP retransmission carries its old response number, which is inside the
  peer's window again once the peer has had `modulus - qmax` messages
  acknowledged (249 with the code's numbers). The configuration in which an
  acknowledgement must mean delivery sends less.
* A router's LAN circuit that is stopped while the DR timer runs, and started
  again, waits for a timer that does not run, as `stop` leaves
  `drtimer_running_` set. The station on demand is the endnode.
* A router on a LAN does not take an adjacency down because the other's hellos
  no longer list it, not even for the empty list of a router that stops
  (`lan.cc:354`): it waits for the listen timer. An adjacency that is up says
  that the neighbour has heard this station, not that it still does.
* Node numbers that two areas share have no place in `RoutesConverge`
  (`routing_areas` shows why).
* A repeated connect confirm is not answered in `run` (`nsp.cc:951`). If the
  answer to the first is lost and the caller stays silent, the accepting end
  gives the link up while the caller believes in it. `NeverStuck` and `EndTold`
  are about each end for itself.
* With a `max_connections` such as 2 the blocks of addresses do not fill the
  space, and after enough closes one address is given out twice
  (`EvenBlocks`).
* `Connection::reject` looks at no state. `Nsp` calls it for a link that waits
  for its answer, as applications mean it; of a link that has ended meanwhile
  the address would be given back twice.
* An NSP acknowledgement exactly half the modulus old is not ordered and counts
  for the whole queue. `Modulus` is 16, and not less, for that reason.
* Between the lookup of a name in either case and its creation, and between the
  test and the act of a rename, a second writer of the same tree may slip in.
  `NoTwinsOneWriter` says what one writer can rely on.
* The connect of a remote event sink raises event 4.1 inside the call when the
  node is out of reach; a sink that wants 4.1 then connects again before
  `connecting_` is set (`logger.cc:420`), and has two links. And what arrives
  from another node's logger is filtered again by the local sinks, unlike the
  comment at `logger.cc:509`: `ShownAsMeant` speaks of events that are shown.
* A MOP software id below -2 is read (`mop/packets.cc:41`) but cannot be written
  again: `MeaningKept` starts from messages that a node builds.
* The daemon and the tool would write the same temporary file; the tool runs
  while no daemon does.

**Bounds.**

* *Timers*: two timers on three slots show two timers in one slot, one that
  wraps and one in each other position relative to the wheel; `MaxRev` = 3 allows
  a restart after a stop after an expiry.
* *Point to point*: `MaxQueue` stops the receive thread, the timers and the
  operator from posting while three items wait. A handler posts at most two, so
  every pair of crossing items and one more in front of them occurs.
* *DDCMP*: `line` lets a station add to the line while it holds fewer messages,
  `capacity` is what a lossy line holds (without it one damaged message makes
  the peer send the whole window again, over and over), `send`, `resets` and
  `maint` count inputs. `Wild` and `Wrapping`
  have the tightest modulus; the first a longer line, the second more payloads,
  so that the numbers wrap.
* *NSP*: `MaxNet` is what the network holds for a node (it loses the rest),
  `conf.max` counts calls, messages, interrupts and link service messages. Two
  links at a node and two packets each way show late copies of connect
  messages, crossed calls and a full table. A window and a held list of two
  segments with three messages of one or two segments fill both. `AddrMod`
  gives every address four uses, more than the calls need.
* *Routing*: a triangle with a dear side (a cheaper way round, and counting to
  infinity), a chain with an endnode and packets under way, a chain that loses a
  message and has periodic updates, and two areas. `conf.faults` counts
  failures, repairs, losses and packets; `MaxUpdates` makes a full update wait
  for room, as the holdoff does.
* *LAN*: one frame, or two where two routers are alone, is under way to a
  station; more are lost. Three routers show an election among those who know
  different rivals; losses, which multiply the states, are with two routers of
  changing priority, and with an area router from another area and an endnode.
* *API server*: two links, two clients, up to three requests; `MaxInbox` (2) is
  the work a client has posted, `MaxQueued` (1) the messages queued for it,
  beyond which it is closed for being slow, `IdleSteps` (1) the length of the
  idle time of a circuit on demand, `MaxHandle` (5) the handles of a client,
  more than the calls and requests can use. Enough for a client that vanishes
  with one conversation open and one call arriving, and for a program that
  writes while the node stops.
* *FAL*: blocks of two bytes; three messages of a reader beside four of a
  writer, one of which may fail, and either link may break. *Codec*: every
  class with values at the edges of its fields, cut at every byte, and for
  routing updates every word changed. *Events*: a queue of two, six events, two
  ends of the link. *Names*: three addresses beside our own, two versions of
  the list, two boots, one failure. *MOP*: five receipt numbers, which a
  hurried loop test goes round, two requests, two other stations.

**Fairness.** The node thread drains its queue and the wheel thread ticks: both
are threads that nothing stops but shutdown (weak fairness). The receive thread
notices `stopnow_` at its next poll timeout (weak). Of the network it is
assumed that an operation that is tried again and again succeeds at some time
(strong fairness of opening, connecting and the handshake), and of a DDCMP line
or a LAN that it is lossy for some time only. A DDCMP timer of one station is
not put off for ever by the other's; a LAN station's hello waits for room on the
wires but not for ever (strong). A message on a circuit is read and an update
that is due is sent (weak: an adjacency that lost messages goes down and comes
up again, which is a fault of the configuration). In the API server what is
posted is handled, a reader whose connection is shut notices, NSP ends a
disconnect, a program whose input is closed ends, and the thread that stops the
node goes on. The far end of an event link accepts and acknowledges, and a
route that comes and goes stays in the end. Fairness that TLC would have to
find with `ENABLED` over large actions is written out as "not always waiting,
or served again and again".

**Deadlock** is checked for the socket race. In the others
the system may really come to rest: the bounded traffic has been delivered, a
DDCMP datalink is stuck as the finding says, a network has no more to tell, a
node has been stopped, the users of a service have left.

## 4. The proofs

TLC covers small instances; the theorems hold for every value of the constants.
They rest on nothing but the named assumptions about the constants:

* `WheelAssumption`: at least two slots, a positive tick, intervals that are
  numbers. Restarts are bounded by `MaxRev`, any number below 2^30, so that the
  unsigned revcount does not wrap.
* `ConfAssumption`: a configuration is one of the four kinds of datalink, with
  or without verification and on demand, and its packets are packets.
* `DdcmpAssumption`: the window is at least one and smaller than the modulus
  (7 and 256 in the code); what a line holds is a number.
* `ConnectionAssumption`, `TablesAssumption`, `NspAssumption`: a modulus above
  three (4096 in the code), a window and a retry limit of at least one, at least
  one link, and initial windows, message sizes and the high parts of addresses
  are numbers. That the blocks of addresses fill the address space is no
  assumption but a hypothesis of the theorems, `EvenBlocks => ...`, as the
  configuration does not see to it.

**`TimerWheel_proof`**, for every finite or infinite set of timers, every
number of slots from two and every set of intervals:

* `TypeCorrect`: the wheel's position and every timer's slot stay in range.
* `RevInvariant`, the inductive invariant for the revcount: an item in the
  wheel thread's hands or in the queue never has a count from the future, a
  linked timer has no current item anywhere, a current item belongs to a timer
  that is armed, and no two items of a timer are current. It is needed because
  `NoStaleTimeout` alone says nothing about the item that the wheel thread has
  not posted yet, nor about the count that the next unlink will produce.
* `NoStaleTimeoutSafe`, `ArmedIsPendingSafe`: follow from it.
* `OnTimeSafe`: a linked timer is as many slots ahead of the wheel as it has
  ticks left. The argument is modular arithmetic over one turn of the wheel.
  `WheelSoundSafe` is that with `TypeCorrect`.
* `FireOrderSafe`: on each list the order of places is the order of starts.

**`PtpLink_proof`**, for every set of configurations and a work queue of any
length:

* `LinkInvariant`: the inductive invariant `IInv`. Its parts beyond the
  properties themselves are what the properties need of the queue. `Join`: at
  most one ThreadExit is queued. Without that, taking one off would not show
  that none is left. `Reports`: while the datalink is down, every up report in
  the queue has a down report behind it. `StatusAgrees` needs it when the
  circuit acts on an up report that is out of date. `Moving`: a circuit that is
  kept up sees no Stop and no CircuitStop, and before it is opened there is no
  work for its datalink, no thread and no timer. Otherwise an old item could
  move the datalink to a state that nothing leads out of.
* `JoinNeverBlocksSafe`, `CircuitAgreesSafe`, `NeverStrandedSafe`: the three
  invariants of the `ptp` run follow from `IInv`. They are
  about one step after another of two state machines, a thread, timers and an
  operator; the proof has a lemma per handler. The lemmas about sequences
  (`HasTail`, `HasConcat`, `OnceTail`, `FollowedTail` and the like) reduce a
  step of the queue to facts of the form "the queue holds such an item", after
  which the handlers are propositional.

**`DdcmpEngine_proof`, `Ddcmp_proof`**, for every modulus, window, capacity of the line and bound,
whatever is lost, damaged or delayed, with timers that fire at any time and
stations that restart:

* `LineInvAlways`, the inductive invariant. `EngineOK` is not inductive because
  a station takes or drops a message by its number alone. What keeps it from
  taking an old payload for a new one is that everything old it may still meet
  is close behind: a data message under way, or a slot of `unack_`, that is not
  newer than one before it belongs to the same session and is less than a
  window behind (`Echo`), and behind a START or STACK nothing old follows.
* `EngineOKAlways`: the window never exceeds `qmax_`, `unack_` holds a message
  for exactly the numbers in it, and payloads wait in `notsent_` only while it
  is full.
* `InOrderAlways`: nothing is delivered twice or out of order, over wrapped
  numbers and restarts of either station.

Each handler is described as a sender (`Sends`) and as a reader (`Reads`).
`DdcmpEngine_proof` does that for every handler, one lemma each. `WaySends` and
`WayReads` show that the line stays in order under any sender and any reader.

**`NspSending_proof`, `NspLink_proof`, `Nsp_proof`**, for every modulus, window,
retry limit, number of links and traffic, and whatever packet a link is handed:
nothing is assumed of what is on the network. Three layers, each about one
module.

* `NspSending_proof` is about a running link. What is in flight is at the front
  of the queue, in order, and is timed (`Queue`, `Timed`), and nothing that may
  be sent is left (`Running`). `send_blocked` sends a prefix of what is blocked;
  acknowledgements, negative ones and new credit all end in it.
* `NspLink_proof` is about a link in any state. `Good` says what each state
  needs (`Phase`): the timer for retransmission or for an answer, the connect
  message in the queue, that session control has not been told of an end. Every
  handler takes a good link to a good link or to its end, told once
  (`LinkStep`). `TableOK` says the same of a node's tables.
* `Nsp_proof`: the inductive invariant is `TablesInv`, sound tables at both
  nodes. `NeverStuckAlways`, `EndToldAlways` and `UniqueAddressesAlways` follow
  from it, and `CreditRespectedAlways` from `LinkStep`: no handler marks a
  segment as sent beyond the credit or after an XOFF.

**Model-checked only.**

* Liveness (`KeepsTrying` and the other properties with `~>`): the prover does
  not do fairness. For NSP the end of every wait is a safety property, and
  proved: whatever is waited for has a timer, and retries are bounded.
* DDCMP's `NoSilentLoss` and the refinement of `ReliableLink`: they do not hold
  for every constant. An old response number is inside the window again after
  `modulus - qmax` messages (see above), so they depend on how much is sent.
* NSP's `LinksPair` and `Delivery`: likewise, a packet that the network holds
  while an address or a number goes round once is taken for a new one. They
  hold as long as the network does not hold packets for that long, and the
  bounds of the run see to that. `TypeOK` of `Nsp` bounds the contents of the
  network.
* Routing, the codecs, FAL and the event logger: their definitions are recursive
  (the decision process over a matrix, messages field by field, a call that
  comes back to its caller), and the prover has no induction over data.
* The LAN, session control and the API server, names, MOP.

## 5. Not modelled, and why

Whole parts:

* *DDCMP message codec* (`datalink/ddcmp_packets.cc`): header bits and CRC of
  single messages. The engine sees a message or an error, and `Ddcmp` has both.
* *CTERM* (`session/cterm.cc`): line editing and terminal settings of one
  session, with no second actor but the terminal.
* *Network management listener* (`nice/nml.cc` and each layer's `nice.cc`):
  reads other components' state for a report; one message in, replies out, no
  state between. Its messages are in `NiceCodec`.
* *HTTP server and client*: request and response I/O over the same reports.
  `Names` has the outcomes of a fetch.
* *Configuration, types, JSON, logging, sockets*: parsing, formatting and
  wrappers of system calls, without protocol state.

Parts of what is modelled:

* Multinet's split of the byte stream into frames and its backlog limit, the
  telnet and serial variants of DDCMP, Ethernet I/O and padding: byte level
  I/O below the events that the models start from.
* The endnode's previous hop cache on a LAN: it changes which way a packet
  goes and nothing in the state of the circuit.
* NSP towards older phases, the round trip estimate (timers fire at any time in
  the model, so its value does not matter), counters, and `stop`.
* The text of API requests and reports, of events and of DAP statuses; names of
  NICE parameters; user names, passwords and dates of FAL.
* The construction of the node from its configuration.

Layers are composed where they share state: datalink with circuit, routing
circuits with the decision process (as reports), session control with the API
server, programs and shutdown. NSP over routing, and routing over real
datalinks, are not composed: each lower layer is the network that the upper
layer's module allows, which loses and reorders more than the lower layer does.
