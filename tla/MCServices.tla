----------------------------- MODULE MCServices -----------------------------
(***************************************************************************)
(* The services of a node that share no state, examined together: a        *)
(* behaviour chooses one of them, whose steps it takes while the others    *)
(* stand still in an initial state.  Each keeps its own configurations.    *)
(***************************************************************************)
EXTENDS MCCodec

CONSTANTS None,
    BlkSize, Sessions, Upper, NameOrder, TmpName, FalConfs,
    QueueLimit, Links, Window, Catalogue, EventConfs,
    Ids, NodeSelf, Inodes, NameConfs,
    Stations, MopSelf, Receipts, Jobs, MopConfs, Timeout, Pause

VARIABLES which,
    falConf, fs, data, ses, falLeft,
    eventConf, node, far, eventLeft,
    nameConf, server, disk, proc, db, queue, learner, nameLeft,
    mopConf, mop, job, mopWire, mopLeft

falVars == <<falConf, fs, data, ses, falLeft>>
eventVars == <<eventConf, node, far, eventLeft>>
nameVars == <<nameConf, server, disk, proc, db, queue, learner, nameLeft>>
mopVars == <<mopConf, mop, job, mopWire, mopLeft>>
allVars == <<which, vars, falVars, eventVars, nameVars, mopVars>>

Fal == INSTANCE MCFal WITH Confs <- FalConfs, conf <- falConf, left <- falLeft
Events == INSTANCE MCEventLogger WITH Confs <- EventConfs, conf <- eventConf, left <- eventLeft
Names == INSTANCE MCNames WITH Confs <- NameConfs, conf <- nameConf, left <- nameLeft,
                               Self <- NodeSelf
Mop == INSTANCE MCMop WITH Confs <- MopConfs, conf <- mopConf, left <- mopLeft,
                           Self <- MopSelf, wire <- mopWire

\* The configurations, from the module of each service; they depend on
\* none of the constants they are the values of.
FalSets == INSTANCE MCFal WITH Confs <- {}, Upper <- <<>>, NameOrder <- <<>>, TmpName <- <<>>,
                               conf <- falConf, left <- falLeft
EventSets == INSTANCE MCEventLogger WITH Confs <- {}, Catalogue <- {}, conf <- eventConf,
                                         left <- eventLeft
NameSets == INSTANCE MCNames WITH Confs <- {}, conf <- nameConf, left <- nameLeft,
                                  Self <- NodeSelf
MopSets == INSTANCE MCMop WITH Confs <- {}, conf <- mopConf, left <- mopLeft, Self <- MopSelf,
                               wire <- mopWire

FalUpper == FalSets!MCUpper
FalNameOrder == FalSets!MCNameOrder
FalTmpName == FalSets!MCTmpName
FalAll == FalSets!MCConfs
EventCatalogue == EventSets!McCatalogue
EventAll == EventSets!Passing
NameAll == NameSets!Passing
MopAll == MopSets!Small

One(S) == CHOOSE c \in S : TRUE

ServicesInit ==
    /\ which \in {"fal", "codec", "events", "names", "mop"}
    /\ Init
    /\ Fal!Init /\ (which # "fal" => falConf = One(FalConfs))
    /\ Events!Init /\ (which # "events" => eventConf = One(EventConfs))
    /\ Names!Init /\ (which # "names" => nameConf = One(NameConfs))
    /\ Mop!Init /\ (which # "mop" => mopConf = One(MopConfs).ask /\ mop.receipt = 0)

CodecStep == which = "codec" /\ Next /\ UNCHANGED <<which, falVars, eventVars, nameVars, mopVars>>
FalStep == which = "fal" /\ Fal!Next /\ UNCHANGED <<which, vars, eventVars, nameVars, mopVars>>
EventStep == which = "events" /\ Events!Next /\ UNCHANGED <<which, vars, falVars, nameVars, mopVars>>
NameStep == which = "names" /\ Names!Next /\ UNCHANGED <<which, vars, falVars, eventVars, mopVars>>
MopStep == which = "mop" /\ Mop!Next /\ UNCHANGED <<which, vars, falVars, eventVars, nameVars>>

ServicesNext == CodecStep \/ FalStep \/ EventStep \/ NameStep \/ MopStep

(* The fairness of EventLogger and of Names, for the one that is chosen.    *)
ServicesSpec ==
    /\ ServicesInit /\ [][ServicesNext]_allVars
    /\ \A l \in Links :
         /\ WF_eventVars(which = "events" /\ Events!Accepted(l))
         /\ WF_eventVars(which = "events" /\ Events!Deliver(l))
    /\ WF_eventVars(which = "events" /\ Events!RetryTimeout)
    /\ <>[]node.route
    /\ WF_nameVars(which = "names" /\ Names!Boot)
    /\ WF_nameVars(which = "names" /\ Names!Refresh)
    /\ WF_nameVars(which = "names" /\ Names!Apply)
    /\ \A p \in Names!Procs : WF_nameVars(which = "names" /\ Names!Fetching(p))
    /\ \A id \in Ids : WF_nameVars(which = "names" /\ Names!QueryEnds(id))
-----------------------------------------------------------------------------
(* A name anybody can see changes only to a whole file, whatever else the   *)
(* requesters of dnfal do and however they end (FalServer::create, rename). *)
OnlyWholeFilesAppear == Fal!OnlyWholeFilesAppear

(* What a requester is sent is one version of one file, whole and in order, *)
(* and each access is answered once (FalServer::get, create).               *)
TransfersTrue ==
    which = "fal" => Fal!TypeOK /\ Fal!ReaderSeesOneVersion /\ Fal!AnsweredOnce

(* The tree stays as its users see it: no temporary left behind, nothing    *)
(* outside the root, no twin that differs in case, no file lost to a rename *)
(* (FalServer::create, inside_root, new_file, rename).                      *)
TreeKept ==
    which = "fal" =>
      /\ Fal!NoTemporaryLeft /\ Fal!OnlyTheTreeIsServed
      /\ Fal!NoTwinsOneWriter /\ Fal!RenameKeepsOthers

(* A message is read as what was written, and can be sent on as it was read *)
(* (the encoders and decoders of routing, NSP, session, MOP, NICE and DAP). *)
MeaningKept == RoundTrip /\ SentOnUnchanged

(* A message that was cut short or changed is refused, or says less of the  *)
(* same, never something else (MissingData, the routing checksum).          *)
DamageSeen == CutRefused /\ ChangeCaught /\ CutSaysLess

(* What a remote sink is sent is what its event list names, in order, with  *)
(* every hole marked, over one link at a time, and the far node shows it to *)
(* the sinks it is for (RemoteSink, logremoteevent).                        *)
EventsAccounted ==
    which = "events" =>
      Events!TypeOK /\ Events!HolesMarked /\ Events!FiltersAsWritten
      /\ Events!OneLink /\ Events!ShownAsMeant

(* The cached node list is never part of one, and a node is asked for names *)
(* once at a time (write_node_list, NameLearner).                           *)
NamesSound ==
    which = "names" => Names!TypeOK /\ Names!CacheWhole /\ Names!BusyIsAsked

(* Names found in the network replace none, and give no name to a second    *)
(* address (Node::learn_node_name).                                         *)
LearnedFillsGaps == Names!LearnedFillsGaps

(* Each MOP request has one answer, its own, and a loop message counts only *)
(* when it went the way that was asked for (MopCircuit, LoopHandler).       *)
MopAnswers ==
    which = "mop" => Mop!TypeOK /\ Mop!OwnAnswer /\ Mop!LoopWentRound /\ Mop!WorkedOn

(* Queued events are sent in the end, and the names of the list served last *)
(* arrive (RemoteSink::timeout, NodeFetcher::fetch_all).                    *)
ServicesSettle ==
    /\ Events!QueueDrains
    /\ which = "names" => Names!NamesArrive
=============================================================================
