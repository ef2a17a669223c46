------------------------------- MODULE MCNsp -------------------------------
(* The situations in which TLC examines Nsp.  Calls: A calls twice, and a   *)
(* late copy of the first connect message may come during the second call.  *)
EXTENDS Nsp

High(k) == [i \in 1 .. MaxConns |-> k]

Limits(c, m, i, s) == [connect |-> c, message |-> m, interrupt |-> i, service |-> s]

Calls ==
    [open |-> FALSE, foreign |-> FALSE, flow |-> "none", start |-> 1,
     highs |-> {High(MaxHigh)}, callers |-> {"A"}, max |-> Limits(2, 0, 0, 0), sizes |-> {1},
     offers |-> {}, leavers |-> {}, answers |-> {"cc"}, lossy |-> TRUE, prompt |-> FALSE]

(* A call with a message; either side may leave.                            *)
CallAndSend == [Calls EXCEPT !.max = Limits(1, 1, 0, 0), !.leavers = Nodes,
                               !.answers = {"cr", "cc", "cl"}]

(* A link that is open, with numbers about to wrap.                         *)
Transfer ==
    [Calls EXCEPT !.open = TRUE, !.start = Modulus - 1, !.max = Limits(0, 3, 0, 0),
                  !.sizes = {1, 2}]
BothWays == [Transfer EXCEPT !.max = Limits(0, 2, 0, 0), !.callers = Nodes]
Interrupts == [Transfer EXCEPT !.max = Limits(0, 0, 2, 1), !.foreign = TRUE,
                             !.offers = {<<"int", 1>>, <<"int", -1>>}]
Delays == [Transfer EXCEPT !.max = Limits(0, 2, 0, 0), !.foreign = TRUE, !.callers = {"B"}]
Credit(f) ==
    [Transfer EXCEPT !.foreign = TRUE, !.flow = f,
                     !.offers = {<<"same", 1>>, <<"xoff", 1>>, <<"xon", -1>>},
                     !.max = Limits(0, 1, 0, 2), !.sizes = {2}]

(* Both call while a link is open: one of the calls may find no address.    *)
Full == [Transfer EXCEPT !.start = 1, !.callers = Nodes, !.max = Limits(2, 0, 0, 0)]

(* A call on a network that loses one packet, and timers that outlast it.   *)
OneLoss == [Calls EXCEPT !.max = Limits(1, 0, 0, 0),
                         !.lossy = FALSE, !.prompt = TRUE]

Situations ==
    {Calls, CallAndSend, Transfer, BothWays, Interrupts, Delays, Credit("seg"), Credit("msg"),
     Full, OneLoss}
OnlyCalls == {CallAndSend}
=============================================================================
