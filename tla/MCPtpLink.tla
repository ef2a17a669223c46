----------------------------- MODULE MCPtpLink ------------------------------
(* The configurations that the runs consider.                               *)
EXTENDS PtpLink

Mixed == {"init", "badinit", "verify", "hello", "alien"}
Refusals == {"init", "verify", "wrong", "imposed"}

Listen == [mode |-> "listen", verify |-> TRUE, onDemand |-> FALSE, packets |-> Mixed]
Connecting == [Listen EXCEPT !.mode = "connect"]
Serial == [Listen EXCEPT !.mode = "ddcmp"]
Udp == [Listen EXCEPT !.mode = "udp", !.verify = FALSE]
ListenOnDemand == [Listen EXCEPT !.onDemand = TRUE]

AllConfs == {Connecting, Serial, Udp, ListenOnDemand}
                \cup {[c EXCEPT !.packets = Refusals] : c \in {Listen, Connecting, Udp}}
OnlyConnecting == {[Connecting EXCEPT !.packets = {"init", "verify"}]}
OnlySerial == {[Serial EXCEPT !.packets = {"init", "verify"}]}
=============================================================================
