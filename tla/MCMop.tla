------------------------------- MODULE MCMop --------------------------------
EXTENDS Mop

Ask(kind, dest) == [kind |-> kind, dest |-> dest, packets |-> 1, fast |-> TRUE]
Loop(dest, packets, fast) == [kind |-> "loop", dest |-> dest, packets |-> packets, fast |-> fast]

Budget == [announce |-> 0, go |-> 1]

(* Two questions to one station, which announces itself as well.            *)
Questions == [ask |-> <<Ask("id", <<"s">>), Ask("counters", <<"s">>)>>, left |-> [Budget EXCEPT !.announce = 1]]

(* A loop test that anybody may answer beside one through two stations.     *)
Anybody == [ask |-> <<Loop(<<Multicast>>, 2, FALSE), Loop(<<"s", "t">>, 1, TRUE)>>, left |-> Budget]

(* Loop tests that hurry, so that the receipt numbers come round.           *)
Hurried == [ask |-> <<Loop(<<"s">>, 4, TRUE), Ask("id", <<"t">>)>>, left |-> [Budget EXCEPT !.go = 0]]

(* A loop to more stations than it may visit.                               *)
TooMany == [ask |-> <<Loop(<<"s", "t", "s", "t">>, 1, TRUE), Ask("id", <<"t">>)>>, left |-> Budget]

Small == {Questions, Anybody, Hurried, TooMany}
=============================================================================
