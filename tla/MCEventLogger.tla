--------------------------- MODULE MCEventLogger ---------------------------
EXTENDS EventLogger

Up == <<4, 10>>
Down == <<4, 15>>
Other == <<5, 0>>
McCatalogue == {Lost, Unreachable, Up, Down, <<4, 11>>, Other, <<31, 0>>}

Nobody == <<>>
None3 == [t \in SinkTypes |-> Nobody]
No3 == [t \in SinkTypes |-> {}]

(* 4.10-11,15 for the monitor, everything of class 4 but 4.1 for the file.  *)
Overflows ==
    [sinks |-> <<"local", "remote">>, file |-> All, known |-> TRUE, raised |-> {Up}, steady |-> FALSE,
     remote |-> [None3 EXCEPT !["monitor"] = <<Entry(4, 10, 11), Entry(None, 15, None)>>,
                              !["file"] = <<Entry(31, 0, None), Entry(4, 2, 31)>>],
     meant |-> [No3 EXCEPT !["monitor"] = {Up, Down, <<4, 11>>}, !["file"] = {Up, Down, <<4, 11>>}],
     far |-> [None3 EXCEPT !["monitor"] = All],
     left |-> [log |-> 6, again |-> 0, ends |-> 2, route |-> 0, stop |-> TRUE]]

(* Every kind of event, and a route that comes and goes.                    *)
Kinds == [Overflows EXCEPT !.raised = {Up, Down, <<4, 11>>, Other}, !.sinks = <<"remote", "local">>,
                           !.left = [log |-> 2, again |-> 1, ends |-> 1, route |-> 2, stop |-> TRUE]]

Unknown == [Kinds EXCEPT !.known = FALSE]

(* 4.* : the sink asks for the event its own connecting raises.             *)
Everything ==
    [Kinds EXCEPT !.remote = [None3 EXCEPT !["console"] = <<Entry(4, 0, 31)>>], !.raised = {Up},
                  !.meant = [No3 EXCEPT !["console"] = {Unreachable, Up, Down, <<4, 11>>}]]

(* The same, but the way is lost only under a link that is up.              *)
Steady == [Everything EXCEPT !.steady = TRUE, !.left.log = 3, !.left.ends = 0]

Passing == {Overflows, Kinds, Unknown, Steady}
=============================================================================
