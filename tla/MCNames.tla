------------------------------ MODULE MCNames -------------------------------
EXTENDS Names

Own(id, name) == [own |-> TRUE, id |-> id, name |-> name]
Node(id, name) == [own |-> FALSE, id |-> id, name |-> name]
Source == [own |-> FALSE]

(* A list that grows, a name of the operator's, the tool while no daemon    *)
(* runs, crashes and failures.                                              *)
Grows ==
    [lines |-> <<Own(1, "X"), Source>>, valid |-> {"A", "B", "C", "D", "X"}, alone |-> TRUE,
     lists |-> <<<<Node(1, "A"), Node(2, "B")>>, <<Node(1, "A"), Node(2, "B"), Node(3, "C")>>>>,
     neighbours |-> {2}, heard |-> {Node(3, "C"), Node(2, "D"), Node(Self, "A")},
     left |-> [boot |-> 2, tool |-> 1, fail |-> 1, ask |-> 0, found |-> 0]]

(* The same, with names that come from the neighbour as well.               *)
Both == [Grows EXCEPT !.left = [boot |-> 1, tool |-> 0, fail |-> 1, ask |-> 1, found |-> 2]]

(* Questions to two neighbours and to a node a link runs to.                *)
Asks ==
    [Grows EXCEPT !.neighbours = {1, 2}, !.lists = <<<<Node(1, "A")>>>>,
                  !.heard = {Node(3, "C"), Node(2, "C"), Node(2, "long")},
                  !.left = [boot |-> 1, tool |-> 0, fail |-> 0, ask |-> 2, found |-> 2]]

(* 1 takes the name that 2 gives up.                                        *)
Renames ==
    [Asks EXCEPT !.lines = <<Source>>, !.heard = {Node(3, "B")},
                 !.lists = <<<<Node(1, "A"), Node(2, "B")>>, <<Node(1, "B"), Node(2, "C")>>>>]

Passing == {Grows, Both, Asks}
Shifted == {Renames}
=============================================================================
