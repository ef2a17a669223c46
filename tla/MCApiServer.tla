---------------------------- MODULE MCApiServer -----------------------------
(* The configurations that the runs consider: who calls whom, and how often. *)
(* MaxHandle is no less than the asks and calls of each.                     *)
EXTENDS ApiServer

Dst(num, name) == [bad |-> FALSE, num |-> num, name |-> name]
BadDst == [bad |-> TRUE, num |-> 0, name |-> ""]
Req(type, h, dst) == [type |-> type, h |-> h, dst |-> dst]

Program == Object(17, "FAL", App("prog", 0, 0, 0))

OnFirst(types) == {Req(t, 1, BadDst) : t \in types}
Binds == {Req("bind", 0, Dst(0, "GAME")), Req("bind", 0, Dst(0, "CHAT"))}

(* Clients that call out.                                                   *)
Calling ==
    [objects |-> {}, stops |-> TRUE, says |-> {}, wanted |-> {},
     clients |-> {1},
     requests |-> {Req("connect", 0, Dst(17, "")), Req("connect", 0, BadDst)}
                    \cup OnFirst({"accept", "reject", "disconnect", "data"}),
     left |-> [asks |-> 3, calls |-> 0, talk |-> 1]]

(* Clients that bind objects and are called.                                *)
Bound ==
    [objects |-> {}, stops |-> FALSE, says |-> {}, clients |-> {1, 2},
     wanted |-> {Dst(0, "GAME")},
     requests |-> Binds \cup {Req("accept", 2, BadDst), Req("disconnect", 1, BadDst),
                              Req("disconnect", 2, BadDst), Req("close", 1, BadDst)},
     left |-> [asks |-> 3, calls |-> 1, talk |-> 0]]

(* An object that is a program.                                             *)
Programs ==
    [objects |-> {Program}, stops |-> TRUE, requests |-> {}, clients |-> {},
     wanted |-> {Dst(17, ""), Dst(0, "TIMESTAMP")}, says |-> {"accept", "reject", "disconnect", "data"},
     left |-> [asks |-> 2, calls |-> 2, talk |-> 1]]

(* A client that goes on using a link after a call that it was too slow to  *)
(* answer.                                                                  *)
Late ==
    [Bound EXCEPT !.clients = {1}, !.wanted = {Dst(0, "GAME"), BadDst},
                  !.requests = {Req("bind", 0, Dst(0, "GAME")), Req("accept", 2, BadDst),
                                Req("data", 2, BadDst), Req("reject", 2, BadDst)},
                  !.left = [asks |-> 3, calls |-> 2, talk |-> 1]]

OnlyPrograms == {Programs}
MCConfs == {Calling, Bound, Programs, Late}
=============================================================================
