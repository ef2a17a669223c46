------------------------------ MODULE MCDdcmp -------------------------------
EXTENDS Ddcmp

(* Traffic both ways over a line that loses and damages.                    *)
BothWays ==
    [modulus |-> 6, qmax |-> 2, lossy |-> TRUE, prompt |-> TRUE, send |-> [A |-> 3, B |-> 1],
     capacity |-> 3, line |-> 2, resets |-> 0, maint |-> 0]

(* Premature timers, a restart and a maintenance message with the tightest  *)
(* modulus, on a line that holds more than the window.                      *)
Wild ==
    [modulus |-> 3, qmax |-> 2, lossy |-> TRUE, prompt |-> FALSE, send |-> [A |-> 2, B |-> 0],
     capacity |-> 3, line |-> 1, resets |-> 1, maint |-> 1]

(* The same with enough payloads that the numbers wrap, on a line that      *)
(* holds the window.                                                        *)
Wrapping == [Wild EXCEPT !.send.A = 3, !.capacity = 2]

(* One payload each way and a restart.                                      *)
Restarted ==
    [modulus |-> 5, qmax |-> 2, lossy |-> TRUE, prompt |-> TRUE, send |-> [A |-> 1, B |-> 1],
     capacity |-> 3, line |-> 2, resets |-> 1, maint |-> 0]

Lines == {BothWays, Wild, Wrapping, Restarted}
=============================================================================
