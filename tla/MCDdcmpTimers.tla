--------------------------- MODULE MCDdcmpTimers ----------------------------
(***************************************************************************)
(* The DDCMP engines and the timer wheel, examined together: a behaviour   *)
(* chooses one of them, whose steps it takes while the other stands still. *)
(* To an engine the wheel is an expiry that comes at some time after the   *)
(* timer was started, and not after it was stopped: what NoStaleTimeout    *)
(* and ArmedFires say of the wheel.                                        *)
(***************************************************************************)
EXTENDS MCDdcmp, TimerWheel

VARIABLE which

BothInit ==
    /\ which \in {"ddcmp", "wheel"}
    /\ Init /\ (which # "ddcmp" => conf = Wild)
    /\ WheelInit

BothNext ==
    \/ which = "ddcmp" /\ Next /\ UNCHANGED <<which, wheelVars>>
    \/ which = "wheel" /\ WheelNext /\ UNCHANGED <<which, vars>>

(* The fairness of Ddcmp and of TimerWheel, for the one that is chosen.     *)
BothSpec ==
    /\ BothInit /\ [][BothNext]_<<which, vars, wheelVars>>
    /\ <>(which = "ddcmp" => ~lossy)
    /\ \A i \in Stations :
        /\ []<>(which = "ddcmp" => ~Halted(i)) \/ []<><<Opens(i)>>_vars
        /\ []<>~UnderWay(i) \/ []<><<Taken(i)>>_vars
        /\ <>[]~Due(i) \/ []<><<Expire(i)>>_vars
    /\ WF_wheelVars(which = "wheel" /\ NodeThread)
    /\ WF_wheelVars(which = "wheel" /\ WheelThread)
=============================================================================
