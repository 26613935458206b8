------------------------------- MODULE MCTimer -------------------------------
(* Two classes of timers, armed for now or for the next second, over three    *)
(* seconds: enough for a callback to add and delete timers on both sides of   *)
(* the node the walk stands on.  Apart from that the timers that users add,   *)
(* in one channel under three names, two at a time; part says which a         *)
(* behaviour is about.                                                        *)
EXTENDS Timer, UserTimers

CONSTANTS tmrA, tmrB, c1, n1, n2, n3
MCTag == {tmrA, tmrB}
MCDelay == {0, 1}

VARIABLE part

allVars == <<part, vars, utVars>>

AllInit == part \in {"core", "users"} /\ Init /\ utInit

AllNext ==
    /\ UNCHANGED part
    /\ \/ part = "core" /\ Next /\ UNCHANGED utVars
       \/ part = "users" /\ utNext /\ UNCHANGED vars

Fairness == WF_vars(timer_poll) /\ SF_vars(LoopTurn)

AllSpec == AllInit /\ [][AllNext]_allVars /\ (part = "core" => Fairness)

=============================================================================
