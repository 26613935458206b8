------------------------------ MODULE TimerSpec ------------------------------
(* What timer.c promises to the rest of the bot, without its list: a timer   *)
(* that is armed fires once, not before its time, unless it is cancelled      *)
(* first; a callback runs to its end before another one starts, and nothing  *)
(* cancels a callback that has started.                                       *)
EXTENDS Integers

CONSTANTS Tag,     \* what timer_del matches on besides the time: bound, name, func and data
          Id,      \* identities of timers
          Time     \* seconds a timer can be set to

VARIABLES armed,   \* timers that have neither fired nor been cancelled
          running, \* the timer whose callback is executing, or NoTimer
          clock    \* the bot's notion of the current second

specVars == <<armed, running, clock>>

NoTimer == [id |-> -1]

Init ==
    /\ armed = {}
    /\ running = NoTimer
    /\ clock \in Nat

Tick ==
    /\ clock' > clock
    /\ UNCHANGED <<armed, running>>

\* A new timer never reuses the identity of one that is armed or running.
Arm(i, tag, time) ==
    /\ i # running.id
    /\ \A t \in armed : t.id # i
    /\ armed' = armed \cup {[id |-> i, tag |-> tag, time |-> time]}
    /\ UNCHANGED <<running, clock>>

Cancel(gone) ==
    /\ armed' = armed \ gone
    /\ UNCHANGED <<running, clock>>

Fire(t) ==
    /\ running = NoTimer
    /\ t.time <= clock
    /\ armed' = armed \ {t}
    /\ running' = t
    /\ UNCHANGED clock

Return ==
    /\ running # NoTimer
    /\ running' = NoTimer
    /\ UNCHANGED <<armed, clock>>

Next ==
    \/ Tick
    \/ \E i \in Id, tag \in Tag, time \in Time : Arm(i, tag, time)
    \/ \E gone \in SUBSET armed : Cancel(gone)
    \/ \E t \in armed : Fire(t)
    \/ Return

Spec == Init /\ [][Next]_specVars
=============================================================================
