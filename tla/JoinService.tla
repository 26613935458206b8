----------------------------- MODULE JoinService -----------------------------
(* What chanjoin promises to the modules that ask it for a channel, without   *)
(* entries, attempts and timers.  Each module stands somewhere: it has not    *)
(* asked, it waits, it was told that the bot is there, or it was refused.     *)
(* Success is told while the bot is in the channel, and perhaps again after a *)
(* rejoin; refusal is final and for all who have asked.                       *)
CONSTANT Ref

VARIABLES standing, \* of each ref: "none", "waits", "in" or "refused"
          here      \* the bot is in the channel

serviceVars == <<standing, here>>

Held == {r \in Ref : standing[r] \in {"waits", "in"}}
Become(R, s) == standing' = [r \in Ref |-> IF r \in R THEN s ELSE standing[r]]

Init == standing = [r \in Ref |-> "none"] /\ here = FALSE

Ask(r) == r \notin Held /\ Become({r}, "waits") /\ UNCHANGED here

\* A module that was reloaded is told anew.
AskAgain(r) == r \in Held /\ Become({r}, "waits") /\ UNCHANGED here

Leave(r) == standing[r] # "none" /\ Become({r}, "none") /\ UNCHANGED here

\* All at once, or the one that asked for a channel where the bot was already
Welcome ==
    /\ here
    /\ Become(Held, "in") \/ \E r \in Held : Become({r}, "in")
    /\ UNCHANGED here

Refuse == Held # {} /\ Become(Held, "refused") /\ here' \in {here, FALSE}

Arrive == ~here /\ here' = TRUE /\ UNCHANGED standing
Depart == here /\ here' = FALSE /\ UNCHANGED standing

Next ==
    \/ \E r \in Ref : Ask(r) \/ AskAgain(r) \/ Leave(r)
    \/ Welcome \/ Refuse \/ Arrive \/ Depart

Spec == Init /\ [][Next]_serviceVars
=============================================================================
