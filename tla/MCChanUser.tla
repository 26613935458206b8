------------------------------ MODULE MCChanUser ------------------------------
(* The bot and one or two other nicks.  A third nick is what somebody can be   *)
(* renamed to while another is there, a second channel what keeps a user alive *)
(* who leaves the first, three lines what a replayed PART or KICK of the bot   *)
(* cuts short; the worlds have one of the three each.                          *)
EXTENDS ChanUser

CONSTANTS n1, n2, n3, c1, c2, m1
MCNick == {n1, n2, n3}
MCChan == {c1, c2}
MCMask == {m1}
MCWorlds == {[nick |-> MCNick, chan |-> {c1}, mask |-> {}, lines |-> 1],
             [nick |-> {n1, n2}, chan |-> {c1}, mask |-> MCMask, lines |-> 3],
             [nick |-> {n1, n2}, chan |-> MCChan, mask |-> {}, lines |-> 1]}
=============================================================================
