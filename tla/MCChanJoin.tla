------------------------------ MODULE MCChanJoin ------------------------------
(* Instances of ChanJoin: two refs, of which one asks with rejoin_once; and,   *)
(* with the same chanjoin, a spy of chanspy in the place of the other.  Apart  *)
(* from that, chanspy's connections; part says which a behaviour is about.     *)
EXTENDS Chanspy, TLC

CONSTANTS reg, request, p1, first

Refs == {reg, request}

VARIABLE part

allVars == <<part, vars, csVars, netVars>>

AllInit ==
    /\ part \in {"joins", "chanspy", "chanspy net"} /\ csInit /\ cnInit
    /\ source[p1] = first /\ p1 \in password
    /\ part # "chanspy net" \/ password # Peer => \A p \in Peer : source[p] = first
    /\ part # "chanspy net" => password = Peer

AllNext ==
    /\ UNCHANGED part
    /\ \/ part = "joins" /\ Next /\ UNCHANGED <<csVars, netVars>>
       \/ part = "chanspy" /\ csNext /\ UNCHANGED netVars
       \/ part = "chanspy net" /\ cnNext /\ UNCHANGED <<vars, csVars>>

AllSpec == AllInit /\ [][AllNext]_allVars /\ (part = "joins" => Fairness)

\* A first attempt ends, even if the server never answers (chanjoin_join_timeout).
JoinEnds == part = "joins" /\ state = "JOIN_PENDING" ~> state # "JOIN_PENDING"

\* Entries are sound and modules are told, and so are spies, in a channel and over the network
\* (chanjoin.c, chanspy.c).
JoinsSound == ChanJoinSound /\ ChanspySound /\ ChanspyNetSound
=============================================================================
