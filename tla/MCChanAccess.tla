------------------------------ MODULE MCChanAccess ------------------------------
(* Four beginnings: nothing saved; an admin, a member of a group and an        *)
(* account without a password, on which commands, writes and crashes go; and a *)
(* channel with an owner, a master and an admin who is not on its list, once   *)
(* to change it in every way and once to write and restart in between.         *)
(* Apart from that, on their own: what channels keep for a module, how         *)
(* somebody gets a channel registered, and how many passwords may be tried;    *)
(* part says which a behaviour is about.                                       *)
EXTENDS ChanAccess, ChanModules, ChanRequest, AuthPolicer

CONSTANTS u1, u2, u3, n1, n2, n3, g1, c1, c2, c3, m1
MCUser == {u1, u2, u3}
MCName == {n1, n2, n3}
MCGroup == {ADMINS, g1}
MCMask == {m1}
MCMatches == [m \in {m1} |-> {u2}]
MCChan == {c1}

Saves(a, u) == [id |-> a, pass |-> u, login_masks |-> {}]
Two == [n \in {n1, n2} |-> IF n = n1 THEN Saves(1, u1) ELSE Saves(2, u2)]
Three == [n \in MCName |-> IF n = n3 THEN Saves(3, u3) ELSE Two[n]]
Has(l) == [level |-> l, suspended |-> FALSE]
Admin1 == [g \in {ADMINS} |-> {n1}]
Listed == [c \in {c1} |-> [n \in {n2, n3} |-> Has(IF n = n2 THEN 500 ELSE 300)]]

MCWorlds ==
  {[accounts |-> Empty, groups |-> Empty, chanregs |-> Empty, chan |-> {c1}, level |-> {300, 500},
    name |-> {n1, n2}, group |-> {}, mask |-> {}, user |-> {u1, u2},
    staff |-> {TRUE}, room |-> 5, boots |-> 1],
   [accounts |-> Two, groups |-> [g \in MCGroup |-> IF g = ADMINS THEN {n1} ELSE {n2}], chanregs |-> Empty,
    chan |-> {}, level |-> {}, name |-> MCName, group |-> MCGroup, mask |-> MCMask, user |-> {u1, u2},
    staff |-> {TRUE}, room |-> 3, boots |-> 2],
   [accounts |-> Three, groups |-> Admin1, chanregs |-> Listed, chan |-> {c1}, level |-> {200, 300, 500, 65836},
    name |-> {}, group |-> {}, mask |-> {}, user |-> MCUser,
    staff |-> BOOLEAN, room |-> 4, boots |-> 0],
   [accounts |-> Three, groups |-> Admin1, chanregs |-> Listed, chan |-> {c1}, level |-> {400},
    name |-> {}, group |-> {}, mask |-> {}, user |-> MCUser,
    staff |-> {FALSE}, room |-> 2, boots |-> 1]}

VARIABLE part

partVars == <<part, allVars, cmVars, crVars, apVars>>

AllInit ==
    /\ part \in {"access", "modules", "request", "tries"} /\ chanInit /\ cmInit /\ crInit /\ apInit
    /\ part # "access" => world.accounts = Empty
    /\ part # "request" => \A n \in RNick : accountOf[n] = NoAccount

AllNext ==
    /\ UNCHANGED part
    /\ \/ part = "access" /\ chanNext /\ UNCHANGED <<cmVars, crVars, apVars>>
       \/ part = "modules" /\ cmNext /\ UNCHANGED <<allVars, crVars, apVars>>
       \/ part = "request" /\ crNext /\ UNCHANGED <<allVars, cmVars, apVars>>
       \/ part = "tries" /\ apNext /\ UNCHANGED <<allVars, cmVars, crVars>>

AllSpec == AllInit /\ [][AllNext]_partVars

\* What chanreg keeps for modules, whom chanrequest makes an owner and how often auth compares passwords is
\* what commands and configuration asked for (chanreg.c, chanrequest.c, policer.c).
ServicesSound == ChanModulesSound /\ ChanRequestSound /\ AuthPolicerSound
=============================================================================
