--------------------------- MODULE MCRadioPlaylist ---------------------------
(* RadioPlaylist for TLC: what people ask for, in four groups that meet each   *)
(* other.  Apart from that, on their own: who is on the air, radiobot's        *)
(* sockets and the remote bot; part says which a behaviour is about.           *)
EXTENDS RadioPlaylist, Radiobot, RadiobotNet, RadiobotRemote

MCWorlds == {{"on", "off", "countdown", "skip", "unload", "scan"},
             {"on", "off", "songvote", "genrevote"},
             {"on", "play", "songs", "blacklist", "reload"},
             {"on", "countdown", "genrevote"}}

VARIABLE part

allVars == <<part, vars, rbVars, netVars, remoteVars>>

AllInit ==
    /\ part \in {"playlist", "on air", "sockets", "remote"}
    /\ Init /\ rbInit /\ netInit /\ remoteInit
    /\ part # "playlist" => asked = {"on", "countdown", "genrevote"} /\ song_vote = NoSongVote /\ playlist = NONE
    /\ part # "on air" => genre
    /\ part # "sockets" => world = "clients" /\ stats_sock = "NULL" /\ cmd_sock = "NULL"

AllNext ==
    /\ UNCHANGED part
    /\ \/ part = "playlist" /\ Next /\ UNCHANGED <<asked, rbVars, netVars, remoteVars>>
       \/ part = "on air" /\ rbNext /\ UNCHANGED <<vars, netVars, remoteVars>>
       \/ part = "sockets" /\ netNext /\ UNCHANGED <<vars, rbVars, remoteVars>>
       \/ part = "remote" /\ remoteNext /\ UNCHANGED <<vars, rbVars, netVars>>

AllSpec == AllInit /\ [][AllNext]_allVars /\ (part = "playlist" => Fairness)

\* What radiobot and the remote bot promise (radiobot.c, radiobotremote.c).
RadiobotSound == OnAirSound /\ RadiobotNetSound /\ RemoteSound

\* The main thread comes back from every wait for the stream thread, unless a signal was lost or
\* the countdown outlived its stream.
MainReturns ==
    (part = "playlist" /\ main \notin {"idle", "gone"})
        ~> (main \in {"idle", "gone"} \/ mishaps \cap {"lost", "revived"} # {})
=============================================================================
