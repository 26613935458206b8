---------------------------- MODULE RadiobotRemote ----------------------------
(* modules/radiobotremote: another bot that shows in its own channel what      *)
(* radiobot's command port tells it, and sends wishes back.  The port's side   *)
(* is what cmdsock_read and show_updated do (RadiobotNet); lines arrive in     *)
(* order.  The statistics are asked for only when somebody wants them.         *)
EXTENDS Naturals, Sequences

CONSTANTS DJ, PLAYLIST,   \* nicks on the air, nobody
          MaxLines        \* bound: lines on their way

\* A nick is none of the port's words, and no null pointer.
ASSUME RemoteAssumption == {"SUCCESS", "ERR", "NULL"} \cap (DJ \cup {PLAYLIST}) = {}

VARIABLES
    r_cmd_sock,   \* "NULL", "connecting", "connected"
    cmd_sock_active,
    r_timers,     \* how many cmd_client_reconnect, cmd_client_connect_timeout, stats_timeout
    lines,        \* from the port: "SUCCESS", "ERR", or who is on the air, an update up to SHOWINFO_COMPLETE
    mod,          \* radiobot's moderator
    r_current_mod,\* what is shown here, "NULL": nothing yet
    r_stats_sock,
    r_asks,       \* status_nick, listener_nick are set
    \* what happened:
    told,         \* this connection has got an update
    renamed,      \* the moderator took another nick after the last one was sent
    unanswered    \* a poll ended without answering

linkVars == <<r_cmd_sock, cmd_sock_active, lines, mod, r_current_mod, told, renamed>>
remoteVars == <<linkVars, r_timers, r_stats_sock, r_asks, unanswered>>
SameStats == UNCHANGED <<r_stats_sock, r_asks, unanswered>>

Who == DJ \cup {PLAYLIST}
NoTimer == [reconnect |-> 0, connect_timeout |-> 0, stats_timeout |-> 0]

\* cmd_client_connect closes what there is; the old timers stay.
cmd_client_connect(t) ==
    /\ cmd_sock_active' = FALSE /\ lines' = <<>> /\ told' = FALSE
    /\ \/ r_cmd_sock' = "connecting" /\ r_timers' = [t EXCEPT !.connect_timeout = @ + 1]
       \/ r_cmd_sock' = "NULL" /\ r_timers' = [t EXCEPT !.connect_timeout = 0, !.reconnect = 1]
    /\ UNCHANGED <<mod, r_current_mod, renamed>>

remoteInit ==
    /\ r_cmd_sock = "connecting" /\ cmd_sock_active = FALSE
    /\ r_timers = [NoTimer EXCEPT !.connect_timeout = 1]
    /\ lines = <<>> /\ mod = PLAYLIST /\ r_current_mod = "NULL"
    /\ r_stats_sock = "NULL" /\ r_asks = [status |-> FALSE, listener |-> FALSE]
    /\ told = FALSE /\ renamed = FALSE /\ unanswered = FALSE
-----------------------------------------------------------------------------
(* The connection to the command port.                                         *)

cmd_client_schedule_reconnect == r_timers' = [r_timers EXCEPT !.connect_timeout = 0, !.reconnect = 1]

\* EV_ERROR, EV_HANGUP.
cmd_client_lost ==
    /\ r_cmd_sock # "NULL"
    /\ r_cmd_sock' = "NULL" /\ cmd_sock_active' = FALSE /\ lines' = <<>> /\ told' = FALSE
    /\ cmd_client_schedule_reconnect
    /\ UNCHANGED <<mod, r_current_mod, renamed>> /\ SameStats

\* EV_CONNECT: PWD and SHOWINFO go out.  The port answers, or drops who has the wrong password.
cmd_client_connected ==
    /\ r_cmd_sock = "connecting"
    /\ r_cmd_sock' = "connected"
    /\ r_timers' = [r_timers EXCEPT !.connect_timeout = 0]
    /\ \/ lines' = <<"SUCCESS", mod>> /\ renamed' = FALSE
       \/ lines' = <<"ERR">> /\ UNCHANGED renamed
    /\ UNCHANGED <<cmd_sock_active, mod, r_current_mod, told>> /\ SameStats

cmd_client_read ==
    /\ lines # <<>> /\ lines' = Tail(lines)
    /\ cmd_sock_active' = (cmd_sock_active \/ Head(lines) = "SUCCESS")
    /\ r_current_mod' = IF Head(lines) \in {"SUCCESS", "ERR"} THEN r_current_mod ELSE Head(lines)
    /\ told' = (told \/ Head(lines) \notin {"SUCCESS", "ERR"})
    /\ UNCHANGED <<r_cmd_sock, r_timers, mod, renamed>> /\ SameStats

cmd_client_timeout ==
    /\ r_timers.connect_timeout > 0
    /\ r_cmd_sock' = "NULL" /\ lines' = <<>> /\ told' = FALSE
    /\ cmd_client_schedule_reconnect
    /\ UNCHANGED <<cmd_sock_active, mod, r_current_mod, renamed>> /\ SameStats

cmd_client_reconnect_tmr ==
    /\ r_timers.reconnect > 0
    /\ cmd_client_connect([r_timers EXCEPT !.reconnect = @ - 1])
    /\ SameStats

radiobotremote_conf_reload ==
    /\ r_timers.connect_timeout < 2
    /\ cmd_client_connect(r_timers)
    /\ SameStats

\* radiobot's moderator changes, which it tells its clients (they are authed once the first line
\* is), or only takes another nick, which it does not.  So a late client may show the old nick.
ModChanges(w, told_so) ==
    /\ mod' = w /\ w # mod
    /\ told_so \/ {mod, w} \subseteq DJ
    /\ Len(lines) < MaxLines
    /\ lines' = IF told_so /\ r_cmd_sock = "connected" /\ lines # <<"ERR">> THEN Append(lines, w) ELSE lines
    /\ renamed' = ~told_so
    /\ UNCHANGED <<r_cmd_sock, r_timers, cmd_sock_active, r_current_mod, told>> /\ SameStats
-----------------------------------------------------------------------------
(* The statistics.                                                             *)

\* No timer when the connection cannot be made.
r_stats_sock_connect(t) ==
    \/ r_stats_sock' = "connecting" /\ r_timers' = [t EXCEPT !.stats_timeout = @ + 1] /\ UNCHANGED unanswered
    \/ r_stats_sock' = "NULL" /\ r_timers' = t /\ unanswered' = TRUE

\* Refused while somebody waits for the same.
r_status(what) ==
    /\ ~r_asks[what] /\ r_timers.stats_timeout < 2
    /\ r_asks' = [r_asks EXCEPT ![what] = TRUE]
    /\ r_stats_sock_connect(IF r_stats_sock # "NULL" THEN [r_timers EXCEPT !.stats_timeout = 0] ELSE r_timers)
    /\ UNCHANGED linkVars

\* EV_ERROR, and the timeout, which stays armed when the response was faster.
r_stats_failed ==
    /\ \/ r_stats_sock # "NULL" /\ r_timers' = [r_timers EXCEPT !.stats_timeout = 0]
       \/ r_timers.stats_timeout > 0 /\ r_timers' = [r_timers EXCEPT !.stats_timeout = @ - 1]
    /\ r_stats_sock' = "NULL"
    /\ r_asks' = [what \in DOMAIN r_asks |-> FALSE]
    /\ UNCHANGED <<linkVars, unanswered>>

r_stats_connected ==
    /\ r_stats_sock = "connecting" /\ r_stats_sock' = "connected"
    /\ r_timers' = [r_timers EXCEPT !.stats_timeout = 0]
    /\ UNCHANGED <<linkVars, r_asks, unanswered>>

\* Whoever asked goes on waiting when the response is empty or no XML.  (Without a header the
\* program ends here, as in radiobot.)
r_stats_received(good) ==
    /\ r_stats_sock = "connected" /\ r_stats_sock' = "NULL"
    /\ IF good THEN r_asks' = [what \in DOMAIN r_asks |-> FALSE] /\ UNCHANGED unanswered
       ELSE UNCHANGED r_asks /\ unanswered' = TRUE
    /\ UNCHANGED <<linkVars, r_timers>>

remoteNext ==
    \/ cmd_client_lost \/ cmd_client_connected \/ cmd_client_read \/ cmd_client_timeout
    \/ cmd_client_reconnect_tmr \/ radiobotremote_conf_reload
    \/ \E w \in Who, told_so \in BOOLEAN : ModChanges(w, told_so)
    \/ \E what \in DOMAIN r_asks : r_status(what)
    \/ r_stats_failed \/ r_stats_connected \/ \E good \in BOOLEAN : r_stats_received(good)

remoteSpec == remoteInit /\ [][remoteNext]_remoteVars
-----------------------------------------------------------------------------
(* Properties.                                                                 *)

\* The connection is made anew whatever happens; a timeout fires only while there is a socket for
\* it to close; wishes are taken only over a connection that was accepted.
Reconnects ==
    /\ r_cmd_sock = "NULL" => r_timers.reconnect > 0
    /\ r_cmd_sock = "connecting" <=> r_timers.connect_timeout > 0
    /\ cmd_sock_active => r_cmd_sock = "connected"

\* A bot that is connected and has read all lines shows who is on the air, unless the last change
\* was of his nick.  Whoever asked for the statistics will be answered, unless a poll came to
\* nothing: then nobody polls again for him.
ShowsTruth == told /\ lines = <<>> /\ ~renamed => r_current_mod = mod
Served == (\E what \in DOMAIN r_asks : r_asks[what]) /\ ~unanswered => r_stats_sock # "NULL"
RemoteSound == r_current_mod \in Who \cup {"NULL"} /\ Reconnects /\ ShowsTruth /\ Served
=============================================================================
