----------------------------- MODULE RadiobotNet -----------------------------
(* modules/radiobot, its sockets: the poll of the stream server's statistics,  *)
(* the connection that kicks a source, the clients of the command port and the *)
(* HTTP clients that wait for the next change.  (What http.c does to its       *)
(* clients is Httpd's part: here it is what this module sees of it.)           *)
EXTENDS Naturals

CONSTANTS HttpClient,   \* memory of httpd's clients
          CmdSock,      \* memory of the command port's sockets
          MaxTimers     \* bound: timers of one name

VARIABLES
    world,        \* which of the two halves a behaviour uses
    netUp,        \* "up", "down", "crashed"
    stats_sock, kicksrc_sock,  \* "NULL", "connecting", "connected"
    rb_timers,    \* how many stats_timeout, update_stats, kicksrc_timeout there are
    asks,         \* status_nick, listener_nick are set
    http,         \* http[c]: see HttpState
    http_clients, \* http_clients[c]: entries with this client
    cmd_sock,     \* "NULL", "listening", "freed"
    cmd_clients,  \* cmd_clients[s]: see CmdState
    drops,        \* drops[s]: drop_client timers
    old_drops     \* there is one from before MODULE_FINI

statsVars == <<stats_sock, kicksrc_sock, rb_timers, asks>>
pushVars == <<http, http_clients, cmd_sock, cmd_clients, drops, old_drops>>
netVars == <<world, netUp, statsVars, pushVars>>

\* open; delay: detached; writing: a response is on its way; dead_callback; poll: its timer;
\* rerun: the handler ran again for a request that had an answer.
HttpState == [open : BOOLEAN, delay : BOOLEAN, writing : BOOLEAN, dead_callback : BOOLEAN, poll : BOOLEAN, rerun : BOOLEAN]
NoHttp == [open |-> FALSE, delay |-> FALSE, writing |-> FALSE, dead_callback |-> FALSE, poll |-> FALSE, rerun |-> FALSE]
CmdState == [open : BOOLEAN, authed : BOOLEAN, readonly : BOOLEAN, dead : BOOLEAN, showinfo : BOOLEAN]
NoCmd == [open |-> FALSE, authed |-> FALSE, readonly |-> FALSE, dead |-> FALSE, showinfo |-> FALSE]
NoTimers == [stats_timeout |-> 0, update_stats |-> 0, kicksrc_timeout |-> 0]

\* The second half of stats_sock_connect: sock_connect works or fails.
Dial(t) == \E ok \in BOOLEAN :
    /\ stats_sock' = IF ok THEN "connecting" ELSE "NULL"
    /\ rb_timers' = [t EXCEPT !.stats_timeout = @ + 1]

netInit ==
    /\ world \in {"stats", "clients"}
    /\ netUp = "up" /\ kicksrc_sock = "NULL"
    /\ \E ok \in BOOLEAN : stats_sock = IF ok THEN "connecting" ELSE "NULL"
    /\ rb_timers = [NoTimers EXCEPT !.stats_timeout = 1]
    /\ asks = [status |-> FALSE, listener |-> FALSE]
    /\ http = [c \in HttpClient |-> NoHttp] /\ http_clients = [c \in HttpClient |-> 0]
    /\ cmd_sock \in {"NULL", "listening"}
    /\ cmd_clients = [s \in CmdSock |-> NoCmd]
    /\ drops = [s \in CmdSock |-> 0] /\ old_drops = FALSE
-----------------------------------------------------------------------------
(* The statistics.                                                             *)

\* A running request is given up, with every timer.
stats_sock_connect(t) ==
    Dial(IF stats_sock # "NULL" THEN [t EXCEPT !.stats_timeout = 0, !.update_stats = 0] ELSE t)

Armed(name) == rb_timers[name] > 0
Fired(name) == [rb_timers EXCEPT ![name] = @ - 1]

\* "status" and "listener" ask for fresh numbers, once.
status(what) ==
    /\ ~asks[what] /\ rb_timers.stats_timeout < MaxTimers
    /\ asks' = [asks EXCEPT ![what] = TRUE]
    /\ stats_sock_connect(rb_timers)
    /\ UNCHANGED kicksrc_sock

Unasked == [status |-> FALSE, listener |-> FALSE]

stats_sock_error ==
    /\ stats_sock # "NULL"
    /\ stats_sock' = "NULL"
    /\ rb_timers' = [rb_timers EXCEPT !.stats_timeout = 0, !.update_stats = @ + 1]
    /\ asks' = Unasked
    /\ UNCHANGED <<netUp, kicksrc_sock>>

stats_sock_connected ==
    /\ stats_sock = "connecting"
    /\ stats_sock' = "connected"
    /\ rb_timers' = [rb_timers EXCEPT !.stats_timeout = 0]
    /\ UNCHANGED <<netUp, kicksrc_sock, asks>>

\* A response without a body answers nobody, one without a header is read through a null pointer.
stats_received(response) ==
    /\ netUp' = IF response = "headless" THEN "crashed" ELSE netUp
    /\ asks' = IF response \in {"xml", "no xml"} THEN Unasked ELSE asks

stats_sock_hangup(response) ==
    /\ stats_sock = "connected"
    /\ stats_sock' = "NULL"
    /\ stats_received(response)
    /\ rb_timers' = [rb_timers EXCEPT !.update_stats = @ + 1]
    /\ UNCHANGED kicksrc_sock

stats_sock_timeout ==
    /\ Armed("stats_timeout")
    /\ stats_sock' = "NULL"
    /\ asks' = Unasked
    /\ rb_timers' = [Fired("stats_timeout") EXCEPT !.update_stats = @ + 1]
    /\ UNCHANGED <<netUp, kicksrc_sock>>

stats_update_tmr ==
    /\ Armed("update_stats") /\ rb_timers.stats_timeout < MaxTimers
    /\ stats_sock_connect(Fired("update_stats"))
    /\ UNCHANGED <<netUp, kicksrc_sock, asks>>

kicksrc ==
    /\ kicksrc_sock = "NULL"
    /\ \E ok \in BOOLEAN :
         /\ kicksrc_sock' = IF ok THEN "connecting" ELSE "NULL"
         /\ rb_timers' = IF ok THEN [rb_timers EXCEPT !.kicksrc_timeout = @ + 1] ELSE rb_timers
    /\ UNCHANGED <<netUp, stats_sock, asks>>

\* EV_CONNECT, EV_ERROR, EV_HANGUP and the timeout.
kicksrc_sock_event ==
    /\ kicksrc_sock # "NULL"
    /\ kicksrc_sock' \in (IF kicksrc_sock = "connecting" THEN {"connected", "NULL"} ELSE {"NULL"})
    /\ rb_timers' = [rb_timers EXCEPT !.kicksrc_timeout = 0]
    /\ UNCHANGED <<netUp, stats_sock, asks>>

kicksrc_sock_timeout ==
    /\ Armed("kicksrc_timeout")
    /\ kicksrc_sock' = "NULL"
    /\ rb_timers' = Fired("kicksrc_timeout")
    /\ UNCHANGED <<netUp, stats_sock, asks>>

statsNext ==
    /\ netUp = "up"
    /\ rb_timers.update_stats < MaxTimers
    /\ \/ UNCHANGED netUp /\ \E what \in DOMAIN asks : status(what)
       \/ \E r \in {"xml", "no xml", "empty", "headless"} : stats_sock_hangup(r)
       \/ stats_sock_error \/ stats_sock_connected \/ stats_sock_timeout \/ stats_update_tmr
       \/ kicksrc \/ kicksrc_sock_event \/ kicksrc_sock_timeout
-----------------------------------------------------------------------------
(* Clients that are told of changes.                                           *)

\* The first entry goes; what is sent ends the request if that was detached.
http_stream_status_send(cl) ==
    [cl EXCEPT !.dead_callback = FALSE, !.poll = FALSE, !.delay = FALSE, !.writing = @ \/ cl.delay]
Less(n) == IF n = 0 THEN 0 ELSE n - 1

http_stream_status(c, wait) ==
    IF wait
    THEN /\ http' = [http EXCEPT ![c].delay = TRUE, ![c].dead_callback = TRUE, ![c].poll = TRUE]
         /\ http_clients' = [http_clients EXCEPT ![c] = @ + 1]
    ELSE /\ http' = [http EXCEPT ![c] = [http_stream_status_send(@) EXCEPT !.writing = TRUE]]
         /\ http_clients' = [http_clients EXCEPT ![c] = Less(@)]

SameCmd == UNCHANGED <<cmd_sock, cmd_clients, drops, old_drops>>
SameHttp == UNCHANGED <<http, http_clients>>

HttpAccept(c) ==
    /\ ~http[c].open
    /\ http' = [http EXCEPT ![c] = [NoHttp EXCEPT !.open = TRUE, !.rerun = http[c].rerun]]
    /\ UNCHANGED <<netUp, http_clients>> /\ SameCmd

\* A request, or more data while the last one's response is on its way (http.c runs its handler
\* again): MaxTimers bounds the entries.
HttpRequest(c, wait) ==
    /\ http[c].open /\ ~http[c].delay /\ http_clients[c] < MaxTimers
    /\ \/ ~http[c].writing /\ http_stream_status(c, wait)
       \/ /\ http[c].writing /\ wait
          /\ http' = [http EXCEPT ![c].delay = TRUE, ![c].dead_callback = TRUE, ![c].poll = TRUE, ![c].rerun = TRUE]
          /\ http_clients' = [http_clients EXCEPT ![c] = @ + 1]
    /\ UNCHANGED netUp /\ SameCmd

\* http_request_complete forgets that the handler detached the client once more.
HttpWritten(c) ==
    /\ http[c].writing
    /\ http' = [http EXCEPT ![c].writing = FALSE, ![c].delay = FALSE]
    /\ UNCHANGED <<netUp, http_clients>> /\ SameCmd

http_stream_status_timeout(c) ==
    /\ http[c].poll
    /\ http' = [http EXCEPT ![c] = http_stream_status_send(@)]
    /\ http_clients' = [http_clients EXCEPT ![c] = Less(@)]
    /\ UNCHANGED netUp /\ SameCmd

\* The client is freed; dead_callback takes one entry along.
http_stream_status_dead(c) ==
    /\ http[c].open
    /\ http' = [http EXCEPT ![c] = [NoHttp EXCEPT !.rerun = http[c].rerun]]
    /\ http_clients' = [http_clients EXCEPT ![c] = IF http[c].dead_callback THEN Less(@) ELSE @]
    /\ UNCHANGED netUp /\ SameCmd

Answered(c) == IF http_clients[c] > 0 /\ http[c].open THEN http_stream_status_send(http[c]) ELSE http[c]

\* Every entry is answered, or those with one UUID ("notify", "send_update"): its client had
\* better be there.
Answer(C) ==
    /\ netUp' = IF \E c \in C : http_clients[c] > 0 /\ ~http[c].open THEN "crashed" ELSE netUp
    /\ http' = [c \in HttpClient |-> IF c \in C THEN Answered(c) ELSE http[c]]
    /\ http_clients' = [c \in HttpClient |-> IF c \in C THEN 0 ELSE http_clients[c]]
    /\ SameCmd

show_updated_waiting == Answer(HttpClient)
notify(c) == http_clients[c] > 0 /\ Answer({c})

\* A new client of the command port may have the memory of one that left.
cmdsock_accept(s) ==
    /\ cmd_sock = "listening" /\ ~cmd_clients[s].open
    /\ cmd_clients' = [cmd_clients EXCEPT ![s] = [NoCmd EXCEPT !.open = TRUE]]
    /\ UNCHANGED <<netUp, cmd_sock, drops, old_drops>> /\ SameHttp

cmdsock_lost(s) ==
    /\ cmd_clients[s].open
    /\ cmd_clients' = [cmd_clients EXCEPT ![s] = NoCmd]
    /\ UNCHANGED <<netUp, cmd_sock, drops, old_drops>> /\ SameHttp

\* A password, "SHOWINFO" (other commands change nothing here), or anything from a stranger.
cmdsock_read(s, line) ==
    LET client == cmd_clients[s] IN
    /\ client.open /\ ~client.dead
    /\ \/ line = "pass" /\ cmd_clients' = [cmd_clients EXCEPT ![s].authed = TRUE] /\ UNCHANGED drops
       \/ line = "read pass" /\ cmd_clients' = [cmd_clients EXCEPT ![s].readonly = TRUE] /\ UNCHANGED drops
       \/ /\ line = "command" /\ ~client.readonly
          /\ IF client.authed THEN cmd_clients' = [cmd_clients EXCEPT ![s].showinfo = TRUE] /\ UNCHANGED drops
             ELSE /\ cmd_clients' = [cmd_clients EXCEPT ![s].dead = TRUE]
                  /\ drops' = [drops EXCEPT ![s] = @ + 1]
    /\ UNCHANGED <<netUp, cmd_sock, old_drops>> /\ SameHttp

\* Whoever has that memory now.
cmdsock_drop_client_tmr(s) ==
    /\ drops[s] > 0
    /\ drops' = [drops EXCEPT ![s] = @ - 1]
    /\ cmd_clients' = [cmd_clients EXCEPT ![s] = NoCmd]
    /\ UNCHANGED <<netUp, cmd_sock, old_drops>> /\ SameHttp

\* The command port is opened anew.  sock_bind frees the socket when it fails, and nobody looks.
\* Without a port the clients go, but not their timers.
radiobot_conf_reload(port, bound) ==
    /\ cmd_sock' = IF ~port THEN "NULL" ELSE IF bound THEN "listening" ELSE "freed"
    /\ netUp' = IF port /\ ~bound THEN "crashed" ELSE netUp
    /\ cmd_clients' = IF port THEN cmd_clients ELSE [s \in CmdSock |-> NoCmd]
    /\ UNCHANGED <<drops, old_drops>> /\ SameHttp

\* MODULE_FINI answers who waits and closes the sockets, and leaves the drop_client timers.
RadiobotFini ==
    /\ netUp' = IF \E c \in HttpClient : http_clients[c] > 0 /\ ~http[c].open THEN "crashed" ELSE "down"
    /\ http' = [c \in HttpClient |-> Answered(c)] /\ http_clients' = [c \in HttpClient |-> 0]
    /\ cmd_sock' = "NULL" /\ cmd_clients' = [s \in CmdSock |-> NoCmd]
    /\ old_drops' = (old_drops \/ \E s \in CmdSock : drops[s] > 0)
    /\ drops' = [s \in CmdSock |-> 0]

RadiobotInit ==
    /\ netUp' = "up" /\ cmd_sock' \in {"NULL", "listening"}
    /\ UNCHANGED <<http, http_clients, cmd_clients, drops, old_drops>>

\* A timer with a function of the module that is gone.
OldDrop == old_drops /\ netUp' = "crashed" /\ UNCHANGED pushVars

pushNext ==
    \/ /\ netUp = "up"
       /\ \/ \E c \in HttpClient :
               \/ HttpAccept(c) \/ HttpWritten(c) \/ http_stream_status_timeout(c) \/ http_stream_status_dead(c) \/ notify(c)
               \/ \E wait \in BOOLEAN : HttpRequest(c, wait)
          \/ show_updated_waiting
          \/ \E s \in CmdSock :
               \/ cmdsock_accept(s) \/ cmdsock_lost(s) \/ cmdsock_drop_client_tmr(s)
               \/ drops[s] < MaxTimers /\ \E line \in {"pass", "read pass", "command"} : cmdsock_read(s, line)
          \/ \E port, bound \in BOOLEAN : radiobot_conf_reload(port, bound)
          \/ RadiobotFini
    \/ netUp = "down" /\ RadiobotInit
    \/ netUp # "crashed" /\ OldDrop

netNext ==
    /\ UNCHANGED world
    /\ \/ world = "stats" /\ statsNext /\ UNCHANGED pushVars
       \/ world = "clients" /\ pushNext /\ UNCHANGED statsVars

netSpec == netInit /\ [][netNext]_netVars
-----------------------------------------------------------------------------
(* Properties.                                                                 *)

\* The statistics go on being polled: there is always a timer, unless the server has the request.
\* A timeout is pending while a connection is being made, of the source's kick exactly then.
Polling ==
    /\ stats_sock = "NULL" => rb_timers.stats_timeout + rb_timers.update_stats > 0
    /\ stats_sock = "connecting" => rb_timers.stats_timeout > 0
    /\ rb_timers.kicksrc_timeout = IF kicksrc_sock = "connecting" THEN 1 ELSE 0

\* An HTTP client that waits has one entry, others have none, no entry outlives its client and no
\* timer does: until the handler ran again for a request it had answered.
Entries ==
    \A c \in HttpClient :
        /\ ~http[c].rerun => http_clients[c] = IF http[c].delay THEN 1 ELSE 0
        /\ http[c].poll => http[c].open /\ http[c].dead_callback
        /\ ~http[c].rerun /\ http[c].delay => http[c].poll

\* A client that is dead to us is dropped in the end.
Dropped == netUp = "up" => \A s \in CmdSock : cmd_clients[s].dead => drops[s] > 0
RadiobotNetSound == http \in [HttpClient -> HttpState] /\ cmd_clients \in [CmdSock -> CmdState] /\ Polling /\ Entries /\ Dropped
=============================================================================
