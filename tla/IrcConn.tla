------------------------------- MODULE IrcConn -------------------------------
(* irc.c and the core handlers of irc_handler.c: the life of the connection  *)
(* to the server.  Each callback of the main loop -- a socket event, a line,  *)
(* a timer -- is one step.  Timers count down in ticks; a tick passes only    *)
(* when no timer is due, because every turn of the loop runs timer_poll.      *)
(* A closed socket stays a zombie until sock_poll frees it, and its address   *)
(* may then be handed out again.                                              *)
EXTENDS Integers, FiniteSets

CONSTANTS Sock,         \* addresses of sockets
          NULL,
          MaxTries,     \* uplink/max_tries; 0 means no limit
          ConnectWait,  \* ticks until server_connect_timeout (15 s)
          PingWait,     \* ticks until server_ping (180 s)
          StonedWait,   \* ticks until server_stoned (360 s)
          ClosedWait, ErrorWait, TimeoutWait \* irc_schedule_reconnect's 5, 15 and 30 s

ASSUME IrcConnAssumption ==
    /\ NULL \notin Sock
    /\ MaxTries \in Nat
    /\ ConnectWait \in Nat \ {0}
    /\ PingWait \in Nat \ {0}
    /\ StonedWait \in Nat
    /\ StonedWait > PingWait + ConnectWait
    /\ {ClosedWait, ErrorWait, TimeoutWait} \subseteq Nat

VARIABLES server_sock,  \* bot.server_sock
          socks,        \* each address's socket
          timers,       \* the timers bound to &bot
          server_tries,
          quit_poll,
          ready,        \* bot.ready
          welcomed,     \* 001 was handled on this connection
          pinged,       \* a PING of ours is unanswered on this connection
          modules_told, \* the modules' view: connected_funcs called, disconnected_funcs not since
          known,        \* whose lines built the channel state: "this" connection's, an "old" one's,
                        \* or the line that the last reconnect "cut" off
          refused,      \* the last attempt failed at once, in sock_create or sock_connect
          quiet,        \* ticks since the last PONG, or since this attempt; history only
          failed        \* assertions that failed; history only

connection == <<server_sock, socks>>
session == <<ready, welcomed, pinged, modules_told>>
vars == <<connection, timers, server_tries, quit_poll, session, known, refused, quiet, failed>>

TimerName == {"connect_timeout", "ping", "stoned", "reconnect"}
Timer == [name : TimerName, left : Nat, data : Sock \cup {NULL}]
tmr(name, left, data) == [name |-> name, left |-> left, data |-> data]
Without(T, names) == {t \in T : t.name \notin names}
Pending(T, name) == \E t \in T : t.name = name

NoSock == [state |-> "none", partial |-> FALSE]
Zombie == [state |-> "zombie", partial |-> FALSE]
Opening == [state |-> "connecting", partial |-> FALSE]
Live == {s \in Sock : socks[s].state \in {"connecting", "open"}}

\* The socket whose read buffer sock_close would hand to irc_sock_read.
HasPartial(s) == s # NULL /\ socks[s].partial

Init ==
    /\ \E s \in Sock :
         /\ server_sock = s
         /\ socks = [x \in Sock |-> IF x = s THEN Opening ELSE NoSock]
         /\ timers = {tmr("connect_timeout", ConnectWait, s)}
    /\ server_tries = 0
    /\ quit_poll = FALSE
    /\ ready = FALSE
    /\ welcomed = FALSE
    /\ pinged = FALSE
    /\ modules_told = FALSE
    /\ known = {}
    /\ refused = FALSE
    /\ quiet = 0
    /\ failed = {}

\* T: the timers that are left when irc_schedule_reconnect is called.
irc_schedule_reconnect(T, wait) ==
    \/ /\ Pending(T, "reconnect")
       /\ timers' = T
       /\ UNCHANGED <<server_tries, quit_poll>>
    \/ /\ ~Pending(T, "reconnect")
       /\ server_tries' = IF MaxTries = 0 THEN 0 ELSE server_tries + 1
       /\ IF MaxTries > 0 /\ server_tries' > MaxTries
          THEN /\ timers' = Without(T, {"ping", "stoned"})
               /\ quit_poll' = TRUE
          ELSE /\ timers' = Without(T, {"ping", "stoned"}) \cup {tmr("reconnect", wait, NULL)}
               /\ UNCHANGED quit_poll

\* irc_send_fast: assert(bot.server_sock)
irc_send_fast == failed' = failed \cup (IF server_sock = NULL THEN {"send"} ELSE {})

\* irc_sock_read, when a line is flushed out of the buffer of `s' while
\* bot.server_sock is `current': assert(sock == bot.server_sock)
FlushAsserts(s, current) == IF HasPartial(s) /\ s # current THEN {"read"} ELSE {}

-----------------------------------------------------------------------------
(* Socket events.                                                             *)

\* EV_CONNECT
irc_connected ==
    /\ server_sock # NULL /\ socks[server_sock].state = "connecting"
    /\ socks' = [socks EXCEPT ![server_sock].state = "open"]
    /\ timers' = Without(timers, {"connect_timeout"})
                   \cup {tmr("ping", PingWait, NULL), tmr("stoned", StonedWait, NULL)}
    /\ UNCHANGED <<server_sock, server_tries, quit_poll, session, known, quiet, failed, refused>>

\* EV_HANGUP on the socket sock_poll stands on: the buffer is flushed before
\* the event and the socket closed after it.
irc_disconnected(s) ==
    /\ socks[s].state = "open"
    /\ failed' = failed \cup FlushAsserts(s, server_sock)
                        \cup (IF s # server_sock THEN {"event"} ELSE {})
    /\ known' = known \cup (IF HasPartial(s) THEN {"this"} ELSE {})
    /\ socks' = [socks EXCEPT ![s] = Zombie]
    /\ server_sock' = NULL
    /\ modules_told' = FALSE
    /\ irc_schedule_reconnect(Without(timers, {"connect_timeout"}), ClosedWait)
    /\ UNCHANGED <<ready, welcomed, pinged, quiet, refused>>

\* EV_ERROR: sock_close, and with it the flush, comes after the event.
irc_error(s) ==
    /\ socks[s].state \in {"connecting", "open"}
    /\ failed' = failed \cup FlushAsserts(s, NULL)
                        \cup (IF s # server_sock THEN {"event"} ELSE {})
    /\ socks' = [socks EXCEPT ![s] = Zombie]
    /\ server_sock' = NULL
    /\ modules_told' = FALSE
    /\ irc_schedule_reconnect(Without(timers, {"connect_timeout"}), ErrorWait)
    /\ UNCHANGED <<ready, welcomed, pinged, known, quiet, refused>>

\* sock_poll frees the zombies.
sock_destroy(s) ==
    /\ socks[s].state = "zombie"
    /\ socks' = [socks EXCEPT ![s] = NoSock]
    /\ UNCHANGED <<server_sock, timers, server_tries, quit_poll, session, known, quiet, failed, refused>>
-----------------------------------------------------------------------------
(* Lines from the server.                                                     *)

Reading == server_sock # NULL /\ socks[server_sock].state = "open"

\* 001
num_welcome ==
    /\ Reading
    /\ ~welcomed
    /\ welcomed' = TRUE
    /\ server_tries' = 0
    /\ UNCHANGED <<connection, timers, quit_poll, ready, pinged, modules_told, known, quiet, failed, refused>>

\* 311 about ourselves, the answer to the WHOIS that 001 sends
num_whoisuser ==
    /\ Reading
    /\ welcomed
    /\ ~ready
    /\ ready' = TRUE
    /\ modules_told' = TRUE
    /\ UNCHANGED <<connection, timers, server_tries, quit_poll, welcomed, pinged, known, quiet, failed, refused>>

irc_watchdog_reset ==
    timers' = Without(timers, {"stoned"}) \cup {tmr("stoned", StonedWait, NULL)}

pong ==
    /\ Reading
    /\ pinged
    /\ pinged' = FALSE
    /\ quiet' = 0
    /\ irc_watchdog_reset
    /\ UNCHANGED <<connection, server_tries, quit_poll, ready, welcomed, modules_told, known, failed, refused>>

\* Any line that builds channel or user state, and its first half.
OtherLine ==
    /\ Reading
    /\ known' = known \cup {"this"}
    /\ socks' = [socks EXCEPT ![server_sock].partial = FALSE]
    /\ UNCHANGED <<server_sock, timers, server_tries, quit_poll, session, quiet, failed, refused>>

PartialLine ==
    /\ Reading
    /\ socks' = [socks EXCEPT ![server_sock].partial = TRUE]
    /\ UNCHANGED <<server_sock, timers, server_tries, quit_poll, session, known, quiet, failed, refused>>
-----------------------------------------------------------------------------
(* Timers.                                                                    *)

DueTimer(name) == {t \in timers : t.name = name /\ t.left = 0}

\* Mutant: every PING puts the stoned timer off.
irc_ping_resets(t) ==
    /\ irc_send_fast
    /\ pinged' = (pinged \/ server_sock # NULL)
    /\ timers' = Without(timers \ {t}, {"stoned"})
                   \cup {tmr("ping", PingWait, NULL), tmr("stoned", StonedWait, NULL)}
    /\ UNCHANGED <<connection, server_tries, quit_poll, ready, welcomed, modules_told, known, quiet, refused>>

irc_ping(t) ==
    /\ irc_send_fast
    /\ pinged' = (pinged \/ server_sock # NULL)
    /\ timers' = (timers \ {t}) \cup {tmr("ping", PingWait, NULL)}
    /\ UNCHANGED <<connection, server_tries, quit_poll, ready, welcomed, modules_told, known, quiet, refused>>

\* Mutant: the socket is given up before QUIT is sent.
irc_stoned_closeFirst(t) ==
    /\ socks' = [socks EXCEPT ![server_sock] = Zombie]
    /\ server_sock' = NULL
    /\ modules_told' = FALSE
    /\ failed' = failed \cup {"send"}
    /\ irc_schedule_reconnect(timers \ {t}, 0)
    /\ UNCHANGED <<ready, welcomed, pinged, known, quiet, refused>>

irc_stoned(t) ==
    /\ irc_send_fast
    /\ irc_schedule_reconnect(timers \ {t}, 0)
    /\ UNCHANGED <<connection, session, known, quiet, refused>>

irc_connect_timeout(t) ==
    \/ /\ t.data # server_sock
       /\ timers' = timers \ {t}
       /\ UNCHANGED <<connection, server_tries, quit_poll, session, known, quiet, failed, refused>>
    \/ /\ t.data = server_sock
       /\ failed' = failed \cup FlushAsserts(server_sock, server_sock)
       /\ socks' = [socks EXCEPT ![server_sock] = Zombie]
       /\ server_sock' = NULL
       /\ modules_told' = FALSE
       /\ irc_schedule_reconnect(timers \ {t}, TimeoutWait)
       /\ UNCHANGED <<ready, welcomed, pinged, known, quiet, refused>>

\* sock_close on the old server socket, if there is one.
Closed == IF server_sock = NULL THEN socks ELSE [socks EXCEPT ![server_sock] = Zombie]

irc_connect(T) ==
    \/ /\ socks' = Closed
       /\ server_sock' = NULL
       /\ timers' = T
       /\ refused' = TRUE
    \/ \E s \in Sock :
         /\ socks[s].state = "none"
         /\ socks' = [Closed EXCEPT ![s] = Opening]
         /\ server_sock' = s
         /\ timers' = T \cup {tmr("connect_timeout", ConnectWait, s)}
         /\ refused' = FALSE

\* Mutant: users and channels of the old session are kept.
irc_reconnect_noFlush(t) ==
    /\ known' = IF known = {} THEN {} ELSE {"old"}
    /\ ready' = FALSE
    /\ welcomed' = FALSE
    /\ pinged' = FALSE
    /\ quiet' = 0
    /\ irc_connect(timers \ {t})
    /\ UNCHANGED <<server_tries, quit_poll, modules_told, failed>>

\* chanuser_flush comes first; irc_connect then closes the old socket, which
\* hands what is left in its buffer to the line handlers.
irc_reconnect(t) ==
    /\ known' = IF HasPartial(server_sock) THEN {"cut"} ELSE {}
    /\ ready' = FALSE
    /\ welcomed' = FALSE
    /\ pinged' = FALSE
    /\ quiet' = 0
    /\ irc_connect(timers \ {t})
    /\ UNCHANGED <<server_tries, quit_poll, modules_told, failed>>

Tick ==
    /\ \A t \in timers : t.left > 0
    /\ timers' = {[t EXCEPT !.left = @ - 1] : t \in timers}
    /\ quiet' = IF quiet < StonedWait THEN quiet + 1 ELSE quiet
    /\ UNCHANGED <<connection, server_tries, quit_poll, session, known, failed, refused>>
-----------------------------------------------------------------------------
sock_poll ==
    \/ irc_connected
    \/ \E s \in Sock : irc_disconnected(s) \/ irc_error(s) \/ sock_destroy(s)
    \/ num_welcome \/ num_whoisuser \/ pong \/ OtherLine \/ PartialLine

timer_poll ==
    \/ \E t \in DueTimer("ping") : irc_ping(t)
    \/ \E t \in DueTimer("stoned") : irc_stoned(t)
    \/ \E t \in DueTimer("connect_timeout") : irc_connect_timeout(t)
    \/ \E t \in DueTimer("reconnect") : irc_reconnect(t)

Next == ~quit_poll /\ (sock_poll \/ timer_poll \/ Tick)

Spec == Init /\ [][Next]_vars

\* The loop polls the timers and frees the zombies every turn, and the clock
\* advances.  Nothing is assumed of the server.
FairSpec ==
    /\ Spec
    /\ WF_vars(~quit_poll /\ timer_poll)
    /\ WF_vars(~quit_poll /\ Tick)
    /\ \A s \in Sock : WF_vars(~quit_poll /\ sock_destroy(s))
-----------------------------------------------------------------------------
(* Type invariant of the connection's state.                                  *)
TypeOK ==
    /\ server_sock \in Sock \cup {NULL}
    /\ socks \in [Sock -> [state : {"none", "connecting", "open", "zombie"},
                           partial : BOOLEAN]]
    /\ timers \subseteq Timer
    /\ server_tries \in Nat
    /\ quiet \in 0 .. StonedWait
    /\ quit_poll \in BOOLEAN /\ ready \in BOOLEAN /\ welcomed \in BOOLEAN
    /\ pinged \in BOOLEAN /\ modules_told \in BOOLEAN /\ refused \in BOOLEAN
    /\ known \subseteq {"this", "old", "cut"}
    /\ failed \subseteq {"send", "read", "event"}

(* bot.server_sock is the one live socket of the connection, and no live      *)
(* socket has been forgotten: irc_sock_event's assert(sock == server_sock)    *)
(* cannot fail, and no connection leaks when the bot reconnects.              *)
OneLiveSocket ==
    /\ Live = {server_sock} \ {NULL}
    /\ "event" \notin failed

(* A connect timeout belongs to the attempt that is under way: the check      *)
(* for an "old connect timeout" is never needed, even though a freed          *)
(* socket's address may be given to the next attempt.                         *)
ConnectTimeoutIsCurrent ==
    \A t \in timers : t.name = "connect_timeout" =>
        t.data = server_sock /\ socks[server_sock].state = "connecting"

(* An attempt never hangs: a socket that is connecting has its timeout armed, *)
(* and one that is open, with no reconnect under way, is being watched.       *)
Watched ==
    server_sock # NULL /\ ~quit_poll =>
        \/ Pending(timers, "reconnect")
        \/ socks[server_sock].state = "connecting" /\ Pending(timers, "connect_timeout")
        \/ /\ socks[server_sock].state = "open"
           /\ Pending(timers, "ping") /\ Pending(timers, "stoned")

(* The watchdog gives a connection up only after StonedWait ticks without a   *)
(* PONG, counted from the attempt at the earliest, whichever connection armed *)
(* it: a PONG read between irc_stoned and irc_reconnect arms one early.       *)
StonedOnlyWhenQuiet ==
    \A t \in timers : t.name = "stoned" => t.left + quiet >= StonedWait

(* When the attempts are used up the bot leaves the loop with no timer of the *)
(* connection armed, and it leaves it for no other reason.                    *)
QuitWhenTriesUsedUp ==
    /\ quit_poll => timers = {} /\ server_tries = MaxTries + 1
    /\ ~quit_poll => MaxTries = 0 \/ server_tries <= MaxTries

(* Two keep-alive chains never run at once, nor two reconnects: every PING    *)
(* and every reconnect has one cause.                                         *)
OneOfEach ==
    \A name \in {"ping", "reconnect", "connect_timeout"} :
        Cardinality({t \in timers : t.name = name}) <= 1

(* While there is no connection the modules have been told so.                *)
ModulesToldOfLoss == server_sock = NULL /\ ~refused => ~modules_told

(* irc_reconnect "resets everything": what the channels hold was heard on the *)
(* connection that is there.  Only the half line that sock_close flushes out   *)
(* of the old socket comes after the reset.                                    *)
ResetEverything == "old" \notin known

(* assert(bot.server_sock) in irc_send_fast: nothing is sent without a        *)
(* connection, unless an attempt failed at once while a watchdog was armed.    *)
SendHasSocket == [][ "send" \in failed' \ failed => refused ]_vars

(* A bot without a connection is waiting to reconnect, or exits: "Reconnecting *)
(* (%d reconnect attempt(s) left)" and "Max. server connect attempts exceeded  *)
(* - exiting" are the only ways on.                                            *)
NotStranded == server_sock = NULL => quit_poll \/ Pending(timers, "reconnect")

(* However a connection is lost, another attempt follows or the bot exits; it  *)
(* stands without either only after an attempt that failed at once.            *)
LossIsRetried == NotStranded \/ refused

(* What follows the loss of a connection: modules told, channels reset,        *)
(* another attempt as long as attempts are left, and only then the exit.       *)
LossHandled == ModulesToldOfLoss /\ ResetEverything /\ LossIsRetried /\ QuitWhenTriesUsedUp

(* The bookkeeping of the connection: one live socket, timers that belong to   *)
(* it, one of each, a watch on every attempt and every connection, and what a  *)
(* loss is followed by.                                                        *)
ConnectionSound ==
    /\ TypeOK /\ OneLiveSocket /\ ConnectTimeoutIsCurrent /\ OneOfEach /\ StonedOnlyWhenQuiet
    /\ Watched /\ LossHandled

(* The bot is never deaf for good: it hears a PONG, or tries anew, or has     *)
(* left, again and again.                                                     *)
NeverDeafForever == []<>(quiet = 0 \/ quit_poll \/ refused)
=============================================================================
