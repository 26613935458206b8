------------------------------- MODULE Chanspy -------------------------------
(* modules/chanspy: a spy that listens in a channel and tells a nick or another *)
(* channel.  It asks chanjoin for the channel, so its commands are steps of     *)
(* ChanJoin with one more ref; the other refs belong to other modules.  The     *)
(* second half is chanspy over the network: its variables are others.           *)
EXTENDS ChanJoin, Integers, Sequences, FiniteSets

CONSTANTS Spy,       \* the spy's name, its key in chanjoin
          MsgType,   \* CSPY_PRIVMSG, CSPY_JOIN ...: what happens in a channel
          Flags      \* sets of them that a spy may be set to show

ASSUME ChanspyAssumption == Spy \in Ref \ Once /\ Flags \subseteq (SUBSET MsgType) \ {{}}

VARIABLES spy,      \* the record: is it there, its flags, is it active
          ctx,      \* whom its ref in chanjoin calls: "none" without a ref, "spy", the "old"
                    \* record of a deleted spy, "reloaded": no function, "unloaded" code
          phase,    \* "loaded", "reloading" (before spy_db_read) or "unloaded"
          saved,    \* the record in the database, of which active is no part
          relayed,  \* the types that were shown since the spy was added; history only
          mishaps   \* history only

csVars == <<spy, ctx, phase, saved, relayed, mishaps>>
joinVars == <<entry, timers, world, out, told, wants>>

Mishaps == {"left",     \* a spy was deleted and its ref stayed
            "unheard",  \* a spy was added and its ref calls another's record
            "crash"}    \* chanjoin calls a function that is gone

NoSpy == [there |-> FALSE, flags |-> {}, active |-> FALSE]

csInit ==
    /\ Init
    /\ spy = NoSpy /\ ctx = "none" /\ phase = "loaded" /\ saved = NoSpy
    /\ relayed = {} /\ mishaps = {}

-----------------------------------------------------------------------------
(* chanjoin's callbacks.                                                       *)

\* cj_success and cj_error go by the name and refuse a context that is another record.
cj_told(answer) ==
    IF ctx = "spy" THEN spy' = [spy EXCEPT !.active = answer = "success"] /\ UNCHANGED mishaps
    ELSE /\ UNCHANGED spy
         /\ mishaps' = mishaps \cup (IF ctx = "old" THEN {} ELSE {"crash"})

\* A step of chanjoin's timers, of the server or of the connection
JoinStep ==
    /\ Timers \/ Server \/ Link
    /\ IF Spy \in refs /\ told'[Spy] # told[Spy] THEN cj_told(told'[Spy]) ELSE UNCHANGED <<spy, mishaps>>
    /\ ctx' = IF Spy \in refs' THEN ctx ELSE "none"
    /\ UNCHANGED <<phase, saved, relayed>>

\* Other modules want the channel, too.
OtherModule ==
    /\ \E r \in Ref \ {Spy} : chanjoin_addchan(r) \/ reload_module(r) \/ chanjoin_delchan(r)
    /\ UNCHANGED csVars

-----------------------------------------------------------------------------
(* A spy's life.                                                               *)

\* spy_add asks for the channel.  A ref that is there and has a module fails chanjoin's assertion;
\* it is of use only if the new record got the old one's memory.
spy_join ==
    \/ /\ Spy \notin refs /\ chanjoin_addchan(Spy) /\ ctx' = "spy" /\ UNCHANGED mishaps
    \/ /\ Spy \in refs /\ ctx = "reloaded" /\ reload_module(Spy) /\ ctx' = "spy" /\ UNCHANGED mishaps
    \/ /\ Spy \in refs /\ ctx \in {"old", "unloaded"} /\ UNCHANGED joinVars
       /\ \/ ctx = "old" /\ ctx' = "spy" /\ UNCHANGED mishaps
          \/ UNCHANGED ctx /\ mishaps' = mishaps \cup {"unheard"}

\* It counts as active before the channel is joined.
spy_add(flags) ==
    /\ ~spy.there
    /\ spy' = [there |-> TRUE, flags |-> flags, active |-> TRUE]
    /\ spy_join
    /\ relayed' = {}

chanspy_add ==
    /\ phase = "loaded" /\ \E flags \in Flags : spy_add(flags)
    /\ UNCHANGED <<phase, saved>>

\* chanspy rejoin: the assertion of chanjoin_addchan stops it while there is a ref.
chanspy_rejoin ==
    /\ phase = "loaded" /\ spy.there /\ Spy \notin refs
    /\ chanjoin_addchan(Spy) /\ ctx' = "spy"
    /\ UNCHANGED <<spy, phase, saved, relayed, mishaps>>

\* spy_free, when the module is not reloaded: an inactive spy leaves the ref of its rejoin behind.
spy_free(left) ==
    /\ spy' = NoSpy
    /\ IF spy.active
       THEN /\ chanjoin_delchan(Spy)
            /\ ctx' = IF Spy \in refs' THEN ctx ELSE "none"
            /\ UNCHANGED mishaps
       ELSE /\ UNCHANGED joinVars
            /\ ctx' = IF Spy \in refs THEN left ELSE "none"
            /\ mishaps' = mishaps \cup (IF Spy \in refs THEN {"left"} ELSE {})

chanspy_del ==
    /\ phase = "loaded" /\ spy.there /\ spy_free("old")
    /\ relayed' = {} /\ UNCHANGED <<phase, saved>>

spy_db_write == saved' = [spy EXCEPT !.active = FALSE]

chanspy_db_interval ==
    /\ phase = "loaded" /\ spy_db_write /\ UNCHANGED <<joinVars, spy, ctx, phase, relayed, mishaps>>

\* MODULE_FINI: the database is written first.  In a reload refs are kept, and module_unloaded takes
\* their functions away.
chanspy_fini(reloading_module) ==
    /\ phase = "loaded" /\ spy_db_write
    /\ IF reloading_module
       THEN /\ phase' = "reloading" /\ spy' = NoSpy
            /\ ctx' = IF Spy \in refs THEN "reloaded" ELSE "none"
            /\ UNCHANGED <<joinVars, mishaps>>
       ELSE /\ phase' = "unloaded"
            /\ IF spy.there THEN spy_free("unloaded")
               ELSE /\ UNCHANGED <<joinVars, spy, mishaps>>
                    /\ ctx' = IF Spy \in refs THEN "unloaded" ELSE "none"
    /\ relayed' = {}

\* MODULE_INIT; a reload goes on with it at once.
spy_db_read ==
    /\ phase # "loaded" /\ phase' = "loaded"
    /\ IF saved.there THEN spy_add(saved.flags) ELSE UNCHANGED <<joinVars, spy, ctx, relayed, mishaps>>
    /\ UNCHANGED saved

-----------------------------------------------------------------------------
(* What is shown.                                                              *)

\* spy_gotmsg, local part: the flags decide, not whether the spy is active.
spy_gotmsg(type) == relayed' = IF spy.there /\ type \in spy.flags THEN relayed \cup {type} ELSE relayed

\* The handlers of PRIVMSG, NOTICE, MODE, JOIN, PART, KICK, NICK, TOPIC and the hook of a QUIT
ChannelEvent ==
    /\ phase = "loaded" /\ irc # "absent" /\ link # "down"
    /\ \E type \in MsgType : spy_gotmsg(type)
    /\ UNCHANGED <<joinVars, spy, ctx, phase, saved, mishaps>>

csNext ==
    /\ "crash" \notin mishaps
    /\ \/ spy_db_read
       \/ /\ phase # "reloading"
          /\ \/ JoinStep \/ OtherModule \/ ChannelEvent
             \/ chanspy_add \/ chanspy_rejoin \/ chanspy_del \/ chanspy_db_interval
             \/ \E reloading_module \in BOOLEAN : chanspy_fini(reloading_module)

csSpec == csInit /\ [][csNext]_<<joinVars, csVars>>
-----------------------------------------------------------------------------
(* Properties.                                                                 *)

csTypeOK ==
    /\ spy \in [there : BOOLEAN, flags : Flags \cup {{}}, active : BOOLEAN]
    /\ ctx \in {"none", "spy", "old", "reloaded", "unloaded"}
    /\ phase \in {"loaded", "reloading", "unloaded"}
    /\ relayed \subseteq spy.flags /\ mishaps \subseteq Mishaps

\* The bot stays in a channel for a spy only as long as there is one, and an active spy has chanjoin
\* look after its channel, unless the spy was deleted while it was being rejoined (spy_free,
\* chanspy_rejoin in chanspy.c).
RefHasSpy ==
    mishaps = {} => /\ ctx \notin {"old", "unloaded"}
                    /\ ctx = "spy" => spy.there
                    /\ ctx = "reloaded" => phase = "reloading"
ActiveHasRef == spy.there /\ spy.active /\ mishaps = {} => Spy \in refs /\ ctx = "spy"

\* A spy that is not active was told so, or is being rejoined; nothing else switches it off.
InactiveWasTold ==
    spy.there /\ ~spy.active => told[Spy] = "error" \/ ctx # "none" \/ mishaps # {}

\* A reload keeps a spy, its channel and its flags.
ReloadKeeps == phase = "reloading" /\ mishaps = {} /\ saved.there => Spy \in refs \/ told[Spy] = "error"

\* Chanjoin calls into chanspy only as long as it is loaded, unless an inactive spy left its ref.
NoCallToNowhere == "crash" \in mishaps => "left" \in mishaps

ChanspySound == csTypeOK /\ RefHasSpy /\ ActiveHasRef /\ InactiveWasTold /\ ReloadKeeps /\ NoCallToNowhere

-----------------------------------------------------------------------------
(* Over the network.  A spy with a target ">ip:port/password"                   *)
(* connects to the listener of another bot and writes what it sees; there a     *)
(* spy of "<#channel" shows it.  Peers are spies of the first kind, wherever    *)
(* they run; the listener is one bot's.                                         *)

CONSTANTS Peer, Channel,
          Shown,      \* the channels that the listener's bot may have a spy of
          Address,    \* where the listener's clients lie in memory: it is used again
          MaxUnread,  \* bound: lines under way in a connection
          MaxDrops    \* bound: timers per address

ASSUME ChanspyNetAssumption ==
    /\ "none" \notin Peer /\ "NULL" \notin Channel
    /\ MaxUnread \in Nat \ {0, 1} /\ MaxDrops \in Nat

VARIABLES source,     \* the channel each peer reads, chosen once
          peer,       \* per peer: is the spy there, its socket, its timers
          password,   \* the peers whose targets say the listener's password, chosen once
          listen_sock,\* "open" or "NULL"
          clients,    \* chanspy_clients, by address, and the connections they are
          drop_client,\* per address: the timers that will drop a client
          server_spy, \* the spy of "<channel" for each: "none", "inactive" or "active"
          net_mishaps \* history only

netVars == <<source, peer, listen_sock, password, clients, drop_client, server_spy, net_mishaps>>
serverVars == <<listen_sock, password, drop_client, server_spy, net_mishaps>>

NetMishaps == {"shared",  \* two clients for one channel, perhaps of one peer that came back
               "dropped", \* the timer of a client that had left dropped another at its address
               "freed",   \* the listener could not be bound, was freed and is used
               "timer"}   \* a timer of the listener calls code that is unloaded

NoPeer == [there |-> FALSE, sock |-> "NULL", connect_timeout |-> FALSE, reconnect |-> FALSE]
NoClient == [of |-> "none", up |-> FALSE, lines |-> <<>>, authed |-> FALSE, chan |-> "NULL", dead |-> FALSE]
Used(a) == clients[a].of # "none"

cnInit ==
    /\ source \in [Peer -> Channel]
    /\ peer = [p \in Peer |-> NoPeer]
    /\ password \in SUBSET Peer /\ listen_sock = "open"
    /\ clients = [a \in Address |-> NoClient] /\ drop_client = [a \in Address |-> 0]
    /\ server_spy = [c \in Channel |-> "none"]
    /\ net_mishaps = {}

-----------------------------------------------------------------------------
(* The spy that connects.                                                      *)

chanspy_client_schedule_reconnect(p) ==
    peer' = [peer EXCEPT ![p] = [there |-> TRUE, sock |-> "NULL", connect_timeout |-> FALSE, reconnect |-> TRUE]]

\* sock_connect fails, or the connection is on its way.
chanspy_client_connect(p) ==
    \/ chanspy_client_schedule_reconnect(p)
    \/ peer' = [peer EXCEPT ![p] = [there |-> TRUE, sock |-> "connecting", connect_timeout |-> TRUE, reconnect |-> FALSE]]

\* Its end of the connection is gone; what it wrote may still arrive.
Hang(p) == [a \in Address |-> IF clients[a].of = p THEN [clients[a] EXCEPT !.up = FALSE] ELSE clients[a]]

peer_add(p) ==
    /\ ~peer[p].there /\ chanspy_client_connect(p) /\ UNCHANGED <<source, clients, serverVars>>

peer_del(p) ==
    /\ peer[p].there /\ peer' = [peer EXCEPT ![p] = NoPeer]
    /\ clients' = Hang(p) /\ UNCHANGED <<source, serverVars>>

chanspy_client_reconnect_tmr(p) ==
    /\ peer[p].reconnect /\ chanspy_client_connect(p) /\ UNCHANGED <<source, clients, serverVars>>

chanspy_client_timeout(p) ==
    /\ peer[p].connect_timeout /\ chanspy_client_schedule_reconnect(p)
    /\ UNCHANGED <<source, clients, serverVars>>

\* EV_ERROR and EV_HANGUP
chanspy_client_lost(p) ==
    /\ peer[p].sock # "NULL" /\ chanspy_client_schedule_reconnect(p)
    /\ clients' = Hang(p) /\ UNCHANGED <<source, serverVars>>

\* EV_CONNECT here, EV_ACCEPT there; the password and the channel are written at once.
Connected(p, a) ==
    /\ peer[p].sock = "connecting" /\ listen_sock = "open" /\ ~Used(a)
    /\ peer' = [peer EXCEPT ![p].sock = "connected", ![p].connect_timeout = FALSE]
    /\ clients' = [clients EXCEPT ![a] = [NoClient EXCEPT !.of = p, !.up = TRUE, !.lines = <<"PWD", "CHAN">>]]
    /\ UNCHANGED <<source, serverVars>>

\* spy_gotmsg and spy_notice to a remote target: lost while there is no socket
Spied(p) ==
    \E a \in Address :
        /\ peer[p].sock = "connected" /\ clients[a].of = p /\ clients[a].up /\ Len(clients[a].lines) < MaxUnread
        /\ clients' = [clients EXCEPT ![a].lines = Append(@, "SPY")]
        /\ UNCHANGED <<source, peer, serverVars>>

-----------------------------------------------------------------------------
(* The listener.                                                               *)

Listens(c) == \E a \in Address : clients[a].chan = c

\* The client is told that it is not understood, and dropped in a moment; until then its lines
\* are ignored.
Misunderstood(a) ==
    /\ drop_client[a] < MaxDrops
    /\ clients' = [clients EXCEPT ![a].lines = Tail(@), ![a].dead = TRUE]
    /\ drop_client' = [drop_client EXCEPT ![a] = @ + 1]
    /\ UNCHANGED <<server_spy, net_mishaps>>

Ignore(a) ==
    /\ clients' = [clients EXCEPT ![a].lines = Tail(@)] /\ UNCHANGED <<drop_client, server_spy, net_mishaps>>

server_pwd(a) ==
    IF clients[a].of \in password
    THEN /\ clients' = [clients EXCEPT ![a].lines = Tail(@), ![a].authed = TRUE]
         /\ UNCHANGED <<drop_client, server_spy, net_mishaps>>
    ELSE Misunderstood(a)

server_chan(a) ==
    LET chan == source[clients[a].of]
    IN  IF clients[a].authed
        THEN /\ clients' = [clients EXCEPT ![a].lines = Tail(@), ![a].chan = chan]
             /\ server_spy' = [server_spy EXCEPT ![chan] = IF @ = "none" THEN @ ELSE "active"]
             /\ net_mishaps' = net_mishaps \cup (IF Listens(chan) THEN {"shared"} ELSE {})
             /\ UNCHANGED drop_client
        ELSE Misunderstood(a)

chanspy_server_read(a) ==
    /\ Used(a) /\ clients[a].lines # <<>>
    /\ IF clients[a].dead THEN Ignore(a)
       ELSE \/ Head(clients[a].lines) = "PWD" /\ server_pwd(a)
            \/ Head(clients[a].lines) = "CHAN" /\ server_chan(a)
            \/ /\ Head(clients[a].lines) = "SPY"
               /\ IF clients[a].authed /\ clients[a].chan # "NULL" THEN Ignore(a) ELSE Misunderstood(a)
    /\ UNCHANGED <<source, peer, listen_sock, password>>

Inactive(c) == [server_spy EXCEPT ![c] = IF @ = "active" THEN "inactive" ELSE @]

\* EV_ERROR and EV_HANGUP: the spies of its channel are inactive, whoever else may send it.
chanspy_server_hangup(a) ==
    /\ Used(a) /\ ~clients[a].up /\ clients[a].lines = <<>>
    /\ server_spy' = IF clients[a].chan = "NULL" THEN server_spy ELSE Inactive(clients[a].chan)
    /\ clients' = [clients EXCEPT ![a] = NoClient]
    /\ UNCHANGED <<source, peer, listen_sock, password, drop_client, net_mishaps>>

\* It goes by the socket's address alone; the spies are not told.
chanspy_server_drop_client_tmr(a) ==
    /\ drop_client[a] > 0 /\ drop_client' = [drop_client EXCEPT ![a] = @ - 1]
    /\ clients' = [clients EXCEPT ![a] = NoClient]
    /\ net_mishaps' = net_mishaps \cup (IF Used(a) /\ ~clients[a].dead THEN {"dropped"} ELSE {})
    /\ UNCHANGED <<source, peer, listen_sock, password, server_spy>>

\* spy_add for "<channel": active if a client sends it.
server_add(c) ==
    /\ c \in Shown /\ server_spy[c] = "none"
    /\ server_spy' = [server_spy EXCEPT ![c] = IF Listens(c) THEN "active" ELSE "inactive"]
    /\ UNCHANGED <<source, peer, listen_sock, password, clients, drop_client, net_mishaps>>

server_del(c) ==
    /\ server_spy[c] # "none" /\ server_spy' = [server_spy EXCEPT ![c] = "none"]
    /\ UNCHANGED <<source, peer, listen_sock, password, clients, drop_client, net_mishaps>>

NoListener ==
    /\ listen_sock' = "NULL" /\ clients' = [a \in Address |-> NoClient]
    /\ server_spy' = [c \in Channel |-> IF server_spy[c] = "active" THEN "inactive" ELSE server_spy[c]]
    /\ UNCHANGED net_mishaps

\* The listener is made anew and its clients stay; sock_listen may fail.
Listener == listen_sock' \in {"open", "NULL"} /\ UNCHANGED <<clients, server_spy, net_mishaps>>

chanspy_conf_reload ==
    /\ NoListener \/ Listener
    /\ UNCHANGED <<source, peer, password, drop_client>>

\* Memory that is free, or code that is gone, is used: nothing is said of what follows.
Lost(mishap) ==
    /\ net_mishaps' = net_mishaps \cup {mishap}
    /\ listen_sock' = "NULL"
    /\ clients' = [a \in Address |-> NoClient] /\ drop_client' = [a \in Address |-> 0]
    /\ server_spy' = [c \in Channel |-> "none"] /\ peer' = [p \in Peer |-> NoPeer]
    /\ UNCHANGED <<source, password>>

\* sock_bind frees the listener when it fails, and sock_listen takes what is left.
listener_freed == Lost("freed")

\* MODULE_FINI and MODULE_INIT: clients are closed, spies begin anew, and the timers stay.
server_reload ==
    IF \E a \in Address : drop_client[a] > 0 THEN Lost("timer")
    ELSE /\ clients' = [a \in Address |-> NoClient]
         /\ server_spy' = [c \in Channel |-> IF server_spy[c] = "none" THEN "none" ELSE "inactive"]
         /\ listen_sock' \in {"open", "NULL"}
         /\ UNCHANGED <<source, peer, password, drop_client, net_mishaps>>

cnNext ==
    /\ net_mishaps \cap {"freed", "timer"} = {}
    /\ \/ \E p \in Peer :
            \/ peer_add(p) \/ peer_del(p) \/ chanspy_client_reconnect_tmr(p) \/ chanspy_client_timeout(p)
            \/ chanspy_client_lost(p) \/ Spied(p) \/ \E a \in Address : Connected(p, a)
       \/ \E a \in Address : chanspy_server_read(a) \/ chanspy_server_hangup(a) \/ chanspy_server_drop_client_tmr(a)
       \/ \E c \in Channel : server_add(c) \/ server_del(c)
       \/ chanspy_conf_reload \/ listener_freed \/ server_reload

cnSpec == cnInit /\ [][cnNext]_netVars
-----------------------------------------------------------------------------
(* Properties.                                                                 *)

cnTypeOK ==
    /\ \A p \in Peer : peer[p].sock \in {"NULL", "connecting", "connected"}
    /\ listen_sock \in {"NULL", "open"} /\ password \subseteq Peer
    /\ \A a \in Address : clients[a].of \in Peer \cup {"none"} /\ Len(clients[a].lines) <= MaxUnread
    /\ server_spy \in [Channel -> {"none", "inactive", "active"}] /\ net_mishaps \subseteq NetMishaps

\* A remote spy tries for ever: without a socket a timer will connect, and a socket that does not
\* connect has a timer that gives it up; there is never a timer too many.
PeerReconnects ==
    \A p \in Peer : peer[p].there =>
        /\ peer[p].sock = "NULL" <=> peer[p].reconnect
        /\ peer[p].sock = "connecting" <=> peer[p].connect_timeout

\* "chanspy list" tells the truth: a spy of "<channel" is active just when a client sends that
\* channel, unless two did, or the timer of another client's goodbye hit it.
ActiveIsTrue ==
    net_mishaps = {} => \A c \in Channel : server_spy[c] # "none" => (server_spy[c] = "active" <=> Listens(c))

\* Whoever was not understood is sent away, and nothing of him was ever shown.
DeadIsDropped == \A a \in Address : clients[a].dead => drop_client[a] > 0 /\ clients[a].chan = "NULL"

ChanspyNetSound == cnTypeOK /\ PeerReconnects /\ ActiveIsTrue /\ DeadIsDropped
=============================================================================
