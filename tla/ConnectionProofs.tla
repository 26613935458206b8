-------------------------- MODULE ConnectionProofs --------------------------
(* Proofs about the two connections that must come back, and what was under   *)
(* way over them: IrcConn for every set of addresses, every number of tries   *)
(* and every delay that keeps the watchdog's longer than a PING's and an      *)
(* attempt's, Srvx for every set of requests, and the lists that are fetched  *)
(* through it, EventLog and ChanservUsers, for every set of channels and of   *)
(* accounts and every number of events.                                       *)
EXTENDS IrcConn, MCSrvx, Integers, FiniteSetTheorems, SequenceTheorems, WellFoundedInduction, TLAPS

(***************************************************************************)
(* IrcConn.                                                                *)
(***************************************************************************)

(* Two timers of one kind are one timer; of the watchdog's there may be two.  *)
UniqueTimers ==
    \A t, u \in timers : t.name = u.name /\ t.name # "stoned" => t = u

(* The timeout of an attempt is pending exactly while the attempt is under    *)
(* way, and an attempt is younger than the timeout allows.                    *)
Attempt ==
    /\ \A t \in timers : t.name = "connect_timeout" =>
         /\ server_sock # NULL /\ t.data = server_sock
         /\ socks[server_sock].state = "connecting"
         /\ t.left + quiet <= ConnectWait
    /\ server_sock # NULL /\ ~quit_poll /\ socks[server_sock].state = "connecting" =>
         Pending(timers, "connect_timeout")

(* PINGs go out on an open connection that is not being given up; an open     *)
(* connection is watched or is being given up.                                *)
Connection ==
    /\ \A t \in timers : t.name = "ping" =>
         /\ server_sock # NULL /\ socks[server_sock].state = "open"
         /\ ~Pending(timers, "reconnect")
    /\ server_sock # NULL /\ ~quit_poll /\ socks[server_sock].state = "open" =>
         \/ Pending(timers, "reconnect")
         \/ Pending(timers, "ping") /\ Pending(timers, "stoned")

(* A reconnect that waits while there is a connection is due, and so is one   *)
(* that waits beside a watchdog, which a late PONG has just armed.             *)
Retry ==
    \A r \in timers : r.name = "reconnect" =>
        /\ server_sock # NULL => socks[server_sock].state = "open" /\ r.left = 0
        /\ \A t \in timers : t.name = "stoned" => t.left = StonedWait /\ r.left = 0

(* A watchdog without a connection was left by an attempt that failed at once, *)
(* or waits beside the reconnect.                                              *)
Orphan ==
    Pending(timers, "stoned") /\ server_sock = NULL =>
        refused \/ Pending(timers, "reconnect")

TimersInv == UniqueTimers /\ Attempt /\ Connection /\ Retry /\ Orphan

(* The inductive invariant.                                                   *)
Inv ==
    /\ TypeOK /\ OneLiveSocket /\ TimersInv /\ StonedOnlyWhenQuiet
    /\ ModulesToldOfLoss /\ ResetEverything /\ LossIsRetried /\ QuitWhenTriesUsedUp

(* The first attempt is under way: irc_init.                                  *)
LEMMA InitInv == Init => Inv
<1> SUFFICES ASSUME Init PROVE Inv
  OBVIOUS
<1> USE IrcConnAssumption
<1>1. PICK s \in Sock :
        /\ server_sock = s
        /\ socks = [x \in Sock |-> IF x = s THEN Opening ELSE NoSock]
        /\ timers = {tmr("connect_timeout", ConnectWait, s)}
  BY DEF Init
<1>2. TypeOK
  <2>1. socks \in [Sock -> [state : {"none", "connecting", "open", "zombie"},
                           partial : BOOLEAN]]
    BY <1>1 DEF Opening, NoSock
  <2>2. timers \subseteq Timer
    BY <1>1 DEF tmr, Timer, TimerName
  <2>3. quit_poll \in BOOLEAN /\ ready \in BOOLEAN /\ welcomed \in BOOLEAN
    BY DEF Init
  <2>4. pinged \in BOOLEAN /\ modules_told \in BOOLEAN /\ refused \in BOOLEAN
    BY DEF Init
  <2>5. server_tries \in Nat /\ quiet \in 0 .. StonedWait
    BY DEF Init
  <2>6. known = {} /\ failed = {} /\ server_sock \in Sock
    BY <1>1 DEF Init
  <2> QED
    BY <2>1, <2>2, <2>3, <2>4, <2>5, <2>6 DEF TypeOK
<1>3. OneLiveSocket
  BY <1>1 DEF Init, OneLiveSocket, Live, Opening, NoSock
<1>4. TimersInv
  BY <1>1 DEF Init, TimersInv, UniqueTimers, Attempt, Connection, Retry, Orphan,
              Pending, tmr, Opening
<1>5. StonedOnlyWhenQuiet
  BY <1>1 DEF StonedOnlyWhenQuiet, tmr
<1>6. ModulesToldOfLoss /\ ResetEverything /\ LossIsRetried /\ QuitWhenTriesUsedUp
  BY <1>1 DEF Init, ModulesToldOfLoss, ResetEverything, LossIsRetried, NotStranded,
              QuitWhenTriesUsedUp
<1> QED
  BY <1>2, <1>3, <1>4, <1>5, <1>6 DEF Inv

(* What irc_schedule_reconnect leaves pending: all of T when a reconnect was   *)
(* pending, and otherwise neither PING nor watchdog.                           *)
LEMMA ScheduleReconnect ==
    ASSUME NEW T, T \subseteq Timer, NEW wait \in Nat,
           server_tries \in Nat, MaxTries = 0 \/ server_tries <= MaxTries,
           quit_poll = FALSE,
           \A t \in T : t.name # "connect_timeout",
           irc_schedule_reconnect(T, wait)
    PROVE  /\ timers' \subseteq Timer
           /\ timers' \subseteq T \cup {tmr("reconnect", wait, NULL)}
           /\ server_tries' \in Nat
           /\ quit_poll' \in BOOLEAN
           /\ \/ /\ Pending(T, "reconnect")
                 /\ timers' = T
                 /\ UNCHANGED <<server_tries, quit_poll>>
              \/ /\ ~Pending(T, "reconnect")
                 /\ \A t \in timers' : t = tmr("reconnect", wait, NULL)
                 /\ quit_poll' => timers' = {} /\ server_tries' = MaxTries + 1
                 /\ ~quit_poll' => /\ Pending(timers', "reconnect")
                                   /\ MaxTries = 0 \/ server_tries' <= MaxTries
<1> USE IrcConnAssumption
<1>1. CASE Pending(T, "reconnect")
  BY <1>1 DEF irc_schedule_reconnect
<1>2. CASE ~Pending(T, "reconnect")
  <2> DEFINE K == Without(T, {"ping", "stoned"})
  <2>1. K = {}
    BY <1>2 DEF Without, Pending, Timer, TimerName
  <2>2. tmr("reconnect", wait, NULL) \in Timer
    BY DEF tmr, Timer, TimerName
  <2>3. tmr("reconnect", wait, NULL).name = "reconnect"
    BY DEF tmr
  <2>4. server_tries' = IF MaxTries = 0 THEN 0 ELSE server_tries + 1
    BY <1>2 DEF irc_schedule_reconnect
  <2>5. CASE MaxTries > 0 /\ server_tries' > MaxTries
    <3>1. timers' = {} /\ quit_poll' = TRUE
      BY <1>2, <2>1, <2>5 DEF irc_schedule_reconnect
    <3> QED
      <4>1. server_tries' = MaxTries + 1
        BY <2>4, <2>5
      <4>2. server_tries' \in Nat
        BY <4>1
      <4> QED
        BY <1>2, <3>1, <4>1, <4>2, Zenon
  <2>6. CASE ~(MaxTries > 0 /\ server_tries' > MaxTries)
    <3>1. timers' = {tmr("reconnect", wait, NULL)} /\ quit_poll' = quit_poll
      BY <1>2, <2>1, <2>6 DEF irc_schedule_reconnect
    <3>2. Pending(timers', "reconnect")
      BY <2>3, <3>1 DEF Pending
    <3> QED
      <4>1. server_tries' \in Nat /\ (MaxTries = 0 \/ server_tries' <= MaxTries)
        BY <2>4, <2>6
      <4>2. quit_poll' = FALSE
        BY <3>1
      <4> QED
        BY <1>2, <2>2, <3>1, <3>2, <4>1, <4>2, Zenon
  <2> QED
    BY <2>5, <2>6
<1> QED
  BY <1>1, <1>2

(* The connection or the attempt is lost: the socket is a zombie, the modules *)
(* are told, and what remains of the timers goes to irc_schedule_reconnect.   *)
Loss(wait) ==
    /\ server_sock # NULL
    /\ socks' = [socks EXCEPT ![server_sock] = Zombie]
    /\ server_sock' = NULL
    /\ modules_told' = FALSE
    /\ irc_schedule_reconnect(Without(timers, {"connect_timeout"}), wait)
    /\ known' \subseteq known \cup {"this"}
    /\ failed' \subseteq {"send", "read"}
    /\ UNCHANGED <<ready, welcomed, pinged, quiet, refused>>

(* A loss leaves neither a live socket nor a timer that belonged to it.        *)
LEMMA LossInv ==
    ASSUME Inv, quit_poll = FALSE, NEW wait \in Nat, Loss(wait)
    PROVE  Inv'
<1> USE IrcConnAssumption
<1> DEFINE T == Without(timers, {"connect_timeout"})
           r == tmr("reconnect", wait, NULL)
<1>1. /\ T \subseteq Timer
      /\ \A t \in T : t \in timers /\ t.name # "connect_timeout"
  BY DEF Without, Inv, TypeOK
<1>2. /\ timers' \subseteq Timer
      /\ server_tries' \in Nat
      /\ quit_poll' \in BOOLEAN
  BY <1>1, ScheduleReconnect DEF Inv, TypeOK, QuitWhenTriesUsedUp, Loss
<1>3. \/ /\ Pending(T, "reconnect")
         /\ timers' = T
         /\ UNCHANGED <<server_tries, quit_poll>>
      \/ /\ \A t \in timers' : t = r
         /\ quit_poll' => timers' = {} /\ server_tries' = MaxTries + 1
         /\ ~quit_poll' => /\ Pending(timers', "reconnect")
                           /\ MaxTries = 0 \/ server_tries' <= MaxTries
  BY <1>1, ScheduleReconnect DEF Inv, TypeOK, QuitWhenTriesUsedUp, Loss
<1>4. r.name = "reconnect" /\ r.left = wait
  BY DEF tmr
<1>5. TypeOK'
  <2>1. socks' \in [Sock -> [state : {"none", "connecting", "open", "zombie"},
                             partial : BOOLEAN]]
    BY DEF Inv, TypeOK, Loss, Zombie
  <2>2. known' \subseteq {"this", "old", "cut"} /\ failed' \subseteq {"send", "read", "event"}
    BY DEF Inv, TypeOK, Loss
  <2>3. /\ ready' \in BOOLEAN /\ welcomed' \in BOOLEAN /\ pinged' \in BOOLEAN
        /\ modules_told' \in BOOLEAN /\ refused' \in BOOLEAN
    BY DEF Inv, TypeOK, Loss
  <2>4. quiet' \in 0 .. StonedWait /\ server_sock' \in Sock \cup {NULL}
    BY DEF Inv, TypeOK, Loss
  <2> QED
    BY <1>2, <2>1, <2>2, <2>3, <2>4 DEF TypeOK
<1>6. OneLiveSocket'
  BY DEF Inv, TypeOK, OneLiveSocket, Live, Loss, Zombie
<1>7. TimersInv'
  <2>1. CASE Pending(T, "reconnect") /\ timers' = T /\ UNCHANGED quit_poll
    BY <1>1, <2>1 DEF Inv, TimersInv, UniqueTimers, Attempt, Connection, Retry, Orphan,
       Pending, Loss
  <2>2. CASE \A t \in timers' : t = r
    BY <1>3, <1>4, <2>2 DEF TimersInv, UniqueTimers, Attempt, Connection, Retry, Orphan,
       Pending, Loss
  <2> QED
    BY <1>3, <2>1, <2>2
<1>8. StonedOnlyWhenQuiet'
  BY <1>1, <1>3, <1>4 DEF Inv, StonedOnlyWhenQuiet, Loss
<1>9. ModulesToldOfLoss' /\ ResetEverything'
  BY DEF Inv, ModulesToldOfLoss, ResetEverything, Loss
<1>10. LossIsRetried'
  BY <1>3, Zenon DEF LossIsRetried, NotStranded
<1>11. QuitWhenTriesUsedUp'
  <2>1. CASE UNCHANGED <<server_tries, quit_poll>>
    BY <2>1 DEF QuitWhenTriesUsedUp, Inv
  <2> QED
    BY <1>3, <2>1, Zenon DEF QuitWhenTriesUsedUp
<1> QED
  BY <1>5, <1>6, <1>7, <1>8, <1>9, <1>10, <1>11 DEF Inv

(* EV_HANGUP and EV_ERROR come for the connection's own socket, the one that  *)
(* is live.                                                                   *)
LEMMA SocketLostInv ==
    ASSUME Inv, quit_poll = FALSE, NEW s \in Sock, irc_disconnected(s) \/ irc_error(s)
    PROVE  Inv'
<1> USE IrcConnAssumption
<1>1. socks[s].state \in {"connecting", "open"}
  BY DEF irc_disconnected, irc_error
<1>2. s = server_sock /\ server_sock # NULL
  BY <1>1 DEF Inv, OneLiveSocket, Live
<1>3. FlushAsserts(s, server_sock) \subseteq {"read"} /\ FlushAsserts(s, NULL) \subseteq {"read"}
  BY DEF FlushAsserts
<1>4. failed \subseteq {"send", "read"}
  BY DEF Inv, TypeOK, OneLiveSocket
<1>5. CASE irc_disconnected(s)
  <2>1. Loss(ClosedWait)
    BY <1>2, <1>3, <1>4, <1>5 DEF irc_disconnected, Loss
  <2> QED
    BY <2>1, LossInv
<1>6. CASE irc_error(s)
  <2>1. Loss(ErrorWait)
    BY <1>2, <1>3, <1>4, <1>6 DEF irc_error, Loss
  <2> QED
    BY <2>1, LossInv
<1> QED
  BY <1>5, <1>6

(* The connection comes up: the attempt's timeout goes, and the watch starts. *)
LEMMA ConnectedInv ==
    ASSUME Inv, quit_poll = FALSE, irc_connected
    PROVE  Inv'
<1> USE IrcConnAssumption
<1> DEFINE p == tmr("ping", PingWait, NULL)
           w == tmr("stoned", StonedWait, NULL)
<1>1. /\ server_sock # NULL /\ server_sock \in Sock
      /\ socks[server_sock].state = "connecting"
      /\ socks' = [socks EXCEPT ![server_sock].state = "open"]
      /\ UNCHANGED <<server_sock, server_tries, quit_poll, session, known, quiet, failed, refused>>
  BY DEF irc_connected, Inv, TypeOK
<1>2. /\ p \in Timer /\ w \in Timer
      /\ p.name = "ping" /\ w.name = "stoned" /\ w.left = StonedWait
  BY DEF tmr, Timer, TimerName
<1>3. /\ \A t \in timers' : (t \in timers /\ t.name = "stoned") \/ t = p \/ t = w
      /\ p \in timers' /\ w \in timers'
  <2>1. \A t \in timers : t.name \in {"connect_timeout", "stoned"}
    BY <1>1 DEF Inv, TypeOK, Timer, TimerName, TimersInv, Connection, Retry
  <2>2. timers' = Without(timers, {"connect_timeout"}) \cup {p, w}
    BY DEF irc_connected
  <2> HIDE DEF p, w
  <2> QED
    BY <2>1, <2>2 DEF Without
<1> HIDE DEF p, w
<1>4. TypeOK'
  <2>1. socks' \in [Sock -> [state : {"none", "connecting", "open", "zombie"},
                             partial : BOOLEAN]]
    BY <1>1 DEF Inv, TypeOK
  <2>2. timers' \subseteq Timer
    BY <1>2, <1>3 DEF Inv, TypeOK
  <2> QED
    BY <1>1, <2>1, <2>2 DEF Inv, TypeOK, session
<1>5. OneLiveSocket'
  BY <1>1 DEF Inv, TypeOK, OneLiveSocket, Live
<1>6. socks'[server_sock].state = "open"
  BY <1>1 DEF Inv, TypeOK
<1>7. TimersInv'
  BY <1>1, <1>2, <1>3, <1>6 DEF TimersInv, UniqueTimers, Attempt, Connection, Retry, Orphan,
     Pending
<1>8. StonedOnlyWhenQuiet'
  BY <1>1, <1>2, <1>3 DEF Inv, TypeOK, StonedOnlyWhenQuiet
<1>9. ModulesToldOfLoss' /\ ResetEverything' /\ LossIsRetried' /\ QuitWhenTriesUsedUp'
  BY <1>1 DEF Inv, ModulesToldOfLoss, ResetEverything, LossIsRetried, NotStranded,
     QuitWhenTriesUsedUp
<1> QED
  BY <1>4, <1>5, <1>7, <1>8, <1>9 DEF Inv

(* What the socket of the connection says of it changes neither by freeing a   *)
(* zombie nor by what is left in a buffer.                                     *)
LEMMA SocksInv ==
    ASSUME Inv,
           socks' \in [Sock -> [state : {"none", "connecting", "open", "zombie"},
                                partial : BOOLEAN]],
           Live' = Live,
           server_sock # NULL => socks'[server_sock].state = socks[server_sock].state,
           known' \subseteq known \cup {"this"},
           UNCHANGED <<server_sock, timers, server_tries, quit_poll, session, quiet, failed, refused>>
    PROVE  Inv'
<1>1. TypeOK'
  BY DEF Inv, TypeOK, session
<1>2. OneLiveSocket'
  BY DEF Inv, OneLiveSocket
<1>3. TimersInv'
  BY DEF Inv, TimersInv, UniqueTimers, Attempt, Connection, Retry, Orphan, Pending
<1>4. StonedOnlyWhenQuiet'
  BY DEF Inv, StonedOnlyWhenQuiet
<1>5. ModulesToldOfLoss' /\ ResetEverything' /\ LossIsRetried' /\ QuitWhenTriesUsedUp'
  BY DEF Inv, ModulesToldOfLoss, ResetEverything, LossIsRetried, NotStranded,
     QuitWhenTriesUsedUp, Pending, session
<1> QED
  BY <1>1, <1>2, <1>3, <1>4, <1>5 DEF Inv

(* sock_poll frees a zombie: it was not the connection's socket.               *)
LEMMA DestroyInv ==
    ASSUME Inv, NEW s \in Sock, sock_destroy(s)
    PROVE  Inv'
<1>1. /\ socks[s].state = "zombie" /\ socks' = [socks EXCEPT ![s] = NoSock]
      /\ UNCHANGED <<server_sock, timers, server_tries, quit_poll, session, known, quiet, failed, refused>>
  BY DEF sock_destroy
<1>2. server_sock # NULL => server_sock # s
  BY <1>1 DEF Inv, OneLiveSocket, Live
<1>3. socks' \in [Sock -> [state : {"none", "connecting", "open", "zombie"}, partial : BOOLEAN]]
  BY <1>1 DEF Inv, TypeOK, NoSock
<1>4. Live' = Live
  BY <1>1 DEF Inv, TypeOK, Live, NoSock
<1> QED
  BY <1>1, <1>2, <1>3, <1>4, SocksInv DEF Inv, TypeOK

(* A line, whole or cut off in the buffer.                                     *)
LEMMA LineInv ==
    ASSUME Inv, OtherLine \/ PartialLine
    PROVE  Inv'
<1>1. server_sock \in Sock
  BY DEF OtherLine, PartialLine, Reading, Inv, TypeOK
<1>2. PICK b \in BOOLEAN : socks' = [socks EXCEPT ![server_sock].partial = b]
  BY DEF OtherLine, PartialLine
<1>3. /\ UNCHANGED <<server_sock, timers, server_tries, quit_poll, session, quiet, failed, refused>>
      /\ known' \subseteq known \cup {"this"}
  BY DEF OtherLine, PartialLine
<1>4. socks' \in [Sock -> [state : {"none", "connecting", "open", "zombie"}, partial : BOOLEAN]]
  BY <1>1, <1>2 DEF Inv, TypeOK
<1>5. \A s \in Sock : socks'[s].state = socks[s].state
  BY <1>1, <1>2 DEF Inv, TypeOK
<1>6. Live' = Live
  BY <1>5 DEF Live
<1> QED
  BY <1>1, <1>3, <1>4, <1>5, <1>6, SocksInv

(* The login's two answers touch neither the socket nor a timer.               *)
LEMMA LoginInv ==
    ASSUME Inv, quit_poll = FALSE, num_welcome \/ num_whoisuser
    PROVE  Inv'
<1> USE IrcConnAssumption
<1>1. /\ server_sock # NULL
      /\ UNCHANGED <<server_sock, socks, timers, quit_poll, pinged, known, quiet, failed, refused>>
      /\ server_tries' \in {server_tries, 0}
      /\ ready' \in {ready, TRUE} /\ welcomed' \in {welcomed, TRUE} /\ modules_told' \in {modules_told, TRUE}
  BY DEF num_welcome, num_whoisuser, Reading, connection
<1>2. TypeOK'
  <2>1. ready' \in BOOLEAN /\ welcomed' \in BOOLEAN /\ modules_told' \in BOOLEAN
    BY <1>1, Zenon DEF Inv, TypeOK
  <2> QED
    BY <1>1, <2>1 DEF Inv, TypeOK
<1>3. OneLiveSocket'
  BY <1>1 DEF Inv, OneLiveSocket, Live
<1>4. TimersInv'
  BY <1>1 DEF Inv, TimersInv, UniqueTimers, Attempt, Connection, Retry, Orphan, Pending
<1>5. StonedOnlyWhenQuiet'
  BY <1>1 DEF Inv, StonedOnlyWhenQuiet
<1>6. ModulesToldOfLoss' /\ ResetEverything' /\ LossIsRetried'
  BY <1>1 DEF Inv, ModulesToldOfLoss, ResetEverything, LossIsRetried, NotStranded, Pending
<1>7. QuitWhenTriesUsedUp'
  BY <1>1 DEF Inv, TypeOK, QuitWhenTriesUsedUp
<1> QED
  BY <1>2, <1>3, <1>4, <1>5, <1>6, <1>7 DEF Inv

(* A PONG puts the watchdog off, or arms one beside a reconnect that is due.   *)
LEMMA PongInv ==
    ASSUME Inv, quit_poll = FALSE, pong
    PROVE  Inv'
<1> USE IrcConnAssumption
<1> DEFINE w == tmr("stoned", StonedWait, NULL)
<1>1. /\ server_sock # NULL /\ socks[server_sock].state = "open"
      /\ UNCHANGED <<server_sock, socks, server_tries, quit_poll, ready, welcomed, modules_told, known, failed, refused>>
      /\ pinged' = FALSE /\ quiet' = 0
  BY DEF pong, Reading, connection
<1>2. w \in Timer /\ w.name = "stoned" /\ w.left = StonedWait
  BY DEF tmr, Timer, TimerName
<1>3. /\ \A t \in timers' : (t \in timers /\ t.name # "stoned") \/ t = w
      /\ \A t \in timers : t.name # "stoned" => t \in timers'
      /\ w \in timers'
  <2>1. timers' = Without(timers, {"stoned"}) \cup {w}
    BY DEF pong, irc_watchdog_reset
  <2> HIDE DEF w
  <2> QED
    BY <2>1 DEF Without
<1> HIDE DEF w
<1>4. TypeOK'
  <2>1. timers' \subseteq Timer /\ quiet' \in 0 .. StonedWait
    BY <1>1, <1>2, <1>3 DEF Inv, TypeOK
  <2>2. pinged' \in BOOLEAN
    BY <1>1
  <2> QED
    BY <1>1, <2>1, <2>2 DEF Inv, TypeOK
<1>5. OneLiveSocket'
  BY <1>1 DEF Inv, OneLiveSocket, Live
<1>6. TimersInv'
  BY <1>1, <1>2, <1>3 DEF Inv, TimersInv, UniqueTimers, Attempt, Connection, Retry, Orphan,
     Pending
<1>7. StonedOnlyWhenQuiet'
  BY <1>1, <1>2, <1>3 DEF Inv, StonedOnlyWhenQuiet
<1>8. ModulesToldOfLoss' /\ ResetEverything' /\ LossIsRetried' /\ QuitWhenTriesUsedUp'
  BY <1>1 DEF Inv, ModulesToldOfLoss, ResetEverything, LossIsRetried, NotStranded,
     QuitWhenTriesUsedUp
<1> QED
  BY <1>4, <1>5, <1>6, <1>7, <1>8 DEF Inv

(* A PING is sent over a connection and arms the next one.                     *)
LEMMA PingInv ==
    ASSUME Inv, quit_poll = FALSE, NEW t \in DueTimer("ping"), irc_ping(t)
    PROVE  Inv'
<1> USE IrcConnAssumption
<1> DEFINE p == tmr("ping", PingWait, NULL)
<1>1. /\ t \in timers /\ t.name = "ping"
      /\ server_sock # NULL /\ socks[server_sock].state = "open"
  BY DEF DueTimer, Inv, TimersInv, Connection
<1>2. /\ UNCHANGED <<server_sock, socks, server_tries, quit_poll, ready, welcomed, modules_told, known, quiet, refused>>
      /\ failed' = failed /\ pinged' \in BOOLEAN
  BY <1>1 DEF irc_ping, irc_send_fast, connection, Inv, TypeOK
<1>3. p \in Timer /\ p.name = "ping"
  BY DEF tmr, Timer, TimerName
<1>4. /\ \A u \in timers' : (u \in timers /\ u.name # "ping") \/ u = p
      /\ \A u \in timers : u.name # "ping" => u \in timers'
      /\ p \in timers'
  <2>1. timers' = (timers \ {t}) \cup {p}
    BY DEF irc_ping
  <2> HIDE DEF p
  <2> QED
    BY <1>1, <2>1 DEF Inv, TimersInv, UniqueTimers
<1> HIDE DEF p
<1>5. TypeOK'
  BY <1>2, <1>3, <1>4 DEF Inv, TypeOK
<1>6. OneLiveSocket'
  BY <1>2 DEF Inv, OneLiveSocket, Live
<1>7. TimersInv'
  BY <1>1, <1>2, <1>3, <1>4 DEF Inv, TimersInv, UniqueTimers, Attempt, Connection, Retry,
     Orphan, Pending
<1>8. StonedOnlyWhenQuiet'
  BY <1>2, <1>3, <1>4 DEF Inv, StonedOnlyWhenQuiet
<1>9. ModulesToldOfLoss' /\ ResetEverything' /\ LossIsRetried' /\ QuitWhenTriesUsedUp'
  BY <1>1, <1>2 DEF Inv, ModulesToldOfLoss, ResetEverything, LossIsRetried, NotStranded,
     QuitWhenTriesUsedUp
<1> QED
  BY <1>5, <1>6, <1>7, <1>8, <1>9 DEF Inv

(* A watchdog is never due during an attempt, nor while a reconnect is         *)
(* pending: an attempt is younger than ConnectWait and StonedWait is longer.   *)
LEMMA StonedWhen ==
    ASSUME Inv, quit_poll = FALSE, NEW t \in DueTimer("stoned")
    PROVE  /\ ~Pending(timers, "reconnect")
           /\ server_sock # NULL => socks[server_sock].state = "open"
           /\ server_sock = NULL => refused
<1> USE IrcConnAssumption
<1>1. t \in timers /\ t.name = "stoned" /\ t.left = 0
  BY DEF DueTimer
<1>2. quiet >= StonedWait
  BY <1>1 DEF Inv, TypeOK, StonedOnlyWhenQuiet
<1>3. ~Pending(timers, "reconnect")
  BY <1>1 DEF Inv, TimersInv, Retry, Pending
<1>4. ~\E u \in timers : u.name = "connect_timeout"
  BY <1>2 DEF Inv, TypeOK, Timer, TimersInv, Attempt
<1>5. server_sock # NULL => socks[server_sock].state = "open"
  BY <1>4 DEF Inv, TypeOK, OneLiveSocket, Live, TimersInv, Attempt, Pending
<1>6. server_sock = NULL => refused
  BY <1>1, <1>3 DEF Inv, TimersInv, Orphan, Pending
<1> QED
  BY <1>3, <1>5, <1>6

(* A watchdog gives the connection up at once, and the attempt that failed     *)
(* another chance.                                                             *)
LEMMA StonedInv ==
    ASSUME Inv, quit_poll = FALSE, NEW t \in DueTimer("stoned"), irc_stoned(t)
    PROVE  Inv'
<1> USE IrcConnAssumption
<1> DEFINE T == timers \ {t}
           r == tmr("reconnect", 0, NULL)
<1>1. /\ t \in timers /\ t.name = "stoned"
      /\ ~Pending(timers, "reconnect")
      /\ server_sock # NULL => socks[server_sock].state = "open"
      /\ server_sock = NULL => refused
  BY StonedWhen DEF DueTimer
<1>2. /\ UNCHANGED <<server_sock, socks, ready, welcomed, pinged, modules_told, known, quiet, refused>>
      /\ failed' \subseteq failed \cup {"send"}
      /\ irc_schedule_reconnect(T, 0)
  BY DEF irc_stoned, irc_send_fast, connection, session
<1>3. /\ T \subseteq Timer
      /\ \A u \in T : u.name # "connect_timeout"
      /\ ~Pending(T, "reconnect")
  BY <1>1 DEF Inv, TypeOK, TimersInv, Attempt, Pending
<1>4. /\ timers' \subseteq Timer /\ server_tries' \in Nat /\ quit_poll' \in BOOLEAN
      /\ \A u \in timers' : u = r
      /\ quit_poll' => timers' = {} /\ server_tries' = MaxTries + 1
      /\ ~quit_poll' => /\ Pending(timers', "reconnect")
                        /\ MaxTries = 0 \/ server_tries' <= MaxTries
  BY <1>2, <1>3, ScheduleReconnect DEF Inv, TypeOK, QuitWhenTriesUsedUp
<1>5. r.name = "reconnect" /\ r.left = 0
  BY DEF tmr
<1>6. TypeOK'
  BY <1>2, <1>4 DEF Inv, TypeOK
<1>7. OneLiveSocket'
  BY <1>2 DEF Inv, OneLiveSocket, Live
<1>8. TimersInv'
  BY <1>1, <1>2, <1>4, <1>5 DEF TimersInv, UniqueTimers, Attempt, Connection, Retry,
     Orphan, Pending
<1>9. StonedOnlyWhenQuiet'
  BY <1>4, <1>5 DEF StonedOnlyWhenQuiet
<1>10. ModulesToldOfLoss' /\ ResetEverything'
  BY <1>2 DEF Inv, ModulesToldOfLoss, ResetEverything
<1>11. LossIsRetried' /\ QuitWhenTriesUsedUp'
  BY <1>4, Zenon DEF LossIsRetried, NotStranded, QuitWhenTriesUsedUp
<1> QED
  BY <1>6, <1>7, <1>8, <1>9, <1>10, <1>11 DEF Inv

(* An attempt's timeout fires for that attempt, and the attempt is lost.       *)
LEMMA ConnectTimeoutInv ==
    ASSUME Inv, quit_poll = FALSE, NEW t \in DueTimer("connect_timeout"),
           irc_connect_timeout(t)
    PROVE  Inv'
<1> USE IrcConnAssumption
<1>1. /\ t \in timers /\ t.name = "connect_timeout"
      /\ t.data = server_sock /\ server_sock # NULL
  BY DEF DueTimer, Inv, TimersInv, Attempt
<1>2. timers \ {t} = Without(timers, {"connect_timeout"})
  BY <1>1 DEF Without, Inv, TimersInv, UniqueTimers
<1>3. Loss(TimeoutWait)
  BY <1>1, <1>2 DEF irc_connect_timeout, Loss, FlushAsserts, Inv, TypeOK, OneLiveSocket
<1> QED
  BY <1>3, LossInv

(* A reconnect starts with a clean slate: nothing but a watchdog that has all  *)
(* of its time left is pending.                                                *)
LEMMA ReconnectInv ==
    ASSUME Inv, quit_poll = FALSE, NEW t \in DueTimer("reconnect"), irc_reconnect(t)
    PROVE  Inv'
<1> USE IrcConnAssumption
<1> DEFINE T == timers \ {t}
<1>1. /\ t \in timers /\ t.name = "reconnect" /\ t \in Timer
      /\ server_sock # NULL => socks[server_sock].state = "open"
  BY DEF DueTimer, Inv, TypeOK, TimersInv, Retry
<1>2. /\ T \subseteq Timer
      /\ \A u \in T : u.name = "stoned" /\ u.left = StonedWait
  <2>1. T \subseteq Timer
    BY DEF Inv, TypeOK
  <2>2. \A u \in T : u.name # "reconnect"
    BY <1>1 DEF Inv, TimersInv, UniqueTimers
  <2>3. \A u \in T : u.name # "ping"
    BY <1>1 DEF Inv, TimersInv, Connection, Pending
  <2>4. \A u \in T : u.name # "connect_timeout"
    BY <1>1 DEF Inv, TimersInv, Attempt
  <2>5. \A u \in T : u.name = "stoned" => u.left = StonedWait
    BY <1>1 DEF Inv, TimersInv, Retry
  <2> QED
    BY <2>1, <2>2, <2>3, <2>4, <2>5 DEF Timer, TimerName
<1>3. /\ UNCHANGED <<server_tries, quit_poll, modules_told, failed>>
      /\ ready' = FALSE /\ welcomed' = FALSE /\ pinged' = FALSE /\ quiet' = 0
      /\ known' \subseteq {"cut"}
      /\ irc_connect(T)
  BY DEF irc_reconnect
<1>4. /\ Closed \in [Sock -> [state : {"none", "connecting", "open", "zombie"},
                              partial : BOOLEAN]]
      /\ \A s \in Sock : Closed[s].state \notin {"connecting", "open"}
  BY DEF Inv, TypeOK, OneLiveSocket, Live, Closed, Zombie
<1>5. CASE /\ socks' = Closed /\ server_sock' = NULL
           /\ timers' = T /\ refused' = TRUE
  <2>1. TypeOK'
    <3>1. /\ quit_poll' \in BOOLEAN /\ ready' \in BOOLEAN /\ welcomed' \in BOOLEAN
          /\ pinged' \in BOOLEAN /\ modules_told' \in BOOLEAN /\ refused' \in BOOLEAN
      BY <1>3, <1>5 DEF Inv, TypeOK
    <3>2. quiet' \in 0 .. StonedWait
      BY <1>3
    <3> QED
      BY <1>2, <1>3, <1>4, <1>5, <3>1, <3>2 DEF Inv, TypeOK
  <2>2. OneLiveSocket'
    BY <1>3, <1>4, <1>5 DEF Inv, OneLiveSocket, Live
  <2>3. TimersInv'
    BY <1>2, <1>5 DEF TimersInv, UniqueTimers, Attempt, Connection, Retry, Orphan, Pending
  <2>4. StonedOnlyWhenQuiet'
    BY <1>2, <1>3, <1>5 DEF StonedOnlyWhenQuiet
  <2>5. ModulesToldOfLoss' /\ ResetEverything' /\ LossIsRetried' /\ QuitWhenTriesUsedUp'
    BY <1>3, <1>5 DEF Inv, ModulesToldOfLoss, ResetEverything, LossIsRetried,
       QuitWhenTriesUsedUp
  <2> QED
    BY <2>1, <2>2, <2>3, <2>4, <2>5 DEF Inv
<1>6. ASSUME NEW s \in Sock,
             socks[s].state = "none",
             socks' = [Closed EXCEPT ![s] = Opening],
             server_sock' = s,
             timers' = T \cup {tmr("connect_timeout", ConnectWait, s)},
             refused' = FALSE
      PROVE  Inv'
  <2> DEFINE a == tmr("connect_timeout", ConnectWait, s)
  <2>1. a \in Timer /\ a.name = "connect_timeout" /\ a.left = ConnectWait /\ a.data = s
    BY DEF tmr, Timer, TimerName
  <2>2. /\ socks' \in [Sock -> [state : {"none", "connecting", "open", "zombie"},
                                partial : BOOLEAN]]
        /\ socks'[s].state = "connecting"
        /\ \A x \in Sock : x # s => socks'[x].state \notin {"connecting", "open"}
    BY <1>4, <1>6 DEF Opening
  <2>3. a \in timers' /\ \A u \in timers' : u = a \/ u \in T
    BY <1>6
  <2> HIDE DEF a, T
  <2>4. TypeOK'
    <3>1. /\ quit_poll' \in BOOLEAN /\ ready' \in BOOLEAN /\ welcomed' \in BOOLEAN
          /\ pinged' \in BOOLEAN /\ modules_told' \in BOOLEAN /\ refused' \in BOOLEAN
      BY <1>3, <1>6 DEF Inv, TypeOK
    <3>2. quiet' \in 0 .. StonedWait
      BY <1>3
    <3>3. timers' \subseteq Timer
      BY <1>2, <2>1, <2>3
    <3> QED
      BY <1>3, <1>6, <2>2, <3>1, <3>2, <3>3 DEF Inv, TypeOK
  <2>5. OneLiveSocket'
    BY <1>3, <1>6, <2>2 DEF Inv, OneLiveSocket, Live
  <2>6. TimersInv'
    BY <1>2, <1>3, <1>6, <2>1, <2>2, <2>3 DEF TimersInv, UniqueTimers, Attempt, Connection,
       Retry, Orphan, Pending
  <2>7. StonedOnlyWhenQuiet'
    BY <1>2, <1>3, <2>1, <2>3 DEF StonedOnlyWhenQuiet
  <2>8. ModulesToldOfLoss' /\ ResetEverything' /\ LossIsRetried' /\ QuitWhenTriesUsedUp'
    BY <1>3, <1>6 DEF Inv, ModulesToldOfLoss, ResetEverything, LossIsRetried, NotStranded,
       QuitWhenTriesUsedUp
  <2> QED
    BY <2>4, <2>5, <2>6, <2>7, <2>8 DEF Inv
<1> QED
  BY <1>3, <1>5, <1>6 DEF irc_connect

(* A tick brings every timer nearer and, without a PONG, counts the quiet.     *)
LEMMA TickInv ==
    ASSUME Inv, quit_poll = FALSE, Tick
    PROVE  Inv'
<1> USE IrcConnAssumption
<1>1. /\ UNCHANGED <<server_sock, socks, server_tries, quit_poll, ready, welcomed, pinged,
                     modules_told, known, failed, refused>>
      /\ quiet' = IF quiet < StonedWait THEN quiet + 1 ELSE quiet
  BY DEF Tick, connection, session
<1> DEFINE later(t) == [t EXCEPT !.left = @ - 1]
<1>2. \A t \in timers : t \in Timer /\ t.left \in Nat \ {0}
  BY DEF Tick, Inv, TypeOK, Timer
<1>3. \A t \in timers : /\ later(t) \in Timer
                        /\ later(t).name = t.name /\ later(t).data = t.data
                        /\ later(t).left = t.left - 1
  BY <1>2 DEF Timer
<1>4. /\ \A t \in timers : later(t) \in timers'
      /\ \A u \in timers' : \E t \in timers : u = later(t)
  BY DEF Tick
<1> HIDE DEF later
<1>5. \A name : Pending(timers', name) <=> Pending(timers, name)
  BY <1>3, <1>4 DEF Pending
<1>6. TypeOK'
  <2>1. timers' \subseteq Timer
    BY <1>3, <1>4
  <2>2. quiet' \in 0 .. StonedWait
    BY <1>1 DEF Inv, TypeOK
  <2> QED
    BY <1>1, <2>1, <2>2 DEF Inv, TypeOK
<1>7. OneLiveSocket'
  BY <1>1 DEF Inv, OneLiveSocket, Live
<1>8. TimersInv'
  <2>1. UniqueTimers'
    BY <1>3, <1>4 DEF Inv, TimersInv, UniqueTimers
  <2>2. Attempt'
    BY <1>1, <1>2, <1>3, <1>4, <1>5 DEF Inv, TypeOK, TimersInv, Attempt
  <2>3. Connection'
    BY <1>1, <1>3, <1>4, <1>5 DEF Inv, TimersInv, Connection
  <2>4. Retry'
    BY <1>1, <1>2, <1>3, <1>4 DEF Inv, TimersInv, Retry
  <2>5. Orphan'
    BY <1>1, <1>5 DEF Inv, TimersInv, Orphan
  <2> QED
    BY <2>1, <2>2, <2>3, <2>4, <2>5 DEF TimersInv
<1>9. StonedOnlyWhenQuiet'
  BY <1>1, <1>2, <1>3, <1>4 DEF Inv, TypeOK, StonedOnlyWhenQuiet
<1>10. ModulesToldOfLoss' /\ ResetEverything' /\ LossIsRetried' /\ QuitWhenTriesUsedUp'
  BY <1>1, <1>5 DEF Inv, ModulesToldOfLoss, ResetEverything, LossIsRetried, NotStranded,
     QuitWhenTriesUsedUp
<1> QED
  BY <1>6, <1>7, <1>8, <1>9, <1>10 DEF Inv

(* One case per step of the loop.                                              *)
LEMMA NextInv == Inv /\ [Next]_vars => Inv'
<1> SUFFICES ASSUME Inv, [Next]_vars PROVE Inv'
  OBVIOUS
<1>1. CASE Next
  <2>1. quit_poll = FALSE
    BY <1>1 DEF Next, Inv, TypeOK
  <2>2. CASE sock_poll
    BY <2>1, <2>2, ConnectedInv, SocketLostInv, DestroyInv, LoginInv, PongInv, LineInv
       DEF sock_poll
  <2>3. CASE timer_poll
    BY <2>1, <2>3, PingInv, StonedInv, ConnectTimeoutInv, ReconnectInv DEF timer_poll
  <2>4. CASE Tick
    BY <2>1, <2>4, TickInv
  <2> QED
    BY <1>1, <2>2, <2>3, <2>4 DEF Next
<1>2. CASE UNCHANGED vars
  BY <1>2 DEF vars, connection, session, Inv, TypeOK, OneLiveSocket, Live, TimersInv, UniqueTimers,
     Attempt, Connection, Retry, Orphan, Pending, StonedOnlyWhenQuiet, ModulesToldOfLoss,
     ResetEverything, LossIsRetried, NotStranded, QuitWhenTriesUsedUp
<1> QED
  BY <1>1, <1>2

(* The inductive invariant holds of every behaviour.                           *)
THEOREM SpecInv == Spec => []Inv
BY InitInv, NextInv, PTL DEF Spec

(* A set all of whose elements are one has at most one element.                *)
LEMMA AtMostOne ==
    ASSUME NEW S, \A x, y \in S : x = y
    PROVE  Cardinality(S) <= 1
<1>1. CASE S = {}
  BY <1>1, FS_EmptySet
<1>2. CASE S # {}
  <2>1. PICK x \in S : TRUE
    BY <1>2
  <2>2. S = {x}
    BY <2>1
  <2> QED
    BY <2>2, FS_Singleton
<1> QED
  BY <1>1, <1>2

(* The connection's bookkeeping follows from the inductive invariant.          *)
LEMMA InvConnectionSound == Inv => ConnectionSound
<1> SUFFICES ASSUME Inv PROVE ConnectionSound
  OBVIOUS
<1>1. ConnectTimeoutIsCurrent
  BY DEF Inv, TimersInv, Attempt, ConnectTimeoutIsCurrent
<1>2. OneOfEach
  <2> SUFFICES ASSUME NEW name \in {"ping", "reconnect", "connect_timeout"}
               PROVE  Cardinality({t \in timers : t.name = name}) <= 1
    BY DEF OneOfEach
  <2>1. \A t, u \in {t \in timers : t.name = name} : t = u
    BY DEF Inv, TimersInv, UniqueTimers
  <2> QED
    BY <2>1, AtMostOne
<1>3. Watched
  BY DEF Inv, TypeOK, OneLiveSocket, Live, TimersInv, Attempt, Connection, Watched
<1>4. LossHandled
  BY DEF Inv, LossHandled
<1> QED
  BY <1>1, <1>2, <1>3, <1>4 DEF Inv, ConnectionSound

(* In every behaviour: one live socket, timers that belong to it, one of each  *)
(* kind, a watch on every attempt and connection, no watchdog that bites       *)
(* early, and every loss told, reset and retried while tries are left.         *)
THEOREM SpecConnectionSound == Spec => []ConnectionSound
BY SpecInv, InvConnectionSound, PTL

(* assert(bot.server_sock) fails in no step but one: a watchdog that an        *)
(* attempt which failed at once has left.  A PING is always sent over a        *)
(* connection.                                                                 *)
THEOREM SpecSendHasSocket == Spec => SendHasSocket
<1>1. Inv /\ [Next]_vars => ["send" \in failed' \ failed => refused]_vars
  <2> SUFFICES ASSUME Inv, Next, "send" \in failed' \ failed PROVE refused
    BY DEF vars
  <2>1. quit_poll = FALSE
    BY DEF Next, Inv, TypeOK
  <2>2. \A t \in DueTimer("ping") : ~irc_ping(t)
    BY DEF DueTimer, Inv, TimersInv, Connection, irc_ping, irc_send_fast
  <2>3. ASSUME NEW t \in DueTimer("stoned"), irc_stoned(t) PROVE refused
    BY <2>1, <2>3, StonedWhen DEF irc_stoned, irc_send_fast
  <2>4. \A t \in timers : ~irc_connect_timeout(t) /\ ~irc_reconnect(t)
    BY DEF irc_connect_timeout, irc_reconnect, FlushAsserts
  <2>5. ~sock_poll /\ ~Tick
    BY DEF sock_poll, Tick, irc_connected, irc_disconnected, irc_error, sock_destroy,
       num_welcome, num_whoisuser, pong, OtherLine, PartialLine, FlushAsserts
  <2> QED
    BY <2>2, <2>3, <2>4, <2>5 DEF Next, timer_poll, DueTimer
<1> QED
  BY <1>1, SpecInv, PTL DEF Spec, SendHasSocket

(***************************************************************************)
(* Srvx.                                                                   *)
(***************************************************************************)

Sound(w) ==
    /\ w \in Way
    /\ \A i, j \in DOMAIN w.queue : w.queue[i] = w.queue[j] => i = j
    /\ w.begun => w.queue # <<>>

(* Both ways carry a request once, and no request goes both ways.             *)
Ways ==
    /\ Sound(qserver) /\ Sound(irc)
    /\ Unanswered(qserver) \cap Unanswered(irc) = {}
    /\ Auth \notin Unanswered(irc)

(* The qserver has something to answer only over an open connection, and      *)
(* nothing but the login before the login is answered.  A reconnect waits only *)
(* where there is no connection.                                              *)
Login ==
    /\ "srvx_reconnect" \in srvx_timers => srvx_sock = "none"
    /\ srvx_sock # "open" => qserver = Idle
    /\ srvx_sock = "connecting" => ~srvx_authed
    /\ srvx_sock = "open" /\ ~srvx_authed => Unanswered(qserver) \subseteq {Auth}
    /\ srvx_sock = "open" /\ srvx_authed => Auth \notin Unanswered(qserver)

(* What waits for a response is in the dict, but for what was cancelled while  *)
(* it was under way over IRC; what is in the dict was not called back, and     *)
(* what waits was called back at most by that cancellation.                    *)
Callbacks ==
    /\ Unanswered(qserver) \subseteq requests
    /\ "cancel" \notin mishaps => Unanswered(irc) \subseteq requests
    /\ \A r \in requests : called[r] = 0
    /\ \A r \in Unanswered(irc) : called[r] <= 1
    /\ "cancel" \notin mishaps => \A r \in All : called[r] <= 1

(* As long as no response was cut off and no request cancelled, the dict holds *)
(* what waits and the active request is the one whose response has begun.      *)
Undisturbed ==
    mishaps \subseteq {"early"} =>
        /\ requests \subseteq Unanswered(qserver) \cup Unanswered(irc)
        /\ active_request = IF qserver.begun THEN Head(qserver.queue) ELSE NONE
        /\ active_request_irc = IF irc.begun THEN Head(irc.queue) ELSE NONE

Types ==
    /\ srvx_sock \in {"none", "connecting", "open"}
    /\ srvx_authed \in BOOLEAN
    /\ requests \subseteq All
    /\ active_request \in All \cup {NONE}
    /\ active_request_irc \in All \cup {NONE}
    /\ srvx_timers \subseteq {"srvx_reconnect", "srvx_connect_timeout"}
    /\ login_refused \in BOOLEAN
    /\ called \in [All -> 0..2]
    /\ mishaps \subseteq {"mid", "cancel", "early"}

(* The inductive invariant.                                                   *)
SrvxInv == Types /\ Ways /\ Login /\ Callbacks /\ Undisturbed /\ ComesBack /\ TimeoutIsConnecting

(* Nothing is under way.                                                      *)
LEMMA IdleWay == Sound(Idle) /\ Unanswered(Idle) = {} /\ ~Idle.begun
BY DEF Sound, Idle, Unanswered, Way

(* A new request goes to the end.                                             *)
LEMMA EnqueueWay ==
    ASSUME NEW w, Sound(w), NEW r \in All, r \notin Unanswered(w)
    PROVE  /\ Sound(Enqueue(w, r))
           /\ Unanswered(Enqueue(w, r)) = Unanswered(w) \cup {r}
           /\ Enqueue(w, r).begun = w.begun
           /\ w.queue # <<>> => Head(Enqueue(w, r).queue) = Head(w.queue)
<1> DEFINE q == w.queue
           v == Enqueue(w, r)
<1>1. q \in Seq(All) /\ w.begun \in BOOLEAN
  BY DEF Sound, Way
<1>2. v.queue = Append(q, r) /\ v.begun = w.begun /\ v \in Way
  BY <1>1 DEF Enqueue, Sound, Way
<1>3. /\ DOMAIN v.queue = 1 .. Len(q) + 1 /\ DOMAIN q = 1 .. Len(q) /\ Len(q) \in Nat
      /\ \A k \in 1 .. Len(q) : v.queue[k] = q[k]
      /\ v.queue[Len(q) + 1] = r
  BY <1>1, <1>2
<1>4. \A k \in DOMAIN q : q[k] # r
  BY DEF Unanswered
<1>5. \A i, j \in DOMAIN v.queue : v.queue[i] = v.queue[j] => i = j
  <2>1. \A i, j \in DOMAIN q : q[i] = q[j] => i = j
    BY DEF Sound
  <2> HIDE DEF v, q
  <2> QED
    BY <1>3, <1>4, <2>1
<1>6. Unanswered(v) = Unanswered(w) \cup {r}
  BY <1>3 DEF Unanswered
<1>7. v.queue # <<>>
  BY <1>1, <1>2
<1>8. q # <<>> => Head(v.queue) = Head(q)
  BY <1>1, <1>2
<1> QED
  BY <1>2, <1>5, <1>6, <1>7, <1>8 DEF Sound

(* The answer to the first request begins.                                    *)
LEMMA BeginWay ==
    ASSUME NEW w, Sound(w), w.queue # <<>>
    PROVE  LET v == [w EXCEPT !.begun = TRUE]
           IN  /\ Sound(v) /\ Unanswered(v) = Unanswered(w)
               /\ v.begun /\ v.queue = w.queue
               /\ Head(w.queue) \in Unanswered(w)
<1> DEFINE v == [w EXCEPT !.begun = TRUE]
<1>1. v \in Way /\ v.queue = w.queue /\ v.begun
  BY DEF Sound, Way
<1>2. Head(w.queue) \in Unanswered(w)
  BY DEF Sound, Way, Unanswered
<1> QED
  BY <1>1, <1>2 DEF Sound, Unanswered

(* The answer to the first request is complete.                               *)
LEMMA FinishWay ==
    ASSUME NEW w, Sound(w), w.queue # <<>>
    PROVE  /\ Sound(Finish(w))
           /\ Unanswered(Finish(w)) = Unanswered(w) \ {Head(w.queue)}
           /\ ~Finish(w).begun
           /\ Head(w.queue) \in Unanswered(w)
<1> DEFINE q == w.queue
           v == Finish(w)
<1>1. q \in Seq(All) /\ Len(q) \in Nat /\ Len(q) > 0 /\ DOMAIN q = 1 .. Len(q)
  BY DEF Sound, Way
<1>2. v.queue = Tail(q) /\ v.begun = FALSE /\ v \in Way
  BY <1>1 DEF Finish, Way
<1>3. /\ \A k \in DOMAIN v.queue : /\ k \in Int /\ k + 1 \in DOMAIN q /\ k + 1 # 1
                                   /\ v.queue[k] = q[k + 1]
      /\ \A k \in DOMAIN q : k # 1 => k - 1 \in DOMAIN v.queue /\ v.queue[k - 1] = q[k]
      /\ 1 \in DOMAIN q
  BY <1>1, <1>2
<1>4. \A i, j \in DOMAIN q : q[i] = q[j] => i = j
  BY DEF Sound
<1>5. \A i, j \in DOMAIN v.queue : v.queue[i] = v.queue[j] => i = j
  <2> SUFFICES ASSUME NEW i \in DOMAIN v.queue, NEW j \in DOMAIN v.queue,
                      v.queue[i] = v.queue[j]
               PROVE  i = j
    OBVIOUS
  <2>1. i \in Int /\ j \in Int /\ i + 1 = j + 1
    BY <1>3, <1>4
  <2> HIDE DEF v, q
  <2> QED
    BY <2>1
<1>6. Head(q) = q[1]
  BY <1>1
<1>7. Unanswered(v) = Unanswered(w) \ {q[1]}
  <2>1. ASSUME NEW x \in Unanswered(v) PROVE x \in Unanswered(w) /\ x # q[1]
    BY <1>3, <1>4 DEF Unanswered
  <2>2. ASSUME NEW x \in Unanswered(w), x # q[1] PROVE x \in Unanswered(v)
    <3>1. PICK k \in DOMAIN q : x = q[k] /\ k # 1
      BY <2>2 DEF Unanswered
    <3> QED
      BY <1>3, <3>1 DEF Unanswered
  <2> QED
    BY <2>1, <2>2
<1>8. q[1] \in Unanswered(w)
  BY <1>1 DEF Unanswered
<1> QED
  BY <1>2, <1>5, <1>6, <1>7, <1>8 DEF Sound

(* MODULE_INIT: no request is under way.                                      *)
LEMMA SrvxInitInv == srvxInit => SrvxInv
<1> SUFFICES ASSUME srvxInit PROVE SrvxInv
  OBVIOUS
<1> USE ConstantsAssumption
<1>1. Types
  <2>1. called \in [All -> 0..2]
    BY DEF srvxInit
  <2>2. srvx_authed \in BOOLEAN /\ login_refused \in BOOLEAN
    BY DEF srvxInit
  <2> QED
    BY <2>1, <2>2 DEF srvxInit, Types
<1>2. Login /\ ComesBack /\ TimeoutIsConnecting
  BY DEF srvxInit, Login, ComesBack, TimeoutIsConnecting
<1>3. Ways /\ Callbacks /\ Undisturbed
  BY IdleWay DEF srvxInit, Ways, Callbacks, Undisturbed, All
<1> QED
  BY <1>1, <1>2, <1>3 DEF SrvxInv

(* Losing the connection calls back every request in the dict, once; what is  *)
(* under way over IRC may still be called back a second time.                 *)
LEMMA LoseInv ==
    ASSUME SrvxInv, lose_connection, srvx_authed' \in BOOLEAN, login_refused' \in BOOLEAN
    PROVE  SrvxInv'
<1> USE ConstantsAssumption
<1>1. /\ srvx_sock' = "none" /\ requests' = {}
      /\ called' = [r \in All |-> IF r \in requests THEN called[r] + 1 ELSE called[r]]
      /\ srvx_timers' = (srvx_timers \ {"srvx_connect_timeout"}) \cup {"srvx_reconnect"}
      /\ qserver' = Idle
      /\ mishaps \subseteq mishaps'
      /\ mishaps' \subseteq {"mid", "cancel", "early"}
      /\ "mid" \notin mishaps' => ~qserver.begun
      /\ "cancel" \notin mishaps' => irc.queue = <<>>
      /\ UNCHANGED <<active_request, active_request_irc, irc>>
  BY DEF lose_connection, cancel_requests, cancelled, schedule_reconnect, SrvxInv, Types
<1>2. called' \in [All -> 0..2] /\ \A r \in All : called'[r] <= called[r] + 1
  BY <1>1 DEF SrvxInv, Types, Callbacks
<1>3. Types'
  BY <1>1, <1>2 DEF SrvxInv, Types
<1>4. Ways'
  BY <1>1, IdleWay DEF SrvxInv, Ways
<1>5. Login'
  BY <1>1 DEF Login
<1>6. irc.queue = <<>> => Unanswered(irc) = {} /\ ~irc.begun
  BY DEF Unanswered, SrvxInv, Ways, Sound, Way
<1>7. Callbacks'
  <2>1. \A r \in Unanswered(irc)' : called'[r] <= 1
    <3>1. \A r \in Unanswered(irc) : r \in All
      BY DEF SrvxInv, Ways, Sound, Way, Unanswered
    <3> QED
      BY <1>1, <1>2, <3>1 DEF SrvxInv, Types, Callbacks, Unanswered
  <2>2. "cancel" \notin mishaps' => \A r \in All : called'[r] <= 1
    BY <1>1, <1>2 DEF SrvxInv, Types, Callbacks
  <2> QED
    BY <1>1, <1>6, <2>1, <2>2, IdleWay DEF Callbacks
<1>8. Undisturbed'
  BY <1>1, <1>6, IdleWay DEF SrvxInv, Undisturbed
<1>9. ComesBack' /\ TimeoutIsConnecting'
  BY <1>1 DEF ComesBack, TimeoutIsConnecting
<1> QED
  BY <1>3, <1>4, <1>5, <1>7, <1>8, <1>9 DEF SrvxInv

(* An attempt starts: nothing was under way to the qserver.                    *)
LEMMA ConnectInv ==
    ASSUME SrvxInv, srvx_sock_connect
    PROVE  SrvxInv'
<1> USE ConstantsAssumption
<1>1. CASE lose_connection
  BY <1>1, LoseInv DEF srvx_sock_connect, SrvxInv, Types
<1>2. CASE /\ srvx_sock' = "connecting"
           /\ srvx_timers' = connect_started(srvx_timers)
           /\ qserver' = Idle
           /\ UNCHANGED <<requests, active_request, active_request_irc, irc, called, mishaps>>
  <2>1. qserver = Idle /\ srvx_sock = "none" /\ srvx_authed' = FALSE /\ login_refused' = login_refused
    BY DEF srvx_sock_connect, SrvxInv, Login
  <2>2. UNCHANGED <<qserver, requests, active_request, active_request_irc, irc, called, mishaps>>
    BY <1>2, <2>1
  <2>3. srvx_timers' = (srvx_timers \ {"srvx_reconnect"}) \cup {"srvx_connect_timeout"}
    BY <1>2 DEF connect_started
  <2>4. Types'
    BY <1>2, <2>1, <2>3 DEF SrvxInv, Types
  <2>5. Ways' /\ Callbacks' /\ Undisturbed'
    BY <2>2 DEF SrvxInv, Ways, Callbacks, Undisturbed, Unanswered
  <2>6. Login' /\ ComesBack' /\ TimeoutIsConnecting'
    BY <1>2, <2>1, <2>3 DEF Login, ComesBack, TimeoutIsConnecting
  <2> QED
    BY <2>4, <2>5, <2>6 DEF SrvxInv
<1> QED
  BY <1>1, <1>2 DEF srvx_sock_connect

(* The connection is up: the login is the first and only request over it.     *)
LEMMA SrvxConnectedInv ==
    ASSUME SrvxInv, srvx_sock_event_connect
    PROVE  SrvxInv'
<1> USE ConstantsAssumption
<1>1. /\ srvx_sock = "connecting" /\ srvx_sock' = "open"
      /\ srvx_timers' = srvx_timers \ {"srvx_connect_timeout"}
      /\ requests' = requests \cup {Auth}
      /\ qserver' = Enqueue(qserver, Auth)
      /\ called' = [called EXCEPT ![Auth] = 0]
      /\ UNCHANGED <<srvx_authed, active_request, active_request_irc, login_refused, irc, mishaps>>
  BY DEF srvx_sock_event_connect
<1>2. qserver = Idle /\ srvx_authed = FALSE /\ "srvx_reconnect" \notin srvx_timers
  BY <1>1 DEF SrvxInv, Login, Types
<1>3. Auth \in All
  BY DEF All
<1>4. Sound(qserver') /\ Unanswered(qserver') = {Auth} /\ ~qserver'.begun
  BY <1>1, <1>2, <1>3, IdleWay, EnqueueWay
<1>5. /\ called' \in [All -> 0..2] /\ called'[Auth] = 0
      /\ \A r \in All : r # Auth => called'[r] = called[r]
  BY <1>1, <1>3 DEF SrvxInv, Types
<1>6. Types'
  BY <1>1, <1>3, <1>5 DEF SrvxInv, Types
<1>7. Ways'
  BY <1>1, <1>4 DEF SrvxInv, Ways, Unanswered
<1>8. Login' /\ ComesBack' /\ TimeoutIsConnecting'
  BY <1>1, <1>2, <1>4 DEF SrvxInv, Login, ComesBack, TimeoutIsConnecting, Unanswered
<1>9. Callbacks'
  <2>1. Unanswered(qserver)' \subseteq requests' /\ Unanswered(irc)' = Unanswered(irc)
    BY <1>1, <1>4 DEF Unanswered
  <2>2. \A r \in Unanswered(irc) : r \in All /\ r # Auth
    BY DEF SrvxInv, Ways, Sound, Way, Unanswered
  <2> QED
    BY <1>1, <1>3, <1>5, <2>1, <2>2 DEF SrvxInv, Types, Callbacks
<1>10. Undisturbed'
  <2>1. Unanswered(qserver)' = {Auth} /\ Unanswered(irc)' = Unanswered(irc) /\ Unanswered(qserver) = {}
    BY <1>1, <1>2, <1>4, IdleWay DEF Unanswered
  <2>2. ~qserver.begun
    BY <1>2, IdleWay
  <2> QED
    BY <1>1, <1>4, <2>1, <2>2 DEF SrvxInv, Undisturbed
<1> QED
  BY <1>6, <1>7, <1>8, <1>9, <1>10 DEF SrvxInv

(* A request is sent over one of the ways, or dropped before the login is      *)
(* answered.                                                                   *)
LEMMA SendInv ==
    ASSUME SrvxInv, NEW r \in Req, NEW no_qserver \in BOOLEAN, srvx_vsend_ctx(r, no_qserver)
    PROVE  SrvxInv'
<1> USE ConstantsAssumption
<1>1. /\ r \in All /\ r # Auth /\ r # NONE
      /\ r \notin requests /\ r \notin Unanswered(qserver) /\ r \notin Unanswered(irc)
      /\ r # active_request /\ r # active_request_irc
  BY DEF All, srvx_vsend_ctx, Unused
<1>2. /\ UNCHANGED <<srvx_sock, srvx_authed, active_request, active_request_irc, srvx_timers, login_refused>>
      /\ mishaps' \in {mishaps, mishaps \cup {"early"}}
      /\ called' = [called EXCEPT ![r] = 0]
  BY DEF srvx_vsend_ctx
<1>3. /\ called' \in [All -> 0..2] /\ called'[r] = 0
      /\ \A x \in All : x # r => called'[x] = called[x]
  BY <1>1, <1>2 DEF SrvxInv, Types
<1>4. /\ requests' \subseteq All
      /\ Sound(qserver') /\ Sound(irc')
      /\ qserver'.begun = qserver.begun /\ irc'.begun = irc.begun
      /\ qserver.begun => Head(qserver'.queue) = Head(qserver.queue)
      /\ irc.begun => Head(irc'.queue) = Head(irc.queue)
      /\ \/ /\ srvx_sock # "none" /\ srvx_authed
            /\ Unanswered(qserver') = Unanswered(qserver) \cup {r} /\ Unanswered(irc') = Unanswered(irc)
            /\ requests' = requests \cup {r}
         \/ /\ Unanswered(qserver') = Unanswered(qserver) /\ Unanswered(irc') = Unanswered(irc) \cup {r}
            /\ requests' = requests \cup {r}
            /\ qserver' = qserver
         \/ /\ Unanswered(qserver') = Unanswered(qserver) /\ Unanswered(irc') = Unanswered(irc)
            /\ requests' = requests
            /\ qserver' = qserver
  <2>1. Sound(qserver) /\ Sound(irc)
    BY DEF SrvxInv, Ways
  <2>2. CASE srvx_sock # "none" /\ ~no_qserver /\ srvx_authed
    <3>1. qserver' = Enqueue(qserver, r) /\ irc' = irc /\ requests' = requests \cup {r}
      BY <2>2 DEF srvx_vsend_ctx
    <3> QED
      BY <1>1, <2>1, <2>2, <3>1, EnqueueWay DEF SrvxInv, Types, Sound
  <2>3. CASE srvx_sock # "none" /\ ~no_qserver /\ ~srvx_authed
    <3>1. UNCHANGED <<qserver, irc, requests>>
      BY <2>3 DEF srvx_vsend_ctx
    <3> QED
      BY <2>1, <3>1 DEF SrvxInv, Types
  <2>4. CASE ~(srvx_sock # "none" /\ ~no_qserver)
    <3>1. irc' = Enqueue(irc, r) /\ qserver' = qserver /\ requests' = requests \cup {r}
      BY <2>4 DEF srvx_vsend_ctx
    <3> QED
      BY <1>1, <2>1, <3>1, EnqueueWay DEF SrvxInv, Types, Sound
  <2> QED
    BY <2>2, <2>3, <2>4
<1>5. Types'
  BY <1>2, <1>3, <1>4 DEF SrvxInv, Types
<1>6. Ways'
  BY <1>1, <1>4 DEF SrvxInv, Ways, Unanswered
<1>7. Login'
  BY <1>1, <1>2, <1>4 DEF SrvxInv, Types, Login, Unanswered
<1>8. Callbacks'
  <2>1. \A x \in Unanswered(irc) : x \in All
    BY DEF SrvxInv, Ways, Sound, Way, Unanswered
  <2>2. /\ Unanswered(qserver') \subseteq requests'
        /\ "cancel" \notin mishaps' => Unanswered(irc') \subseteq requests'
    BY <1>2, <1>4 DEF SrvxInv, Callbacks
  <2>3. \A x \in requests' : called'[x] = 0
    BY <1>1, <1>3, <1>4 DEF SrvxInv, Types, Callbacks
  <2>4. \A x \in Unanswered(irc') : called'[x] <= 1
    BY <1>1, <1>3, <1>4, <2>1 DEF SrvxInv, Types, Callbacks
  <2>5. "cancel" \notin mishaps' => \A x \in All : called'[x] <= 1
    BY <1>1, <1>2, <1>3 DEF SrvxInv, Types, Callbacks
  <2> QED
    BY <2>2, <2>3, <2>4, <2>5 DEF Callbacks, Unanswered
<1>9. Undisturbed'
  BY <1>2, <1>4 DEF SrvxInv, Undisturbed, Unanswered
<1>10. ComesBack' /\ TimeoutIsConnecting'
  BY <1>2 DEF SrvxInv, ComesBack, TimeoutIsConnecting
<1> QED
  BY <1>5, <1>6, <1>7, <1>8, <1>9, <1>10 DEF SrvxInv

(* The beginning of a response makes its request active, unless another was    *)
(* left active.                                                                *)
LEMMA QserverBeginInv ==
    ASSUME SrvxInv, qserver_begin
    PROVE  SrvxInv'
<1> DEFINE h == Head(qserver.queue)
<1>1. /\ Sound(qserver') /\ Unanswered(qserver') = Unanswered(qserver) /\ Unanswered(irc') = Unanswered(irc)
      /\ qserver'.begun /\ qserver'.queue = qserver.queue
      /\ h \in Unanswered(qserver) /\ ~qserver.begun /\ qserver.queue # <<>>
      /\ active_request' = IF active_request = NONE THEN Found(h) ELSE active_request
      /\ UNCHANGED <<srvx_sock, srvx_authed, requests, active_request_irc, srvx_timers, login_refused, irc, called, mishaps>>
  BY BeginWay DEF qserver_begin, SrvxInv, Ways
<1>2. h \in requests /\ Found(h) = h /\ h \in All
  BY <1>1 DEF SrvxInv, Callbacks, Found, Types
<1> HIDE DEF h
<1>3. Types'
  BY <1>1, <1>2 DEF SrvxInv, Types
<1>4. Ways' /\ Callbacks'
  BY <1>1 DEF SrvxInv, Ways, Callbacks, Unanswered
<1>5. Login'
  BY <1>1 DEF SrvxInv, Login, Unanswered, Idle
<1>6. Undisturbed'
  BY <1>1, <1>2 DEF SrvxInv, Undisturbed, Unanswered, h
<1>7. ComesBack' /\ TimeoutIsConnecting'
  BY <1>1 DEF SrvxInv, ComesBack, TimeoutIsConnecting
<1> QED
  BY <1>3, <1>4, <1>5, <1>6, <1>7 DEF SrvxInv

(* The same over IRC, where the request may have been cancelled.               *)
LEMMA IrcBeginInv ==
    ASSUME SrvxInv, irc_begin
    PROVE  SrvxInv'
<1> DEFINE h == Head(irc.queue)
<1>1. /\ Sound(irc') /\ Unanswered(irc') = Unanswered(irc) /\ Unanswered(qserver') = Unanswered(qserver)
      /\ irc'.begun /\ irc'.queue = irc.queue
      /\ h \in Unanswered(irc) /\ ~irc.begun /\ irc.queue # <<>>
      /\ active_request_irc' = IF active_request_irc = NONE THEN Found(h) ELSE active_request_irc
      /\ UNCHANGED <<srvx_sock, srvx_authed, requests, active_request, srvx_timers, login_refused, qserver, called, mishaps>>
  BY BeginWay DEF irc_begin, SrvxInv, Ways
<1>2. /\ Found(h) \in All \cup {NONE}
      /\ mishaps \subseteq {"early"} => Found(h) = h
  BY <1>1 DEF SrvxInv, Callbacks, Found, Types
<1> HIDE DEF h
<1>3. Types'
  BY <1>1, <1>2 DEF SrvxInv, Types
<1>4. Ways' /\ Callbacks'
  BY <1>1 DEF SrvxInv, Ways, Callbacks, Unanswered
<1>5. Login'
  BY <1>1 DEF SrvxInv, Login, Unanswered, Idle
<1>6. Undisturbed'
  BY <1>1, <1>2 DEF SrvxInv, Undisturbed, Unanswered, h
<1>7. ComesBack' /\ TimeoutIsConnecting'
  BY <1>1 DEF SrvxInv, ComesBack, TimeoutIsConnecting
<1> QED
  BY <1>3, <1>4, <1>5, <1>6, <1>7 DEF SrvxInv

(* A response is complete: its request, if it is the active one, is called     *)
(* back and leaves the dict; the queue moves on either way.                    *)
LEMMA QserverEndInv ==
    ASSUME SrvxInv, qserver_end
    PROVE  SrvxInv'
<1> USE ConstantsAssumption
<1> DEFINE h == Head(qserver.queue)
<1>1. /\ qserver.begun /\ h # Auth
      /\ UNCHANGED <<srvx_sock, srvx_authed, active_request_irc, srvx_timers, login_refused, irc, mishaps>>
      /\ qserver' = Finish(qserver)
      /\ IF active_request = h
         THEN called' = [called EXCEPT ![h] = @ + 1] /\ requests' = requests \ {h} /\ active_request' = NONE
         ELSE UNCHANGED <<requests, called, active_request>>
  BY DEF qserver_end, answer, response_over
<1>2. /\ Sound(qserver') /\ Unanswered(qserver') = Unanswered(qserver) \ {h} /\ ~qserver'.begun
      /\ h \in Unanswered(qserver) /\ Unanswered(irc') = Unanswered(irc)
  BY <1>1, FinishWay DEF SrvxInv, Ways, Sound
<1>3. h \in All /\ h \in requests /\ called[h] = 0 /\ h \notin Unanswered(irc)
  BY <1>2 DEF SrvxInv, Callbacks, Ways, Types
<1> HIDE DEF h
<1>4. /\ called' \in [All -> 0..2] /\ called'[h] <= 1
      /\ \A x \in All : x # h => called'[x] = called[x]
  BY <1>1, <1>3 DEF SrvxInv, Types
<1>5. requests' \subseteq requests /\ \A x \in requests : x # h => x \in requests'
  BY <1>1
<1>6. Types'
  <2>1. active_request' \in All \cup {NONE}
    BY <1>1 DEF SrvxInv, Types
  <2> QED
    BY <1>1, <1>4, <1>5, <2>1 DEF SrvxInv, Types
<1>7. Ways'
  BY <1>1, <1>2 DEF SrvxInv, Ways, Unanswered
<1>8. Login'
  BY <1>1, <1>2, IdleWay DEF SrvxInv, Login, Unanswered
<1>9. Callbacks'
  <2>1. \A x \in Unanswered(irc) : x \in All /\ x # h
    BY <1>3 DEF SrvxInv, Ways, Sound, Way, Unanswered
  <2>2. \A x \in requests' : called'[x] = 0
    BY <1>1, <1>3, <1>4, <1>5 DEF SrvxInv, Types, Callbacks
  <2>3. /\ Unanswered(qserver') \subseteq requests'
        /\ "cancel" \notin mishaps' => Unanswered(irc') \subseteq requests'
    BY <1>1, <1>2, <1>5, <2>1 DEF SrvxInv, Callbacks
  <2>4. \A x \in Unanswered(irc') : called'[x] <= 1
    BY <1>2, <1>4, <2>1 DEF SrvxInv, Callbacks
  <2>5. "cancel" \notin mishaps' => \A x \in All : called'[x] <= 1
    BY <1>1, <1>4 DEF SrvxInv, Callbacks
  <2> QED
    BY <2>2, <2>3, <2>4, <2>5 DEF Callbacks, Unanswered
<1>10. Undisturbed'
  <2> SUFFICES ASSUME mishaps \subseteq {"early"} PROVE Undisturbed'
    BY <1>1 DEF Undisturbed
  <2>1. active_request = h /\ requests \subseteq Unanswered(qserver) \cup Unanswered(irc)
    BY <1>1 DEF SrvxInv, Undisturbed, h
  <2>2. requests' \subseteq Unanswered(qserver') \cup Unanswered(irc') /\ active_request' = NONE
    BY <1>1, <1>2, <2>1
  <2>3. active_request_irc' = IF irc'.begun THEN Head(irc'.queue) ELSE NONE
    BY <1>1 DEF SrvxInv, Undisturbed
  <2> QED
    BY <1>2, <2>2, <2>3 DEF Undisturbed, Unanswered
<1>11. ComesBack' /\ TimeoutIsConnecting'
  BY <1>1 DEF SrvxInv, ComesBack, TimeoutIsConnecting
<1> QED
  BY <1>6, <1>7, <1>8, <1>9, <1>10, <1>11 DEF SrvxInv

(* The login is answered: nothing else was under way to the qserver.           *)
LEMMA AuthResponseInv ==
    ASSUME SrvxInv, srvx_auth_response
    PROVE  SrvxInv'
<1> USE ConstantsAssumption
<1>1. /\ qserver.begun /\ Head(qserver.queue) = Auth
      /\ UNCHANGED <<active_request_irc, srvx_timers, irc, mishaps>>
      /\ \/ /\ active_request = Auth /\ active_request' = NONE
            /\ called' = [called EXCEPT ![Auth] = @ + 1] /\ requests' = requests \ {Auth}
            /\ \/ srvx_authed' = TRUE /\ qserver' = Finish(qserver) /\ UNCHANGED <<srvx_sock, login_refused>>
               \/ srvx_sock' = "none" /\ login_refused' = TRUE /\ qserver' = Idle /\ UNCHANGED srvx_authed
         \/ /\ active_request # Auth /\ qserver' = Finish(qserver)
            /\ UNCHANGED <<requests, called, active_request, srvx_authed, srvx_sock, login_refused>>
  BY DEF srvx_auth_response, answer, response_over
<1>2. /\ Sound(Finish(qserver)) /\ Unanswered(Finish(qserver)) = Unanswered(qserver) \ {Auth}
      /\ ~Finish(qserver).begun /\ Auth \in Unanswered(qserver)
  BY <1>1, FinishWay DEF SrvxInv, Ways, Sound
<1>3. srvx_sock = "open" /\ srvx_authed = FALSE /\ Unanswered(qserver) = {Auth}
  BY <1>1, <1>2, IdleWay DEF SrvxInv, Login, Types
<1>4. Sound(qserver') /\ Unanswered(qserver') = {} /\ ~qserver'.begun /\ Unanswered(irc') = Unanswered(irc)
  BY <1>1, <1>2, <1>3, IdleWay
<1>5. Auth \in All /\ Auth \in requests /\ called[Auth] = 0 /\ Auth \notin Unanswered(irc)
  BY <1>2 DEF SrvxInv, Callbacks, Ways, Types, All
<1>6. /\ called' \in [All -> 0..2] /\ called'[Auth] <= 1
      /\ \A x \in All : x # Auth => called'[x] = called[x]
  BY <1>1, <1>5 DEF SrvxInv, Types
<1>7. requests' \subseteq requests /\ \A x \in requests : x # Auth => x \in requests'
  BY <1>1
<1>8. Types'
  <2>1. active_request' \in All \cup {NONE} /\ srvx_sock' \in {"none", "connecting", "open"}
    BY <1>1 DEF SrvxInv, Types
  <2>2. srvx_authed' \in BOOLEAN /\ login_refused' \in BOOLEAN
    BY <1>1 DEF SrvxInv, Types
  <2> QED
    BY <1>1, <1>6, <1>7, <2>1, <2>2 DEF SrvxInv, Types
<1>9. Ways'
  BY <1>1, <1>4 DEF SrvxInv, Ways, Unanswered
<1>10. Login'
  <2>1. srvx_sock' # "open" => qserver' = Idle
    BY <1>1, <1>3
  <2>2. "srvx_reconnect" \notin srvx_timers'
    BY <1>1, <1>3 DEF SrvxInv, Login
  <2> QED
    BY <1>1, <1>3, <1>4, <2>1, <2>2 DEF Login, Unanswered
<1>11. Callbacks'
  <2>1. \A x \in Unanswered(irc) : x \in All /\ x # Auth
    BY <1>5 DEF SrvxInv, Ways, Sound, Way, Unanswered
  <2>2. \A x \in requests' : called'[x] = 0
    BY <1>1, <1>5, <1>6, <1>7 DEF SrvxInv, Types, Callbacks
  <2>3. "cancel" \notin mishaps' => Unanswered(irc') \subseteq requests'
    BY <1>1, <1>4, <1>7, <2>1 DEF SrvxInv, Callbacks
  <2>4. \A x \in Unanswered(irc') : called'[x] <= 1
    BY <1>4, <1>6, <2>1 DEF SrvxInv, Callbacks
  <2>5. "cancel" \notin mishaps' => \A x \in All : called'[x] <= 1
    BY <1>1, <1>6 DEF SrvxInv, Callbacks
  <2> QED
    BY <1>4, <2>2, <2>3, <2>4, <2>5 DEF Callbacks, Unanswered
<1>12. Undisturbed'
  <2> SUFFICES ASSUME mishaps \subseteq {"early"} PROVE Undisturbed'
    BY <1>1 DEF Undisturbed
  <2>1. active_request = Auth /\ requests \subseteq {Auth} \cup Unanswered(irc)
    BY <1>1, <1>3 DEF SrvxInv, Undisturbed
  <2>2. requests' \subseteq Unanswered(irc') /\ active_request' = NONE
    BY <1>1, <1>4, <2>1
  <2>3. active_request_irc' = IF irc'.begun THEN Head(irc'.queue) ELSE NONE
    BY <1>1 DEF SrvxInv, Undisturbed
  <2> QED
    BY <1>4, <2>2, <2>3 DEF Undisturbed, Unanswered
<1>13. ComesBack' /\ TimeoutIsConnecting'
  BY <1>1, <1>3 DEF SrvxInv, ComesBack, TimeoutIsConnecting
<1> QED
  BY <1>8, <1>9, <1>10, <1>11, <1>12, <1>13 DEF SrvxInv

(* The second ping is answered.                                                *)
LEMMA IrcEndInv ==
    ASSUME SrvxInv, irc_end
    PROVE  SrvxInv'
<1> USE ConstantsAssumption
<1> DEFINE h == Head(irc.queue)
<1>1. /\ irc.begun
      /\ UNCHANGED <<srvx_sock, srvx_authed, active_request, srvx_timers, login_refused, qserver, mishaps>>
      /\ irc' = Finish(irc)
      /\ IF active_request_irc = h
         THEN called' = [called EXCEPT ![h] = @ + 1] /\ requests' = requests \ {h} /\ active_request_irc' = NONE
         ELSE UNCHANGED <<requests, called, active_request_irc>>
  BY DEF irc_end, answer
<1>2. /\ Sound(irc') /\ Unanswered(irc') = Unanswered(irc) \ {h} /\ ~irc'.begun
      /\ h \in Unanswered(irc) /\ Unanswered(qserver') = Unanswered(qserver)
  BY <1>1, FinishWay DEF SrvxInv, Ways, Sound
<1>3. /\ h \in All /\ h \notin Unanswered(qserver) /\ called[h] <= 1
      /\ "cancel" \notin mishaps => h \in requests /\ called[h] = 0
  <2> HIDE DEF h
  <2>1. h \in All
    BY <1>2 DEF SrvxInv, Ways, Sound, Way, Unanswered
  <2> QED
    BY <1>2, <2>1 DEF SrvxInv, Callbacks, Ways
<1> HIDE DEF h
<1>4. /\ called' \in [All -> 0..2]
      /\ "cancel" \notin mishaps => called'[h] <= 1
      /\ \A x \in All : x # h => called'[x] = called[x]
  BY <1>1, <1>3 DEF SrvxInv, Types
<1>5. requests' \subseteq requests /\ \A x \in requests : x # h => x \in requests'
  BY <1>1
<1>6. Types'
  <2>1. active_request_irc' \in All \cup {NONE}
    BY <1>1 DEF SrvxInv, Types
  <2> QED
    BY <1>1, <1>4, <1>5, <2>1 DEF SrvxInv, Types
<1>7. Ways'
  BY <1>1, <1>2 DEF SrvxInv, Ways, Unanswered
<1>8. Login'
  BY <1>1, <1>2 DEF SrvxInv, Login, Unanswered
<1>9. Callbacks'
  <2>1. \A x \in Unanswered(irc) : x \in All
    BY DEF SrvxInv, Ways, Sound, Way, Unanswered
  <2>2. \A x \in requests' : called'[x] = 0
    BY <1>1, <1>3, <1>4, <1>5 DEF SrvxInv, Types, Callbacks
  <2>3. /\ Unanswered(qserver') \subseteq requests'
        /\ "cancel" \notin mishaps' => Unanswered(irc') \subseteq requests'
    BY <1>1, <1>2, <1>3, <1>5 DEF SrvxInv, Callbacks
  <2>4. \A x \in Unanswered(irc') : called'[x] <= 1
    BY <1>2, <1>4, <2>1 DEF SrvxInv, Callbacks
  <2>5. "cancel" \notin mishaps' => \A x \in All : called'[x] <= 1
    BY <1>1, <1>4 DEF SrvxInv, Callbacks
  <2> QED
    BY <2>2, <2>3, <2>4, <2>5 DEF Callbacks, Unanswered
<1>10. Undisturbed'
  <2> SUFFICES ASSUME mishaps \subseteq {"early"} PROVE Undisturbed'
    BY <1>1 DEF Undisturbed
  <2>1. active_request_irc = h /\ requests \subseteq Unanswered(qserver) \cup Unanswered(irc)
    BY <1>1 DEF SrvxInv, Undisturbed, h
  <2>2. requests' \subseteq Unanswered(qserver') \cup Unanswered(irc') /\ active_request_irc' = NONE
    BY <1>1, <1>2, <2>1
  <2>3. active_request' = IF qserver'.begun THEN Head(qserver'.queue) ELSE NONE
    BY <1>1 DEF SrvxInv, Undisturbed
  <2> QED
    BY <1>2, <2>2, <2>3 DEF Undisturbed, Unanswered
<1>11. ComesBack' /\ TimeoutIsConnecting'
  BY <1>1 DEF SrvxInv, ComesBack, TimeoutIsConnecting
<1> QED
  BY <1>6, <1>7, <1>8, <1>9, <1>10, <1>11 DEF SrvxInv

(* One case per event.                                                         *)
LEMMA SrvxNextInv == SrvxInv /\ [srvxNext]_srvxVars => SrvxInv'
<1> SUFFICES ASSUME SrvxInv, [srvxNext]_srvxVars PROVE SrvxInv'
  OBVIOUS
<1>1. CASE Qserver
  BY <1>1, QserverBeginInv, QserverEndInv, AuthResponseInv DEF Qserver
<1>2. CASE Irc
  BY <1>2, IrcBeginInv, IrcEndInv DEF Irc
<1>3. CASE srvx_sock_event_lost \/ srvx_sock_timeout \/ srvx_reconnect
  <2>1. lose_connection /\ srvx_authed' \in BOOLEAN /\ login_refused' \in BOOLEAN
    BY <1>3 DEF srvx_sock_event_lost, srvx_sock_timeout, srvx_reconnect, SrvxInv, Types
  <2> QED
    BY <2>1, LoseInv
<1>4. CASE srvx_sock_connect
  BY <1>4, ConnectInv
<1>5. CASE srvx_sock_event_connect
  BY <1>5, SrvxConnectedInv
<1>6. CASE \E r \in Req : Send(r)
  BY <1>6, SendInv DEF Send
<1>7. CASE UNCHANGED srvxVars
  BY <1>7 DEF srvxVars, SrvxInv, Types, Ways, Login, Callbacks, Undisturbed, ComesBack,
     TimeoutIsConnecting, Unanswered
<1> QED
  BY <1>1, <1>2, <1>3, <1>4, <1>5, <1>6, <1>7 DEF srvxNext, SrvxTimer

(* The inductive invariant holds of every behaviour.                           *)
THEOREM SrvxSpecInv == srvxSpec => []SrvxInv
BY SrvxInitInv, SrvxNextInv, PTL DEF srvxSpec

(* The connection and its requests follow from the inductive invariant.        *)
LEMMA InvRequestsSound == SrvxInv => RequestsSound
<1> SUFFICES ASSUME SrvxInv PROVE RequestsSound
  OBVIOUS
<1>1. SrvxTypeOK
  <2>1. mishaps \subseteq {"early"} => requests = Unanswered(qserver) \cup Unanswered(irc)
    BY DEF SrvxInv, Callbacks, Undisturbed
  <2> QED
    BY <2>1 DEF SrvxInv, Types, Ways, Sound, SrvxTypeOK
<1>2. CallbackOnce
  BY DEF SrvxInv, Callbacks, CallbackOnce
<1>3. ResponseHasRequest
  <2> SUFFICES ASSUME mishaps \subseteq {"early"} PROVE ResponseHasRequest
    BY DEF ResponseHasRequest
  <2>1. qserver.begun => Head(qserver.queue) \in Unanswered(qserver)
    BY BeginWay DEF SrvxInv, Ways, Sound
  <2>2. irc.begun => Head(irc.queue) \in Unanswered(irc)
    BY BeginWay DEF SrvxInv, Ways, Sound
  <2> QED
    BY <2>1, <2>2 DEF SrvxInv, Callbacks, Undisturbed, ResponseHasRequest
<1> QED
  BY <1>1, <1>2, <1>3 DEF SrvxInv, RequestsSound, QserverSound, ResponsesSound

(* For any set of requests: the qserver's connection is there, under way under *)
(* a timeout or will be tried again, the dict of requests is exact, a callback *)
(* runs once and a response goes to the request it answers.                    *)
THEOREM SpecRequestsSound == srvxSpec => []RequestsSound
BY SrvxSpecInv, InvRequestsSound, PTL

(***************************************************************************)
(* EventLog.                                                               *)
(***************************************************************************)

(* A non-empty set of numbers has a least one.                                *)
LEMMA LeastExists ==
    ASSUME NEW S \in SUBSET Nat, S # {}
    PROVE  \E n \in S : \A m \in S : n <= m
<1>1. PICK n \in S : \A m \in S : ~(<<m, n>> \in OpToRel(<, Nat))
  BY WFMin, NatLessThanWellFounded
<1>2. n \in Nat /\ \A m \in S : m \in Nat /\ ~(m < n)
  BY <1>1 DEF OpToRel
<1>3. \A m \in S : n <= m
  BY <1>2
<1> QED
  BY <1>3

(* What holds of 0, and of n + 1 if of n, holds of every number.              *)
LEMMA Induction ==
    ASSUME NEW S \in SUBSET Nat, 0 \in S, \A n \in S : n + 1 \in S
    PROVE  S = Nat
<1> DEFINE R == Nat \ S
<1> SUFFICES ASSUME R # {} PROVE FALSE
  OBVIOUS
<1> HIDE DEF R
<1>1. PICK n \in R : \A m \in R : n <= m
  BY LeastExists DEF R
<1>2. n \in Nat /\ n # 0 /\ n - 1 \in Nat /\ n \notin S
  BY <1>1 DEF R
<1>3. n - 1 \in S
  BY <1>1, <1>2 DEF R
<1>4. (n - 1) + 1 \in S
  BY <1>3
<1> QED
  BY <1>2, <1>4

\* g goes from a by steps of F, which are told their number.
Iteration(g, V, a, F) ==
    g \in [Nat -> V] /\ g[0] = a /\ \A n \in Nat : g[n + 1] = F[<<n + 1, g[n]>>]

(* What a recursion computes step by step exists: there is a function with a  *)
(* given first value and a given way from each value to the next.             *)
LEMMA Iterates ==
    ASSUME NEW V, NEW a \in V, NEW F \in [Nat \X V -> V]
    PROVE  \E g : Iteration(g, V, a, F)
<1> DEFINE Upto(g, n) == /\ g \in [0..n -> V]
                         /\ g[0] = a
                         /\ \A k \in 0..n : k # 0 => g[k] = F[<<k, g[k - 1]>>]
<1>1. ASSUME NEW n \in Nat, NEW m \in Nat, NEW g, NEW h, Upto(g, n), Upto(h, m),
             NEW k \in 0..n, k \in 0..m
      PROVE  g[k] = h[k]
  <2> DEFINE S == {j \in 0..k : g[j] # h[j]}
  <2> SUFFICES ASSUME S # {} PROVE FALSE
    BY <1>1
  <2>1. S \in SUBSET Nat
    OBVIOUS
  <2> HIDE DEF S
  <2>2. PICK j \in S : \A i \in S : j <= i
    BY <2>1, LeastExists
  <2>3. j \in 0..k /\ g[j] # h[j] /\ j # 0
    BY <2>2, <1>1 DEF S
  <2>4. j \in Nat /\ j - 1 \in 0..k /\ ~(j <= j - 1)
    BY <2>3, <1>1
  <2>5. g[j - 1] = h[j - 1]
    BY <2>2, <2>4 DEF S
  <2>6. j \in 0..n /\ j \in 0..m
    BY <2>3, <1>1
  <2>7. g[j] = F[<<j, g[j - 1]>>] /\ h[j] = F[<<j, h[j - 1]>>]
    BY <2>3, <2>6, <1>1
  <2> QED
    BY <2>3, <2>5, <2>7
<1>2. \A n \in Nat : \E g : Upto(g, n)
  <2> DEFINE S == {n \in Nat : ~\E g : Upto(g, n)}
  <2> SUFFICES ASSUME S # {} PROVE FALSE
    OBVIOUS
  <2> HIDE DEF S
  <2>1. PICK n \in S : \A i \in S : n <= i
    BY LeastExists DEF S
  <2>2. n # 0
    <3>1. Upto([k \in 0..0 |-> a], 0)
      OBVIOUS
    <3> HIDE DEF Upto
    <3> QED
      BY <3>1, <2>1 DEF S
  <2>3. n \in Nat /\ n - 1 \in Nat /\ ~(n <= n - 1)
    BY <2>1, <2>2 DEF S
  <2>4. PICK g : Upto(g, n - 1)
    BY <2>1, <2>3 DEF S
  <2> DEFINE h == [k \in 0..n |-> IF k = n THEN F[<<n, g[n - 1]>>] ELSE g[k]]
  <2>5. Upto(h, n)
    <3>1. g[n - 1] \in V /\ <<n, g[n - 1]>> \in Nat \X V
      BY <2>3, <2>4
    <3>2. F[<<n, g[n - 1]>>] \in V
      BY <3>1
    <3>3. ASSUME NEW k \in 0..n, k # n PROVE k \in 0..(n - 1)
      BY <3>3, <2>3
    <3>4. h \in [0..n -> V]
      BY <3>2, <3>3, <2>4
    <3>5. h[0] = a
      BY <2>2, <2>3, <2>4
    <3>6. ASSUME NEW k \in 0..n, k # 0 PROVE h[k] = F[<<k, h[k - 1]>>]
      <4>1. k - 1 \in 0..n /\ k - 1 # n /\ h[k - 1] = g[k - 1]
        BY <3>6, <2>3
      <4>2. CASE k = n
        BY <4>1, <4>2
      <4>3. CASE k # n
        BY <4>1, <4>3, <3>3, <3>6, <2>4
      <4> QED
        BY <4>2, <4>3
    <3> QED
      BY <3>4, <3>5, <3>6
  <2> HIDE DEF Upto, h
  <2> QED
    BY <2>1, <2>5 DEF S
<1> HIDE DEF Upto
<1> DEFINE G(n) == CHOOSE g : Upto(g, n)
           f == [n \in Nat |-> G(n)[n]]
<1>3. \A n \in Nat : Upto(G(n), n)
  BY <1>2
<1> HIDE DEF G
<1>4. \A n \in Nat : G(n)[n] \in V
  BY <1>3 DEF Upto
<1>5. f \in [Nat -> V]
  BY <1>4
<1>6. f[0] = a
  BY <1>3 DEF Upto
<1>7. ASSUME NEW n \in Nat PROVE f[n + 1] = F[<<n + 1, f[n]>>]
  <2>1. n + 1 \in Nat /\ n + 1 \in 0..(n + 1) /\ n + 1 # 0 /\ (n + 1) - 1 = n
    OBVIOUS
  <2>2. G(n + 1)[n + 1] = F[<<n + 1, G(n + 1)[n]>>]
    BY <1>3, <2>1 DEF Upto
  <2>3. n \in 0..n /\ n \in 0..(n + 1)
    OBVIOUS
  <2>4. G(n + 1)[n] = G(n)[n]
    BY <1>1, <1>3, <2>1, <2>3
  <2> QED
    BY <2>1, <2>2, <2>4
<1> QED
  BY <1>5, <1>6, <1>7 DEF Iteration

Event == [stamp : Nat \ {0}, own : BOOLEAN]
EventMark == {"retried", "failed", "same", "window", "crash", "late", "kept"}
Conns == {"ok", "bad"}

\* How far a response may be.
Reached == [last : Nat, rows : [1..MaxEvent -> Nat], marks : SUBSET EventMark, conn : Conns, breaks : Nat]

\* ChanServ lists events in the order of their times.
Chronicle(l) ==
    /\ l \in Seq(Event) /\ Len(l) <= MaxEvent
    /\ \A j, k \in DOMAIN l : j <= k => l[j].stamp <= l[k].stamp

EventTypes ==
    /\ event_table \in BOOLEAN /\ breaks \in Nat /\ conn \in Conns
    /\ listed \in [Chan -> Seq(Event)] /\ \A c \in Chan : Chronicle(listed[c])
    /\ enabled \subseteq Chan /\ IsFiniteSet(enabled)
    /\ deleted \subseteq Chan /\ deleted \cap enabled = {}
    /\ last_events \in [Chan -> Nat] /\ last_event_ts \in [Chan -> Nat]
    /\ fetches \in Seq(Chan)
    /\ rows \in [Chan -> [1..MaxEvent -> Nat]]
    /\ marks \in [Chan -> SUBSET EventMark]

\* Rows r are events of the list l that the bot did not cause; as long as the time of the last one
\* has not been lost, none is later, and each was sent once.
RowsAreEvents(l, last, r, m) ==
    /\ \A i \in 1..MaxEvent : r[i] > 0 => i \in DOMAIN l /\ ~l[i].own
    /\ m \cap {"crash", "kept"} = {} => \A i \in 1..MaxEvent : r[i] > 0 => l[i].stamp <= last
    /\ m \cap {"retried", "crash", "kept"} = {} => \A i \in 1..MaxEvent : r[i] <= 1
    /\ ~event_table => \A i \in 1..MaxEvent : r[i] = 0

\* What makes the table miss an event.
Missed == {"failed", "same", "window", "crash"}

EventsAreRows(l, last, r, m) ==
    event_table /\ m \cap Missed = {} =>
        \A i \in DOMAIN l : ~l[i].own /\ l[i].stamp <= last => r[i] > 0

Records(c) ==
    /\ RowsAreEvents(listed[c], last_events[c], rows[c], marks[c])
    /\ EventsAreRows(listed[c], last_events[c], rows[c], marks[c])
    /\ c \in deleted /\ marks[c] \cap {"kept", "late"} = {} => \A i \in 1..MaxEvent : rows[c][i] = 0

EventsInv == EventTypes /\ \A c \in Chan : Records(c)

LEMMA EventsInitInv == dbInit /\ conn = "ok" /\ eventInit => EventsInv
<1> SUFFICES ASSUME dbInit, conn = "ok", eventInit PROVE EventsInv
  OBVIOUS
<1>1. EventTypes
  <2>1. /\ event_table \in BOOLEAN /\ breaks = 0 /\ listed = [c \in Chan |-> <<>>] /\ enabled = {} /\ deleted = {}
        /\ last_events = [c \in Chan |-> 0] /\ last_event_ts = last_events /\ fetches = <<>>
        /\ rows = [c \in Chan |-> NoRows] /\ marks = [c \in Chan |-> {}]
    BY DEF eventInit
  <2>2. listed \in [Chan -> Seq(Event)] /\ \A c \in Chan : Chronicle(listed[c])
    <3>1. <<>> \in Seq(Event) /\ Len(<<>>) = 0 /\ DOMAIN <<>> = {}
      OBVIOUS
    <3>2. Chronicle(<<>>)
      BY <3>1, EventLogAssumption DEF Chronicle
    <3> QED
      BY <2>1, <3>1, <3>2
  <2>3. IsFiniteSet({})
    BY FS_EmptySet
  <2>4. NoRows \in [1..MaxEvent -> Nat]
    BY DEF NoRows
  <2>5. fetches \in Seq(Chan)
    BY <2>1
  <2> QED
    BY <2>1, <2>2, <2>3, <2>4, <2>5 DEF EventTypes, Conns
<1>2. ASSUME NEW c \in Chan PROVE Records(c)
  <2>1. listed[c] = <<>> /\ rows[c] = NoRows /\ deleted = {}
    BY DEF eventInit
  <2>2. \A i \in 1..MaxEvent : rows[c][i] = 0
    BY <2>1 DEF NoRows
  <2>3. DOMAIN listed[c] = {}
    BY <2>1
  <2> QED
    BY <2>1, <2>2, <2>3 DEF Records, RowsAreEvents, EventsAreRows
<1> QED
  BY <1>1, <1>2 DEF EventsInv

(* What the database may answer.                                              *)
LEMMA Statements ==
    ASSUME NEW c \in Conns
    PROVE  /\ \A o \in do_row_insert(c) : o.conn \in Conns /\ o.done \in 0..2
           /\ \A o \in do_row_drop(c) : o.conn \in Conns /\ o.done \in BOOLEAN
<1> DEFINE Answer == [conn : Conns, done : 0..1, ok : BOOLEAN]
           Twice == [conn : Conns, done : 0..2, ok : BOOLEAN]
<1>1. \A x \in Conns : Exec(x) \subseteq Answer
  <2>1. /\ [conn |-> "bad", done |-> 0, ok |-> FALSE] \in Answer
        /\ [conn |-> "bad", done |-> 1, ok |-> FALSE] \in Answer
        /\ [conn |-> "ok", done |-> 1, ok |-> TRUE] \in Answer
    BY DEF Conns
  <2> HIDE DEF Answer
  <2> QED
    BY <2>1 DEF Exec
<1>2. ASSUME NEW o \in Answer, NEW o2 \in Answer
      PROVE  o \in Twice /\ [o2 EXCEPT !.done = @ + o.done] \in Twice
  <2>1. o.done \in 0..1 /\ o2.done \in 0..1
    OBVIOUS
  <2>2. o2.done + o.done \in 0..2 /\ o.done \in 0..2
    BY <2>1
  <2> QED
    BY <2>2
<1>3. do_PQexecParams(c) \subseteq Twice
  <2>1. \A x \in Reconnect : Exec(x) \subseteq Answer
    BY <1>1 DEF Reconnect, Conns
  <2>2. UNION {Exec(x) : x \in Reconnect} \subseteq Answer
    BY <2>1
  <2>3. UNION {Exec(x) : x \in IF c = "bad" THEN Reconnect ELSE {"ok"}} \subseteq Answer
    BY <2>1 DEF Reconnect
  <2> HIDE DEF Answer, Twice
  <2>4. ASSUME NEW o \in Answer
        PROVE  (IF o.conn = "ok" THEN {o} ELSE {[o2 EXCEPT !.done = @ + o.done] : o2 \in UNION {Exec(x) : x \in Reconnect}})
                  \subseteq Twice
    BY <1>2, <2>2
  <2> QED
    BY <2>3, <2>4 DEF do_PQexecParams
<1>4. \A o \in do_row_insert(c) : o.conn \in Conns /\ o.done \in 0..2
  BY <1>3 DEF do_row_insert
<1>5. \A o \in do_row_drop(c) : o.conn \in Conns /\ o.done \in BOOLEAN
  <2> TAKE o \in do_row_drop(c)
  <2>1. PICK x \in do_PQexecParams(c) : o = [conn |-> x.conn, done |-> x.done > 0, ok |-> x.ok]
    BY DEF do_row_drop
  <2>2. x.conn \in Conns
    BY <1>3
  <2>3. o.conn = x.conn /\ o.done = (x.done > 0)
    BY <2>1
  <2> QED
    BY <2>2, <2>3
<1> QED
  BY <1>4, <1>5

\* The event e, number i, seen from p: q is what it may make of it.
Seen(p, i, e, q) ==
    /\ q \in Reached /\ p.marks \subseteq q.marks
    /\ \/ /\ e.stamp <= p.last /\ q.last = p.last /\ q.rows = p.rows
          /\ e.stamp = p.last /\ ~e.own /\ p.rows[i] = 0 => "same" \in q.marks
       \/ /\ e.stamp > p.last /\ q.last = e.stamp /\ q.rows = p.rows /\ (e.own \/ ~event_table)
       \/ /\ e.stamp > p.last /\ q.last = e.stamp /\ ~e.own /\ event_table
          /\ \E d \in 0..2 : /\ q.rows = [p.rows EXCEPT ![i] = @ + d]
                             /\ d = 0 => "failed" \in q.marks
                             /\ d = 2 => "retried" \in q.marks

LEMMA AddSees ==
    ASSUME NEW p \in Reached, NEW i \in 1..MaxEvent, NEW e \in Event,
           NEW q \in chanserv_event_add(p, i, e)
    PROVE  Seen(p, i, e, q)
<1>1. /\ p.last \in Nat /\ p.rows \in [1..MaxEvent -> Nat] /\ p.marks \in SUBSET EventMark
      /\ p.conn \in Conns /\ p.breaks \in Nat /\ e.stamp \in Nat /\ e.own \in BOOLEAN
  BY DEF Reached, Event
<1>2. CASE e.stamp <= p.last
  <2>1. q = IF e.stamp = p.last /\ ~e.own /\ p.rows[i] = 0 THEN [p EXCEPT !.marks = @ \cup {"same"}] ELSE p
    BY <1>2 DEF chanserv_event_add
  <2>2. CASE e.stamp = p.last /\ ~e.own /\ p.rows[i] = 0
    <3>1. q = [p EXCEPT !.marks = @ \cup {"same"}]
      BY <2>1, <2>2
    <3>2. q \in Reached /\ q.marks = p.marks \cup {"same"} /\ q.last = p.last /\ q.rows = p.rows
      BY <3>1 DEF Reached, EventMark
    <3> QED
      BY <1>2, <3>2 DEF Seen
  <2>3. CASE ~(e.stamp = p.last /\ ~e.own /\ p.rows[i] = 0)
    <3>1. q = p
      BY <2>1, <2>3
    <3> QED
      BY <1>2, <2>3, <3>1 DEF Seen
  <2> QED
    BY <2>2, <2>3
<1>3. CASE ~(e.stamp <= p.last) /\ (e.own \/ ~event_table)
  <2>1. q = [p EXCEPT !.last = e.stamp]
    BY <1>3 DEF chanserv_event_add
  <2>2. q \in Reached /\ q.marks = p.marks /\ q.last = e.stamp /\ q.rows = p.rows
    BY <1>1, <2>1 DEF Reached
  <2>3. e.stamp > p.last
    BY <1>1, <1>3
  <2> QED
    BY <1>3, <2>2, <2>3 DEF Seen
<1>4. CASE ~(e.stamp <= p.last) /\ ~e.own /\ event_table
  <2>1. PICK o \in do_row_insert(p.conn) :
           q = [p EXCEPT !.last = e.stamp, !.rows[i] = @ + o.done, !.conn = o.conn,
                         !.marks = @ \cup (IF o.done = 0 THEN {"failed"} ELSE {})
                                     \cup (IF o.done = 2 THEN {"retried"} ELSE {}),
                         !.breaks = IF o.done = 1 THEN @ ELSE @ + 1]
    BY <1>4 DEF chanserv_event_add
  <2>2. o.conn \in Conns /\ o.done \in 0..2
    BY <1>1, Statements
  <2>3. PICK r : r = [p.rows EXCEPT ![i] = @ + o.done]
    OBVIOUS
  <2>4. PICK m : m = (p.marks \cup (IF o.done = 0 THEN {"failed"} ELSE {}))
                              \cup (IF o.done = 2 THEN {"retried"} ELSE {})
    OBVIOUS
  <2>5. PICK b : b = IF o.done = 1 THEN p.breaks ELSE p.breaks + 1
    OBVIOUS
  <2>6. q = [last |-> e.stamp, rows |-> r, marks |-> m, conn |-> o.conn, breaks |-> b]
    BY <2>1, <2>3, <2>4, <2>5 DEF Reached
  <2>7. r \in [1..MaxEvent -> Nat]
    <3>0. p.rows[i] \in Nat
      BY <1>1
    <3>1. p.rows[i] \in Nat /\ o.done \in Nat
      BY <2>2, <3>0
    <3>2. p.rows[i] + o.done \in Nat
      BY <3>1
    <3> QED
      BY <1>1, <2>3, <3>2
  <2>8. m \in SUBSET EventMark /\ p.marks \subseteq m
    BY <1>1, <2>4 DEF EventMark
  <2>9. b \in Nat
    BY <1>1, <2>5
  <2>10. q \in Reached /\ q.marks = m /\ q.last = e.stamp /\ q.rows = r
    BY <1>1, <2>2, <2>6, <2>7, <2>8, <2>9 DEF Reached
  <2>11. e.stamp > p.last
    BY <1>1, <1>4
  <2>12. (o.done = 0 => "failed" \in m) /\ (o.done = 2 => "retried" \in m)
    BY <2>4
  <2>13. \E d \in 0..2 : /\ q.rows = [p.rows EXCEPT ![i] = @ + d]
                         /\ d = 0 => "failed" \in q.marks
                         /\ d = 2 => "retried" \in q.marks
    BY <2>2, <2>3, <2>10, <2>12
  <2> QED
    BY <1>4, <2>8, <2>10, <2>11, <2>13 DEF Seen
<1> QED
  BY <1>2, <1>3, <1>4

\* From P on, h adds one event after the other, from number i.
AddsUp(h, c, P, i) ==
    /\ h \in [Nat -> SUBSET Reached]
    /\ h[i - 1] = P /\ AddFrom(c, P, i) = h[Len(listed[c])]
    /\ \A k \in i..Len(listed[c]) :
          h[k] = UNION {chanserv_event_add(p, k, listed[c][k]) : p \in h[k - 1]}

(* AddFrom does so.                                                           *)
LEMMA AddFromSteps ==
    ASSUME NEW c \in Chan, Chronicle(listed[c]), NEW P \in SUBSET Reached,
           NEW i \in Nat, i >= 1, i <= Len(listed[c])
    PROVE  \E h : AddsUp(h, c, P, i)
<1> DEFINE n == Len(listed[c])
           V == SUBSET Reached
           Step(k, S) == IF k < i \/ k > n THEN P
                         ELSE UNION {chanserv_event_add(p, k, listed[c][k]) : p \in S}
           F == [x \in Nat \X V |-> Step(x[1], x[2])]
           Body(g) == [k \in 0..n |-> IF k < i THEN P
                                      ELSE UNION {chanserv_event_add(p, k, listed[c][k]) : p \in g[k - 1]}]
           add == CHOOSE g : g = Body(g)
<1>1. n \in Nat /\ n <= MaxEvent /\ MaxEvent \in Nat /\ i - 1 \in Nat
  BY EventLogAssumption DEF Chronicle
<1>2. \A k \in Nat, S \in V : Step(k, S) \in V
  <2> TAKE k \in Nat, S \in V
  <2>1. CASE k < i \/ k > n
    BY <2>1
  <2>2. CASE ~(k < i \/ k > n)
    <3>1. k \in 1..MaxEvent /\ listed[c][k] \in Event
      BY <1>1, <2>2 DEF Chronicle
    <3>2. \A p \in S : chanserv_event_add(p, k, listed[c][k]) \subseteq Reached
      BY <3>1, AddSees DEF Seen
    <3> QED
      BY <2>2, <3>2
  <2> QED
    BY <2>1, <2>2
<1>3. F \in [Nat \X V -> V]
  <2> HIDE DEF V, Step
  <2> QED
    BY <1>2
<1>4. P \in V
  OBVIOUS
<1> HIDE DEF V
<1>5. PICK h : Iteration(h, V, P, F)
  BY <1>3, <1>4, Iterates
<1>6. h \in [Nat -> V] /\ h[0] = P
  BY <1>5 DEF Iteration
<1>7. \A k \in Nat : k # 0 => h[k] = Step(k, h[k - 1])
  <2> TAKE k \in Nat
  <2> HAVE k # 0
  <2>1. k - 1 \in Nat /\ (k - 1) + 1 = k /\ h[k - 1] \in V
    BY <1>6
  <2>2. h[k] = F[<<k, h[k - 1]>>]
    BY <1>5, <2>1 DEF Iteration
  <2>3. <<k, h[k - 1]>> \in Nat \X V
    BY <2>1
  <2> HIDE DEF Step
  <2> QED
    BY <2>2, <2>3
<1>8. \A k \in Nat : k < i => h[k] = P
  <2> TAKE k \in Nat
  <2> HAVE k < i
  <2> QED
    BY <1>6, <1>7
<1>9. \A k \in i..n : h[k] = UNION {chanserv_event_add(p, k, listed[c][k]) : p \in h[k - 1]}
  <2> TAKE k \in i..n
  <2>1. k \in Nat /\ k # 0 /\ ~(k < i \/ k > n)
    BY <1>1
  <2> QED
    BY <1>7, <2>1
<1> DEFINE f == [k \in 0..n |-> h[k]]
<1>10. f = Body(f)
  <2>1. ASSUME NEW k \in 0..n, k < i PROVE f[k] = P
    BY <1>1, <1>8, <2>1
  <2>2. ASSUME NEW k \in 0..n, ~(k < i)
        PROVE  f[k] = UNION {chanserv_event_add(p, k, listed[c][k]) : p \in f[k - 1]}
    <3>1. k \in i..n /\ k - 1 \in 0..n
      BY <1>1, <2>2
    <3>2. f[k - 1] = h[k - 1] /\ f[k] = h[k]
      BY <3>1
    <3> HIDE DEF f
    <3> QED
      BY <1>9, <3>1, <3>2
  <2>3. f = [k \in 0..n |-> f[k]]
    OBVIOUS
  <2> HIDE DEF f
  <2> QED
    BY <2>1, <2>2, <2>3
<1>11. add = Body(add)
  <2> HIDE DEF Body, f
  <2> QED
    BY <1>10
<1>12. AddFrom(c, P, i) = add[n]
  BY <1>1 DEF AddFrom
<1> HIDE DEF add
<1>13. \A k \in 0..n : add[k] = h[k]
  <2> DEFINE S == {k \in Nat : k <= n => add[k] = h[k]}
  <2>1. \A k \in 0..n : add[k] = IF k < i THEN P
                                 ELSE UNION {chanserv_event_add(p, k, listed[c][k]) : p \in add[k - 1]}
    BY <1>11
  <2>2. 0 \in S
    <3>1. 0 \in 0..n /\ 0 < i
      BY <1>1
    <3>2. add[0] = P
      BY <2>1, <3>1
    <3> QED
      BY <1>6, <3>2
  <2>3. ASSUME NEW k \in S PROVE k + 1 \in S
    <3> SUFFICES ASSUME k + 1 <= n PROVE add[k + 1] = h[k + 1]
      OBVIOUS
    <3>1. k \in Nat /\ k + 1 \in 0..n /\ (k + 1) - 1 = k /\ add[k] = h[k]
      BY <1>1
    <3>2. CASE k + 1 < i
      <4>1. add[k + 1] = P
        BY <2>1, <3>1, <3>2
      <4>2. h[k + 1] = P
        BY <1>8, <3>1, <3>2
      <4> QED
        BY <4>1, <4>2
    <3>3. CASE ~(k + 1 < i)
      <4>1. k + 1 \in i..n
        BY <3>1, <3>3
      <4> QED
        BY <1>9, <2>1, <3>1, <3>3, <4>1
    <3> QED
      BY <3>2, <3>3
  <2> HIDE DEF S
  <2>4. S = Nat
    BY <2>2, <2>3, Induction DEF S
  <2> QED
    BY <2>4 DEF S
<1>14. n \in 0..n /\ i - 1 < i
  BY <1>1
<1>15. h[i - 1] = P /\ AddFrom(c, P, i) = h[n]
  BY <1>1, <1>8, <1>12, <1>13, <1>14
<1>16. AddsUp(h, c, P, i)
  BY <1>6, <1>9, <1>15 DEF V, AddsUp
<1> QED
  BY <1>16

\* What holds of p when the answer for c has been read up to event k: p goes on from last_events,
\* its time is that of an event before, and nothing before it is missing but what one fetch does
\* not list.
ReadUpTo(c, k, p) ==
    LET l == listed[c] IN
    /\ p \in Reached /\ marks[c] \subseteq p.marks
    /\ RowsAreEvents(l, p.last, p.rows, p.marks)
    /\ last_events[c] <= p.last
    /\ p.last = last_events[c] \/ \E j \in DOMAIN l : j <= k /\ p.last = l[j].stamp
    /\ \A j \in DOMAIN l : Oldest(c) <= j /\ j <= k => l[j].stamp <= p.last
    /\ event_table /\ p.marks \cap Missed = {} =>
          \A j \in DOMAIN l : ~l[j].own /\ l[j].stamp <= p.last =>
             p.rows[j] > 0 \/ (l[j].stamp > last_events[c] /\ (j > k \/ j < Oldest(c)))

LEMMA ReadsOn ==
    ASSUME NEW c \in Chan, Chronicle(listed[c]), last_events[c] \in Nat, event_table \in BOOLEAN,
           NEW k \in Nat, k + 1 <= Len(listed[c]), k + 1 >= Oldest(c), Oldest(c) \in Nat,
           NEW p, ReadUpTo(c, k, p), NEW q, Seen(p, k + 1, listed[c][k + 1], q)
    PROVE  ReadUpTo(c, k + 1, q)
<1> DEFINE l == listed[c]
           i == k + 1
           e == l[i]
           old == last_events[c]
<1>1. /\ DOMAIN l = 1..Len(l) /\ Len(l) \in Nat /\ Len(l) <= MaxEvent /\ MaxEvent \in Nat
      /\ \A j \in DOMAIN l : l[j] \in Event /\ l[j].stamp \in Nat /\ l[j].own \in BOOLEAN
      /\ \A j, m \in DOMAIN l : j <= m => l[j].stamp <= l[m].stamp
  <2>1. l \in Seq(Event) /\ Len(l) <= MaxEvent /\ MaxEvent \in Nat
        /\ \A j, m \in DOMAIN l : j <= m => l[j].stamp <= l[m].stamp
    BY EventLogAssumption DEF Chronicle
  <2> HIDE DEF l
  <2>2. DOMAIN l = 1..Len(l) /\ Len(l) \in Nat /\ \A j \in DOMAIN l : l[j] \in Event
    BY <2>1
  <2>3. \A j \in DOMAIN l : l[j].stamp \in Nat /\ l[j].own \in BOOLEAN
    BY <2>2 DEF Event
  <2> QED
    BY <2>1, <2>2, <2>3
<1>2. i \in DOMAIN l /\ i \in 1..MaxEvent /\ i \in Nat /\ DOMAIN l \subseteq 1..MaxEvent /\ i > k
  BY <1>1
<1>3. /\ p \in Reached /\ marks[c] \subseteq p.marks
      /\ RowsAreEvents(l, p.last, p.rows, p.marks)
      /\ old <= p.last
      /\ p.last = old \/ \E j \in DOMAIN l : j <= k /\ p.last = l[j].stamp
      /\ \A j \in DOMAIN l : Oldest(c) <= j /\ j <= k => l[j].stamp <= p.last
      /\ event_table /\ p.marks \cap Missed = {} =>
            \A j \in DOMAIN l : ~l[j].own /\ l[j].stamp <= p.last =>
               p.rows[j] > 0 \/ (l[j].stamp > old /\ (j > k \/ j < Oldest(c)))
  BY DEF ReadUpTo
<1>4. /\ q \in Reached /\ p.marks \subseteq q.marks
      /\ \/ /\ e.stamp <= p.last /\ q.last = p.last /\ q.rows = p.rows
            /\ e.stamp = p.last /\ ~e.own /\ p.rows[i] = 0 => "same" \in q.marks
         \/ /\ e.stamp > p.last /\ q.last = e.stamp /\ q.rows = p.rows /\ (e.own \/ ~event_table)
         \/ /\ e.stamp > p.last /\ q.last = e.stamp /\ ~e.own /\ event_table
            /\ \E d \in 0..2 : /\ q.rows = [p.rows EXCEPT ![i] = @ + d]
                               /\ d = 0 => "failed" \in q.marks
                               /\ d = 2 => "retried" \in q.marks
  BY DEF Seen
<1>5. p.last \in Nat /\ q.last \in Nat /\ p.rows \in [1..MaxEvent -> Nat] /\ q.rows \in [1..MaxEvent -> Nat]
  BY <1>3, <1>4 DEF Reached
<1>6. \A j \in DOMAIN l : j \in Nat /\ (j <= i <=> j <= k \/ j = i) /\ (j > i => j > k)
  BY <1>1
<1> HIDE DEF i, l, e, old
<1>7. e.stamp \in Nat /\ e.own \in BOOLEAN /\ e = l[i] /\ old \in Nat
  BY <1>1, <1>2 DEF e, old
<1>8. p.last <= q.last /\ e.stamp <= q.last /\ (q.last = p.last \/ q.last = e.stamp)
  BY <1>4, <1>5, <1>7
<1>9. old <= q.last
  BY <1>3, <1>5, <1>7, <1>8
<1>10. q.last = old \/ \E j \in DOMAIN l : j <= i /\ q.last = l[j].stamp
  <2>1. CASE q.last = e.stamp
    BY <1>2, <1>7, <2>1
  <2>2. CASE q.last = p.last
    BY <1>3, <1>6, <2>2
  <2> QED
    BY <1>8, <2>1, <2>2
<1>11. \A j \in DOMAIN l : Oldest(c) <= j /\ j <= i => l[j].stamp <= q.last
  <2> TAKE j \in DOMAIN l
  <2> HAVE Oldest(c) <= j /\ j <= i
  <2>1. CASE j = i
    BY <1>7, <1>8, <2>1
  <2>2. CASE j <= k
    <3>1. l[j].stamp <= p.last /\ l[j].stamp \in Nat
      BY <1>1, <1>3, <2>2
    <3> QED
      BY <1>5, <1>8, <3>1
  <2> QED
    BY <1>6, <2>1, <2>2
<1>12. RowsAreEvents(l, q.last, q.rows, q.marks)
  <2>1. CASE q.rows = p.rows
    <3>1. \A j \in 1..MaxEvent : q.rows[j] > 0 => j \in DOMAIN l /\ ~l[j].own
      BY <1>3, <2>1 DEF RowsAreEvents
    <3>2. ASSUME q.marks \cap {"crash", "kept"} = {}, NEW j \in 1..MaxEvent, q.rows[j] > 0
          PROVE  l[j].stamp <= q.last
      <4>1. p.marks \cap {"crash", "kept"} = {}
        BY <1>4, <3>2
      <4>2. l[j].stamp <= p.last /\ l[j].stamp \in Nat
        BY <1>1, <1>3, <2>1, <3>1, <3>2, <4>1 DEF RowsAreEvents
      <4> QED
        BY <1>5, <1>8, <4>2
    <3>3. ASSUME q.marks \cap {"retried", "crash", "kept"} = {}, NEW j \in 1..MaxEvent
          PROVE  q.rows[j] <= 1
      <4>1. p.marks \cap {"retried", "crash", "kept"} = {}
        BY <1>4, <3>3
      <4> QED
        BY <1>3, <2>1, <4>1 DEF RowsAreEvents
    <3>4. ~event_table => \A j \in 1..MaxEvent : q.rows[j] = 0
      BY <1>3, <2>1 DEF RowsAreEvents
    <3> QED
      BY <3>1, <3>2, <3>3, <3>4 DEF RowsAreEvents
  <2>2. CASE q.rows # p.rows
    <3>1. e.stamp > p.last /\ q.last = e.stamp /\ ~e.own /\ event_table
      BY <1>4, <2>2
    <3>2. PICK d \in 0..2 : q.rows = [p.rows EXCEPT ![i] = @ + d] /\ (d = 2 => "retried" \in q.marks)
      BY <1>4, <2>2
    <3>3. \A j \in 1..MaxEvent : q.rows[j] = IF j = i THEN p.rows[i] + d ELSE p.rows[j]
      BY <1>2, <1>5, <3>2
    <3>4. \A j \in 1..MaxEvent : q.rows[j] > 0 => j \in DOMAIN l /\ ~l[j].own
      <4> TAKE j \in 1..MaxEvent
      <4> HAVE q.rows[j] > 0
      <4>1. CASE j = i
        BY <1>2, <1>7, <3>1, <4>1
      <4>2. CASE j # i
        BY <1>3, <3>3, <4>2 DEF RowsAreEvents
      <4> QED
        BY <4>1, <4>2
    <3>5. ASSUME q.marks \cap {"crash", "kept"} = {}, NEW j \in 1..MaxEvent, q.rows[j] > 0
          PROVE  l[j].stamp <= q.last
      <4>1. CASE j = i
        BY <1>7, <3>1, <4>1
      <4>2. CASE j # i
        <5>1. p.marks \cap {"crash", "kept"} = {}
          BY <1>4, <3>5
        <5>2. p.rows[j] > 0
          BY <3>3, <3>5, <4>2
        <5>3. l[j].stamp <= p.last /\ l[j].stamp \in Nat
          BY <1>1, <1>3, <3>4, <3>5, <5>1, <5>2 DEF RowsAreEvents
        <5> QED
          BY <1>5, <1>8, <5>3
      <4> QED
        BY <4>1, <4>2
    <3>6. ASSUME q.marks \cap {"retried", "crash", "kept"} = {}, NEW j \in 1..MaxEvent
          PROVE  q.rows[j] <= 1
      <4>1. p.marks \cap {"retried", "crash", "kept"} = {} /\ p.marks \cap {"crash", "kept"} = {} /\ d # 2
        BY <1>4, <3>2, <3>6
      <4>2. CASE j = i
        <5>1. p.rows[i] \in Nat
          BY <1>2, <1>5
        <5>2. ~(p.rows[i] > 0)
          <6> SUFFICES ASSUME p.rows[i] > 0 PROVE FALSE
            OBVIOUS
          <6>1. l[i].stamp <= p.last
            BY <1>2, <1>3, <4>1 DEF RowsAreEvents
          <6> QED
            BY <1>5, <1>7, <3>1, <6>1
        <5>3. q.rows[j] = p.rows[i] + d
          BY <3>3, <4>2
        <5> QED
          BY <4>1, <5>1, <5>2, <5>3
      <4>3. CASE j # i
        BY <1>3, <3>3, <4>1, <4>3 DEF RowsAreEvents
      <4> QED
        BY <4>2, <4>3
    <3> QED
      BY <3>1, <3>4, <3>5, <3>6 DEF RowsAreEvents
  <2> QED
    BY <2>1, <2>2
<1>13. ASSUME event_table, q.marks \cap Missed = {}, NEW j \in DOMAIN l, ~l[j].own, l[j].stamp <= q.last
       PROVE  q.rows[j] > 0 \/ (l[j].stamp > old /\ (j > i \/ j < Oldest(c)))
  <2>1. p.marks \cap Missed = {}
    BY <1>4, <1>13
  <2>2. l[j].stamp \in Nat /\ j \in 1..MaxEvent /\ j \in Nat
    BY <1>1, <1>2, <1>6
  <2>3. q.rows[j] >= p.rows[j] /\ p.rows[j] \in Nat /\ q.rows[j] \in Nat
    <3>1. p.rows[j] \in Nat /\ q.rows[j] \in Nat
      BY <1>5, <2>2
    <3>2. ASSUME NEW d \in 0..2, q.rows = [p.rows EXCEPT ![i] = @ + d] PROVE q.rows[j] >= p.rows[j]
      <4>1. q.rows[j] = IF j = i THEN p.rows[j] + d ELSE p.rows[j]
        BY <1>5, <2>2, <3>2
      <4> QED
        BY <3>1, <4>1
    <3>3. q.rows = p.rows => q.rows[j] >= p.rows[j]
      BY <3>1
    <3> QED
      BY <1>4, <3>1, <3>2, <3>3
  <2>4. CASE j # i /\ l[j].stamp <= p.last
    <3>1. p.rows[j] > 0 \/ (l[j].stamp > old /\ (j > k \/ j < Oldest(c)))
      BY <1>3, <1>13, <2>1, <2>4
    <3>2. j > k => j > i
      BY <1>1, <2>2, <2>4 DEF i
    <3> QED
      BY <2>3, <3>1, <3>2
  <2>5. CASE j # i /\ ~(l[j].stamp <= p.last)
    <3>1. l[j].stamp > old
      BY <1>3, <1>5, <1>7, <2>2, <2>5
    <3>2. ~(Oldest(c) <= j /\ j <= k)
      BY <1>3, <2>5
    <3>3. j > i \/ j < Oldest(c)
      BY <1>1, <2>2, <2>5, <3>2 DEF i
    <3> QED
      BY <3>1, <3>3
  <2>6. CASE j = i
    <3>1. CASE e.stamp > p.last
      <4>1. \E d \in 0..2 : q.rows = [p.rows EXCEPT ![i] = @ + d] /\ (d = 0 => "failed" \in q.marks)
        BY <1>4, <1>5, <1>7, <1>13, <2>6, <3>1
      <4>2. PICK d \in 0..2 : q.rows = [p.rows EXCEPT ![i] = @ + d] /\ (d = 0 => "failed" \in q.marks)
        BY <4>1
      <4>3. d # 0
        BY <1>13, <4>2 DEF Missed
      <4>4. q.rows[j] = p.rows[j] + d
        BY <1>5, <2>2, <2>6, <4>2
      <4> QED
        BY <2>3, <4>3, <4>4
    <3>2. CASE e.stamp = p.last
      <4>1. q.rows = p.rows /\ (~e.own /\ p.rows[i] = 0 => "same" \in q.marks)
        BY <1>4, <1>5, <1>7, <3>2
      <4>2. "same" \notin q.marks
        BY <1>13 DEF Missed
      <4> QED
        BY <1>7, <1>13, <2>3, <2>6, <4>1, <4>2
    <3>3. CASE e.stamp < p.last
      <4>1. p.rows[i] > 0 \/ e.stamp > old
        BY <1>3, <1>5, <1>7, <1>13, <2>1, <2>6, <3>3
      <4>2. ~(e.stamp > old)
        <5> SUFFICES ASSUME e.stamp > old PROVE FALSE
          OBVIOUS
        <5>1. PICK m \in DOMAIN l : m <= k /\ p.last = l[m].stamp
          BY <1>3, <1>5, <1>7, <3>3
        <5>2. m <= i
          BY <1>6, <5>1
        <5>3. l[m].stamp <= l[i].stamp
          BY <1>1, <1>2, <5>2
        <5> QED
          BY <1>5, <1>7, <3>3, <5>1, <5>3
      <4> QED
        BY <2>3, <2>6, <4>1, <4>2
    <3> QED
      BY <1>5, <1>7, <3>1, <3>2, <3>3
  <2> QED
    BY <2>4, <2>5, <2>6
<1>14. q \in Reached /\ marks[c] \subseteq q.marks
  BY <1>3, <1>4
<1> USE DEF i, l, old
<1> QED
  BY <1>9, <1>10, <1>11, <1>12, <1>13, <1>14 DEF ReadUpTo

(* What comes of an answer.                                                   *)
LEMMA AllRead ==
    ASSUME EventsInv, NEW c \in Chan, NEW p \in AddFrom(c, {Progress(c)}, Oldest(c))
    PROVE  ReadUpTo(c, Len(listed[c]), p)
<1> DEFINE n == Len(listed[c])
           p0 == Progress(c)
           i == Oldest(c)
<1>1. /\ Chronicle(listed[c]) /\ listed[c] \in Seq(Event) /\ event_table \in BOOLEAN /\ breaks \in Nat /\ conn \in Conns
      /\ last_events[c] \in Nat /\ rows[c] \in [1..MaxEvent -> Nat] /\ marks[c] \in SUBSET EventMark
      /\ Records(c)
  BY DEF EventsInv, EventTypes
<1>2. n \in Nat /\ i \in Nat /\ i >= 1
  <2>1. PICK m \in Nat : m = n
    BY <1>1
  <2>2. EventsMax \in Nat
    BY EventLogAssumption
  <2>3. i = IF m > EventsMax THEN m - EventsMax + 1 ELSE 1
    BY <2>1 DEF Oldest
  <2> HIDE DEF i, n
  <2>4. CASE m > EventsMax
    <3>1. i = m - EventsMax + 1
      BY <2>3, <2>4
    <3> QED
      BY <2>1, <2>2, <2>4, <3>1
  <2>5. CASE ~(m > EventsMax)
    BY <2>1, <2>3, <2>5
  <2> QED
    BY <2>4, <2>5
<1>3. p0 \in Reached
  BY <1>1 DEF Progress, Reached
<1>4. \A k \in Nat : k < i => ReadUpTo(c, k, p0)
  <2> TAKE k \in Nat
  <2> HAVE k < i
  <2>1. /\ p0.last = last_events[c] /\ p0.rows = rows[c] /\ p0.marks = marks[c]
    BY DEF Progress
  <2>2. DOMAIN listed[c] \subseteq Nat
    BY <1>1
  <2> HIDE DEF p0, i
  <2>3. \A j \in DOMAIN listed[c] : i <= j => ~(j <= k)
    BY <1>2, <2>2
  <2>4. \A j \in DOMAIN listed[c] : i <= j /\ j <= k => listed[c][j].stamp <= p0.last
    BY <2>3
  <2>5. RowsAreEvents(listed[c], p0.last, p0.rows, p0.marks)
    BY <1>1, <2>1 DEF Records
  <2>6. event_table /\ p0.marks \cap Missed = {} =>
          \A j \in DOMAIN listed[c] : ~listed[c][j].own /\ listed[c][j].stamp <= p0.last => p0.rows[j] > 0
    BY <1>1, <2>1 DEF Records, EventsAreRows
  <2> QED
    BY <1>1, <1>3, <2>1, <2>4, <2>5, <2>6 DEF ReadUpTo, i
<1> HIDE DEF p0
<1>5. CASE n < i
  <2>1. p = p0
    BY <1>2, <1>5 DEF AddFrom, p0
  <2> QED
    BY <1>2, <1>4, <1>5, <2>1
<1>6. CASE ~(n < i)
  <2> HIDE DEF i, n
  <2>1. PICK h \in [Nat -> SUBSET Reached] :
              /\ h[i - 1] = {p0}
              /\ AddFrom(c, {p0}, i) = h[n]
              /\ \A k \in i..n : h[k] = UNION {chanserv_event_add(x, k, listed[c][k]) : x \in h[k - 1]}
    <3>1. i \in Nat /\ i >= 1 /\ i <= Len(listed[c])
      BY <1>2, <1>6 DEF n
    <3>2. PICK P \in SUBSET Reached : P = {p0}
      BY <1>3
    <3>3. Chronicle(listed[c])
      BY <1>1
    <3>4. PICK h : AddsUp(h, c, P, i)
      BY <3>1, <3>3, AddFromSteps
    <3> QED
      BY <3>2, <3>4 DEF AddsUp, n
  <2> DEFINE S == {m \in Nat : (i - 1) + m <= n => \A x \in h[(i - 1) + m] : ReadUpTo(c, (i - 1) + m, x)}
  <2>2. 0 \in S
    <3>1. i - 1 \in Nat /\ i - 1 < i /\ (i - 1) + 0 = i - 1
      BY <1>2
    <3>2. \A x \in h[i - 1] : ReadUpTo(c, i - 1, x)
      BY <1>4, <2>1, <3>1
    <3> QED
      BY <3>1, <3>2
  <2>3. ASSUME NEW m \in S PROVE m + 1 \in S
    <3> SUFFICES ASSUME (i - 1) + (m + 1) <= n, NEW x \in h[(i - 1) + (m + 1)]
                 PROVE  ReadUpTo(c, (i - 1) + (m + 1), x)
      OBVIOUS
    <3>1. PICK k \in Nat : k = (i - 1) + m
      BY <1>2
    <3>2. (i - 1) + (m + 1) = k + 1 /\ k + 1 <= n /\ k + 1 >= i /\ k + 1 \in i..n /\ k <= n
      BY <1>2, <3>1
    <3>3. \A y \in h[k] : ReadUpTo(c, k, y)
      BY <3>1, <3>2
    <3>4. h[k + 1] = UNION {chanserv_event_add(y, k + 1, listed[c][k + 1]) : y \in h[k]}
      <4>1. (k + 1) - 1 = k
        OBVIOUS
      <4> QED
        BY <2>1, <3>2, <4>1
    <3>5. PICK y \in h[k] : x \in chanserv_event_add(y, k + 1, listed[c][k + 1])
      BY <3>2, <3>4
    <3>6. y \in Reached /\ k + 1 \in 1..MaxEvent /\ listed[c][k + 1] \in Event
      <4>1. k + 1 \in 1..Len(listed[c]) /\ Len(listed[c]) <= MaxEvent /\ Len(listed[c]) \in Nat /\ MaxEvent \in Nat
        BY <1>1, <1>2, <3>2, EventLogAssumption DEF Chronicle, n
      <4>2. k + 1 \in 1..MaxEvent
        BY <4>1
      <4> QED
        BY <1>1, <2>1, <4>1, <4>2
    <3>7. Seen(y, k + 1, listed[c][k + 1], x)
      BY <3>5, <3>6, AddSees
    <3>8. ReadUpTo(c, k + 1, x)
      <4>1. ReadUpTo(c, k, y)
        BY <3>3, <3>5
      <4>2. k + 1 <= Len(listed[c]) /\ k + 1 >= Oldest(c) /\ Oldest(c) \in Nat
        BY <1>2, <3>2 DEF i, n
      <4> QED
        BY <1>1, <3>7, <4>1, <4>2, ReadsOn
    <3> QED
      BY <3>2, <3>8
  <2> HIDE DEF S
  <2>4. S = Nat
    BY <2>2, <2>3, Induction DEF S
  <2>5. n - (i - 1) \in Nat /\ (i - 1) + (n - (i - 1)) = n
    BY <1>2, <1>6
  <2>6. \A x \in h[n] : ReadUpTo(c, n, x)
    <3>1. n - (i - 1) \in S
      BY <2>4, <2>5
    <3> QED
      BY <1>2, <2>5, <3>1 DEF S
  <2>7. p \in h[n]
    BY <2>1 DEF i, p0
  <2> QED
    BY <2>6, <2>7 DEF n
<1> QED
  BY <1>5, <1>6

\* The answer of srvx for a channel.
LEMMA AnswerEventsInv == EventsInv /\ srvx_response_events => EventsInv'
<1> SUFFICES ASSUME EventsInv, srvx_response_events PROVE EventsInv'
  OBVIOUS
<1>1. EventTypes /\ \A d \in Chan : Records(d)
  BY DEF EventsInv
<1>2. fetches # <<>> /\ fetches' = Tail(fetches) /\ UNCHANGED <<event_table, listed, enabled, last_event_ts, deleted>>
  BY DEF srvx_response_events
<1>3. Head(fetches) \in Chan /\ fetches' \in Seq(Chan)
  <2>1. fetches \in Seq(Chan)
    BY <1>1 DEF EventTypes
  <2> QED
    BY <1>2, <2>1
<1> PICK c \in Chan : c = Head(fetches)
  BY <1>3
<1>4. PICK p \in AddFrom(c, {Progress(c)}, Oldest(c)) :
          /\ last_events' = [last_events EXCEPT ![c] = p.last]
          /\ rows' = [rows EXCEPT ![c] = p.rows]
          /\ marks' = [marks EXCEPT ![c] = p.marks \cup (IF Unseen(c) # {} THEN {"window"} ELSE {})
                                                  \cup (IF c \notin enabled THEN {"late"} ELSE {})]
          /\ conn' = p.conn /\ breaks' = p.breaks
  BY DEF srvx_response_events
<1>5. ReadUpTo(c, Len(listed[c]), p)
  BY <1>3, <1>4, AllRead
<1>6. PICK m : m = p.marks \cup (IF Unseen(c) # {} THEN {"window"} ELSE {})
                          \cup (IF c \notin enabled THEN {"late"} ELSE {})
  OBVIOUS
<1>7. /\ p.last \in Nat /\ p.rows \in [1..MaxEvent -> Nat] /\ p.marks \in SUBSET EventMark
      /\ p.conn \in Conns /\ p.breaks \in Nat
  BY <1>5 DEF ReadUpTo, Reached
<1>8. m \in SUBSET EventMark /\ p.marks \subseteq m /\ (Unseen(c) # {} => "window" \in m)
      /\ (c \notin enabled => "late" \in m)
  BY <1>6, <1>7 DEF EventMark
<1>9. EventTypes'
  <2>1. last_events' \in [Chan -> Nat] /\ rows' \in [Chan -> [1..MaxEvent -> Nat]] /\ marks' \in [Chan -> SUBSET EventMark]
    BY <1>1, <1>3, <1>4, <1>6, <1>7, <1>8 DEF EventTypes
  <2> QED
    BY <1>1, <1>2, <1>3, <1>4, <1>7, <2>1 DEF EventTypes, Chronicle
<1>10. /\ last_events'[c] = p.last /\ rows'[c] = p.rows /\ marks'[c] = m
       /\ \A d \in Chan : d # c => last_events'[d] = last_events[d] /\ rows'[d] = rows[d] /\ marks'[d] = marks[d]
  BY <1>1, <1>3, <1>4, <1>6 DEF EventTypes
<1>11. ASSUME NEW d \in Chan, d # c PROVE Records(d)'
  BY <1>1, <1>2, <1>10, <1>11 DEF Records, RowsAreEvents, EventsAreRows
<1>12. Records(c)'
  <2>1. RowsAreEvents(listed[c], p.last, p.rows, m)
    BY <1>5, <1>8 DEF ReadUpTo, RowsAreEvents
  <2>2. EventsAreRows(listed[c], p.last, p.rows, m)
    <3> SUFFICES ASSUME event_table, m \cap Missed = {}, NEW j \in DOMAIN listed[c], ~listed[c][j].own,
                        listed[c][j].stamp <= p.last
                 PROVE  p.rows[j] > 0
      BY DEF EventsAreRows
    <3>1. p.marks \cap Missed = {} /\ Unseen(c) = {}
      BY <1>8 DEF Missed
    <3>2. p.rows[j] > 0 \/ (listed[c][j].stamp > last_events[c] /\ (j > Len(listed[c]) \/ j < Oldest(c)))
      BY <1>5, <3>1 DEF ReadUpTo
    <3>3. listed[c] \in Seq(Event)
      BY <1>1, <1>3 DEF EventTypes
    <3>4. j \in Nat /\ j >= 1 /\ ~(j > Len(listed[c]))
      BY <3>3
    <3>5. Oldest(c) \in Int
      <4>1. Len(listed[c]) \in Nat /\ EventsMax \in Nat
        BY <3>3, EventLogAssumption
      <4> QED
        BY <4>1 DEF Oldest
    <3>6. ASSUME listed[c][j].stamp > last_events[c], j < Oldest(c) PROVE FALSE
      <4>1. j \in 1..(Oldest(c) - 1)
        BY <3>4, <3>5, <3>6
      <4>2. j \in Unseen(c)
        BY <3>6, <4>1 DEF Unseen
      <4> QED
        BY <3>1, <4>2
    <3> QED
      BY <3>2, <3>4, <3>6
  <2>3. ASSUME c \in deleted, m \cap {"kept", "late"} = {}, NEW j \in 1..MaxEvent PROVE p.rows[j] = 0
    <3>1. c \in enabled
      BY <1>8, <2>3
    <3> QED
      BY <1>1, <2>3, <3>1 DEF EventTypes
  <2>4. RowsAreEvents(listed[c], last_events[c], rows[c], marks[c])'
    BY <1>2, <1>10, <2>1 DEF RowsAreEvents
  <2>5. EventsAreRows(listed[c], last_events[c], rows[c], marks[c])'
    BY <1>2, <1>10, <2>2 DEF EventsAreRows
  <2> QED
    BY <1>2, <1>10, <2>3, <2>4, <2>5 DEF Records
<1> QED
  BY <1>9, <1>11, <1>12 DEF EventsInv

\* ChanServ logs an event.
LEMMA LogsEventsInv ==
    ASSUME EventsInv, NEW c \in Chan, ChanServLogs(c)
    PROVE  EventsInv'
<1> DEFINE l == listed[c]
           n == Len(listed[c])
<1>1. EventTypes /\ \A d \in Chan : Records(d)
  BY DEF EventsInv
<1>2. /\ UNCHANGED <<event_table, enabled, last_events, last_event_ts, fetches, rows, deleted, breaks, conn>>
      /\ n < MaxEvent
  BY DEF ChanServLogs
<1>3. PICK own \in BOOLEAN, later \in BOOLEAN :
          LET last == IF listed[c] = <<>> THEN 1 ELSE listed[c][Len(listed[c])].stamp
              e == [stamp |-> IF later THEN last + 1 ELSE last, own |-> own] IN
          /\ listed' = [listed EXCEPT ![c] = Append(@, e)]
          /\ marks' = [marks EXCEPT ![c] = IF ~own /\ e.stamp <= last_events[c] THEN @ \cup {"same"} ELSE @]
  BY DEF ChanServLogs
<1>4. PICK last : last = IF l = <<>> THEN 1 ELSE l[n].stamp
  OBVIOUS
<1>5. PICK e : e = [stamp |-> IF later THEN last + 1 ELSE last, own |-> own]
  OBVIOUS
<1>6. PICK m : m = IF ~own /\ e.stamp <= last_events[c] THEN marks[c] \cup {"same"} ELSE marks[c]
  OBVIOUS
<1>7. listed' = [listed EXCEPT ![c] = Append(l, e)] /\ marks' = [marks EXCEPT ![c] = m]
  BY <1>3, <1>4, <1>5, <1>6
<1>8. l \in Seq(Event) /\ n \in Nat /\ n <= MaxEvent /\ MaxEvent \in Nat
      /\ \A j, k \in DOMAIN l : j <= k => l[j].stamp <= l[k].stamp
  BY <1>1, EventLogAssumption DEF EventTypes, Chronicle
<1>9. \A j \in 1..n : l[j] \in Event /\ l[j].stamp \in Nat \ {0}
  <2>1. \A j \in 1..n : l[j] \in Event
    BY <1>8
  <2>2. \A x \in Event : x.stamp \in Nat \ {0}
    BY DEF Event
  <2> HIDE DEF l, n
  <2> QED
    BY <2>1, <2>2
<1>10. last \in Nat \ {0} /\ \A j \in 1..n : l[j].stamp <= last
  <2>1. CASE l = <<>>
    BY <1>4, <1>8, <2>1
  <2>2. CASE l # <<>>
    <3>1. n \in 1..n /\ DOMAIN l = 1..n
      BY <1>8, <2>2
    <3> QED
      BY <1>4, <1>8, <1>9, <2>2, <3>1
  <2> QED
    BY <2>1, <2>2
<1>11. e \in Event /\ e.own = own /\ e.stamp \in Nat \ {0} /\ last <= e.stamp
  BY <1>5, <1>10 DEF Event
<1>12. PICK r : r = Append(l, e)
  OBVIOUS
<1>13. /\ r \in Seq(Event) /\ Len(r) = n + 1 /\ r[n + 1] = e /\ \A j \in 1..n : r[j] = l[j]
       /\ DOMAIN r = 1..(n + 1) /\ DOMAIN l = 1..n
  BY <1>8, <1>11, <1>12
<1> HIDE DEF l, n
<1>14. Chronicle(r)
  <2>1. ASSUME NEW j \in DOMAIN r, NEW k \in DOMAIN r, j <= k
        PROVE  r[j].stamp <= r[k].stamp
    <3>1. CASE k = n + 1
      <4>1. CASE j = n + 1
        BY <1>11, <1>13, <3>1, <4>1
      <4>2. CASE j # n + 1
        <5>1. j \in 1..n
          BY <1>8, <1>13, <4>2
        <5> QED
          BY <1>9, <1>10, <1>11, <1>13, <3>1, <5>1
      <4> QED
        BY <4>1, <4>2
    <3>2. CASE k # n + 1
      <4>1. j \in 1..n /\ k \in 1..n
        BY <1>8, <1>13, <2>1, <3>2
      <4> QED
        BY <1>8, <1>13, <2>1, <4>1
    <3> QED
      BY <3>1, <3>2
  <2>2. Len(r) <= MaxEvent
    BY <1>2, <1>8, <1>13
  <2> QED
    BY <1>13, <2>1, <2>2 DEF Chronicle
<1>15. m \in SUBSET EventMark /\ marks[c] \subseteq m /\ m \subseteq marks[c] \cup {"same"}
       /\ (~e.own /\ e.stamp <= last_events[c] => "same" \in m)
  BY <1>1, <1>6, <1>11 DEF EventTypes, EventMark
<1>16. EventTypes'
  <2>1. listed' \in [Chan -> Seq(Event)] /\ \A d \in Chan : Chronicle(listed'[d])
    BY <1>1, <1>7, <1>12, <1>13, <1>14 DEF EventTypes
  <2>2. marks' \in [Chan -> SUBSET EventMark]
    BY <1>1, <1>7, <1>15 DEF EventTypes
  <2>3. \A d \in Chan : Chronicle(listed[d])'
    BY <2>1 DEF Chronicle
  <2> QED
    BY <1>1, <1>2, <2>1, <2>2, <2>3 DEF EventTypes
<1>17. /\ listed'[c] = r /\ marks'[c] = m
       /\ \A d \in Chan : d # c => listed'[d] = listed[d] /\ marks'[d] = marks[d]
  BY <1>1, <1>7, <1>12 DEF EventTypes
<1>18. ASSUME NEW d \in Chan, d # c PROVE Records(d)'
  BY <1>1, <1>2, <1>17, <1>18 DEF Records, RowsAreEvents, EventsAreRows
<1>19. Records(c)'
  <2>1. /\ RowsAreEvents(l, last_events[c], rows[c], marks[c])
        /\ EventsAreRows(l, last_events[c], rows[c], marks[c])
        /\ c \in deleted /\ marks[c] \cap {"kept", "late"} = {} => \A i \in 1..MaxEvent : rows[c][i] = 0
    BY <1>1 DEF Records, l
  <2>2. \A j \in DOMAIN l : j \in DOMAIN r /\ r[j] = l[j]
    BY <1>8, <1>13
  <2>3. RowsAreEvents(r, last_events[c], rows[c], m)
    <3>1. \A i \in 1..MaxEvent : rows[c][i] > 0 => i \in DOMAIN l /\ ~l[i].own
      BY <2>1 DEF RowsAreEvents
    <3>2. m \cap {"crash", "kept"} = marks[c] \cap {"crash", "kept"}
          /\ m \cap {"retried", "crash", "kept"} = marks[c] \cap {"retried", "crash", "kept"}
      BY <1>15
    <3> QED
      BY <2>1, <2>2, <3>1, <3>2 DEF RowsAreEvents
  <2>4. EventsAreRows(r, last_events[c], rows[c], m)
    <3> SUFFICES ASSUME event_table, m \cap Missed = {}, NEW j \in DOMAIN r, ~r[j].own, r[j].stamp <= last_events[c]
                 PROVE  rows[c][j] > 0
      BY DEF EventsAreRows
    <3>1. marks[c] \cap Missed = {} /\ "same" \notin m
      BY <1>15 DEF Missed
    <3>2. j # n + 1
      BY <1>13, <1>15, <3>1
    <3>3. j \in DOMAIN l /\ r[j] = l[j]
      BY <1>8, <1>13, <3>2
    <3> QED
      BY <2>1, <3>1, <3>3 DEF EventsAreRows
  <2>5. RowsAreEvents(listed[c], last_events[c], rows[c], marks[c])'
    BY <1>2, <1>17, <2>3 DEF RowsAreEvents
  <2>6. EventsAreRows(listed[c], last_events[c], rows[c], marks[c])'
    BY <1>2, <1>17, <2>4 DEF EventsAreRows
  <2>7. m \cap {"kept", "late"} = marks[c] \cap {"kept", "late"}
    BY <1>15
  <2> QED
    BY <1>2, <1>17, <2>1, <2>5, <2>6, <2>7 DEF Records
<1> QED
  BY <1>16, <1>18, <1>19 DEF EventsInv

(* Steps that leave the events and the rows alone.                            *)
LEMMA AsideEventsInv ==
    ASSUME EventsInv, UNCHANGED <<event_table, listed, last_events, rows, marks>>,
           enabled' \subseteq Chan, IsFiniteSet(enabled'), deleted' \subseteq deleted, deleted' \cap enabled' = {},
           last_event_ts' \in [Chan -> Nat], fetches' \in Seq(Chan), breaks' \in Nat, conn' \in Conns
    PROVE  EventsInv'
<1>1. EventTypes /\ \A d \in Chan : Records(d)
  BY DEF EventsInv
<1>2. EventTypes'
  BY <1>1 DEF EventTypes, Chronicle
<1>3. ASSUME NEW d \in Chan PROVE Records(d)'
  BY <1>1, <1>3 DEF Records, RowsAreEvents, EventsAreRows
<1> QED
  BY <1>2, <1>3 DEF EventsInv

(* The channels that are asked for are channels.                              *)
LEMMA InOrderIsOfIt ==
    ASSUME NEW C, IsFiniteSet(C)
    PROVE  InOrder(C) \in Seq(C)
<1>1. Cardinality(C) \in Nat
  BY FS_CardinalityType
<1>2. ExistsBijection(1..Cardinality(C), C)
  BY FS_NatBijection, FS_CardinalityType
<1>3. PICK s : s \in Bijection(1..Cardinality(C), C)
  BY <1>2 DEF ExistsBijection
<1>4. s \in [1..Cardinality(C) -> C] /\ \A c \in C : \E k \in DOMAIN s : s[k] = c
  BY <1>3 DEF Bijection, Injection, Surjection
<1>5. InOrder(C) \in [1..Cardinality(C) -> C]
  BY <1>4 DEF InOrder
<1> QED
  BY <1>1, <1>5

LEMMA AskingEventsInv ==
    ASSUME EventsInv,
           \/ srvx_response_lack
           \/ srvx_response_cancelled
           \/ chanserv_fetch_events
           \/ chanserv_events_db_write
           \/ \E c \in Chan : cmod_enabled(c)
    PROVE  EventsInv'
<1>1. EventTypes
  BY DEF EventsInv
<1>2. /\ enabled \subseteq Chan /\ IsFiniteSet(enabled) /\ deleted \subseteq Chan /\ deleted \cap enabled = {}
      /\ last_events \in [Chan -> Nat] /\ last_event_ts \in [Chan -> Nat] /\ fetches \in Seq(Chan)
      /\ breaks \in Nat /\ conn \in Conns
  BY <1>1 DEF EventTypes
<1>3. CASE srvx_response_lack
  <2>1. /\ fetches # <<>> /\ fetches' = Tail(fetches) /\ enabled' = enabled \ {Head(fetches)}
        /\ last_event_ts' = [last_event_ts EXCEPT ![Head(fetches)] = last_events[Head(fetches)]]
        /\ UNCHANGED <<event_table, listed, last_events, rows, deleted, marks, breaks, conn>>
    BY <1>3 DEF srvx_response_lack
  <2>2. Head(fetches) \in Chan /\ fetches' \in Seq(Chan)
    BY <1>2, <2>1
  <2>3. last_event_ts' \in [Chan -> Nat]
    BY <1>2, <2>1, <2>2
  <2>4. IsFiniteSet(enabled') /\ enabled' \subseteq Chan /\ deleted' \cap enabled' = {}
    BY <1>2, <2>1, FS_Subset
  <2> QED
    BY <1>2, <2>1, <2>2, <2>3, <2>4, AsideEventsInv
<1>4. CASE srvx_response_cancelled
  <2>1. PICK kept \in 0..(Len(fetches) - 1) : fetches' = SubSeq(fetches, 1, kept)
    BY <1>4 DEF srvx_response_cancelled
  <2>2. UNCHANGED <<event_table, listed, enabled, last_events, last_event_ts, rows, deleted, marks, breaks, conn>>
    BY <1>4 DEF srvx_response_cancelled
  <2>3. fetches' \in Seq(Chan)
    <3>1. PICK n \in Nat : n = Len(fetches)
      BY <1>2
    <3>2. kept \in Nat /\ kept <= n
      BY <2>1, <3>1
    <3> QED
      BY <1>2, <2>1, <3>1, <3>2, SubSeqProperties
  <2> QED
    BY <1>2, <2>2, <2>3, AsideEventsInv
<1>5. CASE chanserv_fetch_events
  <2>1. /\ fetches' = fetches \o InOrder(enabled)
        /\ UNCHANGED <<event_table, listed, enabled, last_events, last_event_ts, rows, deleted, marks, breaks, conn>>
    BY <1>5 DEF chanserv_fetch_events
  <2>2. InOrder(enabled) \in Seq(Chan)
    <3>1. InOrder(enabled) \in Seq(enabled)
      BY <1>2, InOrderIsOfIt
    <3> QED
      BY <1>2, <3>1
  <2>3. fetches' \in Seq(Chan)
    BY <1>2, <2>1, <2>2
  <2> QED
    BY <1>2, <2>1, <2>3, AsideEventsInv
<1>6. CASE chanserv_events_db_write
  <2>1. /\ last_event_ts' = [c \in Chan |-> IF c \in enabled THEN last_events[c] ELSE last_event_ts[c]]
        /\ UNCHANGED <<event_table, listed, enabled, last_events, fetches, rows, deleted, marks, breaks, conn>>
    BY <1>6 DEF chanserv_events_db_write
  <2>2. last_event_ts' \in [Chan -> Nat]
    BY <1>2, <2>1
  <2> QED
    BY <1>2, <2>1, <2>2, AsideEventsInv
<1>7. ASSUME NEW c \in Chan, cmod_enabled(c) PROVE EventsInv'
  <2>1. /\ enabled' = enabled \cup {c} /\ fetches' = Append(fetches, c) /\ deleted' = deleted \ {c}
        /\ UNCHANGED <<event_table, listed, last_events, last_event_ts, rows, marks, breaks, conn>>
    BY <1>7 DEF cmod_enabled
  <2>2. IsFiniteSet(enabled') /\ enabled' \subseteq Chan /\ deleted' \cap enabled' = {}
    BY <1>2, <2>1, FS_AddElement
  <2>3. fetches' \in Seq(Chan)
    BY <1>2, <2>1
  <2> QED
    BY <1>2, <2>1, <2>2, <2>3, AsideEventsInv
<1> QED
  BY <1>3, <1>5, <1>6, <1>7, <1>4

\* The module is disabled in a channel.
LEMMA DisabledEventsInv ==
    ASSUME EventsInv, NEW c \in Chan, NEW delete_data \in BOOLEAN, cmod_disabled(c, delete_data)
    PROVE  EventsInv'
<1>1. EventTypes /\ \A d \in Chan : Records(d)
  BY DEF EventsInv
<1>2. /\ enabled \subseteq Chan /\ IsFiniteSet(enabled) /\ deleted \subseteq Chan /\ deleted \cap enabled = {}
      /\ last_events \in [Chan -> Nat] /\ last_event_ts \in [Chan -> Nat] /\ fetches \in Seq(Chan)
      /\ breaks \in Nat /\ conn \in Conns
      /\ rows \in [Chan -> [1..MaxEvent -> Nat]] /\ marks \in [Chan -> SUBSET EventMark]
      /\ listed \in [Chan -> Seq(Event)] /\ \A d \in Chan : Chronicle(listed[d])
  BY <1>1 DEF EventTypes
<1>3. /\ c \in enabled /\ enabled' = enabled \ {c} /\ UNCHANGED <<event_table, listed, fetches>>
      /\ IsFiniteSet(enabled') /\ enabled' \subseteq Chan
  BY <1>2, FS_Subset DEF cmod_disabled
<1>4. CASE ~delete_data
  <2>1. /\ last_event_ts' = [last_event_ts EXCEPT ![c] = last_events[c]]
        /\ UNCHANGED <<deleted, rows, marks, last_events, conn, breaks>>
    BY <1>4 DEF cmod_disabled
  <2>2. last_event_ts' \in [Chan -> Nat]
    BY <1>2, <2>1
  <2>3. deleted' \cap enabled' = {}
    BY <1>2, <1>3, <2>1
  <2> QED
    BY <1>2, <1>3, <2>1, <2>2, <2>3, AsideEventsInv
<1>5. CASE delete_data
  <2>1. last_event_ts' = [last_event_ts EXCEPT ![c] = 0] /\ deleted' = deleted \cup {c}
    BY <1>5 DEF cmod_disabled
  <2>2. last_event_ts' \in [Chan -> Nat] /\ deleted' \subseteq Chan /\ deleted' \cap enabled' = {}
    BY <1>2, <1>3, <2>1
  <2>3. CASE ~event_table
    <3>1. UNCHANGED <<rows, marks, last_events, conn, breaks>>
      BY <1>5, <2>3 DEF cmod_disabled
    <3>2. EventTypes'
      BY <1>1, <1>2, <1>3, <2>2, <3>1 DEF EventTypes, Chronicle
    <3>3. ASSUME NEW d \in Chan PROVE Records(d)'
      <4>1. \A i \in 1..MaxEvent : rows[d][i] = 0
        BY <1>1, <2>3 DEF Records, RowsAreEvents
      <4> QED
        BY <1>1, <1>3, <3>1, <4>1 DEF Records, RowsAreEvents, EventsAreRows
    <3> QED
      BY <3>2, <3>3 DEF EventsInv
  <2>4. CASE event_table
    <3>1. PICK o \in do_row_drop(conn) :
                       /\ conn' = o.conn
                       /\ breaks' = IF o.ok THEN breaks ELSE breaks + 1
                       /\ rows' = IF o.done THEN [rows EXCEPT ![c] = NoRows] ELSE rows
                       /\ marks' = [marks EXCEPT ![c] = IF o.done THEN {} ELSE @ \cup {"kept"}]
                       /\ last_events' = [last_events EXCEPT ![c] = 0]
      BY <1>5, <2>4 DEF cmod_disabled
    <3>2. o.conn \in Conns /\ o.done \in BOOLEAN
      BY <1>2, Statements
    <3>3. NoRows \in [1..MaxEvent -> Nat] /\ \A i \in 1..MaxEvent : NoRows[i] = 0
      BY DEF NoRows
    <3>4. PICK m : m = IF o.done THEN {} ELSE marks[c] \cup {"kept"}
      OBVIOUS
    <3>5. m \in SUBSET EventMark /\ (~o.done => "kept" \in m)
      BY <1>2, <3>2, <3>4 DEF EventMark
    <3>6. /\ rows'[c] = (IF o.done THEN NoRows ELSE rows[c]) /\ marks'[c] = m /\ last_events'[c] = 0
          /\ \A d \in Chan : d # c => last_events'[d] = last_events[d] /\ rows'[d] = rows[d] /\ marks'[d] = marks[d]
      BY <1>2, <3>1, <3>4
    <3>7. EventTypes'
      <4>1. rows' \in [Chan -> [1..MaxEvent -> Nat]]
        BY <1>2, <3>1, <3>3
      <4>2. marks' \in [Chan -> SUBSET EventMark]
        BY <1>2, <3>1, <3>4, <3>5
      <4>3. last_events' \in [Chan -> Nat] /\ breaks' \in Nat /\ conn' \in Conns
        BY <1>2, <3>1, <3>2
      <4> QED
        BY <1>1, <1>2, <1>3, <2>2, <4>1, <4>2, <4>3 DEF EventTypes, Chronicle
    <3>8. ASSUME NEW d \in Chan, d # c PROVE Records(d)'
      BY <1>1, <1>3, <2>1, <3>6, <3>8 DEF Records, RowsAreEvents, EventsAreRows
    <3>9. Records(c)'
      <4>1. \A j \in DOMAIN listed[c] : ~(listed[c][j].stamp <= 0)
        <5>1. \A j \in DOMAIN listed[c] : listed[c][j] \in Event
          BY <1>2
        <5>2. \A x \in Event : ~(x.stamp <= 0)
          BY DEF Event
        <5> QED
          BY <5>1, <5>2
      <4>2. EventsAreRows(listed[c], last_events[c], rows[c], marks[c])'
        BY <1>3, <3>6, <4>1 DEF EventsAreRows
      <4>3. CASE o.done
        <5>1. \A i \in 1..MaxEvent : rows'[c][i] = 0
          BY <3>3, <3>6, <4>3
        <5>2. RowsAreEvents(listed[c], last_events[c], rows[c], marks[c])'
          BY <5>1 DEF RowsAreEvents
        <5> QED
          BY <4>2, <5>1, <5>2 DEF Records
      <4>4. CASE ~o.done
        <5>1. "kept" \in marks'[c] /\ rows'[c] = rows[c]
          BY <3>5, <3>6, <4>4
        <5>2. RowsAreEvents(listed[c], last_events[c], rows[c], marks[c])'
          BY <1>1, <1>3, <5>1 DEF Records, RowsAreEvents
        <5> QED
          BY <4>2, <5>1, <5>2 DEF Records
      <4> QED
        BY <4>3, <4>4
    <3> QED
      BY <3>7, <3>8, <3>9 DEF EventsInv
  <2> QED
    BY <2>3, <2>4
<1> QED
  BY <1>4, <1>5

\* The bot ends without saving and starts again.
LEMMA CrashEventsInv == EventsInv /\ Crash => EventsInv'
<1> SUFFICES ASSUME EventsInv, Crash PROVE EventsInv'
  OBVIOUS
<1>1. EventTypes /\ \A d \in Chan : Records(d)
  BY DEF EventsInv
<1>2. /\ breaks' = breaks + 1 /\ fetches' = <<>> /\ last_events' = last_event_ts
      /\ marks' = [c \in Chan |-> IF last_events[c] # last_event_ts[c] THEN marks[c] \cup {"crash"} ELSE marks[c]]
      /\ UNCHANGED <<event_table, listed, enabled, last_event_ts, rows, deleted, conn>>
  BY DEF Crash
<1>3. EventTypes'
  <2>1. marks' \in [Chan -> SUBSET EventMark]
    BY <1>1, <1>2 DEF EventTypes, EventMark
  <2>2. fetches' \in Seq(Chan) /\ breaks' \in Nat
    BY <1>1, <1>2 DEF EventTypes
  <2> QED
    BY <1>1, <1>2, <2>1, <2>2 DEF EventTypes, Chronicle
<1>4. ASSUME NEW d \in Chan PROVE Records(d)'
  <2>1. CASE last_events[d] = last_event_ts[d]
    <3>1. last_events'[d] = last_events[d] /\ marks'[d] = marks[d]
      BY <1>2, <2>1
    <3> QED
      BY <1>1, <1>2, <3>1 DEF Records, RowsAreEvents, EventsAreRows
  <2>2. CASE last_events[d] # last_event_ts[d]
    <3>1. "crash" \in marks'[d] /\ marks'[d] = marks[d] \cup {"crash"}
      BY <1>2, <2>2
    <3>2. RowsAreEvents(listed[d], last_events[d], rows[d], marks[d])'
      BY <1>1, <1>2, <3>1 DEF Records, RowsAreEvents
    <3>3. EventsAreRows(listed[d], last_events[d], rows[d], marks[d])'
      BY <3>1 DEF EventsAreRows, Missed
    <3>4. marks'[d] \cap {"kept", "late"} = marks[d] \cap {"kept", "late"}
      BY <3>1
    <3> QED
      BY <1>1, <1>2, <3>2, <3>3, <3>4 DEF Records
  <2> QED
    BY <2>1, <2>2
<1> QED
  BY <1>3, <1>4 DEF EventsInv

(* Every step keeps the records.                                              *)
LEMMA EventsNextInv == EventsInv /\ [eventNext]_eventVars => EventsInv'
<1> SUFFICES ASSUME EventsInv, [eventNext]_eventVars PROVE EventsInv'
  OBVIOUS
<1>1. CASE UNCHANGED eventVars
  BY <1>1, AsideEventsInv DEF eventVars, EventsInv, EventTypes
<1>2. CASE \E c \in Chan : ChanServLogs(c)
  BY <1>2, LogsEventsInv
<1>3. CASE \E c \in Chan : \E d \in BOOLEAN : cmod_disabled(c, d)
  BY <1>3, DisabledEventsInv
<1>4. CASE \/ srvx_response_lack
           \/ srvx_response_cancelled
           \/ chanserv_fetch_events
           \/ chanserv_events_db_write
           \/ \E c \in Chan : cmod_enabled(c)
  BY <1>4, AskingEventsInv
<1>5. CASE srvx_response_events
  BY <1>5, AnswerEventsInv
<1>6. CASE Crash
  BY <1>6, CrashEventsInv
<1> QED
  BY <1>1, <1>2, <1>3, <1>4, <1>5, <1>6 DEF eventNext

\* The invariant says what EventsSound says.
LEMMA EventsInvImpliesSound == EventsInv => EventsSound
<1> SUFFICES ASSUME EventsInv PROVE EventsSound
  OBVIOUS
<1>1. EventTypes /\ \A c \in Chan : Records(c)
  BY DEF EventsInv
<1>2. StoredOnce
  BY <1>1 DEF Records, RowsAreEvents, StoredOnce
<1>3. StoredAll
  <2> SUFFICES ASSUME NEW c \in Chan
               PROVE  /\ event_table /\ marks[c] \cap {"failed", "same", "window", "crash"} = {} =>
                            \A i \in Foreign(c) : listed[c][i].stamp <= last_events[c] => rows[c][i] > 0
                      /\ \A i \in 1..MaxEvent : rows[c][i] > 0 => i \in Foreign(c)
    BY DEF StoredAll
  <2>1. RowsAreEvents(listed[c], last_events[c], rows[c], marks[c]) /\ EventsAreRows(listed[c], last_events[c], rows[c], marks[c])
    BY <1>1 DEF Records
  <2>2. \A i \in 1..MaxEvent : rows[c][i] > 0 => i \in Foreign(c)
    BY <2>1 DEF RowsAreEvents, Foreign
  <2>3. event_table /\ marks[c] \cap {"failed", "same", "window", "crash"} = {} =>
            \A i \in Foreign(c) : listed[c][i].stamp <= last_events[c] => rows[c][i] > 0
    BY <2>1 DEF EventsAreRows, Foreign, Missed
  <2> QED
    BY <2>2, <2>3
<1>4. DeletedGone
  <2> SUFFICES ASSUME NEW c \in deleted, marks[c] \cap {"kept", "late"} = {} PROVE rows[c] = NoRows
    BY DEF DeletedGone
  <2>1. c \in Chan /\ rows[c] \in [1..MaxEvent -> Nat]
    BY <1>1 DEF EventTypes
  <2>2. \A i \in 1..MaxEvent : rows[c][i] = 0
    BY <1>1, <2>1 DEF Records
  <2>3. \A f \in [1..MaxEvent -> Nat] : (\A i \in 1..MaxEvent : f[i] = 0) => f = [i \in 1..MaxEvent |-> 0]
    OBVIOUS
  <2> QED
    BY <2>1, <2>2, <2>3 DEF NoRows
<1> QED
  BY <1>2, <1>3, <1>4 DEF EventsSound

(***************************************************************************)
(* ChanservUsers.                                                          *)
(***************************************************************************)

\* An account in both lists of an entry.
InEntry(e, a) == Has(e.users, a) + Has(e.tmp_users, a)

\* How often the entries of s name it: there are at most two.
Count(s, a) == IF s = <<>> THEN 0 ELSE IF Len(s) = 1 THEN InEntry(s[1], a) ELSE InEntry(s[1], a) + InEntry(s[2], a)

Slips == {"left", "twice", "dropped", "unsynced"}

UsersTypes ==
    /\ channel \in {"out", "burst", "in"} /\ chanserv \in BOOLEAN
    /\ cschans \in Seq(Cschan) /\ Len(cschans) <= 2
    /\ online \subseteq Nick
    /\ responses \in Seq({"users", "names"})
    /\ slips \subseteq Slips

\* Accounts are counted right, and only those that count have users, who are online.
Counts ==
    /\ refcount = [a \in Account |-> Count(cschans, a)]
    /\ irc_users \in [Account -> SUBSET online]
    /\ \A a \in Account : irc_users[a] # {} => refcount[a] > 0

\* One entry, with the response that its lists wait for.
Filling ==
    slips = {} =>
        /\ ~crashed
        /\ Len(cschans) <= 1
        /\ cschans # <<>> => channel # "out" /\ chanserv
        /\ IF cschans = <<>> \/ Head(cschans).tmp_users = NOLIST THEN responses = <<>>
           ELSE responses = IF Head(cschans).tmp_users = {} THEN <<"users">> ELSE <<"names">>

ListsInv == UsersTypes /\ Counts /\ Filling

(* No list of accounts is NULL.                                               *)
LEMMA NoList ==
    /\ NOLIST \notin SUBSET Account /\ NOLIST # {}
    /\ {} \in (SUBSET Account) \cup {NOLIST} /\ NOLIST \in (SUBSET Account) \cup {NOLIST}
    /\ \A l \in (SUBSET Account) \cup {NOLIST}, a \in Account : Has(l, a) \in {0, 1} /\ (l \in {NOLIST, {}} => Has(l, a) = 0)
<1>1. NOLIST \notin SUBSET Account /\ NOLIST # {}
  BY ChanservUsersAssumption DEF NOLIST
<1>2. {} \in SUBSET Account
  OBVIOUS
<1>3. {} \in (SUBSET Account) \cup {NOLIST} /\ NOLIST \in (SUBSET Account) \cup {NOLIST}
  <2>1. {} \in (SUBSET Account) \cup {NOLIST}
    BY <1>2, Zenon
  <2>2. NOLIST \in (SUBSET Account) \cup {NOLIST}
    BY Zenon
  <2>3. QED
    BY <2>1, <2>2
<1>4. \A l \in (SUBSET Account) \cup {NOLIST}, a \in Account : Has(l, a) \in {0, 1} /\ (l \in {NOLIST, {}} => Has(l, a) = 0)
  BY DEF Has
<1>5. QED
  BY <1>1, <1>3, <1>4

LEMMA EntryCounts ==
    ASSUME NEW e \in Cschan, NEW a \in Account
    PROVE  Has(e.users, a) \in {0, 1} /\ Has(e.tmp_users, a) \in {0, 1} /\ InEntry(e, a) \in 0..2
<1>1. e.users \in (SUBSET Account) \cup {NOLIST} /\ e.tmp_users \in (SUBSET Account) \cup {NOLIST}
  BY DEF Cschan
<1>2. Has(e.users, a) \in {0, 1} /\ Has(e.tmp_users, a) \in {0, 1}
  BY <1>1, NoList
<1>3. QED
  BY <1>2 DEF InEntry

(* The entries of a sequence of at most two.                                  *)
LEMMA Short ==
    ASSUME NEW s \in Seq(Cschan), Len(s) <= 2
    PROVE  /\ Len(s) \in {0, 1, 2}
           /\ s = <<>> <=> Len(s) = 0
           /\ s # <<>> => s[1] \in Cschan /\ Head(s) = s[1]
           /\ Len(s) = 2 => s[2] \in Cschan
           /\ Len(s) = 1 => Tail(s) = <<>>
           /\ Len(s) = 2 => Len(Tail(s)) = 1 /\ Tail(s)[1] = s[2]
           /\ s # <<>> => Tail(s) \in Seq(Cschan) /\ Len(Tail(s)) = Len(s) - 1
<1>1. PICK n \in Nat : n = Len(s)
  OBVIOUS
<1>2. n \in {0, 1, 2}
  BY <1>1
<1>3. s = <<>> <=> Len(s) = 0
  OBVIOUS
<1>4. s # <<>> => s[1] \in Cschan /\ Head(s) = s[1]
  BY <1>1, <1>2, <1>3
<1>5. Len(s) = 2 => s[2] \in Cschan
  BY <1>1
<1>6. s # <<>> => Tail(s) \in Seq(Cschan) /\ Len(Tail(s)) = Len(s) - 1
  OBVIOUS
<1>7. Len(s) = 1 => Tail(s) = <<>>
  <2>1. Len(s) = 1 => Tail(s) \in Seq(Cschan) /\ Len(Tail(s)) = 0
    BY <1>3, <1>6
  <2>2. \A r \in Seq(Cschan) : Len(r) = 0 => r = <<>>
    OBVIOUS
  <2>3. QED
    BY <2>1, <2>2
<1>8. Len(s) = 2 => Len(Tail(s)) = 1 /\ Tail(s)[1] = s[2]
  <2>1. ASSUME Len(s) = 2 PROVE Len(Tail(s)) = 1 /\ Tail(s)[1] = s[2]
    <3>1. s # <<>> /\ Len(Tail(s)) = 1
      BY <2>1, <1>3, <1>6
    <3>2. \A i \in 1..Len(Tail(s)) : Tail(s)[i] = s[i + 1]
      BY <3>1, HeadTailProperties
    <3>3. QED
      BY <3>1, <3>2
  <2>2. QED
    BY <2>1
<1>9. QED
  BY <1>1, <1>2, <1>3, <1>4, <1>5, <1>6, <1>7, <1>8

LEMMA NotEmpty ==
    ASSUME NEW s \in Seq(Cschan), Len(s) <= 2
    PROVE  /\ Len(s) \in {1, 2} <=> s # <<>>
           /\ s # <<>> => s[1] \in Cschan
<1>1. PICK n \in Nat : n = Len(s)
  OBVIOUS
<1>2. s # <<>> => n >= 1
  BY <1>1
<1>3. s = <<>> => n = 0
  BY <1>1
<1>4. n \in {1, 2} <=> s # <<>>
  BY <1>1, <1>2, <1>3
<1>5. n >= 1 => s[1] \in Cschan
  BY <1>1
<1>6. QED
  BY <1>1, <1>2, <1>4, <1>5

LEMMA CountIsNat ==
    ASSUME NEW s \in Seq(Cschan), Len(s) <= 2, NEW a \in Account
    PROVE  /\ Count(s, a) \in Nat
           /\ s # <<>> => Count(Tail(s), a) = Count(s, a) - InEntry(s[1], a)
<1>1. \A e \in Cschan : InEntry(e, a) \in 0..2
  BY EntryCounts
<1>2. CASE Len(s) = 0
  BY <1>2, Short DEF Count
<1>3. CASE Len(s) = 1
  <2>1. s # <<>> /\ s[1] \in Cschan
    BY <1>3, NotEmpty
  <2>4. Tail(s) = <<>>
    BY <1>3, Short
  <2>2. Count(s, a) = InEntry(s[1], a) /\ Count(Tail(s), a) = 0
    BY <1>3, <2>1, <2>4 DEF Count
  <2>3. QED
    BY <1>1, <2>1, <2>4, <2>2
<1>4. CASE Len(s) = 2
  <2>1. s # <<>> /\ s[1] \in Cschan /\ s[2] \in Cschan
    BY <1>4, NotEmpty, Short
  <2>2. Len(Tail(s)) = 1 /\ Tail(s)[1] = s[2]
    BY <1>4, Short
  <2>5. Tail(s) # <<>>
    BY <2>2
  <2>3. Count(s, a) = InEntry(s[1], a) + InEntry(s[2], a) /\ Count(Tail(s), a) = InEntry(s[2], a)
    BY <1>4, <2>1, <2>2, <2>5 DEF Count
  <2>4. QED
    BY <1>1, <2>1, <2>3
<1>5. QED
  BY <1>2, <1>3, <1>4, Short

\* t is s with another first entry.
Replaced(s, e, t) == /\ t \in Seq(Cschan) /\ Len(t) = Len(s) /\ t # <<>> /\ Head(t) = e /\ t[1] = e
                     /\ Len(s) = 2 => t[2] = s[2]

LEMMA ReplacedFirst ==
    ASSUME NEW s \in Seq(Cschan), Len(s) <= 2, s # <<>>, NEW e \in Cschan
    PROVE  Replaced(s, e, [s EXCEPT ![1] = e])
<1> DEFINE t == [s EXCEPT ![1] = e]
<1>1. t \in Seq(Cschan) /\ Len(t) = Len(s)
  OBVIOUS
<1>2. t[1] = e /\ (Len(s) = 2 => t[2] = s[2])
  BY Short
<1>3. t # <<>>
  BY <1>1, Short
<1>4. Head(t) = t[1]
  BY <1>1, <1>3
<1> HIDE DEF t
<1>5. Replaced(s, e, t)
  BY <1>1, <1>2, <1>3, <1>4 DEF Replaced
<1> USE DEF t
<1>6. QED
  BY <1>5

(* What an exchange of the first entry does to the counts.                    *)
LEMMA CountChanges ==
    ASSUME NEW s \in Seq(Cschan), Len(s) <= 2, s # <<>>, NEW e \in Cschan, NEW t, Replaced(s, e, t), NEW a \in Account
    PROVE  Count(t, a) = Count(s, a) - InEntry(s[1], a) + InEntry(e, a)
<1>1. InEntry(s[1], a) \in 0..2 /\ InEntry(e, a) \in 0..2 /\ (Len(s) = 2 => InEntry(s[2], a) \in 0..2)
  <2>1. \A x \in Cschan : InEntry(x, a) \in 0..2
    BY EntryCounts
  <2>2. s[1] \in Cschan /\ (Len(s) = 2 => s[2] \in Cschan)
    BY Short
  <2>3. QED
    BY <2>1, <2>2
<1>2. t # <<>> /\ Len(t) = Len(s) /\ t[1] = e /\ (Len(s) = 2 => t[2] = s[2])
  BY DEF Replaced
<1>3. CASE Len(s) = 1
  <2>1. Count(s, a) = InEntry(s[1], a) /\ Count(t, a) = InEntry(e, a)
    BY <1>2, <1>3 DEF Count
  <2>2. QED
    BY <1>1, <2>1
<1>4. CASE Len(s) = 2
  <2>1. /\ Count(s, a) = InEntry(s[1], a) + InEntry(s[2], a)
        /\ Count(t, a) = InEntry(e, a) + InEntry(s[2], a)
    BY <1>2, <1>4 DEF Count
  <2>2. QED
    BY <1>1, <1>4, <2>1
<1>5. QED
  BY <1>3, <1>4, NotEmpty

(* Nothing is tracked at first.                                               *)
LEMMA ListsInitInv == csInit => ListsInv
<1> SUFFICES ASSUME csInit PROVE ListsInv
  OBVIOUS
<1>1. UsersTypes
  <2>1. channel = "in" /\ chanserv = FALSE /\ cschans = <<>> /\ online = Nick /\ responses = <<>> /\ slips = {}
    BY DEF csInit
  <2>2. cschans \in Seq(Cschan) /\ Len(cschans) <= 2
    BY <2>1
  <2>3. responses \in Seq({"users", "names"})
    BY <2>1
  <2>4. QED
    BY <2>1, <2>2, <2>3 DEF UsersTypes
<1>2. Counts
  BY DEF csInit, Counts, Count
<1>3. Filling
  BY DEF csInit, Filling
<1>4. QED
  BY <1>1, <1>2, <1>3 DEF ListsInv

(* A new entry has no accounts yet and waits for them.                        *)
LEMMA AddedEntry ==
    ASSUME UsersTypes, cschan_add
    PROVE  /\ cschans' \in Seq(Cschan) /\ Len(cschans') = Len(cschans) + 1 /\ Len(cschans') <= 2 /\ Len(cschans) \in {0, 1}
           /\ cschans' # <<>> /\ Head(cschans') = [users |-> NOLIST, tmp_users |-> {}]
           /\ \A a \in Account : Count(cschans', a) = Count(cschans, a)
           /\ responses' = Append(responses, "users")
<1> DEFINE e == [users |-> NOLIST, tmp_users |-> NOLIST]
           n == [users |-> NOLIST, tmp_users |-> {}]
           s == <<e>> \o cschans
<1>1. cschans \in Seq(Cschan) /\ responses \in Seq({"users", "names"}) /\ Len(cschans) < 2
  BY DEF UsersTypes, cschan_add
<1>2. e \in Cschan /\ n \in Cschan
  BY NoList DEF Cschan
<1>3. s \in Seq(Cschan) /\ Len(s) = Len(cschans) + 1 /\ s[1] = e /\ (Len(s) = 2 => s[2] = cschans[1])
  BY <1>1, <1>2
<1>4. [e EXCEPT !.tmp_users = {}] = n
  OBVIOUS
<1>5. e.tmp_users = NOLIST
  OBVIOUS
<1> HIDE DEF e, n, s
<1>6. cschans' = [s EXCEPT ![1] = n] /\ responses' = responses \o <<"users">>
  <2>1. chanserv_fetch_users(s) = [cs |-> [s EXCEPT ![1].tmp_users = {}], ask |-> <<"users">>]
    BY <1>3, <1>5 DEF chanserv_fetch_users
  <2>2. [s EXCEPT ![1].tmp_users = {}] = [s EXCEPT ![1] = n]
    BY <1>3, <1>4
  <2>3. cschans' = chanserv_fetch_users(s).cs /\ responses' = responses \o chanserv_fetch_users(s).ask
    BY DEF cschan_add, s, e
  <2>4. QED
    BY <2>1, <2>2, <2>3
<1>7. Len(s) <= 2 /\ s # <<>> /\ Len(cschans) \in {0, 1}
  <2>1. PICK k \in Nat : k = Len(cschans)
    BY <1>1
  <2>2. k \in {0, 1}
    BY <1>1, <2>1
  <2>3. Len(s) <= 2 /\ Len(s) # 0
    BY <1>3, <2>1, <2>2
  <2>4. QED
    BY <1>3, <2>1, <2>2, <2>3
<1>8. /\ cschans' \in Seq(Cschan) /\ Len(cschans') = Len(s) /\ cschans' # <<>> /\ Head(cschans') = n
      /\ \A a \in Account : Count(cschans', a) = Count(s, a) - InEntry(s[1], a) + InEntry(n, a)
  <2>1. Replaced(s, n, cschans')
    BY <1>2, <1>3, <1>6, <1>7, ReplacedFirst
  <2>2. \A a \in Account : Count(cschans', a) = Count(s, a) - InEntry(s[1], a) + InEntry(n, a)
    BY <1>2, <1>3, <1>7, <2>1, CountChanges
  <2>3. QED
    BY <2>1, <2>2 DEF Replaced
<1>9. \A a \in Account : InEntry(e, a) = 0 /\ InEntry(n, a) = 0
  <2> SUFFICES ASSUME NEW a \in Account PROVE InEntry(e, a) = 0 /\ InEntry(n, a) = 0
    OBVIOUS
  <2>1. Has(NOLIST, a) = 0 /\ Has({}, a) = 0
    BY DEF Has
  <2>2. e.users = NOLIST /\ e.tmp_users = NOLIST /\ n.users = NOLIST /\ n.tmp_users = {}
    BY DEF e, n
  <2>3. QED
    BY <2>1, <2>2 DEF InEntry
<1>10. ASSUME NEW a \in Account PROVE Count(s, a) = Count(cschans, a)
  <2>1. CASE Len(cschans) = 0
    <3>1. cschans = <<>>
      BY <1>1, <2>1
    <3>2. Len(s) = 1
      BY <1>3, <2>1
    <3>3. QED
      BY <1>3, <1>7, <1>9, <3>1, <3>2 DEF Count
  <2>2. CASE Len(cschans) = 1
    <3>1. cschans # <<>> /\ cschans[1] \in Cschan
      BY <1>1, <2>2
    <3>2. Len(s) = 2
      BY <1>3, <2>2
    <3>3. InEntry(cschans[1], a) \in 0..2
      BY <3>1, EntryCounts
    <3>4. Count(s, a) = InEntry(s[1], a) + InEntry(s[2], a) /\ Count(cschans, a) = InEntry(cschans[1], a)
      BY <1>7, <2>2, <3>1, <3>2 DEF Count
    <3>5. s[1] = e /\ s[2] = cschans[1] /\ InEntry(e, a) = 0
      BY <1>3, <1>9, <3>2
    <3>6. QED
      BY <3>3, <3>4, <3>5
  <2>3. QED
    BY <1>7, <2>1, <2>2
<1>11. \A a \in Account : Count(cschans, a) \in Nat
  BY <1>1, CountIsNat
<1>12. \A a \in Account : Count(cschans', a) = Count(cschans, a)
  BY <1>3, <1>8, <1>9, <1>10, <1>11
<1>13. responses' = Append(responses, "users")
  BY <1>1, <1>6
<1>14. QED
  BY <1>3, <1>7, <1>8, <1>12, <1>13 DEF n

(* ChanServ comes, or the bot: the channel is added.                          *)
LEMMA AddListsInv ==
    ASSUME ListsInv, cschan_add, channel' \in {"burst", "in"}, chanserv' = TRUE,
           channel # "out", chanserv \in BOOLEAN
    PROVE  ListsInv'
<1> DEFINE n == [users |-> NOLIST, tmp_users |-> {}]
<1>1. UsersTypes /\ Counts /\ Filling
  BY DEF ListsInv
<1>2. /\ cschans' \in Seq(Cschan) /\ Len(cschans') = Len(cschans) + 1 /\ Len(cschans') <= 2 /\ Len(cschans) \in {0, 1}
      /\ cschans' # <<>> /\ Head(cschans') = n
      /\ \A a \in Account : Count(cschans', a) = Count(cschans, a)
      /\ responses' = Append(responses, "users")
  BY <1>1, AddedEntry
<1>3. /\ UNCHANGED <<refcount, irc_users, online, crashed>>
      /\ slips' = IF cschans # <<>> THEN slips \cup {"twice"} ELSE slips
  BY DEF cschan_add
<1>4. cschans \in Seq(Cschan) /\ responses \in Seq({"users", "names"}) /\ slips \subseteq Slips
  BY <1>1 DEF UsersTypes
<1>5. UsersTypes'
  <2>1. Len(cschans') <= 2
    BY <1>2
  <2>2. responses' \in Seq({"users", "names"})
    BY <1>2, <1>4
  <2>3. slips' \subseteq Slips
    BY <1>3, <1>4 DEF Slips
  <2>4. online' \subseteq Nick
    BY <1>1, <1>3 DEF UsersTypes
  <2>5. QED
    BY <1>2, <2>1, <2>2, <2>3, <2>4 DEF UsersTypes
<1>6. Counts'
  BY <1>1, <1>2, <1>3 DEF Counts
<1>7. Filling'
  <2> SUFFICES ASSUME slips' = {} PROVE /\ ~crashed' /\ Len(cschans') <= 1 /\ channel' # "out" /\ chanserv'
                                        /\ Head(cschans').tmp_users = {} /\ responses' = <<"users">>
    BY <1>2, NoList DEF Filling
  <2>1. cschans = <<>> /\ slips = {}
    BY <1>3
  <2>2. ~crashed /\ responses = <<>>
    BY <1>1, <2>1 DEF Filling
  <2>3. Len(cschans') = 1
    BY <1>2, <2>1
  <2>4. responses' = <<"users">>
    BY <1>2, <2>2
  <2>5. QED
    BY <1>2, <1>3, <2>2, <2>3, <2>4
<1>8. QED
  BY <1>5, <1>6, <1>7 DEF ListsInv

(* What cschan_del takes away.                                                *)
LEMMA DeletedEntry ==
    ASSUME UsersTypes, Counts, cschan_del
    PROVE  /\ cschans' \in Seq(Cschan) /\ Len(cschans') <= 1 /\ (Len(cschans) <= 1 => cschans' = <<>>)
           /\ refcount' = [a \in Account |-> Count(cschans', a)]
           /\ \A a \in Account : refcount'[a] <= refcount[a]
           /\ irc_users' = [a \in Account |-> IF refcount'[a] = 0 THEN {} ELSE irc_users[a]]
<1>1. cschans \in Seq(Cschan) /\ Len(cschans) <= 2 /\ refcount = [a \in Account |-> Count(cschans, a)]
      /\ irc_users \in [Account -> SUBSET online] /\ \A a \in Account : irc_users[a] # {} => refcount[a] > 0
  BY DEF UsersTypes, Counts
<1>2. CASE cschans = <<>>
  <2>1. cschans' = <<>> /\ UNCHANGED <<refcount, irc_users>>
    BY <1>2 DEF cschan_del
  <2>2. \A a \in Account : refcount[a] = 0
    BY <1>1, <1>2 DEF Count
  <2>3. irc_users = [a \in Account |-> IF refcount'[a] = 0 THEN {} ELSE irc_users[a]]
    BY <1>1, <2>1, <2>2
  <2>4. cschans' \in Seq(Cschan) /\ Len(cschans') = 0
    BY <2>1
  <2>5. refcount' = [a \in Account |-> Count(cschans', a)]
    BY <1>1, <1>2, <2>1
  <2>6. \A a \in Account : refcount'[a] <= refcount[a]
    BY <2>1, <2>2
  <2>7. QED
    BY <2>1, <2>3, <2>4, <2>5, <2>6
<1>3. CASE cschans # <<>>
  <2>1. /\ cschans' = Tail(cschans)
        /\ refcount' = [a \in Account |-> refcount[a] - Has(Head(cschans).users, a) - Has(Head(cschans).tmp_users, a)]
        /\ irc_users' = [a \in Account |-> IF refcount'[a] = 0 THEN {} ELSE irc_users[a]]
    BY <1>3 DEF cschan_del
  <2>2. cschans[1] \in Cschan /\ Head(cschans) = cschans[1]
    BY <1>1, <1>3, Short
  <2>3. ASSUME NEW a \in Account
        PROVE  refcount'[a] = Count(cschans', a) /\ refcount'[a] <= refcount[a]
    <3>1. Count(cschans, a) \in Nat /\ Count(cschans', a) = Count(cschans, a) - InEntry(cschans[1], a)
      BY <1>1, <1>3, <2>1, CountIsNat
    <3>2. /\ Has(cschans[1].users, a) \in {0, 1} /\ Has(cschans[1].tmp_users, a) \in {0, 1}
          /\ InEntry(cschans[1], a) = Has(cschans[1].users, a) + Has(cschans[1].tmp_users, a)
      BY <2>2, EntryCounts DEF InEntry
    <3>3. refcount'[a] = Count(cschans, a) - Has(cschans[1].users, a) - Has(cschans[1].tmp_users, a)
      BY <1>1, <2>1, <2>2
    <3>4. refcount[a] = Count(cschans, a)
      BY <1>1
    <3>5. QED
      BY <3>1, <3>2, <3>3, <3>4
  <2>4. refcount' = [a \in Account |-> Count(cschans', a)]
    BY <2>1, <2>3
  <2>5. cschans' \in Seq(Cschan) /\ Len(cschans') = Len(cschans) - 1
    BY <1>1, <1>3, <2>1, Short
  <2>6. Len(cschans') <= 1
    BY <1>1, <2>5
  <2>7. ASSUME Len(cschans) <= 1 PROVE cschans' = <<>>
    <3>1. Len(cschans) = 1
      <4>1. Len(cschans) \in {1, 2}
        BY <1>1, <1>3, NotEmpty
      <4>2. QED
        BY <2>7, <4>1
    <3>2. QED
      BY <1>1, <2>1, <3>1, Short
  <2>8. QED
    BY <2>1, <2>3, <2>4, <2>5, <2>6, <2>7
<1>4. QED
  BY <1>2, <1>3

(* ChanServ goes, or the bot: the entry goes, and with it its accounts.       *)
LEMMA DelListsInv ==
    ASSUME ListsInv, cschan_del, channel' \in {"out", "burst", "in"}, chanserv' = FALSE
    PROVE  ListsInv'
<1>1. UsersTypes /\ Counts /\ Filling
  BY DEF ListsInv
<1>2. /\ cschans' \in Seq(Cschan) /\ Len(cschans') <= 1 /\ (Len(cschans) <= 1 => cschans' = <<>>)
      /\ refcount' = [a \in Account |-> Count(cschans', a)]
      /\ \A a \in Account : refcount'[a] <= refcount[a]
      /\ irc_users' = [a \in Account |-> IF refcount'[a] = 0 THEN {} ELSE irc_users[a]]
  BY <1>1, DeletedEntry
<1>3. /\ UNCHANGED <<online, responses, crashed>>
      /\ slips' = IF cschans # <<>> /\ responses # <<>> THEN slips \cup {"left"} ELSE slips
  BY DEF cschan_del
<1>4. UsersTypes'
  <2>1. slips' \subseteq Slips
    BY <1>1, <1>3 DEF UsersTypes, Slips
  <2>2. Len(cschans') <= 2
    BY <1>2
  <2>3. online' \subseteq Nick /\ responses' \in Seq({"users", "names"})
    BY <1>1, <1>3 DEF UsersTypes
  <2>4. QED
    BY <1>2, <2>1, <2>2, <2>3 DEF UsersTypes
<1>5. Counts'
  <2>1. \A a \in Account : refcount'[a] \in Nat
    BY <1>2, CountIsNat
  <2>2. irc_users \in [Account -> SUBSET online]
    BY <1>1 DEF Counts
  <2>3. irc_users' \in [Account -> SUBSET online']
    BY <1>2, <1>3, <2>2
  <2>4. \A a \in Account : irc_users'[a] # {} => refcount'[a] > 0
    BY <1>2, <2>1
  <2>5. QED
    BY <1>2, <2>3, <2>4 DEF Counts
<1>6. Filling'
  <2> SUFFICES ASSUME slips' = {} PROVE ~crashed' /\ cschans' = <<>> /\ responses' = <<>>
    BY <1>2 DEF Filling
  <2>1. slips = {} /\ (cschans = <<>> \/ responses = <<>>)
    BY <1>3
  <2>2. ~crashed /\ Len(cschans) <= 1 /\ (cschans = <<>> => responses = <<>>)
    BY <1>1, <2>1 DEF Filling
  <2>3. QED
    BY <1>2, <1>3, <2>1, <2>2
<1>7. QED
  BY <1>4, <1>5, <1>6 DEF ListsInv

(* Users come and go, and the bot comes without ChanServ.                     *)
LEMMA OnlineListsInv ==
    ASSUME ListsInv,
           \/ \E u \in Nick : user_del_hook(u) \/ user_appears(u)
           \/ bot_joins
           \/ channel = "burst" /\ channel' = "in" /\ UNCHANGED <<chanserv, cschans, refcount, irc_users, online,
                                                                  responses, crashed, slips>>
    PROVE  ListsInv'
<1>1. UsersTypes /\ Counts /\ Filling
  BY DEF ListsInv
<1>2. /\ UNCHANGED <<cschans, refcount, responses, crashed, slips>>
      /\ channel' \in {"burst", "in", channel} /\ chanserv' \in BOOLEAN /\ online' \subseteq Nick
      /\ channel # "out" => chanserv' = chanserv
      /\ channel = "out" /\ channel' = "out" => chanserv' = chanserv
      /\ irc_users' \in [Account -> SUBSET online']
      /\ \A a \in Account : irc_users'[a] \subseteq irc_users[a]
  <2>1. ASSUME NEW u \in Nick, user_del_hook(u) \/ user_appears(u)
        PROVE  /\ UNCHANGED <<channel, chanserv, cschans, refcount, responses, crashed, slips>> /\ online' \subseteq Nick
               /\ irc_users' \in [Account -> SUBSET online'] /\ \A a \in Account : irc_users'[a] \subseteq irc_users[a]
    BY <1>1, <2>1 DEF user_del_hook, user_appears, UsersTypes, Counts
  <2>2. ASSUME bot_joins
        PROVE  /\ UNCHANGED <<cschans, refcount, irc_users, online, responses, crashed, slips>>
               /\ channel = "out" /\ channel' = "burst" /\ chanserv' \in BOOLEAN
    BY <2>2 DEF bot_joins
  <2>3. /\ channel \in {"out", "burst", "in"} /\ chanserv \in BOOLEAN /\ online \subseteq Nick
        /\ irc_users \in [Account -> SUBSET online]
    BY <1>1 DEF UsersTypes, Counts
  <2>4. CASE \E u \in Nick : user_del_hook(u) \/ user_appears(u)
    BY <2>1, <2>3, <2>4
  <2>5. CASE bot_joins
    BY <2>2, <2>3, <2>5
  <2>6. CASE channel = "burst" /\ channel' = "in" /\ UNCHANGED <<chanserv, cschans, refcount, irc_users, online,
                                                                  responses, crashed, slips>>
    BY <2>3, <2>6
  <2>7. QED
    BY <2>4, <2>5, <2>6
<1>3. UsersTypes'
  BY <1>1, <1>2 DEF UsersTypes
<1>4. Counts'
  <2>1. \A a \in Account : irc_users'[a] # {} => irc_users[a] # {}
    BY <1>2
  <2>2. QED
    BY <1>1, <1>2, <2>1 DEF Counts
<1>5. Filling'
  BY <1>1, <1>2 DEF Filling
<1>6. QED
  BY <1>3, <1>4, <1>5 DEF ListsInv

(* The next list is asked for, unless one is being filled.                    *)
LEMMA UpdateListsInv == ListsInv /\ chanserv_update_users => ListsInv'
<1> SUFFICES ASSUME ListsInv, chanserv_update_users PROVE ListsInv'
  OBVIOUS
<1> DEFINE n == [users |-> cschans[1].users, tmp_users |-> {}]
<1>1. UsersTypes /\ Counts /\ Filling
  BY DEF ListsInv
<1>2. cschans \in Seq(Cschan) /\ Len(cschans) <= 2 /\ responses \in Seq({"users", "names"}) /\ cschans # <<>>
  BY <1>1 DEF UsersTypes, chanserv_update_users
<1>3. cschans[1] \in Cschan /\ Head(cschans) = cschans[1]
  BY <1>2, Short
<1>4. UNCHANGED <<channel, chanserv, refcount, irc_users, online, crashed, slips>>
  BY DEF chanserv_update_users
<1>5. CASE cschans[1].tmp_users # NOLIST
  <2>1. chanserv_fetch_users(cschans) = [cs |-> cschans, ask |-> <<>>]
    BY <1>5 DEF chanserv_fetch_users
  <2>2. cschans' = cschans /\ responses' = responses \o <<>>
    BY <2>1 DEF chanserv_update_users
  <2>3. responses' = responses
    BY <1>2, <2>2
  <2>4. QED
    BY <1>4, <2>2, <2>3 DEF ListsInv, UsersTypes, Counts, Filling
<1>6. CASE cschans[1].tmp_users = NOLIST
  <2>1. n \in Cschan
    BY <1>3, NoList DEF Cschan
  <2>2. [cschans EXCEPT ![1].tmp_users = {}] = [cschans EXCEPT ![1] = n]
    <3>1. [cschans[1] EXCEPT !.tmp_users = {}] = n
      BY <1>3 DEF Cschan
    <3>2. QED
      BY <3>1
  <2> HIDE DEF n
  <2>3. chanserv_fetch_users(cschans) = [cs |-> [cschans EXCEPT ![1].tmp_users = {}], ask |-> <<"users">>]
    BY <1>6 DEF chanserv_fetch_users
  <2>4. cschans' = [cschans EXCEPT ![1] = n] /\ responses' = responses \o <<"users">>
    BY <2>2, <2>3 DEF chanserv_update_users
  <2>5. Replaced(cschans, n, cschans')
    BY <1>2, <2>1, <2>4, ReplacedFirst
  <2>6. UsersTypes'
    <3>1. Len(cschans') <= 2 /\ cschans' \in Seq(Cschan)
      BY <1>2, <2>5 DEF Replaced
    <3>2. responses' \in Seq({"users", "names"})
      BY <1>2, <2>4
    <3>3. QED
      BY <1>1, <1>4, <3>1, <3>2 DEF UsersTypes
  <2>7. Counts'
    <3>1. ASSUME NEW a \in Account PROVE Count(cschans', a) = Count(cschans, a)
      <4>1. Count(cschans', a) = Count(cschans, a) - InEntry(cschans[1], a) + InEntry(n, a)
        BY <1>2, <2>1, <2>5, CountChanges
      <4>2. InEntry(cschans[1], a) = InEntry(n, a)
        <5>1. Has(NOLIST, a) = 0 /\ Has({}, a) = 0
          BY DEF Has
        <5>2. n.users = cschans[1].users /\ n.tmp_users = {}
          BY DEF n
        <5>3. QED
          BY <1>6, <5>1, <5>2 DEF InEntry
      <4>3. Count(cschans, a) \in Nat /\ InEntry(n, a) \in 0..2
        BY <1>2, <2>1, CountIsNat, EntryCounts
      <4>4. QED
        BY <4>1, <4>2, <4>3
    <3>2. QED
      BY <1>1, <1>4, <3>1 DEF Counts
  <2>8. Filling'
    <3> SUFFICES ASSUME slips' = {} PROVE /\ ~crashed' /\ Len(cschans') <= 1 /\ cschans' # <<>> /\ channel' # "out" /\ chanserv'
                                          /\ Head(cschans').tmp_users = {} /\ responses' = <<"users">>
      BY NoList DEF Filling
    <3>1. ~crashed /\ Len(cschans) <= 1 /\ channel # "out" /\ chanserv /\ responses = <<>>
      BY <1>1, <1>2, <1>3, <1>4, <1>6 DEF Filling
    <3>2. Head(cschans').tmp_users = {} /\ Len(cschans') = Len(cschans) /\ cschans' # <<>>
      BY <2>5 DEF Replaced, n
    <3>3. responses' = <<"users">>
      BY <2>4, <3>1
    <3>4. QED
      BY <1>4, <3>1, <3>2, <3>3
  <2>9. QED
    BY <2>6, <2>7, <2>8 DEF ListsInv
<1>7. QED
  BY <1>5, <1>6

(* A request is dropped, or the rule is asked too early: the slip is marked.   *)
LEMMA SlipListsInv == ListsInv /\ (request_dropped \/ chanserv_rule) => ListsInv'
<1> SUFFICES ASSUME ListsInv, request_dropped \/ chanserv_rule PROVE ListsInv'
  OBVIOUS
<1>1. UsersTypes /\ Counts /\ Filling
  BY DEF ListsInv
<1>2. /\ UNCHANGED <<channel, chanserv, cschans, refcount, irc_users, online>>
      /\ responses' = responses \/ (responses # <<>> /\ responses' = Tail(responses))
      /\ slips' \in {slips \cup {"dropped"}, slips \cup {"unsynced"}}
  BY DEF request_dropped, chanserv_rule
<1>3. responses' \in Seq({"users", "names"})
  <2>1. responses \in Seq({"users", "names"})
    BY <1>1 DEF UsersTypes
  <2>2. QED
    BY <1>2, <2>1
<1>4. UsersTypes'
  BY <1>1, <1>2, <1>3 DEF UsersTypes, Slips
<1>5. Counts'
  BY <1>1, <1>2 DEF Counts
<1>6. Filling'
  BY <1>2 DEF Filling
<1>7. QED
  BY <1>4, <1>5, <1>6 DEF ListsInv

(* Another first entry: the accounts of the old one are let go, those of the  *)
(* new one are taken.                                                         *)
LEMMA EntryReplaced ==
    ASSUME UsersTypes, Counts, cschans # <<>>, NEW e \in Cschan, cschans' = [cschans EXCEPT ![1] = e],
           refcount' \in [Account -> Int],
           \A a \in Account : refcount'[a] = refcount[a] - InEntry(cschans[1], a) + InEntry(e, a)
    PROVE  /\ Replaced(cschans, e, cschans') /\ cschans' \in Seq(Cschan) /\ Len(cschans') <= 2
           /\ refcount' = [a \in Account |-> Count(cschans', a)]
           /\ \A a \in Account : refcount'[a] \in Nat
<1>1. cschans \in Seq(Cschan) /\ Len(cschans) <= 2 /\ refcount = [a \in Account |-> Count(cschans, a)]
  BY DEF UsersTypes, Counts
<1>2. Replaced(cschans, e, cschans')
  BY <1>1, ReplacedFirst
<1>3. cschans' \in Seq(Cschan) /\ Len(cschans') <= 2
  BY <1>1, <1>2 DEF Replaced
<1>4. \A a \in Account : refcount'[a] = Count(cschans', a)
  BY <1>1, <1>2, CountChanges
<1>5. \A a \in Account : refcount'[a] \in Nat
  BY <1>3, <1>4, CountIsNat
<1> QED
  BY <1>2, <1>3, <1>4, <1>5

(* What a response meets: one entry that is waiting, or a slip.               *)
LEMMA ResponseMeets ==
    ASSUME ListsInv, responses # <<>>
    PROVE  /\ responses \in Seq({"users", "names"}) /\ Tail(responses) \in Seq({"users", "names"})
           /\ slips = {} => /\ ~crashed /\ cschans # <<>> /\ Len(cschans) <= 1 /\ channel # "out" /\ chanserv
                            /\ Head(cschans).tmp_users # NOLIST /\ Tail(responses) = <<>>
                            /\ Head(responses) = "users" <=> Head(cschans).tmp_users = {}
<1>1. responses \in Seq({"users", "names"})
  BY DEF ListsInv, UsersTypes
<1>2. Tail(responses) \in Seq({"users", "names"})
  BY <1>1
<1>3. ASSUME slips = {}
      PROVE  /\ ~crashed /\ cschans # <<>> /\ Len(cschans) <= 1 /\ channel # "out" /\ chanserv
             /\ Head(cschans).tmp_users # NOLIST
             /\ responses = IF Head(cschans).tmp_users = {} THEN <<"users">> ELSE <<"names">>
  BY <1>3 DEF ListsInv, Filling
<1>4. ASSUME slips = {}
      PROVE  Tail(responses) = <<>> /\ (Head(responses) = "users" <=> Head(cschans).tmp_users = {})
  <2>1. responses = <<"users">> => Tail(responses) = <<>> /\ Head(responses) = "users"
    OBVIOUS
  <2>2. responses = <<"names">> => Tail(responses) = <<>> /\ Head(responses) = "names"
    OBVIOUS
  <2> QED
    BY <1>3, <1>4, <2>1, <2>2
<1> QED
  BY <1>1, <1>2, <1>3, <1>4

(* A response that has been read and changed nothing else, or made the bot    *)
(* crash.                                                                     *)
LEMMA ReadListsInv ==
    ASSUME ListsInv, responses # <<>>, responses' = Tail(responses) \/ responses' = responses,
           \/ cschans = <<>>
           \/ Head(cschans).tmp_users = NOLIST
           \/ Head(cschans).tmp_users # {} /\ Head(responses) = "users",
           UNCHANGED <<channel, chanserv, cschans, refcount, irc_users, online, slips>>
    PROVE  ListsInv'
<1>1. UsersTypes /\ Counts
  BY DEF ListsInv
<1>2. responses' \in Seq({"users", "names"})
  BY ResponseMeets
<1>3. UsersTypes'
  BY <1>1, <1>2 DEF UsersTypes
<1>4. Counts'
  BY <1>1 DEF Counts
<1>5. slips # {}
  BY ResponseMeets
<1>6. Filling'
  BY <1>5 DEF Filling
<1> QED
  BY <1>3, <1>4, <1>6 DEF ListsInv

(* A request was cancelled.                                                   *)
LEMMA CancelledListsInv ==
    ASSUME ListsInv, responses # <<>>, responses' = Tail(responses), cschans # <<>>, cancelled_list,
           UNCHANGED <<channel, chanserv, online, slips>>
    PROVE  ListsInv'
<1>1. UsersTypes /\ Counts
  BY DEF ListsInv
<1>2. cschans \in Seq(Cschan) /\ Len(cschans) <= 2 /\ refcount = [a \in Account |-> Count(cschans, a)]
      /\ irc_users \in [Account -> SUBSET online] /\ online \subseteq Nick /\ slips \subseteq Slips
      /\ channel \in {"out", "burst", "in"} /\ chanserv \in BOOLEAN
  BY <1>1 DEF UsersTypes, Counts
<1>3. cschans[1] \in Cschan /\ Head(cschans) = cschans[1]
  BY <1>2, Short
<1>4. CASE cschans[1].tmp_users = NOLIST
  <2>1. UNCHANGED <<cschans, refcount, irc_users>>
    BY <1>3, <1>4 DEF cancelled_list, Lost
  <2>2. Head(cschans).tmp_users = NOLIST
    BY <1>3, <1>4
  <2> QED
    BY <2>1, <2>2, ReadListsInv
<1>5. CASE cschans[1].tmp_users # NOLIST
  <2> DEFINE e == [users |-> cschans[1].users, tmp_users |-> NOLIST]
  <2>1. e \in Cschan
    BY <1>3, NoList DEF Cschan
  <2>2. [cschans EXCEPT ![1].tmp_users = NOLIST] = [cschans EXCEPT ![1] = e]
    <3>1. [cschans[1] EXCEPT !.tmp_users = NOLIST] = e
      BY <1>3 DEF Cschan
    <3> QED
      BY <3>1
  <2>3. e.users = cschans[1].users /\ e.tmp_users = NOLIST
    OBVIOUS
  <2> HIDE DEF e
  <2>4. /\ cschans' = [cschans EXCEPT ![1] = e] /\ crashed' = crashed
        /\ refcount' = [a \in Account |-> refcount[a] - Has(cschans[1].tmp_users, a)]
        /\ irc_users' = [a \in Account |-> IF refcount'[a] = 0 THEN {} ELSE irc_users[a]]
    BY <1>3, <1>5, <2>2 DEF cancelled_list, csuser_free
  <2>5. ASSUME NEW a \in Account
        PROVE  refcount'[a] = refcount[a] - InEntry(cschans[1], a) + InEntry(e, a) /\ refcount'[a] \in Int
    <3>1. refcount[a] \in Nat
      BY <1>2, CountIsNat
    <3>2. Has(cschans[1].users, a) \in {0, 1} /\ Has(cschans[1].tmp_users, a) \in {0, 1}
      BY <1>3, EntryCounts
    <3>3. Has(NOLIST, a) = 0
      BY DEF Has
    <3>4. /\ InEntry(cschans[1], a) = Has(cschans[1].users, a) + Has(cschans[1].tmp_users, a)
          /\ InEntry(e, a) = Has(cschans[1].users, a) + 0
      BY <2>3, <3>3 DEF InEntry
    <3>5. refcount'[a] = refcount[a] - Has(cschans[1].tmp_users, a)
      BY <2>4
    <3> QED
      BY <3>1, <3>2, <3>4, <3>5
  <2>6. /\ Replaced(cschans, e, cschans') /\ cschans' \in Seq(Cschan) /\ Len(cschans') <= 2
        /\ refcount' = [a \in Account |-> Count(cschans', a)]
        /\ \A a \in Account : refcount'[a] \in Nat
    <3>1. refcount' \in [Account -> Int]
      BY <2>4, <2>5
    <3> QED
      BY <1>1, <2>1, <2>4, <2>5, <3>1, EntryReplaced
  <2>7. UsersTypes'
    BY <1>1, <1>2, <2>6, ResponseMeets DEF UsersTypes
  <2>8. Counts'
    <3>1. irc_users' \in [Account -> SUBSET online']
      BY <1>2, <2>4
    <3>2. \A a \in Account : irc_users'[a] # {} => refcount'[a] > 0
      BY <2>4, <2>6
    <3> QED
      BY <2>6, <3>1, <3>2 DEF Counts
  <2>9. Filling'
    <3> SUFFICES ASSUME slips' = {}
                 PROVE  /\ ~crashed' /\ Len(cschans') <= 1 /\ channel' # "out" /\ chanserv'
                        /\ cschans' # <<>> /\ Head(cschans').tmp_users = NOLIST /\ responses' = <<>>
      BY DEF Filling
    <3>1. ~crashed /\ Len(cschans) <= 1 /\ channel # "out" /\ chanserv /\ Tail(responses) = <<>>
      BY ResponseMeets
    <3>2. Head(cschans').tmp_users = NOLIST /\ Len(cschans') = Len(cschans) /\ cschans' # <<>>
      BY <2>3, <2>6 DEF Replaced
    <3> QED
      BY <2>4, <3>1, <3>2
  <2> QED
    BY <2>7, <2>8, <2>9 DEF ListsInv
<1> QED
  BY <1>4, <1>5

(* The accounts arrive.                                                       *)
LEMMA UsersLinesListsInv ==
    ASSUME ListsInv, responses # <<>>, Head(responses) = "users", cschans # <<>>,
           NEW list \in SUBSET Account, list # {}, users_lines(list),
           UNCHANGED <<channel, chanserv, online, slips>>
    PROVE  ListsInv'
<1>1. UsersTypes /\ Counts
  BY DEF ListsInv
<1>2. cschans \in Seq(Cschan) /\ Len(cschans) <= 2 /\ refcount = [a \in Account |-> Count(cschans, a)]
      /\ irc_users \in [Account -> SUBSET online] /\ online \subseteq Nick /\ slips \subseteq Slips
      /\ channel \in {"out", "burst", "in"} /\ chanserv \in BOOLEAN
  BY <1>1 DEF UsersTypes, Counts
<1>3. cschans[1] \in Cschan /\ Head(cschans) = cschans[1]
  BY <1>2, Short
<1>4. CASE cschans[1].tmp_users # {}
  <2>1. UNCHANGED <<cschans, refcount, irc_users>> /\ (responses' = Tail(responses) \/ responses' = responses)
    BY <1>3, <1>4 DEF users_lines, Lost
  <2>2. Head(cschans).tmp_users = NOLIST \/ (Head(cschans).tmp_users # {} /\ Head(responses) = "users")
    BY <1>3, <1>4
  <2> QED
    BY <2>1, <2>2, ReadListsInv
<1>5. CASE cschans[1].tmp_users = {}
  <2> DEFINE e == [users |-> cschans[1].users, tmp_users |-> list]
  <2>1. e \in Cschan
    <3>1. list \in (SUBSET Account) \cup {NOLIST} /\ cschans[1].users \in (SUBSET Account) \cup {NOLIST}
      BY <1>3, Zenon DEF Cschan
    <3> QED
      BY <3>1 DEF Cschan
  <2>2. [cschans EXCEPT ![1].tmp_users = list] = [cschans EXCEPT ![1] = e]
    <3>1. [cschans[1] EXCEPT !.tmp_users = list] = e
      BY <1>3 DEF Cschan
    <3> QED
      BY <3>1
  <2>3. e.users = cschans[1].users /\ e.tmp_users = list
    OBVIOUS
  <2> HIDE DEF e
  <2>4. /\ cschans' = [cschans EXCEPT ![1] = e] /\ UNCHANGED <<irc_users, crashed>>
        /\ refcount' = [a \in Account |-> refcount[a] + Has(list, a)]
        /\ responses' = Append(Tail(responses), "names")
    BY <1>3, <1>5, <2>2, NoList DEF users_lines
  <2>5. ASSUME NEW a \in Account
        PROVE  /\ refcount'[a] = refcount[a] - InEntry(cschans[1], a) + InEntry(e, a) /\ refcount'[a] \in Int
               /\ refcount[a] \in Nat /\ refcount[a] <= refcount'[a]
    <3>1. refcount[a] \in Nat
      BY <1>2, CountIsNat
    <3>2. Has(cschans[1].users, a) \in {0, 1} /\ Has(e.tmp_users, a) \in {0, 1}
      BY <1>3, <2>1, EntryCounts
    <3>3. Has({}, a) = 0
      BY DEF Has
    <3>4. /\ InEntry(cschans[1], a) = Has(cschans[1].users, a) + 0
          /\ InEntry(e, a) = Has(cschans[1].users, a) + Has(list, a)
      BY <1>5, <2>3, <3>3 DEF InEntry
    <3>5. refcount'[a] = refcount[a] + Has(list, a)
      BY <2>4
    <3> QED
      BY <2>3, <3>1, <3>2, <3>4, <3>5
  <2>6. /\ Replaced(cschans, e, cschans') /\ cschans' \in Seq(Cschan) /\ Len(cschans') <= 2
        /\ refcount' = [a \in Account |-> Count(cschans', a)]
        /\ \A a \in Account : refcount'[a] \in Nat
    <3>1. refcount' \in [Account -> Int]
      BY <2>4, <2>5
    <3> QED
      BY <1>1, <2>1, <2>4, <2>5, <3>1, EntryReplaced
  <2>7. UsersTypes'
    <3>1. responses' \in Seq({"users", "names"})
      BY <2>4, ResponseMeets
    <3> QED
      BY <1>2, <2>6, <3>1 DEF UsersTypes
  <2>8. Counts'
    <3>1. irc_users' \in [Account -> SUBSET online']
      BY <1>2, <2>4
    <3>2. \A a \in Account : irc_users'[a] # {} => refcount'[a] > 0
      BY <1>1, <2>4, <2>5, <2>6 DEF Counts
    <3> QED
      BY <2>6, <3>1, <3>2 DEF Counts
  <2>9. Filling'
    <3> SUFFICES ASSUME slips' = {}
                 PROVE  /\ ~crashed' /\ Len(cschans') <= 1 /\ channel' # "out" /\ chanserv'
                        /\ cschans' # <<>> /\ Head(cschans').tmp_users = list /\ responses' = <<"names">>
      BY NoList DEF Filling
    <3>1. ~crashed /\ Len(cschans) <= 1 /\ channel # "out" /\ chanserv /\ Tail(responses) = <<>>
      BY ResponseMeets
    <3>2. Head(cschans').tmp_users = list /\ Len(cschans') = Len(cschans) /\ cschans' # <<>>
      BY <2>3, <2>6 DEF Replaced
    <3>3. responses' = <<"names">>
      <4>1. responses' = Append(<<>>, "names")
        BY <2>4, <3>1
      <4> QED
        BY <4>1
    <3> QED
      BY <2>4, <3>1, <3>2, <3>3
  <2> QED
    BY <2>7, <2>8, <2>9 DEF ListsInv
<1> QED
  BY <1>4, <1>5

(* The names arrive, and the new list takes the old one's place.              *)
LEMMA NamesLinesListsInv ==
    ASSUME ListsInv, responses # <<>>, responses' = Tail(responses), cschans # <<>>, names_lines,
           UNCHANGED <<channel, chanserv, online, slips>>
    PROVE  ListsInv'
<1>1. UsersTypes /\ Counts
  BY DEF ListsInv
<1>2. cschans \in Seq(Cschan) /\ Len(cschans) <= 2 /\ refcount = [a \in Account |-> Count(cschans, a)]
      /\ irc_users \in [Account -> SUBSET online] /\ online \subseteq Nick /\ slips \subseteq Slips
      /\ channel \in {"out", "burst", "in"} /\ chanserv \in BOOLEAN
  BY <1>1 DEF UsersTypes, Counts
<1>3. cschans[1] \in Cschan /\ Head(cschans) = cschans[1]
  BY <1>2, Short
<1>4. CASE cschans[1].tmp_users = NOLIST /\ cschans[1].users = NOLIST
  <2>1. UNCHANGED <<cschans, refcount, irc_users>> /\ Head(cschans).tmp_users = NOLIST
    BY <1>3, <1>4 DEF names_lines
  <2> QED
    BY <2>1, ReadListsInv
<1>5. CASE ~(cschans[1].tmp_users = NOLIST /\ cschans[1].users = NOLIST)
  <2> DEFINE e == [users |-> cschans[1].tmp_users, tmp_users |-> NOLIST]
  <2>1. e \in Cschan
    BY <1>3, NoList DEF Cschan
  <2>2. [cschans EXCEPT ![1] = [users |-> @.tmp_users, tmp_users |-> NOLIST]] = [cschans EXCEPT ![1] = e]
    OBVIOUS
  <2>3. e.users = cschans[1].tmp_users /\ e.tmp_users = NOLIST
    OBVIOUS
  <2> HIDE DEF e
  <2>4. /\ cschans' = [cschans EXCEPT ![1] = e] /\ crashed' = crashed
        /\ refcount' = [a \in Account |-> refcount[a] - Has(cschans[1].users, a)]
    BY <1>3, <1>5, <2>2 DEF names_lines
  <2>5. PICK names \in [Account -> SUBSET Nick] :
               /\ \A a \in Account : names[a] \subseteq online
               /\ irc_users' = [a \in Account |-> IF refcount'[a] = 0 THEN {} ELSE irc_users[a] \cup names[a]]
    BY <1>3, <1>5 DEF names_lines, Named
  <2>6. ASSUME NEW a \in Account
        PROVE  refcount'[a] = refcount[a] - InEntry(cschans[1], a) + InEntry(e, a) /\ refcount'[a] \in Int
    <3>1. refcount[a] \in Nat
      BY <1>2, CountIsNat
    <3>2. Has(cschans[1].users, a) \in {0, 1} /\ Has(cschans[1].tmp_users, a) \in {0, 1}
      BY <1>3, EntryCounts
    <3>3. Has(NOLIST, a) = 0
      BY DEF Has
    <3>4. /\ InEntry(cschans[1], a) = Has(cschans[1].users, a) + Has(cschans[1].tmp_users, a)
          /\ InEntry(e, a) = Has(cschans[1].tmp_users, a) + 0
      BY <2>3, <3>3 DEF InEntry
    <3>5. refcount'[a] = refcount[a] - Has(cschans[1].users, a)
      BY <2>4
    <3> QED
      BY <3>1, <3>2, <3>4, <3>5
  <2>7. /\ Replaced(cschans, e, cschans') /\ cschans' \in Seq(Cschan) /\ Len(cschans') <= 2
        /\ refcount' = [a \in Account |-> Count(cschans', a)]
        /\ \A a \in Account : refcount'[a] \in Nat
    <3>1. refcount' \in [Account -> Int]
      BY <2>4, <2>6
    <3> QED
      BY <1>1, <2>1, <2>4, <2>6, <3>1, EntryReplaced
  <2>8. UsersTypes'
    BY <1>1, <1>2, <2>7, ResponseMeets DEF UsersTypes
  <2>9. Counts'
    <3>1. irc_users' \in [Account -> SUBSET online']
      <4>1. \A a \in Account : irc_users'[a] \subseteq online
        BY <1>2, <2>5
      <4> QED
        BY <2>5, <4>1
    <3>2. \A a \in Account : irc_users'[a] # {} => refcount'[a] > 0
      BY <2>5, <2>7
    <3> QED
      BY <2>7, <3>1, <3>2 DEF Counts
  <2>10. Filling'
    <3> SUFFICES ASSUME slips' = {}
                 PROVE  /\ ~crashed' /\ Len(cschans') <= 1 /\ channel' # "out" /\ chanserv'
                        /\ cschans' # <<>> /\ Head(cschans').tmp_users = NOLIST /\ responses' = <<>>
      BY DEF Filling
    <3>1. ~crashed /\ Len(cschans) <= 1 /\ channel # "out" /\ chanserv /\ Tail(responses) = <<>>
      BY ResponseMeets
    <3>2. Head(cschans').tmp_users = NOLIST /\ Len(cschans') = Len(cschans) /\ cschans' # <<>>
      BY <2>3, <2>7 DEF Replaced
    <3> QED
      BY <2>4, <3>1, <3>2
  <2> QED
    BY <2>8, <2>9, <2>10 DEF ListsInv
<1> QED
  BY <1>4, <1>5

(* An answer of srvx.                                                         *)
LEMMA ResponsesListsInv == ListsInv /\ Responses => ListsInv'
<1> SUFFICES ASSUME ListsInv, Responses PROVE ListsInv'
  OBVIOUS
<1>1. responses # <<>> /\ UNCHANGED <<channel, chanserv, online, slips>>
  BY DEF Responses, srvx_response_users, srvx_response_names
<1>2. CASE cschans = <<>>
  <2>1. responses' = Tail(responses) /\ UNCHANGED <<cschans, refcount, irc_users>>
    BY <1>2 DEF Responses, srvx_response_users, srvx_response_names
  <2> QED
    BY <1>1, <1>2, <2>1, ReadListsInv
<1>3. CASE cschans # <<>> /\ cancelled_list /\ responses' = Tail(responses)
  BY <1>1, <1>3, CancelledListsInv
<1>4. CASE cschans # <<>> /\ Head(responses) = "users" /\ \E list \in SUBSET Account : list # {} /\ users_lines(list)
  BY <1>1, <1>4, UsersLinesListsInv
<1>5. CASE cschans # <<>> /\ names_lines /\ responses' = Tail(responses)
  BY <1>1, <1>5, NamesLinesListsInv
<1> QED
  BY <1>2, <1>3, <1>4, <1>5 DEF Responses, srvx_response_users, srvx_response_names

(* Every step keeps the lists.                                                *)
LEMMA ListsNextInv == ListsInv /\ [csNext]_csVars => ListsInv'
<1> SUFFICES ASSUME ListsInv, [csNext]_csVars PROVE ListsInv'
  OBVIOUS
<1>1. /\ channel \in {"out", "burst", "in"} /\ chanserv \in BOOLEAN
  BY DEF ListsInv, UsersTypes
<1>2. CASE UNCHANGED csVars
  BY <1>2 DEF csVars, ListsInv, UsersTypes, Counts, Filling
<1>3. CASE Responses
  BY <1>3, ResponsesListsInv
<1>4. CASE bot_joins \/ \E u \in Nick : user_del_hook(u) \/ user_appears(u)
  BY <1>4, OnlineListsInv
<1>5. CASE channel_complete_hook
  <2>1. CASE chanserv
    <3>1. cschan_add /\ channel' = "in" /\ chanserv' = TRUE /\ channel # "out"
      BY <1>1, <1>5, <2>1 DEF channel_complete_hook
    <3> QED
      BY <1>1, <3>1, AddListsInv
  <2>2. CASE ~chanserv
    <3>1. channel = "burst" /\ channel' = "in" /\ UNCHANGED <<chanserv, cschans, refcount, irc_users, online,
                                                              responses, crashed, slips>>
      BY <1>5, <2>2 DEF channel_complete_hook
    <3> QED
      BY <3>1, OnlineListsInv
  <2> QED
    BY <2>1, <2>2
<1>6. CASE join
  <2>1. cschan_add /\ channel' \in {"burst", "in"} /\ chanserv' = TRUE /\ channel # "out"
    BY <1>1, <1>6 DEF join
  <2> QED
    BY <1>1, <2>1, AddListsInv
<1>7. CASE chanuser_del_hook \/ channel_del_hook
  <2>1. cschan_del /\ channel' \in {"out", "burst", "in"} /\ chanserv' = FALSE
    BY <1>1, <1>7 DEF chanuser_del_hook, channel_del_hook
  <2> QED
    BY <2>1, DelListsInv
<1>8. CASE chanserv_update_users
  BY <1>8, UpdateListsInv
<1>9. CASE request_dropped \/ chanserv_rule
  BY <1>9, SlipListsInv
<1> QED
  BY <1>2, <1>3, <1>4, <1>5, <1>6, <1>7, <1>8, <1>9 DEF csNext

(* The entries that are counted are those whose lists name the account.       *)
LEMMA ListedIsCount ==
    ASSUME UsersTypes, NEW a \in Account
    PROVE  Listed(a) = Count(cschans, a)
<1> DEFINE U == {i \in DOMAIN cschans : Has(cschans[i]["users"], a) = 1}
           T == {i \in DOMAIN cschans : Has(cschans[i]["tmp_users"], a) = 1}
<1>1. cschans \in Seq(Cschan) /\ Len(cschans) <= 2
  BY DEF UsersTypes
<1>2. Listed(a) = Cardinality(U) + Cardinality(T)
  BY DEF Listed
<1>3. \A i \in DOMAIN cschans : /\ Has(cschans[i].users, a) \in {0, 1} /\ Has(cschans[i].tmp_users, a) \in {0, 1}
  BY <1>1, EntryCounts
<1>4. Cardinality({}) = 0 /\ Cardinality({1}) = 1 /\ Cardinality({2}) = 1 /\ Cardinality({1, 2}) = 2
  <2>1. Cardinality({}) = 0 /\ Cardinality({1}) = 1 /\ Cardinality({2}) = 1
    BY FS_EmptySet, FS_Singleton
  <2>2. IsFiniteSet({1})
    BY FS_Singleton
  <2>6. 2 \notin {1}
    OBVIOUS
  <2>3. Cardinality({1} \cup {2}) = Cardinality({1}) + 1
    BY <2>2, <2>6, FS_AddElement
  <2>4. {1, 2} = {1} \cup {2}
    OBVIOUS
  <2>5. Cardinality({1, 2}) = Cardinality({1}) + 1
    BY <2>3, <2>4
  <2> QED
    BY <2>1, <2>5
<1>5. CASE Len(cschans) = 0
  <2>1. U = {} /\ T = {} /\ cschans = <<>>
    BY <1>1, <1>5
  <2> QED
    BY <1>2, <1>4, <2>1 DEF Count
<1>6. CASE Len(cschans) = 1
  <2>1. DOMAIN cschans = {1} /\ cschans # <<>>
    <3>1. DOMAIN cschans = 1..1
      BY <1>1, <1>6
    <3>2. 1..1 = {1}
      OBVIOUS
    <3> QED
      BY <1>6, <3>1, <3>2
  <2>2. U = IF Has(cschans[1].users, a) = 1 THEN {1} ELSE {}
    BY <2>1
  <2>3. T = IF Has(cschans[1].tmp_users, a) = 1 THEN {1} ELSE {}
    BY <2>1
  <2>4. Count(cschans, a) = Has(cschans[1].users, a) + Has(cschans[1].tmp_users, a)
    BY <1>6, <2>1 DEF Count, InEntry
  <2> HIDE DEF U, T
  <2>5. Cardinality(U) = Has(cschans[1].users, a) /\ Cardinality(T) = Has(cschans[1].tmp_users, a)
    BY <1>3, <1>4, <2>1, <2>2, <2>3
  <2> QED
    BY <1>2, <2>4, <2>5
<1>7. CASE Len(cschans) = 2
  <2>1. DOMAIN cschans = {1, 2} /\ cschans # <<>>
    <3>1. DOMAIN cschans = 1..2
      BY <1>1, <1>7
    <3>2. 1..2 = {1, 2}
      OBVIOUS
    <3> QED
      BY <1>7, <3>1, <3>2
  <2> DEFINE Of(p, q) == IF p = 1 THEN IF q = 1 THEN {1, 2} ELSE {1} ELSE IF q = 1 THEN {2} ELSE {}
  <2>2. U = Of(Has(cschans[1].users, a), Has(cschans[2].users, a))
    BY <2>1
  <2>3. T = Of(Has(cschans[1].tmp_users, a), Has(cschans[2].tmp_users, a))
    BY <2>1
  <2>4. Count(cschans, a) = (Has(cschans[1].users, a) + Has(cschans[1].tmp_users, a))
                             + (Has(cschans[2].users, a) + Has(cschans[2].tmp_users, a))
    BY <1>7, <2>1 DEF Count, InEntry
  <2>5. \A p, q \in {0, 1} : Cardinality(Of(p, q)) = p + q
    BY <1>4
  <2>6. /\ Has(cschans[1].users, a) \in {0, 1} /\ Has(cschans[1].tmp_users, a) \in {0, 1}
        /\ Has(cschans[2].users, a) \in {0, 1} /\ Has(cschans[2].tmp_users, a) \in {0, 1}
    BY <1>3, <2>1
  <2> HIDE DEF U, T, Of
  <2>7. /\ Cardinality(U) = Has(cschans[1].users, a) + Has(cschans[2].users, a)
        /\ Cardinality(T) = Has(cschans[1].tmp_users, a) + Has(cschans[2].tmp_users, a)
    BY <2>2, <2>3, <2>5, <2>6
  <2> QED
    BY <1>2, <2>4, <2>6, <2>7
<1> QED
  BY <1>1, <1>5, <1>6, <1>7, Short

\* The invariant says what UsersSound says.
LEMMA ListsInvImpliesSound == ListsInv => UsersSound
<1> SUFFICES ASSUME ListsInv PROVE UsersSound
  OBVIOUS
<1>1. UsersTypes /\ Counts /\ Filling
  BY DEF ListsInv
<1>2. cschans \in Seq(Cschan)
  BY <1>1 DEF UsersTypes
<1>3. \A a \in Account : refcount[a] = Listed(a) /\ irc_users[a] \subseteq online
  BY <1>1, ListedIsCount DEF Counts
<1>4. \A a \in Account : irc_users[a] # {} => refcount[a] > 0
  BY <1>1 DEF Counts
<1>5. slips = {} =>
          /\ ~crashed
          /\ cschans # <<>> => channel # "out" /\ chanserv
          /\ IF cschans = <<>> \/ Head(cschans).tmp_users = NOLIST THEN responses = <<>>
             ELSE responses = IF Head(cschans).tmp_users = {} THEN <<"users">> ELSE <<"names">>
  BY <1>1 DEF Filling
<1> QED
  BY <1>2, <1>3, <1>4, <1>5 DEF UsersSound

(* What the bot keeps of ChanServ's events and of its users: for every set of *)
(* channels and accounts, every length of a list and of an answer, an event is *)
(* stored once, none is missed but by what is marked, deleted data stays       *)
(* deleted, an account is counted as often as lists name it and lives as long, *)
(* and a list that is being filled has its response under way                  *)
(* (chanserv_eventlog.c, chanserv_users.c).                                   *)
THEOREM SpecListsSound == AllSpec => []ListsSound
<1>1. AllInit => EventsInv /\ ListsInv
  BY EventsInitInv, ListsInitInv DEF AllInit
<1>2. EventsInv /\ ListsInv /\ [AllNext]_allVars => EventsInv' /\ ListsInv'
  <2>1. [AllNext]_allVars => [eventNext]_eventVars /\ [csNext]_csVars
    BY DEF AllNext, allVars, eventVars, csVars
  <2> QED
    BY <2>1, EventsNextInv, ListsNextInv
<1>3. EventsInv /\ ListsInv => ListsSound
  BY EventsInvImpliesSound, ListsInvImpliesSound DEF ListsSound
<1> QED
  BY <1>1, <1>2, <1>3, PTL DEF AllSpec
=============================================================================
