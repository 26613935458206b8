------------------------------- MODULE MainLoop -------------------------------
(* surgebot.c main(), with what hangs on its list of loop functions: the     *)
(* delayed activation of a new config (conf.c), the delayed reload of a      *)
(* module (module.c) and the throttled send queue (irc.c).  Loop functions   *)
(* register and unregister each other while the loop walks the list by       *)
(* index.  The handler of SIGTERM runs a sock_poll of its own, so socket     *)
(* callbacks may run in the middle of a turn.                                *)
EXTENDS Integers, Sequences, FiniteSets

CONSTANTS Throttles, \* what a config file may say of uplink/throttle
          Worlds,    \* which commands and signals come in together
          Cost,      \* seconds a line costs: 2 + strlen(line) / 120
          ShortCost, \* cost of the login and NICK lines
          Credit,    \* seconds the queue may run ahead of the clock (10)
          MaxQueue,  \* bound: lines that callers queue
          MaxFuncs,  \* bound: no config is read while the list is that long
          MaxIdle,   \* bound: how far last_msg falls behind the clock
          MaxStep,   \* bound: seconds that pass in one turn
          NoConf

ASSUME MainLoopAssumption ==
    /\ Throttles \subseteq BOOLEAN
    /\ NoConf \notin BOOLEAN
    /\ Cost \subseteq Nat \ {0}
    /\ ShortCost \in Cost
    /\ Worlds \subseteq SUBSET {"rehash", "reload", "module", "die", "connection", "lines", "HUP", "TERM"}
    /\ {Credit, MaxQueue, MaxFuncs, MaxIdle, MaxStep} \subseteq Nat \ {0}

VARIABLES outside,     \* the commands and signals that come in, chosen at the start
          loop_funcs,  \* loop_funcs->data
          idx,           \* index of the walk
          phase,          \* part of the turn
          back,        \* where the turn goes on after sock_poll
          reload_conf, \* the flag that sig_rehash sets
          quit_poll,
          exits,       \* sig_exit is still installed (SA_RESETHAND)
          cfg,         \* uplink/throttle of the active config, and bot_conf.throttle
          new_cfg,     \* that of the config that waits, or NoConf
          cmd_reload,  \* cmd_reload.name is set
          loaded,      \* a module with a loop function (httpd) is loaded
          server_sock, \* "none", "connecting" or "open"
          sendq,       \* the costs of the queued lines
          ahead,       \* bot.last_msg - now
          bucket       \* what the server still counts of the queued lines; history only

turn == <<idx, phase, back>>
config == <<cfg, new_cfg>>
throttle == cfg
queue == <<server_sock, sendq, ahead, bucket>>
asked == <<reload_conf, quit_poll, exits>>
loopVars == <<outside, loop_funcs, turn, asked, config, cmd_reload, loaded, queue>>

LoopFunc == {"irc_poll_sendq", "conf_activate", "module_do_cmd_reload", "check_detached_clients"}

Registered(f) == \E k \in DOMAIN loop_funcs : loop_funcs[k] = f
Count(f) == Cardinality({k \in DOMAIN loop_funcs : loop_funcs[k] = f})
Calls(f) == phase = "funcs" /\ idx < Len(loop_funcs) /\ loop_funcs[idx + 1] = f
Larger(x, y) == IF x < y THEN y ELSE x

-----------------------------------------------------------------------------
(* list.h                                                                     *)

list_add(list, f) == Append(list, f)

\* One step of LISTNAME##_del: the last element takes the place of the deleted
\* one and is not looked at, so a duplicate may survive.
SwapLast(list, k) == SubSeq([list EXCEPT ![k] = list[Len(list)]], 1, Len(list) - 1)

list_del(list, f) ==
    LET step[s \in [k : Nat, left : Seq(LoopFunc)]] ==
            [k |-> s.k + 1,
             left |-> IF s.k <= Len(s.left) /\ s.left[s.k] = f THEN SwapLast(s.left, s.k) ELSE s.left]
        del[n \in Nat] == IF n = 0 THEN [k |-> 1, left |-> list] ELSE step[del[n - 1]]
    IN  del[Len(list)].left

-----------------------------------------------------------------------------
(* irc.c: the send queue.                                                     *)

\* The costs of the first n lines.
Spent(n) ==
    LET spent[k \in 0..Len(sendq)] == IF k = 0 THEN 0 ELSE spent[k - 1] + sendq[k]
    IN  spent[n]

\* if(now > bot.last_msg) bot.last_msg = now
start == Larger(ahead, 0)

\* The number of lines written by one call: it stops once it is Credit ahead.
Sent == CHOOSE n \in 0 .. Len(sendq) :
            /\ \A m \in 0 .. n - 1 : start + Spent(m) < Credit
            /\ n = Len(sendq) \/ start + Spent(n) >= Credit

irc_poll_sendq ==
    /\ \/ /\ server_sock = "none"
          /\ sendq' = <<>>
          /\ UNCHANGED <<ahead, bucket, loop_funcs>>
       \/ /\ server_sock # "none"
          /\ sendq' = SubSeq(sendq, Sent + 1, Len(sendq))
          /\ ahead' = start + Spent(Sent)
          /\ bucket' = bucket + Spent(Sent)
          /\ loop_funcs' = IF ~throttle /\ sendq' = <<>>
                           THEN list_del(loop_funcs, "irc_poll_sendq")
                           ELSE loop_funcs
    /\ UNCHANGED <<server_sock, config, cmd_reload, loaded>>

\* Mutant: switching throttling off drops the poll function though lines wait.
irc_conf_reload_drops(list, q, new, old) ==
    IF new /\ ~old THEN list_add(list, "irc_poll_sendq")
    ELSE IF ~new /\ old THEN list_del(list, "irc_poll_sendq")
    ELSE list

\* irc_conf_reload, on the list `list' and with the queue `q'
irc_conf_reload(list, q, new, old) ==
    IF new /\ ~old THEN list_add(list, "irc_poll_sendq")
    ELSE IF ~new /\ old /\ q = <<>> THEN list_del(list, "irc_poll_sendq")
    ELSE list

irc_send_line(cost, throttled) ==
    IF server_sock # "none" /\ throttled THEN Append(sendq, cost) ELSE sendq

-----------------------------------------------------------------------------
(* conf.c and module.c: work that callbacks leave to the next turn.           *)

conf_reload ==
    \E new \in Throttles \cup {NoConf} :
        /\ new # NoConf => Len(loop_funcs) < MaxFuncs /\ Len(sendq) <= MaxQueue
        /\ new_cfg' = new
        /\ loop_funcs' = IF new = NoConf THEN loop_funcs ELSE list_add(loop_funcs, "conf_activate")
        /\ UNCHANGED cfg

\* The loop functions after a module with one of its own was (un)loaded.
module_set(list, load) ==
    IF load = loaded THEN list
    ELSE IF load THEN list_add(list, "check_detached_clients")
    ELSE list_del(list, "check_detached_clients")

\* bot_conf_reload, irc_conf_reload and module_conf_reload run in this order;
\* the first asks the server for another nick if the new config has one.
conf_activate ==
    LET left == list_del(loop_funcs, "conf_activate")
    IN  /\ \/ /\ new_cfg = NoConf
              /\ loop_funcs' = left
              /\ UNCHANGED <<config, sendq, loaded>>
           \/ /\ new_cfg # NoConf
              /\ cfg' = new_cfg
              /\ new_cfg' = NoConf
              /\ \E ask \in {FALSE} \cup {"lines" \in outside},
                    load \in {loaded} \cup (IF "module" \in outside THEN BOOLEAN ELSE {}) :
                   LET q == IF ask THEN irc_send_line(ShortCost, new_cfg) ELSE sendq
                   IN  /\ sendq' = q
                       /\ loaded' = load
                       /\ loop_funcs' = module_set(irc_conf_reload(left, q, new_cfg, cfg), load)
        /\ UNCHANGED <<server_sock, ahead, bucket, cmd_reload>>

\* module_reload: the module may be gone by now, and it may fail to load again.
module_do_cmd_reload ==
    LET left == list_del(loop_funcs, "module_do_cmd_reload")
        unloaded == list_del(left, "check_detached_clients")
    IN  /\ \/ /\ ~cmd_reload
              /\ loop_funcs' = left
              /\ UNCHANGED <<cmd_reload, loaded>>
           \/ /\ cmd_reload
              /\ \/ loaded /\ loaded' = TRUE /\ loop_funcs' = list_add(unloaded, "check_detached_clients")
                 \/ loaded /\ loaded' = FALSE /\ loop_funcs' = unloaded
                 \/ ~loaded /\ loaded' = FALSE /\ loop_funcs' = left
              /\ cmd_reload' = FALSE
        /\ UNCHANGED <<config, queue>>

-----------------------------------------------------------------------------
(* main(): one turn.                                                          *)

loopInit ==
    /\ outside \in Worlds
    /\ cfg \in Throttles
    /\ new_cfg = NoConf
    /\ loaded \in BOOLEAN
    /\ loop_funcs = (IF throttle THEN <<"irc_poll_sendq">> ELSE <<>>)
                    \o (IF loaded THEN <<"check_detached_clients">> ELSE <<>>)
    /\ idx = 0 /\ phase = "top" /\ back = "timers"
    /\ reload_conf = FALSE /\ quit_poll = FALSE /\ exits = TRUE
    /\ cmd_reload = FALSE
    /\ server_sock = "connecting"
    /\ sendq = <<>> /\ ahead = -MaxIdle /\ bucket = 0

LeaveLoop ==
    /\ phase = "top" /\ quit_poll
    /\ phase' = "left"
    /\ UNCHANGED <<loop_funcs, idx, back, asked, config, cmd_reload, loaded, queue>>

\* Mutant: now is not read again.
StartTurn_noClock ==
    /\ phase = "top" /\ ~quit_poll
    /\ idx' = 0
    /\ phase' = "funcs"
    /\ UNCHANGED <<loop_funcs, back, asked, config, cmd_reload, loaded, queue>>

\* now = time(NULL)
StartTurn ==
    /\ phase = "top" /\ ~quit_poll
    /\ \E d \in 0 .. MaxStep :
         /\ ahead' = Larger(ahead - d, -MaxIdle)
         /\ bucket' = Larger(bucket - d, 0)
    /\ idx' = 0
    /\ phase' = "funcs"
    /\ UNCHANGED <<loop_funcs, back, asked, config, cmd_reload, loaded, server_sock, sendq>>

\* Mutant: a turn calls one loop function only.
CallFunc_first ==
    /\ phase = "funcs" /\ idx < Len(loop_funcs)
    /\ CASE loop_funcs[idx + 1] = "irc_poll_sendq" -> irc_poll_sendq
         [] loop_funcs[idx + 1] = "conf_activate" -> conf_activate
         [] loop_funcs[idx + 1] = "module_do_cmd_reload" -> module_do_cmd_reload
         [] OTHER -> UNCHANGED <<loop_funcs, config, cmd_reload, loaded, queue>>
    /\ idx' = Len(loop_funcs)
    /\ UNCHANGED <<phase, back, asked>>

CallFunc ==
    /\ phase = "funcs" /\ idx < Len(loop_funcs)
    /\ CASE loop_funcs[idx + 1] = "irc_poll_sendq" -> irc_poll_sendq
         [] loop_funcs[idx + 1] = "conf_activate" -> conf_activate
         [] loop_funcs[idx + 1] = "module_do_cmd_reload" -> module_do_cmd_reload
         [] OTHER -> UNCHANGED <<loop_funcs, config, cmd_reload, loaded, queue>>
    /\ idx' = idx + 1
    /\ UNCHANGED <<phase, back, asked>>

EndFuncs ==
    /\ phase = "funcs" /\ idx >= Len(loop_funcs)
    /\ phase' = "sock"
    /\ back' = "timers"
    /\ UNCHANGED <<loop_funcs, idx, asked, config, cmd_reload, loaded, queue>>

EndSockPoll ==
    /\ phase = "sock"
    /\ phase' = back
    /\ UNCHANGED <<loop_funcs, idx, back, asked, config, cmd_reload, loaded, queue>>

EndTimers ==
    /\ phase = "timers"
    /\ phase' = IF reload_conf THEN "reload" ELSE "top"
    /\ UNCHANGED <<loop_funcs, idx, back, asked, config, cmd_reload, loaded, queue>>

ReloadConf ==
    /\ phase = "reload"
    /\ conf_reload
    /\ phase' = "clear"
    /\ UNCHANGED <<idx, back, reload_conf, quit_poll, exits, cmd_reload, loaded, queue>>

ClearReload ==
    /\ phase = "clear"
    /\ reload_conf' = FALSE
    /\ phase' = "top"
    /\ UNCHANGED <<loop_funcs, idx, back, quit_poll, exits, config, cmd_reload, loaded, queue>>

LoopStep == LeaveLoop \/ StartTurn \/ CallFunc \/ EndFuncs \/ EndSockPoll \/ EndTimers
            \/ ReloadConf \/ ClearReload

-----------------------------------------------------------------------------
(* Signals.                                                                   *)

sig_rehash ==
    /\ phase # "left" /\ "HUP" \in outside
    /\ reload_conf' = TRUE
    /\ UNCHANGED <<loop_funcs, turn, quit_poll, exits, config, cmd_reload, loaded, queue>>

\* The quit message goes out in a sock_poll inside the handler.
sig_exit ==
    /\ phase # "left" /\ "TERM" \in outside /\ exits
    /\ exits' = FALSE
    /\ quit_poll' = TRUE
    /\ back' = IF phase = "sock" THEN back ELSE phase
    /\ phase' = "sock"
    /\ UNCHANGED <<loop_funcs, idx, reload_conf, config, cmd_reload, loaded, queue>>

-----------------------------------------------------------------------------
(* Callbacks of sock_poll and timer_poll.                                     *)

rehash ==
    /\ phase = "sock" /\ "rehash" \in outside
    /\ conf_reload
    /\ UNCHANGED <<turn, reload_conf, quit_poll, exits, cmd_reload, loaded, queue>>

\* module_reload_cmd, from the command `module reload' for a module that is loaded;
\* a second one in the same turn fails its assertion and is forgotten
module_reload_cmd ==
    /\ phase = "sock" /\ "reload" \in outside /\ loaded
    /\ \/ cmd_reload /\ UNCHANGED <<cmd_reload, loop_funcs>>
       \/ /\ ~cmd_reload
          /\ cmd_reload' = TRUE
          /\ loop_funcs' = list_add(loop_funcs, "module_do_cmd_reload")
    /\ UNCHANGED <<turn, asked, config, loaded, queue>>

cmd_module ==
    /\ phase = "sock" /\ "module" \in outside
    /\ loaded' = ~loaded
    /\ loop_funcs' = module_set(loop_funcs, ~loaded)
    /\ UNCHANGED <<turn, asked, config, cmd_reload, queue>>

die ==
    /\ phase = "sock" /\ "die" \in outside
    /\ quit_poll' = TRUE
    /\ UNCHANGED <<loop_funcs, turn, reload_conf, exits, config, cmd_reload, loaded, queue>>

\* A line of some callback or loop function, the replies to commands among them.
irc_send ==
    /\ phase \in {"funcs", "sock", "timers"} /\ "lines" \in outside
    /\ Len(sendq) < MaxQueue
    /\ \E c \in Cost : sendq' = irc_send_line(c, throttle)
    /\ UNCHANGED <<loop_funcs, turn, asked, config, cmd_reload, loaded, server_sock, ahead, bucket>>

irc_connected ==
    /\ phase = "sock" /\ "connection" \in outside /\ server_sock = "connecting"
    /\ server_sock' = "open"
    /\ sendq' = IF throttle THEN sendq \o <<ShortCost, ShortCost>> ELSE sendq
    /\ ahead' = 0
    /\ UNCHANGED <<loop_funcs, turn, asked, config, cmd_reload, loaded, bucket>>

irc_disconnected ==
    /\ phase = "sock" /\ "connection" \in outside /\ server_sock # "none"
    /\ server_sock' = "none"
    /\ UNCHANGED <<loop_funcs, turn, asked, config, cmd_reload, loaded, sendq, ahead, bucket>>

\* The queue is dropped; irc_connect may fail.
irc_reconnect ==
    /\ phase = "timers" /\ "connection" \in outside
    /\ sendq' = <<>>
    /\ server_sock' \in {"none", "connecting"}
    /\ bucket' = 0
    /\ UNCHANGED <<loop_funcs, turn, asked, config, cmd_reload, loaded, ahead>>

Callback == rehash \/ module_reload_cmd \/ cmd_module \/ die
            \/ irc_send \/ irc_connected \/ irc_disconnected \/ irc_reconnect

loopNext == LoopStep \/ sig_rehash \/ sig_exit \/ Callback

Stopped == phase = "left" /\ UNCHANGED loopVars

loopSpec == loopInit /\ [][(loopNext /\ UNCHANGED outside) \/ Stopped]_loopVars

\* The loop runs; the clock moves on, which no turn can prevent.
loopFairSpec ==
    /\ loopSpec
    /\ WF_loopVars(LoopStep /\ UNCHANGED outside)
    /\ SF_loopVars(StartTurn /\ UNCHANGED outside /\ (ahead' < ahead \/ ahead' = -MaxIdle))

-----------------------------------------------------------------------------
(* Properties.                                                                *)

\* Types of the loop's lists, irc.c's queue and its clock.
LoopTypeOK ==
    /\ outside \in Worlds
    /\ loop_funcs \in Seq(LoopFunc)
    /\ idx \in Nat
    /\ phase \in {"top", "funcs", "sock", "timers", "reload", "clear", "left"}
    /\ back \in {"top", "funcs", "timers", "reload", "clear"}
    /\ {reload_conf, quit_poll, exits, cmd_reload, loaded} \subseteq BOOLEAN
    /\ cfg \in Throttles
    /\ new_cfg \in Throttles \cup {NoConf}
    /\ server_sock \in {"none", "connecting", "open"}
    /\ sendq \in Seq(Cost)
    /\ ahead \in Int
    /\ bucket \in Nat

\* Lines that are queued, or will be, have a loop function that sends them,
\* whatever configs were activated and in whatever order throttling changed
\* while lines were still waiting.
QueueIsPolled == throttle \/ sendq # <<>> => Registered("irc_poll_sendq")

\* The loop function of a module is registered exactly as long as the module
\* is loaded: the list never holds a pointer into an unloaded library, and a
\* reloaded module is not called twice in a turn.
ModuleFuncExact == Count("check_detached_clients") = (IF loaded THEN 1 ELSE 0)

\* What main's later steps rely on: a command or a config that waits has its
\* loop function, and module_do_cmd_reload never finds its name missing.
WorkIsRegistered ==
    /\ new_cfg # NoConf => Registered("conf_activate")
    /\ cmd_reload <=> Registered("module_do_cmd_reload")

\* The list of loop functions is what the parts that put functions there rely on.
RegistrationSound == LoopTypeOK /\ QueueIsPolled /\ ModuleFuncExact /\ WorkIsRegistered

\* The server counts queued lines like the bot does and forgives a second per
\* second.  What is queued while a connection is being set up is sent with it,
\* and irc_connected then sets last_msg back: twice the credit is the limit.
FloodBound == \A c \in Cost : (\A d \in Cost : d <= c) => bucket < 2 * (Credit + c)

\* What waits has its loop function, and what is sent is no flood.
LoopSound == RegistrationSound /\ FloodBound

\* Whatever is registered is called or unregistered, although a function that
\* takes a deleted one's place is passed over in that turn.
EveryFuncRuns ==
    \A f \in LoopFunc :
        Registered(f) ~> \/ ~Registered(f) \/ phase = "left"
                         \/ Calls(f)

\* Once it is asked to stop, the bot leaves the loop.
QuitEnds == quit_poll \/ ~exits ~> phase = "left"

\* The loop serves what is registered, until it is told to stop, and then stops.
LoopServes == EveryFuncRuns /\ QuitEnds

\* The queue moves: it does not stay as it is for ever.
QueueMoves == []<>(sendq = <<>> \/ phase = "left") \/ []<><<Len(sendq') < Len(sendq)>>_loopVars
=============================================================================
