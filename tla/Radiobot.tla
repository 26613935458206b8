------------------------------ MODULE Radiobot ------------------------------
(* modules/radiobot, who is on the air: the moderators, the show, the titles   *)
(* and the playlist, in the module's variables, its database, the shared       *)
(* memory other modules read and the memcached the web site reads.  A playlist *)
(* is looked up by the radio's web service, which answers when it likes.       *)
EXTENDS Naturals, FiniteSets

CONSTANTS Nick, NOMOD,
          MaxAsked           \* bound: playlists asked for

\* Nobody is not a nick, and neither is the null pointer.
ASSUME RadiobotAssumption == NOMOD \notin Nick /\ "NULL" \notin Nick \cup {NOMOD} /\ MaxAsked \in Nat

VARIABLES
    rbUp,         \* "up", "down", "crashed"
    onair,        \* current_mod, .._mod_2, .._show, .._streamtitle, .._playlist (0: none; else the
                  \* request it answers), queue_full
    genre,        \* playlist_genre # NULL
    memory,       \* shared memory: radiobot/mod
    stored,       \* radiobot.db
    cache,        \* memcached: mod, mod2, show
    wishgreet,    \* wishgreet_blocked_until # 0, .._reason # NULL, memcached: disabled
    calls,        \* unanswered setplaylist requests: [no, old: from before MODULE_FINI]
    requests,     \* how many were made
    \* what happened, for the properties:
    wanted,       \* the request that is to have the playlist, 0: none
    late,         \* an answer came that was not wanted any more
    unsaved, untold  \* fields that changed and have not been written, shown since

rbVars == <<rbUp, onair, genre, memory, stored, cache, wishgreet, calls, requests, wanted, late, unsaved, untold>>

Fields == {"mod", "mod2", "show", "title", "playlist", "queue"}
Shown == {"mod", "mod2", "show"}
Nothing == [mod |-> NOMOD, mod2 |-> NOMOD, show |-> "NULL", title |-> "NULL", playlist |-> 0, queue |-> FALSE]
NoShow == [mod |-> NOMOD, mod2 |-> NOMOD, show |-> "playlist"]

\* The first start ever.
rbInit ==
    /\ rbUp = "up" /\ onair = Nothing /\ genre \in BOOLEAN
    /\ memory = NOMOD /\ stored = Nothing
    /\ cache = NoShow
    /\ wishgreet = [until |-> FALSE, reason |-> FALSE, cached |-> FALSE]
    /\ calls = {} /\ requests = 0 /\ wanted = 0 /\ late = FALSE
    /\ unsaved = {} /\ untold = {}
-----------------------------------------------------------------------------
(* Every command ends in some of these.                                        *)

Changed(new) == {f \in Fields : new[f] # onair[f]}

radiobot_db_write(new) == stored' = new /\ unsaved' = {}
NotWritten(new) == stored' = stored /\ unsaved' = unsaved \cup Changed(new)

show_updated_readonly(new) ==
    /\ cache' = [mod |-> new.mod, mod2 |-> new.mod2, show |-> IF new.show = "NULL" THEN "playlist" ELSE new.show]
    /\ untold' = {}
NotShown(new) == cache' = cache /\ untold' = untold \cup (Changed(new) \cap Shown)

\* Mutant: nobody is told that the playlist is on.
shared_memory_set_mod(mod) == memory' = IF mod = NOMOD THEN memory ELSE mod

shared_memory_set(mod) == memory' = mod

SameCalls == UNCHANGED <<genre, wishgreet, calls, requests, late>>
-----------------------------------------------------------------------------
(* Commands and events.                                                        *)

\* The nick of who gives the command goes on the air, or the playlist does.
setmod(n, to_playlist) ==
    LET same_mod == onair.mod = n
        show == IF to_playlist THEN "playlist" ELSE "own"
        new == [onair EXCEPT !.mod = IF to_playlist THEN NOMOD ELSE n, !.mod2 = NOMOD,
                             !.show = show, !.title = show,
                             !.playlist = IF to_playlist \/ ~same_mod THEN 0 ELSE @,
                             !.queue = FALSE]
    IN /\ rbUp = "up"
       /\ onair' = new
       /\ shared_memory_set(new.mod)
       /\ radiobot_db_write(new) /\ show_updated_readonly(new)
       /\ wanted' = IF to_playlist \/ ~same_mod THEN 0 ELSE wanted
       /\ SameCalls /\ UNCHANGED rbUp

\* "*", or any nick.
setsecmod(n) ==
    LET new == [onair EXCEPT !.mod2 = n] IN
    /\ rbUp = "up" /\ onair.mod # NOMOD
    /\ onair' = new
    /\ radiobot_db_write(new) /\ show_updated_readonly(new)
    /\ SameCalls /\ UNCHANGED <<rbUp, memory, wanted>>

nick(old, n) ==
    LET Renamed(m) == IF m = old THEN n ELSE m
        new == [onair EXCEPT !.mod = Renamed(@), !.mod2 = Renamed(@)]
    IN /\ rbUp = "up" /\ old \in {onair.mod, onair.mod2} /\ n # old
       /\ onair' = new
       /\ IF onair.mod = old THEN shared_memory_set(n) ELSE UNCHANGED memory
       /\ radiobot_db_write(new) /\ NotShown(new)
       /\ SameCalls /\ UNCHANGED <<rbUp, wanted>>

\* The playlist goes at once; "*" leaves it at that, otherwise the web service is asked for its
\* address: the call is lost when no service is configured.
setplaylist(ask) ==
    LET new == [onair EXCEPT !.playlist = 0] IN
    /\ rbUp = "up"
    /\ onair' = new
    /\ IF ask
       THEN /\ requests < MaxAsked
            /\ requests' = requests + 1 /\ wanted' = requests + 1
            /\ calls' = calls \cup {[no |-> requests + 1, old |-> FALSE]}
            /\ NotWritten(new) /\ NotShown(new)
       ELSE /\ wanted' = 0
            /\ radiobot_db_write(new) /\ show_updated_readonly(new)
            /\ UNCHANGED <<requests, calls>>
    /\ UNCHANGED <<rbUp, genre, memory, wishgreet, late>>

\* Answers come in any order, whatever was set in between; a failure takes away what is there.
radiobot_radioapi_cb(c, success) ==
    LET new == [onair EXCEPT !.playlist = IF success THEN c.no ELSE 0] IN
    /\ rbUp = "up" /\ c \in calls /\ ~c.old
    /\ calls' = calls \ {c}
    /\ onair' = new
    /\ late' = (late \/ c.no # wanted)
    /\ IF success THEN radiobot_db_write(new) /\ show_updated_readonly(new)
       ELSE NotWritten(new) /\ NotShown(new)
    /\ UNCHANGED <<rbUp, genre, memory, wishgreet, requests, wanted>>

\* The request ends without an answer: nobody is told.
CallLost(c) ==
    /\ c \in calls
    /\ calls' = calls \ {c}
    /\ UNCHANGED <<rbUp, onair, genre, memory, stored, cache, wishgreet, requests, wanted, late, unsaved, untold>>

\* A request outlives the module: its callback is gone then, or at another address.
AnswerAfterUnload(c) ==
    /\ rbUp # "crashed" /\ c \in calls /\ c.old
    /\ calls' = calls \ {c}
    /\ rbUp' = "crashed"
    /\ UNCHANGED <<onair, genre, memory, stored, cache, wishgreet, requests, wanted, late, unsaved, untold>>

\* radioplaylist plays another genre.
shared_memory_changed ==
    LET new == IF onair.mod # NOMOD THEN onair
               ELSE [onair EXCEPT !.show = "playlist", !.title = "playlist"]
    IN /\ rbUp = "up"
       /\ genre' = TRUE
       /\ onair' = new
       /\ NotWritten(new) /\ NotShown(new)
       /\ UNCHANGED <<rbUp, memory, wishgreet, calls, requests, wanted, late>>

\* "*" copies the show, which there may not be.
settitle(title) ==
    LET new == [onair EXCEPT !.title = IF title = "*" THEN onair.show ELSE title] IN
    /\ rbUp = "up"
    /\ IF title = "*" /\ onair.show = "NULL"
       THEN rbUp' = "crashed" /\ UNCHANGED <<onair, stored, unsaved, cache, untold>>
       ELSE onair' = new /\ radiobot_db_write(new) /\ NotShown(new) /\ UNCHANGED rbUp
    /\ SameCalls /\ UNCHANGED <<memory, wanted>>

\* "*", or until some time.
queuefull(full) ==
    LET new == [onair EXCEPT !.queue = full] IN
    /\ rbUp = "up"
    /\ onair' = new
    /\ radiobot_db_write(new) /\ NotShown(new)
    /\ SameCalls /\ UNCHANGED <<rbUp, memory, wanted>>

\* The time is over: wherever it is written.
check_queue_full ==
    /\ onair.queue \/ stored.queue
    /\ onair' = [onair EXCEPT !.queue = FALSE] /\ stored' = [stored EXCEPT !.queue = FALSE]
    /\ UNCHANGED <<rbUp, genre, memory, cache, wishgreet, calls, requests, wanted, late, unsaved, untold>>

check_wishgreet_blocked(w) == [w EXCEPT !.cached = w.until]

\* "wish" and "greet" look whether they are blocked; what they say reaches both moderators.
Wish(passed) ==
    /\ rbUp = "up" /\ onair.mod # NOMOD
    /\ wishgreet' = check_wishgreet_blocked([wishgreet EXCEPT !.until = @ /\ ~passed])
    /\ UNCHANGED <<rbUp, onair, genre, memory, stored, cache, calls, requests, wanted, late, unsaved, untold>>

\* A time that is none ends the block and takes the reason.
blockwishgreet(what) ==
    /\ rbUp = "up"
    /\ wishgreet' = CASE what = "*" -> check_wishgreet_blocked([wishgreet EXCEPT !.until = FALSE, !.reason = FALSE])
                      [] what = "until" -> check_wishgreet_blocked([wishgreet EXCEPT !.until = TRUE, !.reason = TRUE])
                      [] what = "syntax" -> [wishgreet EXCEPT !.until = FALSE, !.reason = FALSE]
    /\ UNCHANGED <<rbUp, onair, genre, memory, stored, cache, calls, requests, wanted, late, unsaved, untold>>
-----------------------------------------------------------------------------
(* The module comes and goes.                                                  *)

\* The shared memory forgets what an unloaded module set.
Leave(how) ==
    /\ rbUp \in (IF how = "fini" THEN {"up"} ELSE {"up", "crashed"})
    /\ rbUp' = "down"
    /\ memory' = NOMOD
    /\ onair' = Nothing
    /\ stored' = IF how = "fini" THEN onair ELSE stored
    /\ wishgreet' = [wishgreet EXCEPT !.until = FALSE, !.reason = FALSE]
    /\ unsaved' = {} /\ untold' = Shown
    /\ calls' = IF how = "fini" THEN {[c EXCEPT !.old = TRUE] : c \in calls} ELSE {}
    /\ wanted' = 0
    /\ UNCHANGED <<genre, cache, requests, late>>

radiobot_db_read(found) ==
    /\ rbUp = "down"
    /\ rbUp' = "up"
    /\ onair' = stored
    /\ memory' = stored.mod
    /\ genre' = found
    /\ wanted' = stored.playlist
    /\ UNCHANGED <<stored, cache, wishgreet, calls, requests, late, unsaved, untold>>

rbNext ==
    \/ \E n \in Nick : \/ \E p \in BOOLEAN : setmod(n, p)
                       \/ setsecmod(n)
                       \/ \E o \in Nick : nick(o, n)
    \/ setsecmod(NOMOD)
    \/ \E b \in BOOLEAN : setplaylist(b) \/ queuefull(b) \/ Wish(b) \/ radiobot_db_read(b)
    \/ \E c \in calls : CallLost(c) \/ AnswerAfterUnload(c) \/ \E s \in BOOLEAN : radiobot_radioapi_cb(c, s)
    \/ \E t \in {"*", "own"} : settitle(t)
    \/ \E w \in {"*", "until", "syntax"} : blockwishgreet(w)
    \/ \E how \in {"fini", "crash"} : Leave(how)
    \/ shared_memory_changed \/ check_queue_full

rbSpec == rbInit /\ [][rbNext]_rbVars
-----------------------------------------------------------------------------
(* Properties.                                                                 *)

OnAir == [mod : Nick \cup {NOMOD}, mod2 : Nick \cup {NOMOD}, show : {"NULL", "playlist", "own"},
          title : {"NULL", "playlist", "own"}, playlist : 0..MaxAsked, queue : BOOLEAN]

\* A second moderator needs a first one; the show is the playlist's when nobody is on the air.
Coherent(o) ==
    /\ o.mod2 # NOMOD => o.mod # NOMOD
    /\ (o.show = "own") <=> (o.mod # NOMOD)

\* Who is on the air is the same everywhere: in the shared memory always, in the database after a
\* restart, on the web site; but for what a command did not write or show.
Agreed ==
    /\ onair \in OnAir /\ stored \in OnAir
    /\ Coherent(stored)
    /\ rbUp = "up" => /\ Coherent(onair)
                      /\ memory = onair.mod
                      /\ \A f \in Fields \ unsaved : stored[f] = onair[f]
                      /\ \A f \in Shown \ untold : cache[f] = IF onair[f] = "NULL" THEN "playlist" ELSE onair[f]
    /\ unsaved \cap {"mod", "mod2", "queue"} = {}

\* The playlist on display is the one that was asked for last, by who is on the air: unless an
\* answer came late.  Wishes are refused for a reason, on the web site when the bot does; a restart
\* forgets the block but not there.
Timely ==
    /\ rbUp = "up" => onair.playlist \in {0, wanted} \/ late
    /\ wishgreet.until => wishgreet.reason /\ wishgreet.cached
    /\ rbUp = "crashed" => onair.show = "NULL" \/ requests > 0
OnAirSound == Agreed /\ Timely
=============================================================================
