---------------------------- MODULE RadioPlaylist ----------------------------
(***************************************************************************)
(* src/modules/radioplaylist: the bot's only threads.  The main thread     *)
(* runs commands, timers and loop functions; the stream thread sleeps on a *)
(* condition until it is to play, then plays song after song; a scan       *)
(* thread may be looking for files.  The main thread waits for the stream  *)
(* thread in four places, in two of them by polling two fields without a   *)
(* lock, and the whole bot stands still while it does.                     *)
(*                                                                         *)
(* One step is what a thread does between two points at which the other    *)
(* can notice: an access to a shared field, a critical section.  The       *)
(* playlist's mutex is held by the stream thread in its steps "announce"   *)
(* and "song"; the sections of the main thread are one step each.          *)
(*                                                                         *)
(* Five situations that nothing in the code prevents are recorded in       *)
(* mishaps: "lost", a signal nobody was waiting for; "late", play was set  *)
(* after the stream thread had left its loop; "revived", the playlist was  *)
(* started while the countdown of its last stop was still registered;      *)
(* "torn", an announcement was withdrawn while the stream thread was       *)
(* between looking at it and taking it; "tail", the last song of the list  *)
(* was blacklisted.                                                        *)
(***************************************************************************)
EXTENDS Integers, FiniteSetsExt

CONSTANTS
    Songs,      \* length of a playlist that is not empty
    MaxQueue,   \* bound on queued songs
    Worlds,     \* sets of requests: in one behaviour one of them is what people ask for ("songs":
                \* the database has songs that may be prepared)
    NONE        \* NULL

\* A playlist: its length, the song that was taken from it last (0: none), songs that are left out,
\* how many are queued, and whether one is prepared.
Playlist == [count : Nat, cur : Nat, blacklist : SUBSET Nat, queue : Nat, next_random : BOOLEAN]

ASSUME ConstantsAssumption ==
    /\ Songs \in Nat \ {0}
    /\ MaxQueue \in Nat
    /\ NONE \notin Int \cup Playlist

VARIABLES
    asked,          \* the requests of this behaviour, a member of Worlds; never changed
    main,           \* what the main thread is in the middle of
    thread,         \* the next step of the stream thread
    terminate,      \* stream_state: the thread is to end
    play,           \* stream_state: 0 stop, 1 play, 2 play to the end of the song
    playing,        \* stream_state: the thread plays
    skip,           \* stream_state: end the song
    song_changed,   \* stream_state: a song has begun and the main thread has not noticed
    announce_vote,  \* stream_state: a jingle to be queued first is waiting
    left,           \* endtime - now: 3 is 40 s and more, 2 at least 5 s, 1 is 0 or -1 s, 0 less
    playlist,       \* stream_state.playlist
    song_vote,      \* enabled: songs are voted on while the playlist plays; active: such a vote is under way
    genre_vote,     \* a vote on the genre is under way
    timers, loop_funcs,
    scan,           \* scan_state.state
    crashed,        \* the process used a null pointer
    mishaps

stream_state == <<terminate, play, playing, skip, song_changed, announce_vote>>
votes == <<song_vote, genre_vote, timers>>
rest == <<loop_funcs, scan, crashed, mishaps>>
vars == <<asked, main, thread, stream_state, left, playlist, votes, rest>>

Loaded(n) == [count |-> n, cur |-> 0, blacklist |-> {}, queue |-> 0, next_random |-> FALSE]
NoSongVote == [enabled |-> FALSE, active |-> FALSE]

\* MODULE_INIT: conf_reload_hook may fail to load a playlist, or load an empty one.
Init ==
    /\ asked \in Worlds
    /\ main = "idle"
    /\ thread = "test"
    /\ terminate = FALSE /\ play = 0 /\ playing = FALSE /\ skip = FALSE
    /\ song_changed = FALSE /\ announce_vote = FALSE
    /\ left = 0
    /\ playlist \in {NONE, Loaded(0), Loaded(Songs)}
    /\ song_vote = NoSongVote /\ genre_vote = FALSE
    /\ timers = {}
    /\ loop_funcs = {"check_song_changed"}
    /\ scan = "idle"
    /\ crashed = FALSE
    /\ mishaps = {}

Idle == main = "idle"
Asked(request) == Idle /\ request \in asked
Locked == thread \in {"announce", "song"}

----------------------------------------------------------------------------
(* The stream thread.                                                      *)

thread_test ==
    /\ thread = "test"
    /\ thread' = IF terminate THEN "ended" ELSE "sleep"
    /\ UNCHANGED <<main, stream_state, left, playlist, votes, rest>>

\* pthread_cond_wait, which may also return unasked.
cond_wait ==
    /\ \/ thread = "sleep" /\ thread' = "asleep"
       \/ thread = "asleep" /\ thread' = "woken"
       \/ thread = "woken" /\ thread' = IF terminate THEN "test" ELSE "connect"
    /\ UNCHANGED <<main, stream_state, left, playlist, votes, rest>>

stream_init ==
    /\ thread = "connect"
    /\ thread' \in {"loop", "stop"}
    /\ UNCHANGED <<main, stream_state, left, playlist, votes, rest>>

thread_loop ==
    /\ thread = "loop"
    /\ thread' = IF play = 1 /\ ~terminate THEN "flags" ELSE "stop"
    /\ UNCHANGED <<main, stream_state, left, playlist, votes, rest>>

thread_flags ==
    /\ thread = "flags"
    /\ playing' = TRUE
    /\ skip' = FALSE
    /\ thread' = "lock"
    /\ UNCHANGED <<main, terminate, play, song_changed, announce_vote, left, playlist, votes, rest>>

thread_lock ==
    /\ thread = "lock"
    /\ thread' = IF announce_vote THEN "announce" ELSE "song"
    /\ UNCHANGED <<main, stream_state, left, playlist, votes, rest>>

\* The process is gone, whatever its threads were doing.
crash ==
    /\ crashed' = TRUE
    /\ main' = "gone"
    /\ thread' = "ended"
    /\ UNCHANGED <<terminate, play, playing, skip, left, playlist, votes, loop_funcs, scan, mishaps>>

\* enqueue_first: a null pointer if the announcement was withdrawn after thread_lock saw it.
thread_announce ==
    /\ thread = "announce"
    /\ announce_vote' = FALSE
    /\ IF ~announce_vote /\ playlist # NONE
       THEN crash /\ UNCHANGED song_changed
       ELSE /\ playlist' = IF playlist = NONE THEN NONE ELSE [playlist EXCEPT !.queue = @ + 1]
            /\ thread' = "song"
            /\ UNCHANGED <<main, terminate, play, playing, skip, song_changed, left, votes, rest>>

\* The first song behind `from' that is not blacklisted; NONE stands for the null pointer that is
\* looked at when the search passes the last song.
Walk(p, from) ==
    LET ok == {k \in from + 1 .. p.count : k \notin p.blacklist}
    IN IF ok = {} THEN NONE ELSE Min(ok)

\* The queue comes first, then a prepared song, then the list, which is walked round and round.
playlist_next(p) ==
    IF p.queue > 0 THEN [p EXCEPT !.queue = @ - 1]
    ELSE IF p.next_random THEN [p EXCEPT !.next_random = FALSE]
    ELSE [p EXCEPT !.cur = IF @ \in {0, p.count} THEN Walk(p, 0) ELSE Walk(p, @)]

thread_song ==
    /\ thread = "song"
    /\ IF playlist = NONE \/ (playlist.count = 0 /\ playlist.queue = 0 /\ ~playlist.next_random)
       THEN /\ thread' = "stop"
            /\ UNCHANGED <<main, song_changed, left, playlist, crashed, terminate, play, playing, skip, loop_funcs, scan, mishaps, votes>>
       ELSE IF playlist_next(playlist).cur = NONE
       THEN crash /\ UNCHANGED song_changed
       ELSE /\ playlist' = playlist_next(playlist)
            /\ song_changed' = TRUE
            /\ left' \in 2..3
            /\ thread' = "stream"
            /\ UNCHANGED <<main, terminate, play, playing, skip, votes, rest>>
    /\ UNCHANGED announce_vote

\* output_cb notices skip; a song also ends by itself, or because it is to stop.  After an error of
\* the connection the thread stops.
stream_song ==
    /\ thread = "stream"
    /\ skip' \in {skip, FALSE}
    /\ thread' \in {"loop", "stop"}
    /\ UNCHANGED <<main, terminate, play, playing, song_changed, announce_vote, left, playlist, votes, rest>>

\* Mutant: the thread only says that it has stopped.
thread_stopped_keeps == playing' = FALSE /\ UNCHANGED play

thread_stopped == playing' = FALSE /\ play' = 0

thread_stop ==
    /\ thread = "stop"
    /\ thread_stopped
    /\ thread' = "test"
    /\ UNCHANGED <<main, terminate, skip, song_changed, announce_vote, left, playlist, votes, rest>>

\* The end of the song that the file's entry promises comes nearer.
Second ==
    /\ thread = "stream" /\ left > 0
    /\ left' = left - 1
    /\ UNCHANGED <<main, thread, stream_state, playlist, votes, rest>>

----------------------------------------------------------------------------
(* Votes.                                                                  *)

\* songvote_reset and genrevote_reset on the values they change.
songvote_reset(v) == [v EXCEPT !.active = FALSE]

genrevote_withdraw ==
    /\ announce_vote' = FALSE
    /\ mishaps' = mishaps \cup (IF announce_vote /\ thread = "announce" THEN {"torn"} ELSE {})

\* What songvote_stream_song_changed may make of the song vote and the timers: nothing, the end of
\* the mode, a vote, or, if there are not enough songs, the end of the mode as well.
songvote_stream_song_changed(v, genre_active, t) ==
    IF ~v.enabled \/ v.active THEN {<<v, t>>}
    ELSE IF ~playing THEN {<<NoSongVote, t>>}
    ELSE IF genre_active \/ left < 3 THEN {<<v, t>>}
    ELSE {<<[v EXCEPT !.active = TRUE], t \cup {"songvote_finish"}>>, <<NoSongVote, t \ {"songvote_finish"}>>}

SongVoteNext(v, genre_active, t) ==
    \E o \in songvote_stream_song_changed(v, genre_active, t) : song_vote' = o[1] /\ timers' = o[2]

\* The command's first use (a vote cast changes nothing but the result); nothing is started by hand if a new song is about to be noticed.
playlist_songvote ==
    /\ Asked("songvote") /\ playing /\ playlist # NONE
    /\ ~song_vote.enabled /\ ~genre_vote /\ play # 2
    /\ LET v == [song_vote EXCEPT !.enabled = TRUE]
       IN IF song_changed THEN song_vote' = v /\ UNCHANGED timers ELSE SongVoteNext(v, FALSE, timers)
    /\ UNCHANGED <<main, thread, stream_state, left, playlist, genre_vote, rest>>

\* Whether anybody has voted is open.  A winner is queued; after too many votes without one the mode ends.
songvote_finish ==
    /\ Idle /\ "songvote_finish" \in timers
    /\ timers' = timers \ {"songvote_finish"}
    /\ \/ /\ ~Locked /\ playlist.queue < MaxQueue
          /\ playlist' = [playlist EXCEPT !.queue = @ + 1]
          /\ song_vote' = songvote_reset(song_vote)
       \/ song_vote' \in {songvote_reset(song_vote), NoSongVote} /\ UNCHANGED playlist
    /\ UNCHANGED <<main, thread, stream_state, left, genre_vote, rest>>

playlist_cancelvote_song ==
    /\ Asked("songvote") /\ (song_vote.enabled \/ song_vote.active)
    /\ song_vote' = NoSongVote
    /\ timers' = timers \ {"songvote_finish"}
    /\ UNCHANGED <<main, thread, stream_state, left, playlist, genre_vote, rest>>

cancel_song_vote(t) == t \ {"songvote_finish"}

\* start_genrevote up to the query for the genres: by a command, or by the scheduler while playing.
\* A song vote that would end too late is given up; a jingle may be left for the stream thread.
start_genrevote ==
    /\ Asked("genrevote") /\ ~genre_vote /\ play # 2
    /\ genre_vote' = TRUE
    /\ \/ song_vote.active /\ song_vote' = songvote_reset(song_vote)
          /\ timers' = cancel_song_vote(timers) \cup {"genrevote_finish"}
       \/ UNCHANGED song_vote /\ timers' = timers \cup {"genrevote_finish"}
    /\ announce_vote' \in {announce_vote, announce_vote \/ (playing /\ left > 1)}
    /\ main' = "genres"
    /\ UNCHANGED <<thread, terminate, play, playing, skip, song_changed, left, playlist, rest>>

genrevote_reset ==
    /\ genrevote_withdraw
    /\ genre_vote' = FALSE
    /\ timers' = timers \ {"genrevote_finish"}

\* Its end: the list of genres is there, or the vote is taken back.
genrevote_genres ==
    /\ main = "genres"
    /\ main' = "idle"
    /\ \/ genrevote_reset
       \/ UNCHANGED <<announce_vote, mishaps, genre_vote, timers>>
    /\ UNCHANGED <<thread, terminate, play, playing, skip, song_changed, left, playlist, song_vote, loop_funcs, scan, crashed>>

playlist_cancelvote_genre ==
    /\ Asked("genrevote") /\ genre_vote
    /\ genrevote_reset
    /\ UNCHANGED <<main, thread, terminate, play, playing, skip, song_changed, left, playlist, song_vote, loop_funcs, scan, crashed>>

\* The winner's songs replace the playlist if they can be loaded; then songs may be voted for.
genrevote_finish ==
    /\ Idle /\ "genrevote_finish" \in timers
    /\ \/ ~Locked /\ playlist' = Loaded(Songs)
       \/ UNCHANGED playlist
    /\ genre_vote' = FALSE
    /\ LET t == timers \ {"genrevote_finish"}
       IN IF song_changed THEN timers' = t /\ UNCHANGED song_vote ELSE SongVoteNext(song_vote, FALSE, t)
    /\ UNCHANGED <<main, thread, stream_state, left, rest>>

----------------------------------------------------------------------------
(* Starting and stopping.                                                  *)

\* The loop function of a countdown is registered, and somebody's name is kept.
Countdown == "check_countdown" \in loop_funcs

\* The stream thread has left its loop: what is written to play now is overwritten or overlooked.
LeftLoop == thread \notin {"loop", "flags", "lock", "announce", "song", "stream"}

\* playlist on, up to the first write to play: a countdown is called off, or the stream is started.
playlist_on ==
    /\ Asked("on")
    /\ \/ /\ playing /\ play = 2
          /\ main' = "keep"
          /\ UNCHANGED <<play, mishaps>>
       \/ /\ ~playing /\ playlist # NONE /\ playlist.count > 0
          /\ play' = 1
          /\ main' = "signal"
          /\ mishaps' = mishaps \cup (IF Countdown THEN {"revived"} ELSE {})
    /\ UNCHANGED <<thread, terminate, playing, skip, song_changed, announce_vote, left, playlist, votes,
                   loop_funcs, scan, crashed>>

stop_countdown(fs) == fs \ {"check_countdown"}

playlist_on_keep ==
    /\ main = "keep"
    /\ main' = "idle"
    /\ play' = 1
    /\ loop_funcs' = stop_countdown(loop_funcs)
    /\ mishaps' = mishaps \cup (IF LeftLoop THEN {"late"} ELSE {})
    /\ UNCHANGED <<thread, terminate, playing, skip, song_changed, announce_vote, left, playlist, votes, scan, crashed>>

\* Mutant: nobody is woken.
wake_nobody(t) == t

wake(t) == IF t = "asleep" THEN "woken" ELSE t

signal ==
    /\ main \in {"signal", "fini"}
    /\ thread' = wake(thread)
    /\ main' = IF main = "fini" THEN "join" ELSE "starting"
    /\ mishaps' = mishaps \cup (IF thread = "sleep" \/ (thread = "test" /\ ~terminate) THEN {"lost"} ELSE {})
    /\ UNCHANGED <<stream_state, left, playlist, votes, loop_funcs, scan, crashed>>

\* while(stream_state.playing != stream_state.play): the end of playlist on.
playlist_on_started ==
    /\ main = "starting"
    /\ (IF playing THEN 1 ELSE 0) = play
    /\ main' = "idle"
    /\ UNCHANGED <<thread, stream_state, left, playlist, votes, rest>>

playlist_off ==
    /\ Asked("off") /\ playing
    /\ loop_funcs' = stop_countdown(loop_funcs)
    /\ play' = 0
    /\ main' = "stopping"
    /\ UNCHANGED <<thread, terminate, playing, skip, song_changed, announce_vote, left, playlist, votes,
                   scan, crashed, mishaps>>

\* Both votes are cancelled when the playlist has stopped by a command.
cancel_votes ==
    /\ song_vote' = NoSongVote
    /\ genre_vote' = FALSE
    /\ timers' = {}
    /\ IF genre_vote THEN genrevote_withdraw ELSE UNCHANGED <<announce_vote, mishaps>>

playlist_off_stopped ==
    /\ main = "stopping"
    /\ (IF playing THEN 1 ELSE 0) = play
    /\ main' = "idle"
    /\ IF playing THEN UNCHANGED <<votes, announce_vote, mishaps>> ELSE cancel_votes
    /\ UNCHANGED <<thread, terminate, play, playing, skip, song_changed, left, playlist, loop_funcs, scan, crashed>>

\* A countdown needs a song with five seconds left; its second half sets play.
playlist_countdown ==
    /\ Asked("countdown") /\ playing /\ ~Countdown /\ play # 2 /\ left > 1
    /\ loop_funcs' = loop_funcs \cup {"check_countdown"}
    /\ main' = "countdown"
    /\ UNCHANGED <<thread, stream_state, left, playlist, votes, scan, crashed, mishaps>>

playlist_countdown_set ==
    /\ main = "countdown"
    /\ main' = "idle"
    /\ play' = 2
    /\ mishaps' = mishaps \cup (IF LeftLoop THEN {"late"} ELSE {})
    /\ UNCHANGED <<thread, terminate, playing, skip, song_changed, announce_vote, left, playlist, votes,
                   loop_funcs, scan, crashed>>

\* check_countdown in its last second: it waits until the thread has stopped.
check_countdown_wait ==
    /\ Idle /\ Countdown /\ playing /\ left = 1
    /\ main' = "ending"
    /\ UNCHANGED <<thread, stream_state, left, playlist, votes, rest>>

check_countdown_over ==
    /\ main = "ending" \/ (Idle /\ Countdown)
    /\ ~playing
    /\ cancel_votes
    /\ loop_funcs' = stop_countdown(loop_funcs)
    /\ main' = "idle"
    /\ UNCHANGED <<thread, terminate, play, playing, skip, song_changed, left, playlist, scan, crashed>>

----------------------------------------------------------------------------
(* The playlist.                                                           *)

Only == UNCHANGED <<main, thread, stream_state, left, votes, rest>>

playlist_play ==
    /\ Asked("play") /\ playlist # NONE /\ ~Locked /\ playlist.queue < MaxQueue
    /\ playlist' = [playlist EXCEPT !.queue = @ + 1]
    /\ Only

playlist_blacklist ==
    /\ Asked("blacklist") /\ playlist # NONE
    /\ \E s \in 1..playlist.count :
         /\ playlist' = [playlist EXCEPT !.blacklist = @ \cup {s}]
         /\ mishaps' = mishaps \cup (IF s = playlist.count THEN {"tail"} ELSE {})
    /\ UNCHANGED <<main, thread, stream_state, left, votes, loop_funcs, scan, crashed>>

\* playlist reload, a genre of the schedule that is forced or due while nothing plays, and a
\* rehash that finds no playlist.
playlist_reload ==
    /\ Asked("reload") /\ ~Locked
    /\ \/ (~song_vote.active \/ ~genre_vote) /\ playlist' = Loaded(Songs)
       \/ playlist = NONE /\ playlist' = Loaded(0)
    /\ Only

playlist_skip ==
    /\ Asked("skip") /\ playing /\ ~Locked
    /\ skip' = TRUE
    /\ UNCHANGED <<main, thread, terminate, play, playing, song_changed, announce_vote, left, playlist, votes, rest>>

\* The loop function: the flag is cleared first, then the playlist is looked at under its mutex.
check_song_changed ==
    /\ Idle /\ song_changed
    /\ song_changed' = FALSE
    /\ main' = IF playlist = NONE THEN "idle" ELSE "changed"
    /\ IF playlist = NONE THEN SongVoteNext(song_vote, genre_vote, timers) ELSE UNCHANGED <<song_vote, timers>>
    /\ UNCHANGED <<thread, terminate, play, playing, skip, announce_vote, left, playlist, genre_vote, rest>>

check_song_changed_vote ==
    /\ main = "changed" /\ ~Locked
    /\ main' = IF playlist.next_random THEN "idle" ELSE "prepare"
    /\ SongVoteNext(song_vote, genre_vote, timers)
    /\ UNCHANGED <<thread, stream_state, left, playlist, genre_vote, rest>>

\* There may or may not be a song that has not been played for long enough.
prepare_new_song ==
    /\ main = "prepare"
    /\ main' = "idle"
    /\ \/ UNCHANGED playlist
       \/ "songs" \in asked /\ ~Locked /\ playlist' = [playlist EXCEPT !.next_random = TRUE]
    /\ UNCHANGED <<thread, stream_state, left, votes, rest>>

playlist_scan ==
    /\ \/ /\ Asked("scan") /\ scan = "idle"
          /\ scan' = "active"
          /\ loop_funcs' = loop_funcs \cup {"check_scan_result"}
       \/ /\ scan = "active"
          /\ scan' = "finished"
          /\ UNCHANGED loop_funcs
       \/ /\ Idle /\ scan = "finished" /\ "check_scan_result" \in loop_funcs
          /\ scan' = "idle"
          /\ loop_funcs' = loop_funcs \ {"check_scan_result"}
    /\ UNCHANGED <<main, thread, stream_state, left, playlist, votes, crashed, mishaps>>

----------------------------------------------------------------------------
(* Unloading and loading again.                                            *)

MODULE_FINI ==
    /\ Asked("unload")
    /\ loop_funcs' = stop_countdown(loop_funcs)
    /\ terminate' = TRUE
    /\ main' = "fini"
    /\ UNCHANGED <<thread, play, playing, skip, song_changed, announce_vote, left, playlist, votes,
                   scan, crashed, mishaps>>

\* pthread_join.
joined == thread = "ended"

MODULE_FINI_rest ==
    /\ main = "join" /\ joined
    /\ main' = "gone"
    /\ playlist' = NONE
    /\ loop_funcs' = loop_funcs \ {"check_song_changed"}
    /\ timers' = {}
    /\ song_vote' = NoSongVote /\ genre_vote' = FALSE
    /\ UNCHANGED <<thread, stream_state, left, scan, crashed, mishaps>>

----------------------------------------------------------------------------

Thread ==
    \/ thread_test \/ cond_wait \/ stream_init \/ thread_loop \/ thread_flags \/ thread_lock
    \/ thread_announce \/ thread_song \/ stream_song \/ thread_stop

\* What the main thread is in the middle of.
MainGoesOn ==
    \/ genrevote_genres \/ playlist_on_keep \/ signal \/ playlist_on_started \/ playlist_off_stopped
    \/ playlist_countdown_set \/ (main = "ending" /\ check_countdown_over)
    \/ check_song_changed_vote \/ prepare_new_song \/ MODULE_FINI_rest

Command ==
    \/ playlist_songvote \/ playlist_cancelvote_song \/ start_genrevote \/ playlist_cancelvote_genre
    \/ playlist_on \/ playlist_off \/ playlist_countdown \/ playlist_play \/ playlist_blacklist
    \/ playlist_reload \/ playlist_skip \/ playlist_scan \/ MODULE_FINI

LoopFunc == check_countdown_wait \/ check_countdown_over \/ check_song_changed

Next ==
    \/ Thread \/ Second \/ MainGoesOn \/ Command \/ LoopFunc
    \/ songvote_finish \/ genrevote_finish

Spec == Init /\ [][Next /\ UNCHANGED asked]_vars

\* The operating system runs both threads, but need not wake one unasked; songs end; a mutex that is
\* free again and again is got in the end, and so does a timer get its turn between the commands.
Fairness ==
    /\ WF_vars(thread # "asleep" /\ Thread /\ UNCHANGED asked) /\ SF_vars(MainGoesOn /\ UNCHANGED asked)
    /\ SF_vars(genrevote_finish /\ UNCHANGED asked)

FairSpec == Spec /\ Fairness

----------------------------------------------------------------------------
(* Properties.                                                             *)

\* Types of the stream thread's fields, of the votes and of the rest; nothing that was played stays in
\* the queue, which holds one announcement more than people may add.
StreamTypeOK ==
    /\ play \in 0..2 /\ left \in 0..3
    /\ {terminate, playing, skip, song_changed, announce_vote, crashed} \subseteq BOOLEAN

VotesTypeOK ==
    /\ song_vote \in [enabled : BOOLEAN, active : BOOLEAN] /\ genre_vote \in BOOLEAN
    /\ timers \subseteq {"songvote_finish", "genrevote_finish"}

TypeOK ==
    /\ asked \in Worlds
    /\ main \in {"idle", "genres", "keep", "signal", "starting", "stopping", "countdown", "ending",
                 "changed", "prepare", "fini", "join", "gone"}
    /\ thread \in {"test", "sleep", "asleep", "woken", "connect", "loop", "flags", "lock", "announce",
                   "song", "stream", "stop", "ended"}
    /\ StreamTypeOK /\ VotesTypeOK
    /\ playlist \in Playlist \cup {NONE}
    /\ playlist # NONE => playlist.cur <= playlist.count /\ playlist.queue <= MaxQueue + 1
    /\ loop_funcs \subseteq {"check_song_changed", "check_countdown", "check_scan_result"}
    /\ scan \in {"idle", "active", "finished"}
    /\ mishaps \subseteq {"lost", "late", "revived", "torn", "tail"}

\* The process uses a null pointer only if an announcement was withdrawn in the stream thread's
\* window, or the last song of a list was blacklisted (the search looks behind it).
NoNullPointer == crashed => mishaps \cap {"torn", "tail"} # {}

\* While the thread sleeps and no command is under way nothing claims to play: a start is never
\* forgotten, a stop never half done.  When play is set after the thread left its loop, a command
\* has told the team channel the opposite of what happens.
PlayIsTrue == "late" \notin mishaps /\ thread = "asleep" /\ Idle => play = 0 /\ ~playing

\* A vote that is running will be finished by its timer, and no timer outlives its vote: in every
\* path that starts, cancels or replaces a vote.
VotesAreTimed ==
    main # "gone" =>
        /\ song_vote.active <=> "songvote_finish" \in timers
        /\ genre_vote <=> "genrevote_finish" \in timers

\* An unloaded module leaves no thread, timer or loop function behind, unless a scan is under way:
\* its thread is detached and its loop function stays registered.
UnloadIsClean ==
    main = "gone" /\ ~crashed =>
        /\ thread = "ended"
        /\ timers = {}
        /\ loop_funcs \subseteq (IF scan = "idle" THEN {} ELSE {"check_scan_result"})

\* Timers, loop functions and threads belong to something that is under way, and go with it.
NothingLeftBehind == TypeOK /\ VotesAreTimed /\ UnloadIsClean

\* All of these.
PlaylistSound == NoNullPointer /\ PlayIsTrue /\ NothingLeftBehind
=============================================================================
