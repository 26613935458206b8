---------------------------- MODULE RadioProofs ----------------------------
(* Proofs about the radio's modules, for every set of people, songs, requests *)
(* and clients: RadioPlaylist, Radiobot, RadiobotNet and RadiobotRemote, each  *)
(* with an inductive invariant of its own, and all of them together.          *)
EXTENDS MCRadioPlaylist, WellFoundedInduction, TLAPS

(***************************************************************************)
(* RadioPlaylist.                                                          *)
(***************************************************************************)

\* The announcement is the one song more than people may add, and the next that is played.
QueueOK == playlist # NONE /\ thread # "song" => playlist.queue <= MaxQueue

\* The stream thread finds an announcement that is not there only if it was withdrawn, and the end
\* of the list only if that is blacklisted.
AnnounceOK == thread = "announce" => announce_vote \/ "torn" \in mishaps
TailOK == playlist # NONE /\ playlist.count \in playlist.blacklist => playlist.count = 0 \/ "tail" \in mishaps

\* Nothing plays, is voted for or noticed before there is a playlist, and that does not go away.
Loadedness ==
    \/ main = "gone"
    \/ playlist # NONE
    \/ /\ play = 0 /\ ~playing /\ ~song_vote.active
       /\ thread \notin {"flags", "lock", "announce", "song", "stream"}
       /\ main \notin {"keep", "changed", "prepare", "countdown"}

\* Outside its loop the stream thread does not play and, but for a start that is under way, is not
\* to play.
Silent == thread \in {"test", "sleep", "asleep", "woken", "connect"}
PlayOK ==
    Silent => /\ ~playing
              /\ "late" \in mishaps \/ main \in {"signal", "starting"} \/ play = 0

\* Countdown and scan take their loop functions with them.
LoopsOK ==
    /\ main \in {"fini", "join"} => ~Countdown
    /\ scan = "idle" => "check_scan_result" \notin loop_funcs

PlaylistInv ==
    /\ TypeOK /\ QueueOK /\ AnnounceOK /\ TailOK /\ Loadedness /\ PlayOK /\ LoopsOK
    /\ VotesAreTimed /\ UnloadIsClean /\ NoNullPointer

\* A song vote and its timer start together, while songs are played.
LEMMA SongVoteStep ==
    ASSUME NEW v \in [enabled : BOOLEAN, active : BOOLEAN], NEW g \in BOOLEAN, NEW t \in SUBSET {"songvote_finish", "genrevote_finish"},
           v.active <=> "songvote_finish" \in t, SongVoteNext(v, g, t)
    PROVE  /\ song_vote' \in [enabled : BOOLEAN, active : BOOLEAN]
           /\ timers' \in SUBSET {"songvote_finish", "genrevote_finish"}
           /\ song_vote'.active <=> "songvote_finish" \in timers'
           /\ "genrevote_finish" \in timers' <=> "genrevote_finish" \in t
           /\ song_vote'.active => v.active \/ playing
<1>1. PICK on : on = [v EXCEPT !.active = TRUE]
  OBVIOUS
<1>2. NoSongVote \in [enabled : BOOLEAN, active : BOOLEAN] /\ ~NoSongVote.active
  BY DEF NoSongVote
<1>3. on \in [enabled : BOOLEAN, active : BOOLEAN] /\ on.active
  BY <1>1
<1>4. PICK o \in songvote_stream_song_changed(v, g, t) : song_vote' = o[1] /\ timers' = o[2]
  BY DEF SongVoteNext
<1>5. \/ o = <<v, t>>
      \/ o = <<NoSongVote, t>> /\ ~v.active
      \/ o = <<on, t \cup {"songvote_finish"}>> /\ playing
      \/ o = <<NoSongVote, t \ {"songvote_finish"}>>
  BY <1>1, <1>4 DEF songvote_stream_song_changed
<1>6. \/ song_vote' = v /\ timers' = t
      \/ song_vote' = NoSongVote /\ timers' = t /\ ~v.active
      \/ song_vote' = on /\ timers' = t \cup {"songvote_finish"} /\ playing
      \/ song_vote' = NoSongVote /\ timers' = t \ {"songvote_finish"}
  BY <1>4, <1>5
<1> QED
  BY <1>2, <1>3, <1>6

LEMMA NotNone == \A p \in Playlist : p # NONE
  BY ConstantsAssumption

\* What an action makes of a playlist: one that was loaded, one with one more song queued.
LEMMA LoadedRecord ==
    ASSUME NEW n \in Nat
    PROVE  /\ Loaded(n) \in Playlist
           /\ Loaded(n).cur <= Loaded(n).count /\ Loaded(n).queue <= MaxQueue /\ Loaded(n).queue <= MaxQueue + 1
           /\ Loaded(n).count \notin Loaded(n).blacklist
  BY ConstantsAssumption DEF Loaded, Playlist

LEMMA QueuedRecord ==
    ASSUME NEW p \in Playlist, NEW q, q = [p EXCEPT !.queue = @ + 1]
    PROVE  /\ q \in Playlist
           /\ q.count = p.count /\ q.cur = p.cur /\ q.blacklist = p.blacklist /\ q.queue = p.queue + 1
<1>1. PICK n \in Nat : n = p.queue + 1
  BY DEF Playlist
<1>2. q = [p EXCEPT !.queue = n]
  BY <1>1
<1> QED
  BY <1>1, <1>2 DEF Playlist

LEMMA PreparedRecord ==
    ASSUME NEW p \in Playlist, NEW q, q = [p EXCEPT !.next_random = TRUE]
    PROVE  /\ q \in Playlist
           /\ q.count = p.count /\ q.cur = p.cur /\ q.blacklist = p.blacklist /\ q.queue = p.queue
  BY DEF Playlist

LEMMA BlacklistRecord ==
    ASSUME NEW p \in Playlist, NEW s \in 1..p.count, NEW q, q = [p EXCEPT !.blacklist = @ \cup {s}]
    PROVE  /\ q \in Playlist
           /\ q.count = p.count /\ q.cur = p.cur /\ q.blacklist = p.blacklist \cup {s} /\ q.queue = p.queue
<1>1. PICK b \in SUBSET Nat : b = p.blacklist \cup {s}
  BY DEF Playlist
<1>2. q = [p EXCEPT !.blacklist = b]
  BY <1>1
<1> QED
  BY <1>1, <1>2 DEF Playlist

(* A non-empty set of natural numbers has a least one.                      *)
LEMMA MinIsMember ==
    ASSUME NEW S \in SUBSET Nat, S # {}
    PROVE  Min(S) \in S
<1>1. PICK n \in S : \A m \in S : ~(<<m, n>> \in OpToRel(<, Nat))
  BY WFMin, NatLessThanWellFounded
<1>2. \A m \in S : ~(m < n) /\ m \in Nat /\ n \in Nat
  BY <1>1 DEF OpToRel
<1>3. n \in S /\ \A m \in S : n <= m
  BY <1>2
<1> QED
  BY <1>3 DEF Min

\* The next song is one of the list, unless the search passes its end: because the last song is
\* blacklisted.
LEMMA NextSong ==
    ASSUME NEW p \in Playlist, p.cur <= p.count, ~(p.count = 0 /\ p.queue = 0 /\ ~p.next_random),
           NEW q, q = playlist_next(p)
    PROVE  \/ /\ q \in Playlist /\ q.count = p.count /\ q.blacklist = p.blacklist /\ q.cur <= q.count
              /\ q.queue <= p.queue /\ (p.queue > 0 => q.queue = p.queue - 1)
           \/ q.cur = NONE /\ p.count > 0 /\ p.count \in p.blacklist
<1>0. p.count \in Nat /\ p.cur \in Nat /\ p.queue \in Nat /\ p.blacklist \in SUBSET Nat
  BY DEF Playlist
<1>1. CASE p.queue > 0
  <2>1. PICK n \in Nat : n = p.queue - 1
    BY <1>0, <1>1
  <2>2. q = [p EXCEPT !.queue = n]
    BY <1>1, <2>1 DEF playlist_next
  <2>3. q \in Playlist /\ q.count = p.count /\ q.blacklist = p.blacklist /\ q.cur = p.cur /\ q.queue = n
    BY <2>2 DEF Playlist
  <2> QED
    BY <1>0, <2>1, <2>3
<1>2. CASE p.queue = 0 /\ p.next_random
  <2>1. q = [p EXCEPT !.next_random = FALSE]
    BY <1>0, <1>2 DEF playlist_next
  <2>2. q \in Playlist /\ q.count = p.count /\ q.blacklist = p.blacklist /\ q.cur = p.cur /\ q.queue = p.queue
    BY <2>1 DEF Playlist
  <2> QED
    BY <1>0, <1>2, <2>2
<1>3. CASE p.queue = 0 /\ ~p.next_random
  <2>0. p.count > 0
    BY <1>0, <1>3
  <2>1. PICK from \in Nat : from < p.count /\ q = [p EXCEPT !.cur = Walk(p, from)]
    <3>1. CASE p.cur \in {0, p.count}
      <4>1. q = [p EXCEPT !.cur = Walk(p, 0)]
        BY <1>0, <1>3, <3>1 DEF playlist_next
      <4> QED
        BY <1>0, <2>0, <4>1
    <3>2. CASE p.cur \notin {0, p.count}
      <4>1. q = [p EXCEPT !.cur = Walk(p, p.cur)]
        BY <1>0, <1>3, <3>2 DEF playlist_next
      <4> QED
        BY <1>0, <3>2, <4>1
    <3> QED
      BY <3>1, <3>2
  <2>2. PICK w, ok : ok = {k \in from + 1 .. p.count : k \notin p.blacklist} /\ w = Walk(p, from)
    OBVIOUS
  <2>3. w = IF ok = {} THEN NONE ELSE Min(ok)
    BY <2>2 DEF Walk
  <2>4. q = [p EXCEPT !.cur = w]
    BY <2>1, <2>2
  <2>5. CASE ok = {}
    <3>1. p.count \in from + 1 .. p.count
      BY <1>0, <2>1
    <3>2. p.count \in p.blacklist
      BY <2>2, <2>5, <3>1
    <3>3. q.cur = NONE
      BY <2>3, <2>4, <2>5 DEF Playlist
    <3> QED
      BY <2>0, <3>2, <3>3
  <2>6. CASE ok # {}
    <3>1. ok \in SUBSET Nat
      BY <1>0, <2>2
    <3>2. w \in ok
      BY <2>3, <2>6, <3>1, MinIsMember
    <3>3. w \in Nat /\ w <= p.count
      BY <1>0, <2>2, <3>2
    <3>4. q \in Playlist /\ q.count = p.count /\ q.blacklist = p.blacklist /\ q.cur = w /\ q.queue = p.queue
      BY <2>4, <3>3 DEF Playlist
    <3> QED
      BY <1>0, <1>3, <3>3, <3>4
  <2> QED
    BY <2>5, <2>6
<1> QED
  BY <1>0, <1>1, <1>2, <1>3

LEMMA thread_testInv == ASSUME PlaylistInv, thread_test, UNCHANGED asked PROVE PlaylistInv'
  BY DEF PlaylistInv, TypeOK, StreamTypeOK, VotesTypeOK, QueueOK, AnnounceOK, TailOK, Loadedness,
     PlayOK, Silent, LoopsOK, Countdown, VotesAreTimed, UnloadIsClean, NoNullPointer, thread_test,
     stream_state, votes, rest

LEMMA cond_waitInv == ASSUME PlaylistInv, cond_wait, UNCHANGED asked PROVE PlaylistInv'
  BY DEF PlaylistInv, TypeOK, StreamTypeOK, VotesTypeOK, QueueOK, AnnounceOK, TailOK, Loadedness,
     PlayOK, Silent, LoopsOK, Countdown, VotesAreTimed, UnloadIsClean, NoNullPointer, cond_wait,
     stream_state, votes, rest

LEMMA stream_initInv == ASSUME PlaylistInv, stream_init, UNCHANGED asked PROVE PlaylistInv'
  BY DEF PlaylistInv, TypeOK, StreamTypeOK, VotesTypeOK, QueueOK, AnnounceOK, TailOK, Loadedness,
     PlayOK, Silent, LoopsOK, Countdown, VotesAreTimed, UnloadIsClean, NoNullPointer, stream_init,
     stream_state, votes, rest

LEMMA thread_loopInv == ASSUME PlaylistInv, thread_loop, UNCHANGED asked PROVE PlaylistInv'
  BY DEF PlaylistInv, TypeOK, StreamTypeOK, VotesTypeOK, QueueOK, AnnounceOK, TailOK, Loadedness,
     PlayOK, Silent, LoopsOK, Countdown, VotesAreTimed, UnloadIsClean, NoNullPointer, thread_loop,
     stream_state, votes, rest

LEMMA thread_flagsInv == ASSUME PlaylistInv, thread_flags, UNCHANGED asked PROVE PlaylistInv'
<1>s. StreamTypeOK'
  BY DEF PlaylistInv, votes, rest, thread_flags, TypeOK, StreamTypeOK, VotesTypeOK
<1>v. VotesTypeOK'
  BY DEF PlaylistInv, votes, rest, thread_flags, TypeOK, StreamTypeOK, VotesTypeOK
<1>1. TypeOK'
  BY <1>s, <1>v DEF PlaylistInv, votes, rest, thread_flags, TypeOK
<1>2. QueueOK'
  BY DEF PlaylistInv, QueueOK, votes, rest, TypeOK, StreamTypeOK, VotesTypeOK, thread_flags
<1>3. AnnounceOK'
  BY DEF PlaylistInv, AnnounceOK, votes, rest, TypeOK, StreamTypeOK, VotesTypeOK, thread_flags
<1>4. TailOK'
  BY DEF PlaylistInv, TailOK, votes, rest, TypeOK, StreamTypeOK, VotesTypeOK, thread_flags
<1>5. Loadedness'
  BY DEF PlaylistInv, Loadedness, votes, rest, TypeOK, StreamTypeOK, VotesTypeOK, thread_flags
<1>6. PlayOK'
  BY DEF PlaylistInv, PlayOK, Silent, votes, rest, TypeOK, StreamTypeOK, VotesTypeOK, thread_flags
<1>7. LoopsOK'
  BY DEF PlaylistInv, LoopsOK, Countdown, votes, rest, TypeOK, StreamTypeOK, VotesTypeOK, thread_flags
<1>8. VotesAreTimed'
  BY DEF PlaylistInv, VotesAreTimed, votes, rest, TypeOK, StreamTypeOK, VotesTypeOK, thread_flags
<1>9. UnloadIsClean'
  BY DEF PlaylistInv, UnloadIsClean, votes, rest, TypeOK, StreamTypeOK, VotesTypeOK, thread_flags
<1>10. NoNullPointer'
  BY DEF PlaylistInv, NoNullPointer, votes, rest, TypeOK, StreamTypeOK, VotesTypeOK, thread_flags
<1> QED
  BY <1>1, <1>2, <1>3, <1>4, <1>5, <1>6, <1>7, <1>8, <1>9, <1>10 DEF PlaylistInv

LEMMA thread_lockInv == ASSUME PlaylistInv, thread_lock, UNCHANGED asked PROVE PlaylistInv'
  BY DEF PlaylistInv, TypeOK, StreamTypeOK, VotesTypeOK, QueueOK, AnnounceOK, TailOK, Loadedness,
     PlayOK, Silent, LoopsOK, Countdown, VotesAreTimed, UnloadIsClean, NoNullPointer, thread_lock,
     stream_state, votes, rest

LEMMA thread_announceInv == ASSUME PlaylistInv, thread_announce, UNCHANGED asked PROVE PlaylistInv'
<1>a. thread = "announce" /\ announce_vote' = FALSE
  BY DEF thread_announce
<1>b. \/ /\ crashed' = TRUE /\ main' = "gone" /\ thread' = "ended" /\ ~announce_vote
         /\ UNCHANGED <<terminate, play, playing, skip, song_changed, left, playlist, votes, loop_funcs, scan, mishaps>>
      \/ /\ thread' = "song"
         /\ playlist' = IF playlist = NONE THEN NONE ELSE [playlist EXCEPT !.queue = @ + 1]
         /\ UNCHANGED <<main, terminate, play, playing, skip, song_changed, left, votes, rest>>
  BY DEF thread_announce, crash
<1>c. playlist # NONE => playlist \in Playlist /\ playlist.queue \in Nat /\ playlist.queue <= MaxQueue
  BY <1>a DEF PlaylistInv, TypeOK, StreamTypeOK, VotesTypeOK, QueueOK, Playlist
<1>d. \/ UNCHANGED playlist
      \/ /\ thread' = "song" /\ playlist # NONE /\ playlist' # NONE
         /\ playlist' \in Playlist
         /\ playlist'.count = playlist.count /\ playlist'.cur = playlist.cur /\ playlist'.blacklist = playlist.blacklist
         /\ playlist'.queue <= MaxQueue + 1
  <2>1. CASE playlist = NONE \/ UNCHANGED playlist
    BY <1>b, <2>1
  <2>2. CASE playlist # NONE /\ playlist' = [playlist EXCEPT !.queue = @ + 1] /\ thread' = "song"
    BY <1>c, <2>2, QueuedRecord, NotNone, ConstantsAssumption
  <2> QED
    BY <1>b, <2>1, <2>2
<1>e. "torn" \in mishaps \/ announce_vote
  BY <1>a DEF PlaylistInv, AnnounceOK
<1>f. \/ /\ crashed' = TRUE /\ main' = "gone" /\ thread' = "ended" /\ ~announce_vote
         /\ UNCHANGED <<terminate, play, playing, skip, song_changed, left, playlist, votes, loop_funcs, scan, mishaps>>
      \/ /\ thread' = "song"
         /\ UNCHANGED <<main, terminate, play, playing, skip, song_changed, left, votes, rest>>
  BY <1>b
<1>s. StreamTypeOK'
  BY <1>a, <1>d, <1>e, <1>f DEF PlaylistInv, votes, rest, TypeOK, StreamTypeOK, VotesTypeOK
<1>v. VotesTypeOK'
  BY <1>a, <1>d, <1>e, <1>f DEF PlaylistInv, votes, rest, TypeOK, StreamTypeOK, VotesTypeOK
<1>1. TypeOK'
  BY <1>s, <1>v, <1>a, <1>d, <1>e, <1>f DEF PlaylistInv, votes, rest, TypeOK
<1>2. QueueOK'
  BY <1>a, <1>d, <1>e, <1>f DEF PlaylistInv, QueueOK, votes, rest, TypeOK, StreamTypeOK, VotesTypeOK
<1>3. AnnounceOK'
  BY <1>a, <1>d, <1>e, <1>f DEF PlaylistInv, AnnounceOK, votes, rest, TypeOK, StreamTypeOK, VotesTypeOK
<1>4. TailOK'
  BY <1>a, <1>d, <1>e, <1>f DEF PlaylistInv, TailOK, votes, rest, TypeOK, StreamTypeOK, VotesTypeOK
<1>5. Loadedness'
  BY <1>a, <1>d, <1>e, <1>f DEF PlaylistInv, Loadedness, votes, rest, TypeOK, StreamTypeOK, VotesTypeOK
<1>6. PlayOK'
  BY <1>a, <1>d, <1>e, <1>f DEF PlaylistInv, PlayOK, Silent, votes, rest, TypeOK, StreamTypeOK, VotesTypeOK
<1>7. LoopsOK'
  BY <1>a, <1>d, <1>e, <1>f DEF PlaylistInv, LoopsOK, Countdown, votes, rest, TypeOK, StreamTypeOK,
     VotesTypeOK
<1>8. VotesAreTimed'
  BY <1>a, <1>d, <1>e, <1>f DEF PlaylistInv, VotesAreTimed, votes, rest, TypeOK, StreamTypeOK, VotesTypeOK
<1>9. UnloadIsClean'
  BY <1>a, <1>d, <1>e, <1>f DEF PlaylistInv, UnloadIsClean, votes, rest, TypeOK, StreamTypeOK, VotesTypeOK
<1>10. NoNullPointer'
  BY <1>a, <1>d, <1>e, <1>f DEF PlaylistInv, NoNullPointer, votes, rest, TypeOK, StreamTypeOK, VotesTypeOK
<1> QED
  BY <1>1, <1>2, <1>3, <1>4, <1>5, <1>6, <1>7, <1>8, <1>9, <1>10 DEF PlaylistInv

LEMMA thread_songInv == ASSUME PlaylistInv, thread_song, UNCHANGED asked PROVE PlaylistInv'
<1>a. thread = "song" /\ UNCHANGED announce_vote
  BY DEF thread_song
<1>b. /\ playlist # NONE => playlist \in Playlist /\ playlist.queue \in Nat /\ playlist.queue <= MaxQueue + 1
                             /\ playlist.cur <= playlist.count
  BY DEF PlaylistInv, TypeOK, StreamTypeOK, VotesTypeOK, Playlist
<1>1. ASSUME playlist = NONE \/ (playlist.count = 0 /\ playlist.queue = 0 /\ ~playlist.next_random)
      PROVE PlaylistInv'
  <2>a. /\ thread' = "stop"
        /\ UNCHANGED <<main, song_changed, left, playlist, crashed, terminate, play, playing, skip, loop_funcs, scan, mishaps, votes>>
    BY <1>1 DEF thread_song
  <2>b. playlist # NONE => playlist.queue <= MaxQueue
    BY <1>1, ConstantsAssumption
  <2> QED
    BY <1>a, <2>a, <2>b DEF PlaylistInv, TypeOK, StreamTypeOK, VotesTypeOK, votes, QueueOK, AnnounceOK,
       TailOK, Loadedness, PlayOK, Silent, LoopsOK, Countdown, VotesAreTimed, UnloadIsClean,
       NoNullPointer
<1>2. ASSUME ~(playlist = NONE \/ (playlist.count = 0 /\ playlist.queue = 0 /\ ~playlist.next_random)), playlist_next(playlist).cur = NONE
      PROVE PlaylistInv'
  <2>a. /\ crashed' = TRUE /\ main' = "gone" /\ thread' = "ended" /\ UNCHANGED song_changed
        /\ UNCHANGED <<terminate, play, playing, skip, left, playlist, votes, loop_funcs, scan, mishaps>>
    BY <1>2 DEF thread_song, crash
  <2>b. playlist # NONE /\ playlist.count # 0 /\ playlist.count \in playlist.blacklist
    <3>1. PICK q : q = playlist_next(playlist)
      OBVIOUS
    <3>2. q.cur = NONE /\ ~(q \in Playlist)
      BY <1>2, <3>1, ConstantsAssumption DEF Playlist
    <3> QED
      BY <1>b, <1>2, <3>1, <3>2, NextSong
  <2>c. "tail" \in mishaps
    BY <2>b DEF PlaylistInv, TailOK
  <2>d. playlist.queue <= MaxQueue
    <3>1. CASE playlist.queue > 0
      <4>1. playlist_next(playlist) = [playlist EXCEPT !.queue = playlist.queue - 1]
        BY <3>1 DEF playlist_next
      <4>2. playlist_next(playlist).cur = playlist.cur /\ playlist.cur \in Nat
        BY <1>b, <2>b, <4>1 DEF Playlist
      <4> QED
        BY <1>2, <4>2, ConstantsAssumption
    <3>2. CASE ~(playlist.queue > 0)
      BY <1>b, <2>b, <3>2, ConstantsAssumption
    <3> QED
      BY <3>1, <3>2
  <2> QED
    BY <1>a, <2>a, <2>b, <2>c, <2>d DEF PlaylistInv, TypeOK, StreamTypeOK, VotesTypeOK, votes, QueueOK,
       AnnounceOK, TailOK, Loadedness, PlayOK, Silent, LoopsOK, Countdown, VotesAreTimed, UnloadIsClean,
       NoNullPointer
<1>3. ASSUME ~(playlist = NONE \/ (playlist.count = 0 /\ playlist.queue = 0 /\ ~playlist.next_random)), playlist_next(playlist).cur # NONE
      PROVE PlaylistInv'
  <2>a. /\ playlist' = playlist_next(playlist) /\ song_changed' = TRUE /\ left' \in 2..3 /\ thread' = "stream"
        /\ UNCHANGED <<main, terminate, play, playing, skip, votes, rest>>
    BY <1>3 DEF thread_song
  <2>b. /\ playlist' \in Playlist /\ playlist'.count = playlist.count /\ playlist'.blacklist = playlist.blacklist
        /\ playlist'.cur <= playlist'.count /\ playlist'.queue <= playlist.queue
        /\ playlist.queue > 0 => playlist'.queue = playlist.queue - 1
    <3>1. PICK q : q = playlist_next(playlist)
      OBVIOUS
    <3> QED
      BY <1>b, <1>3, <2>a, <3>1, NextSong
  <2>c. playlist'.queue <= MaxQueue /\ playlist'.queue <= MaxQueue + 1
    <3>1. playlist'.queue \in Nat
      BY <2>b DEF Playlist
    <3> QED
      BY <1>b, <1>3, <2>b, <3>1, ConstantsAssumption
  <2>d. playlist # NONE /\ playlist' # NONE
    BY <1>3, <2>b, NotNone
  <2>e. left' \in 0..3 /\ thread' = "stream" /\ song_changed' = TRUE
        /\ UNCHANGED <<main, terminate, play, playing, skip, votes, rest>>
    BY <2>a
  <2> QED
    BY <1>a, <2>b, <2>c, <2>d, <2>e DEF PlaylistInv, TypeOK, StreamTypeOK, VotesTypeOK, votes, rest,
       QueueOK, AnnounceOK, TailOK, Loadedness, PlayOK, Silent, LoopsOK, Countdown, VotesAreTimed,
       UnloadIsClean, NoNullPointer
<1> QED
  BY <1>1, <1>2, <1>3

LEMMA stream_songInv == ASSUME PlaylistInv, stream_song, UNCHANGED asked PROVE PlaylistInv'
<1>s. StreamTypeOK'
  BY DEF PlaylistInv, votes, rest, stream_song, TypeOK, StreamTypeOK, VotesTypeOK
<1>v. VotesTypeOK'
  BY DEF PlaylistInv, votes, rest, stream_song, TypeOK, StreamTypeOK, VotesTypeOK
<1>1. TypeOK'
  BY <1>s, <1>v DEF PlaylistInv, votes, rest, stream_song, TypeOK
<1>2. QueueOK'
  BY DEF PlaylistInv, QueueOK, votes, rest, TypeOK, StreamTypeOK, VotesTypeOK, stream_song
<1>3. AnnounceOK'
  BY DEF PlaylistInv, AnnounceOK, votes, rest, TypeOK, StreamTypeOK, VotesTypeOK, stream_song
<1>4. TailOK'
  BY DEF PlaylistInv, TailOK, votes, rest, TypeOK, StreamTypeOK, VotesTypeOK, stream_song
<1>5. Loadedness'
  BY DEF PlaylistInv, Loadedness, votes, rest, TypeOK, StreamTypeOK, VotesTypeOK, stream_song
<1>6. PlayOK'
  BY DEF PlaylistInv, PlayOK, Silent, votes, rest, TypeOK, StreamTypeOK, VotesTypeOK, stream_song
<1>7. LoopsOK'
  BY DEF PlaylistInv, LoopsOK, Countdown, votes, rest, TypeOK, StreamTypeOK, VotesTypeOK, stream_song
<1>8. VotesAreTimed'
  BY DEF PlaylistInv, VotesAreTimed, votes, rest, TypeOK, StreamTypeOK, VotesTypeOK, stream_song
<1>9. UnloadIsClean'
  BY DEF PlaylistInv, UnloadIsClean, votes, rest, TypeOK, StreamTypeOK, VotesTypeOK, stream_song
<1>10. NoNullPointer'
  BY DEF PlaylistInv, NoNullPointer, votes, rest, TypeOK, StreamTypeOK, VotesTypeOK, stream_song
<1> QED
  BY <1>1, <1>2, <1>3, <1>4, <1>5, <1>6, <1>7, <1>8, <1>9, <1>10 DEF PlaylistInv

LEMMA thread_stopInv == ASSUME PlaylistInv, thread_stop, UNCHANGED asked PROVE PlaylistInv'
<1>t. play' \in 0..2
  BY DEF PlaylistInv, votes, rest, thread_stopped, thread_stop, TypeOK, StreamTypeOK, VotesTypeOK
<1>u. left' \in 0..3
  BY DEF PlaylistInv, votes, rest, thread_stopped, thread_stop, TypeOK, StreamTypeOK, VotesTypeOK
<1>w. {terminate, playing, skip, song_changed, announce_vote, crashed}' \subseteq BOOLEAN
  BY DEF PlaylistInv, votes, rest, thread_stopped, thread_stop, TypeOK, StreamTypeOK, VotesTypeOK
<1>s. StreamTypeOK'
  BY <1>t, <1>u, <1>w DEF StreamTypeOK
<1>v. VotesTypeOK'
  BY DEF PlaylistInv, votes, rest, thread_stopped, thread_stop, TypeOK, StreamTypeOK, VotesTypeOK
<1>1. TypeOK'
  BY <1>s, <1>v DEF PlaylistInv, votes, rest, thread_stopped, thread_stop, TypeOK
<1>2. QueueOK'
  BY DEF PlaylistInv, QueueOK, votes, rest, thread_stopped, TypeOK, StreamTypeOK, VotesTypeOK, thread_stop
<1>3. AnnounceOK'
  BY DEF PlaylistInv, AnnounceOK, votes, rest, thread_stopped, TypeOK, StreamTypeOK, VotesTypeOK,
     thread_stop
<1>4. TailOK'
  BY DEF PlaylistInv, TailOK, votes, rest, thread_stopped, TypeOK, StreamTypeOK, VotesTypeOK, thread_stop
<1>5. Loadedness'
  BY DEF PlaylistInv, Loadedness, votes, rest, thread_stopped, TypeOK, StreamTypeOK, VotesTypeOK,
     thread_stop
<1>6. PlayOK'
  BY DEF PlaylistInv, PlayOK, Silent, votes, rest, thread_stopped, TypeOK, StreamTypeOK, VotesTypeOK,
     thread_stop
<1>7. LoopsOK'
  BY DEF PlaylistInv, LoopsOK, Countdown, votes, rest, thread_stopped, TypeOK, StreamTypeOK,
     VotesTypeOK, thread_stop
<1>8. VotesAreTimed'
  BY DEF PlaylistInv, VotesAreTimed, votes, rest, thread_stopped, TypeOK, StreamTypeOK, VotesTypeOK,
     thread_stop
<1>9. UnloadIsClean'
  BY DEF PlaylistInv, UnloadIsClean, votes, rest, thread_stopped, TypeOK, StreamTypeOK, VotesTypeOK,
     thread_stop
<1>10. NoNullPointer'
  BY DEF PlaylistInv, NoNullPointer, votes, rest, thread_stopped, TypeOK, StreamTypeOK, VotesTypeOK,
     thread_stop
<1> QED
  BY <1>1, <1>2, <1>3, <1>4, <1>5, <1>6, <1>7, <1>8, <1>9, <1>10 DEF PlaylistInv

LEMMA SecondInv == ASSUME PlaylistInv, Second, UNCHANGED asked PROVE PlaylistInv'
  BY DEF PlaylistInv, TypeOK, StreamTypeOK, VotesTypeOK, QueueOK, AnnounceOK, TailOK, Loadedness,
     PlayOK, Silent, LoopsOK, Countdown, VotesAreTimed, UnloadIsClean, NoNullPointer, Second,
     stream_state, votes, rest

LEMMA playlist_songvoteInv == ASSUME PlaylistInv, playlist_songvote, UNCHANGED asked PROVE PlaylistInv'
<1>a. /\ Idle /\ playing /\ playlist # NONE
      /\ UNCHANGED <<main, thread, stream_state, left, playlist, genre_vote, rest>>
  BY DEF playlist_songvote, Asked
<1>b. PICK v : /\ v = [song_vote EXCEPT !.enabled = TRUE]
               /\ IF song_changed THEN song_vote' = v /\ UNCHANGED timers ELSE SongVoteNext(v, FALSE, timers)
  BY DEF playlist_songvote
<1>c. /\ song_vote \in [enabled : BOOLEAN, active : BOOLEAN] /\ timers \subseteq {"songvote_finish", "genrevote_finish"}
      /\ song_vote.active <=> "songvote_finish" \in timers
  BY <1>a DEF PlaylistInv, TypeOK, StreamTypeOK, VotesTypeOK, VotesAreTimed, Idle
<1>d. v \in [enabled : BOOLEAN, active : BOOLEAN] /\ (v.active <=> song_vote.active)
  BY <1>b, <1>c
<1>e. /\ song_vote' \in [enabled : BOOLEAN, active : BOOLEAN]
      /\ timers' \subseteq {"songvote_finish", "genrevote_finish"}
      /\ song_vote'.active <=> "songvote_finish" \in timers'
      /\ "genrevote_finish" \in timers' <=> "genrevote_finish" \in timers
  BY <1>b, <1>c, <1>d, SongVoteStep
<1> QED
  BY <1>a, <1>e DEF PlaylistInv, TypeOK, StreamTypeOK, VotesTypeOK, Idle, stream_state, rest, QueueOK,
     AnnounceOK, TailOK, Loadedness, PlayOK, Silent, LoopsOK, Countdown, VotesAreTimed, UnloadIsClean,
     NoNullPointer

LEMMA songvote_finishInv == ASSUME PlaylistInv, songvote_finish, UNCHANGED asked PROVE PlaylistInv'
<1>a. song_vote.active /\ playlist \in Playlist
  BY DEF songvote_finish, Idle, PlaylistInv, TypeOK, StreamTypeOK, VotesTypeOK, VotesAreTimed, Loadedness
<1>p. PICK q : q = [playlist EXCEPT !.queue = @ + 1]
  OBVIOUS
<1>r. /\ q \in Playlist /\ q # NONE
      /\ q.count = playlist.count /\ q.cur = playlist.cur /\ q.blacklist = playlist.blacklist /\ q.queue = playlist.queue + 1
  BY <1>a, <1>p, QueuedRecord, NotNone
<1>s. /\ songvote_reset(song_vote) \in [enabled : BOOLEAN, active : BOOLEAN] /\ ~songvote_reset(song_vote).active
      /\ NoSongVote \in [enabled : BOOLEAN, active : BOOLEAN] /\ ~NoSongVote.active
  BY DEF NoSongVote, songvote_reset, PlaylistInv, TypeOK, StreamTypeOK, VotesTypeOK
<1>t. /\ main = "idle" /\ timers' = timers \ {"songvote_finish"} /\ song_vote' \in {songvote_reset(song_vote), NoSongVote}
      /\ \/ playlist' = q /\ playlist.queue < MaxQueue /\ thread \notin {"announce", "song"}
         \/ UNCHANGED playlist
      /\ UNCHANGED <<main, thread, stream_state, left, genre_vote, rest>>
  BY <1>p DEF songvote_finish, Idle, Locked
<1>u. /\ playlist' \in Playlist /\ playlist' # NONE /\ playlist'.cur <= playlist'.count /\ playlist'.queue <= MaxQueue + 1
      /\ playlist'.count = playlist.count /\ playlist'.blacklist = playlist.blacklist
      /\ playlist # NONE /\ (thread # "song" => playlist'.queue <= MaxQueue)
  <2>1. playlist.queue \in Nat /\ playlist # NONE
    BY <1>a, NotNone DEF Playlist
  <2> QED
    BY <1>a, <1>r, <1>t, <2>1, ConstantsAssumption DEF PlaylistInv, TypeOK, StreamTypeOK, VotesTypeOK,
       QueueOK
<1> QED
  BY <1>s, <1>t, <1>u DEF PlaylistInv, TypeOK, StreamTypeOK, VotesTypeOK, stream_state, rest, QueueOK,
     AnnounceOK, TailOK, Loadedness, PlayOK, Silent, LoopsOK, Countdown, VotesAreTimed, UnloadIsClean,
     NoNullPointer

LEMMA playlist_cancelvote_songInv ==
    ASSUME PlaylistInv, playlist_cancelvote_song, UNCHANGED asked
    PROVE PlaylistInv'
  BY DEF PlaylistInv, TypeOK, StreamTypeOK, VotesTypeOK, QueueOK, AnnounceOK, TailOK, Loadedness,
     PlayOK, Silent, LoopsOK, Countdown, VotesAreTimed, UnloadIsClean, NoNullPointer,
     playlist_cancelvote_song, Idle, Asked, stream_state, rest, NoSongVote

LEMMA start_genrevoteInv == ASSUME PlaylistInv, start_genrevote, UNCHANGED asked PROVE PlaylistInv'
<1>s. StreamTypeOK'
  BY DEF PlaylistInv, Idle, Asked, rest, songvote_reset, cancel_song_vote, start_genrevote, TypeOK,
     StreamTypeOK, VotesTypeOK
<1>v. VotesTypeOK'
  BY DEF PlaylistInv, Idle, Asked, rest, songvote_reset, cancel_song_vote, start_genrevote, TypeOK,
     StreamTypeOK, VotesTypeOK
<1>1. TypeOK'
  BY <1>s, <1>v DEF PlaylistInv, Idle, Asked, rest, songvote_reset, cancel_song_vote, start_genrevote,
     TypeOK
<1>2. QueueOK'
  BY DEF PlaylistInv, QueueOK, Idle, Asked, rest, songvote_reset, cancel_song_vote, TypeOK,
     StreamTypeOK, VotesTypeOK, start_genrevote
<1>3. AnnounceOK'
  BY DEF PlaylistInv, AnnounceOK, Idle, Asked, rest, songvote_reset, cancel_song_vote, TypeOK,
     StreamTypeOK, VotesTypeOK, start_genrevote
<1>4. TailOK'
  BY DEF PlaylistInv, TailOK, Idle, Asked, rest, songvote_reset, cancel_song_vote, TypeOK, StreamTypeOK,
     VotesTypeOK, start_genrevote
<1>5. Loadedness'
  BY DEF PlaylistInv, Loadedness, Idle, Asked, rest, songvote_reset, cancel_song_vote, TypeOK,
     StreamTypeOK, VotesTypeOK, start_genrevote
<1>6. PlayOK'
  BY DEF PlaylistInv, PlayOK, Silent, Idle, Asked, rest, songvote_reset, cancel_song_vote, TypeOK,
     StreamTypeOK, VotesTypeOK, start_genrevote
<1>7. LoopsOK'
  BY DEF PlaylistInv, LoopsOK, Countdown, Idle, Asked, rest, songvote_reset, cancel_song_vote, TypeOK,
     StreamTypeOK, VotesTypeOK, start_genrevote
<1>8. VotesAreTimed'
  BY DEF PlaylistInv, VotesAreTimed, Idle, Asked, rest, songvote_reset, cancel_song_vote, TypeOK,
     StreamTypeOK, VotesTypeOK, start_genrevote
<1>9. UnloadIsClean'
  BY DEF PlaylistInv, UnloadIsClean, Idle, Asked, rest, songvote_reset, cancel_song_vote, TypeOK,
     StreamTypeOK, VotesTypeOK, start_genrevote
<1>10. NoNullPointer'
  BY DEF PlaylistInv, NoNullPointer, Idle, Asked, rest, songvote_reset, cancel_song_vote, TypeOK,
     StreamTypeOK, VotesTypeOK, start_genrevote
<1> QED
  BY <1>1, <1>2, <1>3, <1>4, <1>5, <1>6, <1>7, <1>8, <1>9, <1>10 DEF PlaylistInv

LEMMA genrevote_genresInv == ASSUME PlaylistInv, genrevote_genres, UNCHANGED asked PROVE PlaylistInv'
<1>s. StreamTypeOK'
  BY DEF PlaylistInv, genrevote_withdraw, genrevote_reset, genrevote_genres, TypeOK, StreamTypeOK,
     VotesTypeOK
<1>v. VotesTypeOK'
  BY DEF PlaylistInv, genrevote_withdraw, genrevote_reset, genrevote_genres, TypeOK, StreamTypeOK,
     VotesTypeOK
<1>1. TypeOK'
  BY <1>s, <1>v DEF PlaylistInv, genrevote_withdraw, genrevote_reset, genrevote_genres, TypeOK
<1>2. QueueOK'
  BY DEF PlaylistInv, QueueOK, genrevote_withdraw, genrevote_reset, TypeOK, StreamTypeOK, VotesTypeOK,
     genrevote_genres
<1>3. AnnounceOK'
  BY DEF PlaylistInv, AnnounceOK, genrevote_withdraw, genrevote_reset, TypeOK, StreamTypeOK,
     VotesTypeOK, genrevote_genres
<1>4. TailOK'
  BY DEF PlaylistInv, TailOK, genrevote_withdraw, genrevote_reset, TypeOK, StreamTypeOK, VotesTypeOK,
     genrevote_genres
<1>5. Loadedness'
  BY DEF PlaylistInv, Loadedness, genrevote_withdraw, genrevote_reset, TypeOK, StreamTypeOK,
     VotesTypeOK, genrevote_genres
<1>6. PlayOK'
  BY DEF PlaylistInv, PlayOK, Silent, genrevote_withdraw, genrevote_reset, TypeOK, StreamTypeOK,
     VotesTypeOK, genrevote_genres
<1>7. LoopsOK'
  BY DEF PlaylistInv, LoopsOK, Countdown, genrevote_withdraw, genrevote_reset, TypeOK, StreamTypeOK,
     VotesTypeOK, genrevote_genres
<1>8. VotesAreTimed'
  BY DEF PlaylistInv, VotesAreTimed, genrevote_withdraw, genrevote_reset, TypeOK, StreamTypeOK,
     VotesTypeOK, genrevote_genres
<1>9. UnloadIsClean'
  BY DEF PlaylistInv, UnloadIsClean, genrevote_withdraw, genrevote_reset, TypeOK, StreamTypeOK,
     VotesTypeOK, genrevote_genres
<1>10. NoNullPointer'
  BY DEF PlaylistInv, NoNullPointer, genrevote_withdraw, genrevote_reset, TypeOK, StreamTypeOK,
     VotesTypeOK, genrevote_genres
<1> QED
  BY <1>1, <1>2, <1>3, <1>4, <1>5, <1>6, <1>7, <1>8, <1>9, <1>10 DEF PlaylistInv

LEMMA playlist_cancelvote_genreInv ==
    ASSUME PlaylistInv, playlist_cancelvote_genre, UNCHANGED asked
    PROVE PlaylistInv'
<1>s. StreamTypeOK'
  BY DEF PlaylistInv, Idle, Asked, genrevote_withdraw, genrevote_reset, playlist_cancelvote_genre,
     TypeOK, StreamTypeOK, VotesTypeOK
<1>v. VotesTypeOK'
  BY DEF PlaylistInv, Idle, Asked, genrevote_withdraw, genrevote_reset, playlist_cancelvote_genre,
     TypeOK, StreamTypeOK, VotesTypeOK
<1>1. TypeOK'
  BY <1>s, <1>v DEF PlaylistInv, Idle, Asked, genrevote_withdraw, genrevote_reset,
     playlist_cancelvote_genre, TypeOK
<1>2. QueueOK'
  BY DEF PlaylistInv, QueueOK, Idle, Asked, genrevote_withdraw, genrevote_reset, TypeOK, StreamTypeOK,
     VotesTypeOK, playlist_cancelvote_genre
<1>3. AnnounceOK'
  BY DEF PlaylistInv, AnnounceOK, Idle, Asked, genrevote_withdraw, genrevote_reset, TypeOK,
     StreamTypeOK, VotesTypeOK, playlist_cancelvote_genre
<1>4. TailOK'
  BY DEF PlaylistInv, TailOK, Idle, Asked, genrevote_withdraw, genrevote_reset, TypeOK, StreamTypeOK,
     VotesTypeOK, playlist_cancelvote_genre
<1>5. Loadedness'
  BY DEF PlaylistInv, Loadedness, Idle, Asked, genrevote_withdraw, genrevote_reset, TypeOK,
     StreamTypeOK, VotesTypeOK, playlist_cancelvote_genre
<1>6. PlayOK'
  BY DEF PlaylistInv, PlayOK, Silent, Idle, Asked, genrevote_withdraw, genrevote_reset, TypeOK,
     StreamTypeOK, VotesTypeOK, playlist_cancelvote_genre
<1>7. LoopsOK'
  BY DEF PlaylistInv, LoopsOK, Countdown, Idle, Asked, genrevote_withdraw, genrevote_reset, TypeOK,
     StreamTypeOK, VotesTypeOK, playlist_cancelvote_genre
<1>8. VotesAreTimed'
  BY DEF PlaylistInv, VotesAreTimed, Idle, Asked, genrevote_withdraw, genrevote_reset, TypeOK,
     StreamTypeOK, VotesTypeOK, playlist_cancelvote_genre
<1>9. UnloadIsClean'
  BY DEF PlaylistInv, UnloadIsClean, Idle, Asked, genrevote_withdraw, genrevote_reset, TypeOK,
     StreamTypeOK, VotesTypeOK, playlist_cancelvote_genre
<1>10. NoNullPointer'
  BY DEF PlaylistInv, NoNullPointer, Idle, Asked, genrevote_withdraw, genrevote_reset, TypeOK,
     StreamTypeOK, VotesTypeOK, playlist_cancelvote_genre
<1> QED
  BY <1>1, <1>2, <1>3, <1>4, <1>5, <1>6, <1>7, <1>8, <1>9, <1>10 DEF PlaylistInv

LEMMA genrevote_finishInv == ASSUME PlaylistInv, genrevote_finish, UNCHANGED asked PROVE PlaylistInv'
<1>a. /\ main = "idle" /\ ~genre_vote' /\ genre_vote' \in BOOLEAN
      /\ UNCHANGED <<main, thread, stream_state, left, rest>>
  BY DEF genrevote_finish, Idle
<1>b. PICK t : /\ t = timers \ {"genrevote_finish"}
               /\ IF song_changed THEN timers' = t /\ UNCHANGED song_vote ELSE SongVoteNext(song_vote, FALSE, t)
  BY DEF genrevote_finish
<1>c. /\ song_vote \in [enabled : BOOLEAN, active : BOOLEAN] /\ t \subseteq {"songvote_finish", "genrevote_finish"}
      /\ song_vote.active <=> "songvote_finish" \in t
      /\ "genrevote_finish" \notin t
  BY <1>a, <1>b DEF PlaylistInv, TypeOK, StreamTypeOK, VotesTypeOK, VotesAreTimed
<1>e. /\ song_vote' \in [enabled : BOOLEAN, active : BOOLEAN]
      /\ timers' \subseteq {"songvote_finish", "genrevote_finish"}
      /\ song_vote'.active <=> "songvote_finish" \in timers'
      /\ "genrevote_finish" \notin timers'
      /\ song_vote'.active => song_vote.active \/ playing
  BY <1>b, <1>c, SongVoteStep
<1>f. UNCHANGED playlist \/ (thread \notin {"announce", "song"} /\ playlist' = Loaded(Songs))
  BY DEF genrevote_finish, Locked
<1>g. \/ UNCHANGED playlist
      \/ /\ playlist' \in Playlist /\ playlist' # NONE /\ playlist'.cur <= playlist'.count
         /\ playlist'.queue <= MaxQueue /\ playlist'.queue <= MaxQueue + 1 /\ playlist'.count \notin playlist'.blacklist
  BY <1>f, LoadedRecord, NotNone, ConstantsAssumption
<1> QED
  BY <1>a, <1>e, <1>g DEF PlaylistInv, TypeOK, StreamTypeOK, VotesTypeOK, stream_state, rest, QueueOK,
     AnnounceOK, TailOK, Loadedness, PlayOK, Silent, LoopsOK, Countdown, VotesAreTimed, UnloadIsClean,
     NoNullPointer

LEMMA playlist_onInv == ASSUME PlaylistInv, playlist_on, UNCHANGED asked PROVE PlaylistInv'
<1>s. StreamTypeOK'
  BY DEF PlaylistInv, Idle, Asked, votes, Countdown, playlist_on, TypeOK, StreamTypeOK, VotesTypeOK
<1>v. VotesTypeOK'
  BY DEF PlaylistInv, Idle, Asked, votes, Countdown, playlist_on, TypeOK, StreamTypeOK, VotesTypeOK
<1>1. TypeOK'
  BY <1>s, <1>v DEF PlaylistInv, Idle, Asked, votes, Countdown, playlist_on, TypeOK
<1>2. QueueOK'
  BY DEF PlaylistInv, QueueOK, Idle, Asked, votes, Countdown, TypeOK, StreamTypeOK, VotesTypeOK, playlist_on
<1>3. AnnounceOK'
  BY DEF PlaylistInv, AnnounceOK, Idle, Asked, votes, Countdown, TypeOK, StreamTypeOK, VotesTypeOK,
     playlist_on
<1>4. TailOK'
  BY DEF PlaylistInv, TailOK, Idle, Asked, votes, Countdown, TypeOK, StreamTypeOK, VotesTypeOK, playlist_on
<1>5. Loadedness'
  BY DEF PlaylistInv, Loadedness, Idle, Asked, votes, Countdown, TypeOK, StreamTypeOK, VotesTypeOK,
     playlist_on
<1>6. PlayOK'
  BY DEF PlaylistInv, PlayOK, Silent, Idle, Asked, votes, Countdown, TypeOK, StreamTypeOK, VotesTypeOK,
     playlist_on
<1>7. LoopsOK'
  BY DEF PlaylistInv, LoopsOK, Countdown, Idle, Asked, votes, TypeOK, StreamTypeOK, VotesTypeOK, playlist_on
<1>8. VotesAreTimed'
  BY DEF PlaylistInv, VotesAreTimed, Idle, Asked, votes, Countdown, TypeOK, StreamTypeOK, VotesTypeOK,
     playlist_on
<1>9. UnloadIsClean'
  BY DEF PlaylistInv, UnloadIsClean, Idle, Asked, votes, Countdown, TypeOK, StreamTypeOK, VotesTypeOK,
     playlist_on
<1>10. NoNullPointer'
  BY DEF PlaylistInv, NoNullPointer, Idle, Asked, votes, Countdown, TypeOK, StreamTypeOK, VotesTypeOK,
     playlist_on
<1> QED
  BY <1>1, <1>2, <1>3, <1>4, <1>5, <1>6, <1>7, <1>8, <1>9, <1>10 DEF PlaylistInv

LEMMA playlist_on_keepInv == ASSUME PlaylistInv, playlist_on_keep, UNCHANGED asked PROVE PlaylistInv'
  BY DEF PlaylistInv, TypeOK, StreamTypeOK, VotesTypeOK, QueueOK, AnnounceOK, TailOK, Loadedness,
     PlayOK, Silent, LoopsOK, Countdown, VotesAreTimed, UnloadIsClean, NoNullPointer, playlist_on_keep,
     votes, stop_countdown, LeftLoop

LEMMA signalInv == ASSUME PlaylistInv, signal, UNCHANGED asked PROVE PlaylistInv'
  BY DEF PlaylistInv, TypeOK, StreamTypeOK, VotesTypeOK, QueueOK, AnnounceOK, TailOK, Loadedness,
     PlayOK, Silent, LoopsOK, Countdown, VotesAreTimed, UnloadIsClean, NoNullPointer, signal,
     stream_state, votes, wake

LEMMA playlist_on_startedInv == ASSUME PlaylistInv, playlist_on_started, UNCHANGED asked PROVE PlaylistInv'
  BY DEF PlaylistInv, TypeOK, StreamTypeOK, VotesTypeOK, QueueOK, AnnounceOK, TailOK, Loadedness,
     PlayOK, Silent, LoopsOK, Countdown, VotesAreTimed, UnloadIsClean, NoNullPointer,
     playlist_on_started, stream_state, votes, rest

LEMMA playlist_offInv == ASSUME PlaylistInv, playlist_off, UNCHANGED asked PROVE PlaylistInv'
  BY DEF PlaylistInv, TypeOK, StreamTypeOK, VotesTypeOK, QueueOK, AnnounceOK, TailOK, Loadedness,
     PlayOK, Silent, LoopsOK, Countdown, VotesAreTimed, UnloadIsClean, NoNullPointer, playlist_off,
     Idle, Asked, votes, stop_countdown

LEMMA playlist_off_stoppedInv ==
    ASSUME PlaylistInv, playlist_off_stopped, UNCHANGED asked
    PROVE PlaylistInv'
<1>s. StreamTypeOK'
  BY DEF PlaylistInv, votes, cancel_votes, genrevote_withdraw, NoSongVote, playlist_off_stopped, TypeOK,
     StreamTypeOK, VotesTypeOK
<1>a. NoSongVote \in [enabled : BOOLEAN, active : BOOLEAN]
  BY DEF NoSongVote
<1>b. song_vote' = song_vote \/ song_vote' = NoSongVote
  BY DEF playlist_off_stopped, cancel_votes, votes
<1>t. song_vote' \in [enabled : BOOLEAN, active : BOOLEAN]
  BY <1>a, <1>b DEF PlaylistInv, TypeOK, VotesTypeOK
<1>u. genre_vote' \in BOOLEAN
  BY DEF PlaylistInv, votes, cancel_votes, genrevote_withdraw, NoSongVote, playlist_off_stopped, TypeOK,
     StreamTypeOK, VotesTypeOK
<1>w. timers' \subseteq {"songvote_finish", "genrevote_finish"}
  BY DEF PlaylistInv, votes, cancel_votes, genrevote_withdraw, NoSongVote, playlist_off_stopped, TypeOK,
     StreamTypeOK, VotesTypeOK
<1>v. VotesTypeOK'
  BY <1>t, <1>u, <1>w DEF VotesTypeOK
<1>1. TypeOK'
  BY <1>s, <1>v DEF PlaylistInv, votes, cancel_votes, genrevote_withdraw, NoSongVote,
     playlist_off_stopped, TypeOK
<1>2. QueueOK'
  BY DEF PlaylistInv, QueueOK, votes, cancel_votes, genrevote_withdraw, NoSongVote, TypeOK,
     StreamTypeOK, VotesTypeOK, playlist_off_stopped
<1>3. AnnounceOK'
  BY DEF PlaylistInv, AnnounceOK, votes, cancel_votes, genrevote_withdraw, NoSongVote, TypeOK,
     StreamTypeOK, VotesTypeOK, playlist_off_stopped
<1>4. TailOK'
  BY DEF PlaylistInv, TailOK, votes, cancel_votes, genrevote_withdraw, NoSongVote, TypeOK, StreamTypeOK,
     VotesTypeOK, playlist_off_stopped
<1>5. Loadedness'
  BY DEF PlaylistInv, Loadedness, votes, cancel_votes, genrevote_withdraw, NoSongVote, TypeOK,
     StreamTypeOK, VotesTypeOK, playlist_off_stopped
<1>6. PlayOK'
  BY DEF PlaylistInv, PlayOK, Silent, votes, cancel_votes, genrevote_withdraw, NoSongVote, TypeOK,
     StreamTypeOK, VotesTypeOK, playlist_off_stopped
<1>7. LoopsOK'
  BY DEF PlaylistInv, LoopsOK, Countdown, votes, cancel_votes, genrevote_withdraw, NoSongVote, TypeOK,
     StreamTypeOK, VotesTypeOK, playlist_off_stopped
<1>8. VotesAreTimed'
  BY DEF PlaylistInv, VotesAreTimed, votes, cancel_votes, genrevote_withdraw, NoSongVote, TypeOK,
     StreamTypeOK, VotesTypeOK, playlist_off_stopped
<1>9. UnloadIsClean'
  BY DEF PlaylistInv, UnloadIsClean, votes, cancel_votes, genrevote_withdraw, NoSongVote, TypeOK,
     StreamTypeOK, VotesTypeOK, playlist_off_stopped
<1>10. NoNullPointer'
  BY DEF PlaylistInv, NoNullPointer, votes, cancel_votes, genrevote_withdraw, NoSongVote, TypeOK,
     StreamTypeOK, VotesTypeOK, playlist_off_stopped
<1> QED
  BY <1>1, <1>2, <1>3, <1>4, <1>5, <1>6, <1>7, <1>8, <1>9, <1>10 DEF PlaylistInv

LEMMA playlist_countdownInv == ASSUME PlaylistInv, playlist_countdown, UNCHANGED asked PROVE PlaylistInv'
  BY DEF PlaylistInv, TypeOK, StreamTypeOK, VotesTypeOK, QueueOK, AnnounceOK, TailOK, Loadedness,
     PlayOK, Silent, LoopsOK, Countdown, VotesAreTimed, UnloadIsClean, NoNullPointer,
     playlist_countdown, Idle, Asked, stream_state, votes

LEMMA playlist_countdown_setInv ==
    ASSUME PlaylistInv, playlist_countdown_set, UNCHANGED asked
    PROVE PlaylistInv'
  BY DEF PlaylistInv, TypeOK, StreamTypeOK, VotesTypeOK, QueueOK, AnnounceOK, TailOK, Loadedness,
     PlayOK, Silent, LoopsOK, Countdown, VotesAreTimed, UnloadIsClean, NoNullPointer,
     playlist_countdown_set, votes, LeftLoop

LEMMA check_countdown_waitInv ==
    ASSUME PlaylistInv, check_countdown_wait, UNCHANGED asked
    PROVE PlaylistInv'
  BY DEF PlaylistInv, TypeOK, StreamTypeOK, VotesTypeOK, QueueOK, AnnounceOK, TailOK, Loadedness,
     PlayOK, Silent, LoopsOK, Countdown, VotesAreTimed, UnloadIsClean, NoNullPointer,
     check_countdown_wait, Idle, stream_state, votes, rest

LEMMA check_countdown_overInv ==
    ASSUME PlaylistInv, check_countdown_over, UNCHANGED asked
    PROVE PlaylistInv'
<1>s. StreamTypeOK'
  BY DEF PlaylistInv, Idle, stop_countdown, cancel_votes, genrevote_withdraw, Countdown, NoSongVote,
     check_countdown_over, TypeOK, StreamTypeOK, VotesTypeOK
<1>v. VotesTypeOK'
  BY DEF PlaylistInv, Idle, stop_countdown, cancel_votes, genrevote_withdraw, Countdown, NoSongVote,
     check_countdown_over, TypeOK, StreamTypeOK, VotesTypeOK
<1>1. TypeOK'
  BY <1>s, <1>v DEF PlaylistInv, Idle, stop_countdown, cancel_votes, genrevote_withdraw, Countdown,
     NoSongVote, check_countdown_over, TypeOK
<1>2. QueueOK' /\ AnnounceOK' /\ TailOK' /\ Loadedness' /\ PlayOK' /\ LoopsOK' /\ VotesAreTimed' /\ UnloadIsClean' /\ NoNullPointer'
  BY DEF PlaylistInv, QueueOK, Idle, stop_countdown, cancel_votes, genrevote_withdraw, Countdown,
     NoSongVote, TypeOK, StreamTypeOK, VotesTypeOK, check_countdown_over, AnnounceOK, TailOK,
     Loadedness, PlayOK, Silent, LoopsOK, VotesAreTimed, UnloadIsClean, NoNullPointer
<1> QED
  BY <1>1, <1>2 DEF PlaylistInv

LEMMA playlist_playInv == ASSUME PlaylistInv, playlist_play, UNCHANGED asked PROVE PlaylistInv'
<1>p. PICK q : q = [playlist EXCEPT !.queue = @ + 1] /\ playlist' = q
  BY DEF playlist_play
<1>q. /\ playlist \in Playlist /\ playlist.queue \in Nat /\ playlist.queue < MaxQueue
      /\ thread \notin {"announce", "song"}
  BY DEF playlist_play, PlaylistInv, TypeOK, StreamTypeOK, VotesTypeOK, Locked, Playlist
<1>r. /\ q \in Playlist /\ q # NONE
      /\ q.count = playlist.count /\ q.cur = playlist.cur /\ q.blacklist = playlist.blacklist /\ q.queue = playlist.queue + 1
  BY <1>p, <1>q, QueuedRecord, NotNone
<1>s. q.queue <= MaxQueue /\ q.queue <= MaxQueue + 1
  BY <1>q, <1>r, ConstantsAssumption
<1> QED
  BY <1>p, <1>q, <1>r, <1>s DEF PlaylistInv, TypeOK, StreamTypeOK, VotesTypeOK, Idle, Asked, Locked,
     Only, stream_state, votes, rest, playlist_play, QueueOK, AnnounceOK, TailOK, Loadedness, PlayOK,
     Silent, LoopsOK, Countdown, VotesAreTimed, UnloadIsClean, NoNullPointer

LEMMA playlist_blacklistInv == ASSUME PlaylistInv, playlist_blacklist, UNCHANGED asked PROVE PlaylistInv'
<1>p. PICK s \in 1..playlist.count :
        /\ playlist' = [playlist EXCEPT !.blacklist = @ \cup {s}]
        /\ mishaps' = mishaps \cup (IF s = playlist.count THEN {"tail"} ELSE {})
  BY DEF playlist_blacklist
<1>q. playlist \in Playlist /\ playlist # NONE
  BY DEF playlist_blacklist, PlaylistInv, TypeOK, StreamTypeOK, VotesTypeOK
<1>r. /\ playlist' \in Playlist /\ playlist' # NONE /\ playlist'.queue = playlist.queue
      /\ playlist'.count = playlist.count /\ playlist'.cur = playlist.cur /\ playlist'.blacklist = playlist.blacklist \cup {s}
  BY <1>p, <1>q, BlacklistRecord, NotNone
<1>s. mishaps \subseteq mishaps' /\ mishaps' \subseteq mishaps \cup {"tail"} /\ (s = playlist.count => "tail" \in mishaps')
      /\ UNCHANGED <<main, thread, stream_state, left, votes, loop_funcs, scan, crashed>>
  BY <1>p DEF playlist_blacklist
<1> QED
  BY <1>q, <1>r, <1>s DEF PlaylistInv, TypeOK, StreamTypeOK, VotesTypeOK, Idle, Asked, stream_state,
     votes, playlist_blacklist, QueueOK, AnnounceOK, TailOK, Loadedness, PlayOK, Silent, LoopsOK,
     Countdown, VotesAreTimed, UnloadIsClean, NoNullPointer

LEMMA playlist_reloadInv == ASSUME PlaylistInv, playlist_reload, UNCHANGED asked PROVE PlaylistInv'
<1>p. PICK n \in {0, Songs} : playlist' = Loaded(n)
  BY DEF playlist_reload
<1>r. /\ playlist' \in Playlist /\ playlist' # NONE /\ playlist'.cur <= playlist'.count
      /\ playlist'.queue <= MaxQueue /\ playlist'.queue <= MaxQueue + 1 /\ playlist'.count \notin playlist'.blacklist
  BY <1>p, LoadedRecord, NotNone, ConstantsAssumption
<1>s. UNCHANGED <<main, thread, stream_state, left, votes, rest>>
  BY DEF playlist_reload, Only
<1> QED
  BY <1>r, <1>s DEF PlaylistInv, TypeOK, StreamTypeOK, VotesTypeOK, Idle, Asked, Locked, Only,
     stream_state, votes, rest, playlist_reload, QueueOK, AnnounceOK, TailOK, Loadedness, PlayOK,
     Silent, LoopsOK, Countdown, VotesAreTimed, UnloadIsClean, NoNullPointer

LEMMA playlist_skipInv == ASSUME PlaylistInv, playlist_skip, UNCHANGED asked PROVE PlaylistInv'
  BY DEF PlaylistInv, TypeOK, StreamTypeOK, VotesTypeOK, QueueOK, AnnounceOK, TailOK, Loadedness,
     PlayOK, Silent, LoopsOK, Countdown, VotesAreTimed, UnloadIsClean, NoNullPointer, playlist_skip,
     Idle, Asked, Locked, votes, rest

LEMMA check_song_changedInv == ASSUME PlaylistInv, check_song_changed, UNCHANGED asked PROVE PlaylistInv'
<1>a. /\ main = "idle" /\ main' = (IF playlist = NONE THEN "idle" ELSE "changed") /\ song_changed' = FALSE
      /\ UNCHANGED <<thread, terminate, play, playing, skip, announce_vote, left, playlist, genre_vote, rest>>
  BY DEF check_song_changed, Idle
<1>b. IF playlist = NONE THEN SongVoteNext(song_vote, genre_vote, timers) ELSE UNCHANGED <<song_vote, timers>>
  BY DEF check_song_changed
<1>c. /\ song_vote \in [enabled : BOOLEAN, active : BOOLEAN] /\ timers \subseteq {"songvote_finish", "genrevote_finish"}
      /\ song_vote.active <=> "songvote_finish" \in timers
      /\ genre_vote \in BOOLEAN
  BY <1>a DEF PlaylistInv, TypeOK, StreamTypeOK, VotesTypeOK, VotesAreTimed
<1>e. /\ song_vote' \in [enabled : BOOLEAN, active : BOOLEAN]
      /\ timers' \subseteq {"songvote_finish", "genrevote_finish"}
      /\ song_vote'.active <=> "songvote_finish" \in timers'
      /\ "genrevote_finish" \in timers' <=> "genrevote_finish" \in timers
      /\ song_vote'.active => song_vote.active \/ playing
  BY <1>b, <1>c, SongVoteStep
<1>s. StreamTypeOK'
  BY <1>a, <1>e DEF PlaylistInv, rest, TypeOK, StreamTypeOK, VotesTypeOK
<1>v. VotesTypeOK'
  BY <1>a, <1>e DEF PlaylistInv, rest, TypeOK, StreamTypeOK, VotesTypeOK
<1>1. TypeOK'
  BY <1>s, <1>v, <1>a, <1>e DEF PlaylistInv, rest, TypeOK
<1>2. QueueOK'
  BY <1>a, <1>e DEF PlaylistInv, QueueOK, rest, TypeOK, StreamTypeOK, VotesTypeOK
<1>3. AnnounceOK'
  BY <1>a, <1>e DEF PlaylistInv, AnnounceOK, rest, TypeOK, StreamTypeOK, VotesTypeOK
<1>4. TailOK'
  BY <1>a, <1>e DEF PlaylistInv, TailOK, rest, TypeOK, StreamTypeOK, VotesTypeOK
<1>5. Loadedness'
  BY <1>a, <1>e DEF PlaylistInv, Loadedness, rest, TypeOK, StreamTypeOK, VotesTypeOK
<1>6. PlayOK'
  BY <1>a, <1>e DEF PlaylistInv, PlayOK, Silent, rest, TypeOK, StreamTypeOK, VotesTypeOK
<1>7. LoopsOK'
  BY <1>a, <1>e DEF PlaylistInv, LoopsOK, Countdown, rest, TypeOK, StreamTypeOK, VotesTypeOK
<1>8. VotesAreTimed'
  BY <1>a, <1>e DEF PlaylistInv, VotesAreTimed, rest, TypeOK, StreamTypeOK, VotesTypeOK
<1>9. UnloadIsClean'
  BY <1>a, <1>e DEF PlaylistInv, UnloadIsClean, rest, TypeOK, StreamTypeOK, VotesTypeOK
<1>10. NoNullPointer'
  BY <1>a, <1>e DEF PlaylistInv, NoNullPointer, rest, TypeOK, StreamTypeOK, VotesTypeOK
<1> QED
  BY <1>1, <1>2, <1>3, <1>4, <1>5, <1>6, <1>7, <1>8, <1>9, <1>10 DEF PlaylistInv

LEMMA check_song_changed_voteInv ==
    ASSUME PlaylistInv, check_song_changed_vote, UNCHANGED asked
    PROVE PlaylistInv'
<1>a. /\ main = "changed" /\ main' \in {"idle", "prepare"} /\ SongVoteNext(song_vote, genre_vote, timers)
      /\ UNCHANGED <<thread, stream_state, left, playlist, genre_vote, rest>>
  BY DEF check_song_changed_vote
<1>c. /\ song_vote \in [enabled : BOOLEAN, active : BOOLEAN] /\ timers \subseteq {"songvote_finish", "genrevote_finish"}
      /\ song_vote.active <=> "songvote_finish" \in timers
      /\ genre_vote \in BOOLEAN
  BY <1>a DEF PlaylistInv, TypeOK, StreamTypeOK, VotesTypeOK, VotesAreTimed
<1>e. /\ song_vote' \in [enabled : BOOLEAN, active : BOOLEAN]
      /\ timers' \subseteq {"songvote_finish", "genrevote_finish"}
      /\ song_vote'.active <=> "songvote_finish" \in timers'
      /\ "genrevote_finish" \in timers' <=> "genrevote_finish" \in timers
  BY <1>a, <1>c, SongVoteStep
<1> QED
  BY <1>a, <1>e DEF PlaylistInv, TypeOK, StreamTypeOK, VotesTypeOK, stream_state, rest, QueueOK,
     AnnounceOK, TailOK, Loadedness, PlayOK, Silent, LoopsOK, Countdown, VotesAreTimed, UnloadIsClean,
     NoNullPointer

LEMMA prepare_new_songInv == ASSUME PlaylistInv, prepare_new_song, UNCHANGED asked PROVE PlaylistInv'
<1>a. playlist \in Playlist /\ playlist # NONE
  BY NotNone DEF prepare_new_song, PlaylistInv, TypeOK, StreamTypeOK, VotesTypeOK, Loadedness
<1>p. PICK q : q = [playlist EXCEPT !.next_random = TRUE]
  OBVIOUS
<1>r. /\ q \in Playlist /\ q # NONE
      /\ q.count = playlist.count /\ q.cur = playlist.cur /\ q.blacklist = playlist.blacklist /\ q.queue = playlist.queue
  BY <1>a, <1>p, PreparedRecord, NotNone
<1>t. /\ main = "prepare" /\ main' = "idle" /\ playlist' \in {playlist, q}
      /\ UNCHANGED <<thread, stream_state, left, votes, rest>>
  BY <1>p DEF prepare_new_song
<1>u. /\ playlist' \in Playlist /\ playlist' # NONE /\ playlist'.queue = playlist.queue
      /\ playlist'.count = playlist.count /\ playlist'.blacklist = playlist.blacklist /\ playlist'.cur = playlist.cur
  BY <1>a, <1>r, <1>t
<1> QED
  BY <1>a, <1>t, <1>u DEF PlaylistInv, TypeOK, StreamTypeOK, VotesTypeOK, Locked, stream_state, votes,
     rest, prepare_new_song, QueueOK, AnnounceOK, TailOK, Loadedness, PlayOK, Silent, LoopsOK,
     Countdown, VotesAreTimed, UnloadIsClean, NoNullPointer

LEMMA playlist_scanInv == ASSUME PlaylistInv, playlist_scan, UNCHANGED asked PROVE PlaylistInv'
<1>s. StreamTypeOK'
  BY DEF PlaylistInv, Idle, Asked, stream_state, votes, playlist_scan, TypeOK, StreamTypeOK, VotesTypeOK
<1>v. VotesTypeOK'
  BY DEF PlaylistInv, Idle, Asked, stream_state, votes, playlist_scan, TypeOK, StreamTypeOK, VotesTypeOK
<1>1. TypeOK'
  BY <1>s, <1>v DEF PlaylistInv, Idle, Asked, stream_state, votes, playlist_scan, TypeOK
<1>2. QueueOK'
  BY DEF PlaylistInv, QueueOK, Idle, Asked, stream_state, votes, TypeOK, StreamTypeOK, VotesTypeOK,
     playlist_scan
<1>3. AnnounceOK'
  BY DEF PlaylistInv, AnnounceOK, Idle, Asked, stream_state, votes, TypeOK, StreamTypeOK, VotesTypeOK,
     playlist_scan
<1>4. TailOK'
  BY DEF PlaylistInv, TailOK, Idle, Asked, stream_state, votes, TypeOK, StreamTypeOK, VotesTypeOK,
     playlist_scan
<1>5. Loadedness'
  BY DEF PlaylistInv, Loadedness, Idle, Asked, stream_state, votes, TypeOK, StreamTypeOK, VotesTypeOK,
     playlist_scan
<1>6. PlayOK'
  BY DEF PlaylistInv, PlayOK, Silent, Idle, Asked, stream_state, votes, TypeOK, StreamTypeOK,
     VotesTypeOK, playlist_scan
<1>7. LoopsOK'
  BY DEF PlaylistInv, LoopsOK, Countdown, Idle, Asked, stream_state, votes, TypeOK, StreamTypeOK,
     VotesTypeOK, playlist_scan
<1>8. VotesAreTimed'
  BY DEF PlaylistInv, VotesAreTimed, Idle, Asked, stream_state, votes, TypeOK, StreamTypeOK,
     VotesTypeOK, playlist_scan
<1>9. UnloadIsClean'
  BY DEF PlaylistInv, UnloadIsClean, Idle, Asked, stream_state, votes, TypeOK, StreamTypeOK,
     VotesTypeOK, playlist_scan
<1>10. NoNullPointer'
  BY DEF PlaylistInv, NoNullPointer, Idle, Asked, stream_state, votes, TypeOK, StreamTypeOK,
     VotesTypeOK, playlist_scan
<1> QED
  BY <1>1, <1>2, <1>3, <1>4, <1>5, <1>6, <1>7, <1>8, <1>9, <1>10 DEF PlaylistInv

LEMMA MODULE_FINIInv == ASSUME PlaylistInv, MODULE_FINI, UNCHANGED asked PROVE PlaylistInv'
  BY DEF PlaylistInv, TypeOK, StreamTypeOK, VotesTypeOK, QueueOK, AnnounceOK, TailOK, Loadedness,
     PlayOK, Silent, LoopsOK, Countdown, VotesAreTimed, UnloadIsClean, NoNullPointer, MODULE_FINI, Idle,
     Asked, votes, stop_countdown

LEMMA MODULE_FINI_restInv == ASSUME PlaylistInv, MODULE_FINI_rest, UNCHANGED asked PROVE PlaylistInv'
  BY DEF PlaylistInv, TypeOK, StreamTypeOK, VotesTypeOK, QueueOK, AnnounceOK, TailOK, Loadedness,
     PlayOK, Silent, LoopsOK, Countdown, VotesAreTimed, UnloadIsClean, NoNullPointer, MODULE_FINI_rest,
     stream_state, joined, NoSongVote

LEMMA PlaylistInitInv == Init => PlaylistInv
<1> SUFFICES ASSUME Init PROVE PlaylistInv
  OBVIOUS
<1>1. NoSongVote \in [enabled : BOOLEAN, active : BOOLEAN] /\ ~NoSongVote.active
  BY DEF NoSongVote
<1>2. playlist \in Playlist \cup {NONE}
  BY LoadedRecord, ConstantsAssumption DEF Init
<1>3. playlist # NONE => playlist.cur <= playlist.count /\ playlist.queue <= MaxQueue /\ playlist.queue <= MaxQueue + 1
                         /\ playlist.count \notin playlist.blacklist
  BY LoadedRecord, ConstantsAssumption DEF Init
<1>4. StreamTypeOK
  <2>1. {terminate, playing, skip, song_changed, announce_vote, crashed} \subseteq BOOLEAN
    BY Zenon DEF Init
  <2> QED
    BY <2>1 DEF Init, StreamTypeOK
<1>5. VotesTypeOK
  BY <1>1 DEF Init, VotesTypeOK
<1>6. TypeOK
  BY <1>2, <1>3, <1>4, <1>5 DEF Init, TypeOK
<1>7. QueueOK /\ TailOK
  BY <1>3 DEF QueueOK, TailOK
<1>8. AnnounceOK /\ LoopsOK /\ UnloadIsClean /\ NoNullPointer
  BY DEF Init, AnnounceOK, LoopsOK, UnloadIsClean, NoNullPointer
<1>9. Loadedness /\ VotesAreTimed
  BY <1>1 DEF Init, Loadedness, VotesAreTimed
<1>10. PlayOK
  BY DEF Init, PlayOK
<1> QED
  BY <1>6, <1>7, <1>8, <1>9, <1>10 DEF PlaylistInv

LEMMA PlaylistThreadInv == ASSUME PlaylistInv, Thread \/ Second, UNCHANGED asked PROVE PlaylistInv'
  BY thread_testInv, cond_waitInv, stream_initInv, thread_loopInv, thread_flagsInv, thread_lockInv,
     thread_announceInv, thread_songInv, stream_songInv, thread_stopInv, SecondInv DEF Thread

LEMMA PlaylistMainInv == ASSUME PlaylistInv, MainGoesOn \/ LoopFunc, UNCHANGED asked PROVE PlaylistInv'
  BY genrevote_genresInv, playlist_on_keepInv, signalInv, playlist_on_startedInv, playlist_off_stoppedInv,
     playlist_countdown_setInv, check_countdown_overInv, check_song_changed_voteInv, prepare_new_songInv,
     MODULE_FINI_restInv, check_countdown_waitInv, check_song_changedInv
  DEF MainGoesOn, LoopFunc

LEMMA PlaylistCommandInv == ASSUME PlaylistInv, Command, UNCHANGED asked PROVE PlaylistInv'
  BY playlist_songvoteInv, playlist_cancelvote_songInv, start_genrevoteInv, playlist_cancelvote_genreInv,
     playlist_onInv, playlist_offInv, playlist_countdownInv, playlist_playInv, playlist_blacklistInv,
     playlist_reloadInv, playlist_skipInv, playlist_scanInv, MODULE_FINIInv
  DEF Command

LEMMA PlaylistNextInv == ASSUME PlaylistInv, (Next /\ UNCHANGED asked) \/ UNCHANGED vars PROVE PlaylistInv'
<1>1. CASE UNCHANGED vars
  BY <1>1 DEF vars, stream_state, votes, rest, PlaylistInv, TypeOK, StreamTypeOK, VotesTypeOK, QueueOK,
     AnnounceOK,
     TailOK, Loadedness, PlayOK, Silent, LoopsOK, Countdown, VotesAreTimed, UnloadIsClean, NoNullPointer
<1> QED
  BY <1>1, PlaylistThreadInv, PlaylistMainInv, PlaylistCommandInv, songvote_finishInv,
     genrevote_finishInv DEF Next

LEMMA PlaylistInvImpliesSound == PlaylistInv => PlaylistSound
  BY DEF PlaylistInv, PlayOK, Silent, Idle, PlayIsTrue, NothingLeftBehind, PlaylistSound

(***************************************************************************)
(* Radiobot: who is on the air is the same everywhere.                     *)
(***************************************************************************)

OnAirTypes ==
    /\ rbUp \in {"up", "down", "crashed"}
    /\ genre \in BOOLEAN
    /\ wishgreet \in [until : BOOLEAN, reason : BOOLEAN, cached : BOOLEAN]
    /\ requests \in 0..MaxAsked /\ wanted \in 0..MaxAsked
    /\ calls \subseteq [no : 1..requests, old : BOOLEAN]
    /\ late \in BOOLEAN
    /\ untold \subseteq Shown

\* What is in memory is what is on the air; a module that is not loaded has all to show.
OnAirInv ==
    /\ OnAirTypes
    /\ Agreed
    /\ Timely
    /\ rbUp = "down" => unsaved = {} /\ untold = Shown

LEMMA OnAirInitInv == rbInit => OnAirInv
<1> SUFFICES ASSUME rbInit PROVE OnAirInv
  OBVIOUS
<1>1. Nothing \in OnAir /\ Coherent(Nothing) /\ Nothing.mod = NOMOD /\ Nothing.playlist = 0
  BY RadiobotAssumption DEF Nothing, OnAir, Coherent
<1>2. \A f \in Shown : NoShow[f] = IF Nothing[f] = "NULL" THEN "playlist" ELSE Nothing[f]
  BY RadiobotAssumption DEF NoShow, Nothing, Shown
<1>3. OnAirTypes
  <2>1. wishgreet \in [until : BOOLEAN, reason : BOOLEAN, cached : BOOLEAN]
    BY DEF rbInit
  <2>2. 0 \in 0..MaxAsked /\ requests = 0 /\ wanted = 0
    BY RadiobotAssumption DEF rbInit
  <2> QED
    BY <2>1, <2>2 DEF rbInit, OnAirTypes
<1>4. Agreed
  BY <1>1, <1>2 DEF rbInit, Agreed
<1>5. Timely
  BY <1>1 DEF rbInit, Timely
<1> QED
  BY <1>3, <1>4, <1>5 DEF OnAirInv, rbInit

\* A command that leaves new on the air.
LEMMA UpStep ==
    ASSUME OnAirInv, rbUp = "up", rbUp' = "up", NEW new \in OnAir, onair' = new, Coherent(new), memory' = new.mod,
           radiobot_db_write(new) \/ (NotWritten(new) /\ Changed(new) \cap {"mod", "mod2", "queue"} = {}),
           show_updated_readonly(new) \/ NotShown(new),
           new.playlist \in {0, wanted'} \/ late', OnAirTypes', wishgreet'.until => wishgreet'.reason /\ wishgreet'.cached
    PROVE  OnAirInv'
<1>1. Agreed
  BY DEF OnAirInv
<1>2. stored' \in OnAir /\ Coherent(stored') /\ unsaved' \cap {"mod", "mod2", "queue"} = {}
  BY <1>1 DEF Agreed, radiobot_db_write, NotWritten
<1>3. \A f \in Fields \ unsaved' : stored'[f] = new[f]
  BY <1>1 DEF Agreed, radiobot_db_write, NotWritten, Changed
<1>4. ASSUME NEW f \in Shown, f \notin untold' PROVE cache'[f] = IF new[f] = "NULL" THEN "playlist" ELSE new[f]
  <2>1. CASE show_updated_readonly(new)
    <3>1. new.mod # "NULL" /\ new.mod2 # "NULL"
      BY RadiobotAssumption DEF OnAir
    <3>2. cache' = [mod |-> new.mod, mod2 |-> new.mod2, show |-> IF new.show = "NULL" THEN "playlist" ELSE new.show]
      BY <2>1 DEF show_updated_readonly
    <3> QED
      BY <3>1, <3>2 DEF Shown
  <2>2. CASE NotShown(new)
    <3>1. f \notin untold /\ f \in Fields /\ new[f] = onair[f]
      BY <1>4, <2>2 DEF NotShown, Changed, Shown, Fields
    <3> QED
      BY <1>1, <2>2, <3>1 DEF Agreed, NotShown
  <2> QED
    BY <2>1, <2>2
<1>5. Agreed'
  BY <1>2, <1>3, <1>4 DEF Agreed
<1>6. Timely'
  BY DEF Timely
<1> QED
  BY <1>5, <1>6 DEF OnAirInv

\* No command makes untold anything else than fields that are shown.
LEMMA UntoldShown ==
    ASSUME OnAirInv, NEW new, show_updated_readonly(new) \/ NotShown(new) PROVE untold' \subseteq Shown
  BY DEF OnAirInv, OnAirTypes, show_updated_readonly, NotShown

\* What a command with these steps leaves as it was.
LEMMA CommandStep ==
    ASSUME OnAirInv, rbUp = "up", rbUp' = "up", NEW new \in OnAir, onair' = new, Coherent(new), memory' = new.mod,
           radiobot_db_write(new), show_updated_readonly(new) \/ NotShown(new),
           new.playlist \in {0, wanted'} \/ late', SameCalls, wanted' \in 0..MaxAsked
    PROVE  OnAirInv'
<1>1. OnAirTypes'
  BY UntoldShown DEF OnAirInv, OnAirTypes, SameCalls
<1>2. wishgreet'.until => wishgreet'.reason /\ wishgreet'.cached
  BY DEF OnAirInv, Timely, SameCalls
<1> QED
  BY <1>1, <1>2, UpStep

LEMMA setmodInv == ASSUME OnAirInv, NEW n \in Nick, NEW p \in BOOLEAN, setmod(n, p) PROVE OnAirInv'
<1>1. PICK new : /\ new = [onair EXCEPT !.mod = IF p THEN NOMOD ELSE n, !.mod2 = NOMOD,
                                   !.show = IF p THEN "playlist" ELSE "own", !.title = IF p THEN "playlist" ELSE "own",
                                   !.playlist = IF p \/ ~(onair.mod = n) THEN 0 ELSE @,
                                   !.queue = FALSE]
                 /\ onair' = new /\ shared_memory_set(new.mod)
                 /\ radiobot_db_write(new) /\ show_updated_readonly(new)
  BY DEF setmod
<1>2. /\ wanted' = IF p \/ ~(onair.mod = n) THEN 0 ELSE wanted
      /\ SameCalls /\ UNCHANGED rbUp /\ rbUp = "up"
  BY DEF setmod
<1>3. /\ onair \in OnAir /\ wanted \in 0..MaxAsked /\ 0 \in 0..MaxAsked /\ late' = late
      /\ onair.playlist \in {0, wanted} \/ late
  BY <1>2, RadiobotAssumption DEF OnAirInv, Agreed, Timely, OnAirTypes, SameCalls
<1>4. new \in OnAir
  BY <1>1, <1>3 DEF OnAir
<1>5. /\ new.mod = IF p THEN NOMOD ELSE n
      /\ new.mod2 = NOMOD
      /\ new.show = IF p THEN "playlist" ELSE "own"
  BY <1>1, <1>3 DEF OnAir
<1>6. new.playlist = IF p \/ ~(onair.mod = n) THEN 0 ELSE onair.playlist
  BY <1>1, <1>3 DEF OnAir
<1>7. Coherent(new)
  BY <1>5, RadiobotAssumption DEF Coherent
<1>8. new.playlist \in {0, wanted'} \/ late'
  BY <1>2, <1>3, <1>6
<1>9. wanted' \in 0..MaxAsked
  BY <1>2, <1>3
<1> QED
  BY <1>1, <1>2, <1>4, <1>7, <1>8, <1>9, CommandStep DEF shared_memory_set

LEMMA setsecmodInv == ASSUME OnAirInv, NEW n \in Nick \cup {NOMOD}, setsecmod(n) PROVE OnAirInv'
<1>1. PICK new : /\ new = [onair EXCEPT !.mod2 = n] /\ onair' = new
                 /\ radiobot_db_write(new) /\ show_updated_readonly(new)
  BY DEF setsecmod
<1>2. rbUp = "up" /\ onair.mod # NOMOD /\ SameCalls /\ UNCHANGED <<rbUp, memory, wanted>>
  BY DEF setsecmod
<1>3. /\ onair \in OnAir /\ wanted \in 0..MaxAsked /\ late' = late /\ memory = onair.mod /\ Coherent(onair)
      /\ onair.playlist \in {0, wanted} \/ late
  BY <1>2 DEF OnAirInv, Agreed, Timely, OnAirTypes, SameCalls
<1>4. new \in OnAir
  BY <1>1, <1>3 DEF OnAir
<1>5. new.mod = onair.mod /\ new.show = onair.show /\ new.playlist = onair.playlist
  BY <1>1, <1>3 DEF OnAir
<1>6. Coherent(new)
  BY <1>2, <1>3, <1>5 DEF Coherent
<1> QED
  BY <1>1, <1>2, <1>3, <1>4, <1>5, <1>6, CommandStep

LEMMA nickInv == ASSUME OnAirInv, NEW old \in Nick, NEW n \in Nick, nick(old, n) PROVE OnAirInv'
<1> DEFINE Renamed(m) == IF m = old THEN n ELSE m
<1>1. PICK new : /\ new = [onair EXCEPT !.mod = Renamed(@), !.mod2 = Renamed(@)] /\ onair' = new
                 /\ radiobot_db_write(new) /\ NotShown(new)
  BY DEF nick
<1>2. /\ rbUp = "up" /\ SameCalls /\ UNCHANGED <<rbUp, wanted>>
      /\ IF onair.mod = old THEN shared_memory_set(n) ELSE UNCHANGED memory
  BY DEF nick
<1>3. /\ onair \in OnAir /\ wanted \in 0..MaxAsked /\ late' = late /\ memory = onair.mod /\ Coherent(onair)
      /\ onair.playlist \in {0, wanted} \/ late
  BY <1>2 DEF OnAirInv, Agreed, Timely, OnAirTypes, SameCalls
<1>4. new \in OnAir
  BY <1>1, <1>3 DEF OnAir
<1>5. new.mod = Renamed(onair.mod) /\ new.mod2 = Renamed(onair.mod2)
  BY <1>1, <1>3 DEF OnAir
<1>6. new.show = onair.show /\ new.playlist = onair.playlist
  BY <1>1, <1>3 DEF OnAir
<1>7. Coherent(new)
  BY <1>3, <1>5, <1>6, RadiobotAssumption DEF Coherent
<1>8. memory' = new.mod
  BY <1>2, <1>3, <1>5 DEF shared_memory_set
<1> QED
  BY <1>1, <1>2, <1>3, <1>4, <1>6, <1>7, <1>8, CommandStep

LEMMA setplaylistInv == ASSUME OnAirInv, NEW ask \in BOOLEAN, setplaylist(ask) PROVE OnAirInv'
<1>1. PICK new : new = [onair EXCEPT !.playlist = 0] /\ onair' = new
  BY DEF setplaylist
<1>2. rbUp = "up" /\ UNCHANGED <<rbUp, genre, memory, wishgreet, late>>
  BY DEF setplaylist
<1>3. /\ onair \in OnAir /\ memory = onair.mod /\ Coherent(onair)
      /\ wishgreet.until => wishgreet.reason /\ wishgreet.cached
  BY <1>2 DEF OnAirInv, Agreed, Timely
<1>4. new \in OnAir
  BY <1>1, <1>3, RadiobotAssumption DEF OnAir
<1>5. /\ new.mod = onair.mod /\ new.mod2 = onair.mod2 /\ new.show = onair.show /\ new.queue = onair.queue
      /\ new.playlist = 0
  BY <1>1, <1>3 DEF OnAir
<1>6. Coherent(new)
  BY <1>3, <1>5 DEF Coherent
<1>7. Changed(new) \cap {"mod", "mod2", "queue"} = {}
  BY <1>5 DEF Changed
<1>8. CASE ask
  <2>1. /\ requests < MaxAsked /\ requests' = requests + 1 /\ wanted' = requests + 1
        /\ calls' = calls \cup {[no |-> requests + 1, old |-> FALSE]}
        /\ NotWritten(new) /\ NotShown(new)
    BY <1>1, <1>8 DEF setplaylist
  <2>2. requests \in 0..MaxAsked /\ calls \subseteq [no : 1..requests, old : BOOLEAN]
    BY DEF OnAirInv, OnAirTypes
  <2>3. requests' \in 0..MaxAsked /\ wanted' \in 0..MaxAsked
    BY <2>1, <2>2, RadiobotAssumption
  <2>4. \A k \in 1..requests : k \in 1..requests'
    BY <2>1, <2>2, RadiobotAssumption
  <2>5. [no |-> requests + 1, old |-> FALSE] \in [no : 1..requests', old : BOOLEAN]
    BY <2>1, <2>2, RadiobotAssumption
  <2>6. calls' \subseteq [no : 1..requests', old : BOOLEAN]
    BY <2>1, <2>2, <2>4, <2>5
  <2>7. OnAirTypes'
    BY <1>2, <2>1, <2>3, <2>6, UntoldShown DEF OnAirInv, OnAirTypes
  <2> QED
    BY <1>1, <1>2, <1>3, <1>4, <1>5, <1>6, <1>7, <2>1, <2>7, UpStep
<1>9. CASE ~ask
  <2>1. /\ wanted' = 0 /\ radiobot_db_write(new) /\ show_updated_readonly(new) /\ UNCHANGED <<requests, calls>>
        /\ 0 \in 0..MaxAsked
    BY <1>1, <1>9, RadiobotAssumption DEF setplaylist
  <2> QED
    BY <1>1, <1>2, <1>3, <1>4, <1>5, <1>6, <2>1, CommandStep DEF SameCalls
<1> QED
  BY <1>8, <1>9

LEMMA radioapiInv ==
    ASSUME OnAirInv, NEW c \in calls, NEW success \in BOOLEAN, radiobot_radioapi_cb(c, success) PROVE OnAirInv'
<1>0. c.no \in 1..requests /\ requests \in 0..MaxAsked /\ c.no \in 0..MaxAsked /\ 0 \in 0..MaxAsked
  BY RadiobotAssumption DEF OnAirInv, OnAirTypes
<1>1. PICK new : new = [onair EXCEPT !.playlist = IF success THEN c.no ELSE 0] /\ onair' = new
  BY DEF radiobot_radioapi_cb
<1>2. /\ rbUp = "up" /\ UNCHANGED <<rbUp, genre, memory, wishgreet, requests, wanted>>
      /\ calls' = calls \ {c} /\ late' = (late \/ c.no # wanted)
  BY DEF radiobot_radioapi_cb
<1>3. /\ onair \in OnAir /\ memory = onair.mod /\ Coherent(onair)
      /\ wishgreet.until => wishgreet.reason /\ wishgreet.cached
  BY <1>2 DEF OnAirInv, Agreed, Timely
<1>4. new \in OnAir
  BY <1>0, <1>1, <1>3 DEF OnAir
<1>5. /\ new.mod = onair.mod /\ new.mod2 = onair.mod2 /\ new.show = onair.show /\ new.queue = onair.queue
      /\ new.playlist = IF success THEN c.no ELSE 0
  BY <1>1, <1>3 DEF OnAir
<1>6. Coherent(new)
  BY <1>3, <1>5 DEF Coherent
<1>7. Changed(new) \cap {"mod", "mod2", "queue"} = {}
  BY <1>5 DEF Changed
<1>8. /\ radiobot_db_write(new) \/ NotWritten(new)
      /\ show_updated_readonly(new) \/ NotShown(new)
  BY <1>1 DEF radiobot_radioapi_cb
<1>9. OnAirTypes'
  BY <1>2, <1>8, UntoldShown DEF OnAirInv, OnAirTypes
<1>10. new.playlist \in {0, wanted'} \/ late'
  BY <1>2, <1>5
<1> QED
  BY <1>1, <1>2, <1>3, <1>4, <1>5, <1>6, <1>7, <1>8, <1>9, <1>10, UpStep

LEMMA sharedInv == ASSUME OnAirInv, shared_memory_changed PROVE OnAirInv'
<1>1. PICK new : /\ new = IF onair.mod # NOMOD THEN onair ELSE [onair EXCEPT !.show = "playlist", !.title = "playlist"]
                 /\ onair' = new /\ NotWritten(new) /\ NotShown(new)
  BY DEF shared_memory_changed
<1>2. rbUp = "up" /\ genre' = TRUE /\ UNCHANGED <<rbUp, memory, wishgreet, calls, requests, wanted, late>>
  BY DEF shared_memory_changed
<1>3. /\ onair \in OnAir /\ memory = onair.mod /\ Coherent(onair) /\ (onair.playlist \in {0, wanted} \/ late)
      /\ wishgreet.until => wishgreet.reason /\ wishgreet.cached
  BY <1>2 DEF OnAirInv, Agreed, Timely
<1>4. new \in OnAir
  BY <1>1, <1>3 DEF OnAir
<1>5. /\ new.mod = onair.mod /\ new.mod2 = onair.mod2 /\ new.queue = onair.queue /\ new.playlist = onair.playlist
      /\ new.show = IF onair.mod # NOMOD THEN onair.show ELSE "playlist"
  BY <1>1, <1>3 DEF OnAir
<1>6. Coherent(new)
  BY <1>3, <1>5 DEF Coherent
<1>7. Changed(new) \cap {"mod", "mod2", "queue"} = {}
  BY <1>5 DEF Changed
<1>8. OnAirTypes'
  BY <1>1, <1>2, UntoldShown DEF OnAirInv, OnAirTypes
<1> QED
  BY <1>1, <1>2, <1>3, <1>4, <1>5, <1>6, <1>7, <1>8, UpStep

LEMMA settitleInv == ASSUME OnAirInv, NEW t \in {"*", "own"}, settitle(t) PROVE OnAirInv'
<1>0. rbUp = "up" /\ SameCalls /\ UNCHANGED <<memory, wanted>>
  BY DEF settitle
<1>3. /\ onair \in OnAir /\ wanted \in 0..MaxAsked /\ late' = late /\ memory = onair.mod /\ Coherent(onair)
      /\ onair.playlist \in {0, wanted} \/ late
  BY <1>0 DEF OnAirInv, Agreed, Timely, OnAirTypes, SameCalls
<1>1. CASE t = "*" /\ onair.show = "NULL"
  <2>1. rbUp' = "crashed" /\ UNCHANGED <<onair, stored, unsaved, cache, untold>>
    BY <1>1 DEF settitle
  <2>2. OnAirTypes'
    BY <1>0, <2>1 DEF OnAirInv, OnAirTypes, SameCalls
  <2> QED
    BY <1>0, <1>1, <2>1, <2>2 DEF OnAirInv, Agreed, Timely, SameCalls
<1>2. CASE ~(t = "*" /\ onair.show = "NULL")
  <2>1. PICK new : new = [onair EXCEPT !.title = IF t = "*" THEN onair.show ELSE t]
                   /\ onair' = new /\ radiobot_db_write(new) /\ NotShown(new) /\ UNCHANGED rbUp
    BY <1>2 DEF settitle
  <2>2. new \in OnAir
    BY <1>3, <2>1 DEF OnAir
  <2>3. new.mod = onair.mod /\ new.mod2 = onair.mod2 /\ new.show = onair.show /\ new.playlist = onair.playlist
    BY <1>3, <2>1 DEF OnAir
  <2>4. Coherent(new)
    BY <1>3, <2>3 DEF Coherent
  <2> QED
    BY <1>0, <1>3, <2>1, <2>2, <2>3, <2>4, CommandStep
<1> QED
  BY <1>1, <1>2

LEMMA queuefullInv == ASSUME OnAirInv, NEW full \in BOOLEAN, queuefull(full) PROVE OnAirInv'
<1>1. PICK new : new = [onair EXCEPT !.queue = full] /\ onair' = new /\ radiobot_db_write(new) /\ NotShown(new)
  BY DEF queuefull
<1>2. rbUp = "up" /\ SameCalls /\ UNCHANGED <<rbUp, memory, wanted>>
  BY DEF queuefull
<1>3. /\ onair \in OnAir /\ wanted \in 0..MaxAsked /\ late' = late /\ memory = onair.mod /\ Coherent(onair)
      /\ onair.playlist \in {0, wanted} \/ late
  BY <1>2 DEF OnAirInv, Agreed, Timely, OnAirTypes, SameCalls
<1>4. new \in OnAir
  BY <1>1, <1>3 DEF OnAir
<1>5. new.mod = onair.mod /\ new.mod2 = onair.mod2 /\ new.show = onair.show /\ new.playlist = onair.playlist
  BY <1>1, <1>3 DEF OnAir
<1>6. Coherent(new)
  BY <1>3, <1>5 DEF Coherent
<1> QED
  BY <1>1, <1>2, <1>3, <1>4, <1>5, <1>6, CommandStep

LEMMA check_queue_fullInv == ASSUME OnAirInv, check_queue_full PROVE OnAirInv'
<1>1. PICK o, s : /\ o = [onair EXCEPT !.queue = FALSE] /\ s = [stored EXCEPT !.queue = FALSE]
                  /\ onair' = o /\ stored' = s
  BY DEF check_queue_full
<1>2. UNCHANGED <<rbUp, genre, memory, cache, wishgreet, calls, requests, wanted, late, unsaved, untold>>
  BY DEF check_queue_full
<1>3. onair \in OnAir /\ stored \in OnAir /\ Agreed /\ Timely
  BY DEF OnAirInv, Agreed
<1>4. o \in OnAir /\ s \in OnAir
  BY <1>1, <1>3 DEF OnAir
<1>5. /\ o.mod = onair.mod /\ o.mod2 = onair.mod2 /\ o.show = onair.show
      /\ o.title = onair.title /\ o.playlist = onair.playlist
  BY <1>1, <1>3 DEF OnAir
<1>6. /\ s.mod = stored.mod /\ s.mod2 = stored.mod2 /\ s.show = stored.show
      /\ s.title = stored.title /\ s.playlist = stored.playlist
  BY <1>1, <1>3 DEF OnAir
<1>7. o["queue"] = s["queue"]
  BY <1>1, <1>3 DEF OnAir
<1>8. OnAirTypes'
  BY <1>2 DEF OnAirInv, OnAirTypes
<1>9. Coherent(s) /\ (rbUp = "up" => Coherent(o) /\ memory = o.mod)
  BY <1>3, <1>5, <1>6 DEF Agreed, Coherent
<1>10. ASSUME rbUp = "up", NEW f \in Fields \ unsaved PROVE s[f] = o[f]
  <2>1. stored[f] = onair[f]
    BY <1>3, <1>10 DEF Agreed
  <2> QED
    BY <1>5, <1>6, <1>7, <1>10, <2>1 DEF Fields
<1>11. ASSUME rbUp = "up", NEW f \in Shown \ untold PROVE cache[f] = IF o[f] = "NULL" THEN "playlist" ELSE o[f]
  <2>1. o[f] = onair[f]
    BY <1>5, <1>11 DEF Shown
  <2> QED
    BY <1>3, <1>11, <2>1 DEF Agreed
<1>12. Agreed'
  BY <1>1, <1>2, <1>3, <1>4, <1>9, <1>10, <1>11 DEF Agreed
<1>13. Timely'
  BY <1>1, <1>2, <1>3, <1>5 DEF Timely
<1> QED
  BY <1>2, <1>8, <1>12, <1>13 DEF OnAirInv

LEMMA wishInv ==
    ASSUME OnAirInv, (\E b \in BOOLEAN : Wish(b)) \/ \E w \in {"*", "until", "syntax"} : blockwishgreet(w)
    PROVE  OnAirInv'
<1>1. UNCHANGED <<rbUp, onair, genre, memory, stored, cache, calls, requests, wanted, late, unsaved, untold>>
  BY DEF Wish, blockwishgreet
<1>2. /\ wishgreet \in [until : BOOLEAN, reason : BOOLEAN, cached : BOOLEAN]
      /\ wishgreet.until => wishgreet.reason /\ wishgreet.cached
  BY DEF OnAirInv, OnAirTypes, Timely
<1>3. /\ wishgreet' \in [until : BOOLEAN, reason : BOOLEAN, cached : BOOLEAN]
      /\ wishgreet'.until => wishgreet'.reason /\ wishgreet'.cached
  <2>1. ASSUME NEW w \in [until : BOOLEAN, reason : BOOLEAN, cached : BOOLEAN], w.until => w.reason,
               wishgreet' = check_wishgreet_blocked(w)
        PROVE  /\ wishgreet' \in [until : BOOLEAN, reason : BOOLEAN, cached : BOOLEAN]
               /\ wishgreet'.until => wishgreet'.reason /\ wishgreet'.cached
    BY <2>1 DEF check_wishgreet_blocked
  <2>2. ASSUME NEW passed \in BOOLEAN, Wish(passed)
        PROVE  \E w \in [until : BOOLEAN, reason : BOOLEAN, cached : BOOLEAN] :
                  (w.until => w.reason) /\ wishgreet' = check_wishgreet_blocked(w)
    <3>1. PICK w : w = [wishgreet EXCEPT !.until = @ /\ ~passed]
      OBVIOUS
    <3>2. w \in [until : BOOLEAN, reason : BOOLEAN, cached : BOOLEAN]
      BY <1>2, <3>1
    <3>3. w.until => w.reason
      BY <1>2, <3>1
    <3> QED
      BY <2>2, <3>1, <3>2, <3>3 DEF Wish
  <2>3. CASE blockwishgreet("*")
    <3>1. PICK w : w = [wishgreet EXCEPT !.until = FALSE, !.reason = FALSE]
      OBVIOUS
    <3>2. w \in [until : BOOLEAN, reason : BOOLEAN, cached : BOOLEAN]
      BY <1>2, <3>1
    <3>3. w.until => w.reason
      BY <1>2, <3>1
    <3>4. wishgreet' = check_wishgreet_blocked(w)
      BY <2>3, <3>1 DEF blockwishgreet
    <3> QED
      BY <2>1, <3>2, <3>3, <3>4
  <2>4. CASE blockwishgreet("until")
    <3>1. PICK w : w = [wishgreet EXCEPT !.until = TRUE, !.reason = TRUE]
      OBVIOUS
    <3>2. w \in [until : BOOLEAN, reason : BOOLEAN, cached : BOOLEAN]
      BY <1>2, <3>1
    <3>3. w.until => w.reason
      BY <1>2, <3>1
    <3>4. wishgreet' = check_wishgreet_blocked(w)
      BY <2>4, <3>1 DEF blockwishgreet
    <3> QED
      BY <2>1, <3>2, <3>3, <3>4
  <2>5. CASE blockwishgreet("syntax")
    <3>1. wishgreet' = [wishgreet EXCEPT !.until = FALSE, !.reason = FALSE]
      BY <2>5 DEF blockwishgreet
    <3> QED
      BY <1>2, <3>1
  <2> QED
    BY <2>1, <2>2, <2>3, <2>4, <2>5
<1>4. OnAirTypes' /\ Agreed'
  BY <1>1, <1>3 DEF OnAirInv, OnAirTypes, Agreed
<1>5. Timely'
  BY <1>1, <1>3 DEF OnAirInv, Timely
<1> QED
  BY <1>1, <1>4, <1>5 DEF OnAirInv

LEMMA callInv == ASSUME OnAirInv, NEW c \in calls, CallLost(c) \/ AnswerAfterUnload(c) PROVE OnAirInv'
<1>1. /\ UNCHANGED <<onair, genre, memory, stored, cache, wishgreet, requests, wanted, late, unsaved, untold>>
      /\ calls' \subseteq calls /\ rbUp' \in {rbUp, "crashed"}
  BY DEF CallLost, AnswerAfterUnload
<1>2. requests > 0
  BY DEF OnAirInv, OnAirTypes
<1>3. OnAirTypes'
  BY <1>1 DEF OnAirInv, OnAirTypes
<1>4. Agreed' /\ Timely'
  BY <1>1, <1>2 DEF OnAirInv, Agreed, Timely
<1> QED
  BY <1>1, <1>3, <1>4 DEF OnAirInv

LEMMA LeaveInv == ASSUME OnAirInv, NEW how \in {"fini", "crash"}, Leave(how) PROVE OnAirInv'
<1>1. Nothing \in OnAir
  BY RadiobotAssumption DEF Nothing, OnAir
<1>2. /\ rbUp' = "down" /\ onair' = Nothing /\ unsaved' = {} /\ untold' = Shown /\ wanted' = 0
      /\ UNCHANGED <<genre, cache, requests, late>>
      /\ stored' = IF how = "fini" THEN onair ELSE stored
      /\ how = "fini" => rbUp = "up"
  BY DEF Leave
<1>3. stored' \in OnAir /\ Coherent(stored')
  BY <1>2 DEF OnAirInv, Agreed
<1>4. wishgreet' \in [until : BOOLEAN, reason : BOOLEAN, cached : BOOLEAN] /\ ~wishgreet'.until
  BY DEF Leave, OnAirInv, OnAirTypes
<1>5. calls' \subseteq [no : 1..requests, old : BOOLEAN]
  <2>1. calls \subseteq [no : 1..requests, old : BOOLEAN]
    BY DEF OnAirInv, OnAirTypes
  <2>2. \A c \in calls : [c EXCEPT !.old = TRUE] \in [no : 1..requests, old : BOOLEAN]
    BY <2>1
  <2> QED
    BY <2>2 DEF Leave
<1>6. OnAirTypes'
  BY <1>2, <1>4, <1>5, RadiobotAssumption DEF OnAirInv, OnAirTypes
<1> QED
  BY <1>1, <1>2, <1>3, <1>4, <1>6 DEF OnAirInv, Agreed, Timely

LEMMA readInv == ASSUME OnAirInv, NEW found \in BOOLEAN, radiobot_db_read(found) PROVE OnAirInv'
<1>1. /\ rbUp = "down" /\ rbUp' = "up" /\ onair' = stored /\ memory' = stored.mod /\ genre' = found
      /\ wanted' = stored.playlist /\ UNCHANGED <<stored, cache, wishgreet, calls, requests, late, unsaved, untold>>
  BY DEF radiobot_db_read
<1>2. stored \in OnAir /\ Coherent(stored) /\ unsaved = {} /\ untold = Shown /\ stored.playlist \in 0..MaxAsked
  BY <1>1 DEF OnAirInv, Agreed, OnAir
<1>3. OnAirTypes'
  BY <1>1, <1>2 DEF OnAirInv, OnAirTypes
<1>4. Agreed'
  BY <1>1, <1>2 DEF Agreed
<1>5. Timely'
  BY <1>1 DEF OnAirInv, Timely
<1> QED
  BY <1>1, <1>3, <1>4, <1>5 DEF OnAirInv

LEMMA OnAirNextInv == ASSUME OnAirInv, rbNext \/ UNCHANGED rbVars PROVE OnAirInv'
<1>1. CASE UNCHANGED rbVars
  BY <1>1 DEF rbVars, OnAirInv, OnAirTypes, Agreed, Timely
<1>2. CASE rbNext
  BY <1>2, setmodInv, setsecmodInv, nickInv, setplaylistInv, radioapiInv, sharedInv, settitleInv,
     queuefullInv,
     check_queue_fullInv, wishInv, callInv, LeaveInv, readInv DEF rbNext
<1> QED
  BY <1>1, <1>2

LEMMA OnAirInvImpliesSound == OnAirInv => OnAirSound
  BY DEF OnAirInv, OnAirSound

(***************************************************************************)
(* RadiobotNet: polls, entries and drop_client timers.                     *)
(***************************************************************************)

NetTypes ==
    /\ stats_sock \in {"NULL", "connecting", "connected"}
    /\ kicksrc_sock \in {"NULL", "connecting", "connected"}
    /\ rb_timers \in [stats_timeout : Nat, update_stats : Nat, kicksrc_timeout : Nat]
    /\ http \in [HttpClient -> HttpState] /\ http_clients \in [HttpClient -> Nat]
    /\ cmd_clients \in [CmdSock -> CmdState] /\ drops \in [CmdSock -> Nat]

\* Entries, and what a client is like that has got its answer.
EntryOK(h, n) ==
    /\ ~h.rerun => n = IF h.delay THEN 1 ELSE 0
    /\ h.poll => h.open /\ h.dead_callback
    /\ ~h.rerun /\ h.delay => h.poll
    /\ ~h.rerun /\ h.writing => ~h.delay

NetInv ==
    /\ NetTypes
    /\ Polling
    /\ \A c \in HttpClient : EntryOK(http[c], http_clients[c])
    /\ \A s \in CmdSock : cmd_clients[s].dead => drops[s] > 0

LEMMA NetInitInv == netInit => NetInv
  BY SMTT(60) DEF netInit, NetInv, NetTypes, Polling, EntryOK, HttpState, NoHttp, CmdState, NoCmd, NoTimers

LEMMA NetStatsInv == ASSUME NetInv, statsNext, UNCHANGED pushVars PROVE NetInv'
<1>0. /\ UNCHANGED <<http, http_clients, cmd_clients, drops>>
      /\ \A c \in HttpClient : EntryOK(http[c], http_clients[c])'
      /\ \A s \in CmdSock : (cmd_clients[s].dead => drops[s] > 0)'
  BY DEF pushVars, NetInv, EntryOK
<1> SUFFICES (/\ stats_sock \in {"NULL", "connecting", "connected"}
              /\ kicksrc_sock \in {"NULL", "connecting", "connected"}
              /\ rb_timers \in [stats_timeout : Nat, update_stats : Nat, kicksrc_timeout : Nat]
              /\ Polling)'
  BY <1>0 DEF NetInv, NetTypes
<1>t. /\ stats_sock \in {"NULL", "connecting", "connected"}
      /\ kicksrc_sock \in {"NULL", "connecting", "connected"}
      /\ rb_timers \in [stats_timeout : Nat, update_stats : Nat, kicksrc_timeout : Nat]
      /\ Polling
  BY DEF NetInv, NetTypes
<1>d. ASSUME NEW t \in [stats_timeout : Nat, update_stats : Nat, kicksrc_timeout : Nat],
             t.kicksrc_timeout = rb_timers.kicksrc_timeout, stats_sock_connect(t), UNCHANGED kicksrc_sock
      PROVE  (/\ stats_sock \in {"NULL", "connecting", "connected"}
              /\ kicksrc_sock \in {"NULL", "connecting", "connected"}
              /\ rb_timers \in [stats_timeout : Nat, update_stats : Nat, kicksrc_timeout : Nat]
              /\ Polling)'
  <2>1. PICK u : u = IF stats_sock # "NULL" THEN [t EXCEPT !.stats_timeout = 0, !.update_stats = 0] ELSE t
    OBVIOUS
  <2>2. u \in [stats_timeout : Nat, update_stats : Nat, kicksrc_timeout : Nat]
        /\ u.kicksrc_timeout = rb_timers.kicksrc_timeout
    BY <1>d, <2>1
  <2>3. rb_timers' = [u EXCEPT !.stats_timeout = u.stats_timeout + 1] /\ stats_sock' \in {"NULL", "connecting"}
    BY <1>d, <2>1 DEF stats_sock_connect, Dial
  <2> QED
    BY <1>d, <1>t, <2>2, <2>3 DEF Polling
<1> USE DEF Polling
<1>1. CASE \E what \in DOMAIN asks : status(what)
  BY <1>1, <1>t, <1>d DEF status
<1>2. CASE \E r \in {"xml", "no xml", "empty", "headless"} : stats_sock_hangup(r)
  <2>1. rb_timers' = [rb_timers EXCEPT !.update_stats = rb_timers.update_stats + 1]
    BY <1>2 DEF stats_sock_hangup, Fired
  <2>2. rb_timers.update_stats + 1 \in Nat /\ rb_timers.update_stats + 1 > 0
    BY <1>t
  <2>3. rb_timers.stats_timeout > 0 => rb_timers.stats_timeout - 1 \in Nat
    BY <1>t
  <2>4. rb_timers' \in [stats_timeout : Nat, update_stats : Nat, kicksrc_timeout : Nat]
    BY <1>2, <1>t, <2>1, <2>2, <2>3 DEF stats_sock_hangup, Armed
  <2>5. rb_timers'.kicksrc_timeout = rb_timers.kicksrc_timeout /\ rb_timers'.update_stats > 0
    BY <1>t, <2>1, <2>2
  <2>6. stats_sock' = "NULL" /\ UNCHANGED kicksrc_sock
    BY <1>2 DEF stats_sock_hangup
  <2>7. rb_timers'.stats_timeout + rb_timers'.update_stats > 0
    BY <2>4, <2>5
  <2> QED
    BY <1>t, <2>4, <2>5, <2>6, <2>7
<1>3. CASE stats_sock_error
  <2>1. rb_timers' = [rb_timers EXCEPT !.stats_timeout = 0, !.update_stats = rb_timers.update_stats + 1]
    BY <1>3 DEF stats_sock_error, Fired
  <2>2. rb_timers.update_stats + 1 \in Nat /\ rb_timers.update_stats + 1 > 0
    BY <1>t
  <2>3. rb_timers.stats_timeout > 0 => rb_timers.stats_timeout - 1 \in Nat
    BY <1>t
  <2>4. rb_timers' \in [stats_timeout : Nat, update_stats : Nat, kicksrc_timeout : Nat]
    BY <1>t, <2>1, <2>2
  <2>5. rb_timers'.kicksrc_timeout = rb_timers.kicksrc_timeout /\ rb_timers'.update_stats > 0
    BY <1>t, <2>1, <2>2
  <2>6. stats_sock' = "NULL" /\ UNCHANGED kicksrc_sock
    BY <1>3 DEF stats_sock_error
  <2>7. rb_timers'.stats_timeout + rb_timers'.update_stats > 0
    BY <2>4, <2>5
  <2> QED
    BY <1>t, <2>4, <2>5, <2>6, <2>7
<1>4. CASE stats_sock_connected
  BY <1>4, <1>t DEF stats_sock_connected, Armed, Fired
<1>5. CASE stats_sock_timeout
  <2>1. rb_timers' = [rb_timers EXCEPT !.stats_timeout = rb_timers.stats_timeout - 1, !.update_stats = rb_timers.update_stats + 1]
    BY <1>5 DEF stats_sock_timeout, Fired
  <2>2. rb_timers.update_stats + 1 \in Nat /\ rb_timers.update_stats + 1 > 0
    BY <1>t
  <2>3. rb_timers.stats_timeout > 0 => rb_timers.stats_timeout - 1 \in Nat
    BY <1>t
  <2>4. rb_timers' \in [stats_timeout : Nat, update_stats : Nat, kicksrc_timeout : Nat]
    BY <1>5, <1>t, <2>1, <2>2, <2>3 DEF stats_sock_timeout, Armed
  <2>5. rb_timers'.kicksrc_timeout = rb_timers.kicksrc_timeout /\ rb_timers'.update_stats > 0
    BY <1>t, <2>1, <2>2
  <2>6. stats_sock' = "NULL" /\ UNCHANGED kicksrc_sock
    BY <1>5 DEF stats_sock_timeout
  <2>7. rb_timers'.stats_timeout + rb_timers'.update_stats > 0
    BY <2>4, <2>5
  <2> QED
    BY <1>t, <2>4, <2>5, <2>6, <2>7
<1>6. CASE stats_update_tmr
  <2>1. PICK t : t = [rb_timers EXCEPT !["update_stats"] = @ - 1]
    OBVIOUS
  <2>2. t \in [stats_timeout : Nat, update_stats : Nat, kicksrc_timeout : Nat]
        /\ t.kicksrc_timeout = rb_timers.kicksrc_timeout
    BY <1>6, <1>t, <2>1 DEF stats_update_tmr, Armed
  <2>3. stats_sock_connect(t) /\ UNCHANGED kicksrc_sock
    BY <1>6, <2>1 DEF stats_update_tmr, Fired
  <2> QED
    BY <1>d, <2>2, <2>3
<1>7. CASE kicksrc
  BY <1>7, <1>t DEF kicksrc, Armed, Fired
<1>8. CASE kicksrc_sock_event
  BY <1>8, <1>t DEF kicksrc_sock_event, Armed, Fired
<1>9. CASE kicksrc_sock_timeout
  BY <1>9, <1>t DEF kicksrc_sock_timeout, Armed, Fired
<1> QED
  BY <1>1, <1>2, <1>3, <1>4, <1>5, <1>6, <1>7, <1>8, <1>9 DEF statsNext

\* What one client's entry does does not concern the others.
LEMMA OneClient ==
    ASSUME NetInv, NEW c \in HttpClient, NEW h \in HttpState, NEW n \in Nat, EntryOK(h, n),
           http' = [http EXCEPT ![c] = h], http_clients' = [http_clients EXCEPT ![c] = n]
    PROVE  /\ http' \in [HttpClient -> HttpState] /\ http_clients' \in [HttpClient -> Nat]
           /\ \A d \in HttpClient : EntryOK(http'[d], http_clients'[d])
<1>1. \A d \in HttpClient : /\ http'[d] = IF d = c THEN h ELSE http[d]
                            /\ http_clients'[d] = IF d = c THEN n ELSE http_clients[d]
  BY DEF NetInv, NetTypes
<1>2. \A d \in HttpClient : EntryOK(http'[d], http_clients'[d])
  BY <1>1 DEF NetInv
<1> QED
  BY <1>2 DEF NetInv, NetTypes

\* What is sent to a client ends its request.
LEMMA SentRecord ==
    ASSUME NEW h \in HttpState, NEW s, s = http_stream_status_send(h)
    PROVE  /\ s \in HttpState
           /\ ~s.delay /\ ~s.dead_callback /\ ~s.poll
           /\ s.open <=> h.open
           /\ s.writing <=> h.writing \/ h.delay
           /\ s.rerun <=> h.rerun
<1>1. s \in HttpState
  BY DEF HttpState, http_stream_status_send
<1>2. s.open <=> h.open
  BY DEF HttpState, http_stream_status_send
<1>3. s.rerun <=> h.rerun
  BY DEF HttpState, http_stream_status_send
<1>4. ~s.delay /\ ~s.dead_callback /\ ~s.poll
  BY DEF HttpState, http_stream_status_send
<1>5. s.writing <=> h.writing \/ h.delay
  BY DEF HttpState, http_stream_status_send
<1> QED
  BY <1>1, <1>2, <1>3, <1>4, <1>5

\* A client that has got its answer has no entry, or one less.
LEMMA SentEntry ==
    ASSUME NEW h \in HttpState, NEW n \in Nat, EntryOK(h, n), NEW s, s = http_stream_status_send(h)
    PROVE  s \in HttpState /\ Less(n) \in Nat /\ EntryOK(s, 0) /\ EntryOK(s, Less(n))
<1>1. /\ s \in HttpState
      /\ ~s.delay /\ ~s.dead_callback /\ ~s.poll
      /\ s.open <=> h.open
      /\ s.writing <=> h.writing \/ h.delay
      /\ s.rerun <=> h.rerun
  BY SentRecord
<1>2. Less(n) \in Nat /\ (~h.rerun => Less(n) = 0)
  BY DEF Less, EntryOK
<1>3. EntryOK(s, 0)
  BY <1>1 DEF EntryOK
<1> QED
  BY <1>1, <1>2, <1>3 DEF EntryOK

LEMMA NetHttpInv ==
    ASSUME NetInv, NEW c \in HttpClient,
           \/ HttpAccept(c) \/ HttpWritten(c) \/ http_stream_status_timeout(c) \/ http_stream_status_dead(c)
           \/ \E wait \in BOOLEAN : HttpRequest(c, wait)
    PROVE  /\ http' \in [HttpClient -> HttpState] /\ http_clients' \in [HttpClient -> Nat]
           /\ \A d \in HttpClient : EntryOK(http'[d], http_clients'[d])
<1> DEFINE Leaves(s, n) == /\ s \in HttpState /\ n \in Nat /\ EntryOK(s, n)
                           /\ http' = [http EXCEPT ![c] = s] /\ http_clients' = [http_clients EXCEPT ![c] = n]
<1> SUFFICES \E s, n : Leaves(s, n)
  BY OneClient
<1>h. PICK h, m : h = http[c] /\ m = http_clients[c]
  OBVIOUS
<1>0. h \in HttpState /\ m \in Nat /\ EntryOK(h, m)
      /\ http_clients = [http_clients EXCEPT ![c] = m]
  BY <1>h DEF NetInv, NetTypes
<1>1. CASE HttpAccept(c)
  <2>0. ~h.open
    BY <1>1, <1>h DEF HttpAccept
  <2>1. PICK s : s = [NoHttp EXCEPT !.open = TRUE, !.rerun = h.rerun]
    OBVIOUS
  <2>2. s \in HttpState
    BY <1>0, <2>1 DEF HttpState, NoHttp
  <2>3. ~s.delay /\ ~s.poll /\ ~s.writing
    BY <1>0, <2>1 DEF HttpState, NoHttp
  <2>4. s.rerun <=> h.rerun
    BY <1>0, <2>1 DEF HttpState, NoHttp
  <2>5. EntryOK(s, m)
    BY <1>0, <2>0, <2>3, <2>4 DEF EntryOK
  <2>6. Leaves(s, m)
    BY <1>0, <1>1, <1>h, <2>1, <2>2, <2>5 DEF HttpAccept
  <2> QED
    BY <2>6
<1>2. CASE HttpWritten(c)
  <2>0. h.writing
    BY <1>2, <1>h DEF HttpWritten
  <2>1. PICK s : s = [h EXCEPT !.writing = FALSE, !.delay = FALSE]
    OBVIOUS
  <2>2. s \in HttpState
    BY <1>0, <2>1 DEF HttpState
  <2>3. ~s.delay /\ ~s.writing
    BY <1>0, <2>1 DEF HttpState
  <2>4. (s.rerun <=> h.rerun) /\ (s.poll <=> h.poll) /\ (s.open <=> h.open) /\ (s.dead_callback <=> h.dead_callback)
    BY <1>0, <2>1 DEF HttpState
  <2>5. EntryOK(s, m)
    BY <1>0, <2>0, <2>3, <2>4 DEF EntryOK
  <2>6. http' = [http EXCEPT ![c] = s]
    BY <1>2, <1>h, <2>1 DEF HttpWritten
  <2>7. Leaves(s, m)
    BY <1>0, <1>2, <2>2, <2>5, <2>6 DEF HttpWritten
  <2> QED
    BY <2>7
<1>3. CASE http_stream_status_timeout(c)
  <2>1. PICK s : s = http_stream_status_send(h)
    OBVIOUS
  <2>2. s \in HttpState /\ Less(m) \in Nat /\ EntryOK(s, Less(m))
    BY <1>0, <2>1, SentEntry
  <2>3. http' = [http EXCEPT ![c] = s] /\ http_clients' = [http_clients EXCEPT ![c] = Less(m)]
    BY <1>3, <1>h, <2>1 DEF http_stream_status_timeout
  <2>4. Leaves(s, Less(m))
    BY <2>2, <2>3
  <2> QED
    BY <2>4
<1>4. CASE http_stream_status_dead(c)
  <2>1. PICK s, n : s = [NoHttp EXCEPT !.rerun = h.rerun] /\ n = IF h.dead_callback THEN Less(m) ELSE m
    OBVIOUS
  <2>2. s \in HttpState
    BY <1>0, <2>1 DEF HttpState, NoHttp
  <2>3. ~s.delay /\ ~s.poll /\ ~s.writing
    BY <1>0, <2>1 DEF HttpState, NoHttp
  <2>4. s.rerun <=> h.rerun
    BY <1>0, <2>1 DEF HttpState, NoHttp
  <2>5. n \in Nat /\ (~h.rerun => n = 0)
    BY <1>0, <2>1 DEF Less, EntryOK
  <2>6. EntryOK(s, n)
    BY <2>3, <2>4, <2>5 DEF EntryOK
  <2>7. http' = [http EXCEPT ![c] = s] /\ http_clients' = [http_clients EXCEPT ![c] = n]
    BY <1>4, <1>h, <2>1 DEF http_stream_status_dead
  <2>8. Leaves(s, n)
    BY <2>2, <2>5, <2>6, <2>7
  <2> QED
    BY <2>8
<1>5. ASSUME NEW wait \in BOOLEAN, HttpRequest(c, wait)
      PROVE  \E s, n : Leaves(s, n)
  <2>0. h.open /\ ~h.delay /\ (~h.rerun => m + 1 = 1) /\ m + 1 \in Nat
    BY <1>0, <1>5, <1>h DEF HttpRequest, EntryOK
  <2>1. CASE ~http[c].writing /\ wait /\ http_stream_status(c, wait)
    <3>1. PICK s : s = [h EXCEPT !.delay = TRUE, !.dead_callback = TRUE, !.poll = TRUE]
      OBVIOUS
    <3>2. s \in HttpState
      BY <1>0, <3>1 DEF HttpState
    <3>3. s.delay /\ s.dead_callback /\ s.poll
      BY <1>0, <3>1 DEF HttpState
    <3>4. (s.rerun <=> h.rerun) /\ (s.writing <=> h.writing) /\ (s.open <=> h.open)
      BY <1>0, <3>1 DEF HttpState
    <3>5. EntryOK(s, m + 1)
      BY <1>h, <2>0, <2>1, <3>3, <3>4 DEF EntryOK
    <3>6. http' = [http EXCEPT ![c] = s] /\ http_clients' = [http_clients EXCEPT ![c] = m + 1]
      BY <1>h, <2>1, <3>1 DEF http_stream_status
    <3>7. Leaves(s, m + 1)
      BY <2>0, <3>2, <3>5, <3>6
    <3> QED
      BY <3>7
  <2>2. CASE ~wait /\ http_stream_status(c, wait)
    <3>1. PICK t : t = http_stream_status_send(h)
      OBVIOUS
    <3>2. t \in HttpState /\ Less(m) \in Nat /\ ~t.delay /\ EntryOK(t, Less(m))
      BY <1>0, <3>1, SentEntry, SentRecord
    <3>3. PICK s : s = [t EXCEPT !.writing = TRUE]
      OBVIOUS
    <3>4. s \in HttpState
      BY <3>2, <3>3 DEF HttpState
    <3>5. ~s.delay /\ (s.poll <=> t.poll) /\ (s.rerun <=> t.rerun) /\ (s.open <=> t.open) /\ (s.dead_callback <=> t.dead_callback)
      BY <3>2, <3>3 DEF HttpState
    <3>6. EntryOK(s, Less(m))
      BY <3>2, <3>5 DEF EntryOK
    <3>7. http' = [http EXCEPT ![c] = s] /\ http_clients' = [http_clients EXCEPT ![c] = Less(m)]
      BY <1>h, <2>2, <3>1, <3>3 DEF http_stream_status
    <3>8. Leaves(s, Less(m))
      BY <3>2, <3>4, <3>6, <3>7
    <3> QED
      BY <3>8
  <2>3. CASE /\ http[c].writing /\ wait
             /\ http' = [http EXCEPT ![c].delay = TRUE, ![c].dead_callback = TRUE, ![c].poll = TRUE, ![c].rerun = TRUE]
             /\ http_clients' = [http_clients EXCEPT ![c] = @ + 1]
    <3>1. PICK s : s = [h EXCEPT !.delay = TRUE, !.dead_callback = TRUE, !.poll = TRUE, !.rerun = TRUE]
      OBVIOUS
    <3>2. s \in HttpState
      BY <1>0, <3>1 DEF HttpState
    <3>3. s.delay /\ s.dead_callback /\ s.poll /\ s.rerun
      BY <1>0, <3>1 DEF HttpState
    <3>4. s.open <=> h.open
      BY <1>0, <3>1 DEF HttpState
    <3>5. EntryOK(s, m + 1)
      BY <2>0, <3>3, <3>4 DEF EntryOK
    <3>6. http' = [http EXCEPT ![c] = s] /\ http_clients' = [http_clients EXCEPT ![c] = m + 1]
      BY <1>h, <2>3, <3>1
    <3>7. Leaves(s, m + 1)
      BY <2>0, <3>2, <3>5, <3>6
    <3> QED
      BY <3>7
  <2> QED
    BY <1>5, <2>1, <2>2, <2>3 DEF HttpRequest
<1> QED
  BY <1>1, <1>2, <1>3, <1>4, <1>5

\* Whoever waits is answered, once.
LEMMA AnswersSound ==
    ASSUME NetInv, NEW C \in SUBSET HttpClient,
           http' = [c \in HttpClient |-> IF c \in C THEN Answered(c) ELSE http[c]],
           http_clients' = [c \in HttpClient |-> IF c \in C THEN 0 ELSE http_clients[c]]
    PROVE  /\ http' \in [HttpClient -> HttpState] /\ http_clients' \in [HttpClient -> Nat]
           /\ \A d \in HttpClient : EntryOK(http'[d], http_clients'[d])
<1>1. ASSUME NEW c \in HttpClient PROVE Answered(c) \in HttpState /\ EntryOK(Answered(c), 0)
  <2>0. http[c] \in HttpState /\ http_clients[c] \in Nat /\ EntryOK(http[c], http_clients[c])
    BY DEF NetInv, NetTypes
  <2>1. CASE http_clients[c] > 0 /\ http[c].open
    <3>1. Answered(c) = http_stream_status_send(http[c])
      BY <2>1 DEF Answered
    <3> QED
      BY <2>0, <3>1, SentEntry
  <2>2. CASE ~(http_clients[c] > 0 /\ http[c].open)
    <3>1. Answered(c) = http[c]
      BY <2>2 DEF Answered
    <3> QED
      BY <2>0, <2>2, <3>1 DEF HttpState, EntryOK
  <2> QED
    BY <2>1, <2>2
<1>2. \A c \in HttpClient : http[c] \in HttpState /\ http_clients[c] \in Nat /\ EntryOK(http[c], http_clients[c])
  BY DEF NetInv, NetTypes
<1> QED
  BY <1>1, <1>2

LEMMA NatStep == ASSUME NEW n \in Nat PROVE n + 1 \in Nat /\ n + 1 > 0 /\ (n > 0 => n - 1 \in Nat)
  OBVIOUS

LEMMA NetCmdInv ==
    ASSUME NetInv, NEW s \in CmdSock,
           \/ cmdsock_accept(s) \/ cmdsock_lost(s) \/ cmdsock_drop_client_tmr(s)
           \/ \E line \in {"pass", "read pass", "command"} : cmdsock_read(s, line)
    PROVE  /\ cmd_clients' \in [CmdSock -> CmdState] /\ drops' \in [CmdSock -> Nat]
           /\ \A r \in CmdSock : cmd_clients'[r].dead => drops'[r] > 0
<1>0. /\ cmd_clients \in [CmdSock -> CmdState] /\ drops \in [CmdSock -> Nat]
      /\ \A r \in CmdSock : cmd_clients[r].dead => drops[r] > 0
  BY DEF NetInv, NetTypes
<1>n. drops[s] \in Nat
  BY <1>0
<1>a. drops[s] + 1 \in Nat /\ drops[s] + 1 > 0 /\ (drops[s] > 0 => drops[s] - 1 \in Nat)
  BY <1>n, NatStep
<1> USE DEF CmdState, NoCmd
<1>1. CASE cmdsock_accept(s)
  BY <1>0, <1>1 DEF cmdsock_accept
<1>2. CASE cmdsock_lost(s)
  BY <1>0, <1>2 DEF cmdsock_lost
<1>3. CASE cmdsock_drop_client_tmr(s)
  <2>a. drops' = [drops EXCEPT ![s] = drops[s] - 1] /\ drops[s] > 0
    BY <1>3 DEF cmdsock_drop_client_tmr
  <2>b. drops[s] - 1 \in Nat
    BY <1>a, <2>a
  <2>0. drops' = [drops EXCEPT ![s] = drops[s] - 1] /\ drops[s] - 1 \in Nat
    BY <2>a, <2>b
  <2>1. drops' \in [CmdSock -> Nat] /\ \A r \in CmdSock : r # s => drops'[r] = drops[r]
    BY <1>0, <2>0
  <2>2. cmd_clients' \in [CmdSock -> CmdState] /\ ~cmd_clients'[s].dead
        /\ \A r \in CmdSock : r # s => cmd_clients'[r] = cmd_clients[r]
    BY <1>0, <1>3 DEF cmdsock_drop_client_tmr
  <2> QED
    BY <1>0, <2>1, <2>2
<1>4. CASE \E line \in {"pass", "read pass", "command"} : cmdsock_read(s, line)
  <2>1. CASE cmd_clients' = [cmd_clients EXCEPT ![s].authed = TRUE] /\ UNCHANGED drops
    BY <1>0, <2>1
  <2>2. CASE cmd_clients' = [cmd_clients EXCEPT ![s].readonly = TRUE] /\ UNCHANGED drops
    BY <1>0, <2>2
  <2>3. CASE cmd_clients' = [cmd_clients EXCEPT ![s].showinfo = TRUE] /\ UNCHANGED drops
    BY <1>0, <2>3
  <2>4. CASE cmd_clients' = [cmd_clients EXCEPT ![s].dead = TRUE] /\ drops' = [drops EXCEPT ![s] = @ + 1]
    <3>a. drops' = [drops EXCEPT ![s] = drops[s] + 1]
      BY <2>4
    <3>0. drops' = [drops EXCEPT ![s] = drops[s] + 1] /\ drops[s] + 1 \in Nat /\ drops[s] + 1 > 0
      BY <1>a, <3>a
    <3>1. drops' \in [CmdSock -> Nat] /\ drops'[s] > 0 /\ \A r \in CmdSock : r # s => drops'[r] = drops[r]
      BY <1>0, <3>0
    <3>2. cmd_clients' \in [CmdSock -> CmdState]
      BY <1>0, <2>4
    <3>3. \A r \in CmdSock : r # s => cmd_clients'[r] = cmd_clients[r]
      BY <1>0, <2>4
    <3> QED
      BY <1>0, <3>1, <3>2, <3>3
  <2> QED
    BY <1>4, <2>1, <2>2, <2>3, <2>4 DEF cmdsock_read
<1> QED
  BY <1>1, <1>2, <1>3, <1>4

LEMMA NetPushInv == ASSUME NetInv, pushNext, UNCHANGED statsVars PROVE NetInv'
<1> DEFINE HttpOK == /\ http' \in [HttpClient -> HttpState] /\ http_clients' \in [HttpClient -> Nat]
                     /\ \A d \in HttpClient : EntryOK(http'[d], http_clients'[d])
           CmdOK == /\ cmd_clients' \in [CmdSock -> CmdState] /\ drops' \in [CmdSock -> Nat]
                    /\ \A r \in CmdSock : cmd_clients'[r].dead => drops'[r] > 0
<1>0. (/\ stats_sock \in {"NULL", "connecting", "connected"}
       /\ kicksrc_sock \in {"NULL", "connecting", "connected"}
       /\ rb_timers \in [stats_timeout : Nat, update_stats : Nat, kicksrc_timeout : Nat]
       /\ Polling)'
  BY DEF statsVars, NetInv, NetTypes, Polling
<1>1. SameHttp => HttpOK
  BY DEF SameHttp, NetInv, NetTypes
<1>2. UNCHANGED <<cmd_clients, drops>> => CmdOK
  BY DEF NetInv, NetTypes
<1>3. UNCHANGED pushVars => HttpOK /\ CmdOK
  BY <1>1, <1>2 DEF pushVars, SameHttp
<1>4. ASSUME NEW c \in HttpClient, NEW wait \in BOOLEAN,
             \/ HttpAccept(c) \/ HttpWritten(c) \/ http_stream_status_timeout(c) \/ http_stream_status_dead(c)
             \/ HttpRequest(c, wait)
      PROVE  HttpOK /\ CmdOK
  <2>1. HttpOK
    BY <1>4, NetHttpInv
  <2>2. UNCHANGED <<cmd_clients, drops>>
    BY <1>4 DEF HttpAccept, HttpWritten, http_stream_status_timeout, http_stream_status_dead,
       HttpRequest, SameCmd
  <2> QED
    BY <1>2, <2>1, <2>2
<1>5. ASSUME NEW C \in SUBSET HttpClient, Answer(C) PROVE HttpOK /\ CmdOK
  BY <1>2, <1>5, AnswersSound DEF Answer, SameCmd
<1>6. ASSUME NEW s \in CmdSock, NEW line \in {"pass", "read pass", "command"},
             \/ cmdsock_accept(s) \/ cmdsock_lost(s) \/ cmdsock_drop_client_tmr(s) \/ cmdsock_read(s, line)
      PROVE  HttpOK /\ CmdOK
  <2>1. CmdOK
    BY <1>6, NetCmdInv
  <2>2. SameHttp
    BY <1>6 DEF cmdsock_accept, cmdsock_lost, cmdsock_drop_client_tmr, cmdsock_read
  <2> QED
    BY <1>1, <2>1, <2>2
<1>7. ASSUME NEW port \in BOOLEAN, NEW bound \in BOOLEAN, radiobot_conf_reload(port, bound)
      PROVE HttpOK /\ CmdOK
  <2>1. HttpOK
    BY <1>1, <1>7 DEF radiobot_conf_reload
  <2>2. CmdOK
    BY <1>7 DEF radiobot_conf_reload, NetInv, NetTypes, CmdState, NoCmd
  <2> QED
    BY <2>1, <2>2
<1>8. ASSUME RadiobotFini PROVE HttpOK /\ CmdOK
  <2>1. /\ http' = [c \in HttpClient |-> IF c \in HttpClient THEN Answered(c) ELSE http[c]]
        /\ http_clients' = [c \in HttpClient |-> IF c \in HttpClient THEN 0 ELSE http_clients[c]]
    BY <1>8 DEF RadiobotFini
  <2>3. HttpOK
    BY <2>1, AnswersSound
  <2>2. CmdOK
    BY <1>8 DEF RadiobotFini, CmdState, NoCmd
  <2> QED
    BY <2>3, <2>2
<1>9. ASSUME RadiobotInit \/ OldDrop PROVE HttpOK /\ CmdOK
  <2>1. CASE RadiobotInit
    BY <1>1, <1>2, <2>1 DEF RadiobotInit, SameHttp
  <2>2. CASE OldDrop
    BY <1>3, <2>2 DEF OldDrop
  <2> QED
    BY <1>9, <2>1, <2>2
<1>10. HttpOK /\ CmdOK
  <2>1. \A c \in HttpClient : notify(c) => Answer({c})
    BY DEF notify
  <2>2. {} \in SUBSET HttpClient /\ HttpClient \in SUBSET HttpClient /\ \A c \in HttpClient : {c} \in SUBSET HttpClient
    OBVIOUS
  <2>3. ASSUME NEW c \in HttpClient,
               \/ HttpAccept(c) \/ HttpWritten(c) \/ http_stream_status_timeout(c) \/ http_stream_status_dead(c) \/ notify(c)
               \/ \E wait \in BOOLEAN : HttpRequest(c, wait)
        PROVE  HttpOK /\ CmdOK
    BY <1>4, <1>5, <2>1, <2>2, <2>3
  <2>4. ASSUME NEW s \in CmdSock,
               \/ cmdsock_accept(s) \/ cmdsock_lost(s) \/ cmdsock_drop_client_tmr(s)
               \/ drops[s] < MaxTimers /\ \E line \in {"pass", "read pass", "command"} : cmdsock_read(s, line)
        PROVE  HttpOK /\ CmdOK
    BY <1>6, <2>4
  <2>5. show_updated_waiting => HttpOK /\ CmdOK
    BY <1>5, <2>2 DEF show_updated_waiting
  <2>6. PICK good : good <=> HttpOK /\ CmdOK
    OBVIOUS
  <2>7. /\ RadiobotFini => good
        /\ RadiobotInit => good
        /\ OldDrop => good
        /\ show_updated_waiting => good
    BY <1>8, <1>9, <2>5, <2>6
  <2>8. ASSUME NEW port \in BOOLEAN, NEW bound \in BOOLEAN, radiobot_conf_reload(port, bound) PROVE good
    BY <1>7, <2>6, <2>8
  <2>9. good
    BY <2>3, <2>4, <2>6, <2>7, <2>8, Zenon DEF pushNext
  <2> QED
    BY <2>6, <2>9
<1> QED
  BY <1>0, <1>10 DEF NetInv, NetTypes

LEMMA NetNextInv == ASSUME NetInv, netNext \/ UNCHANGED netVars PROVE NetInv'
<1>1. CASE UNCHANGED netVars
  BY <1>1 DEF netVars, statsVars, pushVars, NetInv, NetTypes, Polling, EntryOK
<1> QED
  BY <1>1, NetStatsInv, NetPushInv DEF netNext

LEMMA NetInvImpliesSound == NetInv => RadiobotNetSound
  BY DEF NetInv, NetTypes, RadiobotNetSound, Entries, EntryOK, Dropped

(***************************************************************************)
(* RadiobotRemote: what another bot shows.                                 *)
(***************************************************************************)

Line == Who \cup {"SUCCESS", "ERR"}
RemoteTimers == [reconnect : Nat, connect_timeout : Nat, stats_timeout : Nat]

RemoteTypes ==
    /\ r_cmd_sock \in {"NULL", "connecting", "connected"}
    /\ cmd_sock_active \in BOOLEAN
    /\ r_timers \in RemoteTimers
    /\ lines \in Seq(Line)
    /\ mod \in Who
    /\ r_current_mod \in Who \cup {"NULL"}
    /\ {told, renamed, unanswered} \subseteq BOOLEAN
    /\ r_stats_sock \in {"NULL", "connecting", "connected"}
    /\ r_asks \in [{"status", "listener"} -> BOOLEAN]

\* What is on its way: only the first line may be the answer to the password, and a refusal is the
\* only one; the last is who is on the air, or was before he took another nick.
LinesOK ==
    /\ lines # <<>> => r_cmd_sock = "connected"
    /\ told => r_cmd_sock = "connected"
    /\ \A i \in 2..Len(lines) : lines[i] \in Who
    /\ lines # <<>> /\ lines[1] = "ERR" => Len(lines) = 1 /\ ~told
    /\ lines # <<>> /\ lines[1] # "ERR" => /\ lines[Len(lines)] \in Who
                                           /\ ~renamed => lines[Len(lines)] = mod

RemoteInv == RemoteTypes /\ LinesOK /\ Reconnects /\ ShowsTruth /\ Served

LEMMA RemoteInitInv == remoteInit => RemoteInv
<1> SUFFICES ASSUME remoteInit PROVE RemoteInv
  OBVIOUS
<1>1. r_timers \in RemoteTimers /\ r_timers.connect_timeout = 1
  BY DEF remoteInit, RemoteTimers, NoTimer
<1>2. lines = <<>> /\ lines \in Seq(Line) /\ Len(lines) = 0 /\ ~told
  BY DEF remoteInit
<1>3. r_asks \in [{"status", "listener"} -> BOOLEAN] /\ \A what \in DOMAIN r_asks : ~r_asks[what]
  <2>1. r_asks = [status |-> FALSE, listener |-> FALSE]
    BY DEF remoteInit
  <2>2. \A what \in DOMAIN r_asks : ~r_asks[what]
    BY <2>1
  <2>3. DOMAIN r_asks = {"status", "listener"}
    BY <2>1
  <2>4. r_asks \in [status : BOOLEAN, listener : BOOLEAN]
    BY <2>1
  <2>5. r_asks \in [{"status", "listener"} -> BOOLEAN]
    BY <2>4
  <2> QED
    BY <2>2, <2>5
<1>4. RemoteTypes
  BY <1>1, <1>2, <1>3 DEF remoteInit, RemoteTypes, Who
<1>5. LinesOK
  BY <1>2 DEF LinesOK
<1>6. Reconnects
  BY <1>1 DEF remoteInit, Reconnects
<1> QED
  BY <1>2, <1>3, <1>4, <1>5, <1>6 DEF RemoteInv, ShowsTruth, Served

\* Nothing is on its way, nothing has been told.
LEMMA NoLines ==
    ASSUME lines' = <<>>, ~told', UNCHANGED <<mod, r_current_mod, renamed>>, RemoteInv
    PROVE  LinesOK' /\ ShowsTruth' /\ lines' \in Seq(Line) /\ mod' \in Who /\ r_current_mod' \in Who \cup {"NULL"}
           /\ renamed' \in BOOLEAN
  BY DEF LinesOK, ShowsTruth, RemoteInv, RemoteTypes

\* A step of the connection leaves the statistics alone.
LEMMA LinkStep ==
    ASSUME RemoteInv, SameStats,
           r_cmd_sock' \in {"NULL", "connecting", "connected"}, cmd_sock_active' \in BOOLEAN, r_timers' \in RemoteTimers,
           lines' \in Seq(Line), mod' \in Who, r_current_mod' \in Who \cup {"NULL"}, {told', renamed'} \subseteq BOOLEAN,
           LinesOK', Reconnects', ShowsTruth'
    PROVE  RemoteInv'
  BY DEF RemoteInv, RemoteTypes, Served, SameStats

LEMMA ConnectStep ==
    ASSUME RemoteInv, NEW t \in RemoteTimers, cmd_client_connect(t), SameStats PROVE RemoteInv'
<1>1. /\ cmd_sock_active' = FALSE /\ lines' = <<>> /\ ~told' /\ told' \in BOOLEAN
      /\ UNCHANGED <<mod, r_current_mod, renamed>>
  BY DEF cmd_client_connect
<1>2. r_cmd_sock' \in {"NULL", "connecting"} /\ r_timers' \in RemoteTimers /\ Reconnects'
  <2>1. CASE r_cmd_sock' = "connecting" /\ r_timers' = [t EXCEPT !.connect_timeout = @ + 1]
    <3>1. PICK n \in Nat : n = t.connect_timeout + 1 /\ n > 0
      BY DEF RemoteTimers
    <3>2. r_timers' = [t EXCEPT !.connect_timeout = n]
      BY <2>1, <3>1
    <3> QED
      BY <1>1, <2>1, <3>1, <3>2 DEF RemoteTimers, Reconnects
  <2>2. CASE r_cmd_sock' = "NULL" /\ r_timers' = [t EXCEPT !.connect_timeout = 0, !.reconnect = 1]
    <3>1. r_timers' \in RemoteTimers
      BY <2>2 DEF RemoteTimers
    <3>2. r_timers'.connect_timeout = 0 /\ r_timers'.reconnect > 0
      BY <2>2 DEF RemoteTimers
    <3> QED
      BY <1>1, <2>2, <3>1, <3>2 DEF Reconnects
  <2> QED
    BY <2>1, <2>2 DEF cmd_client_connect
<1>3. renamed' \in BOOLEAN
  BY <1>1, NoLines
<1>4. LinesOK' /\ ShowsTruth' /\ lines' \in Seq(Line) /\ mod' \in Who /\ r_current_mod' \in Who \cup {"NULL"}
  BY <1>1, NoLines
<1> QED
  BY <1>1, <1>2, <1>3, <1>4, LinkStep

LEMMA LostStep ==
    ASSUME RemoteInv, r_cmd_sock' = "NULL", ~cmd_sock_active', cmd_sock_active' \in BOOLEAN,
           lines' = <<>>, ~told', told' \in BOOLEAN,
           cmd_client_schedule_reconnect, UNCHANGED <<mod, r_current_mod, renamed>>, SameStats
    PROVE  RemoteInv'
<1>1. r_timers' \in RemoteTimers /\ Reconnects'
  <2>1. r_timers' \in RemoteTimers
    BY DEF cmd_client_schedule_reconnect, RemoteInv, RemoteTypes, RemoteTimers
  <2>2. r_timers'.connect_timeout = 0 /\ r_timers'.reconnect > 0
    BY DEF cmd_client_schedule_reconnect, RemoteInv, RemoteTypes, RemoteTimers
  <2> QED
    BY <2>1, <2>2 DEF Reconnects
<1>2. /\ LinesOK' /\ ShowsTruth' /\ lines' \in Seq(Line) /\ mod' \in Who /\ r_current_mod' \in Who \cup {"NULL"}
      /\ renamed' \in BOOLEAN
  BY NoLines
<1> QED
  BY <1>1, <1>2, LinkStep

LEMMA ConnectedStep == ASSUME RemoteInv, cmd_client_connected PROVE RemoteInv'
<1>1. /\ r_cmd_sock' = "connected" /\ UNCHANGED <<cmd_sock_active, mod, r_current_mod, told>> /\ SameStats
      /\ ~told /\ mod \in Who /\ "ERR" \notin Who
  BY RemoteAssumption DEF cmd_client_connected, RemoteInv, LinesOK, RemoteTypes, Who
<1>2. r_timers' \in RemoteTimers /\ r_timers'.connect_timeout = 0
  BY DEF cmd_client_connected, RemoteInv, RemoteTypes, RemoteTimers
<1>3. Reconnects'
  BY <1>1, <1>2 DEF Reconnects
<1>4. ShowsTruth'
  BY <1>1 DEF ShowsTruth
<1>5. renamed' \in BOOLEAN /\ lines' \in Seq(Line) /\ LinesOK'
  <2>1. CASE lines' = <<"SUCCESS", mod>> /\ ~renamed' /\ renamed' = FALSE
    <3>1. lines' \in Seq(Line)
      BY <1>1, <2>1 DEF Line
    <3>2. Len(lines') = 2 /\ lines'[1] = "SUCCESS" /\ lines'[2] = mod'
      BY <1>1, <2>1
    <3>3. \A i \in 2..2 : i = 2
      OBVIOUS
    <3>4. LinesOK'
      BY <1>1, <3>2, <3>3 DEF LinesOK
    <3> QED
      BY <2>1, <3>1, <3>4
  <2>2. CASE lines' = <<"ERR">> /\ UNCHANGED renamed
    BY <1>1, <2>2 DEF LinesOK, Line, RemoteInv, RemoteTypes
  <2> QED
    BY <2>1, <2>2 DEF cmd_client_connected
<1> QED
  BY <1>1, <1>2, <1>3, <1>4, <1>5, LinkStep DEF RemoteInv, RemoteTypes

LEMMA ReadStep == ASSUME RemoteInv, cmd_client_read PROVE RemoteInv'
<1>1. PICK h : h = Head(lines)
  OBVIOUS
<1>2. /\ lines \in Seq(Line) /\ lines # <<>> /\ h = lines[1] /\ h \in Line /\ Len(lines) \in Nat \ {0}
      /\ lines' = Tail(lines) /\ SameStats
      /\ UNCHANGED <<r_cmd_sock, r_timers, mod, renamed>>
      /\ r_cmd_sock = "connected"
  BY <1>1 DEF RemoteInv, RemoteTypes, LinesOK, cmd_client_read
<1>3. /\ lines' \in Seq(Line) /\ Len(lines') = Len(lines) - 1
      /\ \A i \in 1..Len(lines') : lines'[i] = lines[i + 1]
  BY <1>2
<1>4. /\ "SUCCESS" \notin Who /\ "ERR" \notin Who
      /\ h \in {"SUCCESS", "ERR"} \/ h \in Who
  BY <1>2, RemoteAssumption DEF Who, Line
<1>5. /\ r_current_mod' = IF h \in {"SUCCESS", "ERR"} THEN r_current_mod ELSE h
      /\ told' = (told \/ h \notin {"SUCCESS", "ERR"})
      /\ cmd_sock_active' = (cmd_sock_active \/ h = "SUCCESS")
  BY <1>1 DEF cmd_client_read
<1>6. told' \in BOOLEAN /\ cmd_sock_active' \in BOOLEAN /\ r_current_mod' \in Who \cup {"NULL"}
  BY <1>4, <1>5 DEF RemoteInv, RemoteTypes
<1>7. Reconnects'
  BY <1>2 DEF RemoteInv, Reconnects
<1>8. \A i \in 2..Len(lines) : lines[i] \in Who
  BY DEF RemoteInv, LinesOK
<1>9. \A i \in 1..Len(lines') : lines'[i] \in Who
  BY <1>2, <1>3, <1>8
<1>10. CASE Len(lines) = 1
  <2>1. lines' = <<>>
    BY <1>2, <1>3, <1>10
  <2>2. LinesOK'
    <3>1. Len(lines') = 0 /\ r_cmd_sock' = "connected"
      BY <1>2, <2>1
    <3>2. \A i \in 2..0 : FALSE
      OBVIOUS
    <3> QED
      BY <2>1, <3>1, <3>2 DEF LinesOK
  <2>3. ShowsTruth'
    <3>1. CASE h = "ERR"
      BY <1>2, <1>5, <3>1 DEF ShowsTruth, RemoteInv, LinesOK
    <3>2. CASE h # "ERR"
      <4>1. h \in Who /\ (~renamed => h = mod)
        BY <1>2, <1>10, <3>2 DEF RemoteInv, LinesOK
      <4> QED
        BY <1>2, <1>4, <1>5, <4>1 DEF ShowsTruth
    <3> QED
      BY <3>1, <3>2
  <2> QED
    BY <1>2, <1>3, <1>6, <1>7, <2>2, <2>3, LinkStep DEF RemoteInv, RemoteTypes
<1>11. CASE Len(lines) # 1
  <2>1. lines' # <<>> /\ Len(lines') \in 1..Len(lines') /\ lines'[Len(lines')] = lines[Len(lines)] /\ 1 \in 1..Len(lines')
    BY <1>2, <1>3, <1>11
  <2>2. h # "ERR"
    BY <1>2, <1>11 DEF RemoteInv, LinesOK
  <2>3. ~renamed => lines[Len(lines)] = mod
    BY <1>2, <2>2 DEF RemoteInv, LinesOK
  <2>4. LinesOK'
    <3>1. lines'[1] # "ERR" /\ lines'[Len(lines')] \in Who /\ \A i \in 2..Len(lines') : lines'[i] \in Who
      BY <1>4, <1>9, <2>1
    <3> QED
      BY <1>2, <2>1, <2>3, <3>1 DEF LinesOK
  <2>5. ShowsTruth'
    BY <2>1 DEF ShowsTruth
  <2> QED
    BY <1>2, <1>3, <1>6, <1>7, <2>4, <2>5, LinkStep DEF RemoteInv, RemoteTypes
<1> QED
  BY <1>10, <1>11

LEMMA ModStep ==
    ASSUME RemoteInv, NEW w \in Who, NEW told_so \in BOOLEAN, ModChanges(w, told_so)
    PROVE RemoteInv'
<1>1. /\ mod' = w /\ renamed' = ~told_so /\ SameStats
      /\ UNCHANGED <<r_cmd_sock, r_timers, cmd_sock_active, r_current_mod, told>>
      /\ lines' = IF told_so /\ r_cmd_sock = "connected" /\ lines # <<"ERR">> THEN Append(lines, w) ELSE lines
      /\ renamed' \in BOOLEAN
      /\ "ERR" \notin Who
  BY RemoteAssumption DEF ModChanges, Who
<1>2. Reconnects'
  BY <1>1 DEF RemoteInv, Reconnects
<1>3. lines \in Seq(Line) /\ LinesOK /\ ShowsTruth
  BY DEF RemoteInv, RemoteTypes
<1>4. CASE told_so /\ r_cmd_sock = "connected" /\ lines # <<"ERR">>
  <2>1. /\ lines' \in Seq(Line) /\ Len(lines') = Len(lines) + 1 /\ lines'[Len(lines')] = w /\ lines' # <<>>
        /\ \A i \in 1..Len(lines) : lines'[i] = lines[i]
    BY <1>1, <1>3, <1>4 DEF Line
  <2>2. lines = <<>> \/ (lines # <<>> /\ lines[1] # "ERR")
    <3>1. lines # <<>> /\ lines[1] = "ERR" => lines = <<"ERR">>
      BY <1>3 DEF LinesOK
    <3> QED
      BY <1>4, <3>1
  <2>3. lines'[1] # "ERR"
    <3>1. CASE lines = <<>>
      BY <1>1, <2>1, <3>1
    <3>2. CASE lines # <<>> /\ lines[1] # "ERR"
      BY <1>3, <2>1, <3>2
    <3> QED
      BY <2>2, <3>1, <3>2
  <2>4. \A i \in 2..Len(lines') : lines'[i] \in Who
    <3>1. \A i \in 2..Len(lines) : lines[i] \in Who
      BY <1>3 DEF LinesOK
    <3>2. \A i \in 2..Len(lines') : i \in 2..Len(lines) \/ i = Len(lines')
      BY <1>3, <2>1
    <3>3. \A i \in 2..Len(lines) : i \in 1..Len(lines)
      BY <1>3
    <3> QED
      BY <2>1, <3>1, <3>2, <3>3
  <2>5. LinesOK'
    BY <1>1, <1>4, <2>1, <2>3, <2>4 DEF LinesOK
  <2>6. ShowsTruth'
    BY <2>1 DEF ShowsTruth
  <2> QED
    BY <1>1, <1>2, <2>1, <2>5, <2>6, LinkStep DEF RemoteInv, RemoteTypes
<1>5. CASE ~(told_so /\ r_cmd_sock = "connected" /\ lines # <<"ERR">>)
  <2>1. UNCHANGED lines
    BY <1>1, <1>5
  <2>2. CASE ~told_so
    <3>1. LinesOK' /\ ShowsTruth'
      BY <1>1, <1>3, <2>1, <2>2 DEF LinesOK, ShowsTruth
    <3> QED
      BY <1>1, <1>2, <1>3, <2>1, <3>1, LinkStep DEF RemoteInv, RemoteTypes
  <2>3. CASE r_cmd_sock # "connected" \/ lines = <<"ERR">>
    <3>1. ~told
      BY <1>3, <2>3 DEF LinesOK
    <3>2. lines = <<>> \/ lines[1] = "ERR"
      BY <1>3, <2>3 DEF LinesOK
    <3>3. LinesOK' /\ ShowsTruth'
      BY <1>1, <1>3, <2>1, <3>1, <3>2 DEF LinesOK, ShowsTruth
    <3> QED
      BY <1>1, <1>2, <1>3, <2>1, <3>3, LinkStep DEF RemoteInv, RemoteTypes
  <2> QED
    BY <1>5, <2>2, <2>3
<1> QED
  BY <1>4, <1>5

\* A step of the statistics leaves the connection alone, and its timers.
LEMMA StatsStep ==
    ASSUME RemoteInv, UNCHANGED linkVars, r_timers' \in RemoteTimers,
           r_timers'.reconnect = r_timers.reconnect, r_timers'.connect_timeout = r_timers.connect_timeout,
           r_stats_sock' \in {"NULL", "connecting", "connected"}, unanswered' \in BOOLEAN,
           r_asks' \in [{"status", "listener"} -> BOOLEAN], Served'
    PROVE  RemoteInv'
<1>1. LinesOK' /\ ShowsTruth' /\ Reconnects'
  BY DEF linkVars, RemoteInv, LinesOK, ShowsTruth, Reconnects
<1> QED
  BY <1>1 DEF RemoteInv, RemoteTypes, linkVars

LEMMA RemoteStatsInv ==
    ASSUME RemoteInv,
           \/ \E what \in DOMAIN r_asks : r_status(what)
           \/ r_stats_failed \/ r_stats_connected \/ \E good \in BOOLEAN : r_stats_received(good)
    PROVE  RemoteInv'
<1>0. /\ r_timers \in RemoteTimers /\ r_asks \in [{"status", "listener"} -> BOOLEAN]
      /\ r_stats_sock \in {"NULL", "connecting", "connected"} /\ unanswered \in BOOLEAN
      /\ \A f : f = [what \in DOMAIN r_asks |-> FALSE]
                => f \in [{"status", "listener"} -> BOOLEAN] /\ \A what \in {"status", "listener"} : ~f[what]
  BY DEF RemoteInv, RemoteTypes
<1>1. ASSUME NEW what \in DOMAIN r_asks, r_status(what) PROVE RemoteInv'
  <2>1. PICK t : /\ t = IF r_stats_sock # "NULL" THEN [r_timers EXCEPT !.stats_timeout = 0] ELSE r_timers
                 /\ r_stats_sock_connect(t)
    BY <1>1 DEF r_status
  <2>2. t \in RemoteTimers /\ t.reconnect = r_timers.reconnect /\ t.connect_timeout = r_timers.connect_timeout
    BY <1>0, <2>1 DEF RemoteTimers
  <2>3. r_asks' \in [{"status", "listener"} -> BOOLEAN] /\ UNCHANGED linkVars
    BY <1>0, <1>1 DEF r_status
  <2>4. CASE r_stats_sock' = "connecting" /\ r_timers' = [t EXCEPT !.stats_timeout = @ + 1] /\ UNCHANGED unanswered
    <3>1. PICK n \in Nat : n = t.stats_timeout + 1
      BY <2>2 DEF RemoteTimers
    <3>2. r_timers' = [t EXCEPT !.stats_timeout = n]
      BY <2>4, <3>1
    <3>3. /\ r_timers' \in RemoteTimers
          /\ r_timers'.reconnect = r_timers.reconnect /\ r_timers'.connect_timeout = r_timers.connect_timeout
      BY <2>2, <3>2 DEF RemoteTimers
    <3>4. Served'
      BY <2>4 DEF Served
    <3> QED
      BY <1>0, <2>3, <2>4, <3>3, <3>4, StatsStep
  <2>5. CASE r_stats_sock' = "NULL" /\ r_timers' = t /\ unanswered' = TRUE
    <3>1. Served'
      BY <2>5 DEF Served
    <3> QED
      BY <1>0, <2>2, <2>3, <2>5, <3>1, StatsStep
  <2> QED
    BY <2>1, <2>4, <2>5 DEF r_stats_sock_connect
<1>2. CASE r_stats_failed
  <2>1. /\ UNCHANGED <<linkVars, unanswered>> /\ r_stats_sock' = "NULL" /\ r_asks' = [what \in DOMAIN r_asks |-> FALSE]
        /\ r_asks' \in [{"status", "listener"} -> BOOLEAN]
    BY <1>0, <1>2 DEF r_stats_failed
  <2>2. Served'
    BY <1>0, <2>1 DEF Served
  <2>3. CASE r_timers' = [r_timers EXCEPT !.stats_timeout = 0]
    <3>1. /\ r_timers' \in RemoteTimers
          /\ r_timers'.reconnect = r_timers.reconnect /\ r_timers'.connect_timeout = r_timers.connect_timeout
      BY <1>0, <2>3 DEF RemoteTimers
    <3> QED
      BY <1>0, <2>1, <2>2, <3>1, StatsStep
  <2>4. CASE r_timers.stats_timeout > 0 /\ r_timers' = [r_timers EXCEPT !.stats_timeout = @ - 1]
    <3>1. PICK n \in Nat : n = r_timers.stats_timeout - 1
      BY <1>0, <2>4 DEF RemoteTimers
    <3>2. r_timers' = [r_timers EXCEPT !.stats_timeout = n]
      BY <2>4, <3>1
    <3>3. /\ r_timers' \in RemoteTimers
          /\ r_timers'.reconnect = r_timers.reconnect /\ r_timers'.connect_timeout = r_timers.connect_timeout
      BY <1>0, <3>2 DEF RemoteTimers
    <3> QED
      BY <1>0, <2>1, <2>2, <3>3, StatsStep
  <2> QED
    BY <1>2, <2>3, <2>4 DEF r_stats_failed
<1>3. CASE r_stats_connected
  <2>1. /\ UNCHANGED <<linkVars, r_asks, unanswered>> /\ r_stats_sock' = "connected"
        /\ r_timers' = [r_timers EXCEPT !.stats_timeout = 0]
    BY <1>3 DEF r_stats_connected
  <2>2. /\ r_timers' \in RemoteTimers
        /\ r_timers'.reconnect = r_timers.reconnect /\ r_timers'.connect_timeout = r_timers.connect_timeout
    BY <1>0, <2>1 DEF RemoteTimers
  <2>3. Served'
    BY <2>1 DEF Served
  <2> QED
    BY <1>0, <2>1, <2>2, <2>3, StatsStep
<1>4. ASSUME NEW good \in BOOLEAN, r_stats_received(good) PROVE RemoteInv'
  <2>1. UNCHANGED <<linkVars, r_timers>> /\ r_stats_sock' = "NULL"
    BY <1>4 DEF r_stats_received
  <2>2. CASE r_asks' = [what \in DOMAIN r_asks |-> FALSE] /\ UNCHANGED unanswered
    <3>1. Served' /\ r_asks' \in [{"status", "listener"} -> BOOLEAN]
      BY <1>0, <2>2 DEF Served
    <3> QED
      BY <1>0, <2>1, <2>2, <3>1, StatsStep
  <2>3. CASE UNCHANGED r_asks /\ unanswered' = TRUE
    <3>1. Served'
      BY <2>3 DEF Served
    <3> QED
      BY <1>0, <2>1, <2>3, <3>1, StatsStep
  <2> QED
    BY <1>4, <2>2, <2>3 DEF r_stats_received
<1> QED
  BY <1>1, <1>2, <1>3, <1>4

LEMMA RemoteNextInv == ASSUME RemoteInv, remoteNext \/ UNCHANGED remoteVars PROVE RemoteInv'
<1>0. r_timers \in RemoteTimers
  BY DEF RemoteInv, RemoteTypes
<1>1. CASE UNCHANGED remoteVars
  BY <1>1 DEF remoteVars, linkVars, RemoteInv, RemoteTypes, LinesOK, Reconnects, ShowsTruth, Served
<1>2. CASE cmd_client_lost
  BY <1>2, LostStep DEF cmd_client_lost
<1>3. CASE cmd_client_timeout
  <2>1. r_cmd_sock = "connecting" /\ ~cmd_sock_active
    BY <1>3 DEF cmd_client_timeout, RemoteInv, Reconnects, RemoteTypes
  <2> QED
    BY <1>3, <2>1, LostStep DEF cmd_client_timeout, RemoteInv, RemoteTypes
<1>4. CASE cmd_client_reconnect_tmr
  <2>1. PICK n \in Nat : n = r_timers.reconnect - 1
    BY <1>0, <1>4 DEF cmd_client_reconnect_tmr, RemoteTimers
  <2>2. [r_timers EXCEPT !.reconnect = @ - 1] = [r_timers EXCEPT !.reconnect = n]
    BY <2>1
  <2>3. [r_timers EXCEPT !.reconnect = n] \in RemoteTimers
    BY <1>0 DEF RemoteTimers
  <2> QED
    BY <1>4, <2>2, <2>3, ConnectStep DEF cmd_client_reconnect_tmr
<1>5. CASE radiobotremote_conf_reload
  BY <1>0, <1>5, ConnectStep DEF radiobotremote_conf_reload
<1> QED
  BY <1>1, <1>2, <1>3, <1>4, <1>5, ConnectedStep, ReadStep, ModStep, RemoteStatsInv DEF remoteNext

LEMMA RemoteInvImpliesSound == RemoteInv => RemoteSound
  BY DEF RemoteInv, RemoteTypes, RemoteSound

(***************************************************************************)
(* The theorems.                                                           *)
(***************************************************************************)

\* The stream thread and the commands: whatever the order of their steps, the process uses a null
\* pointer only if an announcement or the last song was taken away in the thread's window, nothing
\* claims to play while the thread sleeps, each vote has its timer, and an unloaded module has left
\* nothing behind (radioplaylist.c).
THEOREM SpecPlaylistSound == Spec => []PlaylistSound
<1>1. PlaylistInv /\ [Next /\ UNCHANGED asked]_vars => PlaylistInv'
  BY PlaylistNextInv
<1> QED
  BY <1>1, PlaylistInitInv, PlaylistInvImpliesSound, PTL DEF Spec

\* The parts are independent: each step of all is one of one part, and none of the others.
LEMMA AllParts ==
    /\ AllInit => Init /\ rbInit /\ netInit /\ remoteInit
    /\ [AllNext]_allVars => /\ (Next /\ UNCHANGED asked) \/ UNCHANGED vars
                            /\ rbNext \/ UNCHANGED rbVars
                            /\ netNext \/ UNCHANGED netVars
                            /\ remoteNext \/ UNCHANGED remoteVars
<1>1. AllInit => Init /\ rbInit /\ netInit /\ remoteInit
  BY DEF AllInit
<1>2. ASSUME AllNext
      PROVE  /\ (Next /\ UNCHANGED asked) \/ UNCHANGED vars
             /\ rbNext \/ UNCHANGED rbVars
             /\ netNext \/ UNCHANGED netVars
             /\ remoteNext \/ UNCHANGED remoteVars
  BY <1>2 DEF AllNext
<1>3. ASSUME UNCHANGED allVars
      PROVE UNCHANGED vars /\ UNCHANGED rbVars /\ UNCHANGED netVars /\ UNCHANGED remoteVars
  BY <1>3 DEF allVars
<1> QED
  BY <1>1, <1>2, <1>3

\* The same of all parts together.
THEOREM PartsPlaylistSound == AllSpec => []PlaylistSound
<1>1. PlaylistInv /\ [AllNext]_allVars => PlaylistInv'
  BY PlaylistNextInv, AllParts
<1>2. AllInit => PlaylistInv
  BY PlaylistInitInv, AllParts
<1> QED
  BY <1>1, <1>2, PlaylistInvImpliesSound, PTL DEF AllSpec

\* Who is on the air is what memory, database, topic and shared memory say; one poll or its repetition
\* is under way, a client that waits is an entry that is answered or dropped; and the remote bot shows
\* who was on the air last (radiobot.c, radiobotremote.c).
THEOREM PartsRadiobotSound == AllSpec => []RadiobotSound
<1>1. AllInit => OnAirInv /\ NetInv /\ RemoteInv
  BY OnAirInitInv, NetInitInv, RemoteInitInv, AllParts
<1>2. (OnAirInv /\ NetInv /\ RemoteInv) /\ [AllNext]_allVars => (OnAirInv /\ NetInv /\ RemoteInv)'
  BY OnAirNextInv, NetNextInv, RemoteNextInv, AllParts
<1>3. OnAirInv /\ NetInv /\ RemoteInv => RadiobotSound
  BY OnAirInvImpliesSound, NetInvImpliesSound, RemoteInvImpliesSound DEF RadiobotSound
<1> QED
  BY <1>1, <1>2, <1>3, PTL DEF AllSpec
=============================================================================
