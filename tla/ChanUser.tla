------------------------------- MODULE ChanUser -------------------------------
(* chanuser.c and chanuser_irc.c: the bot's picture of channels and users.     *)
(* When the bot joins a channel it asks the server for names, modes, bans and  *)
(* a WHO, one after the other (the "burst"); lines about the channel that      *)
(* arrive meanwhile are put aside and replayed when the WHO has ended.         *)
(*                                                                             *)
(* The link is one FIFO and a handler runs to its end, so a server event and   *)
(* the handler of the line that reports it are one step; what the network can  *)
(* delay is the answer to a request of the burst, and burst[c] says which      *)
(* request is outstanding.  The lines of a list reply (353..366, 367..368,     *)
(* 354..315) are written by the server in one go and are one step.             *)
EXTENDS Integers, Sequences, FiniteSets

CONSTANTS Nick, Chan,
          Mask,      \* ban masks
          NONE,      \* no channel
          Worlds,    \* bound: what a behaviour has of them, and of room for lines
          MaxBurst   \* bound: burst_count

ASSUME ChanUserAssumption ==
    /\ NONE \notin Chan
    /\ Nick \cap Mask = {}
    /\ Worlds \subseteq [nick : SUBSET Nick, chan : SUBSET Chan, mask : SUBSET Mask, lines : Nat]
    /\ MaxBurst \in Nat \ {0}

VARIABLES
    world,       \* who and which channels there are in this behaviour
    \* the server
    member,      \* member[c]: who is on channel c
    op,          \* op[c]: who has +o on it
    ban,         \* ban[c]: its ban list
    me,          \* the bot's nick, as the server knows it
    \* the bot
    nickname,    \* bot.nickname
    users,       \* keys of the dict `users'
    complete,    \* users whose ident and host are known
    userChans,   \* userChans[n]: keys of user->channels
    channels,    \* keys of the dict `channels'
    chanUsers,   \* chanUsers[c]: keys of channel->users
    chanOps,     \* chanOps[c]: users with MODE_OP in their chanuser->flags
    chanBans,    \* chanBans[c]: keys of channel->bans
    burst,       \* burst[c]: channel->burst_state
    lines,       \* lines[c]: channel->burst_lines
    burst_count, \* bot.burst_count
    replay,      \* the channel whose lines num_endofwho is replaying, or NONE
    pos,         \* the index of its loop
    \* history
    calm,        \* since the link came up nobody with a line put aside quit or changed nick
    missed,      \* channels the bot joined under a nick it did not know it had
    lost,        \* the bot has two users under one nick, or has taken somebody's JOIN for its own
    leaked       \* bursts that channel_add dropped without counting them down

server == <<world, member, op, ban, me>>
people == <<users, complete>>
rooms == <<channels, burst, lines, burst_count>>
links == <<userChans, chanUsers, chanOps>>
bot == <<nickname, people, links, chanBans, rooms>>
history == <<calm, missed, lost, leaked>>
vars == <<server, bot, replay, pos, history>>

BanCmd == {"+b", "-b"}
ModeCmd == {"+o", "-o"} \cup BanCmd
Cmd == {"JOIN", "PART", "KICK"} \cup ModeCmd
Line == [cmd : Cmd \ BanCmd, src : Nick, arg : Nick] \cup [cmd : BanCmd, src : Nick, arg : Mask]
BurstState == {"NAMES", "MODES", "BANS", "WHO", "FINISHED"}

Bursting(c) == burst[c] # "FINISHED"
Finished(c) == c \in channels /\ ~Bursting(c) /\ replay # c

Init ==
    /\ world \in Worlds
    /\ member \in [Chan -> SUBSET world.nick]
    /\ \A c \in Chan \ world.chan : member[c] = {}
    /\ op = [c \in Chan |-> {}]
    /\ ban = [c \in Chan |-> {}]
    /\ me \in world.nick /\ nickname = me
    /\ \A c \in Chan : me \notin member[c]
    /\ users = {} /\ complete = {}
    /\ userChans = [n \in Nick |-> {}]
    /\ channels = {}
    /\ chanUsers = [c \in Chan |-> {}]
    /\ chanOps = [c \in Chan |-> {}]
    /\ chanBans = [c \in Chan |-> {}]
    /\ burst = [c \in Chan |-> "FINISHED"]
    /\ lines = [c \in Chan |-> <<>>]
    /\ burst_count = 0
    /\ replay = NONE
    /\ pos = 1
    /\ calm = TRUE /\ missed = {} /\ lost = FALSE /\ leaked = 0
-----------------------------------------------------------------------------
(* The operations of chanuser.c, on a channel that is in the dict.             *)

\* user_complete for the users in `known', of those that are still there.
user_complete(known) == complete' = (complete \cup known) \cap users'

\* channel_user_add, with the user added first if he is new; a user who is on
\* the channel already only has his flags reset.
channel_user_add(c, n) ==
    /\ users' = users \cup {n}
    /\ userChans' = [userChans EXCEPT ![n] = @ \cup {c}]
    /\ chanUsers' = [chanUsers EXCEPT ![c] = @ \cup {n}]
    /\ chanOps' = [chanOps EXCEPT ![c] = @ \ {n}]

\* channel_user_del with check_dead: a user without channels is deleted.
channel_user_del(c, n) ==
    /\ users' = IF userChans[n] \subseteq {c} THEN users \ {n} ELSE users
    /\ userChans' = [userChans EXCEPT ![n] = @ \ {c}]
    /\ chanUsers' = [chanUsers EXCEPT ![c] = @ \ {n}]
    /\ chanOps' = [chanOps EXCEPT ![c] = @ \ {n}]

\* Users that lose their last channel with c.
Dying(c) == {n \in chanUsers[c] : userChans[n] \subseteq {c}}
Without(c) == [n \in Nick |-> IF n \in chanUsers[c] THEN userChans[n] \ {c}
                                                   ELSE userChans[n]]

\* channel_del; `spared' has been taken off the channel before, without check_dead.
channel_del(c, spared) ==
    /\ users' = users \ (Dying(c) \ spared)
    /\ userChans' = Without(c)
    /\ chanUsers' = [chanUsers EXCEPT ![c] = {}]
    /\ chanOps' = [chanOps EXCEPT ![c] = {}]
    /\ chanBans' = [chanBans EXCEPT ![c] = {}]
    /\ channels' = channels \ {c}
    /\ burst' = [burst EXCEPT ![c] = "FINISHED"]
    /\ lines' = [lines EXCEPT ![c] = <<>>]
    /\ UNCHANGED <<nickname, burst_count>>
-----------------------------------------------------------------------------
(* Handlers of chanuser_irc.c for lines that may be put aside, once they run.  *)

handle_join(c, n) ==
    /\ channel_user_add(c, n)
    /\ user_complete({n})
    /\ UNCHANGED <<nickname, chanBans, rooms>>

handle_part(c, n) ==
    /\ CASE n \notin users -> UNCHANGED <<nickname, users, links, chanBans, rooms>>
         [] n \in users /\ n = nickname -> channel_del(c, {n})
         [] n \in users /\ n # nickname ->
              /\ IF n \in chanUsers[c] THEN channel_user_del(c, n)
                                       ELSE UNCHANGED <<users, links>>
              /\ UNCHANGED <<nickname, chanBans, rooms>>
    /\ user_complete({n} \cap users)

\* The kicker is completed even if the victim turns out to be unknown.
handle_kick(c, k, n) ==
    /\ CASE n \notin users -> UNCHANGED <<nickname, users, links, chanBans, rooms>>
         [] n \in users /\ n = nickname -> channel_del(c, {})
         [] n \in users /\ n # nickname ->
              /\ IF n \in chanUsers[c] THEN channel_user_del(c, n)
                                       ELSE UNCHANGED <<users, links>>
              /\ UNCHANGED <<nickname, chanBans, rooms>>
    /\ user_complete({k} \cap users)

\* parse_channel_modes, for the modes that name a user or a mask.
handle_mode(c, cmd, x) ==
    /\ chanOps' = [chanOps EXCEPT ![c] = CASE cmd = "+o" -> @ \cup ({x} \cap chanUsers[c])
                                           [] cmd = "-o" -> @ \ {x}
                                           [] OTHER -> @]
    /\ chanBans' = [chanBans EXCEPT ![c] = CASE cmd = "+b" -> @ \cup {x}
                                             [] cmd = "-b" -> @ \ {x}
                                             [] OTHER -> @]
    /\ UNCHANGED <<nickname, people, userChans, chanUsers, rooms>>

handle(c, line) ==
    CASE line.cmd = "JOIN" -> handle_join(c, line.arg)
      [] line.cmd = "PART" -> handle_part(c, line.arg)
      [] line.cmd = "KICK" -> handle_kick(c, line.src, line.arg)
      [] line.cmd \in ModeCmd -> handle_mode(c, line.cmd, line.arg)

\* check_burst: put the line aside while the channel is bursting.
check_burst(c, line) ==
    /\ Len(lines[c]) < world.lines
    /\ lines' = [lines EXCEPT ![c] = Append(@, line)]
    /\ UNCHANGED <<nickname, people, links, chanBans, channels, burst, burst_count>>

\* Mutant: MODE is not put aside while the channel bursts.
Deliver_modesNow(c, cmd, src, arg) ==
    LET line == [cmd |-> cmd, src |-> src, arg |-> arg]
    IN CASE c \notin channels -> UNCHANGED bot
         [] c \in channels /\ Bursting(c) /\ cmd \notin ModeCmd -> check_burst(c, line)
         [] c \in channels /\ (~Bursting(c) \/ cmd \in ModeCmd) -> handle(c, line)

Deliver(c, cmd, src, arg) ==
    LET line == [cmd |-> cmd, src |-> src, arg |-> arg]
    IN CASE c \notin channels -> UNCHANGED bot
         [] c \in channels /\ Bursting(c) -> check_burst(c, line)
         [] c \in channels /\ ~Bursting(c) -> handle(c, line)

\* The server reports to the bot what happens on the channels it is on.
Receive(c, cmd, src, arg) ==
    IF me \in member[c] THEN Deliver(c, cmd, src, arg) ELSE UNCHANGED bot
-----------------------------------------------------------------------------
(* Server events, each with the handler of the line that reports it.           *)

\* What follows in a bot that is lost depends on which of two nodes a lookup
\* finds, and it goes on using what has been freed: it is not followed.
Idle == replay = NONE /\ ~lost

\* channel_add(name, 1) and the bot's own chanuser; a channel that is still in
\* the dict is deleted first, its burst is not counted down.
channel_add(c) ==
    /\ leaked' = leaked + (IF c \in channels /\ Bursting(c) THEN 1 ELSE 0)
    /\ users' = (users \ Dying(c)) \cup {nickname}
    /\ userChans' = [Without(c) EXCEPT ![nickname] = @ \cup {c}]
    /\ chanUsers' = [chanUsers EXCEPT ![c] = {nickname}]
    /\ chanOps' = [chanOps EXCEPT ![c] = {}]
    /\ chanBans' = [chanBans EXCEPT ![c] = {}]
    /\ channels' = channels \cup {c}
    /\ burst' = [burst EXCEPT ![c] = "NAMES"]
    /\ lines' = [lines EXCEPT ![c] = <<>>]
    /\ burst_count' = burst_count + 1
    /\ user_complete({nickname})
    /\ UNCHANGED nickname

\* The line the bot gets if n joins: its own, if it bears the nick the bot takes
\* for its own.
ReceiveJoin(c, n) ==
    IF n = nickname
    THEN burst_count < MaxBurst /\ channel_add(c)
    ELSE Deliver(c, "JOIN", n, n) /\ UNCHANGED leaked

join(c, n) ==
    /\ Idle
    /\ n \notin member[c]
    /\ member' = [member EXCEPT ![c] = @ \cup {n}]
    /\ op' = [op EXCEPT ![c] = IF member[c] = {} THEN {n} ELSE @]
    /\ IF me \in member'[c] THEN ReceiveJoin(c, n) ELSE UNCHANGED <<bot, leaked>>
    /\ missed' = IF n # me THEN missed ELSE IF me = nickname THEN missed \ {c} ELSE missed \cup {c}
    /\ lost' = (me \in member[c] /\ n = nickname)
    /\ UNCHANGED <<world, ban, me, replay, pos, calm>>

\* The server forgets a channel nobody is on.
Leave(c, n) ==
    /\ n \in member[c]
    /\ member' = [member EXCEPT ![c] = @ \ {n}]
    /\ op' = [op EXCEPT ![c] = @ \ {n}]
    /\ ban' = [ban EXCEPT ![c] = IF member[c] = {n} THEN {} ELSE @]

part(c, n) ==
    /\ Idle
    /\ Leave(c, n)
    /\ Receive(c, "PART", n, n)
    /\ UNCHANGED <<world, me, replay, pos, history>>

kick(c, k, n) ==
    /\ Idle /\ k \in op[c]
    /\ Leave(c, n)
    /\ Receive(c, "KICK", k, n)
    /\ UNCHANGED <<world, me, replay, pos, history>>

mode(c, k, sign, n) ==
    /\ Idle /\ k \in op[c] /\ n \in member[c]
    /\ (sign = "+o") = (n \notin op[c])
    /\ op' = [op EXCEPT ![c] = IF sign = "+o" THEN @ \cup {n} ELSE @ \ {n}]
    /\ Receive(c, sign, k, n)
    /\ UNCHANGED <<world, member, ban, me, replay, pos, history>>

mode_ban(c, k, sign, m) ==
    /\ Idle /\ k \in op[c]
    /\ (sign = "+b") = (m \notin ban[c])
    /\ ban' = [ban EXCEPT ![c] = IF sign = "+b" THEN @ \cup {m} ELSE @ \ {m}]
    /\ Receive(c, sign, k, m)
    /\ UNCHANGED <<world, member, op, me, replay, pos, history>>

\* NICK and QUIT come from the bot itself and users that share a channel with it.
Visible(n) == n = me \/ \E c \in Chan : {me, n} \subseteq member[c]

PutAside(n) ==
    \E c \in Chan : \E i \in DOMAIN lines[c] : n \in {lines[c][i].src, lines[c][i].arg}

Renamed(S, n, m) == IF n \in S THEN (S \ {n}) \cup {m} ELSE S

\* user_rename re-keys every dict the user is in.
user_rename(n, m) ==
    /\ users' = Renamed(users, n, m)
    /\ userChans' = [userChans EXCEPT ![m] = @ \cup userChans[n], ![n] = {}]
    /\ chanUsers' = [c \in Chan |-> IF c \in userChans[n] THEN Renamed(chanUsers[c], n, m)
                                                          ELSE chanUsers[c]]
    /\ chanOps' = [c \in Chan |-> IF c \in userChans[n] THEN Renamed(chanOps[c], n, m)
                                                        ELSE chanOps[c]]

\* The handler does nothing for a user it does not know, be it the bot itself,
\* which is no user before its first JOIN and after a KICK from its last channel:
\* bot.nickname is then stale.  A user renamed onto a nick that is still listed,
\* because the line with which its last bearer left is put aside, becomes the
\* second node under that key.
nick(n, m) ==
    /\ Idle
    /\ Visible(n) /\ m # me /\ \A c \in Chan : m \notin member[c]
    /\ calm' = (calm /\ ~PutAside(n) /\ ~PutAside(m))
    /\ lost' = (n \in users /\ m \in users)
    /\ member' = [c \in Chan |-> Renamed(member[c], n, m)]
    /\ op' = [c \in Chan |-> Renamed(op[c], n, m)]
    /\ me' = IF n = me THEN m ELSE me
    /\ IF n \in users
       THEN /\ user_rename(n, m)
            /\ user_complete({m})
            /\ nickname' = IF n = nickname THEN m ELSE nickname
       ELSE UNCHANGED <<nickname, people, links>>
    /\ UNCHANGED <<world, ban, chanBans, rooms, replay, pos, missed, leaked>>

user_del(n) ==
    /\ users' = users \ {n}
    /\ user_complete({})
    /\ userChans' = [userChans EXCEPT ![n] = {}]
    /\ chanUsers' = [c \in Chan |-> IF c \in userChans[n] THEN chanUsers[c] \ {n}
                                                          ELSE chanUsers[c]]
    /\ chanOps' = [c \in Chan |-> IF c \in userChans[n] THEN chanOps[c] \ {n}
                                                        ELSE chanOps[c]]

quit(n) ==
    /\ Idle
    /\ Visible(n) /\ n # me
    /\ calm' = (calm /\ ~PutAside(n))
    /\ member' = [c \in Chan |-> member[c] \ {n}]
    /\ op' = [c \in Chan |-> op[c] \ {n}]
    /\ ban' = [c \in Chan |-> IF member[c] \subseteq {n} THEN {} ELSE ban[c]]
    /\ IF n \in users THEN user_del(n) ELSE UNCHANGED <<people, links>>
    /\ UNCHANGED <<world, me, nickname, chanBans, rooms, replay, pos, missed, lost, leaked>>
-----------------------------------------------------------------------------
(* The burst: what the server answers, and the next request.  A bot that is no *)
(* longer on the channel may get no answer.                                    *)

Answer(c, state) == Idle /\ c \in channels /\ burst[c] = state

\* 353 and 366: the names with their flags, then "MODE #c".
num_namereply(c) ==
    /\ Answer(c, "NAMES")
    /\ LET names == IF me \in member[c] THEN member[c] ELSE {}
       IN /\ users' = users \cup names
          /\ userChans' = [n \in Nick |-> IF n \in names THEN userChans[n] \cup {c}
                                                         ELSE userChans[n]]
          /\ chanUsers' = [chanUsers EXCEPT ![c] = @ \cup names]
          /\ chanOps' = [chanOps EXCEPT ![c] = (@ \ names) \cup (op[c] \cap names)]
    /\ burst' = [burst EXCEPT ![c] = "MODES"]
    /\ UNCHANGED <<server, nickname, complete, chanBans, channels, lines, burst_count, replay, pos, history>>


\* 324, then "MODE #c b".
num_channelmodeis(c) ==
    /\ Answer(c, "MODES")
    /\ burst' = [burst EXCEPT ![c] = "BANS"]
    /\ UNCHANGED <<server, nickname, people, links, chanBans, channels, lines, burst_count, replay, pos, history>>

\* 367 and 368, then "WHO #c".
num_banlist(c) ==
    /\ Answer(c, "BANS")
    /\ chanBans' = [chanBans EXCEPT ![c] = @ \cup ban[c]]
    /\ burst' = [burst EXCEPT ![c] = "WHO"]
    /\ UNCHANGED <<server, nickname, people, links, channels, lines, burst_count, replay, pos, history>>

\* 354 for everybody on the channel, and 315; the replay follows in the handler.
num_endofwho(c) ==
    /\ Answer(c, "WHO")
    /\ complete' = IF me \in member[c] THEN complete \cup (member[c] \cap users)
                                             ELSE complete
    /\ burst' = [burst EXCEPT ![c] = "FINISHED"]
    /\ burst_count' = burst_count - 1
    /\ replay' = c
    /\ pos' = 1
    /\ UNCHANGED <<server, nickname, users, links, chanBans, channels, lines, history>>

\* One turn of the loop in num_endofwho; it stops if the line deleted the channel.
replay_line ==
    /\ replay # NONE /\ pos <= Len(lines[replay])
    /\ handle(replay, lines[replay][pos])
    /\ replay' = IF replay \in channels' THEN replay ELSE NONE
    /\ pos' = IF replay \in channels' THEN pos + 1 ELSE 1
    /\ UNCHANGED <<server, history>>

\* Mutant: the replayed lines are not freed.
replay_end_kept ==
    /\ replay # NONE /\ pos > Len(lines[replay])
    /\ replay' = NONE
    /\ pos' = 1
    /\ UNCHANGED <<server, bot, history>>

\* The lines are freed and the channel_complete hooks run.
replay_end ==
    /\ replay # NONE /\ pos > Len(lines[replay])
    /\ lines' = [lines EXCEPT ![replay] = <<>>]
    /\ replay' = NONE
    /\ pos' = 1
    /\ UNCHANGED <<server, nickname, people, links, chanBans, channels, burst, burst_count, history>>

\* The link was lost: irc_reconnect flushes everything, and the bot registers
\* again with a nick that is free.
irc_reconnect ==
    /\ Idle
    /\ member' = [c \in Chan |-> member[c] \ {me}]
    /\ op' = [c \in Chan |-> op[c] \ {me}]
    /\ ban' = [c \in Chan |-> IF member[c] \subseteq {me} THEN {} ELSE ban[c]]
    /\ users' = {} /\ complete' = {}
    /\ channels' = {}
    /\ userChans' = [n \in Nick |-> {}]
    /\ chanUsers' = [c \in Chan |-> {}]
    /\ chanOps' = [c \in Chan |-> {}]
    /\ chanBans' = [c \in Chan |-> {}]
    /\ burst' = [c \in Chan |-> "FINISHED"]
    /\ lines' = [c \in Chan |-> <<>>]
    /\ burst_count' = 0
    /\ me' \in {n \in world.nick : \A c \in Chan : n \notin member'[c]}
    /\ nickname' = me'
    /\ calm' = TRUE /\ missed' = {} /\ leaked' = 0
    /\ UNCHANGED <<world, replay, pos, lost>>

\* Where a bot that is lost is left.
lost_for_good == lost /\ UNCHANGED vars

Next ==
    \/ \E c \in world.chan :
         \/ num_namereply(c) \/ num_channelmodeis(c) \/ num_banlist(c) \/ num_endofwho(c)
         \/ \E n \in world.nick : join(c, n) \/ part(c, n)
         \/ \E k, n \in world.nick : kick(c, k, n) \/ \E sign \in {"+o", "-o"} : mode(c, k, sign, n)
         \/ \E k \in world.nick, m \in world.mask, sign \in {"+b", "-b"} : mode_ban(c, k, sign, m)
    \/ \E n \in world.nick : quit(n) \/ \E m \in world.nick : nick(n, m)
    \/ replay_line \/ replay_end
    \/ irc_reconnect \/ lost_for_good

Spec == Init /\ [][Next]_vars

\* The server answers a member's requests, even if handlers of other lines get in
\* between, and a handler that replays goes on.
Answers(c) == num_namereply(c) \/ num_channelmodeis(c) \/ num_banlist(c) \/ num_endofwho(c)
FairSpec ==
    /\ Spec
    /\ \A c \in Chan : SF_vars(me \in member[c] /\ Answers(c))
    /\ WF_vars(replay_line \/ replay_end)
-----------------------------------------------------------------------------
(* Type invariant.                                                             *)
TypeOK ==
    /\ world \in Worlds
    /\ member \in [Chan -> SUBSET Nick]
    /\ op \in [Chan -> SUBSET Nick]
    /\ ban \in [Chan -> SUBSET Mask]
    /\ me \in Nick /\ nickname \in Nick
    /\ users \in SUBSET Nick
    /\ complete \in SUBSET users
    /\ userChans \in [Nick -> SUBSET Chan]
    /\ channels \in SUBSET Chan
    /\ chanUsers \in [Chan -> SUBSET Nick]
    /\ chanOps \in [Chan -> SUBSET Nick]
    /\ chanBans \in [Chan -> SUBSET Mask]
    /\ burst \in [Chan -> BurstState]
    /\ lines \in [Chan -> Seq(Line)]
    /\ burst_count \in Int
    /\ replay \in Chan \cup {NONE}
    /\ pos \in Nat \ {0}
    /\ calm \in BOOLEAN /\ lost \in BOOLEAN
    /\ missed \in SUBSET Chan
    /\ leaked \in Nat

(* The two dicts that record a membership, channel->users and user->channels, *)
(* agree, and name only channels and users that exist: every handler and      *)
(* every deletion walks one of them and follows the pointers of the other.     *)
MembershipSymmetric ==
    /\ \A c \in Chan, n \in Nick : n \in chanUsers[c] <=> c \in userChans[n]
    /\ \A c \in Chan : chanUsers[c] # {} => c \in channels
    /\ \A c \in Chan : chanUsers[c] \subseteq users
    /\ \A c \in Chan : chanOps[c] \subseteq chanUsers[c]

(* "Deleting dead user": only the bot itself may be known without a channel.   *)
NoDeadUsers == \A n \in users : userChans[n] = {} => n = nickname

(* A channel is known exactly as long as the bot believes it is on it.         *)
BotOnItsChannels == \A c \in channels : nickname \in chanUsers[c]

(* burst_count is what num_endofwho takes for the number of bursting channels.  *)
(* It is that number and the bursts channel_add dropped when the bot was back  *)
(* before its PART or KICK had run: no other step loses or gains one, and      *)
(* these are not made up for before the next connection.                       *)
BurstCounted == burst_count = Cardinality({c \in channels : Bursting(c)}) + leaked

(* Nothing is put aside for a channel whose burst is over: it would be         *)
(* replayed by the end of some later, unrelated WHO, or never.                 *)
LinesOnlyWhileBursting ==
    \A c \in Chan : lines[c] # <<>> => c \in channels /\ (Bursting(c) \/ replay = c)

(* chanuser_irc.c: "so we can be sure in privmsg handlers that                 *)
(* user->ident/host are known": for everybody on a channel that has finished   *)
(* its burst.                                                                  *)
MembersComplete ==
    \A c \in channels : Finished(c) /\ me \in member[c] => chanUsers[c] \subseteq complete

(* chanuser.c: channel_complete is "called when all information about a        *)
(* channel is available": from then on the bot's members, operators and bans   *)
(* are the server's.  QUIT and NICK are not put aside while JOIN, PART, KICK   *)
(* and MODE are, so this can only be promised while it is calm.                *)
PictureAccurate ==
    ~lost =>
      /\ MembersComplete
      /\ calm => \A c \in channels : Finished(c) =>
                  /\ chanUsers[c] = member[c]
                  /\ chanOps[c] = op[c]
                  /\ chanBans[c] = ban[c]

(* The bot knows every channel the server has it on, except those it joined    *)
(* under a nick it did not know it had.                                        *)
ChannelsKnown == calm /\ Idle => \A c \in Chan \ missed : me \in member[c] => c \in channels

(* Memberships are sound: the dicts agree, nobody is kept without a reason,    *)
(* and no channel is missing.                                                  *)
MembershipSound == MembershipSymmetric /\ NoDeadUsers /\ ChannelsKnown

(* Bursts are sound, channel by channel: how many there are, the lines put     *)
(* aside, and the bot among the members.                                       *)
BurstSound == BurstCounted /\ LinesOnlyWhileBursting /\ BotOnItsChannels

(* What chanuser.c keeps is sound in itself, while it is being built and       *)
(* after, as long as the bot is not lost.                                      *)
ChanuserSound == TypeOK /\ (~lost => BurstSound /\ MembershipSound)

=============================================================================
