---------------------------- MODULE ChanUserProofs ----------------------------
(* Proofs about ChanUser for every set of nicks, channels and masks, and every *)
(* bound on the lines put aside and on the bursts.                             *)
EXTENDS ChanUser, FiniteSetTheorems, TLAPS

BotTypeOK ==
    /\ nickname \in Nick
    /\ users \in SUBSET Nick
    /\ complete \in SUBSET users
    /\ userChans \in [Nick -> SUBSET Chan]
    /\ channels \in SUBSET Chan
    /\ chanUsers \in [Chan -> SUBSET Nick]
    /\ chanOps \in [Chan -> SUBSET Nick]
    /\ chanBans \in [Chan -> SUBSET Mask]
    /\ burst \in [Chan -> BurstState]
    /\ lines \in [Chan -> Seq(Line)]
    /\ burst_count \in Int

(* What a handler finds and leaves behind, whichever line it runs for.         *)
Books == BotTypeOK /\ MembershipSymmetric /\ NoDeadUsers /\ BotOnItsChannels

(* A replay is of a channel that is known and has just finished its burst.     *)
ReplayKnown == replay # NONE => replay \in channels /\ ~Bursting(replay)

Bursts == IsFiniteSet(channels) /\ BurstCounted /\ LinesOnlyWhileBursting /\ ReplayKnown

(* The lines that take the bot off a channel.                                  *)
Removes(line, n) == line.cmd \in {"PART", "KICK"} /\ line.arg = n

(* As long as it knows anybody the bot has the nick it takes for its own, and  *)
(* while it is calm it knows the channels it is on but those it missed; it has *)
(* put nothing aside that would make it forget one of them.  This is what a    *)
(* replay needs, and more than ChannelsKnown, which does not say what the      *)
(* lines will do.                                                              *)
NickKnown == users # {} => me = nickname
ChannelsKept ==
    calm => \A c \in Chan \ missed : me \in member[c] =>
              c \in channels /\ \A i \in DOMAIN lines[c] : ~Removes(lines[c][i], me)

Inv == TypeOK /\ Books /\ Bursts /\ NickKnown /\ ChannelsKept

(* A bot that is lost is left as it is, with no replay running.                *)
LostInv == TypeOK /\ IF lost THEN replay = NONE ELSE Inv

\* The parts of the history are read in nearly every step.
USE DEF history

(* What a line does to the dict of channels: nothing, or it is the bot that    *)
(* leaves, or the line is put aside.                                           *)
Dropped(c) ==
    /\ channels' = channels \ {c}
    /\ burst' = [burst EXCEPT ![c] = "FINISHED"]
    /\ lines' = [lines EXCEPT ![c] = <<>>]
    /\ UNCHANGED burst_count
PutBy(c, line) ==
    /\ c \in channels /\ Bursting(c)
    /\ lines' = [lines EXCEPT ![c] = Append(@, line)]
    /\ UNCHANGED <<channels, burst, burst_count>>
-----------------------------------------------------------------------------
(* The handlers.                                                               *)

\* The bot leaves a channel: the books lose it, and the users nobody shares a channel with.
LEMMA ChannelDel ==
    ASSUME Books, NEW c \in channels, NEW spared \in SUBSET {nickname},
           channel_del(c, spared), complete' \in SUBSET users'
    PROVE  Books'
<1>1. BotTypeOK'
  BY DEF Books, BotTypeOK, channel_del, Dying, Without, BurstState
<1>2. MembershipSymmetric'
  BY DEF Books, BotTypeOK, MembershipSymmetric, channel_del, Dying, Without
<1>3. NoDeadUsers'
  BY DEF Books, BotTypeOK, MembershipSymmetric, NoDeadUsers, channel_del, Dying, Without
<1>4. BotOnItsChannels'
  BY DEF Books, BotTypeOK, BotOnItsChannels, channel_del
<1> QED
  BY <1>1, <1>2, <1>3, <1>4 DEF Books

\* A member goes: the books lose it, and the user too when that was its last channel.
LEMMA ChannelUserDel ==
    ASSUME Books, NEW c \in channels, NEW n \in chanUsers[c], n # nickname,
           channel_user_del(c, n), complete' \in SUBSET users',
           UNCHANGED <<nickname, chanBans, rooms>>
    PROVE  Books'
<1>1. BotTypeOK'
  BY DEF Books, BotTypeOK, channel_user_del, rooms
<1>2. MembershipSymmetric'
  BY DEF Books, BotTypeOK, MembershipSymmetric, channel_user_del, rooms
<1>3. NoDeadUsers'
  BY DEF Books, BotTypeOK, MembershipSymmetric, NoDeadUsers, channel_user_del, rooms
<1>4. BotOnItsChannels'
  BY DEF Books, BotTypeOK, BotOnItsChannels, channel_user_del, rooms
<1> QED
  BY <1>1, <1>2, <1>3, <1>4 DEF Books

\* What changes only who is complete keeps the books.
LEMMA BooksUntouched ==
    ASSUME Books, UNCHANGED <<nickname, users, links, chanBans, rooms>>, complete' \in SUBSET users'
    PROVE  Books'
BY DEF Books, BotTypeOK, MembershipSymmetric, NoDeadUsers, BotOnItsChannels, links, rooms

\* JOIN of another user, as the bot reads it.
LEMMA HandleJoin ==
    ASSUME Books, NEW c \in channels, NEW n \in Nick, handle_join(c, n)
    PROVE  Books' /\ UNCHANGED <<nickname, rooms>>
<1> USE DEF handle_join, channel_user_add, user_complete
<1>1. BotTypeOK'
  BY DEF Books, BotTypeOK, rooms
<1>2. MembershipSymmetric'
  BY DEF Books, BotTypeOK, MembershipSymmetric, rooms
<1>3. NoDeadUsers'
  BY DEF Books, BotTypeOK, MembershipSymmetric, NoDeadUsers, rooms
<1>4. BotOnItsChannels'
  BY DEF Books, BotTypeOK, BotOnItsChannels, rooms
<1> QED
  BY <1>1, <1>2, <1>3, <1>4 DEF Books

\* PART, of another user or of the bot itself.
LEMMA HandlePart ==
    ASSUME Books, NEW c \in channels, NEW n \in Nick, handle_part(c, n)
    PROVE  Books' /\ UNCHANGED nickname /\ (IF n = nickname THEN Dropped(c) ELSE UNCHANGED rooms)
<1>0. complete' \in SUBSET users'
  BY DEF handle_part, user_complete
<1>b. nickname \in users
  BY DEF Books, BotTypeOK, MembershipSymmetric, BotOnItsChannels
<1>1. CASE n # nickname /\ (n \notin users \/ n \notin chanUsers[c])
  <2>1. UNCHANGED <<nickname, users, links, chanBans, rooms>>
    BY <1>1 DEF handle_part
  <2> QED
    BY <1>0, <1>1, <2>1, BooksUntouched DEF links, rooms
<1>2. CASE n = nickname
  <2>1. channel_del(c, {n})
    BY <1>2, <1>b DEF handle_part
  <2>2. Books'
    BY <1>0, <1>2, <2>1, ChannelDel
  <2> QED
    BY <1>2, <2>1, <2>2 DEF channel_del, Dropped
<1>3. CASE n \in users /\ n # nickname /\ n \in chanUsers[c]
  <2>1. channel_user_del(c, n) /\ UNCHANGED <<nickname, chanBans, rooms>>
    BY <1>3 DEF handle_part
  <2> QED
    BY <1>0, <1>3, <2>1, ChannelUserDel DEF rooms
<1> QED
  BY <1>1, <1>2, <1>3

\* KICK, of another user or of the bot itself.
LEMMA HandleKick ==
    ASSUME Books, NEW c \in channels, NEW k \in Nick, NEW n \in Nick, handle_kick(c, k, n)
    PROVE  Books' /\ UNCHANGED nickname /\ (IF n = nickname THEN Dropped(c) ELSE UNCHANGED rooms)
<1>0. complete' \in SUBSET users'
  BY DEF handle_kick, user_complete
<1>b. nickname \in users
  BY DEF Books, BotTypeOK, MembershipSymmetric, BotOnItsChannels
<1>1. CASE n # nickname /\ (n \notin users \/ n \notin chanUsers[c])
  <2>1. UNCHANGED <<nickname, users, links, chanBans, rooms>>
    BY <1>1 DEF handle_kick
  <2> QED
    BY <1>0, <1>1, <2>1, BooksUntouched DEF links, rooms
<1>2. CASE n = nickname
  <2>1. channel_del(c, {})
    BY <1>2, <1>b DEF handle_kick
  <2>2. Books'
    BY <1>0, <1>2, <2>1, ChannelDel
  <2> QED
    BY <1>2, <2>1, <2>2 DEF channel_del, Dropped
<1>3. CASE n \in users /\ n # nickname /\ n \in chanUsers[c]
  <2>1. channel_user_del(c, n) /\ UNCHANGED <<nickname, chanBans, rooms>>
    BY <1>3 DEF handle_kick
  <2> QED
    BY <1>0, <1>3, <2>1, ChannelUserDel DEF rooms
<1> QED
  BY <1>1, <1>2, <1>3

\* MODE with an operator or a ban.
LEMMA HandleMode ==
    ASSUME Books, NEW c \in channels, NEW cmd \in ModeCmd, NEW x,
           IF cmd \in BanCmd THEN x \in Mask ELSE x \in Nick, handle_mode(c, cmd, x)
    PROVE  Books' /\ UNCHANGED <<nickname, rooms>>
<1> USE DEF handle_mode, people
<1>1. BotTypeOK'
  BY DEF Books, BotTypeOK, rooms, ModeCmd, BanCmd
<1>2. MembershipSymmetric'
  BY DEF Books, BotTypeOK, MembershipSymmetric, rooms
<1>3. NoDeadUsers' /\ BotOnItsChannels'
  BY DEF Books, NoDeadUsers, BotOnItsChannels, rooms
<1> QED
  BY <1>1, <1>2, <1>3 DEF Books

(* A handler of a line leaves the books in order; only the bot's own PART or   *)
(* KICK touches the dict of channels.                                          *)
LEMMA Handle ==
    ASSUME Books, NEW c \in channels, NEW line \in Line, handle(c, line)
    PROVE  Books' /\ UNCHANGED nickname /\ (IF Removes(line, nickname) THEN Dropped(c) ELSE UNCHANGED rooms)
<1>1. CASE line.cmd = "JOIN"
  <2>1. line.arg \in Nick /\ handle_join(c, line.arg)
    BY <1>1 DEF handle, Line, Cmd, ModeCmd, BanCmd
  <2> QED
    BY <1>1, <2>1, HandleJoin DEF rooms, Removes
<1>2. CASE line.cmd = "PART"
  <2>1. line.arg \in Nick /\ handle_part(c, line.arg)
    BY <1>2 DEF handle, Line, Cmd, ModeCmd, BanCmd
  <2> QED
    BY <1>2, <2>1, HandlePart DEF Removes
<1>3. CASE line.cmd = "KICK"
  <2>1. line.arg \in Nick /\ line.src \in Nick /\ handle_kick(c, line.src, line.arg)
    BY <1>3 DEF handle, Line, Cmd, ModeCmd, BanCmd
  <2> QED
    BY <1>3, <2>1, HandleKick DEF Removes
<1>4. CASE line.cmd \in ModeCmd
  <2>1. handle_mode(c, line.cmd, line.arg)
    BY <1>4 DEF handle, ModeCmd, BanCmd
  <2>2. IF line.cmd \in BanCmd THEN line.arg \in Mask ELSE line.arg \in Nick
    BY DEF Line, BanCmd
  <2> QED
    BY <1>4, <2>1, <2>2, HandleMode DEF rooms, Removes, ModeCmd, BanCmd
<1> QED
  BY <1>1, <1>2, <1>3, <1>4 DEF Line, Cmd, ModeCmd, BanCmd

\* A line put aside touches no book.
LEMMA CheckBurst ==
    ASSUME Books, NEW c \in channels, NEW line \in Line, Bursting(c), check_burst(c, line)
    PROVE  Books' /\ UNCHANGED nickname /\ PutBy(c, line)
<1>1. lines' \in [Chan -> Seq(Line)]
  BY DEF check_burst, Books, BotTypeOK
<1> QED
  BY <1>1 DEF check_burst, Books, BotTypeOK, MembershipSymmetric, NoDeadUsers, BotOnItsChannels,
              people, links, PutBy

Outcome(c, line) ==
    \/ UNCHANGED rooms
    \/ Dropped(c) /\ ~Bursting(c) /\ Removes(line, nickname)
    \/ PutBy(c, line)

\* A line about a channel keeps the books, whether it is run, put aside or about no channel.
LEMMA DeliverKeeps ==
    ASSUME Books, NEW c \in Chan, NEW cmd, NEW src, NEW arg,
           [cmd |-> cmd, src |-> src, arg |-> arg] \in Line, Deliver(c, cmd, src, arg)
    PROVE  /\ Books' /\ UNCHANGED nickname
           /\ Outcome(c, [cmd |-> cmd, src |-> src, arg |-> arg])
<1> DEFINE line == [cmd |-> cmd, src |-> src, arg |-> arg]
<1>0. line \in Line
  OBVIOUS
<1>1. CASE c \notin channels
  <2>1. UNCHANGED bot
    BY <1>1 DEF Deliver
  <2> QED
    BY <2>1, BooksUntouched DEF bot, people, links, rooms, Outcome, Books, BotTypeOK
<1>2. CASE c \in channels /\ Bursting(c)
  <2>1. check_burst(c, line)
    BY <1>2 DEF Deliver
  <2> HIDE DEF line
  <2>2. Books' /\ UNCHANGED nickname /\ PutBy(c, line)
    BY <1>0, <1>2, <2>1, CheckBurst
  <2> QED
    BY <2>2 DEF Outcome, line
<1>3. CASE c \in channels /\ ~Bursting(c)
  <2>1. handle(c, line)
    BY <1>3 DEF Deliver
  <2> HIDE DEF line
  <2>2. /\ Books' /\ UNCHANGED nickname
        /\ UNCHANGED rooms \/ (Dropped(c) /\ Removes(line, nickname))
    BY <1>0, <1>3, <2>1, Handle
  <2> QED
    BY <1>3, <2>2 DEF Outcome, line
<1> QED
  BY <1>1, <1>2, <1>3

(* The channels that are bursting, which BurstCounted counts.                  *)
BurstingChannels == {c \in channels : Bursting(c)}

\* The count of bursts stays right in a step that starts and ends none.
LEMMA SameBursting ==
    ASSUME IsFiniteSet(channels), BurstCounted, channels' \subseteq channels,
           \A c \in channels : Bursting(c) <=> c \in channels' /\ Bursting(c)',
           UNCHANGED <<burst_count, leaked>>
    PROVE  IsFiniteSet(channels') /\ BurstCounted'
<1>1. IsFiniteSet(channels')
  BY FS_Subset
<1>2. {c \in channels' : Bursting(c)'} = {c \in channels : Bursting(c)}
  OBVIOUS
<1> QED
  BY <1>1, <1>2 DEF BurstCounted

\* A bot that knows somebody knows itself.
LEMMA BotIsUser == ASSUME Books, users # {} PROVE nickname \in users
<1>1. PICK n \in users : n \in Nick
  BY DEF Books, BotTypeOK
<1>2. CASE userChans[n] = {}
  BY <1>2 DEF Books, NoDeadUsers
<1>3. CASE userChans[n] # {}
  BY <1>1, <1>3 DEF Books, BotTypeOK, MembershipSymmetric, BotOnItsChannels
<1> QED
  BY <1>2, <1>3

\* A bot that is on a channel has the nick it takes for its own.
LEMMA OnChannel == ASSUME Books, NickKnown, NEW c \in channels PROVE me = nickname /\ nickname \in users
BY DEF Books, BotTypeOK, MembershipSymmetric, BotOnItsChannels, NickKnown

\* The counter of bursts and the lines put aside agree after a line was delivered.
LEMMA OutcomeBursts ==
    ASSUME BotTypeOK, Bursts, Idle, UNCHANGED <<replay, leaked>>, NEW c \in Chan, NEW line, Outcome(c, line)
    PROVE  Bursts'
<1>1. channels' \subseteq channels /\ UNCHANGED burst_count
  BY DEF Outcome, rooms, Dropped, PutBy
<1>2. \A d \in channels : Bursting(d) <=> d \in channels' /\ Bursting(d)'
  BY DEF Outcome, rooms, Dropped, PutBy, Bursting, BotTypeOK
<1>3. IsFiniteSet(channels') /\ BurstCounted'
  BY <1>1, <1>2, SameBursting DEF Bursts
<1>4. LinesOnlyWhileBursting'
  <2> SUFFICES ASSUME NEW d \in Chan, lines'[d] # <<>>
               PROVE  d \in channels' /\ Bursting(d)'
    BY DEF LinesOnlyWhileBursting
  <2>1. d \in channels /\ lines[d] # <<>> => Bursting(d)
    BY ChanUserAssumption DEF Bursts, LinesOnlyWhileBursting, Idle, BotTypeOK
  <2>2. lines[d] # <<>> => d \in channels
    BY DEF Bursts, LinesOnlyWhileBursting
  <2> QED
    BY <2>1, <2>2 DEF Outcome, rooms, Dropped, PutBy, Bursting, BotTypeOK
<1>5. ReplayKnown'
  BY DEF ReplayKnown, Idle
<1> QED
  BY <1>3, <1>4, <1>5 DEF Bursts

\* The bot keeps a channel as long as the server has it there.
LEMMA OutcomeKept ==
    ASSUME Books, NickKnown, ChannelsKept, NEW c \in Chan, NEW line, Outcome(c, line),
           UNCHANGED <<me, calm, missed>>, Removes(line, me) => me \notin member'[c],
           \A d \in Chan : me \in member'[d] => me \in member[d]
    PROVE  ChannelsKept'
<1> SUFFICES ASSUME calm, NEW d \in Chan \ missed, me \in member'[d]
             PROVE  d \in channels' /\ \A i \in DOMAIN lines'[d] : ~Removes(lines'[d][i], me)
  BY DEF ChannelsKept, Removes
<1>t. BotTypeOK
  BY DEF Books
<1>1. d \in channels /\ \A i \in DOMAIN lines[d] : ~Removes(lines[d][i], me)
  BY DEF ChannelsKept
<1>2. CASE UNCHANGED rooms
  BY <1>1, <1>2 DEF rooms
<1>3. CASE Dropped(c) /\ Removes(line, nickname)
  <2>1. d # c
    BY <1>1, <1>3, OnChannel
  <2> QED
    BY <1>t, <1>1, <1>3, <2>1 DEF Dropped, BotTypeOK
<1>4. CASE PutBy(c, line)
  <2>1. d \in channels'
    BY <1>1, <1>4 DEF PutBy
  <2>2. CASE d # c
    BY <1>t, <1>1, <1>4, <2>2 DEF PutBy, BotTypeOK
  <2>3. CASE d = c
    <3>1. ~Removes(line, me)
      BY <2>3
    <3>2. lines[c] \in Seq(Line) /\ lines'[c] = Append(lines[c], line)
      BY <1>t, <1>4 DEF PutBy, BotTypeOK
    <3>3. ASSUME NEW i \in DOMAIN lines'[c] PROVE ~Removes(lines'[c][i], me)
      BY <1>1, <2>3, <3>1, <3>2
    <3> QED
      BY <2>1, <2>3, <3>3
  <2> QED
    BY <2>2, <2>3
<1> QED
  BY <1>2, <1>3, <1>4 DEF Outcome
-----------------------------------------------------------------------------
(* The server's events.                                                        *)

ServerTypeOK ==
    /\ world \in Worlds
    /\ member \in [Chan -> SUBSET Nick]
    /\ op \in [Chan -> SUBSET Nick]
    /\ ban \in [Chan -> SUBSET Mask]
    /\ me \in Nick
    /\ replay \in Chan \cup {NONE}
    /\ pos \in Nat \ {0}
    /\ calm \in BOOLEAN /\ lost \in BOOLEAN
    /\ missed \in SUBSET Chan
    /\ leaked \in Nat

\* The types, the server's and the bot's.
LEMMA Types == TypeOK <=> ServerTypeOK /\ BotTypeOK
<1>1. TypeOK => ServerTypeOK /\ BotTypeOK
  BY DEF TypeOK, ServerTypeOK, BotTypeOK
<1>2. ServerTypeOK /\ BotTypeOK => TypeOK
  BY DEF TypeOK, ServerTypeOK, BotTypeOK
<1> QED
  BY <1>1, <1>2

\* The same of the next state.
LEMMA TypesNext == ServerTypeOK' /\ BotTypeOK' => TypeOK'
BY DEF TypeOK, ServerTypeOK, BotTypeOK

\* What the server knows is a part of what there is.
LEMMA World ==
    ASSUME ServerTypeOK
    PROVE  world.nick \subseteq Nick /\ world.chan \subseteq Chan /\ world.mask \subseteq Mask
BY ChanUserAssumption DEF ServerTypeOK

\* The first state satisfies the invariant.
LEMMA InitInv == Init => Inv
<1> SUFFICES ASSUME Init PROVE Inv
  OBVIOUS
<1>1. ServerTypeOK
  <2>1. world.nick \subseteq Nick
    BY ChanUserAssumption DEF Init
  <2>2. member \in [Chan -> SUBSET Nick]
    BY <2>1 DEF Init
  <2>3. me \in Nick /\ world \in Worlds /\ ban \in [Chan -> SUBSET Mask] /\ op \in [Chan -> SUBSET Nick]
    BY <2>1 DEF Init
  <2>4. missed \in SUBSET Chan /\ leaked \in Nat /\ lost \in BOOLEAN /\ calm \in BOOLEAN
    BY DEF Init
  <2> QED
    BY <2>2, <2>3, <2>4 DEF Init, ServerTypeOK
<1>2. BotTypeOK
  BY <1>1 DEF Init, ServerTypeOK, BotTypeOK, BurstState
<1>3. MembershipSymmetric /\ NoDeadUsers /\ BotOnItsChannels
  BY DEF Init, MembershipSymmetric, NoDeadUsers, BotOnItsChannels
<1>4. IsFiniteSet(channels) /\ BurstCounted
  <2>1. IsFiniteSet(channels) /\ {c \in channels : Bursting(c)} = {}
    BY FS_EmptySet DEF Init
  <2> QED
    BY <2>1, FS_EmptySet DEF Init, BurstCounted
<1>5. LinesOnlyWhileBursting /\ ReplayKnown /\ NickKnown
  BY DEF Init, LinesOnlyWhileBursting, ReplayKnown, NickKnown
<1>6. ChannelsKept
  BY DEF Init, ChannelsKept
<1> QED
  BY <1>1, <1>2, <1>3, <1>4, <1>5, <1>6, Types DEF Inv, Books, Bursts

(* Steps that leave the dict of channels alone.                                *)
LEMMA RoomsUntouched ==
    ASSUME Bursts, UNCHANGED <<rooms, leaked, replay>>
    PROVE  Bursts'
BY DEF Bursts, BurstCounted, LinesOnlyWhileBursting, ReplayKnown, Bursting, rooms

(* A line about something that happens on c, reported or not.                  *)
LEMMA ReceiveKeeps ==
    ASSUME Inv, Idle, NEW c \in Chan, NEW cmd, NEW src, NEW arg,
           [cmd |-> cmd, src |-> src, arg |-> arg] \in Line, Receive(c, cmd, src, arg),
           ServerTypeOK', UNCHANGED <<me, calm, missed, leaked, replay>>,
           cmd \in {"PART", "KICK"} /\ arg = me => me \notin member'[c],
           \A d \in Chan : me \in member'[d] => me \in member[d]
    PROVE  Inv'
<1> DEFINE line == [cmd |-> cmd, src |-> src, arg |-> arg]
<1>1. Books' /\ UNCHANGED nickname /\ Outcome(c, line)
  <2>1. CASE me \in member[c]
    <3>1. Deliver(c, cmd, src, arg)
      BY <2>1 DEF Receive
    <3> QED
      BY <3>1, DeliverKeeps DEF Inv
  <2>2. CASE me \notin member[c]
    <3>1. UNCHANGED bot
      BY <2>2 DEF Receive
    <3> QED
      BY <3>1, BooksUntouched DEF Inv, bot, people, links, rooms, Outcome, Books, BotTypeOK
  <2> QED
    BY <2>1, <2>2
<1>2. Removes(line, me) => me \notin member'[c]
  BY DEF Removes
<1> HIDE DEF line
<1>3. BotTypeOK /\ BotTypeOK'
  BY <1>1 DEF Inv, Books
<1>4. Bursts'
  BY <1>1, <1>3, OutcomeBursts DEF Inv
<1>5. ChannelsKept'
  BY <1>1, <1>2, OutcomeKept DEF Inv
<1>6. NickKnown'
  <2>1. CASE c \in channels
    BY <1>1, <2>1, OnChannel DEF Inv, NickKnown
  <2>2. CASE c \notin channels
    BY <2>2 DEF Receive, Deliver, bot, people, Inv, NickKnown
  <2> QED
    BY <2>1, <2>2
<1>7. TypeOK'
  BY <1>3, TypesNext
<1> QED
  BY <1>1, <1>4, <1>5, <1>6, <1>7 DEF Inv

\* PART keeps the invariant.
LEMMA PartInv == ASSUME Inv, NEW c \in Chan, NEW n \in Nick, part(c, n) PROVE Inv'
<1>1. [cmd |-> "PART", src |-> n, arg |-> n] \in Line
  BY DEF Line, Cmd, ModeCmd, BanCmd
<1>2. ServerTypeOK /\ ServerTypeOK'
  BY Types DEF Inv, part, Leave, ServerTypeOK
<1>3. n = me => me \notin member'[c]
  BY <1>2 DEF part, Leave, ServerTypeOK
<1>4. \A d \in Chan : me \in member'[d] => me \in member[d]
  BY <1>2 DEF part, Leave, ServerTypeOK
<1> QED
  BY <1>1, <1>2, <1>3, <1>4, ReceiveKeeps DEF part

\* KICK keeps the invariant.
LEMMA KickInv == ASSUME Inv, NEW c \in Chan, NEW k \in Nick, NEW n \in Nick, kick(c, k, n) PROVE Inv'
<1>1. [cmd |-> "KICK", src |-> k, arg |-> n] \in Line
  BY DEF Line, Cmd, ModeCmd, BanCmd
<1>2. ServerTypeOK /\ ServerTypeOK'
  BY Types DEF Inv, kick, Leave, ServerTypeOK
<1>3. n = me => me \notin member'[c]
  BY <1>2 DEF kick, Leave, ServerTypeOK
<1>4. \A d \in Chan : me \in member'[d] => me \in member[d]
  BY <1>2 DEF kick, Leave, ServerTypeOK
<1> QED
  BY <1>1, <1>2, <1>3, <1>4, ReceiveKeeps DEF kick

\* MODE +o and -o keep the invariant.
LEMMA ModeInv ==
    ASSUME Inv, NEW c \in Chan, NEW k \in Nick, NEW n \in Nick, NEW sign \in {"+o", "-o"},
           mode(c, k, sign, n)
    PROVE  Inv'
<1>1. [cmd |-> sign, src |-> k, arg |-> n] \in Line
  BY DEF Line, Cmd, ModeCmd, BanCmd
<1>2. ServerTypeOK'
  BY Types DEF Inv, mode, ServerTypeOK
<1> QED
  BY <1>1, <1>2, ReceiveKeeps DEF mode

\* MODE +b and -b keep the invariant.
LEMMA ModeBanInv ==
    ASSUME Inv, NEW c \in Chan, NEW k \in Nick, NEW m \in Mask, NEW sign \in {"+b", "-b"},
           mode_ban(c, k, sign, m)
    PROVE  Inv'
<1>1. [cmd |-> sign, src |-> k, arg |-> m] \in Line
  BY DEF Line, Cmd, ModeCmd, BanCmd
<1>2. ServerTypeOK'
  BY Types DEF Inv, mode_ban, ServerTypeOK
<1> QED
  BY <1>1, <1>2, ReceiveKeeps DEF mode_ban

\* What channel_add leaves in the books.
LEMMA AddedTypes == ASSUME BotTypeOK, NEW c \in Chan, channel_add(c) PROVE BotTypeOK'
<1> USE DEF channel_add, user_complete
<1>1. nickname \in Nick
  BY DEF BotTypeOK
<1> QED
  BY <1>1 DEF BotTypeOK, Dying, Without, BurstState

(* The bot joins: an entry that is still there is replaced.                    *)
LEMMA ChannelAdd ==
    ASSUME Inv, Idle, me = nickname, NEW c \in Chan, channel_add(c), ServerTypeOK',
           UNCHANGED <<me, calm, replay>>, missed \subseteq missed' \cup {c},
           \A d \in Chan \ {c} : me \in member'[d] => me \in member[d]
    PROVE  Inv'
<1> USE DEF channel_add, user_complete
<1>t. BotTypeOK /\ nickname \in Nick
  BY DEF Inv, Books, BotTypeOK
<1>1. BotTypeOK'
  BY <1>t, AddedTypes
<1>2. MembershipSymmetric'
  <2>1. \A d \in Chan, n \in Nick : n \in chanUsers'[d] <=> d \in userChans'[n]
    BY <1>t DEF Inv, Books, BotTypeOK, MembershipSymmetric, Without
  <2>2. \A d \in Chan : chanUsers'[d] # {} => d \in channels'
    BY <1>t DEF Inv, Books, BotTypeOK, MembershipSymmetric
  <2>3. \A d \in Chan : chanUsers'[d] \subseteq users'
    BY <1>t DEF Inv, Books, BotTypeOK, MembershipSymmetric, Dying
  <2>4. \A d \in Chan : chanOps'[d] \subseteq chanUsers'[d]
    BY <1>t DEF Inv, Books, BotTypeOK, MembershipSymmetric
  <2> QED
    BY <2>1, <2>2, <2>3, <2>4 DEF MembershipSymmetric
<1>3. NoDeadUsers'
  BY <1>t DEF Inv, Books, BotTypeOK, MembershipSymmetric, NoDeadUsers, Dying, Without
<1>4. BotOnItsChannels'
  BY <1>t DEF Inv, Books, BotTypeOK, BotOnItsChannels
<1>5. IsFiniteSet(channels') /\ BurstCounted'
  <2>1. IsFiniteSet(channels')
    BY FS_AddElement DEF Inv, Bursts
  <2>2. IsFiniteSet(BurstingChannels) /\ Cardinality(BurstingChannels) \in Nat
    BY FS_Subset, FS_CardinalityType DEF Inv, Bursts, BurstingChannels
  <2>3. BurstingChannels' = BurstingChannels \cup {c}
    BY <1>t DEF BurstingChannels, Bursting, BotTypeOK
  <2>4. /\ IsFiniteSet(BurstingChannels \cup {c})
        /\ Cardinality(BurstingChannels \cup {c}) =
             IF c \in BurstingChannels THEN Cardinality(BurstingChannels) ELSE Cardinality(BurstingChannels) + 1
    BY <2>2, FS_AddElement
  <2>5. burst_count = Cardinality(BurstingChannels) + leaked /\ leaked \in Nat
    BY Types DEF Inv, Bursts, BurstCounted, BurstingChannels, ServerTypeOK
  <2>6. leaked' = leaked + (IF c \in BurstingChannels THEN 1 ELSE 0)
    BY DEF BurstingChannels
  <2>7. burst_count' = Cardinality(BurstingChannels') + leaked'
    BY <2>2, <2>3, <2>4, <2>5, <2>6
  <2> QED
    BY <2>1, <2>7 DEF BurstCounted, BurstingChannels
<1>6. LinesOnlyWhileBursting'
  BY <1>t, ChanUserAssumption DEF Inv, Bursts, LinesOnlyWhileBursting, Bursting, Idle, BotTypeOK
<1>7. ReplayKnown' /\ NickKnown'
  BY DEF Inv, ReplayKnown, NickKnown, Idle
<1>8. ChannelsKept'
  <2> SUFFICES ASSUME calm, NEW d \in Chan \ missed', me \in member'[d]
               PROVE  d \in channels' /\ \A i \in DOMAIN lines'[d] : ~Removes(lines'[d][i], me)
    BY DEF ChannelsKept, Removes
  <2>1. CASE d = c
    BY <1>t, <2>1 DEF BotTypeOK
  <2>2. CASE d # c
    <3>1. d \in channels /\ \A i \in DOMAIN lines[d] : ~Removes(lines[d][i], me)
      BY <2>2 DEF Inv, ChannelsKept
    <3> QED
      BY <1>t, <2>2, <3>1 DEF BotTypeOK
  <2> QED
    BY <2>1, <2>2
<1>9. TypeOK'
  BY <1>1, TypesNext
<1> QED
  BY <1>1, <1>2, <1>3, <1>4, <1>5, <1>6, <1>7, <1>8, <1>9 DEF Inv, Books, Bursts

(* A bot that does not know the nick it has does not know that it joins: it    *)
(* knows no channel, and misses this one.                                      *)
LEMMA JoinMissed ==
    ASSUME Inv, NEW c \in Chan, join(c, me), me # nickname
    PROVE  UNCHANGED <<bot, leaked>> /\ channels = {} /\ missed' = missed \cup {c}
<1>1. channels = {}
  BY OnChannel DEF Inv
<1>2. me \in member'[c]
  BY Types DEF Inv, join, ServerTypeOK
<1> QED
  BY <1>1, <1>2 DEF join, ReceiveJoin, Deliver

\* JOIN, the bot's own included, keeps the invariant, unless the bot takes another's for its own.
LEMMA JoinInv == ASSUME Inv, NEW c \in Chan, NEW n \in Nick, join(c, n), ~lost' PROVE Inv'
<1>1. [cmd |-> "JOIN", src |-> n, arg |-> n] \in Line
  BY DEF Line, Cmd, ModeCmd, BanCmd
<1>2. ServerTypeOK /\ ServerTypeOK'
  <2>1. ServerTypeOK
    BY Types DEF Inv
  <2>2. member' \in [Chan -> SUBSET Nick] /\ op' \in [Chan -> SUBSET Nick] /\ missed' \in SUBSET Chan
    BY <2>1 DEF join, ServerTypeOK
  <2>3. leaked' \in Nat
    BY <2>1 DEF join, ReceiveJoin, channel_add, ServerTypeOK
  <2> QED
    BY <2>1, <2>2, <2>3 DEF join, ServerTypeOK
<1>3. n # me => \A d \in Chan : me \in member'[d] => me \in member[d]
  BY <1>2 DEF join, ServerTypeOK
<1>4. Idle /\ UNCHANGED <<me, calm, replay>>
  BY DEF join
<1>5. CASE n = me /\ me = nickname
  <2>1. channel_add(c) /\ missed \subseteq missed' \cup {c}
    BY <1>2, <1>5 DEF join, ReceiveJoin, ServerTypeOK
  <2>2. \A d \in Chan \ {c} : me \in member'[d] => me \in member[d]
    BY <1>2 DEF join, ServerTypeOK
  <2> QED
    BY <1>2, <1>4, <1>5, <2>1, <2>2, ChannelAdd
<1>6. CASE n # me
  <2>1. Receive(c, "JOIN", n, n) /\ UNCHANGED <<missed, leaked>>
    BY <1>2, <1>6 DEF join, ReceiveJoin, Receive, ServerTypeOK
  <2> QED
    BY <1>1, <1>2, <1>3, <1>4, <1>6, <2>1, ReceiveKeeps
<1>7. CASE n = me /\ me # nickname
  <2>1. UNCHANGED <<bot, leaked>> /\ missed' = missed \cup {c}
    BY <1>7, JoinMissed
  <2>2. UNCHANGED <<nickname, users, links, chanBans, rooms>> /\ complete' \in SUBSET users'
    BY <2>1 DEF bot, people, Inv, Books, BotTypeOK
  <2>3. Books'
    BY <2>2, BooksUntouched DEF Inv
  <2>4. Bursts'
    BY <1>4, <2>1, RoomsUntouched DEF Inv, bot
  <2>5. NickKnown'
    BY <1>4, <2>2 DEF Inv, NickKnown
  <2>6. \A d \in Chan \ {c} : member'[d] = member[d]
    BY <1>2 DEF join, ServerTypeOK
  <2>7. ChannelsKept'
    BY <1>4, <2>1, <2>2, <2>6 DEF Inv, ChannelsKept, Removes, rooms
  <2>8. TypeOK'
    BY <1>2, <2>3, TypesNext DEF Books
  <2> QED
    BY <2>3, <2>4, <2>5, <2>7, <2>8 DEF Inv
<1> QED
  BY <1>5, <1>6, <1>7
-----------------------------------------------------------------------------
(* NICK and QUIT, which are never put aside.                                   *)

\* Who is in a set after a change of nick.
LEMMA RenamedSet ==
    \A S, n, m, x : x \in Renamed(S, n, m) <=> (x \in S /\ x # n) \/ (x = m /\ n \in S)
BY DEF Renamed

\* What user_rename leaves in the books, whoever had the new nick.
LEMMA RenamedTypes ==
    ASSUME BotTypeOK, NEW n \in users, NEW m \in Nick, user_rename(n, m), user_complete({m}),
           nickname' = (IF n = nickname THEN m ELSE nickname), UNCHANGED <<chanBans, rooms>>
    PROVE  BotTypeOK'
<1> USE DEF user_rename, user_complete, rooms
<1>t. n \in Nick
  BY DEF BotTypeOK
<1>1. \A S \in SUBSET Nick : Renamed(S, n, m) \in SUBSET Nick
  BY <1>t, RenamedSet
<1>2. users' \in SUBSET Nick /\ chanUsers' \in [Chan -> SUBSET Nick] /\ chanOps' \in [Chan -> SUBSET Nick]
  BY <1>t, <1>1 DEF BotTypeOK
<1>3. userChans' \in [Nick -> SUBSET Chan]
  BY <1>t DEF BotTypeOK
<1> QED
  BY <1>t, <1>2, <1>3 DEF BotTypeOK

\* user_rename moves a user's entries to the new nick in every book.
LEMMA UserRename ==
    ASSUME Books, NEW n \in users, NEW m \in Nick, m \notin users, user_rename(n, m), user_complete({m}),
           nickname' = (IF n = nickname THEN m ELSE nickname), UNCHANGED <<chanBans, rooms>>
    PROVE  Books'
<1> USE DEF user_rename, user_complete, rooms
<1>t. BotTypeOK /\ n \in Nick /\ n # m
  BY DEF Books, BotTypeOK
<1>1. BotTypeOK'
  BY <1>t, RenamedTypes
<1>2. userChans[m] = {} /\ \A c \in Chan : m \notin chanUsers[c]
  BY <1>t DEF Books, BotTypeOK, MembershipSymmetric
<1>3. \A c \in Chan, x \in Nick :
        x \in chanUsers'[c] <=> (x \in chanUsers[c] /\ x # n) \/ (x = m /\ n \in chanUsers[c])
  BY <1>t, RenamedSet DEF Books, BotTypeOK, MembershipSymmetric
<1>4. \A x \in Nick : userChans'[x] = IF x = n THEN {} ELSE IF x = m THEN userChans[n] ELSE userChans[x]
  BY <1>t, <1>2 DEF BotTypeOK
<1>5. \A x \in Nick : x \in users' <=> (x \in users /\ x # n) \/ x = m
  BY <1>t, RenamedSet
<1>6. MembershipSymmetric'
  <2>1. \A c \in Chan, x \in Nick : x \in chanUsers'[c] <=> c \in userChans'[x]
    <3> SUFFICES ASSUME NEW c \in Chan, NEW x \in Nick
                 PROVE  x \in chanUsers'[c] <=> c \in userChans'[x]
      OBVIOUS
    <3>1. /\ x \in chanUsers[c] <=> c \in userChans[x]
          /\ n \in chanUsers[c] <=> c \in userChans[n]
          /\ m \notin chanUsers[c]
      BY <1>t, <1>2 DEF Books, MembershipSymmetric
    <3>2. x \in chanUsers'[c] <=> (x \in chanUsers[c] /\ x # n) \/ (x = m /\ n \in chanUsers[c])
      BY <1>3
    <3>3. userChans'[x] = IF x = n THEN {} ELSE IF x = m THEN userChans[n] ELSE userChans[x]
      BY <1>4
    <3> QED
      BY <1>t, <3>1, <3>2, <3>3
  <2>2. \A c \in Chan : chanUsers'[c] # {} => c \in channels'
    <3> SUFFICES ASSUME NEW c \in Chan, chanUsers'[c] # {} PROVE c \in channels'
      OBVIOUS
    <3>1. PICK x \in Nick : x \in chanUsers'[c]
      BY <1>1 DEF BotTypeOK
    <3> QED
      BY <1>3, <3>1 DEF Books, MembershipSymmetric
  <2>3. \A c \in Chan : chanUsers'[c] \subseteq users'
    BY <1>1, <1>3, <1>5 DEF Books, MembershipSymmetric, BotTypeOK
  <2>4. \A c \in Chan : chanOps'[c] \subseteq chanUsers'[c]
    <3> SUFFICES ASSUME NEW c \in Chan, NEW x \in chanOps'[c] PROVE x \in chanUsers'[c]
      OBVIOUS
    <3>1. x \in Nick
      BY <1>1 DEF BotTypeOK
    <3>2. CASE c \in userChans[n]
      BY <1>3, <3>1, <3>2, RenamedSet DEF Books, MembershipSymmetric
    <3>3. CASE c \notin userChans[n]
      BY <1>t, <3>1, <3>3 DEF Books, MembershipSymmetric
    <3> QED
      BY <3>2, <3>3
  <2> QED
    BY <2>1, <2>2, <2>3, <2>4 DEF MembershipSymmetric
<1>7. NoDeadUsers'
  BY <1>1, <1>t, <1>4, <1>5 DEF Books, NoDeadUsers, BotTypeOK
<1>8. BotOnItsChannels'
  BY <1>t, <1>1, <1>3 DEF Books, BotOnItsChannels, BotTypeOK
<1> QED
  BY <1>1, <1>6, <1>7, <1>8 DEF Books

\* user_del takes a user out of every book.
LEMMA UserDel ==
    ASSUME Books, NEW n \in users, n # nickname, user_del(n), UNCHANGED <<nickname, chanBans, rooms>>
    PROVE  Books'
<1> USE DEF user_del, user_complete, rooms
<1>1. BotTypeOK'
  BY DEF Books, BotTypeOK
<1>2. MembershipSymmetric'
  BY DEF Books, BotTypeOK, MembershipSymmetric
<1>3. NoDeadUsers' /\ BotOnItsChannels'
  BY DEF Books, BotTypeOK, NoDeadUsers, BotOnItsChannels
<1> QED
  BY <1>1, <1>2, <1>3 DEF Books

\* The server's side of a change of nick.
LEMMA NickTypes ==
    ASSUME ServerTypeOK, NEW n \in Nick, NEW m \in Nick, nick(n, m)
    PROVE  ServerTypeOK'
<1>1. \A S \in SUBSET Nick : Renamed(S, n, m) \in SUBSET Nick
  BY RenamedSet
<1>2. member' \in [Chan -> SUBSET Nick] /\ op' \in [Chan -> SUBSET Nick]
  BY <1>1 DEF nick, ServerTypeOK
<1>3. calm' \in BOOLEAN /\ lost' \in BOOLEAN
  BY DEF nick
<1> QED
  BY <1>2, <1>3 DEF nick, ServerTypeOK

\* NICK keeps the invariant, unless it makes two users bear one nick.
LEMMA NickInv == ASSUME Inv, NEW n \in Nick, NEW m \in Nick, nick(n, m), ~lost' PROVE Inv'
<1>t. ServerTypeOK /\ BotTypeOK
  BY Types DEF Inv
<1>0. n # m
  BY DEF nick, Visible
<1>1. ServerTypeOK'
  BY <1>t, NickTypes
<1>2. Books' /\ NickKnown'
  <2>1. CASE n \in users
    <3>1. user_rename(n, m) /\ user_complete({m})
      BY <2>1 DEF nick
    <3>2. nickname' = (IF n = nickname THEN m ELSE nickname) /\ m \notin users
      BY <2>1 DEF nick
    <3>3. UNCHANGED <<chanBans, rooms>>
      BY DEF nick
    <3>4. Books'
      BY <2>1, <3>1, <3>2, <3>3, UserRename DEF Inv
    <3>5. me = nickname
      BY <2>1 DEF Inv, NickKnown
    <3> QED
      BY <3>2, <3>4, <3>5 DEF nick, NickKnown
  <2>2. CASE n \notin users
    <3>1. UNCHANGED <<nickname, users, links, chanBans, rooms>> /\ complete' \in SUBSET users'
      BY <1>t, <2>2 DEF nick, people, BotTypeOK
    <3>2. Books'
      BY <3>1, BooksUntouched DEF Inv
    <3>3. users # {} => n # me
      BY <2>2, BotIsUser DEF Inv, NickKnown
    <3> QED
      BY <3>1, <3>2, <3>3 DEF nick, Inv, NickKnown
  <2> QED
    BY <2>1, <2>2
<1>3. Bursts'
  BY RoomsUntouched DEF nick, Inv
<1>4. ChannelsKept'
  <2> SUFFICES ASSUME calm', NEW d \in Chan \ missed, me' \in member'[d]
               PROVE  d \in channels' /\ \A i \in DOMAIN lines'[d] : ~Removes(lines'[d][i], me')
    BY DEF nick, ChannelsKept, Removes
  <2>1. calm /\ ~PutAside(n) /\ ~PutAside(m) /\ me # m
    BY DEF nick
  <2>2. me \in member[d]
    BY <1>t, <1>0, RenamedSet DEF nick, ServerTypeOK
  <2>3. d \in channels /\ \A i \in DOMAIN lines[d] : ~Removes(lines[d][i], me)
    BY <2>1, <2>2 DEF Inv, ChannelsKept
  <2>4. \A i \in DOMAIN lines[d] : ~Removes(lines[d][i], m)
    BY <2>1 DEF PutAside, Removes
  <2> QED
    BY <2>3, <2>4 DEF nick, rooms
<1>5. TypeOK'
  BY <1>1, <1>2, TypesNext DEF Books
<1> QED
  BY <1>2, <1>3, <1>4, <1>5 DEF Inv

\* QUIT keeps the invariant.
LEMMA QuitInv == ASSUME Inv, NEW n \in Nick, quit(n) PROVE Inv'
<1>t. ServerTypeOK /\ BotTypeOK
  BY Types DEF Inv
<1>1. ServerTypeOK'
  BY <1>t DEF quit, ServerTypeOK
<1>2. Books' /\ NickKnown'
  <2>1. UNCHANGED <<me, nickname, chanBans, rooms>>
    BY DEF quit
  <2>2. CASE n \in users
    <3>1. n # nickname /\ user_del(n)
      BY <2>2 DEF quit, Inv, NickKnown
    <3>2. Books'
      BY <2>1, <2>2, <3>1, UserDel DEF Inv
    <3> QED
      BY <2>1, <2>2, <3>2 DEF Inv, NickKnown
  <2>3. CASE n \notin users
    <3>1. UNCHANGED <<nickname, users, links, chanBans, rooms>> /\ complete' \in SUBSET users'
      BY <1>t, <2>3 DEF quit, people, BotTypeOK
    <3> QED
      BY <2>1, <3>1, BooksUntouched DEF Inv, NickKnown, links, rooms
  <2> QED
    BY <2>2, <2>3
<1>3. Bursts'
  BY RoomsUntouched DEF quit, Inv
<1>4. ChannelsKept'
  BY <1>t DEF quit, Inv, ChannelsKept, rooms, ServerTypeOK, Removes
<1>5. TypeOK'
  BY <1>1, <1>2, TypesNext DEF Books
<1> QED
  BY <1>2, <1>3, <1>4, <1>5 DEF Inv
-----------------------------------------------------------------------------
(* The burst.                                                                  *)

\* The list of names keeps the invariant.
LEMMA NamereplyInv == ASSUME Inv, NEW c \in Chan, num_namereply(c) PROVE Inv'
<1> USE DEF num_namereply
<1>t. ServerTypeOK /\ BotTypeOK /\ ServerTypeOK' /\ c \in channels /\ burst[c] = "NAMES"
  BY Types DEF Inv, server, ServerTypeOK, Answer
<1> DEFINE names == IF me \in member[c] THEN member[c] ELSE {}
<1>n. names \in SUBSET Nick
  BY <1>t DEF ServerTypeOK
<1>s. /\ users' = users \cup names
      /\ userChans' = [n \in Nick |-> IF n \in names THEN userChans[n] \cup {c} ELSE userChans[n]]
      /\ chanUsers' = [chanUsers EXCEPT ![c] = @ \cup names]
      /\ chanOps' = [chanOps EXCEPT ![c] = (@ \ names) \cup (op[c] \cap names)]
      /\ burst' = [burst EXCEPT ![c] = "MODES"]
      /\ UNCHANGED <<nickname, complete, chanBans, channels, lines, burst_count, me, member, calm, missed, leaked,
                     replay>>
  BY DEF server
<1> HIDE DEF names, num_namereply
<1>1. BotTypeOK'
  BY <1>t, <1>n, <1>s DEF BotTypeOK, BurstState
<1>2. MembershipSymmetric'
  BY <1>t, <1>n, <1>s DEF Inv, Books, BotTypeOK, MembershipSymmetric
<1>3. NoDeadUsers'
  BY <1>t, <1>n, <1>s DEF Inv, Books, BotTypeOK, NoDeadUsers
<1>4. BotOnItsChannels'
  BY <1>t, <1>n, <1>s DEF Inv, Books, BotTypeOK, BotOnItsChannels
<1>5. \A d \in Chan : Bursting(d)' <=> Bursting(d)
  BY <1>t, <1>s DEF BotTypeOK, Bursting
<1>6. IsFiniteSet(channels') /\ BurstCounted'
  BY <1>5, <1>s, <1>t, SameBursting DEF Inv, Bursts, BotTypeOK
<1>7. LinesOnlyWhileBursting' /\ ReplayKnown'
  BY <1>5, <1>s, <1>t DEF Inv, Bursts, LinesOnlyWhileBursting, ReplayKnown, BotTypeOK
<1>8. NickKnown' /\ ChannelsKept'
  <2>1. NickKnown'
    BY <1>s, <1>t, OnChannel DEF Inv, NickKnown
  <2>2. ChannelsKept'
    BY <1>s DEF Inv, ChannelsKept, Removes
  <2> QED
    BY <2>1, <2>2
<1>9. TypeOK'
  BY <1>1, <1>t, TypesNext
<1> QED
  BY <1>1, <1>2, <1>3, <1>4, <1>6, <1>7, <1>8, <1>9 DEF Inv, Books, Bursts

(* The answers that change nothing but the state of the burst and the bans.    *)
LEMMA AnswerInv ==
    ASSUME Inv, NEW c \in Chan, num_channelmodeis(c) \/ num_banlist(c)
    PROVE  Inv'
<1>t. ServerTypeOK /\ BotTypeOK /\ ServerTypeOK' /\ c \in channels /\ Bursting(c)
  BY Types DEF Inv, server, ServerTypeOK, Answer, num_channelmodeis, num_banlist, Bursting
<1>s. /\ \E s \in {"BANS", "WHO"} : burst' = [burst EXCEPT ![c] = s]
      /\ chanBans' = chanBans \/ chanBans' = [chanBans EXCEPT ![c] = @ \cup ban[c]]
      /\ UNCHANGED <<nickname, users, complete, userChans, chanUsers, chanOps, channels, lines, burst_count,
                     me, member, calm, missed, leaked, replay>>
  BY DEF server, people, links, num_channelmodeis, num_banlist
<1>1. BotTypeOK'
  <2>1. burst' \in [Chan -> BurstState]
    BY <1>t, <1>s DEF BotTypeOK, BurstState
  <2>2. chanBans' \in [Chan -> SUBSET Mask]
    <3>1. ban[c] \in SUBSET Mask /\ chanBans \in [Chan -> SUBSET Mask]
      BY <1>t DEF BotTypeOK, ServerTypeOK
    <3>2. [chanBans EXCEPT ![c] = @ \cup ban[c]] \in [Chan -> SUBSET Mask]
      BY <3>1
    <3> QED
      BY <1>s, <3>1, <3>2
  <2> QED
    BY <1>t, <1>s, <2>1, <2>2 DEF BotTypeOK
<1>2. Books'
  BY <1>1, <1>s DEF Inv, Books, MembershipSymmetric, NoDeadUsers, BotOnItsChannels
<1>5. \A d \in Chan : Bursting(d)' <=> Bursting(d)
  BY <1>t, <1>s DEF BotTypeOK, Bursting
<1>6. IsFiniteSet(channels') /\ BurstCounted'
  BY <1>5, <1>s, <1>t, SameBursting DEF Inv, Bursts, BotTypeOK
<1>7. LinesOnlyWhileBursting' /\ ReplayKnown'
  BY <1>5, <1>s, <1>t DEF Inv, Bursts, LinesOnlyWhileBursting, ReplayKnown, BotTypeOK
<1>8. NickKnown' /\ ChannelsKept'
  BY <1>s DEF Inv, NickKnown, ChannelsKept, Removes
<1>9. TypeOK'
  BY <1>1, <1>t, TypesNext
<1> QED
  BY <1>2, <1>6, <1>7, <1>8, <1>9 DEF Inv, Bursts

(* The end of the WHO: one channel less is bursting.                           *)
LEMMA EndofwhoInv == ASSUME Inv, NEW c \in Chan, num_endofwho(c) PROVE Inv'
<1>t. ServerTypeOK /\ BotTypeOK /\ c \in channels /\ Bursting(c) /\ replay = NONE
  BY Types DEF Inv, num_endofwho, Answer, Idle, Bursting
<1>s. /\ burst' = [burst EXCEPT ![c] = "FINISHED"]
      /\ burst_count' = burst_count - 1 /\ replay' = c /\ complete' \in SUBSET users'
      /\ UNCHANGED <<nickname, users, userChans, chanUsers, chanOps, chanBans, channels, lines, me, member, calm,
                     missed, leaked>>
  BY <1>t DEF num_endofwho, server, links, BotTypeOK
<1>0. ServerTypeOK'
  BY <1>t DEF ServerTypeOK, num_endofwho, server
<1>1. BotTypeOK'
  BY <1>t, <1>s DEF BotTypeOK, BurstState
<1>2. Books'
  BY <1>1, <1>s DEF Inv, Books, MembershipSymmetric, NoDeadUsers, BotOnItsChannels
<1>3. IsFiniteSet(channels') /\ BurstCounted'
  <2>1. BurstingChannels' = BurstingChannels \ {c} /\ c \in BurstingChannels
    BY <1>t, <1>s DEF BurstingChannels, Bursting, BotTypeOK
  <2>2. IsFiniteSet(BurstingChannels) /\ Cardinality(BurstingChannels) \in Nat
    BY FS_Subset, FS_CardinalityType DEF Inv, Bursts, BurstingChannels
  <2>3. Cardinality(BurstingChannels') = Cardinality(BurstingChannels) - 1
    BY <2>1, <2>2, FS_RemoveElement
  <2>4. burst_count = Cardinality(BurstingChannels) + leaked /\ leaked \in Nat
    BY <1>t DEF Inv, Bursts, BurstCounted, BurstingChannels, ServerTypeOK
  <2>5. burst_count' = Cardinality(BurstingChannels') + leaked'
    BY <1>s, <2>2, <2>3, <2>4
  <2> QED
    BY <1>s, <2>5 DEF BurstCounted, BurstingChannels, Inv, Bursts
<1>4. LinesOnlyWhileBursting'
  BY <1>t, <1>s, ChanUserAssumption DEF Inv, Bursts, LinesOnlyWhileBursting, Bursting, BotTypeOK
<1>5. ReplayKnown'
  BY <1>t, <1>s DEF ReplayKnown, Bursting, BotTypeOK
<1>6. NickKnown' /\ ChannelsKept'
  BY <1>s DEF Inv, NickKnown, ChannelsKept, Removes
<1>7. TypeOK'
  BY <1>0, <1>1, TypesNext
<1> QED
  BY <1>2, <1>3, <1>4, <1>5, <1>6, <1>7 DEF Inv, Bursts

(* A line of the replay runs its handler; if it takes the bot off the channel, *)
(* the replay ends, and it was not calm or the bot is off it for the server.   *)
LEMMA ReplayLineInv == ASSUME Inv, replay_line PROVE Inv'
<1> DEFINE c == replay
           line == lines[replay][pos]
<1>t. ServerTypeOK /\ BotTypeOK
  BY Types DEF Inv
<1>c. c \in Chan /\ c \in channels /\ ~Bursting(c)
  BY <1>t DEF Inv, Bursts, ReplayKnown, replay_line, ServerTypeOK
<1>l. line \in Line /\ pos \in DOMAIN lines[c] /\ c # NONE
  BY <1>t, <1>c DEF replay_line, BotTypeOK, ServerTypeOK
<1>h. handle(c, line) /\ UNCHANGED <<world, member, op, ban, me, calm, missed, lost, leaked>>
  BY DEF replay_line, server
<1>r. replay' = (IF c \in channels' THEN c ELSE NONE)
  BY DEF replay_line
<1>p. pos' \in Nat \ {0}
  BY <1>t DEF replay_line, ServerTypeOK
<1> HIDE DEF c, line
<1>1. /\ Books' /\ UNCHANGED nickname
      /\ UNCHANGED rooms \/ (Dropped(c) /\ Removes(line, nickname))
  BY <1>c, <1>l, <1>h, Handle DEF Inv
<1>2. ServerTypeOK'
  BY <1>t, <1>c, <1>h, <1>r, <1>p DEF ServerTypeOK
<1>3. /\ channels' \subseteq channels /\ UNCHANGED burst_count
      /\ \A d \in channels : Bursting(d) <=> d \in channels' /\ Bursting(d)'
  BY <1>1, <1>c, <1>t DEF rooms, Dropped, Bursting, BotTypeOK
<1>4. IsFiniteSet(channels') /\ BurstCounted'
  BY <1>3, <1>h, SameBursting DEF Inv, Bursts
<1>k. c = replay
  BY DEF c
<1>5. LinesOnlyWhileBursting' /\ ReplayKnown'
  <2>1. CASE UNCHANGED rooms
    <3>1. replay' = replay
      BY <1>c, <1>k, <1>r, <2>1 DEF rooms
    <3> QED
      BY <1>h, <2>1, <3>1, RoomsUntouched DEF Inv, Bursts
  <2>2. CASE Dropped(c)
    <3>1. replay' = NONE
      BY <1>r, <2>2 DEF Dropped
    <3>2. ReplayKnown'
      BY <3>1 DEF ReplayKnown
    <3>3. LinesOnlyWhileBursting'
      BY <1>c, <1>k, <1>t, <2>2 DEF Inv, Bursts, LinesOnlyWhileBursting, Dropped, Bursting, BotTypeOK
    <3> QED
      BY <3>2, <3>3
  <2> QED
    BY <1>1, <2>1, <2>2
<1>n. me = nickname
  BY <1>c, OnChannel DEF Inv
<1>6. NickKnown'
  BY <1>1, <1>h, <1>n DEF NickKnown
<1>7. ChannelsKept'
  <2>1. CASE UNCHANGED rooms
    BY <1>h, <2>1 DEF Inv, ChannelsKept, Removes, rooms
  <2>2. CASE Dropped(c) /\ Removes(line, nickname)
    <3>1. calm /\ c \notin missed => me \notin member[c]
      <4> SUFFICES ASSUME calm, c \notin missed, me \in member[c] PROVE FALSE
        OBVIOUS
      <4>1. ~Removes(lines[c][pos], me)
        BY <1>c, <1>l DEF Inv, ChannelsKept
      <4> QED
        BY <1>k, <1>n, <2>2, <4>1 DEF line
    <3>2. \A d \in Chan \ {c} : lines'[d] = lines[d] /\ (d \in channels => d \in channels')
      BY <1>t, <2>2 DEF Dropped, BotTypeOK
    <3>3. calm => \A d \in Chan \ missed : me \in member[d] =>
                    d # c /\ d \in channels /\ \A i \in DOMAIN lines[d] : ~Removes(lines[d][i], me)
      BY <3>1 DEF Inv, ChannelsKept
    <3> QED
      BY <1>h, <3>2, <3>3 DEF ChannelsKept, Removes
  <2> QED
    BY <1>1, <2>1, <2>2
<1>8. TypeOK'
  BY <1>1, <1>2, TypesNext DEF Books
<1> QED
  BY <1>1, <1>4, <1>5, <1>6, <1>7, <1>8 DEF Inv, Bursts

\* The end of a replay keeps the invariant.
LEMMA ReplayEndInv == ASSUME Inv, replay_end PROVE Inv'
<1>t. ServerTypeOK /\ BotTypeOK /\ replay \in Chan
  BY Types DEF Inv, replay_end, ServerTypeOK
<1>s. /\ lines' = [lines EXCEPT ![replay] = <<>>] /\ replay' = NONE /\ pos' = 1
      /\ UNCHANGED <<world, member, op, ban, me, nickname, users, complete, userChans, chanUsers, chanOps, chanBans,
                     channels, burst, burst_count, calm, missed, lost, leaked>>
  BY DEF replay_end, server, people, links
<1>1. ServerTypeOK' /\ BotTypeOK'
  BY <1>t, <1>s DEF ServerTypeOK, BotTypeOK
<1>2. Books'
  BY <1>1, <1>s DEF Inv, Books, MembershipSymmetric, NoDeadUsers, BotOnItsChannels
<1>3. IsFiniteSet(channels') /\ BurstCounted' /\ ReplayKnown'
  BY <1>s DEF Inv, Bursts, BurstCounted, Bursting, ReplayKnown
<1>4. LinesOnlyWhileBursting'
  BY <1>t, <1>s DEF Inv, Bursts, LinesOnlyWhileBursting, Bursting, BotTypeOK
<1>5. NickKnown'
  BY <1>s DEF Inv, NickKnown
<1>6. ChannelsKept'
  <2> SUFFICES ASSUME calm, NEW d \in Chan \ missed, me \in member[d]
               PROVE  d \in channels /\ \A i \in DOMAIN lines'[d] : ~Removes(lines'[d][i], me)
    BY <1>s DEF ChannelsKept, Removes
  <2>1. d \in channels /\ \A i \in DOMAIN lines[d] : ~Removes(lines[d][i], me)
    BY DEF Inv, ChannelsKept
  <2>2. lines'[d] = IF d = replay THEN <<>> ELSE lines[d]
    BY <1>t, <1>s DEF BotTypeOK
  <2> QED
    BY <2>1, <2>2
<1>7. TypeOK'
  BY <1>1, TypesNext
<1> QED
  BY <1>2, <1>3, <1>4, <1>5, <1>6, <1>7 DEF Inv, Bursts

(* Everything is flushed.                                                      *)
LEMMA ReconnectInv == ASSUME Inv, irc_reconnect PROVE Inv'
<1>t. ServerTypeOK /\ BotTypeOK /\ replay' = NONE
  BY Types DEF Inv, irc_reconnect, Idle
<1>1. ServerTypeOK'
  BY <1>t, World DEF irc_reconnect, ServerTypeOK
<1>2. BotTypeOK'
  BY <1>1 DEF irc_reconnect, BotTypeOK, ServerTypeOK, BurstState
<1>3. Books'
  BY <1>2 DEF irc_reconnect, Books, MembershipSymmetric, NoDeadUsers, BotOnItsChannels
<1>4. IsFiniteSet(channels') /\ BurstCounted'
  <2>1. channels' = {} /\ burst_count' = 0 /\ leaked' = 0 /\ BurstingChannels' = {}
    BY DEF irc_reconnect, BurstingChannels
  <2> QED
    BY <2>1, FS_EmptySet DEF BurstCounted, BurstingChannels
<1>5. LinesOnlyWhileBursting' /\ ReplayKnown' /\ NickKnown'
  BY <1>t DEF irc_reconnect, LinesOnlyWhileBursting, ReplayKnown, NickKnown
<1>6. ChannelsKept'
  BY DEF irc_reconnect, ChannelsKept
<1>7. TypeOK'
  BY <1>1, <1>2, TypesNext
<1> QED
  BY <1>3, <1>4, <1>5, <1>6, <1>7 DEF Inv, Bursts
-----------------------------------------------------------------------------

\* So does a step that changes nothing.
LEMMA StutterInv == ASSUME Inv, UNCHANGED vars PROVE Inv'
<1>1. TypeOK'
  BY DEF Inv, TypeOK, vars, server, bot, people, links, rooms
<1>2. Books'
  BY DEF Inv, Books, BotTypeOK, MembershipSymmetric, NoDeadUsers, BotOnItsChannels, vars, bot, people, links, rooms
<1>3. Bursts'
  BY RoomsUntouched DEF Inv, vars, bot
<1>4. NickKnown' /\ ChannelsKept'
  BY DEF Inv, NickKnown, ChannelsKept, Removes, vars, server, bot, people, rooms
<1> QED
  BY <1>1, <1>2, <1>3, <1>4 DEF Inv

\* Every step that does not lose the bot keeps the invariant.
LEMMA LiveStep == ASSUME Inv, [Next]_vars, ~lost' PROVE Inv'
<1>w. world.nick \subseteq Nick /\ world.chan \subseteq Chan /\ world.mask \subseteq Mask
  BY World, Types DEF Inv
<1>1. CASE \E c \in world.chan : num_namereply(c) \/ num_channelmodeis(c) \/ num_banlist(c) \/ num_endofwho(c)
  BY <1>1, <1>w, NamereplyInv, AnswerInv, EndofwhoInv
<1>2. CASE \E c \in world.chan, n \in world.nick : join(c, n) \/ part(c, n)
  BY <1>2, <1>w, JoinInv, PartInv
<1>3. CASE \E c \in world.chan, k, n \in world.nick : kick(c, k, n) \/ \E sign \in {"+o", "-o"} : mode(c, k, sign, n)
  BY <1>3, <1>w, KickInv, ModeInv
<1>4. CASE \E c \in world.chan, k \in world.nick, m \in world.mask, sign \in {"+b", "-b"} : mode_ban(c, k, sign, m)
  BY <1>4, <1>w, ModeBanInv
<1>5. CASE \E n \in world.nick : quit(n) \/ \E m \in world.nick : nick(n, m)
  BY <1>5, <1>w, QuitInv, NickInv
<1>6. CASE replay_line \/ replay_end
  BY <1>6, ReplayLineInv, ReplayEndInv
<1>7. CASE irc_reconnect
  BY <1>7, ReconnectInv
<1>8. CASE lost_for_good \/ UNCHANGED vars
  BY <1>8, StutterInv DEF lost_for_good
<1> QED
  BY <1>1, <1>2, <1>3, <1>4, <1>5, <1>6, <1>7, <1>8 DEF Next

\* The two steps that lose the bot are of the right types, and run between replays.
LEMMA LosingStep == ASSUME Inv, ~lost, [Next]_vars, lost' PROVE TypeOK' /\ replay' = NONE
<1>t. ServerTypeOK /\ BotTypeOK
  BY Types DEF Inv
<1>w. world.nick \subseteq Nick /\ world.chan \subseteq Chan
  BY World, <1>t
<1>1. \/ \E c \in Chan, n \in Nick : join(c, n) /\ me \in member[c] /\ n = nickname
      \/ \E n, m \in Nick : nick(n, m) /\ n \in users
  <2>1. CASE \E c \in world.chan : num_namereply(c) \/ num_channelmodeis(c) \/ num_banlist(c) \/ num_endofwho(c)
    BY <2>1 DEF num_namereply, num_channelmodeis, num_banlist, num_endofwho
  <2>2. CASE \E c \in world.chan, n \in world.nick : join(c, n) \/ part(c, n)
    BY <1>w, <2>2 DEF join, part
  <2>3. CASE \E c \in world.chan, k, n \in world.nick : kick(c, k, n) \/ \E sign \in {"+o", "-o"} : mode(c, k, sign, n)
    BY <2>3 DEF kick, mode
  <2>4. CASE \E c \in world.chan, k \in world.nick, m \in world.mask, sign \in {"+b", "-b"} : mode_ban(c, k, sign, m)
    BY <2>4 DEF mode_ban
  <2>5. CASE \E n \in world.nick : quit(n) \/ \E m \in world.nick : nick(n, m)
    BY <1>w, <2>5 DEF quit, nick
  <2>6. CASE replay_line \/ replay_end \/ irc_reconnect
    BY <2>6 DEF replay_line, replay_end, irc_reconnect
  <2>7. CASE lost_for_good \/ UNCHANGED vars
    BY <2>7 DEF lost_for_good, vars
  <2> QED
    BY <2>1, <2>2, <2>3, <2>4, <2>5, <2>6, <2>7 DEF Next
<1>2. ASSUME NEW c \in Chan, NEW n \in Nick, join(c, n), me \in member[c], n = nickname
      PROVE  TypeOK' /\ replay' = NONE
  <2>1. channel_add(c) /\ replay' = NONE
    BY <1>t, <1>2 DEF join, ReceiveJoin, Idle, ServerTypeOK
  <2>2. BotTypeOK'
    BY <1>t, <2>1, AddedTypes
  <2>3. member' \in [Chan -> SUBSET Nick] /\ op' \in [Chan -> SUBSET Nick] /\ missed' \in SUBSET Chan
    BY <1>t, <1>2 DEF join, ServerTypeOK
  <2>4. leaked' \in Nat /\ lost' \in BOOLEAN
    BY <1>t, <1>2, <2>1 DEF join, channel_add, ServerTypeOK
  <2>5. ServerTypeOK'
    BY <1>t, <1>2, <2>3, <2>4 DEF join, ServerTypeOK
  <2> QED
    BY <2>1, <2>2, <2>5, TypesNext
<1>3. ASSUME NEW n \in Nick, NEW m \in Nick, nick(n, m), n \in users
      PROVE  TypeOK' /\ replay' = NONE
  <2>1. ServerTypeOK' /\ replay' = NONE
    BY <1>t, <1>3, NickTypes DEF nick, Idle
  <2>2. /\ user_rename(n, m) /\ user_complete({m}) /\ UNCHANGED <<chanBans, rooms>>
        /\ nickname' = IF n = nickname THEN m ELSE nickname
    BY <1>3 DEF nick
  <2>3. BotTypeOK'
    BY <1>t, <1>3, <2>2, RenamedTypes
  <2> QED
    BY <2>1, <2>3, TypesNext
<1> QED
  BY <1>1, <1>2, <1>3

\* A bot that is lost stays as it is.
LEMMA LostForGood == ASSUME lost, replay = NONE, [Next]_vars PROVE UNCHANGED vars
<1>1. CASE \E c \in world.chan : num_namereply(c) \/ num_channelmodeis(c) \/ num_banlist(c) \/ num_endofwho(c)
  BY <1>1 DEF num_namereply, num_channelmodeis, num_banlist, num_endofwho, Answer, Idle
<1>2. CASE \E c \in world.chan, n \in world.nick : join(c, n) \/ part(c, n)
  BY <1>2 DEF join, part, Idle
<1>3. CASE \E c \in world.chan, k, n \in world.nick : kick(c, k, n) \/ \E sign \in {"+o", "-o"} : mode(c, k, sign, n)
  BY <1>3 DEF kick, mode, Idle
<1>4. CASE \E c \in world.chan, k \in world.nick, m \in world.mask, sign \in {"+b", "-b"} : mode_ban(c, k, sign, m)
  BY <1>4 DEF mode_ban, Idle
<1>5. CASE \E n \in world.nick : quit(n) \/ \E m \in world.nick : nick(n, m)
  BY <1>5 DEF quit, nick, Idle
<1>6. CASE replay_line \/ replay_end \/ irc_reconnect
  BY <1>6 DEF replay_line, replay_end, irc_reconnect, Idle
<1>7. CASE lost_for_good \/ UNCHANGED vars
  BY <1>7 DEF lost_for_good
<1> QED
  BY <1>1, <1>2, <1>3, <1>4, <1>5, <1>6, <1>7 DEF Next

\* Every step keeps what is known of the bot, lost or not.
LEMMA NextInv == LostInv /\ [Next]_vars => LostInv'
<1> SUFFICES ASSUME LostInv, [Next]_vars PROVE LostInv'
  OBVIOUS
<1>1. CASE lost
  <2>1. UNCHANGED vars /\ TypeOK /\ replay = NONE
    BY <1>1, LostForGood DEF LostInv
  <2>2. TypeOK' /\ lost' /\ replay' = NONE
    BY <1>1, <2>1 DEF TypeOK, vars, server, bot, people, links, rooms
  <2> QED
    BY <2>2 DEF LostInv
<1>2. CASE ~lost /\ lost'
  BY <1>2, LosingStep DEF LostInv
<1>3. CASE ~lost /\ ~lost'
  <2>1. Inv'
    BY <1>3, LiveStep DEF LostInv
  <2> QED
    BY <1>3, <2>1 DEF LostInv, Inv
<1> QED
  BY <1>1, <1>2, <1>3

\* The invariant says what ChanuserSound says.
LEMMA InvSound == LostInv => ChanuserSound
<1>1. Inv => BurstSound
  BY DEF Inv, Books, Bursts, BurstSound
<1>2. Inv => MembershipSound
  BY DEF Inv, Books, ChannelsKept, MembershipSound, ChannelsKnown
<1> QED
  BY <1>1, <1>2 DEF LostInv, ChanuserSound

(* The channel and user dicts are sound: memberships agree in both directions, *)
(* nobody is kept without a channel, bursts are counted, lines are put aside   *)
(* only for a burst, the bot is among the members of its channels, and while   *)
(* it is calm it knows every channel the server has it on, but those it joined *)
(* under a nick it did not know it had; all this until a user is renamed onto  *)
(* a nick the bot still has listed, or somebody joins under the nick the bot   *)
(* takes for its own (chanuser.c and chanuser_irc.c).                          *)
THEOREM SpecChanuserSound == Spec => []ChanuserSound
<1>1. Init => LostInv
  BY InitInv DEF LostInv, Init, Inv
<1>2. LostInv /\ [Next]_vars => LostInv'
  BY NextInv
<1>3. LostInv => ChanuserSound
  BY InvSound
<1> QED
  BY <1>1, <1>2, <1>3, PTL DEF Spec
-----------------------------------------------------------------------------
(* The picture.  A line that was put aside has still to run: what it will do   *)
(* to a membership, an operator or a ban is decided by the last of the pending *)
(* lines about it, and only if there is none by what the bot has now.          *)

MemberCmd == {"JOIN", "PART", "KICK"}
OpCmd == MemberCmd \cup {"+o", "-o"}

About(line, cmds, x) == line.cmd \in cmds /\ line.arg = x
Silent(s, p, cmds, x) == \A i \in p..Len(s) : ~About(s[i], cmds, x)
LastIs(s, p, cmds, x, on) ==
    \E i \in p..Len(s) :
        /\ About(s[i], cmds, x) /\ s[i].cmd = on
        /\ \A j \in (i + 1)..Len(s) : ~About(s[j], cmds, x)

(* Whether x will be there when the lines from p on have run, if those in Now  *)
(* are there at present.                                                       *)
Will(s, p, cmds, x, on, Now) ==
    (Silent(s, p, cmds, x) /\ x \in Now) \/ LastIs(s, p, cmds, x, on)

(* A line is put aside.                                                        *)
LEMMA WillAppend ==
    ASSUME NEW s \in Seq(Line), NEW p \in Nat \ {0}, p <= Len(s) + 1, NEW line \in Line,
           NEW cmds, NEW x, NEW on, NEW Now
    PROVE  Will(Append(s, line), p, cmds, x, on, Now) <=>
             IF About(line, cmds, x) THEN line.cmd = on ELSE Will(s, p, cmds, x, on, Now)
<1> DEFINE t == Append(s, line)
<1>1. /\ Len(t) = Len(s) + 1 /\ Len(s) \in Nat /\ t[Len(s) + 1] = line
      /\ \A i \in 1..Len(s) : t[i] = s[i]
  OBVIOUS
<1> HIDE DEF t
<1>2. CASE About(line, cmds, x)
  <2>1. ~Silent(t, p, cmds, x)
    BY <1>1, <1>2 DEF Silent
  <2>2. line.cmd = on => LastIs(t, p, cmds, x, on)
    <3> SUFFICES ASSUME line.cmd = on PROVE LastIs(t, p, cmds, x, on)
      OBVIOUS
    <3>1. \A j \in (Len(s) + 2)..Len(t) : ~About(t[j], cmds, x)
      BY <1>1
    <3>2. Len(s) + 1 \in p..Len(t) /\ Len(s) + 1 + 1 = Len(s) + 2
      BY <1>1
    <3> QED
      BY <1>1, <1>2, <3>1, <3>2 DEF LastIs
  <2>3. LastIs(t, p, cmds, x, on) => line.cmd = on
    <3> SUFFICES ASSUME NEW i \in p..Len(t), t[i].cmd = on,
                        \A j \in (i + 1)..Len(t) : ~About(t[j], cmds, x)
                 PROVE  line.cmd = on
      BY DEF LastIs
    <3>1. i = Len(s) + 1
      <4>1. i < Len(s) + 1 => Len(s) + 1 \in (i + 1)..Len(t)
        BY <1>1
      <4> QED
        BY <1>1, <1>2, <4>1
    <3> QED
      BY <1>1, <3>1
  <2> QED
    BY <1>2, <2>1, <2>2, <2>3 DEF Will, t
<1>3. CASE ~About(line, cmds, x)
  <2>1. \A i \in p..Len(t) : i \in p..Len(s) \/ i = Len(s) + 1
    BY <1>1
  <2>2. \A i \in p..Len(s) : i \in p..Len(t) /\ t[i] = s[i]
    BY <1>1
  <2>3. Silent(t, p, cmds, x) <=> Silent(s, p, cmds, x)
    BY <1>1, <1>3, <2>1, <2>2 DEF Silent
  <2>4. LastIs(t, p, cmds, x, on) => LastIs(s, p, cmds, x, on)
    <3> SUFFICES ASSUME NEW i \in p..Len(t), About(t[i], cmds, x), t[i].cmd = on,
                        \A j \in (i + 1)..Len(t) : ~About(t[j], cmds, x)
                 PROVE  LastIs(s, p, cmds, x, on)
      BY DEF LastIs
    <3>1. i \in p..Len(s)
      BY <1>1, <1>3, <2>1
    <3>2. \A j \in (i + 1)..Len(s) : ~About(s[j], cmds, x)
      BY <1>1, <2>2, <3>1
    <3> QED
      BY <2>2, <3>1, <3>2 DEF LastIs
  <2>5. LastIs(s, p, cmds, x, on) => LastIs(t, p, cmds, x, on)
    <3> SUFFICES ASSUME NEW i \in p..Len(s), About(s[i], cmds, x), s[i].cmd = on,
                        \A j \in (i + 1)..Len(s) : ~About(s[j], cmds, x)
                 PROVE  LastIs(t, p, cmds, x, on)
      BY DEF LastIs
    <3>1. \A j \in (i + 1)..Len(t) : ~About(t[j], cmds, x)
      BY <1>1, <1>3, <2>1, <2>2
    <3> QED
      BY <2>2, <3>1 DEF LastIs
  <2> QED
    BY <1>3, <2>3, <2>4, <2>5 DEF Will, t
<1> QED
  BY <1>2, <1>3

\* A line put aside: what the server has now is what the pending lines will make of the books.
LEMMA WillPutBy ==
    ASSUME NEW s \in Seq(Line), NEW line \in Line, NEW cmds, NEW x, NEW on,
           NEW Srv, NEW Srv2, NEW Now, NEW Now2,
           x \in Srv <=> Will(s, 1, cmds, x, on, Now),
           x \in Srv2 <=> IF About(line, cmds, x) THEN line.cmd = on ELSE x \in Srv,
           ~About(line, cmds, x) => (x \in Now2 <=> x \in Now)
    PROVE  x \in Srv2 <=> Will(Append(s, line), 1, cmds, x, on, Now2)
<1>1. 1 \in Nat \ {0} /\ 1 <= Len(s) + 1
  OBVIOUS
<1>2. Will(Append(s, line), 1, cmds, x, on, Now2) <=>
        IF About(line, cmds, x) THEN line.cmd = on ELSE Will(s, 1, cmds, x, on, Now2)
  BY <1>1, WillAppend
<1>3. ~About(line, cmds, x) => (Will(s, 1, cmds, x, on, Now2) <=> Will(s, 1, cmds, x, on, Now))
  BY DEF Will
<1> QED
  BY <1>2, <1>3

(* The first of the pending lines runs.                                        *)
LEMMA WillNext ==
    ASSUME NEW s \in Seq(Line), NEW p \in 1..Len(s), NEW cmds, NEW x, NEW on, NEW Now, NEW Then,
           Silent(s, p + 1, cmds, x) =>
             (x \in Then <=> IF About(s[p], cmds, x) THEN s[p].cmd = on ELSE x \in Now)
    PROVE  Will(s, p, cmds, x, on, Now) <=> Will(s, p + 1, cmds, x, on, Then)
<1>1. Len(s) \in Nat /\ p \in Nat
  OBVIOUS
<1>2. \A i : i \in p..Len(s) <=> i = p \/ i \in (p + 1)..Len(s)
  BY <1>1
<1>3. Silent(s, p, cmds, x) <=> Silent(s, p + 1, cmds, x) /\ ~About(s[p], cmds, x)
  BY <1>2 DEF Silent
<1>4. LastIs(s, p, cmds, x, on) <=>
        LastIs(s, p + 1, cmds, x, on) \/ (About(s[p], cmds, x) /\ s[p].cmd = on /\ Silent(s, p + 1, cmds, x))
  BY <1>2 DEF LastIs, Silent
<1>5. LastIs(s, p + 1, cmds, x, on) => ~Silent(s, p + 1, cmds, x)
  BY DEF LastIs, Silent
<1> QED
  BY <1>3, <1>4, <1>5 DEF Will

(* No pending line is about x.                                                 *)
LEMMA WillSilent ==
    ASSUME NEW s, NEW p, NEW cmds, NEW x, NEW on, NEW Now, Silent(s, p, cmds, x)
    PROVE  Will(s, p, cmds, x, on, Now) <=> x \in Now
BY DEF Will, LastIs, Silent

\* No line is pending behind the last one.
LEMMA NoneSilent ==
    ASSUME NEW s \in Seq(Line), NEW p \in Int, p > Len(s), NEW cmds, NEW x
    PROVE  Silent(s, p, cmds, x)
BY DEF Silent
-----------------------------------------------------------------------------
(* What a handler does to the members, the operators and the bans, if it is    *)
(* not the bot that leaves.                                                    *)
Ran(c, line) ==
    /\ \A n \in Nick : n \in chanUsers'[c] <=>
         IF About(line, MemberCmd, n) THEN line.cmd = "JOIN" ELSE n \in chanUsers[c]
    /\ \A n \in Nick : n \in chanOps'[c] <=>
         IF About(line, OpCmd, n) THEN line.cmd = "+o" /\ n \in chanUsers[c] ELSE n \in chanOps[c]
    /\ \A m \in Mask : m \in chanBans'[c] <=>
         IF About(line, BanCmd, m) THEN line.cmd = "+b" ELSE m \in chanBans[c]
    /\ line.cmd = "JOIN" => line.arg \in complete'

(* ... and what it leaves alone, in any case.                                  *)
Elsewhere(c) ==
    /\ \A d \in Chan \ {c} : chanUsers'[d] = chanUsers[d] /\ chanOps'[d] = chanOps[d] /\ chanBans'[d] = chanBans[d]
    /\ \A n \in complete : n \in users' => n \in complete'

\* What PART and KICK do to the books of the channel, and that they do nothing to another one.
LEMMA PartRan ==
    ASSUME Books, NEW c \in channels, NEW n \in Nick, NEW k \in Nick,
           handle_part(c, n) \/ handle_kick(c, k, n)
    PROVE  /\ Elsewhere(c)
           /\ n # nickname =>
                /\ UNCHANGED chanBans
                /\ \A x \in Nick : x \in chanUsers'[c] <=> x \in chanUsers[c] /\ x # n
                /\ \A x \in Nick : x \in chanOps'[c] <=> x \in chanOps[c] /\ x # n
<1>1. /\ \/ UNCHANGED <<links, chanBans>> /\ n \notin chanUsers[c]
         \/ (channel_del(c, {n}) \/ channel_del(c, {})) /\ n = nickname
         \/ channel_user_del(c, n) /\ UNCHANGED chanBans
      /\ \E x \in Nick : user_complete({x} \cap users)
  <2>1. n \notin users => n \notin chanUsers[c]
    BY DEF Books, BotTypeOK, MembershipSymmetric
  <2>2. CASE handle_part(c, n)
    BY <2>1, <2>2 DEF handle_part
  <2>3. CASE handle_kick(c, k, n)
    BY <2>1, <2>3 DEF handle_kick
  <2> QED
    BY <2>2, <2>3
<1>2. \A x \in complete : x \in users' => x \in complete'
  BY <1>1 DEF user_complete
<1>3. n \notin chanUsers[c] => n \notin chanOps[c]
  BY DEF Books, BotTypeOK, MembershipSymmetric
<1>4. CASE UNCHANGED <<links, chanBans>> /\ n \notin chanUsers[c]
  BY <1>2, <1>3, <1>4 DEF links, Elsewhere
<1>5. CASE (channel_del(c, {n}) \/ channel_del(c, {})) /\ n = nickname
  BY <1>2, <1>5 DEF channel_del, Elsewhere, Books, BotTypeOK
<1>6. CASE channel_user_del(c, n) /\ UNCHANGED chanBans
  BY <1>2, <1>6 DEF channel_user_del, Elsewhere, Books, BotTypeOK
<1> QED
  BY <1>1, <1>4, <1>5, <1>6

\* What any line does to the books when it is run.
LEMMA HandleRan ==
    ASSUME Books, NEW c \in channels, NEW line \in Line, handle(c, line)
    PROVE  Elsewhere(c) /\ (~Removes(line, nickname) => Ran(c, line))
<1> USE DEF About, MemberCmd, OpCmd, BanCmd
<1>1. CASE line.cmd = "JOIN"
  <2>1. line.arg \in Nick /\ handle_join(c, line.arg)
    BY <1>1 DEF handle, Line, Cmd, ModeCmd
  <2>2. Elsewhere(c)
    BY <2>1 DEF handle_join, channel_user_add, user_complete, Elsewhere, Books, BotTypeOK
  <2>3. Ran(c, line)
    BY <1>1, <2>1 DEF handle_join, channel_user_add, user_complete, Ran, Books, BotTypeOK
  <2> QED
    BY <2>2, <2>3
<1>2. CASE line.cmd = "PART"
  <2>1. line.arg \in Nick /\ handle_part(c, line.arg)
    BY <1>2 DEF handle, Line, Cmd, ModeCmd
  <2> QED
    BY <1>2, <2>1, PartRan DEF Ran, Removes
<1>3. CASE line.cmd = "KICK"
  <2>1. line.arg \in Nick /\ line.src \in Nick /\ handle_kick(c, line.src, line.arg)
    BY <1>3 DEF handle, Line, Cmd, ModeCmd
  <2> QED
    BY <1>3, <2>1, PartRan DEF Ran, Removes
<1>4. CASE line.cmd \in ModeCmd
  <2>1. handle_mode(c, line.cmd, line.arg)
    BY <1>4 DEF handle, ModeCmd
  <2>2. Elsewhere(c)
    BY <2>1 DEF handle_mode, people, Elsewhere, Books, BotTypeOK
  <2>3. Ran(c, line)
    <3>1. UNCHANGED chanUsers
      BY <2>1 DEF handle_mode
    <3>2. chanOps'[c] = CASE line.cmd = "+o" -> chanOps[c] \cup ({line.arg} \cap chanUsers[c])
                          [] line.cmd = "-o" -> chanOps[c] \ {line.arg}
                          [] OTHER -> chanOps[c]
      BY <2>1 DEF handle_mode, Books, BotTypeOK
    <3>3. chanBans'[c] = CASE line.cmd = "+b" -> chanBans[c] \cup {line.arg}
                           [] line.cmd = "-b" -> chanBans[c] \ {line.arg}
                           [] OTHER -> chanBans[c]
      BY <2>1 DEF handle_mode, Books, BotTypeOK
    <3> HIDE DEF handle_mode
    <3>4. CASE line.cmd = "+o"
      <4>1. chanOps[c] \subseteq chanUsers[c]
        BY DEF Books, BotTypeOK, MembershipSymmetric
      <4> QED
        BY <3>1, <3>2, <3>3, <3>4, <4>1 DEF Ran
    <3>5. CASE line.cmd = "-o"
      BY <3>1, <3>2, <3>3, <3>5 DEF Ran
    <3>6. CASE line.cmd = "+b"
      BY <3>1, <3>2, <3>3, <3>6 DEF Ran
    <3>7. CASE line.cmd = "-b"
      BY <3>1, <3>2, <3>3, <3>7 DEF Ran
    <3> QED
      BY <1>4, <3>4, <3>5, <3>6, <3>7 DEF ModeCmd
  <2> QED
    BY <2>2, <2>3
<1> QED
  BY <1>1, <1>2, <1>3, <1>4 DEF Line, Cmd, ModeCmd
-----------------------------------------------------------------------------
Start(c) == IF replay = c THEN pos ELSE 1

(* What the bot has of c, or will have when the burst has told it.             *)
MembersNow(c) == IF burst[c] = "NAMES" THEN member[c] ELSE chanUsers[c]
OpsNow(c) == IF burst[c] = "NAMES" THEN op[c] ELSE chanOps[c]
BansNow(c) == IF burst[c] \in {"NAMES", "MODES", "BANS"} THEN ban[c] ELSE chanBans[c]

MembersWill(c) ==
    \A n \in Nick : n \in member[c] <=> Will(lines[c], Start(c), MemberCmd, n, "JOIN", MembersNow(c))
OpsWill(c) ==
    \A n \in Nick : n \in op[c] <=> Will(lines[c], Start(c), OpCmd, n, "+o", OpsNow(c))
BansWill(c) ==
    \A m \in Mask : m \in ban[c] <=> Will(lines[c], Start(c), BanCmd, m, "+b", BansNow(c))

Removal(c, n) == \E i \in Start(c)..Len(lines[c]) : Removes(lines[c][i], n)

(* The server's answers find what channel_add left.                            *)
UnansweredOn(c) ==
    /\ burst[c] = "NAMES" => chanUsers[c] = {nickname} /\ chanOps[c] = {}
    /\ burst[c] \in {"NAMES", "MODES", "BANS"} => chanBans[c] = {}

(* The bot will have what the server has, or will be told that it has left.    *)
PictureOf(c) ==
    IF me \in member[c] THEN MembersWill(c) /\ OpsWill(c) /\ BansWill(c) ELSE Removal(c, me)

(* Who is not known completely will be in the WHO, or is about to be removed.  *)
CompleteOn(c) ==
    me \in member[c] => \A n \in chanUsers[c] :
        n \in complete \/ (Bursting(c) /\ n \in member[c]) \/ Removal(c, n)

OpsAreMembers == \A c \in Chan : op[c] \subseteq member[c]

Picture ==
    \A c \in channels : UnansweredOn(c) /\ (calm => PictureOf(c)) /\ CompleteOn(c)

PictureInv == Inv /\ OpsAreMembers /\ Picture

(* A channel nothing happens to.                                               *)
Same(d) ==
    /\ d \in channels
    /\ me' = me /\ nickname' = nickname
    /\ member'[d] = member[d] /\ op'[d] = op[d] /\ ban'[d] = ban[d]
    /\ chanUsers'[d] = chanUsers[d] /\ chanOps'[d] = chanOps[d] /\ chanBans'[d] = chanBans[d]
    /\ burst'[d] = burst[d] /\ lines'[d] = lines[d] /\ Start(d)' = Start(d)
    /\ \A n \in chanUsers[d] : n \in complete => n \in complete'

\* A channel that a step does not touch keeps its part of the picture.
LEMMA SameKept ==
    ASSUME Picture, NEW d, Same(d), calm' => calm
    PROVE  UnansweredOn(d)' /\ (calm' => PictureOf(d)') /\ CompleteOn(d)'
<1>1. UnansweredOn(d) /\ (calm => PictureOf(d)) /\ CompleteOn(d)
  BY DEF Picture, Same
<1>2. UnansweredOn(d)'
  BY <1>1 DEF Same, UnansweredOn
<1>3. PictureOf(d) => PictureOf(d)'
  <2>1. MembersWill(d) => MembersWill(d)'
    BY DEF Same, MembersWill, MembersNow
  <2>2. OpsWill(d) => OpsWill(d)'
    BY DEF Same, OpsWill, OpsNow
  <2>3. BansWill(d) => BansWill(d)'
    BY DEF Same, BansWill, BansNow
  <2>4. Removal(d, me) => Removal(d, me)'
    BY DEF Same, Removal
  <2> QED
    BY <2>1, <2>2, <2>3, <2>4 DEF PictureOf, Same
<1>4. CompleteOn(d)'
  BY <1>1 DEF Same, CompleteOn, Bursting, Removal
<1> QED
  BY <1>1, <1>2, <1>3, <1>4

\* The first state: the bot is nowhere.
LEMMA InitPicture == Init => PictureInv
<1> SUFFICES ASSUME Init PROVE PictureInv
  OBVIOUS
<1>1. Inv
  BY InitInv
<1>2. OpsAreMembers /\ Picture
  BY DEF Init, OpsAreMembers, Picture
<1> QED
  BY <1>1, <1>2 DEF PictureInv

(* What the server's side of an event does to c, if the bot is there to hear   *)
(* of it.                                                                      *)
Happens(c, line) ==
    /\ \A d \in Chan \ {c} : member'[d] = member[d] /\ op'[d] = op[d] /\ ban'[d] = ban[d]
    /\ me \in member'[c] <=> me \in member[c] /\ ~Removes(line, me)
    /\ me \in member'[c] =>
         /\ \A n \in Nick : n \in member'[c] <=>
              IF About(line, MemberCmd, n) THEN line.cmd = "JOIN" ELSE n \in member[c]
         /\ \A n \in Nick : n \in op'[c] <=>
              IF About(line, OpCmd, n) THEN line.cmd = "+o" ELSE n \in op[c]
         /\ \A m \in Mask : m \in ban'[c] <=>
              IF About(line, BanCmd, m) THEN line.cmd = "+b" ELSE m \in ban[c]
         /\ line.cmd = "+o" => line.arg \in member[c]

(* A line is put aside and will do what has happened.                          *)
LEMMA PutByPicture ==
    ASSUME PictureInv, Idle, NEW c \in channels, NEW line \in Line, PutBy(c, line), me \in member[c],
           Happens(c, line), UNCHANGED <<me, nickname, calm, replay, complete, chanUsers, chanOps, chanBans>>
    PROVE  UnansweredOn(c)' /\ (calm' => PictureOf(c)') /\ CompleteOn(c)'
<1>t. BotTypeOK /\ c \in Chan /\ replay # c
  BY ChanUserAssumption DEF PictureInv, Inv, Books, BotTypeOK, Idle
<1>0. UnansweredOn(c) /\ (calm => PictureOf(c)) /\ CompleteOn(c)
  BY DEF PictureInv, Picture
<1>1. /\ lines'[c] = Append(lines[c], line) /\ UNCHANGED burst /\ lines[c] \in Seq(Line)
      /\ Start(c) = 1 /\ Start(c)' = 1
  BY <1>t DEF PutBy, Start, BotTypeOK
<1>2. Len(lines'[c]) = Len(lines[c]) + 1 /\ lines'[c][Len(lines[c]) + 1] = line /\ Len(lines[c]) \in Nat
      /\ \A i \in 1..Len(lines[c]) : lines'[c][i] = lines[c][i]
  BY <1>1
<1>3. \A n : Removes(line, n) => Removal(c, n)'
  BY <1>1, <1>2 DEF Removal
<1>4. \A n : Removal(c, n) => Removal(c, n)'
  BY <1>1, <1>2 DEF Removal
<1>5. ASSUME calm, me \in member'[c] PROVE MembersWill(c)'
  <2> SUFFICES ASSUME NEW n \in Nick
               PROVE  n \in member'[c] <=> Will(Append(lines[c], line), 1, MemberCmd, n, "JOIN", MembersNow(c)')
    BY <1>1 DEF MembersWill
  <2>1. n \in member[c] <=> Will(lines[c], 1, MemberCmd, n, "JOIN", MembersNow(c))
    BY <1>0, <1>1, <1>5 DEF PictureOf, MembersWill
  <2>2. n \in member'[c] <=> IF About(line, MemberCmd, n) THEN line.cmd = "JOIN" ELSE n \in member[c]
    BY <1>5 DEF Happens
  <2>3. ~About(line, MemberCmd, n) => (n \in MembersNow(c)' <=> n \in MembersNow(c))
    BY <1>1, <2>2 DEF MembersNow
  <2> QED
    BY <1>1, <2>1, <2>2, <2>3, WillPutBy
<1>6. ASSUME calm, me \in member'[c] PROVE OpsWill(c)'
  <2> SUFFICES ASSUME NEW n \in Nick
               PROVE  n \in op'[c] <=> Will(Append(lines[c], line), 1, OpCmd, n, "+o", OpsNow(c)')
    BY <1>1 DEF OpsWill
  <2>1. n \in op[c] <=> Will(lines[c], 1, OpCmd, n, "+o", OpsNow(c))
    BY <1>0, <1>1, <1>6 DEF PictureOf, OpsWill
  <2>2. n \in op'[c] <=> IF About(line, OpCmd, n) THEN line.cmd = "+o" ELSE n \in op[c]
    BY <1>6 DEF Happens
  <2>3. ~About(line, OpCmd, n) => (n \in OpsNow(c)' <=> n \in OpsNow(c))
    BY <1>1, <2>2 DEF OpsNow
  <2> QED
    BY <1>1, <2>1, <2>2, <2>3, WillPutBy
<1>7. ASSUME calm, me \in member'[c] PROVE BansWill(c)'
  <2> SUFFICES ASSUME NEW m \in Mask
               PROVE  m \in ban'[c] <=> Will(Append(lines[c], line), 1, BanCmd, m, "+b", BansNow(c)')
    BY <1>1 DEF BansWill
  <2>1. m \in ban[c] <=> Will(lines[c], 1, BanCmd, m, "+b", BansNow(c))
    BY <1>0, <1>1, <1>7 DEF PictureOf, BansWill
  <2>2. m \in ban'[c] <=> IF About(line, BanCmd, m) THEN line.cmd = "+b" ELSE m \in ban[c]
    BY <1>7 DEF Happens
  <2>3. ~About(line, BanCmd, m) => (m \in BansNow(c)' <=> m \in BansNow(c))
    BY <1>1, <2>2 DEF BansNow
  <2> QED
    BY <1>1, <2>1, <2>2, <2>3, WillPutBy
<1>8. calm' => PictureOf(c)'
  <2> SUFFICES ASSUME calm PROVE PictureOf(c)'
    OBVIOUS
  <2>1. CASE me \in member'[c]
    BY <2>1, <1>5, <1>6, <1>7 DEF PictureOf
  <2>2. CASE me \notin member'[c]
    BY <2>2, <1>3 DEF Happens, PictureOf
  <2> QED
    BY <2>1, <2>2
<1>9. CompleteOn(c)'
  <2> SUFFICES ASSUME me \in member'[c], NEW n \in chanUsers[c], n \notin complete
               PROVE  (Bursting(c)' /\ n \in member'[c]) \/ Removal(c, n)'
    BY DEF CompleteOn
  <2>1. (Bursting(c) /\ n \in member[c]) \/ Removal(c, n)
    BY <1>0 DEF CompleteOn
  <2>2. n \in Nick
    BY <1>t DEF BotTypeOK
  <2>3. n \in member[c] => n \in member'[c] \/ Removes(line, n)
    BY <2>2 DEF Happens, About, MemberCmd, Removes
  <2> QED
    BY <1>1, <1>3, <1>4, <2>1, <2>3 DEF Bursting
<1> QED
  BY <1>0, <1>1, <1>8, <1>9 DEF UnansweredOn

(* Without pending lines the bot has, after the burst, what the server has.    *)
LEMMA NothingPending ==
    ASSUME NEW c, ~Bursting(c), lines[c] \in Seq(Line), Start(c) \in Int, Len(lines[c]) < Start(c)
    PROVE  /\ MembersWill(c) <=> \A n \in Nick : n \in member[c] <=> n \in chanUsers[c]
           /\ OpsWill(c) <=> \A n \in Nick : n \in op[c] <=> n \in chanOps[c]
           /\ BansWill(c) <=> \A m \in Mask : m \in ban[c] <=> m \in chanBans[c]
           /\ \A n : ~Removal(c, n)
<1>1. \A cmds, x : Silent(lines[c], Start(c), cmds, x)
  BY NoneSilent
<1>2. \A cmds, x, on, Now : Will(lines[c], Start(c), cmds, x, on, Now) <=> x \in Now
  BY <1>1, WillSilent
<1>3. MembersNow(c) = chanUsers[c] /\ OpsNow(c) = chanOps[c] /\ BansNow(c) = chanBans[c]
  BY DEF MembersNow, OpsNow, BansNow, Bursting
<1>4. \A n : ~Removal(c, n)
  BY DEF Removal
<1> QED
  BY <1>2, <1>3, <1>4 DEF MembersWill, OpsWill, BansWill

\* Without a burst and without pending lines, what the books will be is what they are.
LEMMA NothingPendingNext ==
    ASSUME NEW c, ~Bursting(c)', lines'[c] \in Seq(Line), Start(c)' \in Int, Len(lines'[c]) < Start(c)'
    PROVE  /\ MembersWill(c)' <=> \A n \in Nick : n \in member'[c] <=> n \in chanUsers'[c]
           /\ OpsWill(c)' <=> \A n \in Nick : n \in op'[c] <=> n \in chanOps'[c]
           /\ BansWill(c)' <=> \A m \in Mask : m \in ban'[c] <=> m \in chanBans'[c]
<1>1. \A cmds, x : Silent(lines'[c], Start(c)', cmds, x)
  BY NoneSilent
<1>2. \A cmds, x, on, Now : Will(lines'[c], Start(c)', cmds, x, on, Now) <=> x \in Now
  BY <1>1, WillSilent
<1>3. MembersNow(c)' = chanUsers'[c] /\ OpsNow(c)' = chanOps'[c] /\ BansNow(c)' = chanBans'[c]
  BY DEF MembersNow, OpsNow, BansNow, Bursting
<1> QED
  BY <1>2, <1>3 DEF MembersWill, OpsWill, BansWill

(* The handler runs at once.                                                   *)
LEMMA RanPicture ==
    ASSUME PictureInv, Idle, NEW c \in channels, NEW line \in Line, ~Bursting(c), me \in member[c],
           Ran(c, line), Elsewhere(c), Happens(c, line), ~Removes(line, me),
           Books', UNCHANGED <<me, nickname, calm, replay, rooms>>
    PROVE  UnansweredOn(c)' /\ (calm' => PictureOf(c)') /\ CompleteOn(c)'
<1>t. BotTypeOK /\ c \in Chan /\ replay # c
  BY ChanUserAssumption DEF PictureInv, Inv, Books, BotTypeOK, Idle
<1>0. (calm => PictureOf(c)) /\ CompleteOn(c)
  BY DEF PictureInv, Picture
<1>1. /\ UNCHANGED <<burst, lines>> /\ ~Bursting(c)' /\ lines[c] = <<>> /\ lines[c] \in Seq(Line)
      /\ Start(c) = 1 /\ Start(c)' = 1 /\ me \in member'[c]
  <2>1. UNCHANGED <<burst, lines>> /\ ~Bursting(c)'
    BY DEF rooms, Bursting
  <2>2. lines[c] = <<>> /\ lines[c] \in Seq(Line)
    BY <1>t DEF PictureInv, Inv, Bursts, LinesOnlyWhileBursting, BotTypeOK
  <2>3. Start(c) = 1 /\ Start(c)' = 1
    BY <1>t DEF Start
  <2>4. me \in member'[c]
    BY DEF Happens
  <2> QED
    BY <2>1, <2>2, <2>3, <2>4
<1>p. /\ Len(lines[c]) < Start(c) /\ Start(c) \in Int /\ lines[c] \in Seq(Line) /\ ~Bursting(c)
      /\ Len(lines'[c]) < Start(c)' /\ Start(c)' \in Int /\ lines'[c] \in Seq(Line) /\ ~Bursting(c)'
  BY <1>1
<1>2. /\ MembersWill(c) <=> \A n \in Nick : n \in member[c] <=> n \in chanUsers[c]
      /\ OpsWill(c) <=> \A n \in Nick : n \in op[c] <=> n \in chanOps[c]
      /\ BansWill(c) <=> \A m \in Mask : m \in ban[c] <=> m \in chanBans[c]
      /\ \A n : ~Removal(c, n)
  BY <1>p, NothingPending
<1>3. /\ MembersWill(c)' <=> \A n \in Nick : n \in member'[c] <=> n \in chanUsers'[c]
      /\ OpsWill(c)' <=> \A n \in Nick : n \in op'[c] <=> n \in chanOps'[c]
      /\ BansWill(c)' <=> \A m \in Mask : m \in ban'[c] <=> m \in chanBans'[c]
  BY <1>p, NothingPendingNext
<1>4. ASSUME calm PROVE PictureOf(c)'
  <2>1. MembersWill(c) /\ OpsWill(c) /\ BansWill(c)
    BY <1>0, <1>4 DEF PictureOf
  <2>2. MembersWill(c)'
    BY <1>1, <1>2, <1>3, <2>1 DEF Ran, Happens
  <2>3. OpsWill(c)'
    <3> SUFFICES ASSUME NEW n \in Nick PROVE n \in op'[c] <=> n \in chanOps'[c]
      BY <1>3
    <3>1. (n \in op[c] <=> n \in chanOps[c]) /\ (n \in member[c] <=> n \in chanUsers[c])
      BY <1>2, <2>1
    <3>2. n \in op'[c] <=> IF About(line, OpCmd, n) THEN line.cmd = "+o" ELSE n \in op[c]
      BY <1>1 DEF Happens
    <3>3. n \in chanOps'[c] <=>
            IF About(line, OpCmd, n) THEN line.cmd = "+o" /\ n \in chanUsers[c] ELSE n \in chanOps[c]
      BY DEF Ran
    <3>4. About(line, OpCmd, n) /\ line.cmd = "+o" => n \in member[c]
      BY <1>1 DEF Happens, About
    <3> QED
      BY <3>1, <3>2, <3>3, <3>4
  <2>4. BansWill(c)'
    BY <1>1, <1>2, <1>3, <2>1 DEF Ran, Happens
  <2> QED
    BY <1>1, <2>2, <2>3, <2>4 DEF PictureOf
<1>5. CompleteOn(c)'
  <2> SUFFICES ASSUME NEW n \in chanUsers'[c] PROVE n \in complete'
    BY DEF CompleteOn
  <2>1. n \in Nick /\ n \in users'
    BY <1>t DEF Books, BotTypeOK, MembershipSymmetric
  <2>2. n \in chanUsers[c] => n \in complete
    BY <1>0, <1>1, <1>2 DEF CompleteOn
  <2> QED
    BY <2>1, <2>2 DEF Ran, Elsewhere, About
<1> QED
  BY <1>1, <1>4, <1>5 DEF UnansweredOn, Bursting

(* An event on c other than the bot's own JOIN.                                *)
LEMMA ReceivePicture ==
    ASSUME PictureInv, Idle, NEW c \in Chan, NEW cmd, NEW src, NEW arg,
           [cmd |-> cmd, src |-> src, arg |-> arg] \in Line, Receive(c, cmd, src, arg),
           Happens(c, [cmd |-> cmd, src |-> src, arg |-> arg]),
           Inv', OpsAreMembers', UNCHANGED <<me, calm, replay, pos>>
    PROVE  PictureInv'
<1> DEFINE line == [cmd |-> cmd, src |-> src, arg |-> arg]
<1>0. line \in Line
  OBVIOUS
<1>h. Happens(c, line)
  OBVIOUS
<1>m. Books /\ Books' /\ BotTypeOK
  BY DEF PictureInv, Inv, Books
<1>n. c \in channels => me = nickname
  BY OnChannel DEF PictureInv, Inv
<1>1. \/ UNCHANGED bot /\ me \notin member[c]
      \/ UNCHANGED bot /\ c \notin channels
      \/ check_burst(c, line) /\ c \in channels /\ Bursting(c) /\ me \in member[c]
      \/ handle(c, line) /\ c \in channels /\ ~Bursting(c) /\ me \in member[c]
  BY DEF Receive, Deliver
<1> HIDE DEF line
<1>s. \A d : Start(d)' = Start(d)
  BY DEF Start
<1>2. CASE UNCHANGED bot /\ me \notin member[c]
  <2>1. me \notin member'[c]
    BY <1>h, <1>2 DEF Happens
  <2>2. ASSUME NEW d \in channels' PROVE UnansweredOn(d)' /\ (calm' => PictureOf(d)') /\ CompleteOn(d)'
    <3>1. CASE d # c
      <4>1. Same(d)
        BY <1>2, <1>h, <1>m, <1>s, <2>2, <3>1 DEF Same, Happens, bot, people, links, rooms, BotTypeOK
      <4> QED
        BY <4>1, SameKept DEF PictureInv
    <3>2. CASE d = c
      <4>1. UnansweredOn(d) /\ (calm => PictureOf(d))
        BY <1>2, <2>2 DEF PictureInv, Picture, bot, rooms
      <4>2. UnansweredOn(d)'
        BY <1>2, <4>1 DEF UnansweredOn, bot, people, links, rooms
      <4>3. PictureOf(d) => PictureOf(d)'
        BY <1>2, <1>s, <2>1, <3>2 DEF PictureOf, Removal, bot, rooms
      <4>4. CompleteOn(d)'
        BY <2>1, <3>2 DEF CompleteOn
      <4> QED
        BY <4>1, <4>2, <4>3, <4>4
    <3> QED
      BY <3>1, <3>2
  <2> QED
    BY <2>2 DEF PictureInv, Picture
<1>3. CASE UNCHANGED bot /\ c \notin channels
  <2>1. ASSUME NEW d \in channels' PROVE Same(d)
    BY <1>3, <1>h, <1>m, <1>s, <2>1 DEF Same, Happens, bot, people, links, rooms, BotTypeOK
  <2> QED
    BY <2>1, SameKept DEF PictureInv, Picture
<1>4. CASE check_burst(c, line) /\ c \in channels /\ Bursting(c) /\ me \in member[c]
  <2>1. PutBy(c, line) /\ UNCHANGED <<nickname, complete, chanUsers, chanOps, chanBans>>
    BY <1>4 DEF check_burst, PutBy, people, links
  <2>2. UnansweredOn(c)' /\ (calm' => PictureOf(c)') /\ CompleteOn(c)'
    BY <1>0, <1>4, <1>h, <2>1, PutByPicture
  <2>3. ASSUME NEW d \in channels', d # c PROVE Same(d)
    BY <1>h, <1>m, <1>s, <2>1, <2>3 DEF Same, Happens, PutBy, BotTypeOK
  <2> QED
    BY <2>2, <2>3, SameKept DEF PictureInv, Picture
<1>5. CASE handle(c, line) /\ c \in channels /\ ~Bursting(c) /\ me \in member[c]
  <2>1. Elsewhere(c) /\ (~Removes(line, nickname) => Ran(c, line))
    BY <1>0, <1>5, <1>m, HandleRan
  <2>2. /\ UNCHANGED nickname
        /\ IF Removes(line, nickname) THEN Dropped(c) ELSE UNCHANGED rooms
    BY <1>0, <1>5, <1>m, Handle
  <2>3. ASSUME NEW d \in channels', d # c PROVE Same(d)
    <3>1. d \in channels /\ d \in Chan /\ burst'[d] = burst[d] /\ lines'[d] = lines[d]
      BY <1>m, <2>2, <2>3 DEF rooms, Dropped, BotTypeOK
    <3>2. chanUsers'[d] = chanUsers[d] /\ chanOps'[d] = chanOps[d] /\ chanBans'[d] = chanBans[d]
      BY <2>1, <2>3, <3>1 DEF Elsewhere
    <3>3. chanUsers'[d] \subseteq users'
      BY <1>m, <3>1 DEF Books, MembershipSymmetric
    <3>4. \A n \in chanUsers[d] : n \in complete => n \in complete'
      BY <2>1, <3>2, <3>3 DEF Elsewhere
    <3> QED
      BY <1>h, <1>s, <2>2, <2>3, <3>1, <3>2, <3>4 DEF Same, Happens
  <2>4. ASSUME c \in channels'
        PROVE  UnansweredOn(c)' /\ (calm' => PictureOf(c)') /\ CompleteOn(c)'
    <3>1. UNCHANGED rooms /\ ~Removes(line, nickname)
      BY <2>2, <2>4 DEF Dropped
    <3> QED
      BY <1>0, <1>5, <1>h, <1>m, <1>n, <2>1, <2>2, <3>1, RanPicture
  <2> QED
    BY <2>3, <2>4, SameKept DEF PictureInv, Picture
<1> QED
  BY <1>1, <1>2, <1>3, <1>4, <1>5

\* PART keeps the picture.
LEMMA PartPicture == ASSUME PictureInv, NEW c \in Chan, NEW n \in Nick, part(c, n) PROVE PictureInv'
<1> DEFINE line == [cmd |-> "PART", src |-> n, arg |-> n]
<1>1. line \in Line
  BY DEF Line, Cmd, ModeCmd, BanCmd
<1>2. Inv' /\ ServerTypeOK /\ me \in Nick
  BY PartInv, Types DEF PictureInv, Inv, TypeOK
<1>3. /\ member' = [member EXCEPT ![c] = @ \ {n}] /\ op' = [op EXCEPT ![c] = @ \ {n}]
      /\ ban' = [ban EXCEPT ![c] = IF member[c] = {n} THEN {} ELSE @] /\ UNCHANGED me
  BY DEF part, Leave
<1>4. OpsAreMembers'
  BY <1>2, <1>3 DEF PictureInv, OpsAreMembers, ServerTypeOK
<1>5. Happens(c, line)
  BY <1>2, <1>3 DEF Happens, Removes, About, MemberCmd, OpCmd, BanCmd, ServerTypeOK
<1> QED
  BY <1>1, <1>2, <1>4, <1>5, ReceivePicture DEF part

\* KICK keeps the picture.
LEMMA KickPicture ==
    ASSUME PictureInv, NEW c \in Chan, NEW k \in Nick, NEW n \in Nick, kick(c, k, n) PROVE PictureInv'
<1> DEFINE line == [cmd |-> "KICK", src |-> k, arg |-> n]
<1>1. line \in Line
  BY DEF Line, Cmd, ModeCmd, BanCmd
<1>2. Inv' /\ ServerTypeOK /\ me \in Nick
  BY KickInv, Types DEF PictureInv, Inv, TypeOK
<1>3. /\ member' = [member EXCEPT ![c] = @ \ {n}] /\ op' = [op EXCEPT ![c] = @ \ {n}]
      /\ ban' = [ban EXCEPT ![c] = IF member[c] = {n} THEN {} ELSE @] /\ UNCHANGED me
  BY DEF kick, Leave
<1>4. OpsAreMembers'
  BY <1>2, <1>3 DEF PictureInv, OpsAreMembers, ServerTypeOK
<1>5. Happens(c, line)
  BY <1>2, <1>3 DEF Happens, Removes, About, MemberCmd, OpCmd, BanCmd, ServerTypeOK
<1> QED
  BY <1>1, <1>2, <1>4, <1>5, ReceivePicture DEF kick

\* MODE +o and -o keep the picture.
LEMMA ModePicture ==
    ASSUME PictureInv, NEW c \in Chan, NEW k \in Nick, NEW n \in Nick, NEW sign \in {"+o", "-o"},
           mode(c, k, sign, n)
    PROVE  PictureInv'
<1> DEFINE line == [cmd |-> sign, src |-> k, arg |-> n]
<1>1. line \in Line
  BY DEF Line, Cmd, ModeCmd, BanCmd
<1>2. Inv' /\ ServerTypeOK /\ me \in Nick
  BY ModeInv, Types DEF PictureInv, Inv, TypeOK
<1>3. OpsAreMembers'
  BY <1>2 DEF mode, PictureInv, OpsAreMembers, ServerTypeOK
<1>4. Happens(c, line)
  BY <1>2 DEF mode, Happens, Removes, About, MemberCmd, OpCmd, BanCmd, ServerTypeOK
<1> QED
  BY <1>1, <1>2, <1>3, <1>4, ReceivePicture DEF mode

\* MODE +b and -b keep the picture.
LEMMA ModeBanPicture ==
    ASSUME PictureInv, NEW c \in Chan, NEW k \in Nick, NEW m \in Mask, NEW sign \in {"+b", "-b"},
           mode_ban(c, k, sign, m)
    PROVE  PictureInv'
<1> DEFINE line == [cmd |-> sign, src |-> k, arg |-> m]
<1>1. line \in Line
  BY DEF Line, Cmd, ModeCmd, BanCmd
<1>2. Inv' /\ ServerTypeOK /\ me \in Nick
  BY ModeBanInv, Types DEF PictureInv, Inv, TypeOK
<1>3. OpsAreMembers'
  BY DEF mode_ban, PictureInv, OpsAreMembers
<1>4. Happens(c, line)
  BY <1>2 DEF mode_ban, Happens, Removes, About, MemberCmd, OpCmd, BanCmd, ServerTypeOK
<1> QED
  BY <1>1, <1>2, <1>3, <1>4, ReceivePicture DEF mode_ban

(* The bot joins: nothing is known yet, and everything will be asked for.      *)
LEMMA AddPicture ==
    ASSUME PictureInv, Inv', OpsAreMembers', Idle, me = nickname, NEW c \in Chan, channel_add(c), me \in member'[c],
           UNCHANGED <<me, calm, replay, pos, ban>>,
           \A d \in Chan \ {c} : member'[d] = member[d] /\ op'[d] = op[d]
    PROVE  PictureInv'
<1>t. BotTypeOK /\ Books' /\ replay # c
  BY ChanUserAssumption DEF PictureInv, Inv, Books, Idle
<1>a. /\ chanUsers' = [chanUsers EXCEPT ![c] = {nickname}]
      /\ chanOps' = [chanOps EXCEPT ![c] = {}]
      /\ chanBans' = [chanBans EXCEPT ![c] = {}]
      /\ channels' = channels \cup {c}
      /\ burst' = [burst EXCEPT ![c] = "NAMES"]
      /\ lines' = [lines EXCEPT ![c] = <<>>]
      /\ user_complete({nickname})
      /\ UNCHANGED nickname
  BY DEF channel_add
<1>s. \A d : Start(d)' = Start(d)
  BY DEF Start
<1>1. ASSUME NEW d \in channels', d # c PROVE Same(d)
  <2>1. d \in channels /\ d \in Chan
    BY <1>a, <1>t, <1>1 DEF BotTypeOK
  <2>2. \A n \in chanUsers[d] : n \in users'
    BY <1>a, <1>t, <1>1, <2>1 DEF Books, BotTypeOK, MembershipSymmetric
  <2> QED
    BY <1>a, <1>t, <1>s, <1>1, <2>1, <2>2 DEF Same, BotTypeOK, user_complete
<1>2. UnansweredOn(c)'
  BY <1>a, <1>t DEF UnansweredOn, BotTypeOK
<1>3. PictureOf(c)'
  <2>1. burst'[c] = "NAMES" /\ lines'[c] = <<>> /\ Start(c)' = 1
    BY <1>a, <1>t DEF BotTypeOK, Start
  <2>2. \A cmds, x : Silent(lines'[c], Start(c)', cmds, x)
    BY <2>1 DEF Silent
  <2>3. \A cmds, x, on, Now : Will(lines'[c], Start(c)', cmds, x, on, Now) <=> x \in Now
    BY <2>2, WillSilent
  <2>4. MembersNow(c)' = member'[c] /\ OpsNow(c)' = op'[c] /\ BansNow(c)' = ban'[c]
    BY <2>1 DEF MembersNow, OpsNow, BansNow
  <2> QED
    BY <2>3, <2>4 DEF PictureOf, MembersWill, OpsWill, BansWill
<1>4. CompleteOn(c)'
  <2>1. chanUsers'[c] = {nickname} /\ nickname \in users'
    BY <1>a, <1>t DEF BotTypeOK, channel_add
  <2> QED
    BY <1>a, <2>1 DEF CompleteOn, user_complete
<1> QED
  BY <1>1, <1>2, <1>3, <1>4, SameKept DEF PictureInv, Picture

\* JOIN keeps the picture; the bot's own starts a burst, if the bot takes it for its own.
LEMMA JoinPicture == ASSUME PictureInv, NEW c \in Chan, NEW n \in Nick, join(c, n), ~lost' PROVE PictureInv'
<1> DEFINE line == [cmd |-> "JOIN", src |-> n, arg |-> n]
<1>1. line \in Line
  BY DEF Line, Cmd, ModeCmd, BanCmd
<1>2. Inv' /\ ServerTypeOK /\ me \in Nick
  BY JoinInv, Types DEF PictureInv, Inv, TypeOK
<1>3. /\ Idle /\ n \notin member[c]
      /\ member' = [member EXCEPT ![c] = @ \cup {n}]
      /\ op' = [op EXCEPT ![c] = IF member[c] = {} THEN {n} ELSE @]
      /\ UNCHANGED <<ban, me, replay, pos, calm>>
  BY DEF join
<1>4. OpsAreMembers'
  BY <1>2, <1>3 DEF PictureInv, OpsAreMembers, ServerTypeOK
<1>5. CASE n = me /\ me = nickname
  <2>1. channel_add(c) /\ me \in member'[c]
    BY <1>2, <1>3, <1>5 DEF join, ReceiveJoin, ServerTypeOK
  <2>2. \A d \in Chan \ {c} : member'[d] = member[d] /\ op'[d] = op[d]
    BY <1>2, <1>3 DEF ServerTypeOK
  <2> QED
    BY <1>2, <1>3, <1>4, <1>5, <2>1, <2>2, AddPicture
<1>6. CASE n # me
  <2>1. Receive(c, "JOIN", n, n)
    BY <1>2, <1>6 DEF join, ReceiveJoin, Receive, ServerTypeOK
  <2>2. op[c] \subseteq member[c]
    BY DEF PictureInv, OpsAreMembers
  <2>3. Happens(c, line)
    BY <1>2, <1>3, <1>6, <2>2 DEF Happens, Removes, About, MemberCmd, OpCmd, BanCmd, ServerTypeOK
  <2> QED
    BY <1>1, <1>2, <1>3, <1>4, <2>1, <2>3, ReceivePicture
<1>7. CASE n = me /\ me # nickname
  <2>1. channels' = {}
    BY <1>7, JoinMissed DEF PictureInv, bot, rooms
  <2> QED
    BY <1>2, <1>4, <2>1 DEF PictureInv, Picture
<1> QED
  BY <1>5, <1>6, <1>7
-----------------------------------------------------------------------------
(* NICK and QUIT: there is no pending line about the user, while it is calm.   *)

\* What the pending lines make of x depends only on whether x is in the books now.
LEMMA WillElsewhere ==
    ASSUME NEW s, NEW p, NEW cmds, NEW x, NEW on, NEW Now, NEW Now2, x \in Now2 <=> x \in Now
    PROVE  Will(s, p, cmds, x, on, Now2) <=> Will(s, p, cmds, x, on, Now)
BY DEF Will

\* A change of nick, when no pending line is about either nick.
LEMMA WillRename ==
    ASSUME NEW s, NEW p, NEW cmds, NEW on, NEW Srv, NEW Now, NEW n \in Nick, NEW m \in Nick, n # m, m \notin Srv,
           Silent(s, p, cmds, n), Silent(s, p, cmds, m),
           \A x \in Nick : x \in Srv <=> Will(s, p, cmds, x, on, Now)
    PROVE  \A x \in Nick : x \in Renamed(Srv, n, m) <=> Will(s, p, cmds, x, on, Renamed(Now, n, m))
<1> SUFFICES ASSUME NEW x \in Nick
             PROVE  x \in Renamed(Srv, n, m) <=> Will(s, p, cmds, x, on, Renamed(Now, n, m))
  OBVIOUS
<1>1. \A S : x \in Renamed(S, n, m) <=> (x \in S /\ x # n) \/ (x = m /\ n \in S)
  BY RenamedSet
<1>2. CASE x # n /\ x # m
  <2>1. (x \in Renamed(Srv, n, m) <=> x \in Srv) /\ (x \in Renamed(Now, n, m) <=> x \in Now)
    BY <1>1, <1>2
  <2> QED
    BY <2>1, WillElsewhere
<1>3. CASE x = n \/ x = m
  <2>1. Will(s, p, cmds, x, on, Renamed(Now, n, m)) <=> x \in Renamed(Now, n, m)
    BY <1>3, WillSilent
  <2>2. (n \in Srv <=> n \in Now) /\ (m \in Srv <=> m \in Now)
    BY WillSilent
  <2> QED
    BY <1>1, <1>3, <2>1, <2>2
<1> QED
  BY <1>2, <1>3

\* A user that quits, when no pending line is about it.
LEMMA WillQuit ==
    ASSUME NEW s, NEW p, NEW cmds, NEW on, NEW Srv, NEW Now, NEW Srv2, NEW Now2, NEW n \in Nick,
           Silent(s, p, cmds, n), NEW x, x \in Srv <=> Will(s, p, cmds, x, on, Now),
           x \in Srv2 <=> x \in Srv /\ x # n, x \in Now2 <=> x \in Now /\ x # n
    PROVE  x \in Srv2 <=> Will(s, p, cmds, x, on, Now2)
<1>1. CASE x # n
  <2>1. (x \in Now2 <=> x \in Now) /\ (x \in Srv2 <=> x \in Srv)
    BY <1>1
  <2>2. Will(s, p, cmds, x, on, Now2) <=> Will(s, p, cmds, x, on, Now)
    BY <2>1, WillElsewhere
  <2> QED
    BY <2>1, <2>2
<1>2. CASE x = n
  <2>1. Will(s, p, cmds, n, on, Now2) <=> n \in Now2
    BY WillSilent
  <2> QED
    BY <1>2, <2>1
<1> QED
  BY <1>1, <1>2

\* A nick that PutAside does not name is in no pending line.
LEMMA NotPutAside ==
    ASSUME ServerTypeOK, BotTypeOK, NEW n, ~PutAside(n), NEW c \in Chan
    PROVE  (\A cmds : Silent(lines[c], Start(c), cmds, n)) /\ ~Removal(c, n)
<1>1. \A i \in Start(c)..Len(lines[c]) : i \in DOMAIN lines[c]
  BY DEF Start, ServerTypeOK, BotTypeOK
<1>2. \A i \in DOMAIN lines[c] : lines[c][i].arg # n
  BY DEF PutAside
<1> QED
  BY <1>1, <1>2 DEF Silent, About, Removal, Removes

\* NICK keeps the picture: while calm, neither nick is in a line put aside.
LEMMA NickPicture == ASSUME PictureInv, NEW n \in Nick, NEW m \in Nick, nick(n, m), ~lost' PROVE PictureInv'
<1>i. Inv' /\ ServerTypeOK /\ BotTypeOK /\ Books /\ n # m /\ me # m
  BY NickInv, Types DEF PictureInv, Inv, nick, Visible
<1>m. \A c \in Chan : m \notin member[c]
  BY DEF nick
<1>u. UNCHANGED <<channels, burst, lines, replay, pos, ban, chanBans>>
  BY DEF nick, rooms
<1>s. \A c : Start(c)' = Start(c)
  BY <1>u DEF Start
<1>1. \A c \in Chan : member'[c] = Renamed(member[c], n, m) /\ op'[c] = Renamed(op[c], n, m)
  BY DEF nick
<1>2. me' = IF n = me THEN m ELSE me
  BY DEF nick
<1>3. \A c \in Chan : chanUsers'[c] = Renamed(chanUsers[c], n, m) /\ chanOps'[c] = Renamed(chanOps[c], n, m)
  <2> SUFFICES ASSUME NEW c \in Chan
               PROVE  chanUsers'[c] = Renamed(chanUsers[c], n, m) /\ chanOps'[c] = Renamed(chanOps[c], n, m)
    OBVIOUS
  <2>1. (n \in chanUsers[c] <=> c \in userChans[n]) /\ chanUsers[c] \subseteq users /\ chanOps[c] \subseteq chanUsers[c]
    BY <1>i DEF Books, MembershipSymmetric
  <2>2. CASE c \in userChans[n]
    <3>1. n \in users
      BY <2>1, <2>2
    <3> QED
      BY <2>2, <3>1 DEF nick, user_rename
  <2>3. CASE c \notin userChans[n]
    <3>1. chanUsers'[c] = chanUsers[c] /\ chanOps'[c] = chanOps[c]
      BY <2>3 DEF nick, user_rename, links
    <3>2. n \notin chanUsers[c] /\ n \notin chanOps[c]
      BY <2>1, <2>3
    <3> QED
      BY <3>1, <3>2 DEF Renamed
  <2> QED
    BY <2>2, <2>3
<1>4. OpsAreMembers'
  BY <1>1, RenamedSet DEF PictureInv, OpsAreMembers
<1>5. ASSUME NEW c \in channels PROVE UnansweredOn(c)' /\ (calm' => PictureOf(c)') /\ CompleteOn(c)'
  <2>0. c \in Chan /\ UnansweredOn(c) /\ (calm => PictureOf(c)) /\ CompleteOn(c)
    BY <1>i DEF PictureInv, Picture, BotTypeOK
  <2>1. me' \in member'[c] <=> me \in member[c]
    BY <1>1, <1>2, <1>i, <1>m, <2>0, RenamedSet
  <2>2. UnansweredOn(c)'
    <3>0. nickname \in users
      BY OnChannel DEF PictureInv, Inv
    <3>1. Renamed({nickname}, n, m) = {nickname'}
      BY <1>i, <3>0 DEF nick, Renamed
    <3>2. Renamed({}, n, m) = {}
      BY DEF Renamed
    <3> QED
      BY <1>3, <1>u, <2>0, <3>1, <3>2 DEF UnansweredOn
  <2>3. ASSUME calm' PROVE PictureOf(c)'
    <3>1. calm /\ ~PutAside(n) /\ ~PutAside(m)
      BY <2>3 DEF nick
    <3>2. /\ \A cmds : Silent(lines[c], Start(c), cmds, n) /\ Silent(lines[c], Start(c), cmds, m)
          /\ ~Removal(c, n)
      BY <1>i, <2>0, <3>1, NotPutAside
    <3>3. CASE me \in member[c]
      <4>1. MembersWill(c) /\ OpsWill(c) /\ BansWill(c)
        BY <2>0, <3>1, <3>3 DEF PictureOf
      <4>2. MembersNow(c)' = Renamed(MembersNow(c), n, m) /\ OpsNow(c)' = Renamed(OpsNow(c), n, m)
            /\ BansNow(c)' = BansNow(c)
        BY <1>1, <1>3, <1>u, <2>0 DEF MembersNow, OpsNow, BansNow
      <4>3. m \notin member[c] /\ m \notin op[c]
        BY <1>m, <2>0 DEF PictureInv, OpsAreMembers
      <4>4. \A x \in Nick : x \in Renamed(member[c], n, m) <=>
              Will(lines[c], Start(c), MemberCmd, x, "JOIN", Renamed(MembersNow(c), n, m))
        BY <1>i, <3>2, <4>1, <4>3, WillRename DEF MembersWill
      <4>5. \A x \in Nick : x \in Renamed(op[c], n, m) <=>
              Will(lines[c], Start(c), OpCmd, x, "+o", Renamed(OpsNow(c), n, m))
        BY <1>i, <3>2, <4>1, <4>3, WillRename DEF OpsWill
      <4>6. MembersWill(c)'
        BY <1>1, <1>s, <1>u, <2>0, <4>2, <4>4 DEF MembersWill
      <4>7. OpsWill(c)'
        BY <1>1, <1>s, <1>u, <2>0, <4>2, <4>5 DEF OpsWill
      <4>8. BansWill(c)'
        BY <1>s, <1>u, <4>1, <4>2 DEF BansWill
      <4> QED
        BY <2>1, <3>3, <4>6, <4>7, <4>8 DEF PictureOf
    <3>4. CASE me \notin member[c]
      <4>1. Removal(c, me)
        BY <2>0, <3>1, <3>4 DEF PictureOf
      <4>2. me' = me
        BY <1>2, <3>2, <4>1
      <4>3. Removal(c, me)'
        BY <1>s, <1>u, <4>1, <4>2 DEF Removal
      <4> QED
        BY <2>1, <3>4, <4>3 DEF PictureOf
    <3> QED
      BY <3>3, <3>4
  <2>4. CompleteOn(c)'
    <3> SUFFICES ASSUME me \in member[c], NEW x \in chanUsers'[c]
                 PROVE  x \in complete' \/ (Bursting(c)' /\ x \in member'[c]) \/ Removal(c, x)'
      BY <2>1 DEF CompleteOn
    <3>1. (x \in chanUsers[c] /\ x # n) \/ (x = m /\ n \in chanUsers[c])
      BY <1>3, <2>0, RenamedSet
    <3>2. chanUsers[c] \subseteq users
      BY <1>i, <2>0 DEF Books, MembershipSymmetric
    <3>3. CASE x = m /\ n \in chanUsers[c]
      <4>1. user_rename(n, m) /\ user_complete({m})
        BY <3>2, <3>3 DEF nick
      <4>2. m \in users'
        BY <3>2, <3>3, <4>1 DEF user_rename, Renamed
      <4> QED
        BY <3>3, <4>1, <4>2 DEF user_complete
    <3>4. CASE x \in chanUsers[c] /\ x # n
      <4>1. x \in complete \/ (Bursting(c) /\ x \in member[c]) \/ Removal(c, x)
        BY <2>0, <3>4 DEF CompleteOn
      <4>2. x \in complete => x \in complete'
        <5>1. x \in users
          BY <3>2, <3>4
        <5> QED
          BY <3>4, <5>1 DEF nick, user_rename, user_complete, people, Renamed
      <4>3. x \in member[c] => x \in member'[c]
        BY <1>1, <2>0, <3>4, RenamedSet
      <4>4. Removal(c, x) => Removal(c, x)'
        BY <1>s, <1>u DEF Removal
      <4> QED
        BY <1>u, <4>1, <4>2, <4>3, <4>4 DEF Bursting
    <3> QED
      BY <3>1, <3>3, <3>4
  <2> QED
    BY <2>2, <2>3, <2>4
<1> QED
  BY <1>4, <1>5, <1>i, <1>u DEF PictureInv, Picture

\* QUIT keeps the picture: while calm, the nick is in no line put aside.
LEMMA QuitPicture == ASSUME PictureInv, NEW n \in Nick, quit(n) PROVE PictureInv'
<1>i. Inv' /\ ServerTypeOK /\ BotTypeOK /\ Books /\ n # me
  BY QuitInv, Types DEF PictureInv, Inv, quit
<1>u. UNCHANGED <<me, nickname, channels, burst, lines, replay, pos, chanBans>>
  BY DEF quit, rooms
<1>s. \A c : Start(c)' = Start(c)
  BY <1>u DEF Start
<1>1. \A c \in Chan : member'[c] = member[c] \ {n} /\ op'[c] = op[c] \ {n}
  BY DEF quit
<1>2. \A c \in Chan : me \in member[c] => ban'[c] = ban[c]
  BY <1>i DEF quit
<1>3. \A c \in Chan : chanUsers'[c] = chanUsers[c] \ {n} /\ chanOps'[c] = chanOps[c] \ {n}
  <2> SUFFICES ASSUME NEW c \in Chan
               PROVE  chanUsers'[c] = chanUsers[c] \ {n} /\ chanOps'[c] = chanOps[c] \ {n}
    OBVIOUS
  <2>1. (n \in chanUsers[c] <=> c \in userChans[n]) /\ chanUsers[c] \subseteq users /\ chanOps[c] \subseteq chanUsers[c]
    BY <1>i DEF Books, MembershipSymmetric
  <2>2. CASE c \in userChans[n]
    BY <2>1, <2>2 DEF quit, user_del
  <2>3. CASE c \notin userChans[n]
    <3>1. chanUsers'[c] = chanUsers[c] /\ chanOps'[c] = chanOps[c]
      BY <2>3 DEF quit, user_del, links
    <3> QED
      BY <2>1, <2>3, <3>1
  <2> QED
    BY <2>2, <2>3
<1>4. OpsAreMembers'
  BY <1>1 DEF PictureInv, OpsAreMembers
<1>5. ASSUME NEW c \in channels PROVE UnansweredOn(c)' /\ (calm' => PictureOf(c)') /\ CompleteOn(c)'
  <2>0. c \in Chan /\ UnansweredOn(c) /\ (calm => PictureOf(c)) /\ CompleteOn(c)
    BY <1>i DEF PictureInv, Picture, BotTypeOK
  <2>1. me' \in member'[c] <=> me \in member[c]
    BY <1>1, <1>u, <1>i, <2>0
  <2>2. UnansweredOn(c)'
    <3>1. me = nickname
      BY OnChannel DEF PictureInv, Inv
    <3> QED
      BY <1>3, <1>u, <1>i, <2>0, <3>1 DEF UnansweredOn
  <2>3. ASSUME calm' PROVE PictureOf(c)'
    <3>1. calm /\ ~PutAside(n)
      BY <2>3 DEF quit
    <3>2. \A cmds : Silent(lines[c], Start(c), cmds, n)
      BY <1>i, <2>0, <3>1, NotPutAside
    <3>3. CASE me \in member[c]
      <4>1. MembersWill(c) /\ OpsWill(c) /\ BansWill(c)
        BY <2>0, <3>1, <3>3 DEF PictureOf
      <4>2. MembersNow(c)' = MembersNow(c) \ {n} /\ OpsNow(c)' = OpsNow(c) \ {n} /\ BansNow(c)' = BansNow(c)
        BY <1>1, <1>2, <1>3, <1>u, <2>0, <3>3 DEF MembersNow, OpsNow, BansNow
      <4>3. \A x \in Nick : x \in member'[c] <=>
              Will(lines[c], Start(c), MemberCmd, x, "JOIN", MembersNow(c)')
        <5> SUFFICES ASSUME NEW x \in Nick
                     PROVE  x \in member'[c] <=> Will(lines[c], Start(c), MemberCmd, x, "JOIN", MembersNow(c)')
          OBVIOUS
        <5>1. x \in member[c] <=> Will(lines[c], Start(c), MemberCmd, x, "JOIN", MembersNow(c))
          BY <4>1 DEF MembersWill
        <5>2. /\ x \in member'[c] <=> x \in member[c] /\ x # n
              /\ x \in MembersNow(c)' <=> x \in MembersNow(c) /\ x # n
          BY <1>1, <2>0, <4>2
        <5> QED
          BY <3>2, <5>1, <5>2, WillQuit
      <4>4. \A x \in Nick : x \in op'[c] <=>
              Will(lines[c], Start(c), OpCmd, x, "+o", OpsNow(c)')
        <5> SUFFICES ASSUME NEW x \in Nick
                     PROVE  x \in op'[c] <=> Will(lines[c], Start(c), OpCmd, x, "+o", OpsNow(c)')
          OBVIOUS
        <5>1. x \in op[c] <=> Will(lines[c], Start(c), OpCmd, x, "+o", OpsNow(c))
          BY <4>1 DEF OpsWill
        <5>2. /\ x \in op'[c] <=> x \in op[c] /\ x # n
              /\ x \in OpsNow(c)' <=> x \in OpsNow(c) /\ x # n
          BY <1>1, <2>0, <4>2
        <5> QED
          BY <3>2, <5>1, <5>2, WillQuit
      <4>5. MembersWill(c)'
        BY <1>s, <1>u, <4>3 DEF MembersWill
      <4>6. OpsWill(c)'
        BY <1>s, <1>u, <4>4 DEF OpsWill
      <4>7. BansWill(c)'
        BY <1>2, <1>s, <1>u, <2>0, <3>3, <4>1, <4>2 DEF BansWill
      <4> QED
        BY <2>1, <3>3, <4>5, <4>6, <4>7 DEF PictureOf
    <3>4. CASE me \notin member[c]
      <4>1. Removal(c, me)
        BY <2>0, <3>1, <3>4 DEF PictureOf
      <4>2. Removal(c, me)'
        BY <1>s, <1>u, <4>1 DEF Removal
      <4> QED
        BY <2>1, <3>4, <4>2 DEF PictureOf
    <3> QED
      BY <3>3, <3>4
  <2>4. CompleteOn(c)'
    <3> SUFFICES ASSUME me \in member[c], NEW x \in chanUsers'[c]
                 PROVE  x \in complete' \/ (Bursting(c)' /\ x \in member'[c]) \/ Removal(c, x)'
      BY <2>1 DEF CompleteOn
    <3>1. x \in chanUsers[c] /\ x # n /\ x \in users
      BY <1>3, <1>i, <2>0 DEF Books, MembershipSymmetric
    <3>2. x \in complete \/ (Bursting(c) /\ x \in member[c]) \/ Removal(c, x)
      BY <2>0, <3>1 DEF CompleteOn
    <3>3. x \in complete => x \in complete'
      BY <3>1 DEF quit, user_del, user_complete, people
    <3>4. x \in member[c] => x \in member'[c]
      BY <1>1, <2>0, <3>1
    <3>5. Removal(c, x) => Removal(c, x)'
      BY <1>s, <1>u DEF Removal
    <3> QED
      BY <1>u, <3>2, <3>3, <3>4, <3>5 DEF Bursting
  <2> QED
    BY <2>2, <2>3, <2>4
<1> QED
  BY <1>4, <1>5, <1>i, <1>u DEF PictureInv, Picture
-----------------------------------------------------------------------------
(* The burst.                                                                  *)

(* An answer brings what the server has to where nothing was: MembersNow and   *)
(* the others stay what they are.                                              *)
LEMMA AnswerPicture ==
    ASSUME PictureInv, Inv', NEW c \in channels, Idle,
           num_namereply(c) \/ num_channelmodeis(c) \/ num_banlist(c) \/ num_endofwho(c)
    PROVE  PictureInv'
<1>t. ServerTypeOK /\ BotTypeOK /\ Books /\ Books' /\ me = nickname /\ c \in Chan
  BY OnChannel, Types DEF PictureInv, Inv, BotTypeOK
<1>u. /\ UNCHANGED <<me, nickname, member, op, ban, channels, lines, calm>>
      /\ \A x \in complete : x \in complete'
      /\ \A d \in Chan \ {c} : burst'[d] = burst[d]
      /\ burst[c] # "FINISHED"
  BY <1>t DEF num_namereply, num_channelmodeis, num_banlist, num_endofwho, Answer, server, people, BotTypeOK
<1>d. \A d \in Chan \ {c} : chanUsers'[d] = chanUsers[d] /\ chanOps'[d] = chanOps[d] /\ chanBans'[d] = chanBans[d]
  BY <1>t DEF num_namereply, num_channelmodeis, num_banlist, num_endofwho, links, BotTypeOK
<1>s. \A d \in Chan : Start(d)' = 1 /\ Start(d) = 1
  BY ChanUserAssumption DEF Start, Idle, num_namereply, num_channelmodeis, num_banlist, num_endofwho
<1>0. UnansweredOn(c) /\ (calm => PictureOf(c)) /\ CompleteOn(c)
  BY DEF PictureInv, Picture
<1>1. ASSUME NEW e \in channels, e # c PROVE Same(e)
  BY <1>t, <1>u, <1>d, <1>s, <1>1 DEF Same, BotTypeOK
<1>b. /\ \/ /\ burst[c] = "NAMES" /\ burst'[c] = "MODES" /\ num_namereply(c)
         \/ /\ burst[c] = "MODES" /\ burst'[c] = "BANS" /\ UNCHANGED <<chanUsers, chanOps, chanBans>>
         \/ /\ burst[c] = "BANS" /\ burst'[c] = "WHO" /\ UNCHANGED <<chanUsers, chanOps>>
            /\ chanBans'[c] = chanBans[c] \cup ban[c]
         \/ /\ burst[c] = "WHO" /\ burst'[c] = "FINISHED" /\ UNCHANGED <<chanUsers, chanOps, chanBans>>
  BY <1>t DEF num_namereply, num_channelmodeis, num_banlist, num_endofwho, Answer, links, BotTypeOK
<1>n. burst[c] = "NAMES" =>
        /\ UNCHANGED chanBans
        /\ me \in member[c] => chanUsers'[c] = member[c] /\ chanOps'[c] = op[c]
  <2> SUFFICES ASSUME burst[c] = "NAMES"
               PROVE  UNCHANGED chanBans /\ (me \in member[c] => chanUsers'[c] = member[c] /\ chanOps'[c] = op[c])
    OBVIOUS
  <2>1. chanUsers[c] = {me} /\ chanOps[c] = {} /\ op[c] \subseteq member[c]
    BY <1>0, <1>t DEF UnansweredOn, PictureInv, OpsAreMembers
  <2>2. num_namereply(c)
    BY <1>b
  <2>3. UNCHANGED chanBans
    BY <2>2 DEF num_namereply
  <2>4. me \in member[c] =>
          /\ chanUsers'[c] = chanUsers[c] \cup member[c]
          /\ chanOps'[c] = (chanOps[c] \ member[c]) \cup (op[c] \cap member[c])
    BY <1>t, <2>2 DEF num_namereply, BotTypeOK
  <2> QED
    BY <2>1, <2>3, <2>4
<1>2. UnansweredOn(c)'
  BY <1>0, <1>b, <1>n DEF UnansweredOn
<1>3. ASSUME calm' PROVE PictureOf(c)'
  <2>0. PictureOf(c)
    BY <1>0, <1>3, <1>u
  <2>1. CASE me \in member[c]
    <3>1. MembersNow(c)' = MembersNow(c)
      BY <1>b, <1>n, <1>u, <2>1 DEF MembersNow
    <3>2. OpsNow(c)' = OpsNow(c)
      BY <1>b, <1>n, <1>u, <2>1 DEF OpsNow
    <3>3. BansNow(c)' = BansNow(c)
      <4>1. burst[c] = "BANS" => chanBans[c] = {}
        BY <1>0 DEF UnansweredOn
      <4> QED
        BY <1>b, <1>n, <1>u, <4>1 DEF BansNow
    <3>4. MembersWill(c)' /\ OpsWill(c)' /\ BansWill(c)'
      BY <1>s, <1>t, <1>u, <2>0, <2>1, <3>1, <3>2, <3>3 DEF PictureOf, MembersWill, OpsWill, BansWill
    <3> QED
      BY <1>u, <2>1, <3>4 DEF PictureOf
  <2>2. CASE me \notin member[c]
    BY <1>s, <1>t, <1>u, <2>0, <2>2 DEF PictureOf, Removal
  <2> QED
    BY <2>1, <2>2
<1>4. CompleteOn(c)'
  <2> SUFFICES ASSUME me \in member[c], NEW x \in chanUsers'[c]
               PROVE  x \in complete' \/ (Bursting(c)' /\ x \in member[c]) \/ Removal(c, x)'
    BY <1>u DEF CompleteOn
  <2>1. CASE burst[c] = "NAMES"
    BY <1>b, <1>n, <2>1 DEF Bursting
  <2>2. CASE burst[c] # "NAMES"
    <3>1. x \in chanUsers[c]
      BY <1>b, <2>2
    <3>2. x \in complete \/ x \in member[c] \/ Removal(c, x)
      BY <1>0, <3>1 DEF CompleteOn
    <3>3. Removal(c, x) => Removal(c, x)'
      BY <1>s, <1>t, <1>u DEF Removal
    <3>4. CASE burst[c] = "WHO"
      <4>1. x \in users /\ num_endofwho(c)
        BY <1>t, <3>1, <3>4 DEF Books, MembershipSymmetric, num_namereply, num_channelmodeis, num_banlist, Answer
      <4>2. x \in member[c] => x \in complete'
        BY <4>1 DEF num_endofwho
      <4> QED
        BY <1>u, <3>2, <3>3, <4>2
    <3>5. CASE burst[c] # "WHO"
      BY <1>b, <1>u, <2>2, <3>2, <3>3, <3>5 DEF Bursting
    <3> QED
      BY <3>4, <3>5
  <2> QED
    BY <2>1, <2>2
<1> QED
  BY <1>1, <1>2, <1>3, <1>4, <1>u, SameKept DEF PictureInv, Picture, OpsAreMembers

(* The next line of the replay.                                                *)
LEMMA ReplayPicture == ASSUME PictureInv, replay_line PROVE PictureInv'
<1>k. PICK c : c = replay
  OBVIOUS
<1>g. PICK line : line = lines[replay][pos]
  OBVIOUS
<1>t. Inv' /\ ServerTypeOK /\ BotTypeOK /\ Books /\ Books'
  BY ReplayLineInv, Types DEF PictureInv, Inv
<1>c. c \in Chan /\ c \in channels /\ ~Bursting(c)
  BY <1>k, <1>t DEF PictureInv, Inv, Bursts, ReplayKnown, replay_line, ServerTypeOK
<1>n. me = nickname
  BY <1>c, OnChannel DEF PictureInv, Inv
<1>l. line \in Line /\ pos \in 1..Len(lines[c]) /\ line = lines[c][pos] /\ lines[c] \in Seq(Line)
  BY <1>t, <1>c, <1>g, <1>k DEF replay_line, BotTypeOK, ServerTypeOK
<1>h. handle(c, line) /\ UNCHANGED <<world, member, op, ban, me, calm>>
  BY <1>g, <1>k DEF replay_line, server
<1>r. replay' = (IF c \in channels' THEN c ELSE NONE) /\ pos' = (IF c \in channels' THEN pos + 1 ELSE 1)
  BY <1>k DEF replay_line
<1>0. UnansweredOn(c) /\ (calm => PictureOf(c)) /\ CompleteOn(c)
  BY <1>c DEF PictureInv, Picture
<1>1. Elsewhere(c) /\ (~Removes(line, nickname) => Ran(c, line))
  BY <1>c, <1>h, <1>l, <1>t, HandleRan
<1>2. UNCHANGED nickname /\ (IF Removes(line, nickname) THEN Dropped(c) ELSE UNCHANGED rooms)
  BY <1>c, <1>h, <1>l, <1>t, Handle
<1>3. ASSUME NEW d \in channels', d # c PROVE Same(d)
  <2>1. d \in channels /\ d \in Chan /\ burst'[d] = burst[d] /\ lines'[d] = lines[d]
    BY <1>t, <1>2, <1>3 DEF rooms, Dropped, BotTypeOK
  <2>2. chanUsers'[d] = chanUsers[d] /\ chanOps'[d] = chanOps[d] /\ chanBans'[d] = chanBans[d]
    BY <1>1, <1>3, <2>1 DEF Elsewhere
  <2>3. chanUsers'[d] \subseteq users'
    BY <1>t, <2>1 DEF Books, MembershipSymmetric
  <2>4. \A n \in chanUsers[d] : n \in complete => n \in complete'
    BY <1>1, <2>2, <2>3 DEF Elsewhere
  <2>5. Start(d)' = Start(d)
    BY <1>3, <1>k, <1>r, <2>1, ChanUserAssumption DEF Start
  <2> QED
    BY <1>h, <1>2, <2>1, <2>2, <2>4, <2>5 DEF Same
<1>4. ASSUME c \in channels' PROVE UnansweredOn(c)' /\ (calm' => PictureOf(c)') /\ CompleteOn(c)'
  <2>1. UNCHANGED rooms /\ ~Removes(line, me) /\ Ran(c, line)
    BY <1>1, <1>2, <1>4, <1>n DEF Dropped
  <2>2. ~Bursting(c)' /\ lines'[c] = lines[c] /\ Start(c) = pos /\ Start(c)' = pos + 1 /\ burst'[c] = "FINISHED"
        /\ burst[c] = "FINISHED"
    BY <1>c, <1>k, <1>r, <1>4, <2>1 DEF rooms, Bursting, Start
  <2>3. \A n \in Nick : n # line.arg => (Removal(c, n) => Removal(c, n)')
    <3> SUFFICES ASSUME NEW n \in Nick, n # line.arg, NEW i \in pos..Len(lines[c]), Removes(lines[c][i], n)
                 PROVE  Removal(c, n)'
      BY <2>2 DEF Removal
    <3>1. i # pos
      BY <1>l DEF Removes
    <3>2. i \in (pos + 1)..Len(lines[c])
      BY <1>l, <3>1
    <3> QED
      BY <2>2, <3>2 DEF Removal
  <2>4. ASSUME calm PROVE PictureOf(c)'
    <3>1. CASE me \in member[c]
      <4>0. MembersWill(c) /\ OpsWill(c) /\ BansWill(c)
        BY <1>0, <2>4, <3>1 DEF PictureOf
      <4>1. /\ MembersNow(c) = chanUsers[c] /\ OpsNow(c) = chanOps[c] /\ BansNow(c) = chanBans[c]
            /\ MembersNow(c)' = chanUsers'[c] /\ OpsNow(c)' = chanOps'[c] /\ BansNow(c)' = chanBans'[c]
        BY <2>2 DEF MembersNow, OpsNow, BansNow
      <4>2. MembersWill(c)'
        <5> SUFFICES ASSUME NEW n \in Nick
                     PROVE  n \in member[c] <=> Will(lines[c], pos + 1, MemberCmd, n, "JOIN", chanUsers'[c])
          BY <1>h, <2>2, <4>1 DEF MembersWill
        <5>1. n \in chanUsers'[c] <=> IF About(line, MemberCmd, n) THEN line.cmd = "JOIN" ELSE n \in chanUsers[c]
          BY <2>1 DEF Ran
        <5>2. Will(lines[c], pos, MemberCmd, n, "JOIN", chanUsers[c]) <=>
                Will(lines[c], pos + 1, MemberCmd, n, "JOIN", chanUsers'[c])
          BY <1>l, <5>1, WillNext
        <5> QED
          BY <2>2, <4>0, <4>1, <5>2 DEF MembersWill
      <4>3. OpsWill(c)'
        <5> SUFFICES ASSUME NEW n \in Nick
                     PROVE  n \in op[c] <=> Will(lines[c], pos + 1, OpCmd, n, "+o", chanOps'[c])
          BY <1>h, <2>2, <4>1 DEF OpsWill
        <5>0. n \in op[c] <=> Will(lines[c], pos, OpCmd, n, "+o", chanOps[c])
          BY <2>2, <4>0, <4>1 DEF OpsWill
        <5>1. n \in chanOps'[c] <=>
                IF About(line, OpCmd, n) THEN line.cmd = "+o" /\ n \in chanUsers[c] ELSE n \in chanOps[c]
          BY <2>1 DEF Ran
        \* The last line about n is a +o: n is a member, and no line will say otherwise.
        <5>2. ASSUME Silent(lines[c], pos + 1, OpCmd, n), About(line, OpCmd, n), line.cmd = "+o"
              PROVE  n \in chanUsers[c]
          <6>1. \A i : i \in pos..Len(lines[c]) => i = pos \/ i \in (pos + 1)..Len(lines[c])
            BY <1>l
          <6>2. Silent(lines[c], pos, MemberCmd, n)
            BY <1>l, <5>2, <6>1 DEF Silent, About, OpCmd, MemberCmd
          <6>3. LastIs(lines[c], pos, OpCmd, n, "+o")
            BY <1>l, <5>2 DEF LastIs, Silent
          <6>4. n \in op[c]
            BY <5>0, <6>3 DEF Will
          <6>5. n \in member[c]
            BY <1>c, <6>4 DEF PictureInv, OpsAreMembers
          <6> QED
            BY <2>2, <4>0, <4>1, <6>2, <6>5, WillSilent DEF MembersWill
        <5>3. Will(lines[c], pos, OpCmd, n, "+o", chanOps[c]) <=>
                Will(lines[c], pos + 1, OpCmd, n, "+o", chanOps'[c])
          BY <1>l, <5>1, <5>2, WillNext
        <5> QED
          BY <5>0, <5>3
      <4>4. BansWill(c)'
        <5> SUFFICES ASSUME NEW m \in Mask
                     PROVE  m \in ban[c] <=> Will(lines[c], pos + 1, BanCmd, m, "+b", chanBans'[c])
          BY <1>h, <2>2, <4>1 DEF BansWill
        <5>1. m \in chanBans'[c] <=> IF About(line, BanCmd, m) THEN line.cmd = "+b" ELSE m \in chanBans[c]
          BY <2>1 DEF Ran
        <5>2. Will(lines[c], pos, BanCmd, m, "+b", chanBans[c]) <=>
                Will(lines[c], pos + 1, BanCmd, m, "+b", chanBans'[c])
          BY <1>l, <5>1, WillNext
        <5> QED
          BY <2>2, <4>0, <4>1, <5>2 DEF BansWill
      <4> QED
        BY <1>h, <3>1, <4>2, <4>3, <4>4 DEF PictureOf
    <3>2. CASE me \notin member[c]
      <4>1. PICK i \in pos..Len(lines[c]) : Removes(lines[c][i], me)
        BY <1>0, <2>2, <2>4, <3>2 DEF PictureOf, Removal
      <4>2. i # pos
        BY <1>l, <2>1, <4>1
      <4>3. i \in (pos + 1)..Len(lines[c])
        BY <1>l, <4>2
      <4>4. Removal(c, me)'
        BY <1>h, <2>2, <4>1, <4>3 DEF Removal
      <4> QED
        BY <1>h, <3>2, <4>4 DEF PictureOf
    <3> QED
      BY <3>1, <3>2
  <2>5. CompleteOn(c)'
    <3> SUFFICES ASSUME me \in member[c], NEW n \in chanUsers'[c], n \notin complete'
                 PROVE  Removal(c, n)'
      BY <1>h DEF CompleteOn
    <3>1. n \in Nick /\ n \in users'
      BY <1>c, <1>t DEF Books, BotTypeOK, MembershipSymmetric
    <3>2. ~(About(line, MemberCmd, n))
      BY <2>1, <3>1 DEF Ran, About
    <3>3. n \in chanUsers[c] /\ n \notin complete
      BY <1>1, <2>1, <3>1, <3>2 DEF Ran, Elsewhere
    <3>4. PICK i \in pos..Len(lines[c]) : Removes(lines[c][i], n)
      BY <1>0, <1>c, <2>2, <3>3 DEF CompleteOn, Removal
    <3>5. i # pos
      BY <1>l, <3>2, <3>4 DEF Removes, About, MemberCmd
    <3>6. i \in (pos + 1)..Len(lines[c])
      BY <1>l, <3>5
    <3> QED
      BY <2>2, <3>4, <3>6 DEF Removal
  <2> QED
    BY <1>h, <2>2, <2>4, <2>5 DEF UnansweredOn
<1> QED
  BY <1>3, <1>4, <1>h, <1>t, SameKept DEF PictureInv, Picture, OpsAreMembers

\* The end of a replay: what was pending is in the books.
LEMMA ReplayEndPicture == ASSUME PictureInv, replay_end PROVE PictureInv'
<1>t. Inv' /\ ServerTypeOK /\ BotTypeOK /\ replay \in Chan /\ replay \in channels /\ ~Bursting(replay)
  BY ReplayEndInv, Types DEF PictureInv, Inv, Bursts, ReplayKnown, replay_end, ServerTypeOK
<1>s. /\ lines' = [lines EXCEPT ![replay] = <<>>] /\ replay' = NONE /\ pos > Len(lines[replay])
      /\ UNCHANGED <<member, op, ban, me, nickname, complete, chanUsers, chanOps, chanBans, channels, burst, calm>>
  BY DEF replay_end, server, people, links
<1>0. (calm => PictureOf(replay)) /\ CompleteOn(replay)
  BY <1>t DEF PictureInv, Picture
<1>1. ASSUME NEW d \in channels', d # replay PROVE Same(d)
  BY <1>s, <1>t, <1>1, ChanUserAssumption DEF Same, Start, BotTypeOK
<1>2. /\ MembersWill(replay) <=> \A n \in Nick : n \in member[replay] <=> n \in chanUsers[replay]
      /\ OpsWill(replay) <=> \A n \in Nick : n \in op[replay] <=> n \in chanOps[replay]
      /\ BansWill(replay) <=> \A m \in Mask : m \in ban[replay] <=> m \in chanBans[replay]
      /\ \A n : ~Removal(replay, n)
  <2>1. Start(replay) \in Int /\ Len(lines[replay]) < Start(replay) /\ lines[replay] \in Seq(Line)
    BY <1>s, <1>t DEF Start, ServerTypeOK, BotTypeOK
  <2> QED
    BY <1>t, <2>1, NothingPending
<1>3. PICK d : d = replay
  OBVIOUS
<1>4. /\ MembersWill(d)' <=> \A n \in Nick : n \in member'[d] <=> n \in chanUsers'[d]
      /\ OpsWill(d)' <=> \A n \in Nick : n \in op'[d] <=> n \in chanOps'[d]
      /\ BansWill(d)' <=> \A m \in Mask : m \in ban'[d] <=> m \in chanBans'[d]
  <2>1. lines'[d] = <<>> /\ Start(d)' = 1 /\ ~Bursting(d)'
    BY <1>s, <1>t, <1>3, ChanUserAssumption DEF Start, BotTypeOK, Bursting
  <2>2. Start(d)' \in Int /\ Len(lines'[d]) < Start(d)' /\ lines'[d] \in Seq(Line)
    BY <2>1
  <2> QED
    BY <2>1, <2>2, NothingPendingNext
<1>5. calm' => PictureOf(d)'
  <2> SUFFICES ASSUME calm PROVE PictureOf(d)'
    BY <1>s
  <2>1. me \in member[d] /\ MembersWill(d) /\ OpsWill(d) /\ BansWill(d)
    BY <1>0, <1>2, <1>3 DEF PictureOf
  <2> QED
    BY <1>2, <1>3, <1>4, <1>s, <2>1 DEF PictureOf
<1>6. CompleteOn(d)'
  BY <1>0, <1>2, <1>3, <1>s, <1>t DEF CompleteOn
<1>7. UnansweredOn(d)'
  BY <1>3, <1>s, <1>t DEF UnansweredOn, Bursting
<1> QED
  BY <1>1, <1>3, <1>5, <1>6, <1>7, <1>s, <1>t, SameKept DEF PictureInv, Picture, OpsAreMembers

\* A new connection: the bot is nowhere again.
LEMMA ReconnectPicture == ASSUME PictureInv, irc_reconnect PROVE PictureInv'
<1>1. Inv'
  BY ReconnectInv DEF PictureInv
<1>2. OpsAreMembers'
  BY DEF irc_reconnect, PictureInv, OpsAreMembers
<1>3. Picture'
  BY DEF irc_reconnect, Picture
<1> QED
  BY <1>1, <1>2, <1>3 DEF PictureInv

\* So does a step that changes nothing.
LEMMA StutterPicture == ASSUME PictureInv, UNCHANGED vars PROVE PictureInv'
<1>1. Inv' /\ BotTypeOK
  BY StutterInv, Types DEF PictureInv, Inv
<1>2. OpsAreMembers'
  BY DEF PictureInv, OpsAreMembers, vars, server
<1>3. ASSUME NEW d \in channels' PROVE Same(d)
  BY <1>1, <1>3 DEF Same, Start, vars, server, bot, people, links, rooms, BotTypeOK
<1>4. calm' => calm
  BY DEF vars
<1> QED
  BY <1>1, <1>2, <1>3, <1>4, SameKept DEF PictureInv, Picture

\* Every step that does not lose the bot keeps the picture.
LEMMA LivePicture == ASSUME PictureInv, [Next]_vars, ~lost' PROVE PictureInv'
<1>w. world.nick \subseteq Nick /\ world.chan \subseteq Chan /\ world.mask \subseteq Mask
  BY World, Types DEF PictureInv, Inv
<1>1. ASSUME NEW c \in Chan, num_namereply(c) \/ num_channelmodeis(c) \/ num_banlist(c) \/ num_endofwho(c)
      PROVE  PictureInv'
  <2>1. c \in channels /\ Idle
    BY <1>1 DEF num_namereply, num_channelmodeis, num_banlist, num_endofwho, Answer
  <2>2. Inv'
    BY <1>1, NamereplyInv, AnswerInv, EndofwhoInv DEF PictureInv
  <2> QED
    BY <1>1, <2>1, <2>2, AnswerPicture
<1>2. CASE \E c \in world.chan, n \in world.nick : join(c, n) \/ part(c, n)
  BY <1>2, <1>w, JoinPicture, PartPicture
<1>3. CASE \E c \in world.chan, k, n \in world.nick : kick(c, k, n) \/ \E sign \in {"+o", "-o"} : mode(c, k, sign, n)
  BY <1>3, <1>w, KickPicture, ModePicture
<1>4. CASE \E c \in world.chan, k \in world.nick, m \in world.mask, sign \in {"+b", "-b"} : mode_ban(c, k, sign, m)
  BY <1>4, <1>w, ModeBanPicture
<1>5. CASE \E n \in world.nick : quit(n) \/ \E m \in world.nick : nick(n, m)
  BY <1>5, <1>w, QuitPicture, NickPicture
<1>6. CASE replay_line \/ replay_end
  BY <1>6, ReplayPicture, ReplayEndPicture
<1>7. CASE irc_reconnect
  BY <1>7, ReconnectPicture
<1>8. CASE lost_for_good \/ UNCHANGED vars
  BY <1>8, StutterPicture DEF lost_for_good
<1> QED
  BY <1>1, <1>2, <1>3, <1>4, <1>5, <1>6, <1>7, <1>8, <1>w DEF Next

\* Every step keeps what is known of the bot and, unless it is lost, its picture.
LEMMA NextPicture ==
    LostInv /\ (~lost => PictureInv) /\ [Next]_vars => LostInv' /\ (~lost' => PictureInv')
<1> SUFFICES ASSUME LostInv, ~lost => PictureInv, [Next]_vars PROVE LostInv' /\ (~lost' => PictureInv')
  OBVIOUS
<1>1. LostInv'
  BY NextInv
<1>2. lost => lost'
  <2> SUFFICES ASSUME lost PROVE lost'
    OBVIOUS
  <2>1. UNCHANGED vars
    BY LostForGood DEF LostInv
  <2> QED
    BY <2>1 DEF vars
<1>3. ~lost' => PictureInv'
  BY <1>2, LivePicture
<1> QED
  BY <1>1, <1>3

\* The invariant says what PictureAccurate says.
LEMMA PictureSound == (~lost => PictureInv) => PictureAccurate
<1> SUFFICES ASSUME PictureInv, NEW c \in channels, Finished(c)
             PROVE  /\ me \in member[c] => chanUsers[c] \subseteq complete
                    /\ calm => chanUsers[c] = member[c] /\ chanOps[c] = op[c] /\ chanBans[c] = ban[c]
  BY DEF PictureAccurate, MembersComplete
<1>t. ServerTypeOK /\ BotTypeOK /\ c \in Chan
  BY Types DEF PictureInv, Inv, BotTypeOK
<1>0. (calm => PictureOf(c)) /\ CompleteOn(c)
  BY DEF PictureInv, Picture
<1>1. lines[c] = <<>> /\ ~Bursting(c) /\ Start(c) = 1
  BY <1>t DEF Finished, Start, PictureInv, Inv, Bursts, LinesOnlyWhileBursting
<1>2. Len(lines[c]) < Start(c) /\ Start(c) \in Int /\ lines[c] \in Seq(Line)
  BY <1>1
<1>3. /\ MembersWill(c) <=> \A n \in Nick : n \in member[c] <=> n \in chanUsers[c]
      /\ OpsWill(c) <=> \A n \in Nick : n \in op[c] <=> n \in chanOps[c]
      /\ BansWill(c) <=> \A m \in Mask : m \in ban[c] <=> m \in chanBans[c]
      /\ \A n : ~Removal(c, n)
  BY <1>1, <1>2, NothingPending
<1>4. me \in member[c] => chanUsers[c] \subseteq complete
  BY <1>0, <1>1, <1>3 DEF CompleteOn
<1>5. ASSUME calm PROVE chanUsers[c] = member[c] /\ chanOps[c] = op[c] /\ chanBans[c] = ban[c]
  <2>1. MembersWill(c) /\ OpsWill(c) /\ BansWill(c)
    BY <1>0, <1>3, <1>5 DEF PictureOf
  <2>2. /\ member[c] \subseteq Nick /\ chanUsers[c] \subseteq Nick /\ op[c] \subseteq Nick /\ chanOps[c] \subseteq Nick
        /\ ban[c] \subseteq Mask /\ chanBans[c] \subseteq Mask
    BY <1>t DEF ServerTypeOK, BotTypeOK
  <2> QED
    BY <1>3, <2>1, <2>2
<1> QED
  BY <1>4, <1>5

(* When the burst of a channel is over, the bot knows ident and host of its    *)
(* members, and, unless somebody with a line put aside quit or changed nick,   *)
(* its members, operators and bans are the server's, however many lines were   *)
(* put aside and whatever happened while names, modes, bans and WHO were asked *)
(* for (num_endofwho, channel_complete); all this until a user is renamed onto *)
(* a nick the bot still has listed, or somebody joins under the nick the bot   *)
(* takes for its own.                                                          *)
THEOREM SpecPictureAccurate == Spec => []PictureAccurate
<1>1. Init => LostInv /\ (~lost => PictureInv)
  BY InitPicture DEF LostInv, Init, PictureInv, Inv
<1>2. LostInv /\ (~lost => PictureInv) /\ [Next]_vars => LostInv' /\ (~lost' => PictureInv')
  BY NextPicture
<1>3. (~lost => PictureInv) => PictureAccurate
  BY PictureSound
<1> QED
  BY <1>1, <1>2, <1>3, PTL DEF Spec
=============================================================================
