---------------------------- MODULE ChanJoinProofs ----------------------------
(* Proofs about ChanJoin and the two modules that are checked with it, for any *)
(* set of modules that ask for the channel, any number of tries and any bound. *)
EXTENDS MCChanJoin, TLAPS

(* An entry that waits for the login is of a channel the bot is not in, and    *)
(* only until the login: JOINs are sent from then on.                          *)
LoginJoins ==
    /\ known /\ state = "JOIN_LATER" => ~channel /\ link # "up"
    /\ link = "up" => ready_to_join

(* Only a module that asked has a ref, and only as long as it was not refused. *)
RefsWanted == refs \subseteq wants /\ \A r \in refs : told[r] # "error"

(* The inductive invariant of chanjoin's entry.                                *)
JoinInv == ChanJoinSound /\ LoginJoins /\ RefsWanted

(* The types of what lies outside of the entry.                                *)
WorldOK ==
    /\ ready_to_join \in BOOLEAN
    /\ link \in {"up", "login", "down"}
    /\ irc \in {"absent", "burst", "complete"}
    /\ out \in Seq({"JOIN", "PART"})
    /\ link = "up" => ready_to_join

\* Queues of lines stay queues of lines.
LEMMA SeqFacts ==
    ASSUME NEW q \in Seq({"JOIN", "PART"})
    PROVE  /\ q # <<>> => Tail(q) \in Seq({"JOIN", "PART"})
           /\ \A c \in {"JOIN", "PART"} : Append(q, c) \in Seq({"JOIN", "PART"})
           /\ <<>> \in Seq({"JOIN", "PART"})
OBVIOUS

(* Nobody has asked.                                                           *)
LEMMA JoinInitInv == Init => JoinInv
<1> SUFFICES ASSUME Init PROVE JoinInv
  OBVIOUS
<1> USE ChanJoinAssumption
<1>1. TypeOK
  <2>1. /\ known \in BOOLEAN /\ channel \in BOOLEAN /\ timeout \in BOOLEAN
        /\ ready_to_join \in BOOLEAN
    BY DEF Init
  <2>2. told \in [Ref -> {"nothing", "success", "error"}] /\ out \in Seq({"JOIN", "PART"})
    BY DEF Init
  <2> QED
    BY <2>1, <2>2 DEF Init, TypeOK, State
<1>2. NothingDangles /\ Watched /\ TriesBounded /\ ToldWhenJoined /\ ToldWhenLost
  BY DEF Init, NothingDangles, Watched, TriesBounded, ToldWhenJoined, ToldWhenLost
<1>3. LoginJoins /\ RefsWanted
  BY DEF Init, LoginJoins, RefsWanted
<1> QED
  BY <1>1, <1>2, <1>3 DEF JoinInv, ChanJoinSound, EntrySound, ModulesTold

(* Giving up frees the entry with all its timers and tells all its refs.       *)
LEMMA GiveUpInv ==
    ASSUME JoinInv, give_up, WorldOK', UNCHANGED wants
    PROVE  JoinInv'
<1> USE ChanJoinAssumption DEF JoinInv, ChanJoinSound, EntrySound, ModulesTold
<1>1. /\ known' = FALSE /\ state' = "NONE" /\ channel' = FALSE /\ tries' = 0 /\ refs' = {}
      /\ timeout' = FALSE /\ rejoins' = 0 /\ joined' = {}
      /\ told' = [r \in Ref |-> IF r \in refs THEN "error" ELSE told[r]]
  BY DEF give_up, chanjoin_free
<1>2. TypeOK'
  <2>1. known' \in BOOLEAN /\ channel' \in BOOLEAN /\ timeout' \in BOOLEAN
    BY <1>1
  <2>2. told' \in [Ref -> {"nothing", "success", "error"}]
    BY <1>1 DEF TypeOK
  <2> QED
    BY <1>1, <2>1, <2>2 DEF TypeOK, State, WorldOK
<1>3. NothingDangles' /\ Watched' /\ TriesBounded' /\ ToldWhenJoined'
  BY <1>1 DEF NothingDangles, Watched, TriesBounded, ToldWhenJoined
<1>4. ToldWhenLost'
  BY <1>1 DEF TypeOK, ToldWhenLost
<1>5. LoginJoins' /\ RefsWanted'
  BY <1>1 DEF LoginJoins, RefsWanted, WorldOK
<1> QED
  BY <1>2, <1>3, <1>4, <1>5

(* The channel is gone: another attempt will follow, or everyone is told.      *)
LEMMA DelHookInv ==
    ASSUME JoinInv, channel_del_hook, WorldOK', UNCHANGED wants,
           irc' = "absent", rejoins < MaxRejoins, link' = "up" => link = "up"
    PROVE  JoinInv'
<1> USE ChanJoinAssumption DEF JoinInv, ChanJoinSound, EntrySound, ModulesTold
<1>1. CASE ~known /\ UNCHANGED <<entry, timers, told>>
  <2>1. UNCHANGED <<known, state, channel, tries, refs, timeout, rejoins, joined, told>>
    BY <1>1 DEF entry, timers
  <2>2. TypeOK' /\ NothingDangles' /\ Watched' /\ TriesBounded'
    BY <1>1, <2>1 DEF TypeOK, WorldOK, NothingDangles, Watched, TriesBounded
  <2>3. ToldWhenJoined' /\ ToldWhenLost' /\ LoginJoins' /\ RefsWanted'
    BY <1>1, <2>1 DEF ToldWhenJoined, ToldWhenLost, LoginJoins, RefsWanted, NothingDangles, WorldOK
  <2> QED
    BY <2>2, <2>3
<1>2. CASE known /\ tries + 1 >= MaxTries /\ give_up
  BY <1>2, GiveUpInv
<1>3. CASE /\ known
           /\ channel' = FALSE
           /\ tries' = tries + 1
           /\ tries' < MaxTries
           /\ rejoins' = rejoins + 1
           /\ UNCHANGED <<known, state, refs, timeout, joined, told>>
  <2>1. TypeOK'
    <3>1. channel' \in BOOLEAN
      BY <1>3
    <3>2. rejoins' \in 0 .. MaxRejoins /\ tries' \in Nat
      BY <1>3, MaxRejoins \in Nat DEF TypeOK
    <3> QED
      BY <1>3, <3>1, <3>2 DEF TypeOK, WorldOK
  <2>2. NothingDangles' /\ TriesBounded'
    BY <1>3 DEF TypeOK, NothingDangles, TriesBounded
  <2>3. LoginJoins' /\ RefsWanted'
    BY <1>3 DEF LoginJoins, RefsWanted, WorldOK
  <2>4. Watched'
    <3>1. rejoins' > 0
      BY <1>3 DEF TypeOK
    <3> QED
      BY <1>3, <2>3, <3>1 DEF Watched, LoginJoins
  <2>5. ToldWhenJoined' /\ ToldWhenLost'
    BY <1>3 DEF ToldWhenJoined, ToldWhenLost
  <2> QED
    BY <2>1, <2>2, <2>3, <2>4, <2>5
<1> QED
  BY <1>1, <1>2, <1>3 DEF channel_del_hook

(* The end of chanjoin_addchan, for a ref that was just added or was there:    *)
(* the channel is joined already, or will be, or a JOIN is under way.           *)
LEMMA AddchanJoinInv ==
    ASSUME JoinInv, NEW r \in Ref, addchan_join(r, Entry(r)),
           refs' = refs \cup {r}, wants' = wants \cup {r},
           told' = [told EXCEPT ![r] = "nothing"]
    PROVE  JoinInv'
<1> USE ChanJoinAssumption DEF JoinInv, ChanJoinSound, EntrySound, ModulesTold
<1> DEFINE e == Entry(r)
<1>1. /\ e.state \in State /\ e.tries \in Nat /\ e.tries <= MaxTries
      /\ e.channel \in BOOLEAN
      /\ e.channel => irc # "absent"
      /\ known => e.state = state /\ e.channel = channel /\ e.tries = tries
      /\ ~known => e.state = "NONE" /\ joined = {} /\ refs = {} /\ ~timeout /\ rejoins = 0
      /\ ~known /\ irc = "absent" => ~e.channel
  <2>1. CASE known
    <3>1. e.state = state /\ e.channel = channel /\ e.tries = tries
      BY <2>1 DEF Entry
    <3> QED
      BY <2>1, <3>1 DEF TypeOK, NothingDangles, TriesBounded
  <2>2. CASE ~known
    <3>1. e = Fresh(r)
      BY <2>2 DEF Entry
    <3>2. /\ e.state = "NONE" /\ e.channel = (irc # "absent")
          /\ e.tries \in Nat /\ e.tries <= MaxTries
      BY <3>1 DEF Fresh
    <3> QED
      BY <2>2, <3>2 DEF NothingDangles, State
  <2> QED
    BY <2>1, <2>2
<1> HIDE DEF e
<1>2. /\ known' = TRUE /\ channel' = e.channel /\ tries' = e.tries
      /\ UNCHANGED <<rejoins, ready_to_join, link, irc>>
  BY DEF addchan_join, world, e
<1>3. refs' \subseteq Ref /\ wants' \subseteq Ref /\ refs' # {} /\ r \in refs'
  BY DEF TypeOK
<1>4. told' \in [Ref -> {"nothing", "success", "error"}]
  BY DEF TypeOK
<1>5. ToldWhenLost'
  BY DEF TypeOK, ToldWhenLost
<1>6. RefsWanted'
  BY DEF TypeOK, RefsWanted
<1>7. TriesBounded'
  BY <1>1, <1>2 DEF TriesBounded
<1>8. CASE e.channel /\ state' = "JOINED" /\ joined' = joined \cup {r} /\ UNCHANGED <<out, timeout>>
  <2>1. TypeOK'
    <3>1. channel' \in BOOLEAN /\ known' \in BOOLEAN
      BY <1>1, <1>2
    <3> QED
      BY <1>1, <1>2, <1>3, <1>4, <1>8, <3>1 DEF TypeOK, State
  <2>2. NothingDangles'
    BY <1>1, <1>2, <1>3, <1>8 DEF NothingDangles
  <2>3. Watched' /\ LoginJoins'
    BY <1>1, <1>2, <1>8 DEF Watched, LoginJoins
  <2>4. ToldWhenJoined'
    BY <1>1, <1>2, <1>8 DEF TypeOK, ToldWhenJoined
  <2> QED
    BY <1>5, <1>6, <1>7, <2>1, <2>2, <2>3, <2>4
<1>9. CASE ~e.channel
  <2>1. UNCHANGED joined
    BY <1>9 DEF addchan_join, e
  <2>2. /\ state' \in State /\ timeout' \in BOOLEAN /\ out' \in Seq({"JOIN", "PART"})
        /\ \/ state' = "JOIN_PENDING" /\ timeout' = TRUE
           \/ state' = "JOIN_LATER" /\ ~ready_to_join
           \/ known /\ state' = state /\ timeout' = timeout /\ state \in {"JOIN_PENDING", "REJOIN_PENDING"}
    <3>1. CASE e.state \notin {"JOIN_PENDING", "REJOIN_PENDING"} /\ ready_to_join
      <4>1. join
        BY <1>9, <3>1 DEF addchan_join, e
      <4>2. out \in Seq({"JOIN", "PART"})
        BY DEF TypeOK
      <4> QED
        BY <4>1, <4>2, SeqFacts DEF join, State
    <3>2. CASE e.state \notin {"JOIN_PENDING", "REJOIN_PENDING"} /\ ~ready_to_join
      BY <1>9, <3>2 DEF addchan_join, e, TypeOK, State
    <3>3. CASE e.state \in {"JOIN_PENDING", "REJOIN_PENDING"}
      <4>1. state' = e.state /\ UNCHANGED <<out, timeout>>
        BY <1>9, <3>3 DEF addchan_join, e
      <4> QED
        BY <1>1, <3>3, <4>1 DEF TypeOK
    <3> QED
      BY <3>1, <3>2, <3>3
  <2>3. TypeOK'
    <3>1. channel' \in BOOLEAN /\ known' \in BOOLEAN
      BY <1>1, <1>2
    <3> QED
      BY <1>1, <1>2, <1>3, <1>4, <2>1, <2>2, <3>1 DEF TypeOK
  <2>4. NothingDangles'
    BY <1>1, <1>2, <1>3, <1>9, <2>1 DEF NothingDangles
  <2>5. Watched' /\ LoginJoins'
    BY <1>1, <1>2, <1>9, <2>2 DEF Watched, LoginJoins
  <2>6. ToldWhenJoined'
    BY <1>2, <1>9 DEF ToldWhenJoined
  <2> QED
    BY <1>5, <1>6, <1>7, <2>3, <2>4, <2>5, <2>6
<1> QED
  BY <1>8, <1>9 DEF addchan_join, e

(* What modules call.                                                          *)
LEMMA ModulesInv ==
    ASSUME JoinInv, NEW r \in Ref,
           chanjoin_addchan(r) \/ reload_module(r) \/ chanjoin_delchan(r)
    PROVE  JoinInv'
<1> USE ChanJoinAssumption DEF JoinInv, ChanJoinSound, EntrySound, ModulesTold
<1>1. CASE chanjoin_addchan(r)
  BY <1>1, AddchanJoinInv DEF chanjoin_addchan
<1>2. CASE reload_module(r)
  <2>1. refs' = refs \cup {r} /\ wants' = wants \cup {r}
    BY <1>2 DEF reload_module, RefsWanted
  <2> QED
    BY <1>2, <2>1, AddchanJoinInv DEF reload_module
<1>3. CASE chanjoin_delchan(r)
  <2>1. wants' = wants \ {r} /\ UNCHANGED <<ready_to_join, link, irc, told>>
    BY <1>3 DEF chanjoin_delchan, world
  <2>2. CASE r \notin refs /\ UNCHANGED <<entry, timers, out>>
    <3>1. UNCHANGED <<known, state, channel, tries, refs, timeout, rejoins, joined, out>>
      BY <2>2 DEF entry, timers
    <3> QED
      BY <2>1, <2>2, <3>1 DEF TypeOK, NothingDangles, Watched, TriesBounded, ToldWhenJoined,
         ToldWhenLost, LoginJoins, RefsWanted
  <2>3. CASE /\ r \in refs /\ refs # {r}
             /\ refs' = refs \ {r}
             /\ joined' = joined \ {r}
             /\ UNCHANGED <<known, state, channel, tries, timeout, rejoins, out>>
    <3>1. refs' # {}
      BY <2>3
    <3> QED
      BY <2>1, <2>3, <3>1 DEF TypeOK, NothingDangles, Watched, TriesBounded, ToldWhenJoined,
         ToldWhenLost, LoginJoins, RefsWanted
  <2>4. CASE /\ refs = {r}
             /\ out' = IF state = "INACTIVE" THEN out ELSE Append(out, "PART")
             /\ chanjoin_free
    <3>1. /\ known' = FALSE /\ state' = "NONE" /\ channel' = FALSE /\ tries' = 0 /\ refs' = {}
          /\ timeout' = FALSE /\ rejoins' = 0 /\ joined' = {}
      BY <2>4 DEF chanjoin_free
    <3>2. out' \in Seq({"JOIN", "PART"})
      BY <2>4, SeqFacts DEF TypeOK
    <3>3. known' \in BOOLEAN /\ channel' \in BOOLEAN /\ timeout' \in BOOLEAN
      BY <3>1
    <3>4. TypeOK'
      BY <2>1, <3>1, <3>2, <3>3 DEF TypeOK, State
    <3>5. NothingDangles' /\ Watched' /\ TriesBounded' /\ ToldWhenJoined'
      BY <3>1 DEF NothingDangles, Watched, TriesBounded, ToldWhenJoined
    <3>6. ToldWhenLost' /\ LoginJoins' /\ RefsWanted'
      BY <2>1, <2>4, <3>1 DEF ToldWhenLost, LoginJoins, RefsWanted
    <3> QED
      BY <3>4, <3>5, <3>6
  <2> QED
    BY <1>3, <2>2, <2>3, <2>4 DEF chanjoin_delchan
<1> QED
  BY <1>1, <1>2, <1>3

(* chanjoin's timers: a JOIN that was not answered, success for a module that  *)
(* asked for a joined channel, and another attempt.                            *)
LEMMA TimersInv ==
    ASSUME JoinInv, Timers
    PROVE  JoinInv'
<1> USE ChanJoinAssumption DEF JoinInv, ChanJoinSound, EntrySound, ModulesTold
<1>1. CASE chanjoin_join_timeout
  <2>1. UNCHANGED <<ready_to_join, link, irc, out, wants>>
    BY <1>1 DEF chanjoin_join_timeout, world
  <2>2. CASE give_up
    BY <2>1, <2>2, GiveUpInv DEF TypeOK, WorldOK, LoginJoins
  <2>3. CASE /\ ~(state = "JOIN_PENDING" /\ ~channel)
             /\ timeout' = FALSE
             /\ UNCHANGED <<entry, rejoins, joined, told>>
    <3>1. UNCHANGED <<known, state, channel, tries, refs, rejoins, joined, told>> /\ timeout' \in BOOLEAN
      BY <2>3 DEF entry
    <3>2. TypeOK'
      BY <2>1, <3>1 DEF TypeOK
    <3>3. NothingDangles' /\ Watched' /\ TriesBounded' /\ ToldWhenJoined' /\ ToldWhenLost'
      BY <2>1, <2>3, <3>1 DEF NothingDangles, Watched, TriesBounded, ToldWhenJoined, ToldWhenLost
    <3>4. LoginJoins' /\ RefsWanted'
      BY <2>1, <3>1 DEF LoginJoins, RefsWanted
    <3> QED
      BY <3>2, <3>3, <3>4
  <2> QED
    BY <1>1, <2>2, <2>3 DEF chanjoin_join_timeout
<1>2. CASE chanjoin_addchan_tmr
  <2>1. PICK r \in joined :
          /\ joined' = joined \ {r}
          /\ \/ channel /\ told' = [told EXCEPT ![r] = "success"]
             \/ ~channel /\ UNCHANGED told
          /\ UNCHANGED <<entry, timeout, rejoins, world, out, wants>>
    BY <1>2 DEF chanjoin_addchan_tmr
  <2>2. UNCHANGED <<known, state, channel, tries, refs, timeout, rejoins, ready_to_join, link, irc,
                    out, wants>>
    BY <2>1 DEF entry, world
  <2>3. TypeOK'
    BY <2>1, <2>2 DEF TypeOK
  <2>4. NothingDangles' /\ Watched' /\ TriesBounded' /\ LoginJoins' /\ RefsWanted'
    BY <2>1, <2>2 DEF TypeOK, NothingDangles, Watched, TriesBounded, LoginJoins, RefsWanted
  <2>5. r \in refs /\ r \in Ref
    BY <2>1 DEF NothingDangles, TypeOK
  <2>6. ToldWhenJoined' /\ ToldWhenLost'
    BY <2>1, <2>2, <2>5 DEF TypeOK, ToldWhenJoined, ToldWhenLost
  <2> QED
    BY <2>3, <2>4, <2>6
<1>3. CASE chanjoin_rejoin_tmr
  <2>1. /\ UNCHANGED <<known, channel, tries, refs, timeout, joined, ready_to_join, link, irc, told, wants>>
        /\ rejoins > 0 /\ rejoins' = rejoins - 1
        /\ state' = "REJOIN_PENDING"
        /\ out' \in Seq({"JOIN", "PART"})
    BY <1>3, SeqFacts DEF chanjoin_rejoin_tmr, world, TypeOK
  <2>2. TypeOK'
    BY <2>1 DEF TypeOK, State
  <2>3. NothingDangles' /\ Watched' /\ TriesBounded' /\ LoginJoins' /\ RefsWanted'
    BY <2>1 DEF TypeOK, NothingDangles, Watched, TriesBounded, LoginJoins, RefsWanted
  <2>4. ToldWhenJoined' /\ ToldWhenLost'
    BY <2>1 DEF ToldWhenJoined, ToldWhenLost
  <2> QED
    BY <2>2, <2>3, <2>4
<1> QED
  BY <1>1, <1>2, <1>3 DEF Timers

(* Lines of the server and the hooks they call.                                *)
LEMMA ServerInv ==
    ASSUME JoinInv, Server
    PROVE  JoinInv'
<1> USE ChanJoinAssumption DEF JoinInv, ChanJoinSound, EntrySound, ModulesTold
<1>1. CASE ChannelDel
  <2>1. out' \in Seq({"JOIN", "PART"})
    BY <1>1, SeqFacts DEF ChannelDel, TypeOK
  <2>2. WorldOK'
    BY <1>1, <2>1 DEF ChannelDel, WorldOK, TypeOK, LoginJoins
  <2> QED
    BY <1>1, <2>2, DelHookInv DEF ChannelDel
<1>2. CASE Ignored
  <2>1. /\ UNCHANGED <<known, state, channel, tries, refs, timeout, rejoins, joined, ready_to_join,
                       link, irc, told, wants>>
        /\ out' \in Seq({"JOIN", "PART"})
    BY <1>2, SeqFacts DEF Ignored, entry, timers, world, TypeOK
  <2> QED
    BY <2>1 DEF TypeOK, NothingDangles, Watched, TriesBounded, ToldWhenJoined, ToldWhenLost,
       LoginJoins, RefsWanted
<1>3. CASE handle_join
  <2>1. /\ UNCHANGED <<known, state, channel, tries, refs, rejoins, joined, ready_to_join, link,
                       told, wants>>
        /\ out' \in Seq({"JOIN", "PART"})
        /\ irc' = "burst" /\ timeout' = FALSE
    BY <1>3, SeqFacts DEF handle_join, entry, TypeOK
  <2>2. timeout' \in BOOLEAN
    BY <2>1
  <2>3. TypeOK'
    BY <2>1, <2>2 DEF TypeOK
  <2>4. NothingDangles' /\ Watched' /\ TriesBounded'
    BY <2>1 DEF NothingDangles, Watched, TriesBounded
  <2>5. ToldWhenJoined' /\ ToldWhenLost' /\ LoginJoins' /\ RefsWanted'
    BY <2>1 DEF ToldWhenJoined, ToldWhenLost, LoginJoins, RefsWanted
  <2> QED
    BY <2>3, <2>4, <2>5
<1>4. CASE channel_complete_hook
  <2>1. /\ irc = "burst" /\ irc' = "complete"
        /\ UNCHANGED <<known, refs, timeout, rejoins, joined, ready_to_join, link, out, wants>>
    BY <1>4 DEF channel_complete_hook, timers
  <2>2. CASE known
    <3>1. /\ channel' = TRUE /\ state' = "JOINED" /\ tries' = 0
          /\ told' = [r \in Ref |-> IF r \in refs THEN "success" ELSE told[r]]
      BY <1>4, <2>2 DEF channel_complete_hook, TellSuccess
    <3>2. channel' \in BOOLEAN
      BY <3>1
    <3>3. TypeOK'
      BY <2>1, <3>1, <3>2 DEF TypeOK, State
    <3>4. NothingDangles' /\ Watched' /\ TriesBounded' /\ LoginJoins' /\ RefsWanted'
      BY <2>1, <2>2, <3>1 DEF TypeOK, NothingDangles, Watched, TriesBounded, LoginJoins, RefsWanted
    <3>5. ToldWhenJoined' /\ ToldWhenLost'
      BY <2>1, <3>1 DEF TypeOK, ToldWhenJoined, ToldWhenLost
    <3> QED
      BY <3>3, <3>4, <3>5
  <2>3. CASE ~known
    <3>1. UNCHANGED <<state, channel, tries, told>>
      BY <1>4, <2>3 DEF channel_complete_hook
    <3>2. TypeOK'
      BY <2>1, <3>1 DEF TypeOK
    <3> QED
      BY <2>1, <2>3, <3>1, <3>2 DEF NothingDangles, Watched, TriesBounded, ToldWhenJoined,
         ToldWhenLost, LoginJoins, RefsWanted
  <2> QED
    BY <2>2, <2>3
<1>5. CASE num_refused
  <2>1. /\ UNCHANGED <<ready_to_join, link, irc, wants>>
        /\ out' \in Seq({"JOIN", "PART"})
        /\ irc = "absent" /\ rejoins < MaxRejoins
    BY <1>5, SeqFacts DEF num_refused, world, TypeOK
  <2>2. CASE ~known /\ UNCHANGED <<entry, timers, told>>
    <3>1. UNCHANGED <<known, state, channel, tries, refs, timeout, rejoins, joined, told>>
      BY <2>2 DEF entry, timers
    <3> QED
      BY <2>1, <3>1 DEF TypeOK, NothingDangles, Watched, TriesBounded, ToldWhenJoined,
         ToldWhenLost, LoginJoins, RefsWanted
  <2>3. CASE give_up
    BY <2>1, <2>3, GiveUpInv DEF TypeOK, WorldOK, LoginJoins
  <2>4. CASE /\ known /\ HasCommand /\ tries + 1 <= MaxTries
             /\ tries' = tries + 1
             /\ state' = "INACTIVE"
             /\ rejoins' = rejoins + 1
             /\ UNCHANGED <<known, channel, refs, timeout, joined, told>>
    <3>1. rejoins' \in 0 .. MaxRejoins /\ rejoins' > 0 /\ tries' \in Nat
      BY <2>1, <2>4, MaxRejoins \in Nat DEF TypeOK
    <3>2. TypeOK'
      BY <2>1, <2>4, <3>1 DEF TypeOK, State
    <3>3. NothingDangles' /\ Watched' /\ TriesBounded' /\ LoginJoins' /\ RefsWanted'
      BY <2>1, <2>4, <3>1 DEF TypeOK, NothingDangles, Watched, TriesBounded, LoginJoins, RefsWanted
    <3>4. ToldWhenJoined' /\ ToldWhenLost'
      BY <2>1, <2>4 DEF ToldWhenJoined, ToldWhenLost
    <3> QED
      BY <3>2, <3>3, <3>4
  <2> QED
    BY <1>5, <2>2, <2>3, <2>4 DEF num_refused
<1> QED
  BY <1>1, <1>2, <1>3, <1>4, <1>5 DEF Server

(* The connection goes and comes.                                              *)
LEMMA LinkInv ==
    ASSUME JoinInv, Link
    PROVE  JoinInv'
<1> USE ChanJoinAssumption DEF JoinInv, ChanJoinSound, EntrySound, ModulesTold
<1>1. CASE irc_disconnected
  <2>1. /\ link' = "down" /\ out' = <<>> /\ ready_to_join' = FALSE
        /\ tries' = 0 /\ channel' = FALSE /\ state' = IF known THEN "JOIN_LATER" ELSE state
        /\ timeout' = FALSE /\ joined' = {} /\ rejoins' = 0
        /\ UNCHANGED <<known, refs, irc, told, wants>>
    BY <1>1 DEF irc_disconnected
  <2>2. ready_to_join' \in BOOLEAN /\ channel' \in BOOLEAN /\ timeout' \in BOOLEAN
    BY <2>1
  <2>3. rejoins' \in 0 .. MaxRejoins
    BY <2>1, MaxRejoins \in Nat
  <2>4. out' \in Seq({"JOIN", "PART"}) /\ state' \in State
    BY <2>1, SeqFacts DEF TypeOK, State
  <2>5. TypeOK'
    BY <2>1, <2>2, <2>3, <2>4 DEF TypeOK
  <2>6. NothingDangles' /\ Watched' /\ TriesBounded' /\ LoginJoins' /\ RefsWanted'
    BY <2>1 DEF NothingDangles, Watched, TriesBounded, LoginJoins, RefsWanted
  <2>7. ToldWhenJoined' /\ ToldWhenLost'
    BY <2>1 DEF ToldWhenJoined, ToldWhenLost
  <2> QED
    BY <2>5, <2>6, <2>7
<1>2. CASE irc_reconnect
  <2>1. /\ link' = "login" /\ out' = <<>> /\ irc' = "absent" /\ rejoins < MaxRejoins
        /\ UNCHANGED <<ready_to_join, wants>>
    BY <1>2 DEF irc_reconnect
  <2>2. WorldOK'
    BY <2>1, SeqFacts DEF WorldOK, TypeOK
  <2>3. CASE irc # "absent"
    BY <1>2, <2>1, <2>2, <2>3, DelHookInv DEF irc_reconnect
  <2>4. CASE irc = "absent"
    <3>1. UNCHANGED <<known, state, channel, tries, refs, timeout, rejoins, joined, told>>
      BY <1>2, <2>4 DEF irc_reconnect, entry, timers
    <3>2. TypeOK'
      BY <2>1, <2>2, <3>1 DEF TypeOK, WorldOK
    <3>3. NothingDangles' /\ Watched' /\ TriesBounded' /\ LoginJoins' /\ RefsWanted'
      BY <2>1, <2>4, <3>1 DEF NothingDangles, Watched, TriesBounded, LoginJoins, RefsWanted
    <3>4. ToldWhenJoined' /\ ToldWhenLost'
      BY <2>1, <3>1 DEF ToldWhenJoined, ToldWhenLost
    <3> QED
      BY <3>2, <3>3, <3>4
  <2> QED
    BY <2>3, <2>4
<1>3. CASE perform_done
  <2>1. /\ link' = "up" /\ ready_to_join' = TRUE
        /\ UNCHANGED <<known, channel, tries, refs, rejoins, joined, irc, told, wants>>
    BY <1>3 DEF perform_done
  <2>2. ready_to_join' \in BOOLEAN
    BY <2>1
  <2>3. CASE known /\ state = "JOIN_LATER" /\ ~channel
    <3>1. state' = "JOIN_PENDING" /\ timeout' = TRUE /\ out' \in Seq({"JOIN", "PART"})
      BY <1>3, <2>3, SeqFacts DEF perform_done, join, TypeOK
    <3>2. timeout' \in BOOLEAN
      BY <3>1
    <3>3. TypeOK'
      BY <2>1, <2>2, <3>1, <3>2 DEF TypeOK, State
    <3>4. NothingDangles' /\ Watched' /\ TriesBounded' /\ LoginJoins' /\ RefsWanted'
      BY <2>1, <2>3, <3>1 DEF NothingDangles, Watched, TriesBounded, LoginJoins, RefsWanted
    <3>5. ToldWhenJoined' /\ ToldWhenLost'
      BY <2>1 DEF ToldWhenJoined, ToldWhenLost
    <3> QED
      BY <3>3, <3>4, <3>5
  <2>4. CASE ~(known /\ state = "JOIN_LATER" /\ ~channel)
    <3>1. UNCHANGED <<state, timeout, out>>
      BY <1>3, <2>4 DEF perform_done
    <3>2. TypeOK'
      BY <2>1, <2>2, <3>1 DEF TypeOK
    <3>3. NothingDangles' /\ Watched' /\ TriesBounded' /\ LoginJoins' /\ RefsWanted'
      BY <2>1, <2>4, <3>1 DEF NothingDangles, Watched, TriesBounded, LoginJoins, RefsWanted
    <3>4. ToldWhenJoined' /\ ToldWhenLost'
      BY <2>1, <3>1 DEF ToldWhenJoined, ToldWhenLost
    <3> QED
      BY <3>2, <3>3, <3>4
  <2> QED
    BY <2>3, <2>4
<1> QED
  BY <1>1, <1>2, <1>3 DEF Link

(* One case per kind of step.                                                  *)
LEMMA JoinNextInv == JoinInv /\ [Next]_vars => JoinInv'
<1> SUFFICES ASSUME JoinInv, [Next]_vars PROVE JoinInv'
  OBVIOUS
<1>1. CASE Next
  BY <1>1, ModulesInv, TimersInv, ServerInv, LinkInv DEF Next, Modules
<1>2. CASE UNCHANGED vars
  BY <1>2 DEF vars, entry, timers, world, JoinInv, ChanJoinSound, EntrySound, ModulesTold, TypeOK,
     NothingDangles, Watched, TriesBounded, ToldWhenJoined, ToldWhenLost, LoginJoins, RefsWanted
<1> QED
  BY <1>1, <1>2

(* For any modules, any number of tries: nothing dangles, something goes on    *)
(* with every channel that is asked for, and every module is told what became  *)
(* of it, as long as modules only call chanjoin.                               *)
THEOREM SpecJoinInv == Spec => []JoinInv
BY JoinInitInv, JoinNextInv, PTL DEF Spec

-----------------------------------------------------------------------------
(* The refinement: what a module was told and may rely on.                     *)

(* Under the mapping, those whom the service holds are chanjoin's refs.         *)
LEMMA HeldAreRefs ==
    ASSUME JoinInv
    PROVE  Service!Held = refs
BY DEF Service!Held, JoinInv, ChanJoinSound, EntrySound, TypeOK

(* Giving up is the service's refusal, whether the bot leaves or was not there. *)
LEMMA GiveUpRefuses ==
    ASSUME JoinInv, give_up, known, UNCHANGED wants, irc' \in {irc, "absent"}
    PROVE  Service!Refuse
<1>1. Service!Held = refs /\ refs # {}
  BY HeldAreRefs DEF JoinInv, ChanJoinSound, EntrySound, NothingDangles
<1>2. refs' = {} /\ told' = [r \in Ref |-> IF r \in refs THEN "error" ELSE told[r]]
  BY DEF give_up, chanjoin_free
<1>3. Service!Become(refs, "refused")
  BY <1>2 DEF Service!Become, JoinInv, RefsWanted
<1>4. (irc # "absent")' \in {irc # "absent", FALSE}
  OBVIOUS
<1> QED
  BY <1>1, <1>3, <1>4 DEF Service!Refuse

(* The channel goes: a departure, or a refusal to all.                         *)
LEMMA DelHookRefines ==
    ASSUME JoinInv, channel_del_hook, UNCHANGED wants, irc # "absent", irc' = "absent"
    PROVE  Service!Depart \/ Service!Refuse
<1>1. CASE known /\ give_up
  BY <1>1, GiveUpRefuses
<1>2. CASE UNCHANGED <<refs, told>>
  BY <1>2 DEF Service!Depart
<1> QED
  BY <1>1, <1>2 DEF channel_del_hook, entry

(* What modules call.                                                          *)
LEMMA ModulesRefine ==
    ASSUME JoinInv, NEW r \in Ref,
           chanjoin_addchan(r) \/ reload_module(r) \/ chanjoin_delchan(r)
    PROVE  Service!Next \/ UNCHANGED Service!serviceVars
<1> USE DEF JoinInv, ChanJoinSound, EntrySound, TypeOK, RefsWanted
<1>1. CASE chanjoin_addchan(r)
  <2>1. /\ r \notin refs /\ refs' = refs \cup {r} /\ wants' = wants \cup {r}
        /\ told' = [told EXCEPT ![r] = "nothing"] /\ irc' = irc
    BY <1>1 DEF chanjoin_addchan, addchan_join, world
  <2>2. r \notin Service!Held
    BY <2>1, HeldAreRefs
  <2>3. Service!Become({r}, "waits")
    BY <2>1 DEF Service!Become
  <2>4. Service!Ask(r)
    BY <2>1, <2>2, <2>3 DEF Service!Ask
  <2> QED
    BY <2>4 DEF Service!Next
<1>2. CASE reload_module(r)
  <2>1. r \in refs /\ told' = [told EXCEPT ![r] = "nothing"] /\ UNCHANGED <<refs, wants, irc>>
    BY <1>2 DEF reload_module, addchan_join, world
  <2>2. Service!Become({r}, "waits")
    BY <2>1 DEF Service!Become
  <2>3. Service!AskAgain(r)
    BY <2>1, <2>2, HeldAreRefs DEF Service!AskAgain
  <2> QED
    BY <2>3 DEF Service!Next
<1>3. CASE chanjoin_delchan(r)
  <2>1. /\ r \in wants /\ wants' = wants \ {r} /\ UNCHANGED <<irc, told>>
        /\ refs' = refs \ {r}
    BY <1>3 DEF chanjoin_delchan, world, entry, chanjoin_free
  <2>2. Service!Become({r}, "none")
    BY <2>1 DEF Service!Become
  <2>3. Service!Leave(r)
    BY <2>1, <2>2 DEF Service!Leave
  <2> QED
    BY <2>3 DEF Service!Next
<1> QED
  BY <1>1, <1>2, <1>3

(* Success is told while the bot is in the channel; another attempt is nothing *)
(* the service speaks of.                                                      *)
LEMMA TimersRefine ==
    ASSUME JoinInv, Timers
    PROVE  Service!Next \/ UNCHANGED Service!serviceVars
<1> USE DEF JoinInv, ChanJoinSound, EntrySound
<1>1. CASE chanjoin_join_timeout
  <2>1. UNCHANGED <<irc, wants>>
    BY <1>1 DEF chanjoin_join_timeout, world
  <2>2. CASE give_up
    <3>1. known
      BY <1>1 DEF chanjoin_join_timeout, NothingDangles
    <3> QED
      BY <2>1, <2>2, <3>1, GiveUpRefuses DEF Service!Next
  <2>3. CASE UNCHANGED <<refs, told>>
    BY <2>1, <2>3 DEF Service!serviceVars
  <2> QED
    BY <1>1, <2>2, <2>3 DEF chanjoin_join_timeout, entry
<1>2. CASE chanjoin_addchan_tmr
  <2>1. PICK r \in joined :
          /\ \/ channel /\ told' = [told EXCEPT ![r] = "success"]
             \/ ~channel /\ UNCHANGED told
          /\ UNCHANGED <<refs, irc, wants>>
    BY <1>2 DEF chanjoin_addchan_tmr, entry, world
  <2>2. r \in refs /\ r \in Service!Held /\ (channel => irc # "absent")
    BY HeldAreRefs DEF NothingDangles
  <2>3. CASE channel /\ told' = [told EXCEPT ![r] = "success"]
    <3>1. Service!Become({r}, "in")
      BY <2>1, <2>2, <2>3 DEF Service!Become, TypeOK
    <3>2. Service!Welcome
      BY <2>1, <2>2, <2>3, <3>1 DEF Service!Welcome
    <3> QED
      BY <3>2 DEF Service!Next
  <2>4. CASE UNCHANGED told
    BY <2>1, <2>4 DEF Service!serviceVars
  <2> QED
    BY <2>1, <2>3, <2>4
<1>3. CASE chanjoin_rejoin_tmr
  BY <1>3 DEF chanjoin_rejoin_tmr, world, Service!serviceVars
<1> QED
  BY <1>1, <1>2, <1>3 DEF Timers

(* The bot comes, is in the channel, and goes.                                 *)
LEMMA ServerRefines ==
    ASSUME JoinInv, Server
    PROVE  Service!Next \/ UNCHANGED Service!serviceVars
<1> USE DEF JoinInv, ChanJoinSound, EntrySound
<1>1. CASE ChannelDel
  BY <1>1, DelHookRefines DEF ChannelDel, Service!Next
<1>2. CASE Ignored
  BY <1>2 DEF Ignored, entry, world, Service!serviceVars
<1>3. CASE handle_join
  BY <1>3 DEF handle_join, entry, Service!Next, Service!Arrive
<1>4. CASE channel_complete_hook
  <2>1. irc = "burst" /\ irc' = "complete" /\ UNCHANGED <<refs, wants>>
    BY <1>4 DEF channel_complete_hook
  <2>2. CASE known
    <3>1. told' = [r \in Ref |-> IF r \in refs THEN "success" ELSE told[r]]
      BY <1>4, <2>2 DEF channel_complete_hook, TellSuccess
    <3>2. Service!Become(refs, "in")
      BY <2>1, <3>1 DEF Service!Become, TypeOK
    <3>3. Service!Welcome
      BY <2>1, <3>2, HeldAreRefs DEF Service!Welcome
    <3> QED
      BY <3>3 DEF Service!Next
  <2>3. CASE ~known
    BY <1>4, <2>1, <2>3 DEF channel_complete_hook, Service!serviceVars
  <2> QED
    BY <2>2, <2>3
<1>5. CASE num_refused
  <2>1. UNCHANGED <<irc, wants>>
    BY <1>5 DEF num_refused, world
  <2>2. CASE known /\ give_up
    BY <2>1, <2>2, GiveUpRefuses DEF Service!Next
  <2>3. CASE UNCHANGED <<refs, told>>
    BY <2>1, <2>3 DEF Service!serviceVars
  <2> QED
    BY <1>5, <2>2, <2>3 DEF num_refused, entry
<1> QED
  BY <1>1, <1>2, <1>3, <1>4, <1>5 DEF Server

(* Of the connection the service sees that the channel of the old one is gone. *)
LEMMA LinkRefines ==
    ASSUME JoinInv, Link
    PROVE  Service!Next \/ UNCHANGED Service!serviceVars
<1>1. CASE irc_disconnected
  BY <1>1 DEF irc_disconnected, Service!serviceVars
<1>2. CASE irc_reconnect
  <2>1. CASE irc # "absent"
    BY <1>2, <2>1, DelHookRefines DEF irc_reconnect, Service!Next
  <2>2. CASE irc = "absent"
    BY <1>2, <2>2 DEF irc_reconnect, entry, Service!serviceVars
  <2> QED
    BY <2>1, <2>2
<1>3. CASE perform_done
  BY <1>3 DEF perform_done, Service!serviceVars
<1> QED
  BY <1>1, <1>2, <1>3 DEF Link

(* chanjoin implements JoinService: success is told only to those who have     *)
(* asked and while the bot is in the channel, and a refusal is told to all     *)
(* who have, and is the last they hear.                                        *)
THEOREM SpecImplementsJoinService == Spec => ImplementsJoinService
<1>1. Init => Service!Init
  BY DEF Init, Service!Init
<1>2. JoinInv /\ [Next]_vars => [Service!Next]_(Service!serviceVars)
  <2> SUFFICES ASSUME JoinInv, [Next]_vars
               PROVE  Service!Next \/ UNCHANGED Service!serviceVars
    OBVIOUS
  <2>1. CASE Next
    BY <2>1, ModulesRefine, TimersRefine, ServerRefines, LinkRefines DEF Next, Modules
  <2>2. CASE UNCHANGED vars
    BY <2>2 DEF vars, entry, world, Service!serviceVars
  <2> QED
    BY <2>1, <2>2
<1> QED
  BY <1>1, <1>2, SpecJoinInv, PTL DEF Spec, ImplementsJoinService, Service!Spec

-----------------------------------------------------------------------------
(* A spy of chanspy as a client of chanjoin.                                   *)

(* The ref in chanjoin and whom it calls: a record that is gone, or code that  *)
(* is, only after an inactive spy was deleted; no function only in a reload    *)
(* that will ask again.                                                        *)
RefCalls ==
    /\ ctx = "none" <=> Spy \notin refs
    /\ ctx \in {"old", "unloaded"} => "left" \in mishaps
    /\ ctx = "reloaded" => \/ "left" \in mishaps
                           \/ phase = "reloading" /\ saved.there
    /\ ctx = "spy" => spy.there

(* The inactive copy in the database is of the same kind, and there is no spy   *)
(* without the module.                                                         *)
SpyRecords ==
    /\ saved \in [there : BOOLEAN, flags : Flags \cup {{}}, active : BOOLEAN]
    /\ spy.there => phase = "loaded"

SpyInv ==
    /\ csTypeOK /\ SpyRecords /\ RefCalls
    /\ ActiveHasRef /\ InactiveWasTold /\ ReloadKeeps /\ NoCallToNowhere

(* What a step of chanjoin's own tells a ref: success while it keeps it, or an *)
(* error when everyone loses theirs.                                           *)
LEMMA JoinStepTells ==
    ASSUME JoinInv, Timers \/ Server \/ Link, NEW r \in Ref
    PROVE  \/ /\ refs' = refs
              /\ \/ told'[r] = told[r]
                 \/ r \in refs /\ told'[r] = "success"
           \/ /\ refs' = {}
              /\ told'[r] = IF r \in refs THEN "error" ELSE told[r]
<1> USE DEF JoinInv, ChanJoinSound, EntrySound, TypeOK
<1>1. CASE give_up
  BY <1>1 DEF give_up, chanjoin_free
<1>2. CASE UNCHANGED <<refs, told>>
  BY <1>2
<1>3. channel_del_hook => give_up \/ UNCHANGED <<refs, told>>
  BY DEF channel_del_hook, entry
<1>4. CASE Timers
  <2>1. CASE chanjoin_join_timeout
    BY <1>1, <1>2, <2>1 DEF chanjoin_join_timeout, entry
  <2>2. CASE chanjoin_addchan_tmr
    BY <2>2 DEF chanjoin_addchan_tmr, entry, NothingDangles
  <2>3. CASE chanjoin_rejoin_tmr
    BY <1>2, <2>3 DEF chanjoin_rejoin_tmr
  <2> QED
    BY <1>4, <2>1, <2>2, <2>3 DEF Timers
<1>5. CASE Server
  <2>1. CASE ChannelDel
    BY <1>1, <1>2, <1>3, <2>1 DEF ChannelDel
  <2>2. CASE Ignored \/ handle_join
    BY <1>2, <2>2 DEF Ignored, handle_join, entry
  <2>3. CASE channel_complete_hook
    BY <2>3 DEF channel_complete_hook, TellSuccess
  <2>4. CASE num_refused
    BY <1>1, <1>2, <2>4 DEF num_refused, entry
  <2> QED
    BY <1>5, <2>1, <2>2, <2>3, <2>4 DEF Server
<1>6. CASE Link
  <2>1. CASE irc_disconnected \/ perform_done
    BY <1>2, <2>1 DEF irc_disconnected, perform_done
  <2>2. CASE irc_reconnect
    BY <1>1, <1>2, <1>3, <2>2 DEF irc_reconnect, entry
  <2> QED
    BY <1>6, <2>1, <2>2 DEF Link
<1> QED
  BY <1>4, <1>5, <1>6

(* Another module's call neither gives nor takes a ref of the spy's.           *)
LEMMA OthersKeep ==
    ASSUME NEW r \in Ref \ {Spy},
           chanjoin_addchan(r) \/ reload_module(r) \/ chanjoin_delchan(r), JoinInv
    PROVE  (Spy \in refs' <=> Spy \in refs) /\ told'[Spy] = told[Spy]
<1> USE ChanspyAssumption DEF JoinInv, ChanJoinSound, EntrySound, TypeOK
<1>1. CASE chanjoin_addchan(r)
  BY <1>1 DEF chanjoin_addchan
<1>2. CASE reload_module(r)
  BY <1>2 DEF reload_module
<1>3. CASE chanjoin_delchan(r)
  BY <1>3 DEF chanjoin_delchan, entry, chanjoin_free
<1> QED
  BY <1>1, <1>2, <1>3

(* chanspy changes chanjoin's state by chanjoin's own steps only.              *)
LEMMA SpyStepsAreJoinSteps == csNext => [Next]_vars
<1> SUFFICES ASSUME csNext PROVE Next \/ UNCHANGED vars
  OBVIOUS
<1> USE ChanspyAssumption
<1>1. joinVars' = joinVars => UNCHANGED vars
  BY DEF joinVars, vars
<1>2. chanjoin_addchan(Spy) \/ reload_module(Spy) \/ chanjoin_delchan(Spy) => Next
  BY DEF Next, Modules
<1>3. spy_join => Next \/ UNCHANGED vars
  BY <1>1, <1>2 DEF spy_join
<1>4. \A left : spy_free(left) => Next \/ UNCHANGED vars
  BY <1>1, <1>2 DEF spy_free
<1>5. CASE JoinStep \/ OtherModule
  BY <1>5 DEF JoinStep, OtherModule, Next, Modules
<1>6. CASE chanspy_add \/ spy_db_read
  BY <1>1, <1>3, <1>6 DEF chanspy_add, spy_db_read, spy_add
<1>7. CASE chanspy_rejoin
  BY <1>2, <1>7 DEF chanspy_rejoin
<1>8. CASE chanspy_del \/ \E reloading_module \in BOOLEAN : chanspy_fini(reloading_module)
  BY <1>1, <1>4, <1>8 DEF chanspy_del, chanspy_fini
<1>9. CASE ChannelEvent \/ chanspy_db_interval
  BY <1>1, <1>9 DEF ChannelEvent, chanspy_db_interval
<1> QED
  BY <1>5, <1>6, <1>7, <1>8, <1>9 DEF csNext

Record == [there : BOOLEAN, flags : Flags \cup {{}}, active : BOOLEAN]

\* An empty slot is a record of the right type.
LEMMA NoSpyRecord == NoSpy \in Record /\ NoSpy.there = FALSE /\ NoSpy.flags = {} /\ NoSpy.active = FALSE
BY DEF NoSpy, Record

(* There is no spy.                                                            *)
LEMMA SpyInitInv == csInit => SpyInv
<1> SUFFICES ASSUME csInit PROVE SpyInv
  OBVIOUS
<1>1. /\ spy = NoSpy /\ ctx = "none" /\ phase = "loaded" /\ saved = NoSpy
      /\ relayed = {} /\ mishaps = {} /\ refs = {}
  BY DEF csInit, Init
<1>2. csTypeOK /\ SpyRecords
  BY <1>1, NoSpyRecord DEF csTypeOK, SpyRecords, Record
<1>3. RefCalls
  BY <1>1 DEF RefCalls
<1>4. ActiveHasRef /\ InactiveWasTold /\ ReloadKeeps /\ NoCallToNowhere
  BY <1>1, NoSpyRecord DEF ActiveHasRef, InactiveWasTold, ReloadKeeps, NoCallToNowhere
<1> QED
  BY <1>2, <1>3, <1>4 DEF SpyInv

(* chanjoin calls the spy back: while the module is loaded the function is     *)
(* there, unless an inactive spy has left its ref.                             *)
LEMMA JoinStepSpyInv ==
    ASSUME JoinInv, SpyInv, phase # "reloading", JoinStep
    PROVE  SpyInv'
<1> USE ChanspyAssumption
<1>1. /\ UNCHANGED <<phase, saved, relayed>>
      /\ ctx' = IF Spy \in refs' THEN ctx ELSE "none"
  BY DEF JoinStep
<1>2. \/ /\ refs' = refs
         /\ \/ told'[Spy] = told[Spy]
            \/ Spy \in refs /\ told'[Spy] = "success"
      \/ /\ refs' = {}
         /\ told'[Spy] = IF Spy \in refs THEN "error" ELSE told[Spy]
  BY JoinStepTells DEF JoinStep
<1>3. Spy \in refs => told[Spy] # "error"
  BY DEF JoinInv, RefsWanted
<1>4. CASE Spy \in refs /\ told'[Spy] # told[Spy] /\ ctx = "spy"
  <2>1. spy' = [spy EXCEPT !.active = told'[Spy] = "success"] /\ UNCHANGED mishaps
    BY <1>4 DEF JoinStep, cj_told
  <2>2. /\ spy' \in Record /\ spy'.there = spy.there /\ spy'.flags = spy.flags
        /\ spy'.active = (told'[Spy] = "success")
    BY <2>1 DEF SpyInv, csTypeOK, Record
  <2>3. csTypeOK'
    BY <1>1, <2>1, <2>2 DEF SpyInv, csTypeOK, Record
  <2>4. SpyRecords' /\ RefCalls'
    BY <1>1, <1>2, <2>1, <2>2 DEF SpyInv, SpyRecords, RefCalls
  <2>5. ActiveHasRef'
    BY <1>1, <1>2, <1>4, <2>2 DEF ActiveHasRef
  <2>6. InactiveWasTold'
    BY <1>1, <1>2, <1>4, <2>2 DEF InactiveWasTold
  <2>7. ReloadKeeps' /\ NoCallToNowhere'
    BY <1>1, <2>1 DEF SpyInv, ReloadKeeps, NoCallToNowhere
  <2> QED
    BY <2>3, <2>4, <2>5, <2>6, <2>7 DEF SpyInv
<1>5. CASE Spy \in refs /\ told'[Spy] # told[Spy] /\ ctx # "spy"
  <2>1. /\ UNCHANGED spy
        /\ mishaps' = mishaps \cup (IF ctx = "old" THEN {} ELSE {"crash"})
    BY <1>5 DEF JoinStep, cj_told
  <2>2. "left" \in mishaps
    BY <1>5 DEF SpyInv, RefCalls, csTypeOK
  <2>3. csTypeOK'
    BY <1>1, <2>1 DEF SpyInv, csTypeOK, Mishaps
  <2>4. SpyRecords' /\ RefCalls'
    BY <1>1, <1>2, <2>1, <2>2 DEF SpyInv, SpyRecords, RefCalls
  <2>5. ActiveHasRef' /\ InactiveWasTold' /\ ReloadKeeps' /\ NoCallToNowhere'
    BY <2>1, <2>2 DEF ActiveHasRef, InactiveWasTold, ReloadKeeps, NoCallToNowhere
  <2> QED
    BY <2>3, <2>4, <2>5 DEF SpyInv
<1>6. CASE ~(Spy \in refs /\ told'[Spy] # told[Spy])
  <2>1. UNCHANGED <<spy, mishaps>>
    BY <1>6 DEF JoinStep
  <2>2. told'[Spy] = told[Spy] /\ (Spy \in refs' <=> Spy \in refs)
    BY <1>2, <1>3, <1>6
  <2>3. UNCHANGED ctx
    BY <1>1, <2>2 DEF SpyInv, RefCalls
  <2> QED
    BY <1>1, <2>1, <2>2, <2>3 DEF SpyInv, csTypeOK, SpyRecords, RefCalls, ActiveHasRef,
       InactiveWasTold, ReloadKeeps, NoCallToNowhere
<1> QED
  BY <1>4, <1>5, <1>6

(* Nothing of the spy changes with other modules' refs.                        *)
LEMMA OtherModuleSpyInv ==
    ASSUME JoinInv, SpyInv, OtherModule
    PROVE  SpyInv'
<1>1. (Spy \in refs' <=> Spy \in refs) /\ told'[Spy] = told[Spy]
  BY OthersKeep DEF OtherModule
<1>2. UNCHANGED <<spy, ctx, phase, saved, relayed, mishaps>>
  BY DEF OtherModule, csVars
<1> QED
  BY <1>1, <1>2 DEF SpyInv, csTypeOK, SpyRecords, RefCalls, ActiveHasRef,
     InactiveWasTold, ReloadKeeps, NoCallToNowhere

(* A spy is added, by a command or from the database, and its ref calls it     *)
(* unless an older one's stayed.                                               *)
LEMMA SpyAddInv ==
    ASSUME JoinInv, SpyInv, NEW flags \in Flags \cup {{}}, spy_add(flags),
           phase' = "loaded", UNCHANGED saved,
           phase = "reloading" => saved.there
    PROVE  SpyInv'
<1> USE ChanspyAssumption
<1>1. /\ spy' = [there |-> TRUE, flags |-> flags, active |-> TRUE]
      /\ relayed' = {} /\ spy_join
  BY DEF spy_add
<1>2. spy' \in Record /\ spy'.there = TRUE /\ spy'.active = TRUE
  BY <1>1 DEF Record
<1>3. \/ Spy \in refs' /\ ctx' = "spy" /\ mishaps' = mishaps
      \/ /\ "left" \in mishaps /\ Spy \in refs' /\ ctx' \in {"old", "unloaded"}
         /\ mishaps' = mishaps \cup {"unheard"}
  <2>1. CASE Spy \notin refs /\ chanjoin_addchan(Spy) /\ ctx' = "spy" /\ UNCHANGED mishaps
    BY <2>1 DEF chanjoin_addchan
  <2>2. CASE Spy \in refs /\ ctx = "reloaded" /\ reload_module(Spy) /\ ctx' = "spy" /\ UNCHANGED mishaps
    BY <2>2 DEF reload_module
  <2>3. CASE /\ Spy \in refs /\ ctx \in {"old", "unloaded"} /\ UNCHANGED joinVars
             /\ \/ ctx = "old" /\ ctx' = "spy" /\ UNCHANGED mishaps
                \/ UNCHANGED ctx /\ mishaps' = mishaps \cup {"unheard"}
    <3>1. "left" \in mishaps /\ refs' = refs
      BY <2>3 DEF SpyInv, RefCalls, joinVars, entry
    <3> QED
      BY <2>3, <3>1
  <2> QED
    BY <1>1, <2>1, <2>2, <2>3 DEF spy_join
<1>4. csTypeOK'
  BY <1>1, <1>2, <1>3 DEF SpyInv, csTypeOK, Mishaps, Record
<1>5. SpyRecords' /\ RefCalls'
  BY <1>2, <1>3 DEF SpyInv, SpyRecords, RefCalls
<1>6. ActiveHasRef'
  BY <1>3 DEF ActiveHasRef
<1>7. InactiveWasTold' /\ ReloadKeeps' /\ NoCallToNowhere'
  BY <1>2, <1>3 DEF SpyInv, InactiveWasTold, ReloadKeeps, NoCallToNowhere
<1> QED
  BY <1>4, <1>5, <1>6, <1>7 DEF SpyInv

(* A spy is deleted: an active one takes its ref with it.                      *)
LEMMA SpyFreeInv ==
    ASSUME JoinInv, SpyInv, NEW left \in {"old", "unloaded"}, spy_free(left),
           phase' \in {"loaded", "unloaded"}, relayed' = {},
           saved' = saved \/ saved' \in Record
    PROVE  SpyInv'
<1> USE ChanspyAssumption
<1>1. spy' = NoSpy /\ spy'.there = FALSE
  BY NoSpyRecord DEF spy_free
<1>2. \/ ctx' = "none" /\ Spy \notin refs' /\ mishaps' = mishaps
      \/ /\ ctx' = left /\ Spy \in refs'
         /\ mishaps' = mishaps \cup {"left"}
  <2>1. CASE spy.active
    <3>1. chanjoin_delchan(Spy) /\ ctx' = IF Spy \in refs' THEN ctx ELSE "none"
      BY <2>1 DEF spy_free
    <3>2. Spy \notin refs'
      BY <3>1 DEF chanjoin_delchan, entry, chanjoin_free
    <3> QED
      BY <2>1, <3>1, <3>2 DEF spy_free
  <2>2. CASE ~spy.active
    <3>1. UNCHANGED refs
      BY <2>2 DEF spy_free, joinVars, entry
    <3> QED
      BY <2>2, <3>1 DEF spy_free
  <2> QED
    BY <2>1, <2>2
<1>3. csTypeOK'
  BY <1>1, <1>2, NoSpyRecord DEF SpyInv, csTypeOK, Mishaps, Record
<1>4. SpyRecords' /\ RefCalls'
  BY <1>1, <1>2 DEF SpyInv, SpyRecords, RefCalls, Record
<1>5. ActiveHasRef' /\ InactiveWasTold' /\ ReloadKeeps' /\ NoCallToNowhere'
  BY <1>1, <1>2 DEF SpyInv, ActiveHasRef, InactiveWasTold, ReloadKeeps, NoCallToNowhere
<1> QED
  BY <1>3, <1>4, <1>5 DEF SpyInv

(* What spy_db_write leaves in the database.                                   *)
LEMMA SavedRecord ==
    ASSUME SpyInv, spy_db_write
    PROVE  saved' \in Record /\ saved'.there = spy.there
BY DEF SpyInv, csTypeOK, spy_db_write, Record

(* The module is unloaded, or unloaded to be loaded again.                     *)
LEMMA FiniSpyInv ==
    ASSUME JoinInv, SpyInv, NEW reloading_module \in BOOLEAN, chanspy_fini(reloading_module)
    PROVE  SpyInv'
<1> USE ChanspyAssumption
<1>1. phase = "loaded" /\ saved' \in Record /\ saved'.there = spy.there /\ relayed' = {}
  BY SavedRecord DEF chanspy_fini
<1>2. Spy \in refs /\ ~spy.there => "left" \in mishaps
  BY <1>1 DEF SpyInv, RefCalls, csTypeOK
<1>3. CASE reloading_module
  <2>1. /\ phase' = "reloading" /\ spy' = NoSpy
        /\ ctx' = IF Spy \in refs THEN "reloaded" ELSE "none"
        /\ UNCHANGED <<refs, told, mishaps>>
    BY <1>3 DEF chanspy_fini, joinVars, entry
  <2>2. csTypeOK' /\ SpyRecords'
    BY <1>1, <2>1, NoSpyRecord DEF SpyInv, csTypeOK, SpyRecords, Record
  <2>3. RefCalls'
    BY <1>1, <1>2, <2>1 DEF RefCalls
  <2>4. ActiveHasRef' /\ InactiveWasTold' /\ NoCallToNowhere'
    BY <2>1, NoSpyRecord DEF SpyInv, ActiveHasRef, InactiveWasTold, NoCallToNowhere
  <2>5. ReloadKeeps'
    BY <1>1, <2>1 DEF SpyInv, ReloadKeeps, ActiveHasRef, InactiveWasTold, RefCalls
  <2> QED
    BY <2>2, <2>3, <2>4, <2>5 DEF SpyInv
<1>4. CASE ~reloading_module /\ spy.there
  <2>1. phase' = "unloaded" /\ spy_free("unloaded")
    BY <1>4 DEF chanspy_fini
  <2> QED
    BY <1>1, <2>1, SpyFreeInv
<1>5. CASE ~reloading_module /\ ~spy.there
  <2>1. /\ phase' = "unloaded"
        /\ ctx' = IF Spy \in refs THEN "unloaded" ELSE "none"
        /\ UNCHANGED <<refs, told, spy, mishaps>>
    BY <1>5 DEF chanspy_fini, joinVars, entry
  <2>2. csTypeOK' /\ SpyRecords'
    BY <1>1, <1>5, <2>1 DEF SpyInv, csTypeOK, SpyRecords, Record
  <2>3. RefCalls'
    BY <1>2, <1>5, <2>1 DEF RefCalls
  <2>4. ActiveHasRef' /\ InactiveWasTold' /\ ReloadKeeps' /\ NoCallToNowhere'
    BY <1>5, <2>1 DEF SpyInv, ActiveHasRef, InactiveWasTold, ReloadKeeps, NoCallToNowhere
  <2> QED
    BY <2>2, <2>3, <2>4 DEF SpyInv
<1> QED
  BY <1>3, <1>4, <1>5

(* The remaining steps: the rejoin, the start, and what is shown and saved.    *)
LEMMA OtherSpyInv ==
    ASSUME JoinInv, SpyInv,
           chanspy_rejoin \/ spy_db_read \/ ChannelEvent \/ chanspy_db_interval
    PROVE  SpyInv'
<1> USE ChanspyAssumption
<1>1. CASE chanspy_rejoin
  <2>1. /\ Spy \in refs' /\ ctx' = "spy" /\ spy.there
        /\ UNCHANGED <<spy, phase, saved, relayed, mishaps>>
    BY <1>1 DEF chanspy_rejoin, chanjoin_addchan
  <2> QED
    BY <2>1 DEF SpyInv, csTypeOK, SpyRecords, RefCalls, ActiveHasRef,
       InactiveWasTold, ReloadKeeps, NoCallToNowhere
<1>2. CASE spy_db_read
  <2>1. phase # "loaded" /\ phase' = "loaded" /\ UNCHANGED saved
    BY <1>2 DEF spy_db_read
  <2>2. CASE saved.there
    <3>1. spy_add(saved.flags) /\ saved.flags \in Flags \cup {{}}
      BY <1>2, <2>2 DEF spy_db_read, SpyInv, SpyRecords
    <3> QED
      BY <2>1, <2>2, <3>1, SpyAddInv
  <2>3. CASE ~saved.there
    <3>1. UNCHANGED <<refs, told, spy, ctx, relayed, mishaps>>
      BY <1>2, <2>3 DEF spy_db_read, joinVars, entry
    <3> QED
      BY <2>1, <2>3, <3>1 DEF SpyInv, csTypeOK, SpyRecords, RefCalls, ActiveHasRef,
         InactiveWasTold, ReloadKeeps, NoCallToNowhere
  <2> QED
    BY <2>2, <2>3
<1>3. CASE ChannelEvent
  <2>1. /\ UNCHANGED <<refs, told, spy, ctx, phase, saved, mishaps>>
        /\ relayed' \subseteq spy.flags
    BY <1>3 DEF ChannelEvent, spy_gotmsg, joinVars, entry, SpyInv, csTypeOK
  <2> QED
    BY <2>1 DEF SpyInv, csTypeOK, SpyRecords, RefCalls, ActiveHasRef,
       InactiveWasTold, ReloadKeeps, NoCallToNowhere
<1>4. CASE chanspy_db_interval
  <2>1. /\ UNCHANGED <<refs, told, spy, ctx, phase, relayed, mishaps>>
        /\ phase = "loaded" /\ saved' \in Record
    BY <1>4, SavedRecord DEF chanspy_db_interval, joinVars, entry
  <2> QED
    BY <2>1 DEF SpyInv, csTypeOK, SpyRecords, RefCalls, ActiveHasRef,
       InactiveWasTold, ReloadKeeps, NoCallToNowhere, Record
<1> QED
  BY <1>1, <1>2, <1>3, <1>4

(* One case per step of chanspy.                                               *)
LEMMA SpyNextInv == JoinInv /\ SpyInv /\ csNext => SpyInv'
<1> SUFFICES ASSUME JoinInv, SpyInv, csNext PROVE SpyInv'
  OBVIOUS
<1>1. CASE spy_db_read \/ chanspy_rejoin \/ ChannelEvent \/ chanspy_db_interval
  BY <1>1, OtherSpyInv
<1>2. CASE phase # "reloading" /\ JoinStep
  BY <1>2, JoinStepSpyInv
<1>3. CASE OtherModule
  BY <1>3, OtherModuleSpyInv
<1>4. CASE chanspy_add
  BY <1>4, SpyAddInv DEF chanspy_add
<1>5. CASE chanspy_del
  BY <1>5, SpyFreeInv DEF chanspy_del
<1>6. CASE \E reloading_module \in BOOLEAN : chanspy_fini(reloading_module)
  BY <1>6, FiniSpyInv
<1> QED
  BY <1>1, <1>2, <1>3, <1>4, <1>5, <1>6 DEF csNext

-----------------------------------------------------------------------------
(* chanspy's connections.                                                      *)

PeerRecord == [there : BOOLEAN, sock : {"NULL", "connecting", "connected"},
               connect_timeout : BOOLEAN, reconnect : BOOLEAN]

Client == [of : Peer \cup {"none"}, up : BOOLEAN, lines : Seq({"PWD", "CHAN", "SPY"}),
           authed : BOOLEAN, chan : Channel \cup {"NULL"}, dead : BOOLEAN]

(* A spy that is not there has neither a socket nor timers.                    *)
PeersThere ==
    /\ peer \in [Peer -> PeerRecord]
    /\ \A p \in Peer : ~peer[p].there => peer[p] = NoPeer

(* A client is known by what its peer wrote: the password first, its own       *)
(* channel then.                                                               *)
ClientsOwn ==
    /\ source \in [Peer -> Channel] /\ clients \in [Address -> Client]
    /\ drop_client \in [Address -> Nat]
    /\ \A a \in Address :
         /\ ~Used(a) => clients[a] = NoClient
         /\ clients[a].authed => clients[a].of \in password
         /\ clients[a].chan # "NULL" => clients[a].authed /\ clients[a].chan = source[clients[a].of]

(* Until two clients sent one channel, the departure of one ends it.           *)
OneSender ==
    net_mishaps = {} => \A a, b \in Address :
        clients[a].chan # "NULL" /\ clients[a].chan = clients[b].chan => a = b

NetInv ==
    /\ cnTypeOK /\ PeerReconnects /\ ActiveIsTrue /\ DeadIsDropped
    /\ PeersThere /\ ClientsOwn /\ OneSender

\* So are a peer that is not configured and an unused connection.
LEMMA EmptyRecords ==
    /\ NoPeer \in PeerRecord /\ NoPeer.there = FALSE /\ NoPeer.sock = "NULL"
    /\ NoPeer.connect_timeout = FALSE /\ NoPeer.reconnect = FALSE
    /\ NoClient \in Client /\ NoClient.of = "none" /\ NoClient.up = FALSE /\ NoClient.lines = <<>>
    /\ NoClient.authed = FALSE /\ NoClient.chan = "NULL" /\ NoClient.dead = FALSE
    /\ Len(NoClient.lines) <= MaxUnread
BY ChanspyNetAssumption DEF NoPeer, PeerRecord, NoClient, Client

(* Without a client anywhere, nothing can be wrong about clients.              *)
LEMMA NobodySends ==
    ASSUME clients = [a \in Address |-> NoClient]
    PROVE  /\ clients \in [Address -> Client]
           /\ \A a \in Address :
                /\ clients[a] = NoClient /\ clients[a].of = "none" /\ Len(clients[a].lines) <= MaxUnread
                /\ clients[a].authed = FALSE /\ clients[a].chan = "NULL" /\ clients[a].dead = FALSE
           /\ \A c \in Channel : ~Listens(c)
<1>1. \A a \in Address : clients[a] = NoClient
  OBVIOUS
<1>2. clients \in [Address -> Client]
  BY EmptyRecords
<1> QED
  BY <1>1, <1>2, EmptyRecords, ChanspyNetAssumption DEF Listens

(* The connections at the start: nobody spies.                                 *)
LEMMA NetInitInv == cnInit => NetInv
<1> SUFFICES ASSUME cnInit PROVE NetInv
  OBVIOUS
<1>1. \A a \in Address : clients[a] = NoClient /\ clients[a].chan = "NULL" /\ clients[a].authed = FALSE
                         /\ clients[a].dead = FALSE /\ clients[a].of = "none" /\ Len(clients[a].lines) <= MaxUnread
  BY NobodySends DEF cnInit
<1>2. \A p \in Peer : peer[p] = NoPeer
  BY DEF cnInit
<1>3. peer \in [Peer -> PeerRecord] /\ clients \in [Address -> Client]
  BY EmptyRecords, NobodySends DEF cnInit
<1>4. cnTypeOK
  BY <1>1, <1>2, EmptyRecords DEF cnInit, cnTypeOK
<1>5. PeerReconnects /\ PeersThere
  BY <1>2, <1>3, EmptyRecords DEF PeerReconnects, PeersThere
<1>6. DeadIsDropped /\ ClientsOwn /\ OneSender
  BY <1>1, <1>3 DEF cnInit, DeadIsDropped, ClientsOwn, OneSender
<1>7. ActiveIsTrue
  BY DEF cnInit, ActiveIsTrue
<1> QED
  BY <1>4, <1>5, <1>6, <1>7 DEF NetInv

(* A step of a peer's own that only takes its end of the connection down, or   *)
(* writes to it, leaves what the listener shows as true as it was.             *)
LEMMA ListenerUntouched ==
    ASSUME NetInv, UNCHANGED <<source, listen_sock, password, drop_client, server_spy, net_mishaps>>,
           PeersThere', PeerReconnects', clients' \in [Address -> Client],
           \A a \in Address :
              /\ clients'[a].of = clients[a].of /\ clients'[a].authed = clients[a].authed
              /\ clients'[a].chan = clients[a].chan /\ clients'[a].dead = clients[a].dead
              /\ Len(clients'[a].lines) <= MaxUnread
              /\ ~Used(a) => clients'[a] = clients[a]
    PROVE  NetInv'
<1> USE DEF NetInv
<1>1. \A c \in Channel : Listens(c)' <=> Listens(c)
  BY DEF Listens
<1>2. cnTypeOK'
  <2>1. \A p \in Peer : peer'[p].sock \in {"NULL", "connecting", "connected"}
    BY DEF PeersThere, PeerRecord
  <2> QED
    BY <2>1 DEF cnTypeOK
<1>3. ActiveIsTrue' /\ DeadIsDropped' /\ OneSender'
  BY <1>1 DEF ActiveIsTrue, DeadIsDropped, OneSender
<1>4. ClientsOwn'
  BY DEF ClientsOwn, Used
<1> QED
  BY <1>2, <1>3, <1>4

(* What becomes of a peer's record: its timers fit its socket.                 *)
LEMMA PeerStep ==
    ASSUME NetInv, NEW p \in Peer, NEW m \in PeerRecord, peer' = [peer EXCEPT ![p] = m],
           m.there => /\ m.sock = "NULL" <=> m.reconnect
                      /\ m.sock = "connecting" <=> m.connect_timeout,
           ~m.there => m = NoPeer
    PROVE  PeersThere' /\ PeerReconnects'
<1>1. peer' \in [Peer -> PeerRecord]
  BY DEF NetInv, PeersThere
<1>2. \A q \in Peer : peer'[q] = IF q = p THEN m ELSE peer[q]
  BY DEF NetInv, PeersThere
<1> QED
  BY <1>1, <1>2 DEF NetInv, PeersThere, PeerReconnects

\* A peer's record after a connect or a schedule: it is not both connected and waiting.
LEMMA ReconnectRecord ==
    ASSUME NetInv, NEW p \in Peer,
           chanspy_client_schedule_reconnect(p) \/ chanspy_client_connect(p)
    PROVE  PeersThere' /\ PeerReconnects'
<1> DEFINE wait == [there |-> TRUE, sock |-> "NULL", connect_timeout |-> FALSE, reconnect |-> TRUE]
           try == [there |-> TRUE, sock |-> "connecting", connect_timeout |-> TRUE, reconnect |-> FALSE]
<1>1. /\ wait \in PeerRecord /\ wait.there = TRUE /\ wait.sock = "NULL"
      /\ wait.connect_timeout = FALSE /\ wait.reconnect = TRUE
  BY DEF PeerRecord
<1>2. /\ try \in PeerRecord /\ try.there = TRUE /\ try.sock = "connecting"
      /\ try.connect_timeout = TRUE /\ try.reconnect = FALSE
  BY DEF PeerRecord
<1>3. peer' = [peer EXCEPT ![p] = wait] \/ peer' = [peer EXCEPT ![p] = try]
  BY DEF chanspy_client_schedule_reconnect, chanspy_client_connect
<1> HIDE DEF wait, try
<1>4. CASE peer' = [peer EXCEPT ![p] = wait]
  BY <1>1, <1>4, PeerStep
<1>5. CASE peer' = [peer EXCEPT ![p] = try]
  BY <1>2, <1>5, PeerStep
<1> QED
  BY <1>3, <1>4, <1>5

\* The far end of a connection goes: the near end has the same client and the same lines.
LEMMA HangKeeps ==
    ASSUME NetInv, NEW p \in Peer, clients' = Hang(p)
    PROVE  /\ clients' \in [Address -> Client]
           /\ \A a \in Address :
                /\ clients'[a].of = clients[a].of /\ clients'[a].authed = clients[a].authed
                /\ clients'[a].chan = clients[a].chan /\ clients'[a].dead = clients[a].dead
                /\ Len(clients'[a].lines) <= MaxUnread
                /\ ~Used(a) => clients'[a] = clients[a]
<1> SUFFICES ASSUME NEW a \in Address
             PROVE  /\ clients'[a] \in Client
                    /\ clients'[a].of = clients[a].of /\ clients'[a].authed = clients[a].authed
                    /\ clients'[a].chan = clients[a].chan /\ clients'[a].dead = clients[a].dead
                    /\ Len(clients'[a].lines) <= MaxUnread
                    /\ ~Used(a) => clients'[a] = clients[a]
  BY DEF Hang
<1>1. clients[a] \in Client /\ Len(clients[a].lines) <= MaxUnread
  BY DEF NetInv, ClientsOwn, cnTypeOK
<1>2. clients'[a] = IF clients[a].of = p THEN [clients[a] EXCEPT !.up = FALSE] ELSE clients[a]
  BY DEF Hang
<1>3. CASE clients[a].of = p
  <2>1. p # "none"
    BY ChanspyNetAssumption
  <2> QED
    BY <1>1, <1>2, <1>3, <2>1 DEF Client, Used
<1>4. CASE clients[a].of # p
  BY <1>1, <1>2, <1>4
<1> QED
  BY <1>3, <1>4

(* The spies that connect.                                                     *)
LEMMA PeersInv ==
    ASSUME NetInv, NEW p \in Peer,
           \/ peer_add(p) \/ peer_del(p) \/ chanspy_client_reconnect_tmr(p) \/ chanspy_client_timeout(p)
           \/ chanspy_client_lost(p) \/ Spied(p)
    PROVE  NetInv'
<1>1. CASE peer_add(p) \/ chanspy_client_reconnect_tmr(p) \/ chanspy_client_timeout(p)
  <2>1. PeersThere' /\ PeerReconnects' /\ UNCHANGED <<source, clients, serverVars>>
    BY <1>1, ReconnectRecord DEF peer_add, chanspy_client_reconnect_tmr, chanspy_client_timeout
  <2> QED
    BY <2>1, ListenerUntouched DEF serverVars, NetInv, ClientsOwn, cnTypeOK
<1>2. CASE peer_del(p)
  <2>1. PeersThere' /\ PeerReconnects'
    BY <1>2, PeerStep, EmptyRecords DEF peer_del
  <2> QED
    BY <1>2, <2>1, HangKeeps, ListenerUntouched DEF peer_del, serverVars
<1>3. CASE chanspy_client_lost(p)
  <2>1. PeersThere' /\ PeerReconnects'
    BY <1>3, ReconnectRecord DEF chanspy_client_lost
  <2> QED
    BY <1>3, <2>1, HangKeeps, ListenerUntouched DEF chanspy_client_lost, serverVars
<1>4. CASE Spied(p)
  <2>1. PICK a \in Address :
          /\ clients[a].of = p /\ Len(clients[a].lines) < MaxUnread
          /\ clients' = [clients EXCEPT ![a].lines = Append(@, "SPY")]
          /\ UNCHANGED <<source, peer, serverVars>>
    BY <1>4 DEF Spied
  <2>2. PeersThere' /\ PeerReconnects'
    BY <2>1 DEF NetInv, PeersThere, PeerReconnects
  <2>3. /\ clients[a] \in Client /\ Append(clients[a].lines, "SPY") \in Seq({"PWD", "CHAN", "SPY"})
        /\ Len(Append(clients[a].lines, "SPY")) = Len(clients[a].lines) + 1
        /\ Len(clients[a].lines) \in Nat
    BY DEF NetInv, ClientsOwn, Client
  <2>4. /\ clients'[a] = [clients[a] EXCEPT !.lines = Append(@, "SPY")]
        /\ \A b \in Address \ {a} : clients'[b] = clients[b]
    BY <2>1 DEF NetInv, ClientsOwn
  <2>5. clients'[a] \in Client /\ Len(clients'[a].lines) <= MaxUnread
    <3>1. clients'[a] \in Client /\ clients'[a].lines = Append(clients[a].lines, "SPY")
      BY <2>3, <2>4 DEF Client
    <3> QED
      BY <2>1, <2>3, <3>1, ChanspyNetAssumption
  <2>6. clients' \in [Address -> Client]
    BY <2>1, <2>4, <2>5 DEF NetInv, ClientsOwn
  <2>7. \A b \in Address :
          /\ clients'[b].of = clients[b].of /\ clients'[b].authed = clients[b].authed
          /\ clients'[b].chan = clients[b].chan /\ clients'[b].dead = clients[b].dead
          /\ Len(clients'[b].lines) <= MaxUnread
          /\ ~Used(b) => clients'[b] = clients[b]
    <3>1. p # "none"
      BY ChanspyNetAssumption
    <3>2. clients'[a].of = clients[a].of /\ clients'[a].authed = clients[a].authed
          /\ clients'[a].chan = clients[a].chan /\ clients'[a].dead = clients[a].dead
      BY <2>3, <2>4 DEF Client
    <3> QED
      BY <2>1, <2>4, <2>5, <3>1, <3>2 DEF NetInv, cnTypeOK, Used
  <2> QED
    BY <2>1, <2>2, <2>6, <2>7, ListenerUntouched DEF serverVars
<1> QED
  BY <1>1, <1>2, <1>3, <1>4

(* A step that changes one client, or replaces it, keeps what is true of the    *)
(* others and of the peers.                                                    *)
LEMMA ClientStep ==
    ASSUME NetInv, NEW a \in Address, NEW m \in Client,
           clients' = [clients EXCEPT ![a] = m], UNCHANGED <<source, listen_sock, password>>,
           PeersThere', PeerReconnects',
           Len(m.lines) <= MaxUnread,
           m.of = "none" => m = NoClient,
           m.authed => m.of \in password,
           m.chan # "NULL" => m.authed /\ m.chan = source[m.of],
           drop_client' \in [Address -> Nat], DeadIsDropped',
           server_spy' \in [Channel -> {"none", "inactive", "active"}], ActiveIsTrue',
           net_mishaps' \subseteq NetMishaps, OneSender'
    PROVE  NetInv'
<1>1. /\ clients' \in [Address -> Client]
      /\ \A b \in Address : clients'[b] = IF b = a THEN m ELSE clients[b]
  BY DEF NetInv, ClientsOwn
<1>2. cnTypeOK'
  <2>1. \A p \in Peer : peer'[p].sock \in {"NULL", "connecting", "connected"}
    BY DEF PeersThere, PeerRecord
  <2>2. \A b \in Address : clients'[b].of \in Peer \cup {"none"} /\ Len(clients'[b].lines) <= MaxUnread
    BY <1>1 DEF NetInv, cnTypeOK, Client
  <2> QED
    BY <2>1, <2>2 DEF NetInv, cnTypeOK
<1>3. ClientsOwn'
  <2>1. \A b \in Address :
          /\ clients'[b].of = "none" => clients'[b] = NoClient
          /\ clients'[b].authed => clients'[b].of \in password
          /\ clients'[b].chan # "NULL" => clients'[b].authed /\ clients'[b].chan = source[clients'[b].of]
    BY <1>1 DEF NetInv, ClientsOwn, Used
  <2> QED
    BY <1>1, <2>1 DEF NetInv, ClientsOwn, Used
<1> QED
  BY <1>2, <1>3 DEF NetInv

(* A client that sends no channel comes, stays or goes: the spies' state stays *)
(* as true as it was.                                                          *)
LEMMA SilentClient ==
    ASSUME NetInv, NEW a \in Address, NEW m \in Client,
           clients' = [clients EXCEPT ![a] = m], clients[a].chan = m.chan,
           UNCHANGED <<server_spy, net_mishaps>>
    PROVE  ActiveIsTrue' /\ OneSender'
<1>1. \A b \in Address : clients'[b].chan = clients[b].chan
  BY DEF NetInv, ClientsOwn
<1>2. \A c \in Channel : Listens(c)' <=> Listens(c)
  BY <1>1 DEF Listens
<1> QED
  BY <1>1, <1>2 DEF NetInv, ActiveIsTrue, OneSender

(* A client's line is read: it tells its password or its channel, it is        *)
(* shown, or it is not understood and will be dropped.                         *)
LEMMA MisunderstoodInv ==
    ASSUME NetInv, NEW a \in Address, Used(a), clients[a].lines # <<>>, clients[a].chan = "NULL",
           Misunderstood(a), UNCHANGED <<source, peer, listen_sock, password>>
    PROVE  NetInv'
<1> DEFINE m == [clients[a] EXCEPT !.lines = Tail(@), !.dead = TRUE]
<1>1. /\ clients' = [clients EXCEPT ![a] = m]
      /\ drop_client' = [drop_client EXCEPT ![a] = @ + 1]
      /\ UNCHANGED <<server_spy, net_mishaps>>
  BY DEF Misunderstood, NetInv, ClientsOwn
<1>2. /\ clients[a] \in Client /\ Tail(clients[a].lines) \in Seq({"PWD", "CHAN", "SPY"})
      /\ Len(Tail(clients[a].lines)) = Len(clients[a].lines) - 1 /\ Len(clients[a].lines) \in Nat
      /\ Len(clients[a].lines) <= MaxUnread
  BY DEF NetInv, ClientsOwn, cnTypeOK, Client
<1>3. /\ m \in Client /\ m.of = clients[a].of /\ m.authed = clients[a].authed /\ m.chan = "NULL"
      /\ m.lines = Tail(clients[a].lines)
  BY <1>2 DEF Client
<1> HIDE DEF m
<1>4. Len(m.lines) <= MaxUnread
  BY <1>2, <1>3, ChanspyNetAssumption
<1>5. /\ drop_client' \in [Address -> Nat] /\ drop_client'[a] > 0
      /\ \A b \in Address \ {a} : drop_client'[b] = drop_client[b]
  BY <1>1 DEF NetInv, ClientsOwn
<1>6. DeadIsDropped'
  <2>1. clients'[a].chan = "NULL" /\ \A b \in Address \ {a} : clients'[b] = clients[b]
    BY <1>1, <1>3 DEF NetInv, ClientsOwn
  <2> QED
    BY <1>5, <2>1 DEF NetInv, DeadIsDropped
<1>7. ActiveIsTrue' /\ OneSender'
  BY <1>1, <1>3, SilentClient
<1>8. PeersThere' /\ PeerReconnects'
  BY DEF NetInv, PeersThere, PeerReconnects
<1>9. clients[a].authed => clients[a].of \in password
  BY DEF NetInv, ClientsOwn
<1> QED
  BY <1>1, <1>3, <1>4, <1>5, <1>6, <1>7, <1>8, <1>9, ClientStep DEF NetInv, cnTypeOK, Used

\* A line was read and understood, and a password accepted or not.
LEMMA UnderstoodInv ==
    ASSUME NetInv, NEW a \in Address, Used(a), clients[a].lines # <<>>,
           NEW authed \in BOOLEAN, authed => clients[a].of \in password,
           clients[a].authed => authed,
           clients' = [clients EXCEPT ![a] = [clients[a] EXCEPT !.lines = Tail(@), !.authed = authed]],
           UNCHANGED <<source, peer, listen_sock, password, drop_client, server_spy, net_mishaps>>
    PROVE  NetInv'
<1> DEFINE m == [clients[a] EXCEPT !.lines = Tail(@), !.authed = authed]
<1>2. /\ clients[a] \in Client /\ Tail(clients[a].lines) \in Seq({"PWD", "CHAN", "SPY"})
      /\ Len(Tail(clients[a].lines)) = Len(clients[a].lines) - 1 /\ Len(clients[a].lines) \in Nat
      /\ Len(clients[a].lines) <= MaxUnread
  BY DEF NetInv, ClientsOwn, cnTypeOK, Client
<1>3. /\ m \in Client /\ m.of = clients[a].of /\ m.authed = authed /\ m.chan = clients[a].chan
      /\ m.lines = Tail(clients[a].lines) /\ m.dead = clients[a].dead
  BY <1>2 DEF Client
<1>1. clients' = [clients EXCEPT ![a] = m]
  OBVIOUS
<1> HIDE DEF m
<1>4. Len(m.lines) <= MaxUnread
  BY <1>2, <1>3, ChanspyNetAssumption
<1>5. \A b \in Address : clients'[b].chan = clients[b].chan /\ clients'[b].dead = clients[b].dead
  BY <1>1, <1>3 DEF NetInv, ClientsOwn
<1>6. DeadIsDropped'
  BY <1>5 DEF NetInv, DeadIsDropped
<1>7. ActiveIsTrue' /\ OneSender'
  BY <1>1, <1>3, SilentClient
<1>8. PeersThere' /\ PeerReconnects'
  BY DEF NetInv, PeersThere, PeerReconnects
<1>9. clients[a].chan # "NULL" => clients[a].authed /\ clients[a].chan = source[clients[a].of]
  BY DEF NetInv, ClientsOwn
<1> QED
  BY <1>1, <1>3, <1>4, <1>6, <1>7, <1>8, <1>9, ClientStep DEF NetInv, cnTypeOK, Used, ClientsOwn

(* The client names its channel: whoever was the only one to send it still is, *)
(* or the mishap is told.                                                      *)
LEMMA ServerChanInv ==
    ASSUME NetInv, NEW a \in Address, Used(a), clients[a].lines # <<>>, clients[a].authed,
           ~clients[a].dead, server_chan(a), UNCHANGED <<source, peer, listen_sock, password>>
    PROVE  NetInv'
<1> DEFINE chan == source[clients[a].of]
           m == [clients[a] EXCEPT !.lines = Tail(@), !.chan = chan]
<1>1. /\ clients' = [clients EXCEPT ![a] = m]
      /\ server_spy' = [server_spy EXCEPT ![chan] = IF @ = "none" THEN @ ELSE "active"]
      /\ net_mishaps' = net_mishaps \cup (IF Listens(chan) THEN {"shared"} ELSE {})
      /\ UNCHANGED drop_client
  BY DEF server_chan, NetInv, ClientsOwn
<1>2. /\ clients[a] \in Client /\ Tail(clients[a].lines) \in Seq({"PWD", "CHAN", "SPY"})
      /\ Len(Tail(clients[a].lines)) = Len(clients[a].lines) - 1 /\ Len(clients[a].lines) \in Nat
      /\ Len(clients[a].lines) <= MaxUnread
  BY DEF NetInv, ClientsOwn, cnTypeOK, Client
<1>3. chan \in Channel /\ chan # "NULL" /\ clients[a].of \in password
  BY ChanspyNetAssumption DEF NetInv, ClientsOwn, cnTypeOK
<1>4. /\ m \in Client /\ m.of = clients[a].of /\ m.authed = clients[a].authed /\ m.chan = chan
      /\ m.lines = Tail(clients[a].lines) /\ m.dead = clients[a].dead
  BY <1>2, <1>3 DEF Client
<1> HIDE DEF m, chan
<1>5. Len(m.lines) <= MaxUnread
  BY <1>2, <1>4, ChanspyNetAssumption
<1>6. clients'[a] = m /\ \A b \in Address \ {a} : clients'[b] = clients[b]
  BY <1>1 DEF NetInv, ClientsOwn
<1>7. DeadIsDropped'
  BY <1>1, <1>4, <1>6 DEF NetInv, DeadIsDropped
<1>8. /\ server_spy' \in [Channel -> {"none", "inactive", "active"}]
      /\ server_spy'[chan] # "none" => server_spy'[chan] = "active"
      /\ \A c \in Channel \ {chan} : server_spy'[c] = server_spy[c]
  BY <1>1, <1>3 DEF NetInv, cnTypeOK
<1>9. net_mishaps' \subseteq NetMishaps
  BY <1>1 DEF NetInv, cnTypeOK, NetMishaps
<1>10. ActiveIsTrue' /\ OneSender'
  <2> SUFFICES ASSUME net_mishaps' = {} PROVE ActiveIsTrue' /\ OneSender'
    BY DEF ActiveIsTrue, OneSender
  <2>1. net_mishaps = {} /\ ~Listens(chan)
    BY <1>1
  <2>2. \A b \in Address : clients[b].chan # chan
    BY <2>1 DEF Listens
  <2>3. clients[a].chan = "NULL"
    BY <2>2 DEF NetInv, ClientsOwn, chan
  <2>4. OneSender'
    BY <1>4, <1>6, <2>1, <2>2 DEF NetInv, OneSender
  <2>5. chan' = chan /\ Listens(chan)'
    <3>1. chan' = chan
      BY <1>4, <1>6 DEF chan
    <3>2. clients'[a].chan = chan'
      BY <1>4, <1>6, <3>1
    <3> QED
      BY <3>1, <3>2 DEF Listens
  <2>6. ASSUME NEW c \in Channel, c # chan
        PROVE  Listens(c)' <=> Listens(c)
    <3>1. c # "NULL"
      BY ChanspyNetAssumption
    <3>2. \A b \in Address : clients'[b].chan = c <=> clients[b].chan = c
      BY <1>4, <1>6, <2>3, <2>6, <3>1
    <3> QED
      BY <3>2 DEF Listens
  <2>7. ActiveIsTrue'
    <3>1. ASSUME NEW c \in Channel, server_spy'[c] # "none"
          PROVE  server_spy'[c] = "active" <=> Listens(c)'
      <4>1. CASE c = chan
        BY <1>8, <2>5, <3>1, <4>1
      <4>2. CASE c # chan
        BY <1>8, <2>1, <2>6, <3>1, <4>2 DEF NetInv, ActiveIsTrue
      <4> QED
        BY <4>1, <4>2
    <3> QED
      BY <3>1 DEF ActiveIsTrue
  <2> QED
    BY <2>4, <2>7
<1>11. PeersThere' /\ PeerReconnects'
  BY DEF NetInv, PeersThere, PeerReconnects
<1>12. drop_client' \in [Address -> Nat]
  BY <1>1 DEF NetInv, ClientsOwn
<1>13. m.of # "none" /\ m.of \in password /\ m.authed /\ m.chan = source[m.of]
  BY <1>3, <1>4 DEF Used, chan
<1> QED
  BY <1>1, <1>4, <1>5, <1>7, <1>8, <1>9, <1>10, <1>11, <1>12, <1>13, ClientStep

\* chanspy_server_read keeps the invariant.
LEMMA ReadInv ==
    ASSUME NetInv, NEW a \in Address, chanspy_server_read(a)
    PROVE  NetInv'
<1>1. Used(a) /\ clients[a].lines # <<>> /\ UNCHANGED <<source, peer, listen_sock, password>>
  BY DEF chanspy_server_read
<1>2. clients[a] \in Client
  BY DEF NetInv, ClientsOwn
<1>3. CASE Ignore(a)
  <2>1. [clients[a] EXCEPT !.lines = Tail(@), !.authed = clients[a].authed]
          = [clients[a] EXCEPT !.lines = Tail(@)]
    BY <1>2 DEF Client
  <2>2. clients' = [clients EXCEPT ![a] = [clients[a] EXCEPT !.lines = Tail(@), !.authed = clients[a].authed]]
    BY <1>3, <2>1 DEF Ignore, NetInv, ClientsOwn
  <2>3. clients[a].authed \in BOOLEAN /\ (clients[a].authed => clients[a].of \in password)
    BY <1>2 DEF NetInv, ClientsOwn, Client
  <2> QED
    BY <1>1, <1>3, <2>2, <2>3, UnderstoodInv DEF Ignore
<1>4. CASE ~clients[a].dead /\ server_pwd(a) /\ clients[a].of \in password
  <2>1. clients' = [clients EXCEPT ![a] = [clients[a] EXCEPT !.lines = Tail(@), !.authed = TRUE]]
    BY <1>4 DEF server_pwd, NetInv, ClientsOwn
  <2> QED
    BY <1>1, <1>4, <2>1, UnderstoodInv DEF server_pwd
<1>5. CASE Misunderstood(a) /\ (clients[a].authed => clients[a].chan = "NULL")
  <2>1. clients[a].chan = "NULL"
    BY <1>5 DEF NetInv, ClientsOwn
  <2> QED
    BY <1>1, <1>5, <2>1, MisunderstoodInv
<1>6. CASE ~clients[a].dead /\ server_chan(a) /\ clients[a].authed
  BY <1>1, <1>6, ServerChanInv
<1>7. server_pwd(a) /\ clients[a].of \notin password => Misunderstood(a) /\ ~clients[a].authed
  BY DEF server_pwd, NetInv, ClientsOwn
<1>8. server_chan(a) /\ ~clients[a].authed => Misunderstood(a)
  BY DEF server_chan
<1> QED
  BY <1>3, <1>4, <1>5, <1>6, <1>7, <1>8 DEF chanspy_server_read

(* A connection comes, or goes: at its peer's end, or by a timer that takes     *)
(* whatever is at the address.                                                 *)
LEMMA ConnectedInv ==
    ASSUME NetInv, NEW p \in Peer, NEW a \in Address, Connected(p, a)
    PROVE  NetInv'
<1> DEFINE m == [NoClient EXCEPT !.of = p, !.up = TRUE, !.lines = <<"PWD", "CHAN">>]
           linked == [peer[p] EXCEPT !.sock = "connected", !.connect_timeout = FALSE]
<1>1. /\ peer' = [peer EXCEPT ![p] = linked] /\ clients' = [clients EXCEPT ![a] = m]
      /\ peer[p].sock = "connecting" /\ ~Used(a)
      /\ UNCHANGED <<source, listen_sock, password, drop_client, server_spy, net_mishaps>>
  BY DEF Connected, serverVars, NetInv, PeersThere
<1>2. <<"PWD", "CHAN">> \in Seq({"PWD", "CHAN", "SPY"}) /\ Len(<<"PWD", "CHAN">>) = 2
  OBVIOUS
<1>3. /\ m \in Client /\ m.of = p /\ m.lines = <<"PWD", "CHAN">> /\ m.authed = FALSE /\ m.chan = "NULL"
      /\ m.dead = FALSE
  BY <1>2 DEF NoClient, Client
<1>4. p # "none"
  BY ChanspyNetAssumption
<1>5. peer[p].there /\ ~peer[p].reconnect /\ peer[p] \in PeerRecord
  BY <1>1, EmptyRecords DEF NetInv, PeersThere, PeerReconnects
<1>6. /\ linked \in PeerRecord /\ linked.there /\ linked.sock = "connected"
      /\ ~linked.connect_timeout /\ ~linked.reconnect
  BY <1>5 DEF PeerRecord
<1> HIDE DEF m, linked
<1>7. PeersThere' /\ PeerReconnects'
  BY <1>1, <1>6, PeerStep
<1>8. clients[a].chan = "NULL"
  BY <1>1, EmptyRecords DEF NetInv, ClientsOwn
<1>9. ActiveIsTrue' /\ OneSender'
  BY <1>1, <1>3, <1>8, SilentClient
<1>10. DeadIsDropped'
  BY <1>1, <1>3 DEF NetInv, DeadIsDropped, ClientsOwn
<1>11. Len(m.lines) <= MaxUnread
  BY <1>2, <1>3, ChanspyNetAssumption
<1> QED
  BY <1>1, <1>3, <1>4, <1>7, <1>9, <1>10, <1>11, ClientStep DEF NetInv, cnTypeOK, ClientsOwn

\* A hangup keeps the invariant.
LEMMA HangupInv ==
    ASSUME NetInv, NEW a \in Address, chanspy_server_hangup(a)
    PROVE  NetInv'
<1>1. /\ server_spy' = IF clients[a].chan = "NULL" THEN server_spy ELSE Inactive(clients[a].chan)
      /\ clients' = [clients EXCEPT ![a] = NoClient]
      /\ UNCHANGED <<source, peer, listen_sock, password, drop_client, net_mishaps>>
  BY DEF chanspy_server_hangup
<1>2. clients'[a] = NoClient /\ \A b \in Address \ {a} : clients'[b] = clients[b]
  BY <1>1 DEF NetInv, ClientsOwn
<1>3. DeadIsDropped'
  BY <1>1, <1>2, EmptyRecords DEF NetInv, DeadIsDropped
<1>4. server_spy' \in [Channel -> {"none", "inactive", "active"}]
  BY <1>1 DEF Inactive, NetInv, cnTypeOK
<1>5. PeersThere' /\ PeerReconnects'
  BY <1>1 DEF NetInv, PeersThere, PeerReconnects
<1>6. ActiveIsTrue' /\ OneSender'
  <2>1. CASE clients[a].chan = "NULL"
    BY <1>1, <2>1, EmptyRecords, SilentClient
  <2>2. CASE clients[a].chan # "NULL"
    <3> SUFFICES ASSUME net_mishaps = {} PROVE ActiveIsTrue' /\ OneSender'
      BY <1>1 DEF ActiveIsTrue, OneSender
    <3>1. OneSender'
      BY <1>2, EmptyRecords DEF NetInv, OneSender
    <3>2. ASSUME NEW c \in Channel, server_spy'[c] # "none"
          PROVE  server_spy'[c] = "active" <=> Listens(c)'
      <4>1. c # "NULL"
        BY ChanspyNetAssumption
      <4>2. CASE c = clients[a].chan
        <5>1. server_spy'[c] # "active"
          BY <1>1, <2>2, <4>2 DEF Inactive, NetInv, cnTypeOK
        <5>2. \A b \in Address : clients'[b].chan # c
          BY <1>2, <2>2, <4>1, <4>2, EmptyRecords DEF NetInv, OneSender
        <5> QED
          BY <5>1, <5>2 DEF Listens
      <4>3. CASE c # clients[a].chan
        <5>1. server_spy'[c] = server_spy[c]
          BY <1>1, <4>3 DEF Inactive, NetInv, cnTypeOK
        <5>2. \A b \in Address : clients'[b].chan = c <=> clients[b].chan = c
          BY <1>2, <4>1, <4>3, EmptyRecords
        <5> QED
          BY <3>2, <5>1, <5>2 DEF Listens, NetInv, ActiveIsTrue
      <4> QED
        BY <4>2, <4>3
    <3> QED
      BY <3>1, <3>2 DEF ActiveIsTrue
  <2> QED
    BY <2>1, <2>2
<1> QED
  BY <1>1, <1>3, <1>4, <1>5, <1>6, EmptyRecords, ClientStep DEF NetInv, cnTypeOK, ClientsOwn

\* The timer that drops a client keeps the invariant.
LEMMA DropClientInv ==
    ASSUME NetInv, NEW a \in Address, chanspy_server_drop_client_tmr(a)
    PROVE  NetInv'
<1>1. /\ drop_client' = [drop_client EXCEPT ![a] = @ - 1] /\ drop_client[a] > 0
      /\ clients' = [clients EXCEPT ![a] = NoClient]
      /\ net_mishaps' = net_mishaps \cup (IF Used(a) /\ ~clients[a].dead THEN {"dropped"} ELSE {})
      /\ UNCHANGED <<source, peer, listen_sock, password, server_spy>>
  BY DEF chanspy_server_drop_client_tmr
<1>2. clients'[a] = NoClient /\ \A b \in Address \ {a} : clients'[b] = clients[b]
  BY <1>1 DEF NetInv, ClientsOwn
<1>3. /\ drop_client' \in [Address -> Nat]
      /\ \A b \in Address \ {a} : drop_client'[b] = drop_client[b]
  BY <1>1 DEF NetInv, ClientsOwn
<1>4. DeadIsDropped'
  BY <1>2, <1>3, EmptyRecords DEF NetInv, DeadIsDropped
<1>5. PeersThere' /\ PeerReconnects'
  BY <1>1 DEF NetInv, PeersThere, PeerReconnects
<1>6. net_mishaps' \subseteq NetMishaps
  BY <1>1 DEF NetInv, cnTypeOK, NetMishaps
<1>7. ActiveIsTrue' /\ OneSender'
  <2>1. CASE Used(a) /\ ~clients[a].dead
    BY <1>1, <2>1 DEF ActiveIsTrue, OneSender
  <2>2. CASE ~(Used(a) /\ ~clients[a].dead)
    <3>1. clients[a].chan = "NULL"
      BY <2>2, EmptyRecords DEF NetInv, ClientsOwn, DeadIsDropped
    <3> QED
      BY <1>1, <2>2, <3>1, EmptyRecords, SilentClient
  <2> QED
    BY <2>1, <2>2
<1> QED
  BY <1>1, <1>3, <1>4, <1>5, <1>6, <1>7, EmptyRecords, ClientStep DEF NetInv, cnTypeOK, ClientsOwn

(* The listener's spies come and go.                                           *)
LEMMA ServerSpyInv ==
    ASSUME NetInv, NEW c \in Channel, server_add(c) \/ server_del(c)
    PROVE  NetInv'
<1>1. /\ UNCHANGED <<source, peer, listen_sock, password, clients, drop_client, net_mishaps>>
      /\ server_spy' \in [Channel -> {"none", "inactive", "active"}]
      /\ server_spy'[c] # "none" => (server_spy'[c] = "active" <=> Listens(c))
      /\ \A d \in Channel \ {c} : server_spy'[d] = server_spy[d]
  BY DEF server_add, server_del, NetInv, cnTypeOK
<1>2. cnTypeOK' /\ PeerReconnects' /\ DeadIsDropped'
  BY <1>1 DEF NetInv, cnTypeOK, PeerReconnects, DeadIsDropped
<1>3. ActiveIsTrue'
  <2>1. \A d \in Channel : Listens(d)' <=> Listens(d)
    BY <1>1 DEF Listens
  <2> QED
    BY <1>1, <2>1 DEF NetInv, ActiveIsTrue
<1>4. PeersThere' /\ ClientsOwn' /\ OneSender'
  BY <1>1 DEF NetInv, PeersThere, ClientsOwn, OneSender, Used
<1> QED
  BY <1>2, <1>3, <1>4 DEF NetInv

(* All clients are closed together, and no spy is left active.                 *)
LEMMA NoClientsInv ==
    ASSUME NetInv, clients' = [a \in Address |-> NoClient], PeersThere', PeerReconnects',
           UNCHANGED <<source, password>>, drop_client' \in [Address -> Nat],
           listen_sock' \in {"open", "NULL"}, net_mishaps' \subseteq NetMishaps,
           server_spy' \in [Channel -> {"none", "inactive"}]
    PROVE  NetInv'
<1>1. /\ clients' \in [Address -> Client]
      /\ \A a \in Address :
           /\ clients'[a] = NoClient /\ clients'[a].of = "none" /\ Len(clients'[a].lines) <= MaxUnread
           /\ clients'[a].authed = FALSE /\ clients'[a].chan = "NULL" /\ clients'[a].dead = FALSE
  <2>1. \A a \in Address : clients'[a] = NoClient
    OBVIOUS
  <2> QED
    BY <2>1, EmptyRecords
<1>2. \A c \in Channel : ~Listens(c)'
  BY <1>1, ChanspyNetAssumption DEF Listens
<1>3. cnTypeOK'
  <2>1. \A p \in Peer : peer'[p].sock \in {"NULL", "connecting", "connected"}
    BY DEF PeersThere, PeerRecord
  <2>2. server_spy' \in [Channel -> {"none", "inactive", "active"}]
    OBVIOUS
  <2> QED
    BY <1>1, <2>1, <2>2 DEF NetInv, cnTypeOK
<1>4. ActiveIsTrue'
  <2>1. \A c \in Channel : server_spy'[c] # "active"
    OBVIOUS
  <2> QED
    BY <1>2, <2>1 DEF ActiveIsTrue
<1>5. DeadIsDropped' /\ ClientsOwn' /\ OneSender'
  BY <1>1 DEF NetInv, DeadIsDropped, ClientsOwn, OneSender, Used
<1> QED
  BY <1>3, <1>4, <1>5 DEF NetInv

\* Reloads and the listener keep the invariant.
LEMMA ListenerInv ==
    ASSUME NetInv, chanspy_conf_reload \/ listener_freed \/ server_reload
    PROVE  NetInv'
<1>1. UNCHANGED peer => PeersThere' /\ PeerReconnects'
  BY DEF NetInv, PeersThere, PeerReconnects
<1>2. CASE chanspy_conf_reload /\ Listener
  <2>1. /\ UNCHANGED <<source, peer, password, clients, drop_client, server_spy, net_mishaps>>
        /\ listen_sock' \in {"open", "NULL"}
    BY <1>2 DEF chanspy_conf_reload, Listener
  <2>2. \A c \in Channel : Listens(c)' <=> Listens(c)
    BY <2>1 DEF Listens
  <2> QED
    BY <1>1, <2>1, <2>2 DEF NetInv, cnTypeOK, ActiveIsTrue, DeadIsDropped, ClientsOwn, OneSender, Used
<1>3. CASE chanspy_conf_reload /\ NoListener
  <2>1. /\ UNCHANGED <<source, peer, password, drop_client, net_mishaps>>
        /\ listen_sock' = "NULL" /\ clients' = [a \in Address |-> NoClient]
        /\ server_spy' \in [Channel -> {"none", "inactive"}]
    BY <1>3 DEF chanspy_conf_reload, NoListener, NetInv, cnTypeOK
  <2> QED
    BY <1>1, <2>1, NoClientsInv DEF NetInv, cnTypeOK, ClientsOwn
<1>4. ASSUME NEW mishap \in {"freed", "timer"}, Lost(mishap)
      PROVE  NetInv'
  <2>1. /\ net_mishaps' = net_mishaps \cup {mishap} /\ listen_sock' = "NULL"
        /\ clients' = [a \in Address |-> NoClient] /\ drop_client' = [a \in Address |-> 0]
        /\ server_spy' = [c \in Channel |-> "none"] /\ peer' = [p \in Peer |-> NoPeer]
        /\ UNCHANGED <<source, password>>
    BY <1>4 DEF Lost
  <2>2. peer' \in [Peer -> PeerRecord] /\ \A p \in Peer : peer'[p] = NoPeer
    BY <2>1, EmptyRecords
  <2>3. PeersThere' /\ PeerReconnects'
    BY <2>2, EmptyRecords DEF PeersThere, PeerReconnects
  <2>4. /\ drop_client' \in [Address -> Nat] /\ server_spy' \in [Channel -> {"none", "inactive"}]
        /\ net_mishaps' \subseteq NetMishaps
    BY <2>1 DEF NetInv, cnTypeOK, NetMishaps
  <2> QED
    BY <2>1, <2>3, <2>4, NoClientsInv
<1>5. CASE server_reload /\ ~(\E a \in Address : drop_client[a] > 0)
  <2>1. /\ UNCHANGED <<source, peer, password, drop_client, net_mishaps>>
        /\ listen_sock' \in {"open", "NULL"} /\ clients' = [a \in Address |-> NoClient]
        /\ server_spy' \in [Channel -> {"none", "inactive"}]
    BY <1>5 DEF server_reload, NetInv, cnTypeOK
  <2> QED
    BY <1>1, <2>1, NoClientsInv DEF NetInv, cnTypeOK, ClientsOwn
<1>6. server_reload => Lost("timer") \/ ~(\E a \in Address : drop_client[a] > 0)
  BY DEF server_reload
<1> QED
  BY <1>2, <1>3, <1>4, <1>5, <1>6 DEF chanspy_conf_reload, listener_freed

(* One case per step of the connections.                                       *)
LEMMA NetNextInv == NetInv /\ cnNext => NetInv'
<1> SUFFICES ASSUME NetInv, cnNext PROVE NetInv'
  OBVIOUS
<1>1. ASSUME NEW p \in Peer,
             \/ peer_add(p) \/ peer_del(p) \/ chanspy_client_reconnect_tmr(p) \/ chanspy_client_timeout(p)
             \/ chanspy_client_lost(p) \/ Spied(p) \/ \E a \in Address : Connected(p, a)
      PROVE  NetInv'
  BY <1>1, PeersInv, ConnectedInv
<1>2. ASSUME NEW a \in Address,
             chanspy_server_read(a) \/ chanspy_server_hangup(a) \/ chanspy_server_drop_client_tmr(a)
      PROVE  NetInv'
  BY <1>2, ReadInv, HangupInv, DropClientInv
<1>3. ASSUME NEW c \in Channel, server_add(c) \/ server_del(c)
      PROVE  NetInv'
  BY <1>3, ServerSpyInv
<1> QED
  BY <1>1, <1>2, <1>3, ListenerInv DEF cnNext

-----------------------------------------------------------------------------
(* All three together.                                                         *)

(* What a behaviour is not about stays as it was at the start.                 *)
SpyOnlyInItsPart ==
    part = "joins" => /\ spy = NoSpy /\ ctx = "none" /\ phase = "loaded" /\ saved = NoSpy
                      /\ relayed = {} /\ mishaps = {}

AllInv == JoinInv /\ (part # "joins" => SpyInv) /\ SpyOnlyInItsPart /\ NetInv

(* A spy's record, its ref and whom the ref calls are told apart as the run     *)
(* does.                                                                       *)
LEMMA InvImpliesSound == AllInv => JoinsSound
<1> SUFFICES ASSUME AllInv PROVE JoinsSound
  OBVIOUS
<1>1. ChanJoinSound
  BY DEF AllInv, JoinInv
<1>2. ChanspySound
  <2>1. CASE part # "joins"
    <3>1. SpyInv
      BY <2>1 DEF AllInv
    <3>2. RefHasSpy
      BY <3>1 DEF SpyInv, RefCalls, RefHasSpy
    <3> QED
      BY <3>1, <3>2 DEF SpyInv, ChanspySound
  <2>2. CASE part = "joins"
    <3>1. /\ spy = NoSpy /\ ctx = "none" /\ phase = "loaded" /\ saved = NoSpy
          /\ relayed = {} /\ mishaps = {}
      BY <2>2 DEF AllInv, SpyOnlyInItsPart
    <3>2. csTypeOK
      BY <3>1, NoSpyRecord DEF csTypeOK, Record
    <3>3. RefHasSpy /\ ActiveHasRef /\ InactiveWasTold /\ ReloadKeeps /\ NoCallToNowhere
      BY <3>1, NoSpyRecord DEF RefHasSpy, ActiveHasRef, InactiveWasTold, ReloadKeeps, NoCallToNowhere
    <3> QED
      BY <3>2, <3>3 DEF ChanspySound
  <2> QED
    BY <2>1, <2>2
<1>3. ChanspyNetSound
  BY DEF AllInv, NetInv, ChanspyNetSound
<1> QED
  BY <1>1, <1>2, <1>3 DEF JoinsSound

(* Entries are sound and modules are told, and so are spies, in a channel and  *)
(* over the network (chanjoin.c, chanspy.c).                                   *)
THEOREM SpecJoinsSound == AllSpec => []JoinsSound
<1>1. AllInit => AllInv
  <2> SUFFICES ASSUME AllInit PROVE AllInv
    OBVIOUS
  <2>1. csInit /\ cnInit /\ Init
    BY DEF AllInit, csInit
  <2>2. SpyOnlyInItsPart
    BY <2>1 DEF csInit, SpyOnlyInItsPart
  <2> QED
    BY <2>1, <2>2, JoinInitInv, SpyInitInv, NetInitInv DEF AllInv
<1>2. AllInv /\ [AllNext]_allVars => AllInv'
  <2> SUFFICES ASSUME AllInv, AllNext \/ UNCHANGED allVars PROVE AllInv'
    OBVIOUS
  <2>1. /\ UNCHANGED netVars => NetInv'
        /\ UNCHANGED <<vars, csVars>> /\ SpyInv => SpyInv'
        /\ UNCHANGED <<part, csVars>> => SpyOnlyInItsPart'
    <3>1. UNCHANGED netVars => NetInv'
      BY DEF AllInv, netVars, NetInv, cnTypeOK, PeerReconnects, ActiveIsTrue, DeadIsDropped,
         PeersThere, ClientsOwn, OneSender, Used, Listens
    <3>2. UNCHANGED <<vars, csVars>> /\ SpyInv => SpyInv'
      BY DEF vars, entry, csVars, SpyInv, csTypeOK, SpyRecords, RefCalls, ActiveHasRef,
         InactiveWasTold, ReloadKeeps, NoCallToNowhere
    <3>3. UNCHANGED <<part, csVars>> => SpyOnlyInItsPart'
      BY DEF AllInv, csVars, SpyOnlyInItsPart
    <3> QED
      BY <3>1, <3>2, <3>3
  <2>2. [Next]_vars => JoinInv'
    BY JoinNextInv DEF AllInv
  <2>3. CASE part = "joins" /\ UNCHANGED part /\ Next /\ UNCHANGED <<csVars, netVars>>
    BY <2>1, <2>2, <2>3 DEF AllInv
  <2>4. CASE part = "chanspy" /\ UNCHANGED part /\ csNext /\ UNCHANGED netVars
    <3>1. JoinInv' /\ SpyInv'
      BY <2>2, <2>4, SpyStepsAreJoinSteps, SpyNextInv DEF AllInv
    <3> QED
      BY <2>1, <2>4, <3>1 DEF AllInv, SpyOnlyInItsPart
  <2>5. CASE part = "chanspy net" /\ UNCHANGED part /\ cnNext /\ UNCHANGED <<vars, csVars>>
    <3>1. JoinInv' /\ NetInv'
      BY <2>2, <2>5, NetNextInv DEF AllInv
    <3> QED
      BY <2>1, <2>5, <3>1 DEF AllInv
  <2>6. CASE UNCHANGED allVars
    BY <2>1, <2>2, <2>6 DEF allVars, AllInv
  <2> QED
    BY <2>3, <2>4, <2>5, <2>6 DEF AllNext
<1> QED
  BY <1>1, <1>2, InvImpliesSound, PTL DEF AllSpec
=============================================================================
