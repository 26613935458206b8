------------------------------- MODULE ChanJoin -------------------------------
(* modules/chanjoin: one channel that several modules want the bot to be in. *)
(* Records of different channels share nothing but ready_to_join.  The       *)
(* server answers what it was sent in order, and may leave a JOIN without an *)
(* answer that chanjoin understands.  Timers fire in any order with lines.   *)
EXTENDS Integers, Sequences, FiniteSets

CONSTANTS Ref,        \* <<module, key>> pairs that ask for the channel
          MaxTries,   \* chanjoin/max_tries
          Once,       \* the refs of modules that ask with rejoin_once
          HasCommand, \* is there an unban or invite command for a refusal?
          MaxRejoins, \* bound: rejoin timers that are pending at a time
          MaxOut      \* bound: commands the server has not answered

ASSUME ChanJoinAssumption ==
    /\ IsFiniteSet(Ref)
    /\ Once \subseteq Ref
    /\ MaxTries \in Nat \ {0}
    /\ HasCommand \in BOOLEAN
    /\ {MaxRejoins, MaxOut} \subseteq Nat \ {0}

VARIABLES known,         \* the channel has an entry in cj_channels
          state, channel, tries, refs, \* of that entry; channel: the pointer is set
          timeout, rejoins, joined,    \* its timers; joined: the refs of chanjoin_joined
          ready_to_join,
          link,          \* "up": perform is done, "login": not yet, "down"
          irc,           \* the channel of chanuser.c: "absent", "burst" or "complete"
          out,           \* commands sent on this connection and not answered
          told,          \* what each ref's module was told last; history only
          wants          \* the refs whose module expects to have one; history only

entry == <<known, state, channel, tries, refs>>
timers == <<timeout, rejoins, joined>>
world == <<ready_to_join, link, irc>>
vars == <<entry, timers, world, out, told, wants>>

State == {"NONE", "JOIN_PENDING", "JOINED", "REJOIN_PENDING", "INACTIVE", "JOIN_LATER"}

Init ==
    /\ known = FALSE /\ state = "NONE" /\ channel = FALSE /\ tries = 0 /\ refs = {}
    /\ timeout = FALSE /\ rejoins = 0 /\ joined = {}
    /\ ready_to_join = FALSE /\ link = "login" /\ irc = "absent"
    /\ out = <<>>
    /\ told = [r \in Ref |-> "nothing"]
    /\ wants = {}

-----------------------------------------------------------------------------
(* Pieces that the handlers share.                                            *)

Room == Len(out) < MaxOut

\* Mutant: the entry goes and its timers stay.
chanjoin_free_keepTimers ==
    /\ known' = FALSE /\ state' = "NONE" /\ channel' = FALSE /\ tries' = 0 /\ refs' = {}
    /\ UNCHANGED timers

\* dict_delete(cj_channels, ...) with chanjoin_free as its free function
chanjoin_free ==
    /\ known' = FALSE /\ state' = "NONE" /\ channel' = FALSE /\ tries' = 0 /\ refs' = {}
    /\ timeout' = FALSE /\ rejoins' = 0 /\ joined' = {}

\* Mutant: the entry is not deleted.
give_up_keeps ==
    /\ told' = [r \in Ref |-> IF r \in refs THEN "error" ELSE told[r]]
    /\ UNCHANGED <<entry, timers>>

\* error_func of every ref, then the entry goes
give_up ==
    /\ told' = [r \in Ref |-> IF r \in refs THEN "error" ELSE told[r]]
    /\ chanjoin_free

\* success_func of every ref
TellSuccess == [r \in Ref |-> IF r \in refs THEN "success" ELSE told[r]]

-----------------------------------------------------------------------------
(* What modules call.                                                         *)

Fresh(r) == [state   |-> "NONE",
             channel |-> irc # "absent",
             tries   |-> IF r \in Once THEN MaxTries - 1 ELSE 0]

\* The entry that a ref is added to
Entry(r) == IF known THEN [state |-> state, channel |-> channel, tries |-> tries] ELSE Fresh(r)

\* JOIN is sent and watched by a timer.
join == /\ state' = "JOIN_PENDING" /\ out' = Append(out, "JOIN") /\ timeout' = TRUE

\* The end of chanjoin_addchan, for the entry `e' with the ref `r' in it
addchan_join(r, e) ==
    /\ known' = TRUE /\ channel' = e.channel /\ tries' = e.tries
    /\ \/ /\ ~e.channel /\ e.state \notin {"JOIN_PENDING", "REJOIN_PENDING"}
          /\ IF ready_to_join THEN join ELSE state' = "JOIN_LATER" /\ UNCHANGED <<out, timeout>>
          /\ UNCHANGED joined
       \/ /\ ~e.channel /\ e.state \in {"JOIN_PENDING", "REJOIN_PENDING"}
          /\ state' = e.state
          /\ UNCHANGED <<out, timeout, joined>>
       \/ /\ e.channel
          /\ state' = "JOINED"
          /\ joined' = joined \cup {r}
          /\ UNCHANGED <<out, timeout>>
    /\ UNCHANGED <<rejoins, world>>

chanjoin_addchan(r) ==
    /\ Room
    /\ r \notin refs
    /\ refs' = refs \cup {r}
    /\ wants' = wants \cup {r}
    /\ told' = [told EXCEPT ![r] = "nothing"]
    /\ addchan_join(r, Entry(r))

\* The module of `r' is reloaded: module_unloaded takes its functions away, and
\* its init asks again and finds the ref.
reload_module(r) ==
    /\ Room
    /\ r \in refs
    /\ told' = [told EXCEPT ![r] = "nothing"]
    /\ addchan_join(r, Entry(r))
    /\ UNCHANGED <<refs, wants>>

\* If chanjoin has given the channel up already, its assertions fail.
chanjoin_delchan(r) ==
    /\ Room
    /\ r \in wants
    /\ wants' = wants \ {r}
    /\ \/ /\ r \notin refs
          /\ UNCHANGED <<entry, timers, out>>
       \/ /\ r \in refs /\ refs # {r}
          /\ refs' = refs \ {r}
          /\ joined' = joined \ {r}
          /\ UNCHANGED <<known, state, channel, tries, timeout, rejoins, out>>
       \/ /\ refs = {r}
          /\ out' = IF state = "INACTIVE" THEN out ELSE Append(out, "PART")
          /\ chanjoin_free
    /\ UNCHANGED <<world, told>>

-----------------------------------------------------------------------------
(* Timers.                                                                    *)

\* Mutant: a join that times out is sent again.
chanjoin_join_timeout_retries ==
    /\ timeout
    /\ \/ state = "JOIN_PENDING" /\ ~channel /\ Room /\ out' = Append(out, "JOIN") /\ UNCHANGED timeout
       \/ ~(state = "JOIN_PENDING" /\ ~channel) /\ timeout' = FALSE /\ UNCHANGED out
    /\ UNCHANGED <<entry, rejoins, joined, told, world, wants>>

chanjoin_join_timeout ==
    /\ timeout
    /\ \/ state = "JOIN_PENDING" /\ ~channel /\ give_up
       \/ /\ ~(state = "JOIN_PENDING" /\ ~channel)
          /\ timeout' = FALSE
          /\ UNCHANGED <<entry, rejoins, joined, told>>
    /\ UNCHANGED <<world, out, wants>>

\* If the channel is gone by now, the assertion fails and nobody is told.
chanjoin_addchan_tmr ==
    \E r \in joined :
        /\ joined' = joined \ {r}
        /\ \/ channel /\ told' = [told EXCEPT ![r] = "success"]
           \/ ~channel /\ UNCHANGED told
        /\ UNCHANGED <<entry, timeout, rejoins, world, out, wants>>

chanjoin_rejoin_tmr ==
    /\ rejoins > 0 /\ Room
    /\ rejoins' = rejoins - 1
    /\ state' = "REJOIN_PENDING"
    /\ out' = Append(out, "JOIN")
    /\ UNCHANGED <<known, channel, tries, refs, timeout, joined, world, told, wants>>

-----------------------------------------------------------------------------
(* Lines and hooks.  channel_del_hook runs while the channel still exists.    *)

channel_del_hook ==
    \/ ~known /\ UNCHANGED <<entry, timers, told>>
    \/ /\ known
       /\ channel' = FALSE
       /\ tries' = tries + 1
       /\ tries' < MaxTries
       /\ rejoins' = rejoins + 1
       /\ UNCHANGED <<known, state, refs, timeout, joined, told>>
    \/ known /\ tries + 1 >= MaxTries /\ give_up

\* The bot is kicked, or leaves by a PART that is answered.
ChannelDel ==
    /\ link # "down" /\ irc # "absent" /\ rejoins < MaxRejoins
    /\ out' \in {out} \cup (IF out # <<>> /\ Head(out) = "PART" THEN {Tail(out)} ELSE {})
    /\ irc' = "absent"
    /\ channel_del_hook
    /\ UNCHANGED <<ready_to_join, link, wants>>

\* A JOIN in the channel, or before the bot has logged in, is ignored; so is a
\* PART when it is not there; other refusals have numerics nobody handles.
Ignored ==
    /\ link # "down" /\ out # <<>>
    /\ Head(out) = "PART" => irc = "absent"
    /\ out' = Tail(out)
    /\ UNCHANGED <<entry, timers, world, told, wants>>

\* The handlers of JOIN: chanuser_irc.c creates the channel, chanjoin stops its timer.
handle_join ==
    /\ link # "down" /\ out # <<>> /\ Head(out) = "JOIN" /\ irc = "absent"
    /\ out' = Tail(out)
    /\ irc' = "burst"
    /\ timeout' = FALSE
    /\ UNCHANGED <<entry, rejoins, joined, ready_to_join, link, told, wants>>

channel_complete_hook ==
    /\ irc = "burst" /\ link # "down"
    /\ irc' = "complete"
    /\ IF known
       THEN channel' = TRUE /\ state' = "JOINED" /\ tries' = 0 /\ told' = TellSuccess
       ELSE UNCHANGED <<state, channel, tries, told>>
    /\ UNCHANGED <<known, refs, timers, ready_to_join, link, out, wants>>

\* 471, 473, 474 and 475: the four handlers differ in the command they send.
num_refused ==
    /\ link # "down" /\ out # <<>> /\ Head(out) = "JOIN" /\ irc = "absent"
    /\ rejoins < MaxRejoins
    /\ out' = Tail(out)
    /\ \/ ~known /\ UNCHANGED <<entry, timers, told>>
       \/ /\ known /\ HasCommand /\ tries + 1 <= MaxTries
          /\ tries' = tries + 1
          /\ state' = "INACTIVE"
          /\ rejoins' = rejoins + 1
          /\ UNCHANGED <<known, channel, refs, timeout, joined, told>>
       \/ known /\ (~HasCommand \/ tries + 1 > MaxTries) /\ give_up
    /\ UNCHANGED <<world, wants>>

-----------------------------------------------------------------------------
(* The connection.                                                            *)

irc_disconnected ==
    /\ link # "down"
    /\ link' = "down"
    /\ out' = <<>>
    /\ ready_to_join' = FALSE
    /\ tries' = 0 /\ channel' = FALSE /\ state' = IF known THEN "JOIN_LATER" ELSE state
    /\ timeout' = FALSE /\ joined' = {} /\ rejoins' = 0
    /\ UNCHANGED <<known, refs, irc, told, wants>>

\* irc_reconnect: after a disconnect, or from a connection that gave no sign of
\* life.  chanuser_flush deletes the channels of the old connection.
irc_reconnect ==
    /\ link \in {"down", "up"} /\ rejoins < MaxRejoins
    /\ link' = "login"
    /\ out' = <<>>
    /\ irc' = "absent"
    /\ IF irc # "absent" THEN channel_del_hook ELSE UNCHANGED <<entry, timers, told>>
    /\ UNCHANGED <<ready_to_join, wants>>

perform_done ==
    /\ link = "login" /\ Room
    /\ link' = "up"
    /\ ready_to_join' = TRUE
    /\ IF known /\ state = "JOIN_LATER" /\ ~channel THEN join ELSE UNCHANGED <<state, timeout, out>>
    /\ UNCHANGED <<known, channel, tries, refs, rejoins, joined, irc, told, wants>>

Timers == chanjoin_join_timeout \/ chanjoin_addchan_tmr \/ chanjoin_rejoin_tmr
Server == ChannelDel \/ Ignored \/ handle_join \/ channel_complete_hook \/ num_refused
Link == irc_disconnected \/ irc_reconnect \/ perform_done
Modules == \E r \in Ref : chanjoin_addchan(r) \/ reload_module(r) \/ chanjoin_delchan(r)

Next == Modules \/ Timers \/ Server \/ Link

Spec == Init /\ [][Next]_vars

\* timer_poll runs every turn; the server completes the burst of a channel
\* that the bot has joined.
Fairness ==
    /\ WF_vars(chanjoin_join_timeout)
    /\ WF_vars(chanjoin_rejoin_tmr)
    /\ WF_vars(channel_complete_hook)

FairSpec == Spec /\ Fairness

-----------------------------------------------------------------------------
(* Properties.                                                                *)

\* Types of chanjoin.c's entries, timers and of the messages under way.
TypeOK ==
    /\ known \in BOOLEAN
    /\ state \in State
    /\ channel \in BOOLEAN
    /\ tries \in Nat
    /\ refs \subseteq Ref
    /\ timeout \in BOOLEAN
    /\ rejoins \in 0 .. MaxRejoins
    /\ joined \subseteq Ref
    /\ ready_to_join \in BOOLEAN
    /\ link \in {"up", "login", "down"}
    /\ irc \in {"absent", "burst", "complete"}
    /\ out \in Seq({"JOIN", "PART"})
    /\ told \in [Ref -> {"nothing", "success", "error"}]
    /\ wants \subseteq Ref

\* An entry has refs and its timers belong to it: nothing of a deleted entry
\* or ref is left for a timer to use.
NothingDangles ==
    /\ known <=> refs # {}
    /\ ~known => ~timeout /\ rejoins = 0 /\ joined = {} /\ ~channel
    /\ channel => irc # "absent"
    /\ joined \subseteq refs

\* An entry whose channel the bot is not in has something that goes on with
\* it: the login, a timer, or the burst of a channel that was just joined.
\* Rejoining has not: a JOIN of chanjoin_rejoin_tmr is not timed.
Watched ==
    known /\ ~channel /\ irc = "absent" =>
        CASE state = "JOIN_LATER"     -> link # "up"
          [] state = "JOIN_PENDING"   -> timeout \/ rejoins > 0
          [] state = "REJOIN_PENDING" -> TRUE
          [] OTHER                    -> rejoins > 0

\* Attempts are limited, whichever of kicks, refusals and reconnects use them up.
TriesBounded == known => tries <= MaxTries

\* An entry is sound: nothing dangles, something goes on, and not for ever.
EntrySound == TypeOK /\ NothingDangles /\ Watched /\ TriesBounded

\* A module whose channel is joined was told so, or is about to be.
ToldWhenJoined ==
    \A r \in refs : channel /\ irc = "complete" => told[r] = "success" \/ r \in joined

\* A module that lost its ref without asking for it was told of the error.
ToldWhenLost == \A r \in wants \ refs : told[r] = "error"

\* Success and error functions tell each module what became of its channel.
ModulesTold == ToldWhenJoined /\ ToldWhenLost

ChanJoinSound == EntrySound /\ ModulesTold

\* What JoinService promises, which chanrequest and the other clients of chanjoin rely on: a module is
\* told of success only while it has asked and the bot is there, a refusal hits all who asked and is the
\* last they hear, whatever order timers, lines, reloads and losses come in (chanjoin.c).
Service == INSTANCE JoinService WITH
    standing <- [r \in Ref |-> IF r \in refs THEN (IF told[r] = "success" THEN "in" ELSE "waits")
                              ELSE IF r \in wants THEN "refused" ELSE "none"],
    here <- irc # "absent"

ImplementsJoinService == Service!Spec
=============================================================================
