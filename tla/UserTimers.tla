------------------------------ MODULE UserTimers ------------------------------
(* modules/timers: messages that the owners of channels have said again and     *)
(* again.  Each is an entry with lines, which can be changed one by one, and    *)
(* is served by a timer of the core that adds itself again.  What is counted    *)
(* here is those timers: over changes of lines and interval, the bot's leaving  *)
(* and joining, and restarts.  Intervals do not matter, only that one changes.  *)
EXTENDS Naturals, Sequences, FiniteSets

CONSTANTS TimerChan, TimerName,
          MaxUserTimers,  \* timers/max_timers
          MaxMsgLines \* bound

ASSUME UserTimersAssumption == MaxUserTimers \in Nat /\ MaxMsgLines \in Nat \ {0}

VARIABLES user_timers,  \* the lines of each entry: TRUE for a text, FALSE where one was taken out
          core_timers,  \* how many timers of the core have the entry as their data
          in_channel,   \* the channels where the bot is
          timer_db,     \* the file
          unjoined,     \* channels whose timers run since a start although the bot is not there; history only
          said_twice    \* an entry got a second timer since the start; history only

utVars == <<user_timers, core_timers, in_channel, timer_db, unjoined, said_twice>>

Entry == TimerChan \X TimerName
Entries == DOMAIN user_timers
Of(c) == {e \in Entries : e[1] = c}
Put(e, lines) == [x \in Entries \cup {e} |-> IF x = e THEN lines ELSE user_timers[x]]

\* What becomes of the core's timers: none is left for the entries in gone, and each in more gets one
\* after that, as user_timer_del_timer and user_timer_add_timer do.
Core(gone, more) ==
    LET left(e) == IF e \in gone THEN 0 ELSE core_timers[e]
    IN  /\ core_timers' = [e \in Entry |-> IF e \in more THEN left(e) + 1 ELSE left(e)]
        /\ said_twice' = (said_twice \/ \E e \in more : left(e) > 0)

\* user_timer_db_read: whether the bot is in the channel is not asked, and the limits are not known yet.
Loads(file, joined) ==
    /\ user_timers' = file /\ in_channel' = joined
    /\ core_timers' = [e \in Entry |-> IF e \in DOMAIN file /\ file[e] # <<>> THEN 1 ELSE 0]
    /\ unjoined' = TimerChan \ joined

utInit ==
    /\ user_timers = <<>> /\ core_timers = [e \in Entry |-> 0] /\ in_channel = {}
    /\ timer_db = <<>> /\ unjoined = {} /\ said_twice = FALSE

-----------------------------------------------------------------------------
(* Commands, given in a channel where the bot is.                              *)

Command_in(e) == e[1] \in in_channel /\ UNCHANGED <<in_channel, timer_db, unjoined>>

timer_add_new(e, text) ==
    /\ Command_in(e) /\ e \notin Entries /\ (MaxUserTimers = 0 \/ Cardinality(Of(e[1])) < MaxUserTimers)
    /\ user_timers' = Put(e, IF text = "none" THEN <<>> ELSE <<TRUE>>)
    /\ Core({}, IF text = "none" THEN {} ELSE {e})

\* The interval and, if there is one at most, the line; a first line gets a timer although a changed
\* interval may have given one to the entry without lines.
timer_add_existing(e, changed, text) ==
    LET lines == user_timers[e]
        was == IF changed THEN {e} ELSE {} IN
    /\ Command_in(e) /\ e \in Entries
    /\ \/ /\ text = "none" \/ Len(lines) > 1 \/ (text = "*" /\ lines = <<>>)
          /\ UNCHANGED user_timers /\ Core(was, was)
       \/ /\ Len(lines) = 1 /\ text = "text" /\ user_timers' = Put(e, <<TRUE>>) /\ Core(was, was)
       \/ /\ Len(lines) = 1 /\ text = "*" /\ user_timers' = Put(e, <<>>) /\ Core({e}, {})
       \/ /\ lines = <<>> /\ text = "text" /\ user_timers' = Put(e, <<TRUE>>)
          /\ core_timers' = [core_timers EXCEPT ![e] = IF changed THEN 2 ELSE @ + 1]
          /\ said_twice' = (said_twice \/ changed \/ core_timers[e] > 0)

\* A line in the middle is emptied; the last one goes, with the empty ones before it.
Trimmed(lines) == SubSeq(lines, 1, CHOOSE n \in 0..Len(lines) :
                                       /\ n = 0 \/ lines[n]
                                       /\ \A k \in n + 1..Len(lines) : ~lines[k])

timer_msg_delete(e, i) ==
    /\ Command_in(e) /\ e \in Entries /\ i \in DOMAIN user_timers[e]
    /\ LET lines == Trimmed([user_timers[e] EXCEPT ![i] = FALSE])
           left == IF i = Len(user_timers[e]) THEN lines ELSE [user_timers[e] EXCEPT ![i] = FALSE]
       IN  user_timers' = Put(e, left) /\ Core(IF left = <<>> THEN {e} ELSE {}, {})

\* Where there is one line afterwards it is taken for a first line, also if it replaced one.
\* max_lines is only mentioned in a message.
timer_msg(e, i) ==
    /\ Command_in(e) /\ e \in Entries /\ i <= MaxMsgLines
    /\ LET n == Len(user_timers[e]) IN
        /\ i \in 1..n + 1
        /\ user_timers' = Put(e, IF i <= n THEN [user_timers[e] EXCEPT ![i] = TRUE] ELSE Append(user_timers[e], TRUE))
        /\ Core({}, IF Len(user_timers'[e]) = 1 THEN {e} ELSE {})

\* Mutant: the entry is freed and its timer stays.
user_timer_free_runs(gone) ==
    /\ user_timers' = [e \in Entries \ gone |-> user_timers[e]] /\ UNCHANGED <<core_timers, said_twice>>

user_timer_free(gone) == user_timers' = [e \in Entries \ gone |-> user_timers[e]] /\ Core(gone, {})

timer_del_cmd(e) == Command_in(e) /\ e \in Entries /\ user_timer_free({e})

-----------------------------------------------------------------------------
(* What happens otherwise.                                                     *)

\* The lines are said and the timer is added anew.
user_timer_func(e) == core_timers[e] > 0 /\ e \in Entries /\ UNCHANGED utVars

\* The bot joins: entries without lines get a timer too.
bot_join(c) ==
    /\ c \notin in_channel /\ in_channel' = in_channel \cup {c} /\ Core(Of(c), Of(c))
    /\ unjoined' = unjoined \ {c}
    /\ UNCHANGED <<user_timers, timer_db>>

\* It parts, is kicked or loses the connection.
user_timer_channel_del(c) ==
    /\ c \in in_channel /\ in_channel' = in_channel \ {c} /\ Core(Of(c), {})
    /\ UNCHANGED <<user_timers, timer_db, unjoined>>

user_timer_chanreg_del(c) ==
    /\ user_timer_free(Of(c)) /\ UNCHANGED <<in_channel, timer_db, unjoined>>

user_timer_db_write == timer_db' = user_timers /\ UNCHANGED <<user_timers, core_timers, in_channel, unjoined, said_twice>>

\* The module is loaded anew, and saves before: everything that its timers pointed to is freed.
user_timers_reload ==
    /\ timer_db' = user_timers /\ Loads(user_timers, in_channel) /\ said_twice' = FALSE

\* The bot starts anew, with or without saving.
bot_restart ==
    /\ timer_db' \in {timer_db, user_timers} /\ Loads(timer_db', {}) /\ said_twice' = FALSE

\* From an entry with two timers on, only a new start is followed.
utNext ==
    \/ /\ ~said_twice
       /\ \/ \E e \in Entry :
                \/ \E text \in {"none", "*", "text"} :
                    timer_add_new(e, text) \/ \E changed \in BOOLEAN : timer_add_existing(e, changed, text)
                \/ \E i \in 1..MaxMsgLines : timer_msg_delete(e, i) \/ timer_msg(e, i)
                \/ timer_del_cmd(e) \/ user_timer_func(e)
          \/ \E c \in TimerChan : bot_join(c) \/ user_timer_channel_del(c) \/ user_timer_chanreg_del(c)
          \/ user_timer_db_write
    \/ user_timers_reload \/ bot_restart

-----------------------------------------------------------------------------
(* Properties.                                                                 *)

UserTimersTypeOK ==
    /\ Entries \subseteq Entry /\ core_timers \in [Entry -> 0..2]
    /\ \A e \in Entries : user_timers[e] \in Seq(BOOLEAN) /\ Len(user_timers[e]) <= MaxMsgLines

\* A timer of the core leads to an entry that is there, and to each but one, unless a line was taken
\* for a first one (timers.c:220 and 356).
TimersLead ==
    \A e \in Entry : core_timers[e] > 0 => e \in Entries /\ (core_timers[e] > 1 => said_twice)

\* What is to be said is said as long as the bot is there, and nothing where it left.
SaidWhereItIs ==
    \A e \in Entries :
        /\ e[1] \in in_channel /\ user_timers[e] # <<>> => core_timers[e] > 0
        /\ e[1] \notin in_channel /\ core_timers[e] > 0 => e[1] \in unjoined

\* No entry is without an end: its last line is a text, however lines came and went.
LastIsText == \A e \in Entries : user_timers[e] # <<>> => user_timers[e][Len(user_timers[e])]

UserTimersSound == UserTimersTypeOK /\ TimersLead /\ SaidWhereItIs /\ LastIsText
=============================================================================
