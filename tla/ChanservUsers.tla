----------------------------- MODULE ChanservUsers -----------------------------
(* modules/chanserv_users: the user list of a channel that ChanServ serves,    *)
(* fetched through srvx in two requests: USERS fills a new list, NAMES tells   *)
(* which users on IRC the accounts are, and puts the new list in place.  One   *)
(* channel; accounts are shared and counted.                                   *)
(*                                                                             *)
(* A response finds its channel by name.  What it meets when that is another   *)
(* one by now is recorded in slips:                                          *)
(*   "left"      the channel was forgotten with a response under way           *)
(*   "twice"     ChanServ joined before the bot had the list of users: the     *)
(*               channel is added by the join and again when the list ends     *)
(*   "dropped"   srvx dropped a request without calling back (Srvx: "early")   *)
(*   "unsynced"  the rule chanserv() was evaluated before the first list came  *)
EXTENDS Naturals, Sequences, FiniteSets

CONSTANTS Account,    \* accounts at ChanServ
          Nick,       \* users on IRC
          NOACCOUNT,  \* no account
          MaxReq      \* bound: responses under way

ASSUME ChanservUsersAssumption == NOACCOUNT \notin Account /\ MaxReq \in Nat

\* NULL for a list.
NOLIST == {NOACCOUNT}

VARIABLES
    channel,     \* the bot: "out", "burst" or "in" the channel
    chanserv,    \* ChanServ is in the channel, as far as the bot knows
    cschans,     \* chanserv_channels, the newest first
    refcount,    \* of accounts; 0 when an account does not exist
    irc_users,   \* of accounts
    online,      \* users that the bot knows
    responses,   \* what srvx was asked for
    crashed,     \* a NULL list was used
    slips        \* see above; history only

csVars == <<channel, chanserv, cschans, refcount, irc_users, online, responses, crashed, slips>>

Cschan == [users : (SUBSET Account) \cup {NOLIST}, tmp_users : (SUBSET Account) \cup {NOLIST}]

csInit ==
    /\ channel = "in" /\ chanserv = FALSE
    /\ cschans = <<>>
    /\ refcount = [a \in Account |-> 0]
    /\ irc_users = [a \in Account |-> {}]
    /\ online = Nick
    /\ responses = <<>>
    /\ crashed = FALSE
    /\ slips = {}

Has(list, a) == IF list # NOLIST /\ a \in list THEN 1 ELSE 0

\* Every entry of a list lets go of its account, which goes with the last one.
csuser_free(list) ==
    /\ refcount' = [a \in Account |-> refcount[a] - Has(list, a)]
    /\ irc_users' = [a \in Account |-> IF refcount'[a] = 0 THEN {} ELSE irc_users[a]]

\* A request for the list, unless one is being filled.
chanserv_fetch_users(cs) ==
    IF cs[1].tmp_users = NOLIST
    THEN [cs |-> [cs EXCEPT ![1].tmp_users = {}], ask |-> <<"users">>]
    ELSE [cs |-> cs, ask |-> <<>>]

cschan_add ==
    LET f == chanserv_fetch_users(<<[users |-> NOLIST, tmp_users |-> NOLIST]>> \o cschans) IN
    /\ Len(responses) < MaxReq /\ Len(cschans) < 2
    /\ cschans' = f.cs
    /\ responses' = responses \o f.ask
    /\ slips' = IF cschans # <<>> THEN slips \cup {"twice"} ELSE slips
    /\ UNCHANGED <<refcount, irc_users, online, crashed>>

\* The first that is found.  (Both its lists: entries of a channel that was added twice are not
\* followed any further.)
cschan_del ==
    /\ cschans' = IF cschans = <<>> THEN <<>> ELSE Tail(cschans)
    /\ IF cschans = <<>> THEN UNCHANGED <<refcount, irc_users>>
       ELSE LET h == Head(cschans) IN
            /\ refcount' = [a \in Account |-> refcount[a] - Has(h.users, a) - Has(h.tmp_users, a)]
            /\ irc_users' = [a \in Account |-> IF refcount'[a] = 0 THEN {} ELSE irc_users[a]]
    /\ slips' = IF cschans # <<>> /\ responses # <<>> THEN slips \cup {"left"} ELSE slips
    /\ UNCHANGED <<online, responses, crashed>>
-----------------------------------------------------------------------------
(* What happens on IRC.                                                        *)

bot_joins ==
    /\ channel = "out" /\ channel' = "burst"
    /\ chanserv' \in BOOLEAN
    /\ UNCHANGED <<cschans, refcount, irc_users, online, responses, crashed, slips>>

channel_complete_hook ==
    /\ channel = "burst" /\ channel' = "in"
    /\ UNCHANGED chanserv
    /\ IF chanserv THEN cschan_add
       ELSE UNCHANGED <<cschans, refcount, irc_users, online, responses, crashed, slips>>

join ==
    /\ channel # "out" /\ ~chanserv
    /\ chanserv' = TRUE /\ UNCHANGED channel
    /\ cschan_add

\* ChanServ leaves.
chanuser_del_hook ==
    /\ chanserv
    /\ chanserv' = FALSE /\ UNCHANGED channel
    /\ cschan_del

\* The bot leaves.
channel_del_hook ==
    /\ channel # "out"
    /\ channel' = "out" /\ chanserv' = FALSE
    /\ cschan_del

user_del_hook(u) ==
    /\ u \in online /\ online' = online \ {u}
    /\ irc_users' = [a \in Account |-> irc_users[a] \ {u}]
    /\ UNCHANGED <<channel, chanserv, cschans, refcount, responses, crashed, slips>>

user_appears(u) ==
    /\ u \notin online /\ online' = online \cup {u}
    /\ UNCHANGED <<channel, chanserv, cschans, refcount, irc_users, responses, crashed, slips>>
-----------------------------------------------------------------------------
(* Requests and responses.                                                     *)

\* The timer, and the command update.
chanserv_update_users ==
    /\ cschans # <<>> /\ Len(responses) < MaxReq
    /\ LET f == chanserv_fetch_users(cschans) IN
       cschans' = f.cs /\ responses' = responses \o f.ask
    /\ UNCHANGED <<channel, chanserv, refcount, irc_users, online, crashed, slips>>

Lost == crashed' = TRUE /\ UNCHANGED <<cschans, refcount, irc_users>>

\* Mutant: the list that was freed stays.
cancelled_list_kept ==
    /\ csuser_free(Head(cschans).tmp_users)
    /\ UNCHANGED <<cschans, crashed>>

\* The request was cancelled: the new list is freed, if there is one.
cancelled_list ==
    IF Head(cschans).tmp_users = NOLIST THEN Lost
    ELSE /\ csuser_free(Head(cschans).tmp_users)
         /\ cschans' = [cschans EXCEPT ![1].tmp_users = NOLIST]
         /\ UNCHANGED crashed

\* The lines name the accounts of list; asks for the names afterwards.  The list must be empty, or
\* the response is left half read.
users_lines(list) ==
    LET tmp == Head(cschans).tmp_users IN
    \/ /\ tmp = NOLIST /\ Lost /\ UNCHANGED responses
    \/ /\ tmp \notin {NOLIST, {}} /\ responses' = Tail(responses)
       /\ UNCHANGED <<cschans, refcount, irc_users, crashed>>
    \/ /\ tmp = {}
       /\ cschans' = [cschans EXCEPT ![1].tmp_users = list]
       /\ refcount' = [a \in Account |-> refcount[a] + Has(list, a)]
       /\ responses' = Append(Tail(responses), "names")
       /\ UNCHANGED <<irc_users, crashed>>

srvx_response_users ==
    /\ responses # <<>> /\ Head(responses) = "users"
    /\ \/ cschans = <<>> /\ responses' = Tail(responses) /\ UNCHANGED <<cschans, refcount, irc_users, crashed>>
       \/ cschans # <<>> /\ cancelled_list /\ responses' = Tail(responses)
       \/ cschans # <<>> /\ \E list \in SUBSET Account : list # {} /\ users_lines(list)
    /\ UNCHANGED <<channel, chanserv, online, slips>>

\* Who may be named for an account: a user that the bot knows.
Named(a) == online

\* The names, and the new list takes the old one's place.
names_lines ==
    IF Head(cschans).tmp_users = NOLIST /\ Head(cschans).users = NOLIST
    THEN UNCHANGED <<cschans, refcount, irc_users, crashed>>
    ELSE /\ cschans' = [cschans EXCEPT ![1] = [users |-> @.tmp_users, tmp_users |-> NOLIST]]
         /\ refcount' = [a \in Account |-> refcount[a] - Has(Head(cschans).users, a)]
         /\ \E names \in [Account -> SUBSET Nick] :
               /\ \A a \in Account : names[a] \subseteq Named(a) /\ (refcount[a] = 0 => names[a] = {})
               /\ irc_users' = [a \in Account |-> IF refcount'[a] = 0 THEN {} ELSE irc_users[a] \cup names[a]]
         /\ UNCHANGED crashed

srvx_response_names ==
    /\ responses # <<>> /\ Head(responses) = "names"
    /\ responses' = Tail(responses)
    /\ \/ cschans = <<>> /\ UNCHANGED <<cschans, refcount, irc_users, crashed>>
       \/ cschans # <<>> /\ (cancelled_list \/ names_lines)
    /\ UNCHANGED <<channel, chanserv, online, slips>>

\* srvx is about to log in: nobody is called back.
request_dropped ==
    /\ responses # <<>> /\ responses' = Tail(responses)
    /\ slips' = slips \cup {"dropped"}
    /\ UNCHANGED <<channel, chanserv, cschans, refcount, irc_users, online, crashed>>

\* The rule chanserv(access) walks the list.
chanserv_rule ==
    /\ cschans # <<>> /\ Head(cschans).users = NOLIST
    /\ crashed' = TRUE /\ slips' = slips \cup {"unsynced"}
    /\ UNCHANGED <<channel, chanserv, cschans, refcount, irc_users, online, responses>>

Responses == ~crashed /\ (srvx_response_users \/ srvx_response_names)

csNext ==
    \/ Responses
    \/ /\ ~crashed
       /\ \/ bot_joins \/ channel_complete_hook \/ join \/ chanuser_del_hook \/ channel_del_hook
          \/ chanserv_update_users \/ request_dropped \/ chanserv_rule
          \/ \E u \in Nick : user_del_hook(u) \/ user_appears(u)

\* srvx answers.
csFair == WF_csVars(Responses)
-----------------------------------------------------------------------------
Listed(a) == LET On(list) == {i \in DOMAIN cschans : Has(cschans[i][list], a) = 1} IN
             Cardinality(On("users")) + Cardinality(On("tmp_users"))

\* Types; an account lives as long as a list names it, and its users are users on IRC: chanserv()
\* gives nobody the access of somebody who left.  While the channel is tracked and nothing above
\* has happened, responses are on their way exactly while a list is being filled, in the state it
\* is in, and none of them meets a list that is not there.
UsersSound ==
    /\ cschans \in Seq(Cschan)
    /\ \A a \in Account : refcount[a] = Listed(a) /\ irc_users[a] \subseteq online
    /\ \A a \in Account : irc_users[a] # {} => refcount[a] > 0
    /\ slips = {} =>
          /\ ~crashed
          /\ cschans # <<>> => channel # "out" /\ chanserv
          /\ IF cschans = <<>> \/ Head(cschans).tmp_users = NOLIST THEN responses = <<>>
             ELSE responses = IF Head(cschans).tmp_users = {} THEN <<"users">> ELSE <<"names">>

\* A list that is being filled is put in place or given up, so that the timer can fetch the next:
\* unless a request was dropped, or one of the others has happened.
FetchEnds ==
    (cschans # <<>> /\ Head(cschans).tmp_users # NOLIST)
        ~> (cschans = <<>> \/ Head(cschans).tmp_users = NOLIST \/ slips # {})
=============================================================================
