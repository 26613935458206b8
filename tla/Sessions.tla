-------------------------------- MODULE Sessions --------------------------------
(* modules/webinterface/session.c and the handlers of ajax-app.c that log      *)
(* somebody in or out, or act for the one who is.  A session points to an      *)
(* account's memory; account_del tells nobody.                                 *)
EXTENDS Naturals, FiniteSets

CONSTANTS Sid,            \* session ids: random, a new one each time
          Memory,         \* where accounts are
          User,           \* names of accounts
          Ip,             \* addresses of peers
          NOBODY,         \* no account, no session
          SessionTimeout  \* SESSION_TIMEOUT in periods of the expiry timer

ASSUME SessionAssumption == NOBODY \notin Memory \cup User /\ SessionTimeout \in Nat \ {0}

VARIABLES
    sessions,   \* the dict
    memory,     \* memory[m]: whose account is there
    login,      \* login[s]: who logged in with s; history only
    actedAs,    \* what the last request did, and for whom; history only
    confused    \* accounts were deleted that had sessions; history only

sessionVars == <<sessions, memory, login, actedAs, confused>>

Session == [account : Memory, ip : Ip, idle : 0..(SessionTimeout + 1)]
Idle0 == [who |-> NOBODY, sid |-> NOBODY, ip |-> NOBODY]

sessionInit ==
    /\ sessions = [s \in {} |-> NOBODY]
    /\ \E m \in Memory, u \in User : memory = [x \in Memory |-> IF x = m THEN u ELSE NOBODY]
    /\ login = [s \in Sid |-> Idle0]
    /\ actedAs = Idle0
    /\ confused = FALSE

Without(s) == [x \in DOMAIN sessions \ {s} |-> sessions[x]]

session_create(s, m, ip, who) ==
    /\ s \notin DOMAIN sessions /\ login[s] = Idle0
    /\ sessions' = [x \in DOMAIN sessions \cup {s} |->
                      IF x = s THEN [account |-> m, ip |-> ip, idle |-> 0] ELSE sessions[x]]
    /\ login' = [login EXCEPT ![s] = [who |-> who, sid |-> s, ip |-> ip]]

ajax_login_handler(s, m, ip) ==
    /\ memory[m] # NOBODY
    /\ session_create(s, m, ip, memory[m])
    /\ UNCHANGED <<memory, actedAs, confused>>

\* account_register, and a session for the new account.
ajax_signup_handler(s, m, u, ip) ==
    /\ memory[m] = NOBODY /\ \A x \in Memory : memory[x] # u
    /\ memory' = [memory EXCEPT ![m] = u]
    /\ session_create(s, m, ip, u)
    /\ UNCHANGED <<actedAs, confused>>

\* Found, and used by the peer that logged in.
session_find_sid(s, ip) == s \in DOMAIN sessions /\ sessions[s].ip = ip

session_del(s) == sessions' = Without(s)

\* A request with a session id: another peer's request ends the session.
require_session(s, ip) ==
    /\ s \in DOMAIN sessions
    /\ IF session_find_sid(s, ip)
       THEN /\ sessions' = [sessions EXCEPT ![s].idle = 0]
            /\ actedAs' = [who |-> memory[sessions[s].account], sid |-> s, ip |-> ip]
       ELSE session_del(s) /\ UNCHANGED actedAs
    /\ UNCHANGED <<memory, login, confused>>

ajax_logout_handler(s, ip) ==
    /\ s \in DOMAIN sessions
    /\ session_del(s)
    /\ UNCHANGED <<memory, login, actedAs, confused>>

\* Two minutes pass and the timer runs.
session_expire ==
    [s \in {x \in DOMAIN sessions : sessions[x].idle < SessionTimeout} |-> [sessions[s] EXCEPT !.idle = @ + 1]]

ExpireTimer ==
    /\ sessions # <<>>
    /\ sessions' = session_expire
    /\ UNCHANGED <<memory, login, actedAs, confused>>

\* account_del, by the bot's commands.
AccountDeleted(m) ==
    /\ memory[m] # NOBODY
    /\ memory' = [memory EXCEPT ![m] = NOBODY]
    /\ confused' = (confused \/ \E s \in DOMAIN sessions : sessions[s].account = m)
    /\ UNCHANGED <<sessions, login, actedAs>>

\* MODULE_FINI frees the dict.
session_fini ==
    /\ sessions # <<>> /\ sessions' = <<>>
    /\ UNCHANGED <<memory, login, actedAs, confused>>

sessionNext ==
    \/ \E s \in Sid, m \in Memory, ip \in Ip :
          \/ ajax_login_handler(s, m, ip)
          \/ \E u \in User : ajax_signup_handler(s, m, u, ip)
    \/ \E s \in Sid, ip \in Ip : require_session(s, ip) \/ ajax_logout_handler(s, ip)
    \/ ExpireTimer \/ session_fini
    \/ \E m \in Memory : AccountDeleted(m)

\* What a request does is done for the account that logged in with that session id, from the
\* address it logged in from; unless an account was deleted that had a session: its memory may be
\* another account by then (session_find_sid, account_del).  A session that was not used for
\* SESSION_TIMEOUT is gone by the next run of the timer.
SessionSound ==
    /\ ~confused /\ actedAs # Idle0 => actedAs = login[actedAs.sid]
    /\ ~confused => \A s \in DOMAIN sessions : memory[sessions[s].account] = login[s].who
    /\ \A s \in DOMAIN sessions : sessions[s] \in Session /\ sessions[s].idle <= SessionTimeout
=============================================================================
