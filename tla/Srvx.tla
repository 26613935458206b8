-------------------------------- MODULE Srvx --------------------------------
(***************************************************************************)
(* src/modules/srvx/srvx.c: requests to the services bot srvx and their    *)
(* responses.  A request goes over a connection of its own to srvx's       *)
(* qserver once that is authenticated, or as private messages over IRC     *)
(* between two pings that carry its token.  Both ways answer in order, and *)
(* both keep one active request: the one whose response has begun.         *)
(*                                                                         *)
(* The qserver connection fails, times out, is refused, and comes back.    *)
(* Three situations the code's assertions rule out, but nothing prevents,  *)
(* are recorded in mishaps once they have happened: "mid", the connection  *)
(* was lost within a response; "cancel", it was lost while requests were   *)
(* under way over IRC; "early", a request was made before the login was    *)
(* answered.                                                               *)
(***************************************************************************)
EXTENDS Naturals, Sequences

CONSTANTS
    Req,     \* requests of other modules (a value is used again when its request is over)
    Auth,    \* the login request that the module makes itself
    NONE     \* NULL

ASSUME ConstantsAssumption ==
    /\ Auth \notin Req
    /\ NONE \notin Req \cup {Auth}

VARIABLES
    srvx_sock,           \* "none", "connecting" or "open"
    srvx_authed,         \* whether the login was answered with success
    requests,            \* the dict of requests under way
    active_request,      \* the request whose response is read from the qserver
    active_request_irc,  \* the request whose response is read from IRC
    srvx_timers,              \* the module's timers that are armed
    login_refused,             \* the login failed, after which the module does not connect by itself
    qserver,             \* the requests the qserver has to answer, and whether it has begun the first
    irc,                 \* the same for the requests sent over IRC
    called,              \* how often the callback of a caller's last request ran
    mishaps              \* see above; history only

srvxVars == <<srvx_sock, srvx_authed, requests, active_request, active_request_irc, srvx_timers,
          login_refused, qserver, irc, called, mishaps>>

All == Req \cup {Auth}
Idle == [queue |-> <<>>, begun |-> FALSE]

Unanswered(w) == {w.queue[k] : k \in DOMAIN w.queue}
Enqueue(w, r) == [w EXCEPT !.queue = Append(@, r)]
Finish(w) == [queue |-> Tail(w.queue), begun |-> FALSE]

\* MODULE_INIT connects; an attempt that fails at once leaves the reconnect timer.
srvxInit ==
    /\ srvx_sock \in {"none", "connecting"}
    /\ srvx_authed = FALSE
    /\ requests = {}
    /\ active_request = NONE
    /\ active_request_irc = NONE
    /\ srvx_timers = IF srvx_sock = "none" THEN {"srvx_reconnect"} ELSE {"srvx_connect_timeout"}
    /\ login_refused = FALSE
    /\ qserver = Idle
    /\ irc = Idle
    /\ called = [r \in All |-> 1]
    /\ mishaps = {}

----------------------------------------------------------------------------
(* Losing the connection.                                                  *)

\* srvx_sock_schedule_reconnect deletes both timers and arms one.
schedule_reconnect(t) == (t \ {"srvx_connect_timeout"}) \cup {"srvx_reconnect"}

\* Every request's callback is called without a response, and the dict is emptied; the two active
\* requests are not reset.
cancel_requests(rs) == {}

\* Mutant: cancelled requests are freed without a callback.
cancelled_silent(c) == c

\* Mutant: the active request is called back apart from the dict it is still in.
cancelled_active(c) ==
    [r \in All |-> c[r] + (IF r \in requests THEN 1 ELSE 0) + (IF r = active_request THEN 1 ELSE 0)]

cancelled(c) == [r \in All |-> IF r \in requests THEN c[r] + 1 ELSE c[r]]

\* The order of EV_ERROR, EV_HANGUP, the timeout, the command and a connect that fails.
lose_connection ==
    /\ srvx_sock' = "none"
    /\ requests' = cancel_requests(requests)
    /\ called' = cancelled(called)
    /\ srvx_timers' = schedule_reconnect(srvx_timers)
    /\ qserver' = Idle
    /\ mishaps' = mishaps \cup (IF qserver.begun THEN {"mid"} ELSE {})
                          \cup (IF irc.queue # <<>> THEN {"cancel"} ELSE {})
    /\ UNCHANGED <<active_request, active_request_irc, irc>>

srvx_sock_event_lost ==
    /\ srvx_sock # "none"
    /\ lose_connection
    /\ UNCHANGED <<srvx_authed, login_refused>>

srvx_sock_timeout ==
    /\ "srvx_connect_timeout" \in srvx_timers
    /\ lose_connection
    /\ UNCHANGED <<srvx_authed, login_refused>>

\* The command: it works in any state and forgets a refusal.
srvx_reconnect ==
    /\ lose_connection
    /\ login_refused' = FALSE
    /\ UNCHANGED srvx_authed

----------------------------------------------------------------------------
(* Getting it back.                                                        *)

connect_started(t) == (t \ {"srvx_reconnect"}) \cup {"srvx_connect_timeout"}

\* srvx_sock_connect, called by the reconnect timer.
srvx_sock_connect ==
    /\ "srvx_reconnect" \in srvx_timers
    /\ srvx_authed' = FALSE
    /\ \/ /\ srvx_sock' = "connecting"
          /\ srvx_timers' = connect_started(srvx_timers)
          /\ qserver' = Idle
          /\ UNCHANGED <<requests, active_request, active_request_irc, irc, called, mishaps>>
       \/ lose_connection
    /\ UNCHANGED login_refused

\* EV_CONNECT: the timeout is off and the login is the first request.
srvx_sock_event_connect ==
    /\ srvx_sock = "connecting"
    /\ srvx_sock' = "open"
    /\ srvx_timers' = srvx_timers \ {"srvx_connect_timeout"}
    /\ requests' = requests \cup {Auth}
    /\ qserver' = Enqueue(qserver, Auth)
    /\ called' = [called EXCEPT ![Auth] = 0]
    /\ UNCHANGED <<srvx_authed, active_request, active_request_irc, login_refused, irc, mishaps>>

----------------------------------------------------------------------------
(* Requests of other modules.                                              *)

Unused(r) == r \notin requests \cup Unanswered(qserver) \cup Unanswered(irc) \cup {active_request, active_request_irc}

\* assert(srvx_authed): a request made before the login is answered is dropped, while the caller
\* waits for its callback (`srvx exec' has answered "Sent command to srvx.").
Early == srvx_sock # "none" /\ ~srvx_authed

srvx_vsend_ctx(r, no_qserver) ==
    /\ Unused(r)
    /\ mishaps' = mishaps \cup (IF Early /\ ~no_qserver THEN {"early"} ELSE {})
    /\ called' = [called EXCEPT ![r] = 0]
    /\ IF srvx_sock # "none" /\ ~no_qserver
       THEN /\ UNCHANGED irc
            /\ IF srvx_authed THEN qserver' = Enqueue(qserver, r) /\ requests' = requests \cup {r}
               ELSE UNCHANGED <<qserver, requests>>
       ELSE irc' = Enqueue(irc, r) /\ requests' = requests \cup {r} /\ UNCHANGED qserver
    /\ UNCHANGED <<srvx_sock, srvx_authed, active_request, active_request_irc, srvx_timers, login_refused>>

----------------------------------------------------------------------------
(* Responses.  The active request may be a request that was cancelled.     *)

Found(r) == IF r \in requests THEN r ELSE NONE

\* "S" from the qserver: assert(!active_request), then look the token up.
qserver_begin ==
    /\ qserver.queue # <<>> /\ ~qserver.begun
    /\ qserver' = [qserver EXCEPT !.begun = TRUE]
    /\ active_request' = IF active_request = NONE THEN Found(Head(qserver.queue)) ELSE active_request
    /\ UNCHANGED <<srvx_sock, srvx_authed, requests, active_request_irc, srvx_timers, login_refused, irc, called, mishaps>>

response_over(r) == NONE

\* Mutant: the callback runs and the request stays in the dict.
answer_keeps(r) ==
    /\ called' = [called EXCEPT ![r] = @ + 1]
    /\ UNCHANGED requests

answer(r) ==
    /\ called' = [called EXCEPT ![r] = @ + 1]
    /\ requests' = requests \ {r}

\* "E" from the qserver for a request of another module.
qserver_end ==
    /\ qserver.begun
    /\ Head(qserver.queue) # Auth
    /\ qserver' = Finish(qserver)
    /\ IF active_request = Head(qserver.queue)
       THEN answer(active_request) /\ active_request' = response_over(active_request)
       ELSE UNCHANGED <<requests, called, active_request>>
    /\ UNCHANGED <<srvx_sock, srvx_authed, active_request_irc, srvx_timers, login_refused, irc, mishaps>>

\* "E" for the login: srvx_auth_response.  A refusal closes the connection and arms no timer.
srvx_auth_response ==
    /\ qserver.begun
    /\ Head(qserver.queue) = Auth
    /\ IF active_request = Auth
       THEN /\ answer(Auth) /\ active_request' = response_over(Auth)
            /\ \/ srvx_authed' = TRUE /\ qserver' = Finish(qserver) /\ UNCHANGED <<srvx_sock, login_refused>>
               \/ srvx_sock' = "none" /\ login_refused' = TRUE /\ qserver' = Idle /\ UNCHANGED srvx_authed
       ELSE qserver' = Finish(qserver) /\ UNCHANGED <<requests, called, active_request, srvx_authed, srvx_sock, login_refused>>
    /\ UNCHANGED <<active_request_irc, srvx_timers, irc, mishaps>>

\* The answers to the pings around a request sent over IRC.
irc_begin ==
    /\ irc.queue # <<>> /\ ~irc.begun
    /\ irc' = [irc EXCEPT !.begun = TRUE]
    /\ active_request_irc' = IF active_request_irc = NONE THEN Found(Head(irc.queue)) ELSE active_request_irc
    /\ UNCHANGED <<srvx_sock, srvx_authed, requests, active_request, srvx_timers, login_refused, qserver, called, mishaps>>

irc_end ==
    /\ irc.begun
    /\ irc' = Finish(irc)
    /\ IF active_request_irc = Head(irc.queue)
       THEN answer(active_request_irc) /\ active_request_irc' = NONE
       ELSE UNCHANGED <<requests, called, active_request_irc>>
    /\ UNCHANGED <<srvx_sock, srvx_authed, active_request, srvx_timers, login_refused, qserver, mishaps>>

----------------------------------------------------------------------------

Qserver == qserver_begin \/ qserver_end \/ srvx_auth_response
Irc == irc_begin \/ irc_end
SrvxTimer == srvx_sock_timeout \/ srvx_sock_connect
Send(r) == srvx_vsend_ctx(r, TRUE) \/ srvx_vsend_ctx(r, FALSE)

srvxNext ==
    \/ Qserver \/ Irc \/ SrvxTimer
    \/ srvx_sock_event_lost \/ srvx_sock_event_connect \/ srvx_reconnect
    \/ \E r \in Req : Send(r)

srvxSpec == srvxInit /\ [][srvxNext]_srvxVars

\* srvx answers on both ways and timers fire.
Fairness == WF_srvxVars(Qserver) /\ WF_srvxVars(Irc) /\ WF_srvxVars(SrvxTimer)

srvxFairSpec == srvxSpec /\ Fairness

----------------------------------------------------------------------------
\* One direction of traffic: what waits, and whether the first response has begun.
Way == [queue : Seq(All), begun : BOOLEAN]

\* Types, and srvx.c's list of requests holds exactly what is still waiting for a response.
SrvxTypeOK ==
    /\ srvx_sock \in {"none", "connecting", "open"}
    /\ srvx_authed \in BOOLEAN
    /\ requests \subseteq All
    /\ mishaps \subseteq {"early"} => requests = Unanswered(qserver) \cup Unanswered(irc)
    /\ active_request \in All \cup {NONE}
    /\ active_request_irc \in All \cup {NONE}
    /\ srvx_timers \subseteq {"srvx_reconnect", "srvx_connect_timeout"}
    /\ login_refused \in BOOLEAN
    /\ qserver \in Way
    /\ irc \in Way
    /\ called \in [All -> 0..2]
    /\ mishaps \subseteq {"mid", "cancel", "early"}

\* Whenever the module has no connection it will try again, unless its login was refused: none of
\* the paths that lose the connection forgets the timer.
ComesBack == srvx_sock = "none" => "srvx_reconnect" \in srvx_timers \/ login_refused

\* The connect timeout runs while a connect is under way and at no other time: it never closes
\* a connection that was established, and every attempt comes to an end.
TimeoutIsConnecting == "srvx_connect_timeout" \in srvx_timers <=> srvx_sock = "connecting"

\* The connection is there, under way under a timeout, or will be tried again.
QserverSound == SrvxTypeOK /\ ComesBack /\ TimeoutIsConnecting

\* A request's callback runs once: a request in the dict has not been called back, and neither a
\* response nor a cancellation reaches a request twice.  It does not hold when requests are
\* cancelled between the two pings of a response over IRC: the freed request is called back again.
CallbackOnce ==
    "cancel" \notin mishaps => \A r \in All : called[r] <= 1 /\ (r \in requests => called[r] = 0)

\* srvx.c:427 "assert(!active_request)" and srvx.c:361 "assert(active_request_irc)": while a response
\* is read the active request is the one it answers, and it exists, unless a connection was lost
\* within a response or under requests over IRC.
ResponseHasRequest ==
    mishaps \subseteq {"early"} =>
        /\ qserver.begun => active_request = Head(qserver.queue) /\ active_request \in requests
        /\ irc.begun => active_request_irc = Head(irc.queue) /\ active_request_irc \in requests

\* A response goes to the request it answers, and to no request twice.
ResponsesSound == CallbackOnce /\ ResponseHasRequest

\* The connection and the requests that go over it (srvx.c).
RequestsSound == QserverSound /\ ResponsesSound

\* Every request is called back, with a response or because the connection was lost, unless one of
\* the mishaps has happened.
EveryRequestAnswered == \A r \in All : called[r] = 0 ~> called[r] = 1 \/ mishaps # {}
=============================================================================
