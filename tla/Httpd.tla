--------------------------------- MODULE Httpd ---------------------------------
(* modules/httpd/http.c, with the one handler that detaches its client: the    *)
(* webinterface's list of ChanServ events, which asks the database and answers *)
(* from db.c's callback.                                                       *)
(*                                                                             *)
(* A client is messy once the code has answered one of its requests twice:     *)
(*  - data comes in while a response is being written: content_start is reset  *)
(*    only by http_request_complete, so the handler runs for the same request  *)
(*    again (http_process_request);                                            *)
(*  - db_async_select calls events_cb with an error and returns an error: both *)
(*    events_cb and the handler answer, and both free client->custom.          *)
(* A query is stray when its client was freed, or finished another request:    *)
(* the handler sets no dead_callback, and nothing takes a query back.          *)
EXTENDS Db

CONSTANTS Client,    \* the memory of clients: a freed one may be used again
          NoClient,  \* no client
          MaxRequest \* bound: requests that are sent

ASSUME HttpdAssumption == NoClient \notin Client /\ MaxRequest \in Nat

VARIABLES
    clients,   \* clients[c]: what http.c knows of a client
    asker,     \* asker[q]: the context of query q
    strays,    \* see above
    requested, \* number of requests sent
    listeners, \* the ports of the plain and the ssl listener, 0 for NULL, STALE when it points to
               \* a listener that was closed
    http_conf, \* the ports, 0 for none
    ignored    \* a reload was not acted on, since there was no plain port before it

clientVars == <<clients, asker, strays, requested, poolVars, conn>>
listenerVars == <<listeners, http_conf, ignored>>
httpdVars == <<clientVars, listenerVars>>

\* A request: answered at once, detached, answered with "Connection: close", not parseable.
Kind == {"page", "events", "last", "bad"}
\* rbuf: the requests read, the first is the current one; partial: the last is not all there.
\* close, served, sent: client->state.  queue: the socket's send queue is not empty.
\* answers: how often the current request was answered, as far as the peer can see.
Closed == [open |-> FALSE, rbuf |-> <<>>, partial |-> FALSE, delay |-> FALSE, close |-> FALSE,
           served |-> FALSE, sent |-> FALSE, queue |-> FALSE, timer |-> FALSE, answers |-> 0, messy |-> FALSE]
http_client_accept == [Closed EXCEPT !.open = TRUE, !.timer = TRUE]

OpenPort == {1, 2}
STALE == 3

Outstanding(q) == q \in accepted /\ told[q] = 0
Waiting(c) == {q \in Query \ strays : asker[q] = c /\ Outstanding(q)}

httpdInit ==
    /\ dbInit
    /\ clients = [c \in Client |-> Closed]
    /\ asker = [q \in Query |-> NoClient]
    /\ strays = {}
    /\ requested = 0
    /\ listeners = [plain |-> 1, ssl |-> 0]
    /\ http_conf = [plain |-> 1, ssl |-> 0]
    /\ ignored = FALSE
-----------------------------------------------------------------------------
(* Writing.  Once the headers are sent only the content is written, and an     *)
(* error has none.                                                             *)

http_writesock(cl) == [cl EXCEPT !.sent = TRUE, !.queue = TRUE, !.answers = @ + 1, !.messy = @ \/ cl.sent]

\* Mutant: the answer of a detached request leaves it detached.
http_request_finalize_delayed(cl) == http_writesock(cl)

http_request_finalize(cl) == http_writesock([cl EXCEPT !.delay = FALSE])

http_send_error(cl) ==
    IF cl.sent THEN [cl EXCEPT !.close = TRUE] ELSE http_writesock([cl EXCEPT !.close = TRUE])

http_request_detach(cl) == [cl EXCEPT !.delay = TRUE]

\* The asynchronous part of the handler: the client, the query, what came of it.
ajax_events_handler(c, cl, q, o) ==
    /\ Ask(q, o)
    /\ asker' = [asker EXCEPT ![q] = c]
    /\ clients' = [clients EXCEPT ![c] =
          IF o.rval = 0 THEN http_request_detach(cl)
          ELSE http_request_finalize(IF o.error THEN http_request_finalize(cl) ELSE cl)]

\* http_parse has the whole head, or an error, and the content is there.
Complete(cl) == cl.rbuf # <<>> /\ (Len(cl.rbuf) > 1 \/ ~cl.partial)

\* cl is client c after its input.
http_process_request(c, cl) ==
    LET run == [cl EXCEPT !.close = @ \/ Head(cl.rbuf) = "last", !.messy = @ \/ cl.sent] IN
    \/ /\ cl.delay \/ ~Complete(cl)
       /\ clients' = [clients EXCEPT ![c] = cl]
       /\ UNCHANGED <<asker, poolVars, conn>>
    \/ /\ ~cl.delay /\ Complete(cl) /\ Head(cl.rbuf) # "events"
       /\ clients' = [clients EXCEPT ![c] =
             IF Head(cl.rbuf) = "bad" THEN http_send_error(cl) ELSE http_request_finalize(run)]
       /\ UNCHANGED <<asker, poolVars, conn>>
    \/ /\ ~cl.delay /\ Complete(cl) /\ Head(cl.rbuf) = "events"
       /\ \E q \in Query : \E o \in do_async_select(q) : ajax_events_handler(c, run, q, o)

Leave(c) ==
    /\ clients' = [clients EXCEPT ![c] = Closed]
    /\ strays' = strays \cup Waiting(c)
    /\ UNCHANGED <<asker, requested, poolVars, conn>>
-----------------------------------------------------------------------------
(* Events of the sockets, timers and the database.                             *)

listener_event(c) ==
    /\ listeners.plain \in OpenPort \/ listeners.ssl \in OpenPort
    /\ ~clients[c].open
    /\ clients' = [clients EXCEPT ![c] = http_client_accept]
    /\ UNCHANGED <<asker, strays, requested, poolVars, conn>>

\* A request, the first part of one, or the rest of it; or it makes the buffer too large.
http_client_read(c) ==
    LET cl == clients[c] IN
    /\ cl.open
    /\ UNCHANGED strays
    /\ \/ /\ cl.partial
          /\ http_process_request(c, [cl EXCEPT !.partial = FALSE])
          /\ UNCHANGED requested
       \/ /\ ~cl.partial /\ requested < MaxRequest
          /\ \E kind \in Kind, partial \in BOOLEAN :
                http_process_request(c, [cl EXCEPT !.rbuf = Append(@, kind), !.partial = partial])
          /\ requested' = requested + 1
       \/ /\ requested < MaxRequest
          /\ requested' = requested + 1
          /\ clients' = [clients EXCEPT ![c] = http_send_error(cl)]
          /\ UNCHANGED <<asker, poolVars, conn>>

\* EV_ERROR and EV_HANGUP.
http_client_lost(c) == clients[c].open /\ Leave(c)

\* The rest of the buffer may hold the next request.  (A messy client may have a response without
\* a request that is all there: nothing is taken away.)
http_request_complete(c) ==
    /\ strays' = strays \cup Waiting(c)
    /\ http_process_request(c, [http_client_accept EXCEPT !.served = TRUE, !.messy = clients[c].messy,
                                   !.rbuf = IF Complete(clients[c]) THEN Tail(clients[c].rbuf) ELSE clients[c].rbuf,
                                   !.partial = clients[c].partial])
    /\ UNCHANGED requested

\* EV_WRITE, the queue is empty.
http_client_event(c) ==
    /\ clients[c].open /\ clients[c].queue
    /\ IF clients[c].close THEN Leave(c) ELSE http_request_complete(c)

http_request_timeout(c) ==
    LET cl == clients[c] IN
    /\ cl.open /\ cl.timer /\ ~cl.delay
    /\ IF cl.served THEN Leave(c)
       ELSE /\ clients' = [clients EXCEPT ![c] = [http_send_error(cl) EXCEPT !.timer = FALSE]]
            /\ UNCHANGED <<asker, strays, requested, poolVars, conn>>

\* The last row, an empty result or an error.  A stray query's client is answered if the memory
\* belongs to another one by now.
events_cb(q) ==
    LET c == asker[q] IN
    /\ clients' = IF ~clients[c].open THEN clients
                  ELSE [clients EXCEPT ![c] = [http_request_finalize(clients[c]) EXCEPT !.messy = @ \/ q \in strays]]
    /\ strays' = strays \ {q}

EntryEvent(i) ==
    /\ i \in DOMAIN asyncs
    /\ UNCHANGED <<asker, requested>>
    /\ \/ \E o \in EV_CONNECT(i) :
             /\ Connected(i, o)
             /\ IF o.error THEN events_cb(Asker(i)) ELSE UNCHANGED <<clients, strays>>
       \/ EV_READ(i) /\ events_cb(Asker(i))
       \/ EV_READ_done(i) /\ UNCHANGED <<clients, strays>>

\* (The synchronous connection, which db_conf_reload makes anew, is not used here.)
PoolTrouble ==
    /\ UNCHANGED <<asker, requested, clients, strays>>
    /\ \/ \E i \in DOMAIN asyncs : EV_READ_broken(i)
       \/ db_conf_reload /\ conn' = conn /\ In("IDLE") # {}
-----------------------------------------------------------------------------
(* Listeners.                                                                  *)

Conf == [plain : {0} \cup OpenPort, ssl : {0} \cup OpenPort]
Kinds == {"plain", "ssl"}

\* Both listeners are closed; one that has a port is made anew, and forgotten when that fails.
listener_start(conf) ==
    {l \in [Kinds -> {0, STALE} \cup OpenPort] :
       \A k \in Kinds : l[k] \in IF conf[k] # 0 THEN {0, conf[k]}
                                ELSE IF listeners[k] = 0 THEN {0} ELSE {STALE}}

\* The listeners are looked at only if there was a plain port before.  A certificate counts as a
\* new one in every reload: the old one is looked for in another section.
http_conf_reload(conf) ==
    /\ http_conf' = conf
    /\ ignored' = (ignored \/ http_conf.plain = 0)
    /\ IF http_conf.plain # 0 /\ (conf # http_conf \/ conf.ssl # 0) THEN listeners' \in listener_start(conf)
       ELSE UNCHANGED listeners

\* MODULE_FINI and MODULE_INIT: the pointers start as NULL.
http_restart(conf) ==
    /\ http_conf' = conf
    /\ ignored' = FALSE
    /\ listeners' \in {l \in [Kinds -> {0} \cup OpenPort] : \A k \in Kinds : l[k] \in {0, conf[k]}}
-----------------------------------------------------------------------------
ClientStep(c) ==
    \/ listener_event(c) \/ http_client_read(c) \/ http_client_lost(c)
    \/ http_client_event(c) \/ http_request_timeout(c)

clientNext ==
    \/ \E c \in Client : ClientStep(c)
    \/ \E i \in 1..MaxAsync : EntryEvent(i)
    \/ PoolTrouble

listenerNext == \E conf \in Conf : http_conf_reload(conf) \/ http_restart(conf)

\* The database's sockets are polled.
DbFair == \A i \in 1..MaxAsync : WF_httpdVars(EntryEvent(i) /\ UNCHANGED listenerVars)
-----------------------------------------------------------------------------
(* Properties.                                                                 *)

\* A request that was read has at most one answer.  The handler's query is under way while the
\* client is detached, or its connection broke; and no query is under way for a client that is not.
AnsweredOnce ==
    \A c \in Client : LET cl == clients[c] IN
        cl.open /\ ~cl.messy =>
            /\ cl.answers <= 1 /\ cl.sent = (cl.answers = 1)
            /\ Cardinality(Waiting(c)) = (IF cl.delay THEN 1 ELSE 0)

\* A client is never left without anything that ends it or moves it on: its answer is in the send
\* queue, or its timeout is armed (http_request_complete, http_request_timeout, http_send_error).
ClientMoves == \A c \in Client : clients[c].open => clients[c].timer \/ (clients[c].queue /\ clients[c].close)

\* The rows of a query go to the client that asked, as long as nobody stopped waiting for them.
AskersAlive == \A q \in Query : Outstanding(q) /\ q \notin strays => clients[asker[q]].open

\* The four together, with the pool's types.
ClientsSound == PoolTypeOK /\ QueriesKept /\ AnsweredOnce /\ ClientMoves /\ AskersAlive

\* The listeners are on the configured ports, or could not be made: unless a reload was ignored
\* since there was no plain port.  The pointer to a listener that was configured away is stale.
ListenersSound ==
    ~ignored => \A k \in Kinds : listeners[k] \in {0, IF http_conf[k] = 0 THEN STALE ELSE http_conf[k]}

\* A detached client is answered, or is gone, or its query's connection broke: then it waits for
\* ever, and its timeout with it.
DetachedAnswered ==
    \A q \in Query : Outstanding(q) ~> (~Outstanding(q) \/ q \in lost \/ q \in strays)
=============================================================================
