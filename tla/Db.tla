----------------------------------- MODULE Db -----------------------------------
(* modules/db/db.c: PostgreSQL for other modules.  Statements that change rows *)
(* go over one synchronous connection, which is made anew when it is found     *)
(* lost; db_async_select takes a connection from a pool that only grows, and   *)
(* the rows come by callback out of sock_poll.                                 *)
(*                                                                             *)
(* The operators here give the outcomes of db.c's functions as sets of         *)
(* records; the modules that call them take the callback's effect in the same  *)
(* step.  libpq is external: what it may answer is what db.c distinguishes.    *)
EXTENDS Naturals, Sequences, FiniteSets

CONSTANTS Query,     \* asynchronous queries (each is asked once)
          NOQ,       \* no query
          MaxAsync   \* bound: entries in the pool

ASSUME DbAssumption == NOQ \notin Query /\ MaxAsync \in Nat

VARIABLES
    asyncs,    \* db->async, the oldest first
    orphans,   \* sockets of earlier connections that no entry points at any more
    accepted,  \* queries for which db_async_select returned 0
    told,      \* told[q]: how often q's asker was told the end: by a last row,
               \* by an empty result, by an error, or by db_async_select's result
    released,  \* released[q]: how often free_ctx_func was called
    lost,      \* queries whose connection broke when they were under way
    conn       \* db->conn: "ok" or "bad"

dbVars == <<asyncs, orphans, accepted, told, released, lost, conn>>
poolVars == <<asyncs, orphans, accepted, told, released, lost>>

\* sock: async->sock is set.  result: the rows have been handed out.
Async == [state : {"CONNECTING", "BUSY", "IDLE", "DEAD"}, conn : BOOLEAN, sock : BOOLEAN,
          q : Query \cup {NOQ}, result : BOOLEAN]

dbInit ==
    /\ asyncs = <<>>
    /\ orphans = 0
    /\ accepted = {}
    /\ told = [q \in Query |-> 0]
    /\ released = [q \in Query |-> 0]
    /\ lost = {}
    /\ conn \in {"ok", "bad"}
-----------------------------------------------------------------------------
(* The synchronous connection.                                                 *)

Reconnect == {"ok", "bad"}

\* One attempt over a connection: done statements (0 or 1) reached the tables; a
\* connection may break before the server has run one or after.
Exec(c) == IF c = "bad" THEN {[conn |-> "bad", done |-> 0, ok |-> FALSE]}
           ELSE {[conn |-> "ok", done |-> 1, ok |-> TRUE],
                 [conn |-> "bad", done |-> 0, ok |-> FALSE],
                 [conn |-> "bad", done |-> 1, ok |-> FALSE]}

\* A lost connection is replaced before the statement, and again if it was lost
\* by then; in that case the statement is sent once more.
do_PQexecParams(c) ==
    UNION {IF o.conn = "ok" THEN {o}
           ELSE {[o2 EXCEPT !.done = @ + o.done] : o2 \in UNION {Exec(c2) : c2 \in Reconnect}} :
             o \in UNION {Exec(c1) : c1 \in IF c = "bad" THEN Reconnect ELSE {"ok"}}}

\* INSERT: how many rows there are now, and whether the caller is told so.
do_row_insert(c) == do_PQexecParams(c)

\* DELETE: twice is as good as once.
do_row_drop(c) == {[conn |-> o.conn, done |-> o.done > 0, ok |-> o.ok] : o \in do_PQexecParams(c)}
-----------------------------------------------------------------------------
(* The pool.                                                                   *)

In(state) == {i \in DOMAIN asyncs : asyncs[i].state = state}
\* The list is searched from its head, where new entries are put.
First(I) == CHOOSE i \in I : \A j \in I : j <= i

Dead(a) == [a EXCEPT !.state = "DEAD", !.conn = FALSE, !.q = NOQ, !.result = FALSE]
Fresh == [state |-> "CONNECTING", conn |-> FALSE, sock |-> FALSE, q |-> NOQ, result |-> FALSE]

(* An outcome: the pool, what the asker of q hears, what db_async_select       *)
(* returns.                                                                    *)
Outcome(pool, orph, error, rval) == [asyncs |-> pool, orphans |-> orph, error |-> error, rval |-> rval]

\* libpq refuses the query: the callback is called with an error and the
\* connection is given up.
pgsql_send_query(i, q) ==
    {Outcome([asyncs EXCEPT ![i] = [@ EXCEPT !.state = "BUSY", !.q = q, !.result = FALSE]], orphans, FALSE, 0),
     Outcome([asyncs EXCEPT ![i] = Dead(@)], orphans, TRUE, 1)}

\* A new connection for q in the entry i of the pool p: PQconnectStart fails, or
\* the connection is bad from the start (it stays CONNECTING without a socket),
\* or it is under way.
Connect(p, i, q) ==
    {Outcome(p, orphans, FALSE, 1),
     Outcome([p EXCEPT ![i] = [@ EXCEPT !.state = "CONNECTING", !.conn = TRUE]], orphans, FALSE, 1),
     Outcome([p EXCEPT ![i] = [@ EXCEPT !.state = "CONNECTING", !.conn = TRUE, !.sock = TRUE, !.q = q]],
             IF p[i].sock THEN orphans + 1 ELSE orphans, FALSE, 0)}

pgsql_get_async(q) ==
    IF In("DEAD") # {} THEN Connect(asyncs, First(In("DEAD")), q)
    ELSE IF Len(asyncs) < MaxAsync THEN Connect(Append(asyncs, Fresh), Len(asyncs) + 1, q)
    ELSE {}

do_async_select(q) ==
    IF In("IDLE") # {} THEN pgsql_send_query(First(In("IDLE")), q) ELSE pgsql_get_async(q)

\* Whose callback gets the events of entry i.
Asker(i) == asyncs[i].q

\* What the asker hears is the caller's part.
Ask(q, o) ==
    /\ q \notin accepted /\ told[q] = 0
    /\ asyncs' = o.asyncs /\ orphans' = o.orphans
    /\ accepted' = IF o.rval = 0 THEN accepted \cup {q} ELSE accepted
    /\ told' = [told EXCEPT ![q] = (IF o.error THEN 1 ELSE 0) + o.rval]
    /\ UNCHANGED <<released, lost, conn>>

Tell(q, n) == told' = [told EXCEPT ![q] = @ + n]

\* Mutant: a failed connection is given up without a word.
EV_CONNECT_silent(i) ==
    IF ~(asyncs[i].state = "CONNECTING" /\ asyncs[i].q # NOQ) THEN {}
    ELSE {Outcome([asyncs EXCEPT ![i] = Dead(@)], orphans, FALSE, 0)} \cup pgsql_send_query(i, Asker(i))

\* PQconnectPoll, on an event of a connecting socket.
EV_CONNECT(i) ==
    IF ~(asyncs[i].state = "CONNECTING" /\ asyncs[i].q # NOQ) THEN {}
    ELSE {Outcome([asyncs EXCEPT ![i] = Dead(@)], orphans, TRUE, 0)} \cup pgsql_send_query(i, Asker(i))

Connected(i, o) ==
    /\ asyncs' = o.asyncs /\ orphans' = o.orphans
    /\ Tell(Asker(i), IF o.error THEN 1 ELSE 0)
    /\ UNCHANGED <<accepted, released, lost, conn>>

\* The result: its rows go to the callback, the last one as such; a query that
\* failed on the server is an empty result.
EV_READ(i) ==
    /\ asyncs[i].state = "BUSY" /\ ~asyncs[i].result
    /\ asyncs' = [asyncs EXCEPT ![i].result = TRUE]
    /\ Tell(Asker(i), 1)
    /\ UNCHANGED <<orphans, accepted, released, lost, conn>>

\* PQgetResult is NULL.
EV_READ_done(i) ==
    /\ asyncs[i].state = "BUSY" /\ asyncs[i].result
    /\ asyncs' = [asyncs EXCEPT ![i] = [@ EXCEPT !.state = "IDLE", !.q = NOQ, !.result = FALSE]]
    /\ released' = [released EXCEPT ![Asker(i)] = @ + 1]
    /\ UNCHANGED <<orphans, accepted, told, lost, conn>>

\* PQconsumeInput fails: nobody is told.
EV_READ_broken(i) ==
    /\ asyncs[i].state = "BUSY"
    /\ asyncs' = [asyncs EXCEPT ![i] = Dead(@)]
    /\ lost' = IF asyncs[i].result THEN lost ELSE lost \cup {Asker(i)}
    /\ UNCHANGED <<orphans, accepted, told, released, conn>>

\* The connect string changes: idle connections are closed, their sockets stay.
db_conf_reload ==
    /\ conn' \in Reconnect
    /\ asyncs' = [i \in DOMAIN asyncs |-> IF asyncs[i].state = "IDLE" THEN Dead(asyncs[i]) ELSE asyncs[i]]
    /\ UNCHANGED <<orphans, accepted, told, released, lost>>
-----------------------------------------------------------------------------
(* Properties.                                                                 *)

PoolTypeOK ==
    /\ asyncs \in Seq(Async) /\ Len(asyncs) <= MaxAsync
    /\ orphans \in Nat
    /\ accepted \subseteq Query /\ lost \subseteq accepted
    /\ told \in [Query -> Nat] /\ released \in [Query -> Nat]
    /\ conn \in {"ok", "bad"}

\* A query that db_async_select took is under way on exactly one connection that
\* can still answer, until its asker has been told; or the connection broke.  It
\* is told once, and let go of at most once, after that (pgsql_async_event,
\* pgsql_send_query, pgsql_get_async).
QueriesKept ==
    \A q \in accepted :
        LET carriers == {i \in DOMAIN asyncs : asyncs[i].q = q} IN
        /\ Cardinality(carriers) <= 1
        /\ told[q] = 0 /\ q \notin lost =>
              \E i \in carriers : asyncs[i].conn /\ asyncs[i].sock /\ ~asyncs[i].result
        /\ told[q] <= 1
        /\ q \in lost => told[q] = 0
        /\ released[q] <= told[q]
=============================================================================
