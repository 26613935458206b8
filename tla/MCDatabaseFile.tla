--------------------------- MODULE MCDatabaseFile ---------------------------
(* Where the bot keeps data, and who asks for it over HTTP: a database file,  *)
(* the web server's clients with the PostgreSQL pool behind them, its         *)
(* listeners, and the sessions of the web interface.  These four share no     *)
(* state: part says which of them a behaviour is about.                       *)
EXTENDS DatabaseFile, Httpd, Sessions

VARIABLE part

allVars == <<part, vars, httpdVars, sessionVars>>

AllInit ==
    /\ part \in {"file", "clients", "listeners", "sessions"}
    /\ Init /\ httpdInit /\ conn = "ok" /\ sessionInit

AllNext ==
    /\ UNCHANGED part
    /\ \/ part = "file" /\ Next /\ UNCHANGED <<httpdVars, sessionVars>>
       \/ part = "clients" /\ clientNext /\ UNCHANGED <<vars, listenerVars, sessionVars>>
       \/ part = "listeners" /\ listenerNext /\ UNCHANGED <<vars, clientVars, sessionVars>>
       \/ part = "sessions" /\ sessionNext /\ UNCHANGED <<vars, httpdVars>>

AllFair ==
    \/ part = "file" /\ Fairness
    \/ part = "clients" /\ DbFair
    \/ part \in {"listeners", "sessions"}

AllSpec == AllInit /\ [][AllNext]_allVars /\ AllFair

\* Clients and their queries, listeners, and sessions (http.c, db.c, session.c).
WebSound == ClientsSound /\ ListenersSound /\ SessionSound
=============================================================================
