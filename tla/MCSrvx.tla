------------------------------- MODULE MCSrvx -------------------------------
(* srvx.c with three requests and the login, and two of its clients: the      *)
(* log of a channel's events and the list of a channel's users, for which     *)
(* srvx's answers are the environment.  The three share no state: part says   *)
(* which of them a behaviour is about.                                        *)
EXTENDS Srvx, EventLog, ChanservUsers

VARIABLE part

allVars == <<part, srvxVars, eventVars, poolVars, csVars>>

AllInit ==
    /\ part \in {"requests", "events", "userlist"}
    /\ srvxInit /\ csInit
    /\ dbInit /\ conn = "ok" /\ eventInit /\ (part # "events" => event_table)

AllNext ==
    /\ UNCHANGED <<part, poolVars>>
    /\ \/ part = "requests" /\ srvxNext /\ UNCHANGED <<eventVars, csVars>>
       \/ part = "events" /\ eventNext /\ UNCHANGED <<srvxVars, csVars>>
       \/ part = "userlist" /\ csNext /\ UNCHANGED <<srvxVars, eventVars>>

AllFair ==
    \/ part = "requests" /\ Fairness
    \/ part = "events" /\ eventFair
    \/ part = "userlist" /\ csFair

AllSpec == AllInit /\ [][AllNext]_allVars /\ AllFair

\* What its clients keep of ChanServ's events and users (chanserv_eventlog.c, chanserv_users.c).
ListsSound == EventsSound /\ UsersSound
=============================================================================
