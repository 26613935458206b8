-------------------------------- MODULE EventLog --------------------------------
(* modules/chanserv_eventlog: the channel events that ChanServ lists, fetched  *)
(* through srvx once a minute and stored in PostgreSQL.  An event is stored    *)
(* when its time is later than the last one's.  ChanServ and its list, oldest  *)
(* first, are external.                                                        *)
(*                                                                             *)
(* What makes the table differ from ChanServ's list is recorded in marks:      *)
(*   "retried"  the connection broke after an INSERT had run; it is sent again *)
(*   "failed"   an INSERT failed, when last_event_ts was already set           *)
(*   "same"     an event was dropped that has the same second as the last one  *)
(*   "window"   more events happened between two fetches than one fetch lists  *)
(*   "crash"    last_event_ts was lost, the rows were not                      *)
(*   "late"     the answer came when the module had been disabled              *)
(*   "kept"     the DELETE failed, last_event_ts was deleted                   *)
EXTENDS Db

CONSTANTS Chan,        \* channels
          MaxEvent,    \* bound: events of a channel
          EventsMax,   \* CHANSERV_FETCH_EVENTS_MAX
          MaxFetch,    \* bound: fetches under way when more are asked for
          MaxBreak     \* bound: mishaps of the database and restarts

ASSUME EventLogAssumption == {MaxEvent, EventsMax, MaxFetch, MaxBreak} \subseteq Nat

VARIABLES
    event_table,    \* db_table_open worked
    listed,         \* listed[c]: ChanServ's events of c, oldest first
    enabled,        \* channels with the module
    last_events,    \* last_events[c]: time of the last event, 0 when there is none
    last_event_ts,  \* the same in the channel database
    fetches,        \* channels whose events srvx was asked for
    rows,           \* rows[c][i]: how often event i of c is in the table
    deleted,        \* channels that were disabled and whose data was deleted; history only
    marks,          \* marks[c], see above; history only
    breaks          \* counts mishaps; bound only

eventVars == <<event_table, listed, enabled, last_events, last_event_ts, fetches, rows, deleted,
               marks, breaks, conn>>

NoRows == [i \in 1..MaxEvent |-> 0]

eventInit ==
    /\ event_table \in BOOLEAN
    /\ listed = [c \in Chan |-> <<>>]
    /\ enabled = {}
    /\ last_events = [c \in Chan |-> 0] /\ last_event_ts = last_events
    /\ fetches = <<>>
    /\ rows = [c \in Chan |-> NoRows]
    /\ deleted = {}
    /\ marks = [c \in Chan |-> {}]
    /\ breaks = 0

\* Something happens in a channel, by the bot itself or not; maybe in the same second.
ChanServLogs(c) ==
    /\ Len(listed[c]) < MaxEvent
    /\ \E own \in BOOLEAN, later \in BOOLEAN :
          LET last == IF listed[c] = <<>> THEN 1 ELSE listed[c][Len(listed[c])].stamp
              e == [stamp |-> IF later THEN last + 1 ELSE last, own |-> own] IN
          /\ listed' = [listed EXCEPT ![c] = Append(@, e)]
          /\ marks' = [marks EXCEPT ![c] = IF ~own /\ e.stamp <= last_events[c] THEN @ \cup {"same"} ELSE @]
    /\ UNCHANGED <<event_table, enabled, last_events, last_event_ts, fetches, rows, deleted, breaks, conn>>
-----------------------------------------------------------------------------
\* How far a response is: the last time, the rows, the marks, the connection,
\* the mishaps.
Progress(c) == [last |-> last_events[c], rows |-> rows[c], marks |-> marks[c], conn |-> conn,
                breaks |-> breaks]

\* Mutant: the time is set when the row is in the table.
event_add_after(p, i, e) ==
    IF e.stamp <= p.last THEN {p}
    ELSE {[p EXCEPT !.rows[i] = @ + o.done, !.conn = o.conn] : o \in do_row_insert(p.conn)}

\* chanserv_event_add.  What the row insert does is not looked at.
chanserv_event_add(p, i, e) ==
    IF e.stamp <= p.last
    THEN {IF e.stamp = p.last /\ ~e.own /\ p.rows[i] = 0 THEN [p EXCEPT !.marks = @ \cup {"same"}] ELSE p}
    ELSE IF e.own \/ ~event_table THEN {[p EXCEPT !.last = e.stamp]}
    ELSE {[p EXCEPT !.last = e.stamp, !.rows[i] = @ + o.done, !.conn = o.conn,
                    !.marks = @ \cup (IF o.done = 0 THEN {"failed"} ELSE {})
                                \cup (IF o.done = 2 THEN {"retried"} ELSE {}),
                    !.breaks = IF o.done = 1 THEN @ ELSE @ + 1] :
             o \in {x \in do_row_insert(p.conn) : p.breaks < MaxBreak \/ x.done = 1}}

\* Mutant: the last line of a response is taken for its end.
AddFrom_short(c, P, i) ==
    LET n == Len(listed[c])
        add[k \in 0..n] ==
            IF k < i THEN P
            ELSE UNION {chanserv_event_add(p, k, listed[c][k]) : p \in add[k - 1]} IN
    IF n <= i THEN P ELSE add[n - 1]

\* The events of the list from number i on, one after the other.
AddFrom(c, P, i) ==
    LET n == Len(listed[c])
        add[k \in 0..n] ==
            IF k < i THEN P
            ELSE UNION {chanserv_event_add(p, k, listed[c][k]) : p \in add[k - 1]} IN
    IF n < i THEN P ELSE add[n]

\* What one fetch lists.
Oldest(c) == IF Len(listed[c]) > EventsMax THEN Len(listed[c]) - EventsMax + 1 ELSE 1
Unseen(c) == {i \in 1..(Oldest(c) - 1) : ~listed[c][i].own /\ listed[c][i].stamp > last_events[c]}

\* The answer for a channel; no channel may have been unregistered (see Disable).
srvx_response_events ==
    /\ fetches # <<>>
    /\ fetches' = Tail(fetches)
    /\ LET c == Head(fetches) IN
       \E p \in AddFrom(c, {Progress(c)}, Oldest(c)) :
          /\ last_events' = [last_events EXCEPT ![c] = p.last]
          /\ rows' = [rows EXCEPT ![c] = p.rows]
          /\ marks' = [marks EXCEPT ![c] = p.marks \cup (IF Unseen(c) # {} THEN {"window"} ELSE {})
                                                  \cup (IF c \notin enabled THEN {"late"} ELSE {})]
          /\ conn' = p.conn
          /\ breaks' = p.breaks
    /\ UNCHANGED <<event_table, listed, enabled, last_event_ts, deleted>>

\* "You lack access": the module disables itself and keeps its data.
srvx_response_lack ==
    /\ fetches # <<>>
    /\ fetches' = Tail(fetches)
    /\ enabled' = enabled \ {Head(fetches)}
    /\ last_event_ts' = [last_event_ts EXCEPT ![Head(fetches)] = last_events[Head(fetches)]]
    /\ UNCHANGED <<event_table, listed, last_events, rows, deleted, marks, breaks, conn>>

\* Requests end without a response, and nothing is stored: srvx cancels all of them when its
\* connection is lost, and asserts on those made before its login (see Srvx).
srvx_response_cancelled ==
    /\ \E kept \in 0..(Len(fetches) - 1) : fetches' = SubSeq(fetches, 1, kept)
    /\ UNCHANGED <<event_table, listed, enabled, last_events, last_event_ts, rows, deleted, marks, breaks, conn>>
-----------------------------------------------------------------------------
InOrder(C) == CHOOSE s \in [1..Cardinality(C) -> C] : \A c \in C : \E k \in DOMAIN s : s[k] = c

\* The timer asks for every channel.
chanserv_fetch_events ==
    /\ enabled # {} /\ Len(fetches) < MaxFetch
    /\ fetches' = fetches \o InOrder(enabled)
    /\ UNCHANGED <<event_table, listed, enabled, last_events, last_event_ts, rows, deleted, marks, breaks, conn>>

\* Enabled by a command; ChanServ is on the channel.
cmod_enabled(c) ==
    /\ c \notin enabled /\ Len(fetches) < MaxFetch - 1
    /\ enabled' = enabled \cup {c}
    /\ fetches' = Append(fetches, c)
    /\ deleted' = deleted \ {c}
    /\ UNCHANGED <<event_table, listed, last_events, last_event_ts, rows, marks, breaks, conn>>

\* Disabled, with or without its data; the latter is what unregistering a channel does.
cmod_disabled(c, delete_data) ==
    /\ c \in enabled
    /\ enabled' = enabled \ {c}
    /\ IF delete_data
       THEN /\ last_event_ts' = [last_event_ts EXCEPT ![c] = 0]
            /\ deleted' = deleted \cup {c}
            /\ IF event_table
               THEN \E o \in {x \in do_row_drop(conn) : breaks < MaxBreak \/ x.ok} :
                       /\ conn' = o.conn
                       /\ breaks' = IF o.ok THEN breaks ELSE breaks + 1
                       /\ rows' = IF o.done THEN [rows EXCEPT ![c] = NoRows] ELSE rows
                       /\ marks' = [marks EXCEPT ![c] = IF o.done THEN {} ELSE @ \cup {"kept"}]
                       /\ last_events' = [last_events EXCEPT ![c] = 0]
               ELSE UNCHANGED <<rows, marks, last_events, conn, breaks>>
       ELSE /\ last_event_ts' = [last_event_ts EXCEPT ![c] = last_events[c]]
            /\ UNCHANGED <<deleted, rows, marks, last_events, conn, breaks>>
    /\ UNCHANGED <<event_table, listed, fetches>>

\* The channel database is written once in a while (chanserv_events_db_write).
chanserv_events_db_write ==
    /\ last_event_ts' = [c \in Chan |-> IF c \in enabled THEN last_events[c] ELSE last_event_ts[c]]
    /\ UNCHANGED <<event_table, listed, enabled, last_events, fetches, rows, deleted, marks, breaks, conn>>

\* The bot ends without MODULE_FINI and starts again: requests are gone.
Crash ==
    /\ breaks < MaxBreak /\ breaks' = breaks + 1
    /\ fetches' = <<>>
    /\ last_events' = last_event_ts
    /\ marks' = [c \in Chan |-> IF last_events[c] # last_event_ts[c] THEN marks[c] \cup {"crash"} ELSE marks[c]]
    /\ UNCHANGED <<event_table, listed, enabled, last_event_ts, rows, deleted, conn>>

eventNext ==
    \/ \E c \in Chan : ChanServLogs(c) \/ cmod_enabled(c) \/ \E d \in BOOLEAN : cmod_disabled(c, d)
    \/ srvx_response_events \/ srvx_response_lack \/ srvx_response_cancelled
    \/ chanserv_fetch_events \/ chanserv_events_db_write \/ Crash

\* The timer fires, and a channel that is asked for again and again is answered again and again:
\* srvx does not lose its connection within every request.
eventFair ==
    /\ WF_eventVars(chanserv_fetch_events)
    /\ \A c \in Chan :
          []<>(\E k \in DOMAIN fetches : fetches[k] = c) =>
              []<><<srvx_response_events /\ Head(fetches) = c>>_eventVars
-----------------------------------------------------------------------------
Foreign(c) == {i \in DOMAIN listed[c] : ~listed[c][i].own}

\* An event is in the table at most once.
StoredOnce ==
    \A c \in Chan : marks[c] \cap {"retried", "crash", "kept"} = {} => \A i \in 1..MaxEvent : rows[c][i] <= 1

\* What last_event_ts says was captured is in the table, and what the bot did itself is not.
StoredAll ==
    \A c \in Chan :
        /\ event_table /\ marks[c] \cap {"failed", "same", "window", "crash"} = {} =>
              \A i \in Foreign(c) : listed[c][i].stamp <= last_events[c] => rows[c][i] > 0
        /\ \A i \in 1..MaxEvent : rows[c][i] > 0 => i \in Foreign(c)

\* The data that somebody deleted stays deleted.
DeletedGone == \A c \in deleted : marks[c] \cap {"kept", "late"} = {} => rows[c] = NoRows

\* The three together.
EventsSound == StoredOnce /\ StoredAll /\ DeletedGone

\* The table catches up with ChanServ's list while a channel has the module, unless one of the
\* above happens.
EveryEventStored ==
    \A c \in Chan :
        (event_table /\ c \in enabled)
            ~> (c \notin enabled \/ marks[c] # {} \/ \A i \in Foreign(c) : rows[c][i] > 0)
=============================================================================
