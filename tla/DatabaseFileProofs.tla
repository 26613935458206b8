------------------------- MODULE DatabaseFileProofs -------------------------
(***************************************************************************)
(* What a crash can do to a database file, for every number of changes and *)
(* crashes; and the web interface, for every number of clients, queries,   *)
(* connections and sessions.                                               *)
(***************************************************************************)
EXTENDS MCDatabaseFile, FiniteSetTheorems, WellFoundedInduction, TLAPS

\* Before any mishap, what a start would read now is at least what was saved, except in the gap;
\* a write that has got past write_func holds all of memory; memory never falls behind the file.
Safe ==
    mishaps = {} =>
        /\ pc # "removed" => database_read(file) >= saved
        /\ pc \in {"written", "removed"} => tmp = mem
        /\ pc # "down" => mem >= saved

\* Type correctness of the write's steps and of both files, for every bound.
THEOREM SpecTypeOK == Spec => []TypeOK
<1>1. Init => TypeOK
  <2> SUFFICES ASSUME Init PROVE TypeOK
    OBVIOUS
  <2>1. 0 \in 0..MaxChange /\ 0 \in 0..MaxCrash
    BY ConstantsAssumption
  <2>2. timer \in BOOLEAN
    BY Zenon DEF Init
  <2> QED
    BY <2>1, <2>2 DEF Init, TypeOK, None, Part
<1>2. TypeOK /\ [Next]_vars => TypeOK'
  <2> SUFFICES ASSUME TypeOK, [Next]_vars PROVE TypeOK'
    OBVIOUS
  <2> USE ConstantsAssumption DEF TypeOK, None, Part
  <2>1. CASE Start
    BY <2>1 DEF Start, database_read
  <2>2. CASE Change
    BY <2>2 DEF Change
  <2>3. CASE Crash
    <3>1. timer' \in BOOLEAN
      BY <2>3, Zenon DEF Crash
    <3> QED
      BY <2>3, <3>1 DEF Crash
  <2>4. CASE database_write
    <3>1. timer' \in BOOLEAN
      BY <2>4, Zenon DEF database_write, rearm
    <3> QED
      BY <2>4, <3>1 DEF database_write, open_tmp, removes
  <2>5. CASE write_func
    BY <2>5 DEF write_func
  <2>6. CASE write_func_fails
    BY <2>6 DEF write_func_fails
  <2>7. CASE remove_old
    BY <2>7 DEF remove_old, removes
  <2>8. CASE rename_tmp
    BY <2>8 DEF rename_tmp
  <2>9. CASE UNCHANGED vars
    BY <2>9 DEF vars
  <2> QED
    BY <2>1, <2>2, <2>3, <2>4, <2>5, <2>6, <2>7, <2>8, <2>9 DEF Next, Step, database_timed_write
<1> QED
  BY <1>1, <1>2, PTL DEF Spec

\* FileIsWhole, whatever crashes: database_write never puts a file under the database's name that
\* it has not finished, as long as the disk takes what is written.
THEOREM SpecFileIsWhole == Spec => []FileIsWhole
<1> DEFINE Inv == FileIsWhole /\ ("full" \notin mishaps /\ pc \in {"written", "removed"} => tmp = mem)
<1>1. Init => Inv
  BY DEF Init, FileIsWhole, None, Part
<1>2. TypeOK /\ Inv /\ [Next]_vars => Inv'
  <2> SUFFICES ASSUME TypeOK, Inv, [Next]_vars PROVE Inv'
    OBVIOUS
  <2> USE ConstantsAssumption DEF TypeOK, FileIsWhole, None, Part
  <2>1. CASE Start \/ Change \/ Crash
    BY <2>1 DEF Start, Change, Crash
  <2>2. CASE database_write
    BY <2>2 DEF database_write, open_tmp, removes
  <2>3. CASE write_func
    BY <2>3 DEF write_func
  <2>4. CASE write_func_fails
    BY <2>4 DEF write_func_fails
  <2>5. CASE remove_old
    BY <2>5 DEF remove_old, removes
  <2>6. CASE rename_tmp
    BY <2>6 DEF rename_tmp
  <2>7. CASE UNCHANGED vars
    BY <2>7 DEF vars
  <2> QED
    BY <2>1, <2>2, <2>3, <2>4, <2>5, <2>6, <2>7 DEF Next, Step, database_timed_write
<1> QED
  BY <1>1, <1>2, SpecTypeOK, PTL DEF Spec

\* Durable: unless a crash hit the gap between remove and rename or the disk was full, every start
\* brings back the last write.
THEOREM SpecDurable == Spec => []Durable
<1>1. Init => Safe
  BY DEF Init, Safe, database_read, None, Part
<1>2. TypeOK /\ Safe /\ [Next]_vars => Safe'
  <2> SUFFICES ASSUME TypeOK, Safe, [Next]_vars PROVE Safe'
    OBVIOUS
  <2> USE ConstantsAssumption DEF TypeOK, Safe, None, Part, database_read
  <2>1. CASE Start
    BY <2>1 DEF Start
  <2>2. CASE Change
    BY <2>2 DEF Change
  <2>3. CASE Crash
    BY <2>3 DEF Crash
  <2>4. CASE database_write
    BY <2>4 DEF database_write, open_tmp, removes
  <2>5. CASE write_func
    BY <2>5 DEF write_func
  <2>6. CASE write_func_fails
    BY <2>6 DEF write_func_fails
  <2>7. CASE remove_old
    BY <2>7 DEF remove_old, removes
  <2>8. CASE rename_tmp
    BY <2>8 DEF rename_tmp
  <2>9. CASE UNCHANGED vars
    BY <2>9 DEF vars
  <2> QED
    BY <2>1, <2>2, <2>3, <2>4, <2>5, <2>6, <2>7, <2>8, <2>9 DEF Next, Step, database_timed_write
<1>3. Safe => Durable
  BY DEF Safe, Durable
<1> QED
  BY <1>1, <1>2, <1>3, SpecTypeOK, PTL DEF Spec

(***************************************************************************)
(* The web interface's sessions.                                           *)
(***************************************************************************)

Login == [who : User, sid : Sid, ip : Ip]

\* A session belongs to the login that made it, which is never forgotten or given to another; what
\* was done last was done for such a login.
SessionsInv ==
    /\ DOMAIN sessions \subseteq Sid
    /\ \A s \in DOMAIN sessions : sessions[s] \in Session /\ sessions[s].idle <= SessionTimeout
    /\ memory \in [Memory -> User \cup {NOBODY}]
    /\ login \in [Sid -> Login \cup {Idle0}]
    /\ \A s \in DOMAIN sessions : login[s] \in Login /\ login[s].sid = s /\ login[s].ip = sessions[s].ip
    /\ ~confused => \A s \in DOMAIN sessions : memory[sessions[s].account] = login[s].who
    /\ ~confused /\ actedAs # Idle0 =>
          actedAs.sid \in Sid /\ login[actedAs.sid] \in Login /\ actedAs = login[actedAs.sid]

(***************************************************************************)
(* The listeners.                                                          *)
(***************************************************************************)

ListenersInv == ListenersSound /\ http_conf \in Conf

(***************************************************************************)
(* The pool and the clients.                                               *)
(***************************************************************************)

\* What an entry's state says of the rest of it.
EntryOK(a) ==
    /\ a.state \in {"IDLE", "DEAD"} => a.q = NOQ
    /\ a.state = "IDLE" => a.conn /\ a.sock
    /\ a.state = "BUSY" => a.q # NOQ
    /\ a.q # NOQ => a.conn /\ a.sock
    /\ a.result => a.state = "BUSY"

Entries ==
    \A i \in DOMAIN asyncs :
        /\ EntryOK(asyncs[i])
        /\ asyncs[i].q # NOQ =>
              /\ asyncs[i].q \in accepted /\ asyncs[i].q \notin lost
              /\ asyncs[i].result => told[asyncs[i].q] = 1 /\ released[asyncs[i].q] = 0
              /\ ~asyncs[i].result => told[asyncs[i].q] = 0

OneCarrier ==
    \A i, j \in DOMAIN asyncs : asyncs[i].q = asyncs[j].q /\ asyncs[i].q # NOQ => i = j

Fates ==
    \A q \in Query :
        IF q \in accepted
        THEN /\ told[q] <= 1 /\ released[q] <= told[q]
             /\ q \in lost => told[q] = 0
             /\ told[q] = 0 /\ q \notin lost => \E i \in DOMAIN asyncs : asyncs[i].q = q
        ELSE released[q] = 0

PoolInv == PoolTypeOK /\ Entries /\ OneCarrier /\ Fates

ClientRec == [open : BOOLEAN, rbuf : Seq(Kind), partial : BOOLEAN, delay : BOOLEAN, close : BOOLEAN,
              served : BOOLEAN, sent : BOOLEAN, queue : BOOLEAN, timer : BOOLEAN, answers : Nat,
              messy : BOOLEAN]

\* A client and the queries it waits for.  While a response is in the queue the client is moved on
\* when the queue is empty: that is why an answered client may do without its timer.
ClientOK(cl, waiting) ==
    /\ cl \in ClientRec
    /\ ~cl.open => waiting = {}
    /\ cl.open => (cl.sent => cl.queue) /\ (cl.timer \/ (cl.queue /\ cl.close))
    /\ cl.open /\ ~cl.messy =>
          /\ cl.answers <= 1 /\ (cl.sent <=> cl.answers = 1)
          /\ cl.delay => \E q \in Query : waiting = {q}
          /\ ~cl.delay => waiting = {}

ClientsInv ==
    /\ PoolInv
    /\ clients \in [Client -> ClientRec]
    /\ asker \in [Query -> Client \cup {NoClient}]
    /\ strays \subseteq accepted
    /\ \A q \in accepted : asker[q] \in Client
    /\ \A c \in Client : ClientOK(clients[c], Waiting(c))

WebInv == SessionsInv /\ ListenersInv /\ ClientsInv

\* At first there are no sessions.
LEMMA SessionsStart == sessionInit => SessionsInv
<1> SUFFICES ASSUME sessionInit PROVE SessionsInv
  OBVIOUS
<1>1. DOMAIN sessions = {}
  BY DEF sessionInit
<1>2. memory \in [Memory -> User \cup {NOBODY}]
  BY DEF sessionInit
<1>3. login \in [Sid -> Login \cup {Idle0}]
  BY DEF sessionInit
<1> QED
  BY <1>1, <1>2, <1>3 DEF SessionsInv, sessionInit

\* A session id is new when somebody logs in with it, so that no earlier login is forgotten.
LEMMA LoginKept ==
    ASSUME SessionsInv, NEW s \in Sid, NEW m \in Memory, NEW ip \in Ip, NEW u \in User,
           session_create(s, m, ip, u), memory'[m] = u,
           \A x \in Memory : memory[x] # NOBODY => memory'[x] = memory[x],
           memory' \in [Memory -> User \cup {NOBODY}],
           UNCHANGED <<actedAs, confused>>
    PROVE  SessionsInv'
<1> USE SessionAssumption DEF SessionsInv
<1>1. /\ DOMAIN sessions' = DOMAIN sessions \cup {s}
      /\ s \notin DOMAIN sessions
      /\ sessions'[s] = [account |-> m, ip |-> ip, idle |-> 0]
      /\ \A x \in DOMAIN sessions : sessions'[x] = sessions[x]
  BY DEF session_create
<1>2. login[s] = Idle0 /\ login' = [login EXCEPT ![s] = [who |-> u, sid |-> s, ip |-> ip]]
  BY DEF session_create
<1>3. [who |-> u, sid |-> s, ip |-> ip] \in Login
  BY DEF Login
<1>4. Idle0 \notin Login
  BY DEF Idle0, Login
<1>5. login' \in [Sid -> Login \cup {Idle0}]
  BY <1>2, <1>3
<1>6. \A x \in Sid : login[x] \in Login => login'[x] = login[x]
  BY <1>2, <1>4
<1>7. login'[s] = [who |-> u, sid |-> s, ip |-> ip]
  BY <1>2
<1>8. \A x \in DOMAIN sessions' : sessions'[x] \in Session /\ sessions'[x].idle <= SessionTimeout
  <2>1. sessions'[s] \in Session /\ sessions'[s].idle <= SessionTimeout
    BY <1>1 DEF Session
  <2> QED
    BY <1>1, <2>1
<1>9. \A x \in DOMAIN sessions' :
         login'[x] \in Login /\ login'[x].sid = x /\ login'[x].ip = sessions'[x].ip
  BY <1>1, <1>3, <1>6, <1>7
<1>10. ~confused' => \A x \in DOMAIN sessions' : memory'[sessions'[x].account] = login'[x].who
  <2> SUFFICES ASSUME ~confused, NEW x \in DOMAIN sessions'
               PROVE  memory'[sessions'[x].account] = login'[x].who
    OBVIOUS
  <2>1. CASE x = s
    BY <2>1, <1>1, <1>7
  <2>2. CASE x # s
    <3>1. x \in DOMAIN sessions /\ sessions'[x] = sessions[x] /\ login'[x] = login[x]
      BY <2>2, <1>1, <1>6
    <3>2. login[x].who \in User /\ sessions[x].account \in Memory
      BY <3>1 DEF Login, Session
    <3> QED
      BY <3>1, <3>2
  <2> QED
    BY <2>1, <2>2
<1>11. ~confused' /\ actedAs' # Idle0 =>
          actedAs'.sid \in Sid /\ login'[actedAs'.sid] \in Login /\ actedAs' = login'[actedAs'.sid]
  BY <1>6
<1> QED
  BY <1>1, <1>5, <1>8, <1>9, <1>10, <1>11 DEF Idle0

\* Every request and every run of the timer keeps sessions with the logins that made them.
LEMMA SessionsStep == SessionsInv /\ [sessionNext]_sessionVars => SessionsInv'
<1> SUFFICES ASSUME SessionsInv, [sessionNext]_sessionVars PROVE SessionsInv'
  OBVIOUS
<1> USE SessionAssumption
<1>1. ASSUME NEW s \in Sid, NEW m \in Memory, NEW ip \in Ip, ajax_login_handler(s, m, ip)
      PROVE  SessionsInv'
  <2>1. memory[m] \in User
    BY <1>1 DEF ajax_login_handler, SessionsInv
  <2> QED
    BY <1>1, <2>1, LoginKept DEF ajax_login_handler, SessionsInv
<1>2. ASSUME NEW s \in Sid, NEW m \in Memory, NEW ip \in Ip, NEW u \in User,
             ajax_signup_handler(s, m, u, ip)
      PROVE  SessionsInv'
  <2>1. /\ memory'[m] = u
        /\ \A x \in Memory : memory[x] # NOBODY => memory'[x] = memory[x]
        /\ memory' \in [Memory -> User \cup {NOBODY}]
    BY <1>2 DEF ajax_signup_handler, SessionsInv
  <2> QED
    BY <1>2, <2>1, LoginKept DEF ajax_signup_handler
<1>3. ASSUME NEW s, NEW ip, require_session(s, ip) PROVE SessionsInv'
  <2> USE <1>3 DEF SessionsInv
  <2>1. s \in DOMAIN sessions /\ UNCHANGED <<memory, login, confused>>
    BY DEF require_session
  <2>2. CASE session_find_sid(s, ip)
    <3>1. /\ sessions' = [sessions EXCEPT ![s].idle = 0]
          /\ actedAs' = [who |-> memory[sessions[s].account], sid |-> s, ip |-> ip]
          /\ sessions[s].ip = ip
      BY <2>2 DEF require_session, session_find_sid
    <3>2. DOMAIN sessions' = DOMAIN sessions
      BY <3>1
    <3>3. \A x \in DOMAIN sessions :
             /\ sessions'[x] \in Session /\ sessions'[x].idle <= SessionTimeout
             /\ sessions'[x].ip = sessions[x].ip /\ sessions'[x].account = sessions[x].account
      BY <3>1 DEF Session
    <3>4. ~confused => actedAs' = login[s]
      <4> SUFFICES ASSUME ~confused PROVE actedAs' = login[s]
        OBVIOUS
      <4>1. login[s] \in Login /\ login[s].sid = s /\ login[s].ip = ip /\ login[s].who = memory[sessions[s].account]
        BY <2>1, <3>1
      <4> QED
        BY <4>1, <3>1 DEF Login
    <3>5. actedAs'.sid = s
      BY <3>1
    <3> QED
      BY <2>1, <3>2, <3>3, <3>4, <3>5 DEF Idle0
  <2>3. CASE ~session_find_sid(s, ip)
    BY <2>1, <2>3 DEF require_session, session_del, Without, Idle0
  <2> QED
    BY <2>2, <2>3
<1>4. ASSUME NEW s, NEW ip, ajax_logout_handler(s, ip) PROVE SessionsInv'
  BY <1>4 DEF ajax_logout_handler, session_del, Without, SessionsInv, Idle0
<1>5. CASE ExpireTimer
  <2> USE <1>5 DEF SessionsInv
  <2>1. DOMAIN sessions' \subseteq DOMAIN sessions
    BY DEF ExpireTimer, session_expire
  <2>2. \A x \in DOMAIN sessions' :
           /\ sessions'[x] \in Session /\ sessions'[x].idle <= SessionTimeout
           /\ sessions'[x].ip = sessions[x].ip /\ sessions'[x].account = sessions[x].account
    <3> SUFFICES ASSUME NEW x \in DOMAIN sessions'
                 PROVE  /\ sessions'[x] \in Session /\ sessions'[x].idle <= SessionTimeout
                        /\ sessions'[x].ip = sessions[x].ip /\ sessions'[x].account = sessions[x].account
      OBVIOUS
    <3>1. x \in DOMAIN sessions /\ sessions[x].idle < SessionTimeout
      BY DEF ExpireTimer, session_expire
    <3>2. sessions'[x] = [sessions[x] EXCEPT !.idle = @ + 1]
      BY DEF ExpireTimer, session_expire
    <3>3. sessions[x] \in Session
      BY <3>1
    <3> QED
      BY <3>1, <3>2, <3>3 DEF Session
  <2> QED
    BY <2>1, <2>2 DEF ExpireTimer, Idle0
<1>6. CASE session_fini
  <2>1. DOMAIN sessions' = {}
    BY <1>6 DEF session_fini
  <2> QED
    BY <1>6, <2>1 DEF session_fini, SessionsInv, Idle0
<1>7. ASSUME NEW m \in Memory, AccountDeleted(m) PROVE SessionsInv'
  <2> USE <1>7 DEF SessionsInv, AccountDeleted
  <2>1. memory' \in [Memory -> User \cup {NOBODY}]
    OBVIOUS
  <2>2. ~confused' => ~confused /\ \A s \in DOMAIN sessions : memory'[sessions[s].account] = login[s].who
    BY DEF Session
  <2> QED
    BY <2>1, <2>2 DEF Idle0
<1>8. CASE UNCHANGED sessionVars
  BY <1>8 DEF sessionVars, SessionsInv, Idle0
<1> QED
  BY <1>1, <1>2, <1>3, <1>4, <1>5, <1>6, <1>7, <1>8 DEF sessionNext

\* A reload and a restart keep the listeners on the configured ports.
LEMMA ListenersStep == ListenersInv /\ [listenerNext]_listenerVars => ListenersInv'
<1> SUFFICES ASSUME ListenersInv, [listenerNext]_listenerVars PROVE ListenersInv'
  OBVIOUS
<1> USE DEF ListenersInv, ListenersSound
<1>1. ASSUME NEW conf \in Conf, http_conf_reload(conf) PROVE ListenersInv'
  <2>1. CASE http_conf.plain = 0
    BY <1>1, <2>1 DEF http_conf_reload
  <2>2. CASE http_conf.plain # 0 /\ (conf # http_conf \/ conf.ssl # 0)
    <3>1. listeners' \in listener_start(conf)
      BY <1>1, <2>2 DEF http_conf_reload
    <3>2. \A k \in Kinds : listeners'[k] \in {0, IF conf[k] = 0 THEN STALE ELSE conf[k]}
      BY <3>1 DEF listener_start
    <3> QED
      BY <1>1, <3>2 DEF http_conf_reload
  <2>3. CASE http_conf.plain # 0 /\ conf = http_conf /\ conf.ssl = 0
    BY <1>1, <2>3 DEF http_conf_reload
  <2> QED
    BY <2>1, <2>2, <2>3
<1>2. ASSUME NEW conf \in Conf, http_restart(conf) PROVE ListenersInv'
  <2>1. \A k \in Kinds : listeners'[k] \in {0, conf[k]}
    BY <1>2 DEF http_restart
  <2> QED
    BY <1>2, <2>1 DEF http_restart
<1>3. CASE UNCHANGED listenerVars
  BY <1>3 DEF listenerVars
<1> QED
  BY <1>1, <1>2, <1>3 DEF listenerNext

\* The head of a list that is not empty is one of its entries.
LEMMA FirstIsOne ==
    ASSUME NEW n \in Nat, NEW I \in SUBSET (1..n), I # {}
    PROVE  First(I) \in I
<1> DEFINE T == {n - i : i \in I}
<1>1. T \in SUBSET Nat /\ T # {}
  <2>1. ASSUME NEW i \in I PROVE n - i \in Nat
    <3>1. i \in 1..n
      OBVIOUS
    <3> QED
      BY <3>1
  <2> QED
    BY <2>1
<1>2. PICK x \in T : \A y \in T : ~(<<y, x>> \in OpToRel(<, Nat))
  BY <1>1, WFMin, NatLessThanWellFounded
<1>3. \A y \in T : ~(y < x)
  BY <1>1, <1>2 DEF OpToRel
<1>4. PICK i \in I : x = n - i
  OBVIOUS
<1>5. \A j \in I : j <= i
  <2> SUFFICES ASSUME NEW j \in I PROVE j <= i
    OBVIOUS
  <2>1. n - j \in T
    OBVIOUS
  <2>2. ~(n - j < n - i)
    BY <2>1, <1>3, <1>4
  <2>3. i \in Int /\ j \in Int
    OBVIOUS
  <2> QED
    BY <2>2, <2>3
<1> QED
  BY <1>5 DEF First

\* Only entry i differs between the pool and p, and i was free.
Taken(p, i) ==
    /\ i \in DOMAIN p
    /\ \A j \in DOMAIN p : j # i => j \in DOMAIN asyncs /\ p[j] = asyncs[j]
    /\ DOMAIN asyncs \subseteq DOMAIN p
    /\ i \in DOMAIN asyncs => asyncs[i].q = NOQ
    /\ ~p[i].result

\* What db_async_select can come to: an entry that carries q, or one that carries nothing and an
\* asker that hears of it.
Selected(q, o) ==
    /\ o.asyncs \in Seq(Async) /\ Len(o.asyncs) <= MaxAsync
    /\ o.orphans \in Nat
    /\ \A j \in DOMAIN o.asyncs : EntryOK(o.asyncs[j])
    /\ o.error \in BOOLEAN /\ o.rval \in {0, 1}
    /\ o.rval = 0 => ~o.error
    /\ \E i \in DOMAIN o.asyncs : Taken(o.asyncs, i) /\ o.asyncs[i].q = IF o.rval = 0 THEN q ELSE NOQ

\* A query is sent on an entry with a connection that carries nothing.
LEMMA SentOnIdle ==
    ASSUME PoolInv, NEW q \in Query, NEW i \in DOMAIN asyncs, asyncs[i].state = "IDLE",
           NEW o \in pgsql_send_query(i, q)
    PROVE  Selected(q, o)
<1> DEFINE a == [asyncs[i] EXCEPT !.state = "BUSY", !.q = q, !.result = FALSE]
           d == Dead(asyncs[i])
<1> USE DbAssumption
<1>1. /\ asyncs \in Seq(Async) /\ Len(asyncs) <= MaxAsync /\ orphans \in Nat
      /\ \A j \in DOMAIN asyncs : EntryOK(asyncs[j])
      /\ asyncs[i] \in Async
  BY DEF PoolInv, PoolTypeOK, Entries
<1>2. a \in Async /\ EntryOK(a) /\ a.q = q /\ ~a.result
  BY <1>1 DEF Async, EntryOK
<1>3. d \in Async /\ EntryOK(d) /\ d.q = NOQ /\ ~d.result
  BY <1>1 DEF Async, EntryOK, Dead
<1>4. asyncs[i].q = NOQ
  BY <1>1 DEF EntryOK
<1>5. \/ o = Outcome([asyncs EXCEPT ![i] = a], orphans, FALSE, 0)
      \/ o = Outcome([asyncs EXCEPT ![i] = d], orphans, TRUE, 1)
  BY DEF pgsql_send_query
<1> HIDE DEF a, d
<1>6. CASE o = Outcome([asyncs EXCEPT ![i] = a], orphans, FALSE, 0)
  <2>1. o.asyncs = [asyncs EXCEPT ![i] = a] /\ o.orphans = orphans /\ o.error = FALSE /\ o.rval = 0
    BY <1>6 DEF Outcome
  <2>2. Taken(o.asyncs, i)
    BY <2>1, <1>1, <1>2, <1>4 DEF Taken
  <2>3. o.error \in BOOLEAN /\ o.rval \in {0, 1} /\ (o.rval = 0 => ~o.error) /\ o.orphans \in Nat
    BY <2>1, <1>1
  <2>4. /\ o.asyncs \in Seq(Async) /\ Len(o.asyncs) <= MaxAsync
        /\ \A j \in DOMAIN o.asyncs : EntryOK(o.asyncs[j])
    BY <2>1, <2>2, <1>1, <1>2
  <2>5. i \in DOMAIN o.asyncs /\ o.asyncs[i].q = IF o.rval = 0 THEN q ELSE NOQ
    BY <2>1, <2>2, <1>1, <1>2
  <2> QED
    BY <2>2, <2>3, <2>4, <2>5 DEF Selected
<1>7. CASE o = Outcome([asyncs EXCEPT ![i] = d], orphans, TRUE, 1)
  <2>1. o.asyncs = [asyncs EXCEPT ![i] = d] /\ o.orphans = orphans /\ o.error = TRUE /\ o.rval = 1
    BY <1>7 DEF Outcome
  <2>2. Taken(o.asyncs, i)
    BY <2>1, <1>1, <1>3, <1>4 DEF Taken
  <2>3. o.error \in BOOLEAN /\ o.rval \in {0, 1} /\ (o.rval = 0 => ~o.error) /\ o.orphans \in Nat
    <3>1. o.error \in BOOLEAN
      BY <2>1
    <3>2. o.rval \in {0, 1} /\ o.rval # 0 /\ o.orphans \in Nat
      BY <2>1, <1>1
    <3> QED
      BY <3>1, <3>2
  <2>4. /\ o.asyncs \in Seq(Async) /\ Len(o.asyncs) <= MaxAsync
        /\ \A j \in DOMAIN o.asyncs : EntryOK(o.asyncs[j])
    BY <2>1, <2>2, <1>1, <1>3
  <2>5. i \in DOMAIN o.asyncs /\ o.asyncs[i].q = IF o.rval = 0 THEN q ELSE NOQ
    BY <2>1, <2>2, <1>1, <1>3
  <2> QED
    BY <2>2, <2>3, <2>4, <2>5 DEF Selected
<1> QED
  BY <1>5, <1>6, <1>7

\* A connection is made in an entry that carries nothing.
LEMMA ConnectedAnew ==
    ASSUME PoolInv, NEW q \in Query, NEW p \in Seq(Async), Len(p) <= MaxAsync,
           \A j \in DOMAIN p : EntryOK(p[j]),
           NEW i \in DOMAIN p, Taken(p, i), p[i].q = NOQ, p[i].state \in {"DEAD", "CONNECTING"},
           NEW o \in Connect(p, i, q)
    PROVE  Selected(q, o)
<1> DEFINE a == [p[i] EXCEPT !.state = "CONNECTING", !.conn = TRUE]
           b == [p[i] EXCEPT !.state = "CONNECTING", !.conn = TRUE, !.sock = TRUE, !.q = q]
<1> USE DbAssumption
<1>1. orphans \in Nat /\ p[i] \in Async
  BY DEF PoolInv, PoolTypeOK
<1>2. ~p[i].result
  BY DEF Taken
<1>3. a \in Async /\ EntryOK(a) /\ a.q = NOQ /\ ~a.result
  BY <1>1, <1>2 DEF Async, EntryOK
<1>4. b \in Async /\ EntryOK(b) /\ b.q = q /\ ~b.result
  BY <1>1, <1>2 DEF Async, EntryOK
<1>5. \/ o = Outcome(p, orphans, FALSE, 1)
      \/ o = Outcome([p EXCEPT ![i] = a], orphans, FALSE, 1)
      \/ o = Outcome([p EXCEPT ![i] = b], IF p[i].sock THEN orphans + 1 ELSE orphans, FALSE, 0)
  BY DEF Connect
<1> HIDE DEF a, b
<1>6. CASE o = Outcome(p, orphans, FALSE, 1)
  <2>1. o.asyncs = p /\ o.orphans = orphans /\ o.error = FALSE /\ o.rval = 1
    BY <1>6 DEF Outcome
  <2>3. o.error \in BOOLEAN /\ o.rval \in {0, 1} /\ (o.rval = 0 => ~o.error)
    BY <2>1
  <2> QED
    BY <2>1, <2>3, <1>1 DEF Selected
<1>7. CASE o = Outcome([p EXCEPT ![i] = a], orphans, FALSE, 1)
  <2>1. o.asyncs = [p EXCEPT ![i] = a] /\ o.orphans = orphans /\ o.error = FALSE /\ o.rval = 1
    BY <1>7 DEF Outcome
  <2>2. Taken(o.asyncs, i)
    BY <2>1, <1>3 DEF Taken
  <2>3. o.error \in BOOLEAN /\ o.rval \in {0, 1} /\ (o.rval = 0 => ~o.error) /\ o.orphans \in Nat
    BY <2>1, <1>1
  <2>4. /\ o.asyncs \in Seq(Async) /\ Len(o.asyncs) <= MaxAsync
        /\ \A j \in DOMAIN o.asyncs : EntryOK(o.asyncs[j])
    BY <2>1, <2>2, <1>1, <1>3
  <2>5. i \in DOMAIN o.asyncs /\ o.asyncs[i].q = IF o.rval = 0 THEN q ELSE NOQ
    BY <2>1, <2>2, <1>1, <1>3
  <2> QED
    BY <2>2, <2>3, <2>4, <2>5 DEF Selected
<1>8. CASE o = Outcome([p EXCEPT ![i] = b], IF p[i].sock THEN orphans + 1 ELSE orphans, FALSE, 0)
  <2>1. o.asyncs = [p EXCEPT ![i] = b] /\ o.orphans \in Nat /\ o.error = FALSE /\ o.rval = 0
    BY <1>8, <1>1 DEF Outcome
  <2>2. Taken(o.asyncs, i)
    BY <2>1, <1>4 DEF Taken
  <2>3. o.error \in BOOLEAN /\ o.rval \in {0, 1} /\ (o.rval = 0 => ~o.error) /\ o.orphans \in Nat
    BY <2>1, <1>1
  <2>4. /\ o.asyncs \in Seq(Async) /\ Len(o.asyncs) <= MaxAsync
        /\ \A j \in DOMAIN o.asyncs : EntryOK(o.asyncs[j])
    BY <2>1, <2>2, <1>1, <1>4
  <2>5. i \in DOMAIN o.asyncs /\ o.asyncs[i].q = IF o.rval = 0 THEN q ELSE NOQ
    BY <2>1, <2>2, <1>1, <1>4
  <2> QED
    BY <2>2, <2>3, <2>4, <2>5 DEF Selected
<1> QED
  BY <1>5, <1>6, <1>7, <1>8

\* db_async_select, whichever entry it finds.
LEMMA SelectOutcome ==
    ASSUME PoolInv, NEW q \in Query, NEW o \in do_async_select(q)
    PROVE  Selected(q, o)
<1> USE DbAssumption
<1>1. /\ asyncs \in Seq(Async) /\ Len(asyncs) <= MaxAsync
      /\ \A j \in DOMAIN asyncs : EntryOK(asyncs[j]) /\ asyncs[j] \in Async
  BY DEF PoolInv, PoolTypeOK, Entries
<1>2. ASSUME NEW s, In(s) # {} PROVE First(In(s)) \in DOMAIN asyncs /\ asyncs[First(In(s))].state = s
  <2>1. In(s) \in SUBSET (1..Len(asyncs)) /\ Len(asyncs) \in Nat
    BY <1>1 DEF In
  <2>2. First(In(s)) \in In(s)
    BY <2>1, <1>2, FirstIsOne
  <2> QED
    BY <2>2 DEF In
<1>3. CASE In("IDLE") # {}
  BY <1>2, <1>3, SentOnIdle DEF do_async_select
<1>4. CASE In("IDLE") = {} /\ In("DEAD") # {}
  <2>1. PICK i \in DOMAIN asyncs : i = First(In("DEAD")) /\ asyncs[i].state = "DEAD"
    BY <1>2, <1>4
  <2>2. o \in Connect(asyncs, i, q)
    BY <1>4, <2>1 DEF do_async_select, pgsql_get_async
  <2>3. asyncs[i].q = NOQ /\ Taken(asyncs, i)
    BY <2>1, <1>1 DEF EntryOK, Taken, Async
  <2> QED
    BY <1>1, <2>1, <2>2, <2>3, ConnectedAnew
<1>5. CASE In("IDLE") = {} /\ In("DEAD") = {}
  <2> DEFINE p == Append(asyncs, Fresh)
             i == Len(asyncs) + 1
  <2>1. o \in Connect(p, i, q) /\ Len(asyncs) < MaxAsync
    BY <1>5 DEF do_async_select, pgsql_get_async
  <2>2. Fresh \in Async /\ EntryOK(Fresh) /\ Fresh.q = NOQ /\ Fresh.state = "CONNECTING" /\ ~Fresh.result
    BY DEF Fresh, Async, EntryOK
  <2>3. /\ p \in Seq(Async) /\ Len(p) = i /\ p[i] = Fresh
        /\ \A j \in DOMAIN p : j # i => j \in DOMAIN asyncs /\ p[j] = asyncs[j]
        /\ DOMAIN asyncs \subseteq DOMAIN p /\ i \in DOMAIN p /\ i \notin DOMAIN asyncs
    BY <1>1, <2>2
  <2>4. Len(p) <= MaxAsync
    BY <1>1, <2>1, <2>3
  <2> HIDE DEF p, i
  <2>5. Taken(p, i)
    BY <2>2, <2>3 DEF Taken
  <2>6. \A j \in DOMAIN p : EntryOK(p[j])
    BY <1>1, <2>2, <2>3
  <2> QED
    BY <2>1, <2>2, <2>3, <2>4, <2>5, <2>6, ConnectedAnew
<1> QED
  BY <1>3, <1>4, <1>5

\* A query is asked once, and is carried by one entry from then on, or was answered.
LEMMA AskStep ==
    ASSUME PoolInv, NEW q \in Query, NEW o \in do_async_select(q), Ask(q, o)
    PROVE  PoolInv'
<1> USE DbAssumption
<1>1. Selected(q, o)
  BY SelectOutcome
<1>2. /\ q \notin accepted /\ told[q] = 0 /\ asyncs' = o.asyncs /\ orphans' = o.orphans
      /\ accepted' = (IF o.rval = 0 THEN accepted \cup {q} ELSE accepted)
      /\ told' = [told EXCEPT ![q] = (IF o.error THEN 1 ELSE 0) + o.rval]
      /\ released' = released /\ lost' = lost /\ conn' = conn
  BY DEF Ask
<1>3. PICK i \in DOMAIN asyncs' : Taken(asyncs', i) /\ asyncs'[i].q = IF o.rval = 0 THEN q ELSE NOQ
  BY <1>1, <1>2 DEF Selected
<1>4. /\ told \in [Query -> Nat] /\ released \in [Query -> Nat] /\ accepted \subseteq Query
      /\ lost \subseteq accepted
  BY DEF PoolInv, PoolTypeOK
<1>5. PoolTypeOK'
  BY <1>1, <1>2, <1>4 DEF Selected, PoolInv, PoolTypeOK
<1>6. Entries'
  <2>1. \A j \in DOMAIN asyncs' : EntryOK(asyncs'[j])
    BY <1>1, <1>2 DEF Selected
  <2> SUFFICES ASSUME NEW j \in DOMAIN asyncs', asyncs'[j].q # NOQ
               PROVE  /\ asyncs'[j].q \in accepted' /\ asyncs'[j].q \notin lost'
                      /\ asyncs'[j].result => told'[asyncs'[j].q] = 1 /\ released'[asyncs'[j].q] = 0
                      /\ ~asyncs'[j].result => told'[asyncs'[j].q] = 0
    BY <2>1 DEF Entries, EntryOK
  <2>2. CASE j = i
    <3>1. asyncs'[j].q = q /\ o.rval = 0 /\ ~asyncs'[j].result /\ ~o.error
      BY <2>2, <1>1, <1>3 DEF Taken, Selected
    <3> QED
      BY <3>1, <1>2, <1>4
  <2>3. CASE j # i
    <3>1. j \in DOMAIN asyncs /\ asyncs'[j] = asyncs[j]
      BY <2>3, <1>3 DEF Taken
    <3>2. asyncs[j].q \in accepted
      BY <3>1 DEF PoolInv, Entries
    <3>3. asyncs[j].q # q
      BY <3>2, <1>2
    <3> QED
      BY <3>1, <3>2, <3>3, <1>2, <1>4 DEF PoolInv, Entries
  <2> QED
    BY <2>2, <2>3
<1>7. OneCarrier'
  <2>1. \A j \in DOMAIN asyncs' : j # i => asyncs'[j].q # q
    BY <1>2, <1>3, q # NOQ DEF Taken, PoolInv, Entries
  <2> QED
    BY <2>1, <1>3 DEF Taken, PoolInv, OneCarrier
<1>8. Fates'
  <2> SUFFICES ASSUME NEW x \in Query
               PROVE  IF x \in accepted'
                      THEN /\ told'[x] <= 1 /\ released'[x] <= told'[x]
                           /\ x \in lost' => told'[x] = 0
                           /\ told'[x] = 0 /\ x \notin lost' => \E j \in DOMAIN asyncs' : asyncs'[j].q = x
                      ELSE released'[x] = 0
    BY DEF Fates
  <2>1. CASE x = q
    <3>1. released[q] = 0
      BY <1>2 DEF PoolInv, Fates
    <3> QED
      BY <3>1, <2>1, <1>1, <1>2, <1>3, <1>4 DEF Selected
  <2>2. CASE x # q
    <3>1. told'[x] = told[x] /\ (x \in accepted' <=> x \in accepted)
      BY <2>2, <1>2, <1>4
    <3>2. ASSUME NEW j \in DOMAIN asyncs, asyncs[j].q = x PROVE j \in DOMAIN asyncs' /\ asyncs'[j].q = x
      BY <3>2, <1>3, DbAssumption DEF Taken
    <3> QED
      BY <3>1, <3>2, <1>2 DEF PoolInv, Fates
  <2> QED
    BY <2>1, <2>2
<1> QED
  BY <1>5, <1>6, <1>7, <1>8 DEF PoolInv

\* What stays when one entry becomes a, which carries its query or none.
LEMMA EntryStep ==
    ASSUME PoolInv, NEW i \in DOMAIN asyncs, NEW a \in Async, EntryOK(a), a.q \in {NOQ, asyncs[i].q},
           asyncs' = [asyncs EXCEPT ![i] = a]
    PROVE  /\ asyncs' \in Seq(Async) /\ Len(asyncs') <= MaxAsync /\ DOMAIN asyncs' = DOMAIN asyncs
           /\ asyncs'[i] = a
           /\ \A j \in DOMAIN asyncs : j # i => asyncs'[j] = asyncs[j]
           /\ \A j \in DOMAIN asyncs : EntryOK(asyncs'[j])
           /\ \A j \in DOMAIN asyncs : j # i /\ asyncs[j].q # NOQ => asyncs[j].q # asyncs[i].q
           /\ OneCarrier'
<1>1. asyncs \in Seq(Async) /\ Len(asyncs) <= MaxAsync /\ \A j \in DOMAIN asyncs : EntryOK(asyncs[j])
  BY DEF PoolInv, PoolTypeOK, Entries
<1>2. \A j \in DOMAIN asyncs : j # i /\ asyncs[j].q # NOQ => asyncs[j].q # asyncs[i].q
  BY DEF PoolInv, OneCarrier
<1>3. /\ asyncs' \in Seq(Async) /\ Len(asyncs') <= MaxAsync /\ DOMAIN asyncs' = DOMAIN asyncs
      /\ asyncs'[i] = a
      /\ \A j \in DOMAIN asyncs : j # i => asyncs'[j] = asyncs[j]
  BY <1>1
<1>4. OneCarrier'
  BY <1>2, <1>3 DEF PoolInv, OneCarrier
<1> QED
  BY <1>1, <1>2, <1>3, <1>4

\* The end of connecting: the asker hears of a failure, and its query is let go; or it is sent.
LEMMA ConnectOutcome ==
    ASSUME PoolInv, NEW i \in DOMAIN asyncs, NEW o \in EV_CONNECT(i)
    PROVE  /\ Asker(i) \in accepted /\ told[Asker(i)] = 0 /\ Asker(i) \notin lost
           /\ o.orphans = orphans
           /\ \E a \in Async :
                 /\ EntryOK(a) /\ ~a.result
                 /\ a.q = IF o.error THEN NOQ ELSE Asker(i)
                 /\ o.asyncs = [asyncs EXCEPT ![i] = a]
<1> DEFINE b == [asyncs[i] EXCEPT !.state = "BUSY", !.q = Asker(i), !.result = FALSE]
           d == Dead(asyncs[i])
<1>1. asyncs[i].state = "CONNECTING" /\ asyncs[i].q # NOQ
  BY DEF EV_CONNECT
<1>2. asyncs[i] \in Async /\ EntryOK(asyncs[i])
  BY DEF PoolInv, PoolTypeOK, Entries
<1>3. Asker(i) \in accepted /\ told[Asker(i)] = 0 /\ Asker(i) \notin lost
  BY <1>1, <1>2 DEF PoolInv, Entries, EntryOK, Asker
<1>4. b \in Async /\ EntryOK(b) /\ ~b.result /\ b.q = Asker(i)
  BY <1>1, <1>2 DEF Async, EntryOK, Asker
<1>5. d \in Async /\ EntryOK(d) /\ ~d.result /\ d.q = NOQ
  BY <1>2 DEF Async, EntryOK, Dead
<1>6. \/ o = Outcome([asyncs EXCEPT ![i] = d], orphans, TRUE, 0)
      \/ o = Outcome([asyncs EXCEPT ![i] = b], orphans, FALSE, 0)
      \/ o = Outcome([asyncs EXCEPT ![i] = d], orphans, TRUE, 1)
  BY DEF EV_CONNECT, pgsql_send_query
<1> HIDE DEF b, d
<1>7. \/ o.asyncs = [asyncs EXCEPT ![i] = d] /\ o.error = TRUE /\ o.orphans = orphans
      \/ o.asyncs = [asyncs EXCEPT ![i] = b] /\ o.error = FALSE /\ o.orphans = orphans
  <2>1. ASSUME NEW p, NEW e \in BOOLEAN, NEW r, o = Outcome(p, orphans, e, r)
        PROVE  o.asyncs = p /\ (o.error = e) /\ o.orphans = orphans
    BY <2>1 DEF Outcome
  <2> QED
    BY <1>6, <2>1
<1> QED
  BY <1>3, <1>4, <1>5, <1>7

\* The end of connecting keeps the pool, and counts for its query only.
LEMMA ConnectStep ==
    ASSUME PoolInv, NEW i \in DOMAIN asyncs, NEW o \in EV_CONNECT(i), Connected(i, o)
    PROVE  /\ PoolInv' /\ accepted' = accepted
           /\ told' = [told EXCEPT ![Asker(i)] = IF o.error THEN 1 ELSE 0]
<1> USE DbAssumption
<1>1. /\ told \in [Query -> Nat] /\ released \in [Query -> Nat] /\ accepted \subseteq Query
      /\ lost \subseteq accepted /\ orphans \in Nat
  BY DEF PoolInv, PoolTypeOK
<1>2. /\ Asker(i) \in accepted /\ told[Asker(i)] = 0 /\ Asker(i) \notin lost
      /\ o.orphans = orphans
  BY ConnectOutcome
<1>3. PICK a \in Async : /\ EntryOK(a) /\ ~a.result /\ a.q = IF o.error THEN NOQ ELSE Asker(i)
                         /\ o.asyncs = [asyncs EXCEPT ![i] = a]
  BY ConnectOutcome
<1>4. /\ asyncs' = [asyncs EXCEPT ![i] = a] /\ orphans' = orphans
      /\ told' = [told EXCEPT ![Asker(i)] = IF o.error THEN 1 ELSE 0]
      /\ accepted' = accepted /\ released' = released /\ lost' = lost /\ conn' = conn
  BY <1>1, <1>2, <1>3 DEF Connected, Tell
<1>5. /\ asyncs' \in Seq(Async) /\ Len(asyncs') <= MaxAsync /\ DOMAIN asyncs' = DOMAIN asyncs
      /\ asyncs'[i] = a
      /\ \A j \in DOMAIN asyncs : j # i => asyncs'[j] = asyncs[j]
      /\ \A j \in DOMAIN asyncs : EntryOK(asyncs'[j])
      /\ \A j \in DOMAIN asyncs : j # i /\ asyncs[j].q # NOQ => asyncs[j].q # asyncs[i].q
      /\ OneCarrier'
  BY <1>3, <1>4, EntryStep DEF Asker
<1>6. PoolTypeOK'
  BY <1>1, <1>4, <1>5 DEF PoolInv, PoolTypeOK
<1>7. Entries'
  <2> SUFFICES ASSUME NEW j \in DOMAIN asyncs, asyncs'[j].q # NOQ
               PROVE  /\ asyncs'[j].q \in accepted /\ asyncs'[j].q \notin lost
                      /\ asyncs'[j].result => told'[asyncs'[j].q] = 1 /\ released[asyncs'[j].q] = 0
                      /\ ~asyncs'[j].result => told'[asyncs'[j].q] = 0
    BY <1>4, <1>5 DEF Entries
  <2>1. CASE j = i
    BY <2>1, <1>1, <1>2, <1>3, <1>4, <1>5
  <2>2. CASE j # i
    BY <2>2, <1>1, <1>4, <1>5 DEF PoolInv, Entries, Asker
  <2> QED
    BY <2>1, <2>2
<1>8. Fates'
  <2> SUFFICES ASSUME NEW x \in Query
               PROVE  IF x \in accepted
                      THEN /\ told'[x] <= 1 /\ released[x] <= told'[x]
                           /\ x \in lost => told'[x] = 0
                           /\ told'[x] = 0 /\ x \notin lost => \E j \in DOMAIN asyncs : asyncs'[j].q = x
                      ELSE released[x] = 0
    BY <1>4, <1>5 DEF Fates
  <2>1. CASE x = Asker(i)
    <3>1. released[x] = 0
      BY <2>1, <1>1, <1>2 DEF PoolInv, Fates
    <3> QED
      BY <3>1, <2>1, <1>1, <1>2, <1>3, <1>4, <1>5
  <2>2. CASE x # Asker(i)
    BY <2>2, <1>1, <1>4, <1>5 DEF PoolInv, Fates, Asker
  <2> QED
    BY <2>1, <2>2
<1> QED
  BY <1>4, <1>5, <1>6, <1>7, <1>8 DEF PoolInv

\* A result is told once: the entry's query had been told nothing.
LEMMA ReadStep ==
    ASSUME PoolInv, NEW i \in DOMAIN asyncs, EV_READ(i)
    PROVE  /\ PoolInv' /\ Asker(i) \in accepted /\ told[Asker(i)] = 0 /\ accepted' = accepted
           /\ told' = [told EXCEPT ![Asker(i)] = 1]
<1> USE DbAssumption
<1> DEFINE a == [asyncs[i] EXCEPT !.result = TRUE]
<1>1. /\ told \in [Query -> Nat] /\ released \in [Query -> Nat] /\ accepted \subseteq Query
      /\ lost \subseteq accepted /\ orphans \in Nat
      /\ asyncs[i] \in Async /\ EntryOK(asyncs[i])
  BY DEF PoolInv, PoolTypeOK, Entries
<1>2. asyncs[i].state = "BUSY" /\ ~asyncs[i].result /\ asyncs[i].q # NOQ
  BY <1>1 DEF EV_READ, EntryOK
<1>3. Asker(i) \in accepted /\ told[Asker(i)] = 0 /\ Asker(i) \notin lost
  BY <1>2 DEF PoolInv, Entries, Asker
<1>4. released[Asker(i)] = 0
  BY <1>1, <1>3 DEF PoolInv, Fates
<1>5. a \in Async /\ EntryOK(a) /\ a.q = Asker(i) /\ a.result
  BY <1>1, <1>2 DEF Async, EntryOK, Asker
<1>6. /\ asyncs' = [asyncs EXCEPT ![i] = a] /\ orphans' = orphans
      /\ told' = [told EXCEPT ![Asker(i)] = 1]
      /\ accepted' = accepted /\ released' = released /\ lost' = lost /\ conn' = conn
  BY <1>1, <1>3 DEF EV_READ, Tell
<1> HIDE DEF a
<1>7. /\ asyncs' \in Seq(Async) /\ Len(asyncs') <= MaxAsync /\ DOMAIN asyncs' = DOMAIN asyncs
      /\ asyncs'[i] = a
      /\ \A j \in DOMAIN asyncs : j # i => asyncs'[j] = asyncs[j]
      /\ \A j \in DOMAIN asyncs : EntryOK(asyncs'[j])
      /\ \A j \in DOMAIN asyncs : j # i /\ asyncs[j].q # NOQ => asyncs[j].q # asyncs[i].q
      /\ OneCarrier'
  BY <1>5, <1>6, EntryStep DEF Asker
<1>8. PoolTypeOK'
  BY <1>1, <1>6, <1>7 DEF PoolInv, PoolTypeOK
<1>9. Entries'
  <2> SUFFICES ASSUME NEW j \in DOMAIN asyncs, asyncs'[j].q # NOQ
               PROVE  /\ asyncs'[j].q \in accepted /\ asyncs'[j].q \notin lost
                      /\ asyncs'[j].result => told'[asyncs'[j].q] = 1 /\ released[asyncs'[j].q] = 0
                      /\ ~asyncs'[j].result => told'[asyncs'[j].q] = 0
    BY <1>6, <1>7 DEF Entries
  <2>1. CASE j = i
    BY <2>1, <1>1, <1>3, <1>4, <1>5, <1>6, <1>7
  <2>2. CASE j # i
    BY <2>2, <1>1, <1>6, <1>7 DEF PoolInv, Entries, Asker
  <2> QED
    BY <2>1, <2>2
<1>10. Fates'
  <2> SUFFICES ASSUME NEW x \in Query
               PROVE  IF x \in accepted
                      THEN /\ told'[x] <= 1 /\ released[x] <= told'[x]
                           /\ x \in lost => told'[x] = 0
                           /\ told'[x] = 0 /\ x \notin lost => \E j \in DOMAIN asyncs : asyncs'[j].q = x
                      ELSE released[x] = 0
    BY <1>6, <1>7 DEF Fates
  <2>1. CASE x = Asker(i)
    BY <2>1, <1>1, <1>3, <1>4, <1>6
  <2>2. CASE x # Asker(i)
    BY <2>2, <1>1, <1>6, <1>7 DEF PoolInv, Fates, Asker
  <2> QED
    BY <2>1, <2>2
<1> QED
  BY <1>3, <1>6, <1>7, <1>8, <1>9, <1>10 DEF PoolInv

\* The context is let go of once, after its query was told.
LEMMA DoneStep ==
    ASSUME PoolInv, NEW i \in DOMAIN asyncs, EV_READ_done(i)
    PROVE  PoolInv' /\ UNCHANGED <<accepted, told>>
<1> USE DbAssumption
<1> DEFINE a == [asyncs[i] EXCEPT !.state = "IDLE", !.q = NOQ, !.result = FALSE]
<1>1. /\ told \in [Query -> Nat] /\ released \in [Query -> Nat] /\ accepted \subseteq Query
      /\ lost \subseteq accepted /\ orphans \in Nat
      /\ asyncs[i] \in Async /\ EntryOK(asyncs[i])
  BY DEF PoolInv, PoolTypeOK, Entries
<1>2. asyncs[i].state = "BUSY" /\ asyncs[i].result /\ asyncs[i].q # NOQ
  BY <1>1 DEF EV_READ_done, EntryOK
<1>3. Asker(i) \in accepted /\ told[Asker(i)] = 1 /\ released[Asker(i)] = 0
  BY <1>2 DEF PoolInv, Entries, Asker
<1>4. a \in Async /\ EntryOK(a) /\ a.q = NOQ
  BY <1>1, <1>2 DEF Async, EntryOK
<1>5. /\ asyncs' = [asyncs EXCEPT ![i] = a] /\ orphans' = orphans
      /\ released' = [released EXCEPT ![Asker(i)] = 1]
      /\ accepted' = accepted /\ told' = told /\ lost' = lost /\ conn' = conn
  BY <1>1, <1>3 DEF EV_READ_done
<1> HIDE DEF a
<1>6. /\ asyncs' \in Seq(Async) /\ Len(asyncs') <= MaxAsync /\ DOMAIN asyncs' = DOMAIN asyncs
      /\ asyncs'[i] = a
      /\ \A j \in DOMAIN asyncs : j # i => asyncs'[j] = asyncs[j]
      /\ \A j \in DOMAIN asyncs : EntryOK(asyncs'[j])
      /\ \A j \in DOMAIN asyncs : j # i /\ asyncs[j].q # NOQ => asyncs[j].q # asyncs[i].q
      /\ OneCarrier'
  BY <1>4, <1>5, EntryStep
<1>7. PoolTypeOK'
  BY <1>1, <1>5, <1>6 DEF PoolInv, PoolTypeOK
<1>8. Entries'
  <2> SUFFICES ASSUME NEW j \in DOMAIN asyncs, asyncs'[j].q # NOQ
               PROVE  /\ asyncs'[j].q \in accepted /\ asyncs'[j].q \notin lost
                      /\ asyncs'[j].result => told[asyncs'[j].q] = 1 /\ released'[asyncs'[j].q] = 0
                      /\ ~asyncs'[j].result => told[asyncs'[j].q] = 0
    BY <1>5, <1>6 DEF Entries
  <2>1. j # i
    BY <1>4, <1>6
  <2> QED
    BY <2>1, <1>1, <1>5, <1>6 DEF PoolInv, Entries, Asker
<1>9. Fates'
  <2> SUFFICES ASSUME NEW x \in Query
               PROVE  IF x \in accepted
                      THEN /\ told[x] <= 1 /\ released'[x] <= told[x]
                           /\ x \in lost => told[x] = 0
                           /\ told[x] = 0 /\ x \notin lost => \E j \in DOMAIN asyncs : asyncs'[j].q = x
                      ELSE released'[x] = 0
    BY <1>5, <1>6 DEF Fates
  <2>1. CASE x = Asker(i)
    <3>1. x \notin lost
      BY <2>1, <1>3 DEF PoolInv, Fates
    <3> QED
      BY <3>1, <2>1, <1>1, <1>3, <1>5
  <2>2. CASE x # Asker(i)
    BY <2>2, <1>1, <1>5, <1>6 DEF PoolInv, Fates, Asker
  <2> QED
    BY <2>1, <2>2
<1> QED
  BY <1>5, <1>6, <1>7, <1>8, <1>9 DEF PoolInv

\* A connection that breaks loses its query only if that was not told.
LEMMA BrokenStep ==
    ASSUME PoolInv, NEW i \in DOMAIN asyncs, EV_READ_broken(i)
    PROVE  PoolInv' /\ UNCHANGED <<accepted, told>>
<1> USE DbAssumption
<1> DEFINE a == Dead(asyncs[i])
<1>1. /\ told \in [Query -> Nat] /\ released \in [Query -> Nat] /\ accepted \subseteq Query
      /\ lost \subseteq accepted /\ orphans \in Nat
      /\ asyncs[i] \in Async /\ EntryOK(asyncs[i])
  BY DEF PoolInv, PoolTypeOK, Entries
<1>2. asyncs[i].state = "BUSY" /\ asyncs[i].q # NOQ
  BY <1>1 DEF EV_READ_broken, EntryOK
<1>3. /\ Asker(i) \in accepted
      /\ told[Asker(i)] = IF asyncs[i].result THEN 1 ELSE 0
  BY <1>2 DEF PoolInv, Entries, Asker
<1>4. a \in Async /\ EntryOK(a) /\ a.q = NOQ
  BY <1>1 DEF Async, EntryOK, Dead
<1>5. /\ asyncs' = [asyncs EXCEPT ![i] = a] /\ orphans' = orphans
      /\ lost' = (IF asyncs[i].result THEN lost ELSE lost \cup {Asker(i)})
      /\ accepted' = accepted /\ told' = told /\ released' = released /\ conn' = conn
  BY DEF EV_READ_broken
<1> HIDE DEF a
<1>6. /\ asyncs' \in Seq(Async) /\ Len(asyncs') <= MaxAsync /\ DOMAIN asyncs' = DOMAIN asyncs
      /\ asyncs'[i] = a
      /\ \A j \in DOMAIN asyncs : j # i => asyncs'[j] = asyncs[j]
      /\ \A j \in DOMAIN asyncs : EntryOK(asyncs'[j])
      /\ \A j \in DOMAIN asyncs : j # i /\ asyncs[j].q # NOQ => asyncs[j].q # asyncs[i].q
      /\ OneCarrier'
  BY <1>4, <1>5, EntryStep
<1>7. PoolTypeOK'
  BY <1>1, <1>3, <1>5, <1>6 DEF PoolInv, PoolTypeOK
<1>8. Entries'
  <2> SUFFICES ASSUME NEW j \in DOMAIN asyncs, asyncs'[j].q # NOQ
               PROVE  /\ asyncs'[j].q \in accepted /\ asyncs'[j].q \notin lost'
                      /\ asyncs'[j].result => told[asyncs'[j].q] = 1 /\ released[asyncs'[j].q] = 0
                      /\ ~asyncs'[j].result => told[asyncs'[j].q] = 0
    BY <1>5, <1>6 DEF Entries
  <2>1. j # i
    BY <1>4, <1>6
  <2> QED
    BY <2>1, <1>5, <1>6 DEF PoolInv, Entries, Asker
<1>9. Fates'
  <2> SUFFICES ASSUME NEW x \in Query
               PROVE  IF x \in accepted
                      THEN /\ told[x] <= 1 /\ released[x] <= told[x]
                           /\ x \in lost' => told[x] = 0
                           /\ told[x] = 0 /\ x \notin lost' => \E j \in DOMAIN asyncs : asyncs'[j].q = x
                      ELSE released[x] = 0
    BY <1>5, <1>6 DEF Fates
  <2>1. CASE x = Asker(i)
    BY <2>1, <1>3, <1>5 DEF PoolInv, Fates
  <2>2. CASE x # Asker(i)
    BY <2>2, <1>5, <1>6 DEF PoolInv, Fates, Asker
  <2> QED
    BY <2>1, <2>2
<1> QED
  BY <1>5, <1>6, <1>7, <1>8, <1>9 DEF PoolInv

\* A reload closes connections that carry nothing.
LEMMA ReloadStep == PoolInv /\ db_conf_reload => PoolInv' /\ UNCHANGED <<accepted, told>>
<1> SUFFICES ASSUME PoolInv, db_conf_reload PROVE PoolInv' /\ UNCHANGED <<accepted, told>>
  OBVIOUS
<1> USE DbAssumption
<1>1. asyncs \in Seq(Async) /\ \A j \in DOMAIN asyncs : EntryOK(asyncs[j]) /\ asyncs[j] \in Async
  BY DEF PoolInv, PoolTypeOK, Entries
<1>2. ASSUME NEW j \in DOMAIN asyncs
      PROVE  Dead(asyncs[j]) \in Async /\ EntryOK(Dead(asyncs[j])) /\ Dead(asyncs[j]).q = NOQ
  BY <1>1 DEF Async, EntryOK, Dead
<1>3. /\ DOMAIN asyncs' = DOMAIN asyncs
      /\ \A j \in DOMAIN asyncs :
            \/ asyncs'[j] = asyncs[j]
            \/ asyncs[j].q = NOQ /\ asyncs'[j] = Dead(asyncs[j])
  BY <1>1 DEF db_conf_reload, EntryOK
<1>4. \A j \in DOMAIN asyncs :
         asyncs'[j] \in Async /\ EntryOK(asyncs'[j]) /\ asyncs'[j].q = asyncs[j].q
         /\ (asyncs[j].q # NOQ => asyncs'[j] = asyncs[j])
  BY <1>1, <1>2, <1>3
<1>5. asyncs' \in Seq(Async) /\ Len(asyncs') = Len(asyncs)
  <2>1. asyncs' = [i \in 1..Len(asyncs) |-> asyncs'[i]]
    BY <1>1 DEF db_conf_reload
  <2> QED
    BY <1>1, <1>3, <1>4, <2>1
<1>6. UNCHANGED <<orphans, accepted, told, released, lost>> /\ conn' \in {"ok", "bad"}
  BY DEF db_conf_reload, Reconnect
<1>7. PoolTypeOK'
  BY <1>5, <1>6 DEF PoolInv, PoolTypeOK
<1>8. Entries'
  BY <1>3, <1>4, <1>6 DEF PoolInv, Entries
<1>9. OneCarrier'
  BY <1>3, <1>4 DEF PoolInv, OneCarrier
<1>10. Fates'
  BY <1>3, <1>4, <1>6 DEF PoolInv, Fates
<1> QED
  BY <1>6, <1>7, <1>8, <1>9, <1>10 DEF PoolInv

\* The invariant of the pool says what QueriesKept says.
LEMMA PoolKeepsQueries == PoolInv => QueriesKept
<1> SUFFICES ASSUME PoolInv, NEW q \in accepted
             PROVE  LET carriers == {i \in DOMAIN asyncs : asyncs[i].q = q} IN
                    /\ Cardinality(carriers) <= 1
                    /\ told[q] = 0 /\ q \notin lost =>
                          \E i \in carriers : asyncs[i].conn /\ asyncs[i].sock /\ ~asyncs[i].result
                    /\ told[q] <= 1
                    /\ q \in lost => told[q] = 0
                    /\ released[q] <= told[q]
  BY DEF QueriesKept
<1> DEFINE carriers == {i \in DOMAIN asyncs : asyncs[i].q = q}
<1>1. q \in Query /\ q # NOQ
  BY DbAssumption DEF PoolInv, PoolTypeOK
<1>2. \A i, j \in carriers : i = j
  BY <1>1 DEF PoolInv, OneCarrier
<1>3. Cardinality(carriers) <= 1
  <2>1. CASE carriers = {}
    BY <2>1, FS_EmptySet
  <2>2. CASE carriers # {}
    <3>1. PICK i : carriers = {i}
      BY <2>2, <1>2
    <3> HIDE DEF carriers
    <3>2. Cardinality({i}) = 1
      BY FS_Singleton
    <3> QED
      BY <3>1, <3>2
  <2> QED
    BY <2>1, <2>2
<1>4. told[q] = 0 /\ q \notin lost => \E i \in carriers : asyncs[i].conn /\ asyncs[i].sock /\ ~asyncs[i].result
  <2> SUFFICES ASSUME told[q] = 0, q \notin lost
               PROVE  \E i \in carriers : asyncs[i].conn /\ asyncs[i].sock /\ ~asyncs[i].result
    OBVIOUS
  <2>1. PICK i \in DOMAIN asyncs : asyncs[i].q = q
    BY <1>1 DEF PoolInv, Fates
  <2>2. asyncs[i].conn /\ asyncs[i].sock /\ ~asyncs[i].result
    BY <2>1, <1>1 DEF PoolInv, Entries, EntryOK
  <2> QED
    BY <2>1, <2>2
<1> QED
  BY <1>1, <1>3, <1>4 DEF PoolInv, Fates

\* What writing the answer does to a client.
LEMMA Written ==
    ASSUME NEW y \in ClientRec, NEW x, x = http_writesock(y)
    PROVE  /\ x \in ClientRec /\ x.open = y.open /\ x.timer = y.timer /\ x.queue /\ x.sent
           /\ x.close = y.close /\ x.delay = y.delay /\ x.answers = y.answers + 1
           /\ (x.messy <=> y.messy \/ y.sent)
<1>1. /\ y.open \in BOOLEAN /\ y.timer \in BOOLEAN /\ y.close \in BOOLEAN /\ y.delay \in BOOLEAN
      /\ y.messy \in BOOLEAN /\ y.sent \in BOOLEAN /\ y.answers \in Nat
  BY DEF ClientRec
<1>2. PICK m \in BOOLEAN : m = (y.messy \/ y.sent)
  OBVIOUS
<1>3. x = [y EXCEPT !.sent = TRUE, !.queue = TRUE, !.answers = @ + 1, !.messy = m]
  BY <1>1, <1>2 DEF http_writesock, ClientRec
<1>4. /\ x.open = y.open /\ x.timer = y.timer /\ x.close = y.close /\ x.delay = y.delay
      /\ x.sent = TRUE /\ x.queue = TRUE /\ x.answers = y.answers + 1 /\ x.messy = m
  BY <1>1, <1>3 DEF ClientRec
<1>5. x \in ClientRec
  <2>1. \A r \in ClientRec : [r EXCEPT !.sent = TRUE] \in ClientRec
    BY DEF ClientRec
  <2>2. \A r \in ClientRec : [r EXCEPT !.queue = TRUE] \in ClientRec
    BY DEF ClientRec
  <2>3. \A r \in ClientRec, n \in Nat : [r EXCEPT !.answers = n] \in ClientRec
    BY DEF ClientRec
  <2>4. \A r \in ClientRec : [r EXCEPT !.messy = m] \in ClientRec
    BY <1>2 DEF ClientRec
  <2> DEFINE a == [y EXCEPT !.sent = TRUE]
             b == [a EXCEPT !.queue = TRUE]
             e == [b EXCEPT !.answers = y.answers + 1]
  <2>5. x = [e EXCEPT !.messy = m]
    BY <1>1, <1>3 DEF ClientRec
  <2>6. y.answers + 1 \in Nat
    BY <1>1 DEF ClientRec
  <2>7. a \in ClientRec
    BY <1>1, <2>1
  <2> HIDE DEF a
  <2>8. b \in ClientRec
    BY <2>2, <2>7
  <2> HIDE DEF b
  <2>9. e \in ClientRec
    BY <2>3, <2>6, <2>8
  <2> HIDE DEF e
  <2> QED
    BY <2>4, <2>5, <2>9
<1> QED
  BY <1>1, <1>2, <1>4, <1>5

\* Answers written to the client keep what ClientOK says.
LEMMA ErrorOK ==
    ASSUME NEW cl, NEW W, ClientOK(cl, W), cl.open
    PROVE  ClientOK(http_send_error(cl), W) /\ ClientOK([http_send_error(cl) EXCEPT !.timer = FALSE], W)
<1> DEFINE x == http_send_error(cl)
<1>1. cl \in ClientRec
  BY DEF ClientOK
<1>2. /\ x \in ClientRec /\ x.open /\ x.close /\ x.delay = cl.delay /\ x.sent
      /\ (x.messy <=> cl.messy)
      /\ x.queue
      /\ ~x.messy => x.answers = 1
  <2>1. CASE cl.sent
    <3>1. x = [cl EXCEPT !.close = TRUE]
      BY <2>1 DEF http_send_error
    <3> QED
      BY <2>1, <3>1, <1>1 DEF ClientOK, ClientRec
  <2>2. CASE ~cl.sent
    <3> DEFINE y == [cl EXCEPT !.close = TRUE]
    <3>1. x = http_writesock(y)
      BY <2>2 DEF http_send_error
    <3>2. /\ y \in ClientRec /\ y.open = cl.open /\ y.close /\ y.delay = cl.delay /\ y.sent = cl.sent
          /\ y.messy = cl.messy /\ y.answers = cl.answers /\ cl.answers \in Nat
      BY <1>1 DEF ClientRec
    <3> HIDE DEF x, y
    <3>3. /\ x \in ClientRec /\ x.open = y.open /\ x.queue /\ x.sent
          /\ x.close = y.close /\ x.delay = y.delay /\ x.answers = y.answers + 1
          /\ (x.messy <=> y.messy \/ y.sent)
      BY <3>1, <3>2, Written
    <3>4. ~cl.messy => cl.answers = 0
      BY <2>2, <3>2 DEF ClientOK
    <3> QED
      BY <2>2, <3>2, <3>3, <3>4
  <2> QED
    BY <2>1, <2>2
<1> HIDE DEF x
<1>3. \A t \in BOOLEAN : [x EXCEPT !.timer = t] \in ClientRec
  BY <1>2 DEF ClientRec
<1>4. ClientOK(x, W)
  BY <1>2 DEF ClientOK
<1>5. ClientOK([x EXCEPT !.timer = FALSE], W)
  <2> DEFINE z == [x EXCEPT !.timer = FALSE]
  <2>1. /\ z \in ClientRec /\ z.open /\ z.close /\ z.queue /\ z.delay = x.delay /\ z.sent = x.sent
        /\ z.messy = x.messy /\ z.answers = x.answers
    BY <1>2, <1>3 DEF ClientRec
  <2> HIDE DEF z
  <2>2. ClientOK(z, W)
    BY <1>2, <1>4, <2>1 DEF ClientOK
  <2> QED
    BY <2>2 DEF z
<1> QED
  BY <1>4, <1>5 DEF x

\* The client that no query is under way for any more is answered.
LEMMA FinalizedOK ==
    ASSUME NEW cl, NEW W, cl \in ClientRec, cl.open,
           cl.timer \/ (cl.queue /\ cl.close),
           ~cl.messy /\ ~cl.sent => W = {} /\ cl.answers = 0
    PROVE  /\ ClientOK(http_request_finalize(cl), W)
           /\ http_request_finalize(cl) \in ClientRec
           /\ http_request_finalize(cl).open
           /\ http_request_finalize(cl).timer = cl.timer /\ http_request_finalize(cl).queue
           /\ http_request_finalize(cl).close = cl.close
           /\ http_request_finalize(cl).sent
           /\ (http_request_finalize(cl).messy <=> cl.messy \/ cl.sent)
<1> DEFINE x == http_request_finalize(cl)
           y == [cl EXCEPT !.delay = FALSE]
<1>1. x = http_writesock(y)
  BY DEF http_request_finalize
<1>2. /\ x \in ClientRec /\ x.open /\ x.timer = cl.timer /\ x.queue /\ x.close = cl.close
      /\ x.sent /\ (x.messy <=> cl.messy \/ cl.sent) /\ ~x.delay /\ x.answers = cl.answers + 1
  <2>1. /\ y \in ClientRec /\ y.open = cl.open /\ y.timer = cl.timer /\ y.close = cl.close /\ ~y.delay
        /\ y.sent = cl.sent /\ y.messy = cl.messy /\ y.answers = cl.answers
    BY DEF ClientRec
  <2> HIDE DEF x, y
  <2>2. /\ x \in ClientRec /\ x.open = y.open /\ x.timer = y.timer /\ x.queue /\ x.sent
        /\ x.close = y.close /\ x.delay = y.delay /\ x.answers = y.answers + 1
        /\ (x.messy <=> y.messy \/ y.sent)
    BY <1>1, <2>1, Written
  <2> QED
    BY <2>1, <2>2
<1> HIDE DEF x
<1>3. ClientOK(x, W)
  BY <1>2 DEF ClientOK
<1> QED
  BY <1>2, <1>3 DEF x

\* Waiting(c) after a step.
WaitingNext(c) == {q \in Query \ strays' : asker'[q] = c /\ q \in accepted' /\ told'[q] = 0}

\* It is what Waiting is after the step.
LEMMA WaitingIsNext == \A c : Waiting(c)' = WaitingNext(c)
BY DEF Waiting, WaitingNext, Outstanding

\* The pool is as it was.
LEMMA PoolFrame == PoolInv /\ UNCHANGED dbVars => PoolInv'
BY DEF PoolInv, PoolTypeOK, Entries, OneCarrier, Fates, dbVars

\* What a step has to show.
LEMMA ClientsNext ==
    ASSUME PoolInv', NEW c \in Client, NEW x, ClientsInv,
           clients' = [clients EXCEPT ![c] = x],
           ClientOK(x, WaitingNext(c)),
           \A d \in Client : d # c => WaitingNext(d) = Waiting(d),
           asker' \in [Query -> Client \cup {NoClient}],
           strays' \subseteq accepted',
           \A q \in accepted' : asker'[q] \in Client
    PROVE  ClientsInv'
<1>1. x \in ClientRec
  BY DEF ClientOK
<1>2. clients' \in [Client -> ClientRec]
  BY <1>1 DEF ClientsInv
<1>3. \A d \in Client : ClientOK(clients'[d], WaitingNext(d))
  BY DEF ClientsInv
<1>4. \A d \in Client : ClientOK(clients[d], Waiting(d))'
  <2> SUFFICES ASSUME NEW d \in Client PROVE ClientOK(clients[d], Waiting(d))'
    OBVIOUS
  <2>1. Waiting(d)' = WaitingNext(d)
    BY WaitingIsNext
  <2>2. ClientOK(clients'[d], Waiting(d)')
    BY <2>1, <1>3
  <2> QED
    BY <2>2 DEF ClientOK
<1> QED
  BY <1>2, <1>4 DEF ClientsInv

\* A client that is freed leaves its queries stray.
LEMMA LeaveStep ==
    ASSUME ClientsInv, NEW c \in Client, Leave(c)
    PROVE  ClientsInv'
<1>1. /\ clients' = [clients EXCEPT ![c] = Closed] /\ strays' = strays \cup Waiting(c)
      /\ UNCHANGED <<asker, asyncs, orphans, accepted, told, released, lost, conn>>
  BY DEF Leave, poolVars
<1>2. PoolInv'
  BY <1>1, PoolFrame DEF ClientsInv, dbVars
<1>3. WaitingNext(c) = {}
  BY <1>1 DEF WaitingNext, Waiting, Outstanding
<1>4. \A d \in Client : d # c => WaitingNext(d) = Waiting(d)
  BY <1>1 DEF WaitingNext, Waiting, Outstanding
<1>5. Closed \in ClientRec /\ ~Closed.open
  BY DEF Closed, ClientRec
<1>6. ClientOK(Closed, WaitingNext(c))
  BY <1>3, <1>5 DEF ClientOK
<1>7. strays' \subseteq accepted'
  BY <1>1 DEF ClientsInv, Waiting, Outstanding
<1> QED
  BY <1>1, <1>2, <1>4, <1>6, <1>7, ClientsNext DEF ClientsInv

\* The handlers run for cl, which is client c after its input, and the queries W it waits for.
LEMMA ProcessStep ==
    ASSUME ClientsInv, NEW c \in Client, NEW cl, NEW W, ClientOK(cl, W), cl.open,
           http_process_request(c, cl),
           strays' \subseteq accepted,
           W = {q \in Query \ strays' : asker[q] = c /\ Outstanding(q)},
           \A d \in Client : d # c =>
              {q \in Query \ strays' : asker[q] = d /\ Outstanding(q)} = Waiting(d)
    PROVE  ClientsInv'
<1> DEFINE run == [cl EXCEPT !.close = @ \/ Head(cl.rbuf) = "last", !.messy = @ \/ cl.sent]
<1>1. cl \in ClientRec /\ (cl.timer \/ (cl.queue /\ cl.close))
  BY DEF ClientOK
<1>2. /\ run \in ClientRec /\ run.open /\ (run.messy <=> cl.messy \/ cl.sent) /\ run.sent = cl.sent
      /\ run.timer = cl.timer /\ run.queue = cl.queue /\ (cl.close => run.close)
      /\ run.delay = cl.delay /\ run.answers = cl.answers
  BY <1>1 DEF ClientRec
<1>3. ~cl.delay /\ ~run.messy => W = {} /\ run.answers = 0 /\ ~run.sent
  BY <1>1, <1>2 DEF ClientOK, ClientRec
<1>4. ASSUME NEW x, clients' = [clients EXCEPT ![c] = x], ClientOK(x, W),
             UNCHANGED <<asker, poolVars, conn>>
      PROVE  ClientsInv'
  <2>1. UNCHANGED <<asker, asyncs, orphans, accepted, told, released, lost, conn>>
    BY <1>4 DEF poolVars
  <2>2. PoolInv'
    BY <2>1, PoolFrame DEF ClientsInv, dbVars
  <2>3. WaitingNext(c) = W
    BY <2>1 DEF WaitingNext, Outstanding
  <2>4. \A d \in Client : d # c => WaitingNext(d) = Waiting(d)
    BY <2>1 DEF WaitingNext, Outstanding
  <2>5. ClientOK(x, WaitingNext(c))
    BY <1>4, <2>3
  <2>6. /\ asker' \in [Query -> Client \cup {NoClient}] /\ strays' \subseteq accepted'
        /\ \A q \in accepted' : asker'[q] \in Client
    BY <2>1 DEF ClientsInv
  <2> QED
    BY <1>4, <2>2, <2>4, <2>5, <2>6, ClientsNext
<1>5. CASE /\ cl.delay \/ ~Complete(cl)
           /\ clients' = [clients EXCEPT ![c] = cl]
           /\ UNCHANGED <<asker, poolVars, conn>>
  BY <1>5, <1>4
<1>6. CASE /\ ~cl.delay /\ Complete(cl) /\ Head(cl.rbuf) # "events"
           /\ clients' = [clients EXCEPT ![c] =
                 IF Head(cl.rbuf) = "bad" THEN http_send_error(cl) ELSE http_request_finalize(run)]
           /\ UNCHANGED <<asker, poolVars, conn>>
  <2>1. ClientOK(http_send_error(cl), W)
    BY ErrorOK
  <2>2. ClientOK(http_request_finalize(run), W)
    BY <1>1, <1>2, <1>3, <1>6, FinalizedOK
  <2> HIDE DEF run
  <2> QED
    BY <1>6, <2>1, <2>2, <1>4
<1>7. ASSUME ~cl.delay, NEW q \in Query, NEW o \in do_async_select(q),
             ajax_events_handler(c, run, q, o)
      PROVE  ClientsInv'
  <2> DEFINE x == IF o.rval = 0 THEN http_request_detach(run)
                  ELSE http_request_finalize(IF o.error THEN http_request_finalize(run) ELSE run)
  <2>1. Ask(q, o) /\ asker' = [asker EXCEPT ![q] = c] /\ clients' = [clients EXCEPT ![c] = x]
    BY <1>7 DEF ajax_events_handler
  <2>2. PoolInv'
    BY <2>1, AskStep DEF ClientsInv
  <2>3. /\ q \notin accepted
        /\ accepted' = (IF o.rval = 0 THEN accepted \cup {q} ELSE accepted)
        /\ told' = [told EXCEPT ![q] = (IF o.error THEN 1 ELSE 0) + o.rval]
        /\ told \in [Query -> Nat] /\ asker \in [Query -> Client \cup {NoClient}]
        /\ accepted \subseteq Query
    BY <2>1 DEF Ask, ClientsInv, PoolInv, PoolTypeOK
  <2>4. Selected(q, o)
    BY SelectOutcome DEF ClientsInv
  <2>5. (o.rval = 0 => ~o.error) /\ o.rval \in {0, 1}
    BY <2>4 DEF Selected
  <2>6. q \notin strays'
    BY <2>3
  <2>7. \A y \in Query : y # q => told'[y] = told[y] /\ (y \in accepted' <=> y \in accepted) /\ asker'[y] = asker[y]
    BY <2>1, <2>3
  <2>8. \A d \in Client : d # c => WaitingNext(d) = Waiting(d)
    <3> SUFFICES ASSUME NEW d \in Client, d # c
                 PROVE  WaitingNext(d) = {y \in Query \ strays' : asker[y] = d /\ Outstanding(y)}
      OBVIOUS
    <3>1. asker'[q] = c
      BY <2>1, <2>3
    <3> QED
      BY <3>1, <2>3, <2>7 DEF WaitingNext, Outstanding
  <2>9. WaitingNext(c) = IF o.rval = 0 THEN W \cup {q} ELSE W
    <3>1. CASE o.rval = 0
      <4>1. q \in accepted' /\ told'[q] = 0 /\ asker'[q] = c
        BY <3>1, <2>1, <2>3, <2>5
      <4> QED
        BY <4>1, <3>1, <2>6, <2>7 DEF WaitingNext, Outstanding
    <3>2. CASE o.rval # 0
      BY <3>2, <2>3, <2>7 DEF WaitingNext, Outstanding
    <3> QED
      BY <3>1, <3>2
  <2>10. ClientOK(x, WaitingNext(c))
    <3> HIDE DEF run
    <3>1. CASE o.rval = 0
      <4>1. x = [run EXCEPT !.delay = TRUE]
        BY <3>1 DEF http_request_detach
      <4>2. /\ x \in ClientRec /\ x.open /\ x.messy = run.messy /\ x.sent = run.sent /\ x.timer = run.timer
            /\ x.queue = run.queue /\ x.close = run.close /\ x.delay /\ x.answers = run.answers
        BY <4>1, <1>2 DEF ClientRec
      <4>3. cl.sent => cl.queue
        BY DEF ClientOK
      <4> HIDE DEF x
      <4>4. (x.sent => x.queue) /\ (x.timer \/ (x.queue /\ x.close))
        BY <4>2, <4>3, <1>1, <1>2
      <4>5. ~x.messy => x.answers <= 1 /\ (x.sent <=> x.answers = 1) /\ WaitingNext(c) = {q}
        BY <4>2, <1>2, <1>3, <1>7, <2>9, <3>1
      <4> QED
        BY <4>2, <4>4, <4>5 DEF ClientOK
    <3>2. CASE o.rval # 0 /\ ~o.error
      <4>1. x = http_request_finalize(run)
        BY <3>2
      <4>2. ClientOK(http_request_finalize(run), W)
        BY <1>1, <1>2, <1>3, <1>7, FinalizedOK
      <4> QED
        BY <3>2, <4>1, <4>2, <2>9
    <3>3. CASE o.rval # 0 /\ o.error
      <4> DEFINE y == http_request_finalize(run)
      <4>1. x = http_request_finalize(y)
        BY <3>3
      <4>2. y \in ClientRec /\ y.open /\ y.timer = run.timer /\ y.queue /\ y.close = run.close /\ y.sent
        BY <1>1, <1>2, <1>3, <1>7, FinalizedOK
      <4> HIDE DEF y
      <4>3. ClientOK(http_request_finalize(y), W)
        BY <1>1, <1>2, <4>2, FinalizedOK
      <4> QED
        BY <3>3, <4>1, <4>3, <2>9
    <3> QED
      BY <3>1, <3>2, <3>3
  <2>11. asker' \in [Query -> Client \cup {NoClient}] /\ \A y \in accepted' : asker'[y] \in Client
    BY <2>1, <2>3 DEF ClientsInv
  <2>12. strays' \subseteq accepted'
    BY <2>3
  <2> HIDE DEF x
  <2> QED
    BY <2>1, <2>2, <2>8, <2>10, <2>11, <2>12, ClientsNext
<1> QED
  BY <1>5, <1>6, <1>7 DEF http_process_request

\* The rows of query q, or its failure, reach the client that asked.
LEMMA ToldStep ==
    ASSUME ClientsInv, PoolInv', NEW q \in accepted, told[q] = 0, told' = [told EXCEPT ![q] = 1],
           UNCHANGED <<accepted, asker>>, events_cb(q)
    PROVE  ClientsInv'
<1>0. PICK c, cl : c = asker[q] /\ cl = clients[c]
  OBVIOUS
<1>1. /\ accepted \subseteq Query /\ told \in [Query -> Nat] /\ clients \in [Client -> ClientRec]
      /\ c \in Client /\ cl \in ClientRec /\ ClientOK(cl, Waiting(c))
  BY <1>0 DEF ClientsInv, PoolInv, PoolTypeOK
<1>2. strays' = strays \ {q}
  BY DEF events_cb
<1>3. \A d : WaitingNext(d) = Waiting(d) \ {q}
  BY <1>1, <1>2 DEF WaitingNext, Waiting, Outstanding
<1>4. \A d \in Client : d # c => WaitingNext(d) = Waiting(d)
  BY <1>0, <1>3 DEF Waiting
<1>5. strays' \subseteq accepted'
  BY <1>2 DEF ClientsInv
<1>6. CASE ~cl.open
  <2>1. clients' = [clients EXCEPT ![c] = cl]
    BY <1>0, <1>1, <1>6 DEF events_cb
  <2>2. ClientOK(cl, WaitingNext(c))
    BY <1>1, <1>3, <1>6 DEF ClientOK
  <2> QED
    BY <2>1, <2>2, <1>1, <1>4, <1>5, ClientsNext DEF ClientsInv
<1>7. CASE cl.open
  <2> DEFINE z == [cl EXCEPT !.delay = FALSE]
             y == http_writesock(z)
             x == [y EXCEPT !.messy = @ \/ q \in strays]
  <2>1. clients' = [clients EXCEPT ![c] = x]
    <3>1. clients' = IF ~clients[c].open THEN clients
                     ELSE [clients EXCEPT ![c] =
                             [http_request_finalize(clients[c]) EXCEPT !.messy = @ \/ q \in strays]]
      BY <1>0 DEF events_cb
    <3>2. http_request_finalize(clients[c]) = y
      BY <1>0 DEF http_request_finalize
    <3> HIDE DEF y
    <3> QED
      BY <1>0, <1>7, <3>1, <3>2
  <2>2. q \notin strays => q \in Waiting(c)
    BY <1>0, <1>1 DEF Waiting, Outstanding
  <2>3. cl.timer \/ (cl.queue /\ cl.close)
    BY <1>1, <1>7 DEF ClientOK
  <2>4. ~cl.messy /\ ~cl.sent => cl.answers = 0
    BY <1>1, <1>7 DEF ClientOK, ClientRec
  <2>5. ~cl.messy /\ q \notin strays => WaitingNext(c) = {}
    BY <1>1, <1>3, <1>7, <2>2 DEF ClientOK
  <2>6. /\ z \in ClientRec /\ z.open = cl.open /\ z.timer = cl.timer /\ z.close = cl.close /\ ~z.delay
        /\ z.sent = cl.sent /\ z.messy = cl.messy /\ z.answers = cl.answers
    BY <1>1 DEF ClientRec
  <2> HIDE DEF z
  <2>7. /\ y \in ClientRec /\ y.open = z.open /\ y.timer = z.timer /\ y.queue /\ y.sent
        /\ y.close = z.close /\ y.delay = z.delay /\ y.answers = z.answers + 1
        /\ (y.messy <=> z.messy \/ z.sent)
    BY <2>6, Written
  <2> HIDE DEF y
  <2>8. /\ x \in ClientRec /\ x.open /\ x.timer = cl.timer /\ x.queue /\ x.close = cl.close
        /\ x.sent /\ (~x.messy => ~cl.messy /\ ~cl.sent /\ q \notin strays)
        /\ ~x.delay /\ x.answers = cl.answers + 1
    BY <1>7, <2>6, <2>7 DEF ClientRec
  <2> HIDE DEF x
  <2>9. ClientOK(x, WaitingNext(c))
    BY <2>3, <2>4, <2>5, <2>8 DEF ClientOK
  <2> QED
    BY <2>1, <2>9, <1>1, <1>4, <1>5, ClientsNext DEF ClientsInv
<1> QED
  BY <1>6, <1>7

\* At first there are no clients, and no query was asked.
LEMMA HttpdStart == httpdInit => ListenersInv /\ ClientsInv
<1> SUFFICES ASSUME httpdInit PROVE ListenersInv /\ ClientsInv
  OBVIOUS
<1>1. ListenersInv
  BY DEF httpdInit, ListenersInv, ListenersSound, Conf, OpenPort, Kinds
<1>2. /\ asyncs = <<>> /\ orphans = 0 /\ accepted = {} /\ lost = {} /\ conn \in {"ok", "bad"}
      /\ told = [q \in Query |-> 0] /\ released = [q \in Query |-> 0]
  BY DEF httpdInit, dbInit
<1>3. PoolInv
  BY <1>2, DbAssumption DEF PoolInv, PoolTypeOK, Entries, OneCarrier, Fates
<1>4. Closed \in ClientRec /\ ~Closed.open
  BY DEF Closed, ClientRec
<1>5. \A c \in Client : Waiting(c) = {}
  BY <1>2 DEF Waiting, Outstanding
<1>6. \A c \in Client : ClientOK(clients[c], Waiting(c))
  BY <1>4, <1>5 DEF httpdInit, ClientOK
<1>7. clients \in [Client -> ClientRec]
  BY <1>4 DEF httpdInit
<1>8. asker \in [Query -> Client \cup {NoClient}] /\ strays = {}
  BY DEF httpdInit
<1> QED
  BY <1>1, <1>2, <1>3, <1>6, <1>7, <1>8 DEF ClientsInv

\* A step that leaves the clients and what is under way for them alone.
LEMMA QuietStep ==
    ASSUME ClientsInv, PoolInv', UNCHANGED <<clients, asker, strays, accepted, told>>
    PROVE  ClientsInv'
<1>1. \A d : WaitingNext(d) = Waiting(d)
  BY DEF WaitingNext, Waiting, Outstanding
<1>2. \A d \in Client : ClientOK(clients[d], Waiting(d))'
  <2> SUFFICES ASSUME NEW d \in Client PROVE ClientOK(clients[d], Waiting(d))'
    OBVIOUS
  <2>1. Waiting(d)' = Waiting(d)
    BY <1>1, WaitingIsNext
  <2>2. ClientOK(clients'[d], Waiting(d)')
    BY <2>1 DEF ClientsInv
  <2> QED
    BY <2>2 DEF ClientOK
<1> QED
  BY <1>2 DEF ClientsInv

\* A client that is in the same place of its request, and waits for the same queries.
LEMMA SameClient ==
    ASSUME ClientsInv, NEW c \in Client, NEW x, ClientOK(x, Waiting(c)),
           clients' = [clients EXCEPT ![c] = x], UNCHANGED <<asker, strays, poolVars, conn>>
    PROVE  ClientsInv'
<1>1. UNCHANGED <<asker, strays, asyncs, orphans, accepted, told, released, lost, conn>>
  BY DEF poolVars
<1>2. PoolInv'
  BY <1>1, PoolFrame DEF ClientsInv, dbVars
<1>3. \A d : WaitingNext(d) = Waiting(d)
  BY <1>1 DEF WaitingNext, Waiting, Outstanding
<1>4. /\ asker' \in [Query -> Client \cup {NoClient}] /\ strays' \subseteq accepted'
      /\ \A q \in accepted' : asker'[q] \in Client
  BY <1>1 DEF ClientsInv
<1> QED
  BY <1>2, <1>3, <1>4, ClientsNext

\* A client that was just accepted.
LEMMA AcceptedClient ==
    /\ http_client_accept \in ClientRec /\ http_client_accept.open /\ ~http_client_accept.sent
    /\ http_client_accept.timer /\ ~http_client_accept.delay /\ http_client_accept.answers = 0
<1>1. Closed \in ClientRec /\ ~Closed.sent /\ ~Closed.delay /\ Closed.answers = 0
  BY DEF Closed, ClientRec
<1> QED
  BY <1>1 DEF http_client_accept, ClientRec

\* Input of a client, answered at once, later or not at all.
LEMMA ReadRequest ==
    ASSUME ClientsInv, NEW c \in Client, http_client_read(c)
    PROVE  ClientsInv'
<1>0. PICK cl : cl = clients[c]
  OBVIOUS
<1>1. cl \in ClientRec /\ cl.open /\ ClientOK(cl, Waiting(c)) /\ strays' = strays /\ strays \subseteq accepted
  BY <1>0 DEF http_client_read, ClientsInv
<1>2. ASSUME NEW x, x \in ClientRec, x.open, ClientOK(x, Waiting(c)), http_process_request(c, x)
      PROVE  ClientsInv'
  <2>1. \A d : {q \in Query \ strays' : asker[q] = d /\ Outstanding(q)} = Waiting(d)
    BY <1>1 DEF Waiting
  <2> QED
    BY <1>1, <1>2, <2>1, ProcessStep
<1>3. CASE cl.partial /\ http_process_request(c, [cl EXCEPT !.partial = FALSE])
  <2> DEFINE x == [cl EXCEPT !.partial = FALSE]
  <2>1. /\ x \in ClientRec /\ x.open /\ x.sent = cl.sent /\ x.queue = cl.queue /\ x.close = cl.close
        /\ x.timer = cl.timer /\ x.messy = cl.messy /\ x.answers = cl.answers /\ x.delay = cl.delay
    BY <1>1 DEF ClientRec
  <2>2. http_process_request(c, x)
    BY <1>3
  <2> HIDE DEF x
  <2>3. ClientOK(x, Waiting(c))
    BY <1>1, <2>1 DEF ClientOK
  <2> QED
    BY <1>2, <2>1, <2>2, <2>3
<1>4. ASSUME NEW kind \in Kind, NEW partial \in BOOLEAN,
             http_process_request(c, [cl EXCEPT !.rbuf = Append(@, kind), !.partial = partial])
      PROVE  ClientsInv'
  <2> DEFINE x == [cl EXCEPT !.rbuf = Append(@, kind), !.partial = partial]
             r == Append(cl.rbuf, kind)
  <2>0. r \in Seq(Kind) /\ x = [cl EXCEPT !.rbuf = r, !.partial = partial]
    BY <1>1 DEF ClientRec
  <2> HIDE DEF r, x
  <2>1. /\ x \in ClientRec /\ x.open /\ x.sent = cl.sent /\ x.queue = cl.queue /\ x.close = cl.close
        /\ x.timer = cl.timer /\ x.messy = cl.messy /\ x.answers = cl.answers /\ x.delay = cl.delay
    BY <1>1, <2>0 DEF ClientRec
  <2>2. http_process_request(c, x)
    BY <1>4 DEF x
  <2> HIDE DEF x
  <2>3. ClientOK(x, Waiting(c))
    BY <1>1, <2>1 DEF ClientOK
  <2> QED
    BY <1>2, <2>1, <2>2, <2>3
<1>5. CASE clients' = [clients EXCEPT ![c] = http_send_error(cl)] /\ UNCHANGED <<asker, poolVars, conn>>
  <2>1. ClientOK(http_send_error(cl), Waiting(c))
    BY <1>1, ErrorOK
  <2> QED
    BY <1>1, <1>5, <2>1, SameClient
<1> QED
  BY <1>0, <1>3, <1>4, <1>5 DEF http_client_read

\* The next request starts with nothing that is still waited for.
LEMMA CompleteStep ==
    ASSUME ClientsInv, NEW c \in Client, http_request_complete(c)
    PROVE  ClientsInv'
<1> DEFINE x == [http_client_accept EXCEPT !.served = TRUE, !.messy = clients[c].messy,
                    !.rbuf = IF Complete(clients[c]) THEN Tail(clients[c].rbuf) ELSE clients[c].rbuf,
                    !.partial = clients[c].partial]
<1>1. strays' = strays \cup Waiting(c) /\ http_process_request(c, x)
  BY DEF http_request_complete
<1>2. clients[c] \in ClientRec
  BY DEF ClientsInv
<1>3. (IF Complete(clients[c]) THEN Tail(clients[c].rbuf) ELSE clients[c].rbuf) \in Seq(Kind)
  BY <1>2 DEF ClientRec, Complete
<1>4. /\ x \in ClientRec /\ x.open /\ ~x.sent /\ x.timer /\ x.answers = 0 /\ ~x.delay
  <2> DEFINE r == IF Complete(clients[c]) THEN Tail(clients[c].rbuf) ELSE clients[c].rbuf
             y == [http_client_accept EXCEPT !.served = TRUE, !.messy = clients[c].messy]
  <2>1. /\ y \in ClientRec /\ y.open /\ ~y.sent /\ y.timer /\ y.answers = 0 /\ ~y.delay
    BY <1>2, AcceptedClient DEF ClientRec
  <2>2. x = [y EXCEPT !.rbuf = r, !.partial = clients[c].partial]
    BY AcceptedClient DEF ClientRec
  <2>3. clients[c].partial \in BOOLEAN
    BY <1>2 DEF ClientRec
  <2>4. r \in Seq(Kind)
    BY <1>3
  <2> HIDE DEF x, y, r
  <2> QED
    BY <2>1, <2>2, <2>3, <2>4 DEF ClientRec
<1> HIDE DEF x
<1>5. ClientOK(x, {})
  BY <1>4 DEF ClientOK
<1>6. {q \in Query \ strays' : asker[q] = c /\ Outstanding(q)} = {}
  BY <1>1 DEF Waiting
<1>7. \A d \in Client : d # c => {q \in Query \ strays' : asker[q] = d /\ Outstanding(q)} = Waiting(d)
  BY <1>1 DEF Waiting
<1>8. strays' \subseteq accepted
  BY <1>1 DEF ClientsInv, Waiting, Outstanding
<1>9. PICK y : y = x
  OBVIOUS
<1> QED
  BY <1>1, <1>4, <1>5, <1>6, <1>7, <1>8, <1>9, ProcessStep

\* The events of one client.
LEMMA ClientStepOK ==
    ASSUME ClientsInv, NEW c \in Client, ClientStep(c)
    PROVE  ClientsInv'
<1>0. PICK cl : cl = clients[c]
  OBVIOUS
<1>1. cl \in ClientRec /\ ClientOK(cl, Waiting(c))
  BY <1>0 DEF ClientsInv
<1>2. CASE listener_event(c)
  <2>1. ~cl.open /\ clients' = [clients EXCEPT ![c] = http_client_accept]
        /\ UNCHANGED <<asker, strays, requested, poolVars, conn>>
    BY <1>0, <1>2 DEF listener_event
  <2>2. http_client_accept \in ClientRec /\ http_client_accept.open /\ ~http_client_accept.sent
        /\ http_client_accept.timer /\ ~http_client_accept.delay /\ http_client_accept.answers = 0
    BY AcceptedClient
  <2>3. Waiting(c) = {}
    BY <1>1, <2>1 DEF ClientOK
  <2>4. ClientOK(http_client_accept, Waiting(c))
    BY <2>2, <2>3 DEF ClientOK
  <2> QED
    BY <2>1, <2>4, SameClient
<1>3. CASE http_client_read(c)
  BY <1>3, ReadRequest
<1>4. CASE http_client_lost(c)
  BY <1>4, LeaveStep DEF http_client_lost
<1>5. CASE http_client_event(c)
  BY <1>5, LeaveStep, CompleteStep DEF http_client_event
<1>6. CASE http_request_timeout(c)
  <2>1. CASE cl.served
    BY <1>0, <1>6, <2>1, LeaveStep DEF http_request_timeout
  <2>2. CASE ~cl.served
    <3>1. cl.open /\ clients' = [clients EXCEPT ![c] = [http_send_error(cl) EXCEPT !.timer = FALSE]]
          /\ UNCHANGED <<asker, strays, requested, poolVars, conn>>
      BY <1>0, <1>6, <2>2 DEF http_request_timeout
    <3>2. ClientOK([http_send_error(cl) EXCEPT !.timer = FALSE], Waiting(c))
      BY <1>1, <3>1, ErrorOK
    <3> QED
      BY <3>1, <3>2, SameClient
  <2> QED
    BY <2>1, <2>2
<1> QED
  BY <1>2, <1>3, <1>4, <1>5, <1>6 DEF ClientStep

\* The events of one entry of the pool, with the callbacks they run.
LEMMA EntryEventOK ==
    ASSUME ClientsInv, NEW i, EntryEvent(i)
    PROVE  ClientsInv'
<1>1. i \in DOMAIN asyncs /\ asker' = asker /\ PoolInv /\ told \in [Query -> Nat]
  BY DEF EntryEvent, ClientsInv, PoolInv, PoolTypeOK
<1>2. ASSUME NEW o \in EV_CONNECT(i), Connected(i, o),
             IF o.error THEN events_cb(Asker(i)) ELSE UNCHANGED <<clients, strays>>
      PROVE  ClientsInv'
  <2>1. /\ PoolInv' /\ accepted' = accepted
        /\ told' = [told EXCEPT ![Asker(i)] = IF o.error THEN 1 ELSE 0]
    BY <1>1, <1>2, ConnectStep
  <2>2. Asker(i) \in accepted /\ told[Asker(i)] = 0
    BY <1>1, <1>2, ConnectOutcome
  <2>3. CASE o.error
    BY <1>1, <1>2, <2>1, <2>2, <2>3, ToldStep
  <2>4. CASE ~o.error
    <3>1. told' = told
      BY <1>1, <2>1, <2>2, <2>4
    <3> QED
      BY <1>1, <1>2, <2>1, <2>4, <3>1, QuietStep
  <2> QED
    BY <2>3, <2>4
<1>3. CASE EV_READ(i) /\ events_cb(Asker(i))
  <2>1. /\ PoolInv' /\ Asker(i) \in accepted /\ told[Asker(i)] = 0 /\ accepted' = accepted
        /\ told' = [told EXCEPT ![Asker(i)] = 1]
    BY <1>1, <1>3, ReadStep
  <2> QED
    BY <1>1, <1>3, <2>1, ToldStep
<1>4. CASE EV_READ_done(i) /\ UNCHANGED <<clients, strays>>
  <2>1. PoolInv' /\ UNCHANGED <<accepted, told>>
    BY <1>1, <1>4, DoneStep
  <2> QED
    BY <1>1, <1>4, <2>1, QuietStep
<1> QED
  BY <1>2, <1>3, <1>4 DEF EntryEvent

\* Every step keeps the clients and the pool.
LEMMA ClientsStep == ClientsInv /\ [clientNext]_clientVars => ClientsInv'
<1> SUFFICES ASSUME ClientsInv, [clientNext]_clientVars PROVE ClientsInv'
  OBVIOUS
<1>1. ASSUME NEW c \in Client, ClientStep(c) PROVE ClientsInv'
  BY <1>1, ClientStepOK
<1>2. ASSUME NEW i, EntryEvent(i) PROVE ClientsInv'
  BY <1>2, EntryEventOK
<1>3. CASE PoolTrouble
  <2>1. UNCHANGED <<asker, clients, strays>> /\ PoolInv
    BY <1>3 DEF PoolTrouble, ClientsInv
  <2>2. ASSUME NEW i \in DOMAIN asyncs, EV_READ_broken(i) PROVE PoolInv' /\ UNCHANGED <<accepted, told>>
    BY <2>1, <2>2, BrokenStep
  <2>3. CASE db_conf_reload
    BY <2>1, <2>3, ReloadStep, QuietStep
  <2> QED
    BY <1>3, <2>1, <2>2, <2>3, QuietStep DEF PoolTrouble
<1>4. CASE UNCHANGED clientVars
  <2>1. UNCHANGED <<clients, asker, strays, asyncs, orphans, accepted, told, released, lost, conn>>
    BY <1>4 DEF clientVars, poolVars
  <2>2. PoolInv'
    BY <2>1, PoolFrame DEF ClientsInv, dbVars
  <2> QED
    BY <2>1, <2>2, QuietStep
<1> QED
  BY <1>1, <1>2, <1>3, <1>4 DEF clientNext

\* The invariant says what ClientsSound says.
LEMMA ClientsInvSound == ClientsInv => ClientsSound
<1> SUFFICES ASSUME ClientsInv PROVE ClientsSound
  OBVIOUS
<1>1. PoolTypeOK /\ QueriesKept
  BY PoolKeepsQueries DEF ClientsInv, PoolInv
<1>2. \A c \in Client : ClientOK(clients[c], Waiting(c))
  BY DEF ClientsInv
<1>3. AnsweredOnce
  <2> SUFFICES ASSUME NEW c \in Client, NEW cl, cl = clients[c], cl.open, ~cl.messy
               PROVE  /\ cl.answers <= 1 /\ cl.sent = (cl.answers = 1)
                      /\ Cardinality(Waiting(c)) = (IF cl.delay THEN 1 ELSE 0)
    BY DEF AnsweredOnce
  <2>1. /\ cl.answers <= 1 /\ (cl.sent <=> cl.answers = 1) /\ cl.sent \in BOOLEAN
        /\ cl.delay => \E q \in Query : Waiting(c) = {q}
        /\ ~cl.delay => Waiting(c) = {}
    BY <1>2 DEF ClientOK, ClientRec
  <2>2. cl.sent = (cl.answers = 1)
    BY <2>1
  <2>3. CASE cl.delay
    <3>1. PICK q \in Query : Waiting(c) = {q}
      BY <2>1, <2>3
    <3>2. Cardinality({q}) = 1
      BY FS_Singleton
    <3> QED
      BY <2>1, <2>2, <2>3, <3>1, <3>2
  <2>4. CASE ~cl.delay
    <3>1. Cardinality({}) = 0
      BY FS_EmptySet
    <3> QED
      BY <2>1, <2>2, <2>4, <3>1
  <2> QED
    BY <2>3, <2>4
<1>4. ClientMoves
  BY <1>2 DEF ClientMoves, ClientOK
<1>5. AskersAlive
  <2> SUFFICES ASSUME NEW q \in Query, Outstanding(q), q \notin strays PROVE clients[asker[q]].open
    BY DEF AskersAlive
  <2>1. asker[q] \in Client /\ q \in Waiting(asker[q])
    BY DEF ClientsInv, Waiting, Outstanding
  <2> QED
    BY <1>2, <2>1 DEF ClientOK
<1> QED
  BY <1>1, <1>3, <1>4, <1>5 DEF ClientsSound

\* The web interface, for every number of clients, queries, connections and sessions: requests are
\* answered once, queries reach who asked, a session acts for who logged in with it.
THEOREM SpecWebSound == AllSpec => []WebSound
<1>1. AllInit => WebInv
  BY SessionsStart, HttpdStart DEF AllInit, WebInv
<1>2. WebInv /\ [AllNext]_allVars => WebInv'
  <2> SUFFICES ASSUME WebInv, [AllNext]_allVars PROVE WebInv'
    OBVIOUS
  <2>1. /\ [sessionNext]_sessionVars
        /\ [listenerNext]_listenerVars
        /\ [clientNext]_clientVars
    BY DEF AllNext, allVars, httpdVars
  <2> QED
    BY <2>1, SessionsStep, ListenersStep, ClientsStep DEF WebInv
<1>3. WebInv => WebSound
  BY ClientsInvSound DEF WebInv, WebSound, ListenersInv, SessionsInv, SessionSound
<1> QED
  BY <1>1, <1>2, <1>3, PTL DEF AllSpec
=============================================================================
