----------------------------- MODULE LoopProofs -----------------------------
(* Proofs about what main's loop calls: the timers (Timer keeps TimerSpec's   *)
(* promise; the timers that users add), the loop functions and the send queue *)
(* (MainLoop), and the walk of sock_poll (SockPoll), for all their constants. *)
EXTENDS MCTimer, MainLoop, SockPoll, FiniteSetTheorems, WellFoundedInduction, TLAPS

Inv == TypeOK /\ CursorInList /\ WalkInv

(* The successor that the walk reads from a node's next pointer: a node of    *)
(* the list or its end, with no node in between (dict_insert adds at the      *)
(* head, so the list is ordered by decreasing ids).                           *)
LEMMA NextNodeIsSuccessor ==
    ASSUME NEW S, S \subseteq Timer, NEW n \in Int, NEW m \in NextNode(n, S)
    PROVE  /\ m \in Id \cup {NULL}
           /\ m < n
           /\ m # NULL => \E t \in S : t.id = m
           /\ \A t \in S : t.id < n => t.id <= m
<1>1. m \in {t.id : t \in S} \cup {NULL}
  BY DEF NextNode
<1>2. \A t \in S : t.id \in Id
  BY DEF Timer
<1>3. m \in Id \cup {NULL}
  BY <1>1, <1>2
<1>4. m < n /\ \A t \in S : ~(m < t.id /\ t.id < n)
  BY DEF NextNode
<1>5. \A t \in S : t.id < n => t.id <= m
  BY <1>2, <1>3, <1>4, TimerAssumption DEF Id, NULL
<1> QED
  BY <1>1, <1>3, <1>4, <1>5

(* Nothing is listed and no walk is under way: timer_init.                    *)
LEMMA InitInv == Init => Inv
BY TimerAssumption DEF Init, Inv, TypeOK, CursorInList, WalkInv, NULL

(* The clock is not part of the invariant.                                   *)
LEMMA LoopTurnInv == Inv /\ LoopTurn => Inv'
BY TimerAssumption DEF Inv, LoopTurn, TypeOK, CursorInList, WalkInv, NULL

(* timer_add, from a handler or from a callback of the walk.                  *)
LEMMA AddInv ==
    ASSUME Inv, NEW tag \in Tag, NEW d \in Delay, timer_add(tag, now + d)
    PROVE  Inv'
<1> DEFINE new == [id |-> next_timer_id, tag |-> tag, time |-> now + d,
                   triggered |-> FALSE]
<1> USE TimerAssumption
<1>1. /\ timers' = timers \cup {new}
      /\ next_timer_id' = next_timer_id + 1
      /\ next_timer_id \in Id
      /\ UNCHANGED <<now, pc, node, pollStart>>
      /\ pc \in {"loop", "callback"}
  BY DEF timer_add, Inv, TypeOK, Id
<1>2. new \in Timer
  BY <1>1 DEF Inv, TypeOK, Timer
<1>3. \A t \in timers : t.id \in Id /\ t.id < next_timer_id
  BY DEF Inv, TypeOK, Timer
<1>4. TypeOK'
  <2>1. timers' \subseteq Timer
    BY <1>1, <1>2 DEF Inv, TypeOK
  <2>2. (\A t, u \in timers : t.id = u.id => t = u)'
    <3>1. new.id = next_timer_id
      OBVIOUS
    <3>2. \A t, u \in timers : t.id = u.id => t = u
      BY DEF Inv, TypeOK
    <3> HIDE DEF new
    <3> QED
      BY <1>1, <1>3, <3>1, <3>2 DEF Id
  <2>3. (\A t \in timers : t.id < next_timer_id)'
    BY <1>1, <1>3 DEF Inv, TypeOK, Id
  <2> QED
    BY <1>1, <2>1, <2>2, <2>3 DEF Inv, TypeOK, Id
<1>5. CursorInList'
  BY <1>1 DEF Inv, CursorInList
<1>6. WalkInv'
  BY <1>1, <1>3 DEF Inv, TypeOK, WalkInv, Id
<1> QED
  BY <1>4, <1>5, <1>6 DEF Inv

(* timer_del leaves the running timer, hence the node under the cursor.       *)
LEMMA DelInv ==
    ASSUME Inv, NEW tags \in SUBSET Tag, timer_del(tags)
    PROVE  Inv'
<1>1. timers' \subseteq timers
  BY DEF timer_del
<1>2. \A t \in timers : t.triggered => t \in timers'
  BY DEF timer_del, Matches
<1>3. UNCHANGED <<next_timer_id, now, pc, node, pollStart>> /\ pc # "scan"
  BY DEF timer_del
<1>4. TypeOK'
  BY <1>1, <1>3 DEF Inv, TypeOK
<1>5. CursorInList'
  BY <1>2, <1>3 DEF Inv, CursorInList
<1>6. WalkInv'
  BY <1>1, <1>3 DEF Inv, WalkInv
<1> QED
  BY <1>4, <1>5, <1>6 DEF Inv

(* timer_poll starts its walk at the list's head.                            *)
LEMMA PollBeginInv == Inv /\ timer_poll_begin => Inv'
<1> SUFFICES ASSUME Inv, timer_poll_begin PROVE Inv'
  OBVIOUS
<1> USE TimerAssumption
<1>1. /\ timers \subseteq Timer /\ next_timer_id \in Int
      /\ \A t \in timers : t.id \in Int /\ t.id < next_timer_id /\ ~t.triggered
  BY DEF Inv, TypeOK, WalkInv, Timer, Id, timer_poll_begin
<1>2. /\ node' \in Id \cup {NULL} /\ node' < next_timer_id
      /\ node' # NULL => \E t \in timers : t.id = node'
      /\ \A t \in timers : t.id < next_timer_id => t.id <= node'
  BY <1>1, NextNodeIsSuccessor DEF timer_poll_begin
<1>3. TypeOK'
  BY <1>2 DEF Inv, TypeOK, timer_poll_begin
<1>4. CursorInList'
  BY <1>1, <1>2 DEF timer_poll_begin, CursorInList
<1>5. WalkInv'
  BY <1>1, <1>2 DEF Inv, TypeOK, WalkInv, timer_poll_begin, Id, NULL
<1> QED
  BY <1>3, <1>4, <1>5 DEF Inv

(* A timer that is not due stays listed, and the walk passes it.             *)
LEMMA PollSkipInv == Inv /\ timer_poll_skip => Inv'
<1> SUFFICES ASSUME Inv, timer_poll_skip PROVE Inv'
  OBVIOUS
<1> USE TimerAssumption
<1>1. /\ timers \subseteq Timer /\ node \in Int /\ now \in Int
      /\ \A t \in timers : /\ t.id \in Int /\ t.time \in Int
                           /\ ~t.triggered
  BY DEF Inv, TypeOK, WalkInv, Timer, Id, NULL, timer_poll_skip
<1>2. /\ node' \in Id \cup {NULL} /\ node' < node
      /\ node' # NULL => \E t \in timers : t.id = node'
      /\ \A t \in timers : t.id < node => t.id <= node'
  BY <1>1, NextNodeIsSuccessor DEF timer_poll_skip
<1>3. \A t \in timers : t.id = node => now < t.time
  BY <1>1 DEF timer_poll_skip, Current, Due, Inv, TypeOK
<1>4. UNCHANGED <<timers, next_timer_id, now, pc, pollStart>> /\ pc = "scan"
  BY DEF timer_poll_skip
<1>5. TypeOK'
  BY <1>2, <1>4 DEF Inv, TypeOK
<1>6. CursorInList'
  BY <1>1, <1>2, <1>4 DEF CursorInList
<1>7. WalkInv'
  <2>1. \A t \in timers : node' < t.id /\ t.id < pollStart => now < t.time
    BY <1>1, <1>2, <1>3, <1>4 DEF Inv, WalkInv, Id, NULL
  <2>2. node' < pollStart
    BY <1>1, <1>2, <1>4 DEF Inv, TypeOK, WalkInv, Id, NULL
  <2> QED
    BY <1>1, <1>4, <2>1, <2>2 DEF Inv, WalkInv
<1> QED
  BY <1>5, <1>6, <1>7 DEF Inv

(* A due timer's callback begins: its node stays under the cursor.           *)
LEMMA PollTriggerInv == Inv /\ timer_poll_trigger => Inv'
<1> SUFFICES ASSUME Inv, timer_poll_trigger PROVE Inv'
  OBVIOUS
<1> USE TimerAssumption
<1>1. PICK t \in timers :
        /\ t.id = node
        /\ timers' = (timers \ {t}) \cup {[t EXCEPT !.triggered = TRUE]}
  BY DEF timer_poll_trigger, Current
<1> DEFINE u == [t EXCEPT !.triggered = TRUE]
<1>2. /\ t \in Timer
      /\ pc = "scan" /\ pc' = "callback"
      /\ UNCHANGED <<next_timer_id, now, node, pollStart>>
  BY DEF timer_poll_trigger, Inv, TypeOK
<1>3. u \in Timer /\ u.id = node /\ u.triggered /\ u.time = t.time
  BY <1>1, <1>2 DEF Timer
<1>4. TypeOK'
  <2>1. timers' \subseteq Timer
    BY <1>1, <1>3 DEF Inv, TypeOK
  <2>2. (\A v, w \in timers : v.id = w.id => v = w)'
    <3>1. \A v, w \in timers : v.id = w.id => v = w
      BY DEF Inv, TypeOK
    <3>2. timers' = (timers \ {t}) \cup {u} /\ t.id = node
      BY <1>1
    <3>3. u.id = node
      BY <1>3
    <3> HIDE DEF u
    <3> QED
      BY <3>1, <3>2, <3>3
  <2>3. (\A v \in timers : v.id < next_timer_id)'
    BY <1>1, <1>2, <1>3 DEF Inv, TypeOK
  <2> QED
    BY <1>2, <2>1, <2>2, <2>3 DEF Inv, TypeOK
<1>5. CursorInList'
  BY <1>1, <1>2, <1>3 DEF CursorInList
<1>6. WalkInv'
  <2>1. \A v \in timers : ~v.triggered
    BY <1>2 DEF Inv, WalkInv
  <2>2. \A v \in timers' : v.triggered => v.id = node
    BY <1>1, <1>3, <2>1
  <2>3. \A v \in timers' : node < v.id /\ v.id < pollStart => now < v.time
    BY <1>1, <1>2, <1>3 DEF Inv, WalkInv
  <2> QED
    BY <1>2, <2>2, <2>3 DEF Inv, WalkInv
<1> QED
  BY <1>4, <1>5, <1>6 DEF Inv

(* The callback is over: its node goes, the walk moves on from it.            *)
LEMMA PollReturnInv == Inv /\ timer_poll_return => Inv'
<1> SUFFICES ASSUME Inv, timer_poll_return PROVE Inv'
  OBVIOUS
<1> USE TimerAssumption
<1>1. /\ timers \subseteq Timer /\ node \in Int
      /\ \A t \in timers : t.id \in Int
      /\ UNCHANGED <<next_timer_id, now, pollStart>>
      /\ pc = "callback" /\ pc' = "scan"
  BY DEF Inv, TypeOK, Timer, Id, NULL, timer_poll_return
<1>2. /\ node' \in Id \cup {NULL} /\ node' < node
      /\ node' # NULL => \E t \in timers : t.id = node'
      /\ \A t \in timers : t.id < node => t.id <= node'
  BY <1>1, NextNodeIsSuccessor DEF timer_poll_return
<1>3. /\ timers' \subseteq timers
      /\ \A t \in timers' : t.id # node
      /\ \A t \in timers : t.id # node => t \in timers'
  BY DEF timer_poll_return, Current
<1>4. \A t \in timers' : ~t.triggered
  BY <1>3 DEF Inv, WalkInv
<1>5. TypeOK'
  BY <1>1, <1>2, <1>3 DEF Inv, TypeOK
<1>6. CursorInList'
  BY <1>1, <1>2, <1>3, <1>4 DEF CursorInList
<1>7. WalkInv'
  <2>1. \A t \in timers' : node' < t.id /\ t.id < pollStart => now < t.time
    BY <1>1, <1>2, <1>3 DEF Inv, WalkInv, Id, NULL
  <2>2. node' < pollStart
    BY <1>1, <1>2 DEF Inv, TypeOK, WalkInv, Id, NULL
  <2> QED
    BY <1>1, <1>4, <2>1, <2>2 DEF Inv, WalkInv
<1> QED
  BY <1>5, <1>6, <1>7 DEF Inv

(* The walk has come to the end of the list.                                 *)
LEMMA PollEndInv == Inv /\ timer_poll_end => Inv'
BY DEF Inv, timer_poll_end, TypeOK, CursorInList, WalkInv

(* One case per action.                                                      *)
LEMMA NextInv == Inv /\ [Next]_vars => Inv'
<1> SUFFICES ASSUME Inv, [Next]_vars PROVE Inv'
  OBVIOUS
<1>1. CASE LoopTurn
  BY <1>1, LoopTurnInv
<1>2. CASE \E tag \in Tag, d \in Delay : timer_add(tag, now + d)
  BY <1>2, AddInv
<1>3. CASE \E tags \in SUBSET Tag : timer_del(tags)
  BY <1>3, DelInv
<1>4. CASE timer_poll
  BY <1>4, PollBeginInv, PollSkipInv, PollTriggerInv, PollReturnInv, PollEndInv
     DEF timer_poll
<1>5. CASE UNCHANGED vars
  BY <1>5 DEF vars, Inv, TypeOK, CursorInList, WalkInv
<1> QED
  BY <1>1, <1>2, <1>3, <1>4, <1>5 DEF Next

(* The inductive invariant holds throughout: types, the cursor and the walk. *)
THEOREM SpecInv == Spec => []Inv
BY InitInv, NextInv, PTL DEF Spec

(* timer.c's state keeps its type and timer ids stay unique.                  *)
THEOREM SpecTypeOK == Spec => []TypeOK
BY SpecInv, PTL DEF Inv

(* timer_poll never frees or follows a node that a callback has removed.      *)
THEOREM SpecCursorInList == Spec => []CursorInList
BY SpecInv, PTL DEF Inv

(* At the end of a walk, the due timers that remain were added during it.     *)
THEOREM SpecNoDueTimerSkipped == Spec => []NoDueTimerSkipped
<1>1. Inv => NoDueTimerSkipped
  BY TimerAssumption DEF Inv, TypeOK, WalkInv, NoDueTimerSkipped, Timer, Id, NULL
<1> QED
  BY <1>1, SpecInv, PTL

(* What a callback adds is not triggered before the next walk.                *)
THEOREM SpecNewTimersWait == Spec => []NewTimersWait
<1>1. Inv => NewTimersWait
  BY DEF Inv, WalkInv, NewTimersWait
<1> QED
  BY <1>1, SpecInv, PTL

(* timer_poll's walk as a whole, for any timer classes and any bounds.        *)
THEOREM SpecWalkSound == Spec => []WalkSound
BY SpecTypeOK, SpecCursorInList, SpecNoDueTimerSkipped, SpecNewTimersWait, PTL DEF WalkSound
-----------------------------------------------------------------------------
(* The refinement: what is promised of a timer, seen on the list.             *)

(* A node as the promise knows it.                                            *)
Seen(t) == [id |-> t.id, tag |-> t.tag, time |-> t.time]
Armed == {Seen(t) : t \in {u \in timers : ~u.triggered}}
Running == IF pc = "callback" THEN Seen(CHOOSE u \in timers : u.id = node) ELSE [id |-> NULL]

(* Ids tell nodes apart, also as they are seen from outside.                  *)
LEMMA SeenApart ==
    ASSUME Inv, NEW t \in timers, NEW u \in timers, Seen(t) = Seen(u)
    PROVE  t = u
<1>1. Seen(t).id = t.id /\ Seen(u).id = u.id
  BY DEF Seen
<1> QED
  BY <1>1 DEF Inv, TypeOK

(* The node whose callback runs is the one under the cursor.                  *)
LEMMA RunningNode ==
    ASSUME Inv, pc = "callback"
    PROVE  /\ \E u \in timers : u.id = node /\ u.triggered /\ Running = Seen(u)
           /\ Running.id = node /\ node \in Id
<1> DEFINE u == CHOOSE v \in timers : v.id = node
<1>1. u \in timers /\ u.id = node
  BY DEF Inv, CursorInList
<1>2. u.triggered
  BY <1>1 DEF Inv, TypeOK, CursorInList
<1>3. Running = Seen(u)
  BY DEF Running
<1> HIDE DEF u
<1>4. Seen(u).id = u.id /\ u.id \in Id
  BY <1>1 DEF Seen, Inv, TypeOK, Timer
<1> QED
  BY <1>1, <1>2, <1>3, <1>4

(* The list and the node under the cursor are all that the promise sees.      *)
LEMMA SameListSeen ==
    UNCHANGED <<timers, node>> /\ (pc = "callback" <=> pc' = "callback") => UNCHANGED <<Armed, Running>>
BY DEF Armed, Running

(* timer_add arms a timer under an id that no armed or running timer has.     *)
LEMMA AddArms ==
    ASSUME Inv, NEW tag \in Tag, NEW d \in Delay, timer_add(tag, now + d)
    PROVE  /\ next_timer_id \in Id /\ next_timer_id # Running.id
           /\ \A t \in Armed : t.id # next_timer_id
           /\ Armed' = Armed \cup {[id |-> next_timer_id, tag |-> tag, time |-> now + d]}
           /\ UNCHANGED <<Running, now>>
<1> USE TimerAssumption
<1> DEFINE new == [id |-> next_timer_id, tag |-> tag, time |-> now + d, triggered |-> FALSE]
<1>1. /\ timers' = timers \cup {new} /\ UNCHANGED <<now, pc, node>>
      /\ next_timer_id \in Id /\ pc \in {"loop", "callback"}
  BY DEF timer_add, Inv, TypeOK, Id
<1>2. \A t \in timers : t.id \in Int /\ t.id < next_timer_id
  BY DEF Inv, TypeOK, Timer, Id
<1>3. next_timer_id # Running.id
  <2>1. CASE pc = "callback"
    <3>1. \E u \in timers : u.id = node /\ Running.id = node
      BY <2>1, RunningNode
    <3> QED
      BY <1>1, <1>2, <3>1 DEF Id
  <2>2. CASE pc # "callback"
    <3>1. Running.id = NULL
      BY <2>2 DEF Running
    <3> QED
      BY <1>1, <3>1 DEF Id, NULL
  <2> QED
    BY <2>1, <2>2
<1>4. \A t \in Armed : t.id # next_timer_id
  <2>1. \A t \in timers : Seen(t).id = t.id
    BY DEF Seen
  <2> QED
    BY <1>1, <1>2, <2>1 DEF Armed, Id
<1>5. new.triggered = FALSE /\ Seen(new) = [id |-> next_timer_id, tag |-> tag, time |-> now + d]
      /\ new.id = next_timer_id
  BY DEF Seen
<1> HIDE DEF new
<1>6. Armed' = Armed \cup {Seen(new)}
  BY <1>1, <1>5 DEF Armed
<1>7. UNCHANGED Running
  <2>1. CASE pc = "callback"
    <3>1. node # next_timer_id
      BY <1>1, <1>2, <2>1, RunningNode DEF Id
    <3>2. (CHOOSE u \in timers' : u.id = node) = (CHOOSE u \in timers : u.id = node)
      <4>1. \A u : u \in timers' /\ u.id = node <=> u \in timers /\ u.id = node
        BY <1>1, <1>5, <3>1
      <4>2. PICK v \in timers : v.id = node
        BY <2>1, RunningNode
      <4>3. \A u \in timers : u.id = node => u = v
        BY <4>2 DEF Inv, TypeOK
      <4> QED
        BY <4>1, <4>2, <4>3
    <3> QED
      BY <1>1, <2>1, <3>2 DEF Running, Seen
  <2>2. CASE pc # "callback"
    BY <1>1, <2>2 DEF Running
  <2> QED
    BY <2>1, <2>2
<1> QED
  BY <1>1, <1>3, <1>4, <1>5, <1>6, <1>7

(* timer_del cancels armed timers, and never the one that runs.               *)
LEMMA DelCancels ==
    ASSUME Inv, NEW tags \in SUBSET Tag, timer_del(tags)
    PROVE  /\ \E gone \in SUBSET Armed : Armed' = Armed \ gone
           /\ UNCHANGED <<Running, now>>
<1>1. /\ timers' = {t \in timers : ~Matches(t, tags)}
      /\ UNCHANGED <<now, pc, node>>
  BY DEF timer_del
<1> DEFINE gone == {Seen(t) : t \in {u \in timers : Matches(u, tags)}}
<1>2. gone \subseteq Armed
  BY DEF Matches, Armed
<1>3. Armed' = Armed \ gone
  <2>1. Armed' \subseteq Armed
    BY <1>1 DEF Armed
  <2>2. ASSUME NEW t \in timers', ~t.triggered PROVE Seen(t) \notin gone
    BY <1>1, <2>2, SeenApart
  <2>3. ASSUME NEW t \in timers, ~t.triggered, Seen(t) \notin gone PROVE Seen(t) \in Armed'
    <3>1. t \in timers'
      BY <1>1, <2>3
    <3> QED
      BY <2>3, <3>1 DEF Armed
  <2> HIDE DEF gone
  <2>4. \A x \in Armed' : x \notin gone
    BY <2>2 DEF Armed
  <2>5. \A x \in Armed : x \notin gone => x \in Armed'
    BY <2>3 DEF Armed
  <2> QED
    BY <2>1, <2>4, <2>5
<1>4. UNCHANGED Running
  <2>1. CASE pc = "callback"
    <3>1. PICK v \in timers : v.id = node /\ v.triggered
      BY <2>1, RunningNode
    <3>2. v \in timers'
      BY <1>1, <3>1 DEF Matches
    <3>3. /\ \A u \in timers : u.id = node => u = v
          /\ \A u \in timers' : u.id = node => u = v
      BY <1>1, <3>1 DEF Inv, TypeOK
    <3>4. (CHOOSE u \in timers' : u.id = node) = (CHOOSE u \in timers : u.id = node)
      BY <3>1, <3>2, <3>3
    <3> QED
      BY <1>1, <2>1, <3>4 DEF Running, Seen
  <2>2. CASE pc # "callback"
    BY <1>1, <2>2 DEF Running
  <2> QED
    BY <2>1, <2>2
<1> QED
  BY <1>1, <1>2, <1>3, <1>4

(* A callback begins: the timer is due, it is not armed any more, and it runs. *)
LEMMA TriggerFires ==
    ASSUME Inv, timer_poll_trigger
    PROVE  /\ Running = [id |-> NULL]
           /\ \E t \in Armed : t.time <= now /\ Armed' = Armed \ {t} /\ Running' = t
           /\ UNCHANGED now
<1>1. PICK t \in timers :
        /\ t.id = node /\ t.time <= now
        /\ timers' = (timers \ {t}) \cup {[t EXCEPT !.triggered = TRUE]}
  BY DEF timer_poll_trigger, Current, Due
<1> DEFINE u == [t EXCEPT !.triggered = TRUE]
<1>2. /\ pc = "scan" /\ pc' = "callback" /\ UNCHANGED <<now, node>>
  BY DEF timer_poll_trigger
<1>3. t \in Timer /\ ~t.triggered
  BY <1>2 DEF Inv, TypeOK, WalkInv
<1>4. u.id = node /\ u.triggered = TRUE /\ Seen(u) = Seen(t)
  BY <1>1, <1>3 DEF Timer, Seen
<1>5. Seen(t) \in Armed /\ Seen(t).time = t.time
  BY <1>3 DEF Armed, Seen
<1>6. timers' = (timers \ {t}) \cup {u}
  BY <1>1
<1> HIDE DEF u
<1>7. Armed' = Armed \ {Seen(t)}
  <2>1. \A v \in timers : Seen(v) = Seen(t) => v = t
    BY SeenApart
  <2>2. ASSUME NEW x \in Armed' PROVE x \in Armed /\ x # Seen(t)
    BY <1>4, <1>6, <2>1 DEF Armed
  <2>3. ASSUME NEW x \in Armed, x # Seen(t) PROVE x \in Armed'
    BY <1>6, <2>3 DEF Armed
  <2> QED
    BY <2>2, <2>3
<1>8. Running' = Seen(t)
  <2>1. \A v \in timers' : v.id = node => v = u
    BY <1>1, <1>4, <1>6 DEF Inv, TypeOK
  <2>2. (CHOOSE v \in timers' : v.id = node) = u
    BY <1>4, <1>6, <2>1
  <2> QED
    BY <1>2, <1>4, <2>2 DEF Running
<1>9. Running = [id |-> NULL]
  BY <1>2 DEF Running
<1> QED
  BY <1>1, <1>2, <1>5, <1>7, <1>8, <1>9

(* A callback returns: its node was not armed, and nothing runs.              *)
LEMMA ReturnEnds ==
    ASSUME Inv, timer_poll_return
    PROVE  /\ Running # [id |-> NULL] /\ Running' = [id |-> NULL] /\ UNCHANGED <<Armed, now>>
<1>1. /\ pc = "callback" /\ pc' = "scan" /\ timers' = timers \ Current /\ UNCHANGED now
  BY DEF timer_poll_return
<1>2. Running.id = node /\ node \in Id
  BY <1>1, RunningNode
<1>3. Running # [id |-> NULL]
  BY <1>2, TimerAssumption DEF Id, NULL
<1>4. \A t \in Current : t.triggered
  BY <1>1 DEF Current, Inv, TypeOK, CursorInList
<1>5. UNCHANGED Armed
  BY <1>1, <1>4 DEF Armed
<1>6. Running' = [id |-> NULL]
  BY <1>1 DEF Running
<1> QED
  BY <1>1, <1>3, <1>5, <1>6

(* timer.c keeps the promise of TimerSpec: an armed timer fires once, not      *)
(* early, never after it was deleted, and one callback runs at a time.        *)
THEOREM SpecImplementsTimerSpec == Spec => ImplementsTimerSpec
<1>1. Init => Promise!Init
  BY DEF Init, Promise!Init, Promise!NoTimer, NULL
<1>2. Inv /\ [Next]_vars => [Promise!Next]_(Promise!specVars)
  <2> SUFFICES ASSUME Inv, [Next]_vars PROVE Promise!Next \/ UNCHANGED Promise!specVars
    OBVIOUS
  <2> DEFINE armed == {[id |-> t.id, tag |-> t.tag, time |-> t.time] : t \in {u \in timers : ~u.triggered}}
             running == IF pc = "callback"
                        THEN LET t == CHOOSE u \in timers : u.id = node
                             IN [id |-> t.id, tag |-> t.tag, time |-> t.time]
                        ELSE [id |-> NULL]
             Time == {n + d : n \in 0 .. MaxNow, d \in Delay}
  <2>1. armed = Armed /\ running = Running /\ armed' = Armed' /\ running' = Running'
    BY DEF Armed, Running, Seen
  <2> HIDE DEF armed, running
  <2>2. CASE LoopTurn
    <3>1. now' > now /\ UNCHANGED <<Armed, Running>>
      BY <2>2, SameListSeen, TimerAssumption DEF LoopTurn, Inv, TypeOK
    <3> QED
      BY <2>1, <3>1 DEF Promise!Next, Promise!Tick, armed, running
  <2>3. ASSUME NEW tag \in Tag, NEW d \in Delay, timer_add(tag, now + d)
        PROVE  Promise!Next
    <3>1. PICK i \in Id, time \in Time : i = next_timer_id /\ time = now + d
      BY <2>3, AddArms DEF Inv, TypeOK
    <3>2. Promise!Arm(i, tag, time)
      BY <2>1, <2>3, <3>1, AddArms DEF Promise!Arm, armed, running
    <3>3. i \in Id /\ tag \in Tag /\ time \in Time
      OBVIOUS
    <3> QED
      BY <3>2, <3>3 DEF Promise!Next
  <2>4. ASSUME NEW tags \in SUBSET Tag, timer_del(tags)
        PROVE  Promise!Next
    <3>1. PICK gone \in SUBSET Armed : Armed' = Armed \ gone
      BY <2>4, DelCancels
    <3>2. Promise!Cancel(gone) /\ gone \in SUBSET armed
      BY <2>1, <2>4, <3>1, DelCancels DEF Promise!Cancel, armed, running
    <3> QED
      BY <3>2 DEF Promise!Next, armed
  <2>5. CASE timer_poll_trigger
    <3>1. PICK t \in Armed : t.time <= now /\ Armed' = Armed \ {t} /\ Running' = t
      BY <2>5, TriggerFires
    <3>2. Promise!Fire(t) /\ t \in armed
      BY <2>1, <2>5, <3>1, TriggerFires DEF Promise!Fire, Promise!NoTimer, NULL, armed, running
    <3> QED
      BY <3>2 DEF Promise!Next, armed
  <2>6. CASE timer_poll_return
    <3>1. Promise!Return
      BY <2>1, <2>6, ReturnEnds DEF Promise!Return, Promise!NoTimer, NULL, armed, running
    <3> QED
      BY <3>1 DEF Promise!Next
  <2>7. CASE timer_poll_begin \/ timer_poll_skip \/ timer_poll_end \/ UNCHANGED vars
    <3>1. /\ UNCHANGED <<timers, now>>
          /\ \/ pc # "callback" /\ pc' # "callback"
             \/ UNCHANGED <<node, pc>>
      BY <2>7 DEF timer_poll_begin, timer_poll_skip, timer_poll_end, vars
    <3>2. UNCHANGED Armed
      BY <3>1 DEF Armed
    <3>3. UNCHANGED Running
      <4>1. CASE pc # "callback" /\ pc' # "callback"
        BY <4>1 DEF Running
      <4>2. CASE UNCHANGED <<node, pc>>
        BY <3>1, <4>2 DEF Running
      <4> QED
        BY <3>1, <4>1, <4>2
    <3> QED
      BY <2>1, <3>1, <3>2, <3>3 DEF Promise!specVars, armed, running
  <2> QED
    BY <2>2, <2>3, <2>4, <2>5, <2>6, <2>7 DEF Next, timer_poll
<1> QED
  BY <1>1, <1>2, SpecInv, PTL DEF Spec, ImplementsTimerSpec, Promise!Spec
-----------------------------------------------------------------------------
(* The timers that users add.                                                 *)

(* What an entry says: texts and gaps, a text at the end.                     *)
Lines == {s \in Seq(BOOLEAN) : Len(s) <= MaxMsgLines /\ (s # <<>> => s[Len(s)])}

(* Entries, in memory as in the file.                                         *)
File(f) == DOMAIN f \subseteq Entry /\ f \in [DOMAIN f -> Lines]

UsersInv ==
    /\ File(user_timers) /\ File(timer_db)
    /\ core_timers \in [Entry -> 0..2] /\ said_twice \in BOOLEAN
    /\ TimersLead /\ SaidWhereItIs

\* The invariant says what UserTimersSound says.
LEMMA UsersInvImpliesSound == UsersInv => UserTimersSound
<1> SUFFICES ASSUME UsersInv PROVE UserTimersSound
  OBVIOUS
<1>1. \A e \in Entries : user_timers[e] \in Lines
  BY DEF UsersInv, File, Entries
<1>2. UserTimersTypeOK /\ LastIsText
  BY <1>1 DEF UsersInv, File, Entries, Lines, UserTimersTypeOK, LastIsText
<1> QED
  BY <1>2 DEF UsersInv, UserTimersSound

(* A non-empty set of natural numbers has a least one.                        *)
LEMMA NatMinimum ==
    ASSUME NEW T \in SUBSET Nat, T # {}
    PROVE  \E n \in T : \A m \in T : n <= m
<1>1. PICK n \in T : \A m \in T : ~(<<m, n>> \in OpToRel(<, Nat))
  BY WFMin, NatLessThanWellFounded
<1>2. \A m \in T : ~(m < n)
  BY <1>1 DEF OpToRel
<1>3. \A m \in T : m \in Nat /\ n \in Nat
  OBVIOUS
<1> QED
  BY <1>2, <1>3, n \in Nat

(* What is left when the gaps at the end are taken away ends with a text.      *)
LEMMA TrimmedIsLines ==
    ASSUME NEW s \in Seq(BOOLEAN), Len(s) <= MaxMsgLines
    PROVE  Trimmed(s) \in Lines
<1> DEFINE IsEnd(n) == (n = 0 \/ s[n]) /\ \A k \in n + 1..Len(s) : ~s[k]
           T == {n \in Nat : n <= Len(s) /\ \A k \in n + 1..Len(s) : ~s[k]}
<1>1. Len(s) \in T
  OBVIOUS
<1>2. PICK n \in T : \A m \in T : n <= m
  BY <1>1, NatMinimum
<1>3. n = 0 \/ s[n]
  <2> SUFFICES ASSUME n # 0, ~s[n] PROVE FALSE
    OBVIOUS
  <2>1. n \in Nat /\ n - 1 \in Nat /\ n - 1 <= Len(s)
    OBVIOUS
  <2>2. \A k \in (n - 1) + 1..Len(s) : k = n \/ k \in n + 1..Len(s)
    BY <2>1
  <2>3. n - 1 \in T
    BY <2>1, <2>2
  <2> HIDE DEF T
  <2>4. n <= n - 1
    BY <1>2, <2>3
  <2> QED
    BY <2>1, <2>4
<1>4. n \in 0..Len(s) /\ IsEnd(n)
  <2>1. n \in Nat /\ n <= Len(s) /\ \A k \in n + 1..Len(s) : ~s[k]
    OBVIOUS
  <2>2. n \in 0..Len(s)
    BY <2>1
  <2> QED
    BY <1>3, <2>1, <2>2
<1> DEFINE m == CHOOSE k \in 0..Len(s) : IsEnd(k)
<1>5. m \in 0..Len(s) /\ IsEnd(m)
  BY <1>4
<1>6. Trimmed(s) = SubSeq(s, 1, m)
  BY DEF Trimmed
<1> HIDE DEF m
<1>7. /\ SubSeq(s, 1, m) \in Seq(BOOLEAN) /\ Len(SubSeq(s, 1, m)) = m
      /\ m # 0 => SubSeq(s, 1, m)[m] = s[m]
  BY <1>5
<1>8. m = 0 => SubSeq(s, 1, m) = <<>>
  BY <1>7
<1>9. m # 0 => s[m]
  BY <1>5
<1>10. m <= MaxMsgLines
  BY <1>5, UserTimersAssumption
<1> QED
  BY <1>6, <1>7, <1>8, <1>9, <1>10 DEF Lines

\* An entry of the file is written: the others stay.
LEMMA PutIsFile ==
    ASSUME UsersInv, NEW e \in Entry, NEW lines \in Lines
    PROVE  /\ File(Put(e, lines)) /\ DOMAIN Put(e, lines) = Entries \cup {e}
           /\ Put(e, lines)[e] = lines
           /\ \A x \in Entries \ {e} : Put(e, lines)[x] = user_timers[x]
BY DEF UsersInv, File, Entries, Put

(* What becomes of the timers: one more for some, after those of some are      *)
(* gone; as long as nobody had two, a second one is noticed.                  *)
Counted(gone, more) ==
    /\ core_timers' \in [Entry -> 0..2] /\ said_twice' \in BOOLEAN
    /\ \A e \in Entry :
         /\ e \in more => core_timers'[e] > 0
         /\ e \notin more /\ e \in gone => core_timers'[e] = 0
         /\ e \notin more /\ e \notin gone => core_timers'[e] = core_timers[e]
         /\ core_timers'[e] > 1 => said_twice'

\* A step of the timers' core keeps the count of what an entry has armed.
LEMMA CoreCounts ==
    ASSUME UsersInv, ~said_twice, NEW gone, NEW more, Core(gone, more)
    PROVE  Counted(gone, more)
<1> DEFINE left(e) == IF e \in gone THEN 0 ELSE core_timers[e]
<1>1. \A e \in Entry : core_timers[e] \in 0..1 /\ left(e) \in 0..1
  BY DEF UsersInv, TimersLead
<1>2. /\ core_timers' = [e \in Entry |-> IF e \in more THEN left(e) + 1 ELSE left(e)]
      /\ said_twice' = (said_twice \/ \E e \in more : left(e) > 0)
  BY DEF Core
<1>3. said_twice' \in BOOLEAN /\ \A e \in more : left(e) > 0 => said_twice'
  BY <1>2 DEF UsersInv
<1>4. \A e \in Entry : core_timers'[e] = IF e \in more THEN left(e) + 1 ELSE left(e)
  BY <1>2
<1>5. core_timers' \in [Entry -> 0..2]
  BY <1>1, <1>2
<1> QED
  BY <1>1, <1>3, <1>4, <1>5 DEF Counted

(* A step that leaves the file alone keeps the invariant, if entries that lose *)
(* their timers have nothing to say or are not where the bot is, and those that *)
(* get one are there and the bot with them.                                    *)
LEMMA CoreStep ==
    ASSUME UsersInv, ~said_twice, NEW gone, NEW more, Counted(gone, more), File(user_timers'),
           UNCHANGED timer_db,
           \A e \in Entry : core_timers[e] > 0 /\ e \notin gone => e \in Entries',
           \A e \in Entry : e \in more => e \in Entries' /\ e[1] \in in_channel',
           \A e \in Entries' :
              /\ e \notin more /\ e[1] \in in_channel' /\ user_timers'[e] # <<>> =>
                    e \in Entries /\ e \notin gone /\ e[1] \in in_channel /\ user_timers[e] # <<>>
              /\ e \notin gone /\ e[1] \notin in_channel' => e[1] \notin in_channel
              /\ e[1] \in unjoined /\ e[1] \notin in_channel' => e[1] \in unjoined'
    PROVE  UsersInv'
<1>1. Entries' \subseteq Entry
  BY DEF File, Entries
<1>2. TimersLead'
  BY DEF Counted, TimersLead
<1>3. SaidWhereItIs'
  <2> SUFFICES ASSUME NEW e \in Entries'
               PROVE  /\ e[1] \in in_channel' /\ user_timers'[e] # <<>> => core_timers'[e] > 0
                      /\ e[1] \notin in_channel' /\ core_timers'[e] > 0 => e[1] \in unjoined'
    BY DEF SaidWhereItIs
  <2>1. e \in Entry
    BY <1>1
  <2>2. CASE e[1] \in in_channel' /\ user_timers'[e] # <<>>
    <3>1. CASE e \in more
      BY <2>1, <2>2, <3>1 DEF Counted
    <3>2. CASE e \notin more
      <4>1. core_timers'[e] = core_timers[e]
        BY <2>1, <2>2, <3>2 DEF Counted
      <4>2. core_timers[e] > 0
        BY <2>2, <3>2 DEF UsersInv, SaidWhereItIs
      <4> QED
        BY <2>2, <4>1, <4>2
    <3> QED
      BY <3>1, <3>2
  <2>3. CASE e[1] \notin in_channel' /\ core_timers'[e] > 0
    <3>1. e \notin more
      BY <2>1, <2>3
    <3>2. e \notin gone /\ core_timers[e] > 0
      <4>1. core_timers'[e] \in 0..2
        BY <2>1 DEF Counted
      <4> QED
        BY <2>1, <2>3, <3>1, <4>1 DEF Counted
    <3>3. e[1] \notin in_channel
      BY <2>3, <3>2
    <3>4. e \in Entries
      BY <2>1, <3>2 DEF UsersInv, TimersLead
    <3> QED
      BY <2>3, <3>2, <3>3, <3>4 DEF UsersInv, SaidWhereItIs
  <2> QED
    BY <2>2, <2>3
<1> QED
  BY <1>2, <1>3 DEF Counted, UsersInv, File

(* Entries of the channel in which a command is given.                        *)
LEMMA EntryChanges ==
    ASSUME UsersInv, ~said_twice, NEW e \in Entry, Command_in(e), NEW lines \in Lines,
           user_timers' = Put(e, lines), NEW gone, NEW more, Counted(gone, more),
           gone \subseteq {e}, more \subseteq {e},
           lines # <<>> /\ e \notin more => e \in Entries /\ user_timers[e] # <<>> /\ e \notin gone
    PROVE  UsersInv'
<1>1. /\ File(user_timers') /\ Entries' = Entries \cup {e} /\ user_timers'[e] = lines
      /\ \A x \in Entries \ {e} : user_timers'[x] = user_timers[x]
  <2> DEFINE file == Put(e, lines)
  <2>1. /\ File(file) /\ DOMAIN file = Entries \cup {e} /\ file[e] = lines
        /\ \A x \in Entries \ {e} : file[x] = user_timers[x]
    BY PutIsFile
  <2> HIDE DEF file
  <2>2. user_timers' = file
    BY DEF file
  <2> QED
    BY <2>1, <2>2 DEF Entries
<1>2. e[1] \in in_channel /\ UNCHANGED <<in_channel, timer_db, unjoined>>
  BY DEF Command_in
<1>3. \A x \in Entry : core_timers[x] > 0 => x \in Entries
  BY DEF UsersInv, TimersLead
<1>4. \A x \in Entries' :
         /\ x \notin more /\ x[1] \in in_channel' /\ user_timers'[x] # <<>> =>
               x \in Entries /\ x \notin gone /\ x[1] \in in_channel /\ user_timers[x] # <<>>
         /\ x \notin gone /\ x[1] \notin in_channel' => x[1] \notin in_channel
         /\ x[1] \in unjoined /\ x[1] \notin in_channel' => x[1] \in unjoined'
  BY <1>1, <1>2
<1>5. /\ \A x \in Entry : core_timers[x] > 0 /\ x \notin gone => x \in Entries'
      /\ \A x \in Entry : x \in more => x \in Entries' /\ x[1] \in in_channel'
      /\ UNCHANGED timer_db
  BY <1>1, <1>2, <1>3
<1> QED
  BY <1>1, <1>4, <1>5, CoreStep

\* No line, and one line, are within the bound; so are the lines of a file.
LEMMA FewLines ==
    /\ <<>> \in Lines
    /\ <<TRUE>> \in Lines /\ <<TRUE>> # <<>>
    /\ \A f : File(f) => \A e \in DOMAIN f : f[e] \in Lines
<1>1. <<>> \in Lines
  BY UserTimersAssumption DEF Lines
<1> DEFINE one == <<TRUE>>
<1>2. one \in Seq(BOOLEAN) /\ Len(one) = 1 /\ one[1] = TRUE /\ one # <<>>
  OBVIOUS
<1> HIDE DEF one
<1>3. one[Len(one)] = TRUE
  BY <1>2
<1>4. one \in Lines
  BY <1>2, <1>3, UserTimersAssumption DEF Lines
<1>5. <<TRUE>> \in Lines /\ <<TRUE>> # <<>>
  BY <1>2, <1>4 DEF one
<1> QED
  BY <1>1, <1>5 DEF File

\* A new timer keeps the invariant.
LEMMA AddNewInv ==
    ASSUME UsersInv, ~said_twice, NEW e \in Entry, NEW text \in {"none", "*", "text"},
           timer_add_new(e, text)
    PROVE  UsersInv'
<1>1. CASE text = "none"
  <2>1. user_timers' = Put(e, <<>>) /\ Counted({}, {}) /\ Command_in(e)
    BY <1>1, CoreCounts DEF timer_add_new
  <2> QED
    BY <2>1, FewLines, EntryChanges
<1>2. CASE text # "none"
  <2>1. user_timers' = Put(e, <<TRUE>>) /\ Counted({}, {e}) /\ Command_in(e)
    BY <1>2, CoreCounts DEF timer_add_new
  <2> QED
    BY <2>1, FewLines, EntryChanges
<1> QED
  BY <1>1, <1>2

\* A timer that is set again keeps the invariant.
LEMMA AddExistingInv ==
    ASSUME UsersInv, ~said_twice, NEW e \in Entry, NEW changed \in BOOLEAN,
           NEW text \in {"none", "*", "text"}, timer_add_existing(e, changed, text)
    PROVE  UsersInv'
<1> DEFINE lines == user_timers[e]
           was == IF changed THEN {e} ELSE {}
<1>1. Command_in(e) /\ e \in Entries /\ lines \in Lines
  BY FewLines DEF timer_add_existing, UsersInv, Entries
<1>2. \/ UNCHANGED user_timers /\ Core(was, was)
      \/ Len(lines) = 1 /\ user_timers' = Put(e, <<TRUE>>) /\ Core(was, was)
      \/ user_timers' = Put(e, <<>>) /\ Core({e}, {})
      \/ /\ lines = <<>> /\ user_timers' = Put(e, <<TRUE>>)
         /\ core_timers' = [core_timers EXCEPT ![e] = IF changed THEN 2 ELSE @ + 1]
         /\ said_twice' = (said_twice \/ changed \/ core_timers[e] > 0)
  BY DEF timer_add_existing
<1>3. was \subseteq {e} /\ (Len(lines) = 1 => lines # <<>>)
  OBVIOUS
<1> HIDE DEF was
<1>4. CASE UNCHANGED user_timers /\ Core(was, was)
  <2>1. Put(e, lines) = user_timers
    BY <1>1 DEF Put, UsersInv, File, Entries
  <2> HIDE DEF lines
  <2>2. user_timers' = Put(e, lines) /\ Counted(was, was)
    BY <1>4, <2>1, CoreCounts
  <2> QED
    BY <1>1, <1>3, <2>2, EntryChanges DEF lines
<1>5. CASE Len(lines) = 1 /\ user_timers' = Put(e, <<TRUE>>) /\ Core(was, was)
  <2>1. Counted(was, was)
    BY <1>5, CoreCounts
  <2> QED
    BY <1>1, <1>3, <1>5, <2>1, FewLines, EntryChanges
<1>6. CASE user_timers' = Put(e, <<>>) /\ Core({e}, {})
  <2>1. Counted({e}, {})
    BY <1>6, CoreCounts
  <2> QED
    BY <1>1, <1>6, <2>1, FewLines, EntryChanges
<1>7. CASE /\ lines = <<>> /\ user_timers' = Put(e, <<TRUE>>)
           /\ core_timers' = [core_timers EXCEPT ![e] = IF changed THEN 2 ELSE @ + 1]
           /\ said_twice' = (said_twice \/ changed \/ core_timers[e] > 0)
  <2>1. said_twice' \in BOOLEAN /\ (said_twice' <=> changed \/ core_timers[e] > 0)
    BY <1>7 DEF UsersInv
  <2>2. \A x \in Entry : core_timers[x] \in 0..1
    BY DEF UsersInv, TimersLead
  <2>3. /\ core_timers' \in [Entry -> 0..2]
        /\ core_timers'[e] = IF changed THEN 2 ELSE core_timers[e] + 1
        /\ \A x \in Entry \ {e} : core_timers'[x] = core_timers[x]
    BY <1>7, <2>2 DEF UsersInv
  <2>4. Counted({}, {e})
    BY <2>1, <2>2, <2>3 DEF Counted
  <2> QED
    BY <1>1, <1>7, <2>4, FewLines, EntryChanges
<1> QED
  BY <1>2, <1>4, <1>5, <1>6, <1>7

\* A line that is deleted keeps the invariant.
LEMMA MsgDeleteInv ==
    ASSUME UsersInv, ~said_twice, NEW e \in Entry, NEW i \in 1..MaxMsgLines, timer_msg_delete(e, i)
    PROVE  UsersInv'
<1> DEFINE lines == user_timers[e]
           gap == [lines EXCEPT ![i] = FALSE]
           rest == IF i = Len(lines) THEN Trimmed(gap) ELSE gap
<1>1. Command_in(e) /\ e \in Entries /\ i \in DOMAIN lines /\ lines \in Lines
  BY FewLines DEF timer_msg_delete, UsersInv, Entries
<1>2. user_timers' = Put(e, rest) /\ Core(IF rest = <<>> THEN {e} ELSE {}, {})
  BY DEF timer_msg_delete
<1> HIDE DEF lines
<1>3. /\ gap \in Seq(BOOLEAN) /\ Len(gap) = Len(lines) /\ Len(gap) <= MaxMsgLines
      /\ \A k \in 1..Len(lines) : k # i => gap[k] = lines[k]
      /\ i \in 1..Len(lines) /\ lines # <<>>
  BY <1>1 DEF Lines
<1> HIDE DEF gap
<1>4. rest \in Lines
  <2>1. CASE i = Len(lines)
    BY <1>3, <2>1, TrimmedIsLines
  <2>2. CASE i # Len(lines)
    <3>1. gap[Len(gap)] = lines[Len(lines)] /\ lines[Len(lines)]
      BY <1>1, <1>3, <2>2 DEF Lines
    <3>2. gap \in Lines
      BY <1>3, <3>1 DEF Lines
    <3> QED
      BY <2>2, <3>2
  <2> QED
    BY <2>1, <2>2
<1> HIDE DEF rest
<1>5. CASE rest = <<>>
  <2>1. Counted({e}, {})
    BY <1>2, <1>5, CoreCounts
  <2> QED
    BY <1>1, <1>2, <1>4, <1>5, <2>1, EntryChanges
<1>6. CASE rest # <<>>
  <2>1. Counted({}, {})
    BY <1>2, <1>6, CoreCounts
  <2>2. user_timers[e] # <<>>
    BY <1>3 DEF lines
  <2> QED
    BY <1>1, <1>2, <1>4, <1>6, <2>1, <2>2, EntryChanges
<1> QED
  BY <1>5, <1>6

\* A line that is set keeps the invariant.
LEMMA MsgInv ==
    ASSUME UsersInv, ~said_twice, NEW e \in Entry, NEW i \in 1..MaxMsgLines, timer_msg(e, i)
    PROVE  UsersInv'
<1> DEFINE lines == user_timers[e]
           said == IF i <= Len(lines) THEN [lines EXCEPT ![i] = TRUE] ELSE Append(lines, TRUE)
<1>1. /\ Command_in(e) /\ e \in Entries /\ i \in 1..Len(lines) + 1 /\ i <= MaxMsgLines
      /\ lines \in Lines
  BY FewLines DEF timer_msg, UsersInv, Entries
<1>2. user_timers' = Put(e, said) /\ Core({}, IF Len(user_timers'[e]) = 1 THEN {e} ELSE {})
  BY DEF timer_msg
<1> HIDE DEF lines
<1>3. lines \in Seq(BOOLEAN) /\ Len(lines) \in Nat /\ Len(lines) <= MaxMsgLines
  BY <1>1 DEF Lines
<1>4. said \in Lines /\ said # <<>> /\ (Len(said) # 1 => lines # <<>>)
  <2>0. i \in Nat /\ (i > Len(lines) <=> ~(i <= Len(lines)))
    BY <1>1, <1>3
  <2>1. CASE i <= Len(lines)
    <3>1. said = [lines EXCEPT ![i] = TRUE]
      BY <2>1
    <3> HIDE DEF said
    <3>2. /\ said \in Seq(BOOLEAN) /\ Len(said) = Len(lines)
          /\ said[i] = TRUE
          /\ \A k \in 1..Len(lines) : k # i => said[k] = lines[k]
      BY <1>1, <1>3, <2>1, <3>1
    <3>3. Len(lines) \in 1..Len(lines) /\ lines # <<>> /\ said # <<>>
      BY <1>1, <1>3, <2>1, <3>2
    <3>4. lines[Len(lines)]
      BY <1>1, <3>3 DEF Lines
    <3>5. said[Len(said)]
      <4>1. CASE i = Len(lines)
        BY <3>2, <4>1
      <4>2. CASE i # Len(lines)
        BY <3>2, <3>3, <3>4, <4>2
      <4> QED
        BY <4>1, <4>2
    <3> QED
      BY <1>3, <3>2, <3>3, <3>5 DEF Lines
  <2>2. CASE i > Len(lines)
    <3>1. said = Append(lines, TRUE)
      BY <2>0, <2>2
    <3> HIDE DEF said
    <3>2. said \in Seq(BOOLEAN) /\ Len(said) = Len(lines) + 1
      BY <1>3, <3>1
    <3>3. said[Len(lines) + 1] = TRUE
      BY <1>3, <3>1
    <3>4. said[Len(said)]
      BY <3>2, <3>3
    <3>5. Len(said) <= MaxMsgLines /\ said # <<>>
      BY <1>1, <1>3, <2>2, <3>2
    <3>6. Len(said) # 1 => lines # <<>>
      BY <1>3, <3>2
    <3> QED
      BY <3>2, <3>4, <3>5, <3>6 DEF Lines
  <2> QED
    BY <2>0, <2>1, <2>2
<1> HIDE DEF said
<1>5. user_timers'[e] = said
  BY <1>2, <1>4, PutIsFile
<1>6. CASE Len(said) = 1
  <2>1. Counted({}, {e})
    BY <1>2, <1>5, <1>6, CoreCounts
  <2> QED
    BY <1>1, <1>2, <1>4, <2>1, EntryChanges
<1>7. CASE Len(said) # 1
  <2>1. Counted({}, {})
    BY <1>2, <1>5, <1>7, CoreCounts
  <2>2. user_timers[e] # <<>>
    BY <1>4, <1>7 DEF lines
  <2> QED
    BY <1>1, <1>2, <1>4, <2>1, <2>2, EntryChanges
<1> QED
  BY <1>6, <1>7

(* Entries are freed with their timers.                                       *)
LEMMA FreeInv ==
    ASSUME UsersInv, ~said_twice, NEW gone, user_timer_free(gone),
           UNCHANGED <<in_channel, timer_db, unjoined>>
    PROVE  UsersInv'
<1>1. user_timers' = [e \in Entries \ gone |-> user_timers[e]] /\ Counted(gone, {})
  BY CoreCounts DEF user_timer_free
<1>2. /\ File(user_timers') /\ Entries' = Entries \ gone
      /\ \A e \in Entries' : user_timers'[e] = user_timers[e]
  BY <1>1 DEF UsersInv, File, Entries
<1>3. \A e \in Entry : core_timers[e] > 0 /\ e \notin gone => e \in Entries'
  BY <1>2 DEF UsersInv, TimersLead
<1>4. \A e \in Entries' :
         /\ e[1] \in in_channel' /\ user_timers'[e] # <<>> =>
               e \in Entries /\ e \notin gone /\ e[1] \in in_channel /\ user_timers[e] # <<>>
         /\ e \notin gone /\ e[1] \notin in_channel' => e[1] \notin in_channel
         /\ e[1] \in unjoined /\ e[1] \notin in_channel' => e[1] \in unjoined'
  BY <1>2
<1> DEFINE none == {}
<1>5. /\ Counted(gone, none) /\ \A e : e \notin none
      /\ File(user_timers') /\ UNCHANGED timer_db
  BY <1>1, <1>2
<1> HIDE DEF none
<1> QED
  BY <1>3, <1>4, <1>5, CoreStep

(* The bot comes and goes: every entry of the channel gets one timer, or none. *)
LEMMA ChannelInv ==
    ASSUME UsersInv, ~said_twice, NEW c \in TimerChan,
           bot_join(c) \/ user_timer_channel_del(c) \/ user_timer_chanreg_del(c)
    PROVE  UsersInv'
<1>1. Entries \subseteq Entry
  BY DEF UsersInv, File, Entries
<1>2. UNCHANGED user_timers => File(user_timers') /\ Entries' = Entries
  BY DEF UsersInv, File, Entries
<1>3. \A e \in Entry : core_timers[e] > 0 => e \in Entries
  BY DEF UsersInv, TimersLead
<1>4. CASE bot_join(c)
  <2>1. /\ Counted(Of(c), Of(c)) /\ in_channel' = in_channel \cup {c} /\ unjoined' = unjoined \ {c}
        /\ UNCHANGED <<user_timers, timer_db>>
    BY <1>4, CoreCounts DEF bot_join
  <2>2. \A e : e \in Of(c) <=> e \in Entries /\ e[1] = c
    BY DEF Of
  <2> QED
    BY <1>1, <1>2, <1>3, <2>1, <2>2, CoreStep
<1>5. CASE user_timer_channel_del(c)
  <2>1. /\ Counted(Of(c), {}) /\ in_channel' = in_channel \ {c}
        /\ UNCHANGED <<user_timers, timer_db, unjoined>>
    BY <1>5, CoreCounts DEF user_timer_channel_del
  <2>2. \A e : e \in Of(c) <=> e \in Entries /\ e[1] = c
    BY DEF Of
  <2> QED
    BY <1>1, <1>2, <1>3, <2>1, <2>2, CoreStep
<1>6. CASE user_timer_chanreg_del(c)
  BY <1>6, FreeInv DEF user_timer_chanreg_del
<1> QED
  BY <1>4, <1>5, <1>6

(* What a start, or a new start of the module, makes of the file.              *)
LEMMA LoadsInv ==
    ASSUME UsersInv, NEW file, File(file), NEW joined, Loads(file, joined),
           File(timer_db'), said_twice' = FALSE
    PROVE  UsersInv'
<1>1. /\ user_timers' = file /\ in_channel' = joined /\ unjoined' = TimerChan \ joined
      /\ core_timers' = [e \in Entry |-> IF e \in DOMAIN file /\ file[e] # <<>> THEN 1 ELSE 0]
  BY DEF Loads
<1>2. core_timers' \in [Entry -> 0..2]
  BY <1>1
<1>3. File(user_timers')
  BY <1>1
<1>4. TimersLead'
  BY <1>1 DEF TimersLead, Entries
<1>5. SaidWhereItIs'
  <2>1. \A e \in DOMAIN file : e \in Entry /\ e[1] \in TimerChan
    BY DEF File, Entry
  <2> QED
    BY <1>1, <2>1 DEF SaidWhereItIs, Entries
<1> QED
  BY <1>2, <1>3, <1>4, <1>5 DEF UsersInv, File

(* No entries at the start.                                                   *)
LEMMA UsersInitInv == utInit => UsersInv
<1> SUFFICES ASSUME utInit PROVE UsersInv
  OBVIOUS
<1>1. File(<<>>)
  BY DEF File
<1>2. core_timers \in [Entry -> 0..2] /\ said_twice = FALSE
  BY DEF utInit
<1>3. TimersLead /\ SaidWhereItIs
  BY DEF utInit, TimersLead, SaidWhereItIs, Entries
<1> QED
  BY <1>1, <1>2, <1>3 DEF utInit, UsersInv

(* One case per command and event.                                            *)
LEMMA UsersNextInv == UsersInv /\ [utNext]_utVars => UsersInv'
<1> SUFFICES ASSUME UsersInv, utNext \/ UNCHANGED utVars PROVE UsersInv'
  OBVIOUS
<1>1. UNCHANGED <<user_timers, core_timers, in_channel, unjoined, said_twice>> /\ File(timer_db') => UsersInv'
  BY DEF UsersInv, File, TimersLead, SaidWhereItIs, Entries
<1>2. UNCHANGED utVars => UsersInv'
  BY <1>1 DEF utVars, UsersInv
<1>3. ASSUME ~said_twice, NEW e \in Entry,
             \/ \E text \in {"none", "*", "text"} :
                  timer_add_new(e, text) \/ \E changed \in BOOLEAN : timer_add_existing(e, changed, text)
             \/ \E i \in 1..MaxMsgLines : timer_msg_delete(e, i) \/ timer_msg(e, i)
             \/ timer_del_cmd(e) \/ user_timer_func(e)
      PROVE  UsersInv'
  <2>1. CASE \E text \in {"none", "*", "text"} :
                timer_add_new(e, text) \/ \E changed \in BOOLEAN : timer_add_existing(e, changed, text)
    BY <1>3, <2>1, AddNewInv, AddExistingInv
  <2>2. CASE \E i \in 1..MaxMsgLines : timer_msg_delete(e, i) \/ timer_msg(e, i)
    BY <1>3, <2>2, MsgDeleteInv, MsgInv
  <2>3. CASE timer_del_cmd(e)
    BY <1>3, <2>3, FreeInv DEF timer_del_cmd, Command_in
  <2>4. CASE user_timer_func(e)
    BY <1>2, <2>4 DEF user_timer_func
  <2> QED
    BY <1>3, <2>1, <2>2, <2>3, <2>4
<1>4. CASE user_timer_db_write
  BY <1>1, <1>4 DEF user_timer_db_write, UsersInv
<1>5. CASE user_timers_reload
  BY <1>5, LoadsInv DEF user_timers_reload, UsersInv
<1>6. CASE bot_restart
  <2>1. File(timer_db') /\ Loads(timer_db', {}) /\ said_twice' = FALSE
    BY <1>6 DEF bot_restart, UsersInv
  <2> QED
    BY <2>1, LoadsInv
<1> QED
  BY <1>2, <1>3, <1>4, <1>5, <1>6, ChannelInv DEF utNext

(* Each timer that users added has the one timer of the core that it should    *)
(* have, over commands, joins, parts, reloads and restarts, until the one      *)
(* mishap that said_twice tells of (timers.c).                                 *)
THEOREM SpecUserTimersSound == AllSpec => []UserTimersSound
<1>1. AllInit => UsersInv
  BY UsersInitInv DEF AllInit
<1>2. UsersInv /\ [AllNext]_allVars => UsersInv'
  <2>1. [AllNext]_allVars => [utNext]_utVars
    BY DEF AllNext, allVars, utVars
  <2> QED
    BY <2>1, UsersNextInv
<1> QED
  BY <1>1, <1>2, UsersInvImpliesSound, PTL DEF AllSpec

(* A non-empty set of numbers has a least one.                                *)
LEMMA LeastExists ==
    ASSUME NEW S \in SUBSET Nat, S # {}
    PROVE  \E n \in S : \A m \in S : n <= m
<1>1. PICK n \in S : \A m \in S : ~(<<m, n>> \in OpToRel(<, Nat))
  BY WFMin, NatLessThanWellFounded
<1>2. n \in Nat /\ \A m \in S : m \in Nat /\ ~(m < n)
  BY <1>1 DEF OpToRel
<1>3. \A m \in S : n <= m
  BY <1>2
<1> QED
  BY <1>3

(* What holds of 0, and of n + 1 if of n, holds of every number.              *)
LEMMA Induction ==
    ASSUME NEW S \in SUBSET Nat, 0 \in S, \A n \in S : n + 1 \in S
    PROVE  S = Nat
<1> DEFINE R == Nat \ S
<1> SUFFICES ASSUME R # {} PROVE FALSE
  OBVIOUS
<1> HIDE DEF R
<1>1. PICK n \in R : \A m \in R : n <= m
  BY LeastExists DEF R
<1>2. n \in Nat /\ n # 0 /\ n - 1 \in Nat /\ n \notin S
  BY <1>1 DEF R
<1>3. n - 1 \in S
  BY <1>1, <1>2 DEF R
<1>4. (n - 1) + 1 \in S
  BY <1>3
<1> QED
  BY <1>2, <1>4

\* g goes from a by steps of F, which are told their number.
Iteration(g, V, a, F) ==
    g \in [Nat -> V] /\ g[0] = a /\ \A n \in Nat : g[n + 1] = F[<<n + 1, g[n]>>]

(* What a recursion computes step by step exists: there is a function with a  *)
(* given first value and a given way from each value to the next.             *)
LEMMA Iterates ==
    ASSUME NEW V, NEW a \in V, NEW F \in [Nat \X V -> V]
    PROVE  \E g : Iteration(g, V, a, F)
<1> DEFINE Upto(g, n) == /\ g \in [0..n -> V]
                         /\ g[0] = a
                         /\ \A k \in 0..n : k # 0 => g[k] = F[<<k, g[k - 1]>>]
<1>1. ASSUME NEW n \in Nat, NEW m \in Nat, NEW g, NEW h, Upto(g, n), Upto(h, m),
             NEW k \in 0..n, k \in 0..m
      PROVE  g[k] = h[k]
  <2> DEFINE S == {j \in 0..k : g[j] # h[j]}
  <2> SUFFICES ASSUME S # {} PROVE FALSE
    BY <1>1
  <2>1. S \in SUBSET Nat
    OBVIOUS
  <2> HIDE DEF S
  <2>2. PICK j \in S : \A i \in S : j <= i
    BY <2>1, LeastExists
  <2>3. j \in 0..k /\ g[j] # h[j] /\ j # 0
    BY <2>2, <1>1 DEF S
  <2>4. j \in Nat /\ j - 1 \in 0..k /\ ~(j <= j - 1)
    BY <2>3, <1>1
  <2>5. g[j - 1] = h[j - 1]
    BY <2>2, <2>4 DEF S
  <2>6. j \in 0..n /\ j \in 0..m
    BY <2>3, <1>1
  <2>7. g[j] = F[<<j, g[j - 1]>>] /\ h[j] = F[<<j, h[j - 1]>>]
    BY <2>3, <2>6, <1>1
  <2> QED
    BY <2>3, <2>5, <2>7
<1>2. \A n \in Nat : \E g : Upto(g, n)
  <2> DEFINE S == {n \in Nat : ~\E g : Upto(g, n)}
  <2> SUFFICES ASSUME S # {} PROVE FALSE
    OBVIOUS
  <2> HIDE DEF S
  <2>1. PICK n \in S : \A i \in S : n <= i
    BY LeastExists DEF S
  <2>2. n # 0
    <3>1. Upto([k \in 0..0 |-> a], 0)
      OBVIOUS
    <3> HIDE DEF Upto
    <3> QED
      BY <3>1, <2>1 DEF S
  <2>3. n \in Nat /\ n - 1 \in Nat /\ ~(n <= n - 1)
    BY <2>1, <2>2 DEF S
  <2>4. PICK g : Upto(g, n - 1)
    BY <2>1, <2>3 DEF S
  <2> DEFINE h == [k \in 0..n |-> IF k = n THEN F[<<n, g[n - 1]>>] ELSE g[k]]
  <2>5. Upto(h, n)
    <3>1. g[n - 1] \in V /\ <<n, g[n - 1]>> \in Nat \X V
      BY <2>3, <2>4
    <3>2. F[<<n, g[n - 1]>>] \in V
      BY <3>1
    <3>3. ASSUME NEW k \in 0..n, k # n PROVE k \in 0..(n - 1)
      BY <3>3, <2>3
    <3>4. h \in [0..n -> V]
      BY <3>2, <3>3, <2>4
    <3>5. h[0] = a
      BY <2>2, <2>3, <2>4
    <3>6. ASSUME NEW k \in 0..n, k # 0 PROVE h[k] = F[<<k, h[k - 1]>>]
      <4>1. k - 1 \in 0..n /\ k - 1 # n /\ h[k - 1] = g[k - 1]
        BY <3>6, <2>3
      <4>2. CASE k = n
        BY <4>1, <4>2
      <4>3. CASE k # n
        BY <4>1, <4>3, <3>3, <3>6, <2>4
      <4> QED
        BY <4>2, <4>3
    <3> QED
      BY <3>4, <3>5, <3>6
  <2> HIDE DEF Upto, h
  <2> QED
    BY <2>1, <2>5 DEF S
<1> HIDE DEF Upto
<1> DEFINE G(n) == CHOOSE g : Upto(g, n)
           f == [n \in Nat |-> G(n)[n]]
<1>3. \A n \in Nat : Upto(G(n), n)
  BY <1>2
<1> HIDE DEF G
<1>4. \A n \in Nat : G(n)[n] \in V
  BY <1>3 DEF Upto
<1>5. f \in [Nat -> V]
  BY <1>4
<1>6. f[0] = a
  BY <1>3 DEF Upto
<1>7. ASSUME NEW n \in Nat PROVE f[n + 1] = F[<<n + 1, f[n]>>]
  <2>1. n + 1 \in Nat /\ n + 1 \in 0..(n + 1) /\ n + 1 # 0 /\ (n + 1) - 1 = n
    OBVIOUS
  <2>2. G(n + 1)[n + 1] = F[<<n + 1, G(n + 1)[n]>>]
    BY <1>3, <2>1 DEF Upto
  <2>3. n \in 0..n /\ n \in 0..(n + 1)
    OBVIOUS
  <2>4. G(n + 1)[n] = G(n)[n]
    BY <1>1, <1>3, <2>1, <2>3
  <2> QED
    BY <2>1, <2>2, <2>4
<1> QED
  BY <1>5, <1>6, <1>7 DEF Iteration

\* The function that a recursion over the numbers defines: a, and from each value the next.
Recursive(a, step) == CHOOSE h : h = [n \in Nat |-> IF n = 0 THEN a ELSE step[h[n - 1]]]

\* g begins with a and goes on step by step, among the values V.
Follows(g, V, a, step) == g \in [Nat -> V] /\ g[0] = a /\ \A n \in Nat : g[n + 1] = step[g[n]]

(* A function defined by recursion over the numbers is what its steps make    *)
(* it, when they stay among the values V.                                     *)
LEMMA Unfolds ==
    ASSUME NEW V, NEW a \in V, NEW step \in [V -> V]
    PROVE  Follows(Recursive(a, step), V, a, step)
<1> DEFINE g == Recursive(a, step)
           F == [p \in Nat \X V |-> step[p[2]]]
           Body(h) == [n \in Nat |-> IF n = 0 THEN a ELSE step[h[n - 1]]]
<1>1. F \in [Nat \X V -> V]
  OBVIOUS
<1> HIDE DEF F
<1>2. PICK h : Iteration(h, V, a, F)
  BY <1>1, Iterates
<1>3. \A n \in Nat : h[n + 1] = step[h[n]]
  <2> TAKE n \in Nat
  <2>1. <<n + 1, h[n]>> \in Nat \X V
    BY <1>2 DEF Iteration
  <2>2. F[<<n + 1, h[n]>>] = step[h[n]]
    BY <2>1 DEF F
  <2> QED
    BY <1>2, <2>2 DEF Iteration
<1>4. h = Body(h)
  <2> SUFFICES ASSUME NEW n \in Nat PROVE h[n] = IF n = 0 THEN a ELSE step[h[n - 1]]
    BY <1>2 DEF Iteration
  <2>1. CASE n = 0
    BY <2>1, <1>2 DEF Iteration
  <2>2. CASE n # 0
    <3>1. n - 1 \in Nat /\ (n - 1) + 1 = n
      BY <2>2
    <3>2. h[(n - 1) + 1] = step[h[n - 1]]
      BY <1>3, <3>1
    <3> QED
      BY <3>1, <3>2, <2>2
  <2> QED
    BY <2>1, <2>2
<1>5. g = Body(g)
  <2>1. g = CHOOSE x : x = Body(x)
    BY DEF Recursive
  <2> HIDE DEF Body
  <2> QED
    BY <1>4, <2>1
<1>6. \A n \in Nat : g[n] = h[n]
  <2> DEFINE S == {n \in Nat : g[n] = h[n]}
  <2>1. 0 \in S
    BY <1>4, <1>5
  <2>2. ASSUME NEW n \in S PROVE n + 1 \in S
    <3>1. n \in Nat /\ n + 1 \in Nat /\ n + 1 # 0 /\ (n + 1) - 1 = n
      OBVIOUS
    <3>2. g[n + 1] = step[g[n]] /\ h[n + 1] = step[h[n]]
      BY <1>4, <1>5, <3>1
    <3> QED
      BY <3>1, <3>2
  <2> HIDE DEF S
  <2>3. S = Nat
    BY <2>1, <2>2, Induction DEF S
  <2> QED
    BY <2>3 DEF S
<1>7. g \in [Nat -> V]
  <2>1. \A n \in Nat : h[n] \in V
    BY <1>2 DEF Iteration
  <2>2. \A n \in Nat : g[n] \in V
    BY <1>6, <2>1
  <2>3. g = [n \in Nat |-> g[n]]
    BY <1>5
  <2> QED
    BY <2>2, <2>3
<1>8. g[0] = a
  BY <1>2, <1>6 DEF Iteration
<1>9. ASSUME NEW n \in Nat PROVE g[n + 1] = step[g[n]]
  <2>1. g[n] = h[n] /\ g[n + 1] = h[n + 1]
    BY <1>6
  <2> QED
    BY <1>3, <2>1
<1> HIDE DEF g
<1>10. Follows(g, V, a, step)
  BY <1>7, <1>8, <1>9 DEF Follows
<1> QED
  BY <1>10 DEF g

(* LISTNAME##_del: what is left of a list, in as many steps as it had entries. *)
DelStep(s, f) ==
    [k |-> s.k + 1,
     left |-> IF s.k <= Len(s.left) /\ s.left[s.k] = f THEN SwapLast(s.left, s.k) ELSE s.left]

LEMMA SwapLastType ==
    ASSUME NEW V, NEW left \in Seq(V), NEW k \in 1..Len(left)
    PROVE  /\ SwapLast(left, k) \in Seq(V)
           /\ Len(SwapLast(left, k)) = Len(left) - 1
           /\ \A j \in 1..(Len(left) - 1) : SwapLast(left, k)[j] = IF j = k THEN left[Len(left)] ELSE left[j]
<1> DEFINE e == [left EXCEPT ![k] = left[Len(left)]]
<1>1. Len(left) \in Nat /\ Len(left) # 0 /\ left[Len(left)] \in V
  OBVIOUS
<1>2. e \in Seq(V) /\ Len(e) = Len(left)
  BY <1>1
<1>3. \A j \in 1..Len(left) : e[j] = IF j = k THEN left[Len(left)] ELSE left[j]
  BY <1>1
<1> HIDE DEF e
<1>4. Len(left) - 1 \in Nat /\ Len(left) - 1 <= Len(e)
  BY <1>1, <1>2
<1>5. SubSeq(e, 1, Len(left) - 1) \in Seq(V)
  BY <1>2, <1>4
<1>6. Len(SubSeq(e, 1, Len(left) - 1)) = Len(left) - 1
  BY <1>2, <1>4
<1>7. \A j \in 1..(Len(left) - 1) : SubSeq(e, 1, Len(left) - 1)[j] = e[j]
  BY <1>2, <1>4
<1>8. SwapLast(left, k) = SubSeq(e, 1, Len(left) - 1)
  BY DEF SwapLast, e
<1> QED
  BY <1>3, <1>4, <1>5, <1>6, <1>7, <1>8

LEMMA DelSteps ==
    ASSUME NEW list \in Seq(LoopFunc), NEW f \in LoopFunc
    PROVE  \E g \in [Nat -> [k : Nat, left : Seq(LoopFunc)]] :
              /\ g[0] = [k |-> 1, left |-> list]
              /\ \A n \in Nat : g[n + 1] = DelStep(g[n], f)
              /\ list_del(list, f) = g[Len(list)].left
<1> DEFINE V == [k : Nat, left : Seq(LoopFunc)]
           a == [k |-> 1, left |-> list]
           step == [s \in V |-> DelStep(s, f)]
           del == CHOOSE h : h = [n \in Nat |-> IF n = 0 THEN a ELSE step[h[n - 1]]]
<1>1. list_del(list, f) = del[Len(list)].left
  BY DEF list_del, DelStep
<1>2. \A s \in V : DelStep(s, f) \in V
  <2> TAKE s \in V
  <2>1. CASE s.k <= Len(s.left) /\ s.left[s.k] = f /\ s.k # 0
    <3>1. s.k \in 1..Len(s.left)
      BY <2>1
    <3>2. SwapLast(s.left, s.k) \in Seq(LoopFunc)
      BY <3>1, SwapLastType
    <3> QED
      BY <2>1, <3>2 DEF DelStep
  <2>2. CASE s.k = 0
    <3>1. SwapLast(s.left, s.k) \in Seq(LoopFunc)
      BY <2>2 DEF SwapLast
    <3> QED
      BY <3>1 DEF DelStep
  <2> QED
    BY <2>1, <2>2 DEF DelStep
<1>3. a \in V /\ step \in [V -> V]
  <2> HIDE DEF V
  <2>1. step \in [V -> V]
    BY <1>2
  <2> QED
    BY <2>1 DEF V
<1>4. del \in [Nat -> V] /\ del[0] = a /\ \A n \in Nat : del[n + 1] = step[del[n]]
  <2>1. del = Recursive(a, step)
    BY DEF Recursive
  <2>2. a \in V
    BY <1>3
  <2>3. step \in [V -> V]
    BY <1>3
  <2> HIDE DEF V, a, step, del
  <2>4. Follows(del, V, a, step)
    BY <2>1, <2>2, <2>3, Unfolds
  <2> QED
    BY <2>4 DEF Follows
<1>5. \A n \in Nat : del[n + 1] = DelStep(del[n], f)
  <2> HIDE DEF V, del
  <2> QED
    BY <1>4
<1> HIDE DEF del
<1> QED
  BY <1>1, <1>4, <1>5

\* How often a function is in a list: not at all, or once.
None(list, g) == \A k \in DOMAIN list : list[k] # g
Single(list, g) == \E k \in DOMAIN list : list[k] = g /\ \A j \in DOMAIN list : list[j] = g => j = k

(* A step of the deletion of f keeps how often another function is there.     *)
LEMMA StepKeepsOthers ==
    ASSUME NEW left \in Seq(LoopFunc), NEW k \in 1..Len(left), NEW g, left[k] # g
    PROVE  /\ None(left, g) <=> None(SwapLast(left, k), g)
           /\ Single(left, g) => Single(SwapLast(left, k), g)
<1> DEFINE r == SwapLast(left, k)
           last == Len(left)
<1>1. /\ r \in Seq(LoopFunc) /\ Len(r) = last - 1 /\ last \in Nat /\ last # 0
      /\ \A j \in 1..(last - 1) : r[j] = IF j = k THEN left[last] ELSE left[j]
  BY SwapLastType
<1>2. DOMAIN r = 1..(last - 1) /\ DOMAIN left = 1..last
  BY <1>1
<1> HIDE DEF r
<1>3. ASSUME NEW j \in DOMAIN left, left[j] = g
      PROVE  j # k /\ IF j = last THEN k \in DOMAIN r /\ r[k] = g ELSE j \in DOMAIN r /\ r[j] = g
  BY <1>1, <1>2, <1>3
<1>4. ASSUME NEW j \in DOMAIN r, r[j] = g
      PROVE  IF j = k THEN left[last] = g ELSE left[j] = g
  BY <1>1, <1>2, <1>4
<1>5. None(left, g) <=> None(r, g)
  BY <1>1, <1>2, <1>3, <1>4 DEF None
<1>6. ASSUME Single(left, g) PROVE Single(r, g)
  <2>1. PICK j \in DOMAIN left : left[j] = g /\ \A i \in DOMAIN left : left[i] = g => i = j
    BY <1>6 DEF Single
  <2>2. CASE j = last
    <3>1. k \in DOMAIN r /\ r[k] = g
      BY <1>3, <2>1, <2>2
    <3>2. ASSUME NEW i \in DOMAIN r, r[i] = g PROVE i = k
      BY <1>2, <1>1, <1>4, <2>1, <2>2, <3>2
    <3> QED
      BY <3>1, <3>2 DEF Single
  <2>3. CASE j # last
    <3>1. j \in DOMAIN r /\ r[j] = g
      BY <1>3, <2>1, <2>3
    <3>2. ASSUME NEW i \in DOMAIN r, r[i] = g PROVE i = j
      BY <1>2, <1>1, <1>4, <2>1, <2>3, <3>2
    <3> QED
      BY <3>1, <3>2 DEF Single
  <2> QED
    BY <2>2, <2>3
<1> QED
  BY <1>5, <1>6 DEF r

(* list_del: other functions stay as often as they were, and the deleted one  *)
(* is gone if it was there no more than once.                                 *)
LEMMA Deleted ==
    ASSUME NEW list \in Seq(LoopFunc), NEW f \in LoopFunc
    PROVE  /\ list_del(list, f) \in Seq(LoopFunc)
           /\ \A g \in LoopFunc \ {f} : /\ None(list, g) <=> None(list_del(list, f), g)
                                        /\ Single(list, g) => Single(list_del(list, f), g)
           /\ None(list, f) \/ Single(list, f) => None(list_del(list, f), f)
<1>1. PICK d \in [Nat -> [k : Nat, left : Seq(LoopFunc)]] :
              /\ d[0] = [k |-> 1, left |-> list]
              /\ \A n \in Nat : d[n + 1] = DelStep(d[n], f)
              /\ list_del(list, f) = d[Len(list)].left
  BY DelSteps
<1> DEFINE L(n) == d[n].left
<1>2. \A n \in Nat : L(n) \in Seq(LoopFunc) /\ d[n].k \in Nat
  BY <1>1
<1>3. \A n \in Nat : d[n].k = n + 1
  <2> DEFINE S == {n \in Nat : d[n].k = n + 1}
  <2>1. 0 \in S
    BY <1>1
  <2>2. ASSUME NEW n \in S PROVE n + 1 \in S
    <3>1. n \in Nat /\ n + 1 \in Nat /\ d[n].k = n + 1
      OBVIOUS
    <3>2. d[n + 1] = DelStep(d[n], f)
      BY <1>1, <3>1
    <3>3. d[n + 1].k = d[n].k + 1
      BY <3>2 DEF DelStep
    <3> QED
      BY <3>1, <3>3
  <2> HIDE DEF S
  <2>3. S = Nat
    BY <2>1, <2>2, Induction DEF S
  <2> QED
    BY <2>3 DEF S
<1>4. ASSUME NEW n \in Nat
      PROVE  /\ n + 1 \in Nat
             /\ n + 1 \in 1..Len(L(n)) /\ L(n)[n + 1] = f => L(n + 1) = SwapLast(L(n), n + 1)
             /\ ~(n + 1 \in 1..Len(L(n)) /\ L(n)[n + 1] = f) => L(n + 1) = L(n)
  <2>0. n + 1 \in Nat /\ Len(L(n)) \in Nat
    BY <1>2
  <2>1. d[n + 1] = DelStep(d[n], f) /\ d[n].k = n + 1
    BY <1>1, <1>3
  <2>2. L(n + 1) = IF n + 1 <= Len(L(n)) /\ L(n)[n + 1] = f THEN SwapLast(L(n), n + 1) ELSE L(n)
    BY <2>1 DEF DelStep
  <2>3. n + 1 <= Len(L(n)) <=> n + 1 \in 1..Len(L(n))
    BY <2>0
  <2> HIDE DEF L
  <2> QED
    BY <2>0, <2>2, <2>3
<1>5. L(0) = list
  BY <1>1
<1> HIDE DEF L
<1>6. /\ Len(list) \in Nat /\ DOMAIN list = 1..Len(list)
      /\ \A n \in Nat : Len(L(n)) \in Nat /\ DOMAIN L(n) = 1..Len(L(n))
  <2>1. \A s \in Seq(LoopFunc) : Len(s) \in Nat /\ DOMAIN s = 1..Len(s)
    OBVIOUS
  <2> QED
    BY <1>2, <2>1
<1>7. ASSUME NEW g \in LoopFunc \ {f}, NEW n \in Nat
      PROVE  /\ None(list, g) <=> None(L(n), g)
             /\ Single(list, g) => Single(L(n), g)
  <2> DEFINE S == {m \in Nat : (None(list, g) <=> None(L(m), g)) /\ (Single(list, g) => Single(L(m), g))}
  <2>1. 0 \in S
    BY <1>5
  <2>2. ASSUME NEW m \in S PROVE m + 1 \in S
    <3>1. CASE m + 1 \in 1..Len(L(m)) /\ L(m)[m + 1] = f
      <4>1. /\ None(L(m), g) <=> None(SwapLast(L(m), m + 1), g)
            /\ Single(L(m), g) => Single(SwapLast(L(m), m + 1), g)
        BY <1>2, <3>1, StepKeepsOthers
      <4> QED
        BY <4>1, <3>1, <1>4
    <3>2. CASE ~(m + 1 \in 1..Len(L(m)) /\ L(m)[m + 1] = f)
      BY <3>2, <1>4
    <3> QED
      BY <3>1, <3>2
  <2> HIDE DEF S
  <2>3. S = Nat
    BY <2>1, <2>2, Induction DEF S
  <2> QED
    BY <2>3 DEF S
<1>8. ASSUME None(list, f), NEW n \in Nat PROVE None(L(n), f)
  <2> DEFINE S == {m \in Nat : None(L(m), f)}
  <2>1. 0 \in S
    BY <1>5, <1>8
  <2>2. ASSUME NEW m \in S PROVE m + 1 \in S
    <3>1. ~(m + 1 \in 1..Len(L(m)) /\ L(m)[m + 1] = f)
      BY <1>6 DEF None
    <3> QED
      BY <3>1, <1>4
  <2> HIDE DEF S
  <2>3. S = Nat
    BY <2>1, <2>2, Induction DEF S
  <2> QED
    BY <2>3 DEF S
<1>9. ASSUME NEW k \in DOMAIN list, list[k] = f, \A j \in DOMAIN list : list[j] = f => j = k
      PROVE  None(L(Len(list)), f)
  <2> DEFINE S == {m \in Nat : IF m < k THEN L(m) = list ELSE None(L(m), f)}
  <2>0. k \in Nat /\ k # 0 /\ k <= Len(list) /\ Len(list) \in Nat /\ k \in 1..Len(list)
    <3>1. PICK n \in Nat : n = Len(list)
      BY <1>6
    <3>2. PICK i \in 1..n : i = k
      BY <1>6, <1>9, <3>1
    <3>3. i \in Nat /\ i # 0 /\ i <= n
      OBVIOUS
    <3> QED
      BY <3>1, <3>2, <3>3
  <2>1. 0 \in S
    BY <1>5, <2>0
  <2>2. ASSUME NEW m \in S PROVE m + 1 \in S
    <3>1. CASE m + 1 < k
      <4>1. m < k /\ L(m) = list
        <5>1. m \in Nat /\ m < k
          BY <2>0, <3>1
        <5> QED
          BY <5>1
      <4>2. ~(m + 1 \in 1..Len(L(m)) /\ L(m)[m + 1] = f)
        <5>1. SUFFICES ASSUME m + 1 \in 1..Len(list), list[m + 1] = f PROVE FALSE
          BY <4>1
        <5>2. m + 1 = k
          BY <5>1, <1>6, <1>9
        <5> QED
          BY <5>2, <3>1, <2>0
      <4> QED
        BY <4>1, <4>2, <3>1, <1>4
    <3>2. CASE m + 1 = k
      <4>1. m < k /\ L(m) = list
        <5>1. m \in Nat /\ m < k
          BY <2>0, <3>2
        <5> QED
          BY <5>1
      <4>2. L(m + 1) = SwapLast(list, k)
        BY <4>1, <3>2, <1>4, <1>9, <2>0
      <4>3. None(SwapLast(list, k), f)
        <5>1. /\ SwapLast(list, k) \in Seq(LoopFunc) /\ Len(SwapLast(list, k)) = Len(list) - 1
              /\ \A j \in 1..(Len(list) - 1) : SwapLast(list, k)[j] = IF j = k THEN list[Len(list)] ELSE list[j]
          BY <2>0, SwapLastType
        <5>2. DOMAIN SwapLast(list, k) = 1..(Len(list) - 1)
          BY <5>1
        <5>3. ASSUME NEW j \in 1..(Len(list) - 1) PROVE SwapLast(list, k)[j] # f
          <6>1. j \in DOMAIN list /\ Len(list) \in DOMAIN list /\ j # Len(list)
            <7>1. PICK n \in Nat \ {0} : n = Len(list)
              BY <2>0
            <7>2. PICK i \in 1..(n - 1) : i = j
              BY <7>1
            <7>3. i \in 1..n /\ n \in 1..n /\ i # n
              OBVIOUS
            <7> QED
              BY <7>1, <7>2, <7>3, <1>6
          <6> QED
            BY <5>1, <6>1, <1>9
        <5> QED
          BY <5>2, <5>3 DEF None
      <4> QED
        BY <4>2, <4>3, <3>2
    <3>3. CASE k < m + 1
      <4>1. m \in Nat /\ ~(m < k) /\ None(L(m), f)
        <5>1. m \in Nat /\ ~(m < k)
          BY <2>0, <3>3
        <5> QED
          BY <5>1
      <4>2. ~(m + 1 \in 1..Len(L(m)) /\ L(m)[m + 1] = f)
        BY <4>1, <1>6 DEF None
      <4> QED
        <5>0. m + 1 \in Nat /\ ~(m + 1 < k)
          BY <4>1, <3>3, <2>0
        <5>1. L(m + 1) = L(m) /\ m + 1 \in Nat /\ ~(m + 1 < k)
          BY <4>1, <4>2, <1>4, <5>0
        <5> QED
          BY <4>1, <5>1
    <3> QED
      BY <3>1, <3>2, <3>3, <2>0
  <2> HIDE DEF S
  <2>3. S = Nat
    BY <2>1, <2>2, Induction DEF S
  <2>4. Len(list) \in S /\ ~(Len(list) < k)
    BY <2>0, <2>3
  <2> QED
    BY <2>4 DEF S
<1>10. list_del(list, f) = L(Len(list)) /\ Len(list) \in Nat
  BY <1>1 DEF L
<1>11. ASSUME None(list, f) \/ Single(list, f) PROVE None(list_del(list, f), f)
  BY <1>8, <1>9, <1>10, <1>11 DEF Single
<1>12. list_del(list, f) \in Seq(LoopFunc)
  BY <1>2, <1>10
<1>13. \A g \in LoopFunc \ {f} : /\ None(list, g) <=> None(list_del(list, f), g)
                                 /\ Single(list, g) => Single(list_del(list, f), g)
  BY <1>7, <1>10
<1> QED
  BY <1>11, <1>12, <1>13

(* Functions that wait once, not at all, or at least once in a longer list.   *)
LEMMA Appended ==
    ASSUME NEW list \in Seq(LoopFunc), NEW f \in LoopFunc
    PROVE  /\ Append(list, f) \in Seq(LoopFunc)
           /\ \A g \in LoopFunc \ {f} : /\ None(list, g) <=> None(Append(list, f), g)
                                        /\ Single(list, g) => Single(Append(list, f), g)
           /\ None(list, f) => Single(Append(list, f), f)
           /\ ~None(Append(list, f), f)
<1> DEFINE r == Append(list, f)
<1>1. PICK n \in Nat : n = Len(list)
  OBVIOUS
<1>2. /\ r \in Seq(LoopFunc)
      /\ DOMAIN list = 1..n /\ DOMAIN r = 1..(n + 1)
      /\ r[n + 1] = f /\ \A k \in 1..n : r[k] = list[k]
  BY <1>1
<1> HIDE DEF r
<1>3. \A k \in 1..(n + 1) : k \in 1..n \/ k = n + 1
  OBVIOUS
<1>4. n + 1 \in 1..(n + 1) /\ n + 1 \notin 1..n /\ \A k \in 1..n : k \in 1..(n + 1)
  OBVIOUS
<1>5. ASSUME NEW g \in LoopFunc \ {f} PROVE None(list, g) <=> None(r, g)
  BY <1>2, <1>3, <1>4 DEF None
<1>6. ASSUME NEW g \in LoopFunc \ {f}, Single(list, g) PROVE Single(r, g)
  <2>1. PICK k \in 1..n : list[k] = g /\ \A j \in 1..n : list[j] = g => j = k
    BY <1>2, <1>6 DEF Single
  <2>2. k \in DOMAIN r /\ r[k] = g
    BY <1>2, <1>4, <2>1
  <2>3. ASSUME NEW j \in DOMAIN r, r[j] = g PROVE j = k
    BY <1>2, <1>3, <2>1, <2>3
  <2> QED
    BY <2>2, <2>3 DEF Single
<1>7. ASSUME None(list, f) PROVE Single(r, f)
  BY <1>2, <1>3, <1>4, <1>7 DEF None, Single
<1>8. ~None(r, f)
  BY <1>2, <1>4 DEF None
<1> QED
  BY <1>2, <1>5, <1>6, <1>7, <1>8 DEF r

\* f is in the list once if b, and else not.
Waits(list, f, b) == IF b THEN Single(list, f) ELSE None(list, f)

LEMMA WaitsCounted ==
    ASSUME loop_funcs \in Seq(LoopFunc), NEW f, NEW b \in BOOLEAN, Waits(loop_funcs, f, b)
    PROVE  Count(f) = IF b THEN 1 ELSE 0
<1> DEFINE S == {k \in DOMAIN loop_funcs : loop_funcs[k] = f}
<1>1. CASE b
  <2>1. PICK k : S = {k}
    BY <1>1 DEF Waits, Single
  <2>2. Cardinality({k}) = 1
    BY FS_Singleton
  <2> QED
    BY <1>1, <2>1, <2>2 DEF Count
<1>2. CASE ~b
  <2>1. S = {}
    BY <1>2 DEF Waits, None
  <2>2. Cardinality({}) = 0
    BY FS_EmptySet
  <2> QED
    BY <1>2, <2>1, <2>2 DEF Count
<1> QED
  BY <1>1, <1>2

(* module_set puts the function of the module there, or takes it away.        *)
LEMMA ModuleSet ==
    ASSUME NEW list \in Seq(LoopFunc), NEW load \in BOOLEAN, loaded \in BOOLEAN,
           Waits(list, "check_detached_clients", loaded)
    PROVE  /\ module_set(list, load) \in Seq(LoopFunc)
           /\ Waits(module_set(list, load), "check_detached_clients", load)
           /\ \A g \in LoopFunc \ {"check_detached_clients"} :
                 /\ None(list, g) <=> None(module_set(list, load), g)
                 /\ Single(list, g) => Single(module_set(list, load), g)
<1>1. "check_detached_clients" \in LoopFunc
  BY DEF LoopFunc
<1>2. CASE load = loaded
  BY <1>2 DEF module_set
<1>3. CASE load /\ ~loaded
  <2>1. module_set(list, load) = Append(list, "check_detached_clients")
    BY <1>3 DEF module_set, list_add
  <2>2. None(list, "check_detached_clients")
    BY <1>3 DEF Waits
  <2>3. Single(module_set(list, load), "check_detached_clients")
    BY <1>1, <2>1, <2>2, Appended
  <2>4. module_set(list, load) \in Seq(LoopFunc)
    BY <1>1, <2>1, Appended
  <2>5. Waits(module_set(list, load), "check_detached_clients", load)
    BY <1>3, <2>3 DEF Waits
  <2> QED
    BY <1>1, <2>1, <2>4, <2>5, Appended
<1>4. CASE ~load /\ loaded
  <2>1. module_set(list, load) = list_del(list, "check_detached_clients")
    BY <1>4 DEF module_set
  <2>2. Single(list, "check_detached_clients")
    BY <1>4 DEF Waits
  <2>3. /\ module_set(list, load) \in Seq(LoopFunc)
        /\ None(module_set(list, load), "check_detached_clients")
        /\ \A g \in LoopFunc \ {"check_detached_clients"} :
              /\ None(list, g) <=> None(module_set(list, load), g)
              /\ Single(list, g) => Single(module_set(list, load), g)
    <3>1. PICK f \in LoopFunc : f = "check_detached_clients"
      BY <1>1
    <3>2. Single(list, f)
      BY <2>2, <3>1
    <3>3. /\ list_del(list, f) \in Seq(LoopFunc) /\ None(list_del(list, f), f)
          /\ \A g \in LoopFunc \ {f} : /\ None(list, g) <=> None(list_del(list, f), g)
                                       /\ Single(list, g) => Single(list_del(list, f), g)
      BY <3>2, Deleted
    <3> QED
      BY <2>1, <3>1, <3>3
  <2> QED
    BY <1>4, <2>3 DEF Waits
<1> QED
  BY <1>2, <1>3, <1>4

\* What waits has its function in the list, and what main's later steps find there is there once.
ListInv ==
    /\ cfg \/ sendq # <<>> => ~None(loop_funcs, "irc_poll_sendq")
    /\ new_cfg # NoConf => ~None(loop_funcs, "conf_activate")
    /\ Waits(loop_funcs, "check_detached_clients", loaded)
    /\ Waits(loop_funcs, "module_do_cmd_reload", cmd_reload)

\* The bot's clock is never further ahead than a line past its credit, and the server's count
\* is never further ahead than the bot's, but for what was queued while connecting.
FloodInv ==
    \A c \in Cost : (\A d \in Cost : d <= c) =>
        /\ ahead < Credit + c
        /\ IF server_sock = "connecting" THEN bucket <= start ELSE bucket < start + Credit + c

LoopInv == LoopTypeOK /\ ListInv /\ FloodInv

(* Costs and bounds are positive numbers.                                     *)
LEMMA LoopConstants ==
    /\ \A c \in Cost : c \in Nat /\ c > 0
    /\ Credit \in Nat /\ Credit > 0 /\ MaxIdle \in Nat /\ MaxIdle > 0 /\ MaxStep \in Nat
    /\ ShortCost \in Cost
    /\ Throttles \subseteq BOOLEAN /\ NoConf \notin Throttles
BY MainLoopAssumption

(* What the parts of the list give the run's properties.                      *)
LEMMA LoopInvImpliesSound == LoopInv => LoopSound
<1> SUFFICES ASSUME LoopInv PROVE LoopSound
  OBVIOUS
<1>1. LoopTypeOK
  BY DEF LoopInv
<1>2. loop_funcs \in Seq(LoopFunc) /\ loaded \in BOOLEAN /\ cmd_reload \in BOOLEAN
  BY <1>1 DEF LoopTypeOK
<1>3. \A f : Registered(f) <=> ~None(loop_funcs, f)
  BY DEF Registered, None
<1>4. QueueIsPolled
  BY <1>3 DEF LoopInv, ListInv, QueueIsPolled, throttle
<1>5. ModuleFuncExact
  BY <1>2, WaitsCounted DEF LoopInv, ListInv, ModuleFuncExact
<1>6. WorkIsRegistered
  <2>1. cmd_reload <=> ~None(loop_funcs, "module_do_cmd_reload")
    BY <1>2 DEF LoopInv, ListInv, Waits, None, Single
  <2> QED
    BY <1>3, <2>1 DEF LoopInv, ListInv, WorkIsRegistered
<1>7. FloodBound
  <2> SUFFICES ASSUME NEW c \in Cost, \A d \in Cost : d <= c PROVE bucket < 2 * (Credit + c)
    BY DEF FloodBound
  <2>1. /\ ahead < Credit + c
        /\ IF server_sock = "connecting" THEN bucket <= start ELSE bucket < start + Credit + c
    BY DEF LoopInv, FloodInv
  <2>2. ahead \in Int /\ bucket \in Nat /\ c \in Nat /\ c > 0 /\ Credit \in Nat /\ Credit > 0
    BY <1>1, LoopConstants DEF LoopTypeOK
  <2>3. start \in Nat /\ start < Credit + c
    BY <2>1, <2>2 DEF start, Larger
  <2> QED
    BY <2>1, <2>2, <2>3
<1> QED
  BY <1>1, <1>4, <1>5, <1>6, <1>7 DEF LoopSound, RegistrationSound

(* main before its first turn.                                                *)
LEMMA LoopInitInv == loopInit => LoopInv
<1> SUFFICES ASSUME loopInit PROVE LoopInv
  OBVIOUS
<1> DEFINE p == IF cfg THEN <<"irc_poll_sendq">> ELSE <<>>
           q == IF loaded THEN <<"check_detached_clients">> ELSE <<>>
<1>1. cfg \in BOOLEAN /\ loaded \in BOOLEAN
  BY LoopConstants DEF loopInit
<1>2. loop_funcs = p \o q
  BY DEF loopInit, throttle
<1>3. /\ cfg /\ loaded => loop_funcs = <<"irc_poll_sendq", "check_detached_clients">>
      /\ cfg /\ ~loaded => loop_funcs = <<"irc_poll_sendq">>
      /\ ~cfg /\ loaded => loop_funcs = <<"check_detached_clients">>
      /\ ~cfg /\ ~loaded => loop_funcs = <<>>
  <2>2. <<"irc_poll_sendq">> \o <<"check_detached_clients">> = <<"irc_poll_sendq", "check_detached_clients">>
    <3>1. PICK s : s = <<"irc_poll_sendq">> \o <<"check_detached_clients">>
      OBVIOUS
    <3>2. /\ s \in Seq({"irc_poll_sendq", "check_detached_clients"}) /\ Len(s) = 2
          /\ s[1] = "irc_poll_sendq" /\ s[2] = "check_detached_clients"
      BY <3>1
    <3>3. s = <<"irc_poll_sendq", "check_detached_clients">>
      BY <3>2
    <3> QED
      BY <3>1, <3>3
  <2>1. /\ <<"irc_poll_sendq">> \o <<>> = <<"irc_poll_sendq">>
        /\ <<>> \o <<"check_detached_clients">> = <<"check_detached_clients">>
        /\ <<>> \o <<>> = <<>>
    OBVIOUS
  <2> QED
    BY <1>1, <1>2, <2>1, <2>2
<1>4. loop_funcs \in Seq(LoopFunc)
  <2>1. /\ <<"irc_poll_sendq", "check_detached_clients">> \in Seq(LoopFunc)
        /\ <<"irc_poll_sendq">> \in Seq(LoopFunc) /\ <<"check_detached_clients">> \in Seq(LoopFunc)
        /\ <<>> \in Seq(LoopFunc)
    BY DEF LoopFunc
  <2> QED
    BY <1>1, <1>3, <2>1
<1>5. LoopTypeOK
  <2>1. {reload_conf, quit_poll, exits, cmd_reload, loaded} \subseteq BOOLEAN
    BY <1>1 DEF loopInit
  <2>2. sendq \in Seq(Cost) /\ ahead \in Int /\ bucket \in Nat
    BY LoopConstants DEF loopInit
  <2> QED
    BY <1>4, <2>1, <2>2 DEF loopInit, LoopTypeOK
<1>6. ListInv
  <2>1. cfg => ~None(loop_funcs, "irc_poll_sendq")
    BY <1>1, <1>3 DEF None
  <2>2. Waits(loop_funcs, "check_detached_clients", loaded)
    <3>1. CASE loaded
      BY <1>1, <1>3, <3>1 DEF Waits, Single
    <3>2. CASE ~loaded
      BY <1>1, <1>3, <3>2 DEF Waits, None
    <3> QED
      BY <3>1, <3>2
  <2>3. None(loop_funcs, "module_do_cmd_reload")
    BY <1>1, <1>3 DEF None
  <2> QED
    BY <2>1, <2>2, <2>3 DEF loopInit, ListInv, Waits
<1>7. FloodInv
  <2> SUFFICES ASSUME NEW c \in Cost
               PROVE  /\ ahead < Credit + c
                      /\ IF server_sock = "connecting" THEN bucket <= start ELSE bucket < start + Credit + c
    BY DEF FloodInv
  <2>1. ahead = -MaxIdle /\ bucket = 0 /\ server_sock = "connecting"
    BY DEF loopInit
  <2>2. start = 0
    BY <2>1, LoopConstants DEF start, Larger
  <2> QED
    BY <2>1, <2>2, LoopConstants
<1> QED
  BY <1>5, <1>6, <1>7 DEF LoopInv

(* The cost of the first lines of the queue, one by one.                      *)
LEMMA SpentSteps ==
    ASSUME sendq \in Seq(Cost)
    PROVE  /\ Spent(0) = 0
           /\ \A n \in 0..Len(sendq) : Spent(n) \in Nat
           /\ \A n \in 1..Len(sendq) : Spent(n) = Spent(n - 1) + sendq[n]
<1>1. PICK N \in Nat : N = Len(sendq)
  OBVIOUS
<1> DEFINE D == 0..N
           Body(h) == [k \in D |-> IF k = 0 THEN 0 ELSE h[k - 1] + sendq[k]]
           spent == CHOOSE h : h = Body(h)
           F == [p \in Nat \X Nat |-> IF p[1] \in 1..N THEN p[2] + sendq[p[1]] ELSE p[2]]
<1>2. \A n : Spent(n) = spent[n]
  BY <1>1 DEF Spent
<1>3. \A k \in 1..N : sendq[k] \in Nat
  <2>1. \A k \in 1..N : sendq[k] \in Cost
    BY <1>1
  <2> QED
    BY <2>1, LoopConstants
<1>4. F \in [Nat \X Nat -> Nat]
  BY <1>3
<1> HIDE DEF F
<1>5. PICK g : Iteration(g, Nat, 0, F)
  BY <1>4, Iterates
<1>6. \A n \in 1..N : n - 1 \in Nat /\ g[n] = g[n - 1] + sendq[n]
  <2> TAKE n \in 1..N
  <2>1. n - 1 \in Nat /\ (n - 1) + 1 = n
    OBVIOUS
  <2>2. g[(n - 1) + 1] = F[<<(n - 1) + 1, g[n - 1]>>] /\ g[n - 1] \in Nat
    BY <1>5, <2>1 DEF Iteration
  <2>3. g[n] = F[<<n, g[n - 1]>>] /\ <<n, g[n - 1]>> \in Nat \X Nat
    BY <2>1, <2>2
  <2>4. F[<<n, g[n - 1]>>] = g[n - 1] + sendq[n]
    BY <2>3 DEF F
  <2> QED
    BY <2>1, <2>3, <2>4
<1> DEFINE h == [k \in D |-> g[k]]
<1>7. h = Body(h)
  <2> SUFFICES ASSUME NEW k \in D PROVE h[k] = IF k = 0 THEN 0 ELSE h[k - 1] + sendq[k]
    OBVIOUS
  <2>1. CASE k = 0
    BY <2>1, <1>5 DEF Iteration
  <2>2. CASE k # 0
    <3>1. k \in 1..N /\ k - 1 \in D
      BY <2>2
    <3> QED
      BY <2>2, <3>1, <1>6
  <2> QED
    BY <2>1, <2>2
<1>8. spent = Body(spent)
  <2> HIDE DEF Body, h
  <2> QED
    BY <1>7
<1> HIDE DEF spent
<1>9. spent[0] = 0 /\ \A n \in 1..N : spent[n] = spent[n - 1] + sendq[n]
  <2>1. 0 \in D /\ \A n \in 1..N : n \in D /\ n # 0
    OBVIOUS
  <2> HIDE DEF D
  <2> QED
    BY <1>8, <2>1
<1>10. \A n \in D : spent[n] \in Nat
  <2> DEFINE S == {n \in Nat : n <= N => spent[n] \in Nat}
  <2>1. 0 \in S
    BY <1>9
  <2>2. ASSUME NEW n \in S PROVE n + 1 \in S
    <3>1. SUFFICES ASSUME n + 1 <= N PROVE spent[n + 1] \in Nat
      OBVIOUS
    <3>2. n + 1 \in 1..N /\ (n + 1) - 1 = n /\ n <= N /\ n \in Nat
      BY <3>1
    <3>3. spent[n + 1] = spent[n] + sendq[n + 1] /\ spent[n] \in Nat
      BY <1>9, <3>2
    <3> QED
      BY <1>3, <3>2, <3>3
  <2> HIDE DEF S
  <2>3. S = Nat
    BY <2>1, <2>2, Induction DEF S
  <2> QED
    BY <2>3 DEF S
<1> QED
  BY <1>1, <1>2, <1>9, <1>10

(* One call of the poll function: it stops at the first line past the credit. *)
LEMMA SentIsBounded ==
    ASSUME sendq \in Seq(Cost), ahead \in Int
    PROVE  /\ Sent \in 0..Len(sendq)
           /\ Spent(Sent) \in Nat
           /\ \A c \in Cost : (\A d \in Cost : d <= c) /\ ahead < Credit + c => start + Spent(Sent) < Credit + c
<1>1. PICK N \in Nat : N = Len(sendq)
  OBVIOUS
<1> DEFINE Stops == {n \in 0..N : n = N \/ start + Spent(n) >= Credit}
<1>2. start \in Nat
  BY DEF start, Larger
<1>3. \A n \in 0..N : Spent(n) \in Nat
  BY <1>1, SpentSteps
<1>4. Stops \in SUBSET Nat /\ N \in Stops
  OBVIOUS
<1>5. PICK n \in Stops : \A m \in Stops : n <= m
  <2> HIDE DEF Stops
  <2> QED
    BY <1>4, LeastExists
<1>6. ASSUME NEW m \in 0..(n - 1) PROVE start + Spent(m) < Credit
  <2>1. m \in 0..N /\ ~(n <= m) /\ m # N
    OBVIOUS
  <2>2. m \notin Stops
    BY <1>5, <2>1
  <2>3. ~(start + Spent(m) >= Credit)
    BY <2>1, <2>2
  <2> QED
    BY <1>2, <1>3, <2>1, <2>3, LoopConstants
<1> DEFINE P(k) == /\ \A m \in 0 .. k - 1 : start + Spent(m) < Credit
                   /\ k = Len(sendq) \/ start + Spent(k) >= Credit
<1>7. n \in 0..Len(sendq) /\ P(n)
  BY <1>1, <1>5, <1>6
<1>8. Sent = CHOOSE k \in 0..Len(sendq) : P(k)
  BY DEF Sent
<1>9. Sent \in 0..Len(sendq) /\ P(Sent)
  <2> HIDE DEF P
  <2> QED
    BY <1>7, <1>8
<1>10. PICK s \in 0..N : s = Sent
  BY <1>1, <1>9
<1>11. ASSUME NEW c \in Cost, \A d \in Cost : d <= c, ahead < Credit + c
       PROVE  start + Spent(s) < Credit + c
  <2>1. CASE s = 0
    BY <2>1, <1>11, SpentSteps, LoopConstants DEF start, Larger
  <2>2. CASE s # 0
    <3>1. s - 1 \in 0..(s - 1) /\ s - 1 \in 0..N /\ s \in 1..N
      BY <2>2
    <3>2. start + Spent(s - 1) < Credit
      BY <1>9, <1>10, <3>1
    <3>3. Spent(s) = Spent(s - 1) + sendq[s] /\ Spent(s - 1) \in Nat
      BY <1>1, <1>3, <3>1, SpentSteps
    <3>4. sendq[s] \in Cost
      BY <1>1, <3>1
    <3>5. sendq[s] <= c /\ sendq[s] \in Nat /\ c \in Nat
      BY <1>11, <3>4, LoopConstants
    <3> QED
      BY <1>2, <3>2, <3>3, <3>5, LoopConstants
  <2> QED
    BY <2>1, <2>2
<1> QED
  BY <1>1, <1>3, <1>9, <1>10, <1>11

(* The poll function writes, and leaves the list when nothing is left to      *)
(* poll for.                                                                  *)
LEMMA PollInv ==
    ASSUME LoopInv, phase = "funcs", irc_poll_sendq,
           idx' = idx + 1, UNCHANGED <<outside, phase, back, asked>>
    PROVE  LoopInv'
<1>1. LoopTypeOK
  BY DEF LoopInv
<1>2. sendq \in Seq(Cost) /\ ahead \in Int /\ bucket \in Nat /\ loop_funcs \in Seq(LoopFunc) /\ cfg \in BOOLEAN
  BY <1>1, LoopConstants DEF LoopTypeOK
<1>3. UNCHANGED <<server_sock, cfg, new_cfg, cmd_reload, loaded>>
  BY DEF irc_poll_sendq, config
<1>4. "irc_poll_sendq" \in LoopFunc /\ "conf_activate" \in LoopFunc /\ "module_do_cmd_reload" \in LoopFunc
      /\ "check_detached_clients" \in LoopFunc
  BY DEF LoopFunc
<1>5. CASE server_sock = "none" /\ sendq' = <<>> /\ UNCHANGED <<ahead, bucket, loop_funcs>>
  <2>1. sendq' \in Seq(Cost)
    BY <1>5
  <2>2. LoopTypeOK'
    BY <1>1, <1>3, <1>5, <2>1 DEF LoopTypeOK, asked
  <2>3. ListInv'
    BY <1>3, <1>5 DEF LoopInv, ListInv
  <2>4. FloodInv'
    BY <1>3, <1>5 DEF LoopInv, FloodInv, start
  <2> QED
    BY <2>2, <2>3, <2>4 DEF LoopInv
<1>6. CASE /\ server_sock # "none"
           /\ sendq' = SubSeq(sendq, Sent + 1, Len(sendq))
           /\ ahead' = start + Spent(Sent)
           /\ bucket' = bucket + Spent(Sent)
           /\ loop_funcs' = IF ~throttle /\ sendq' = <<>>
                            THEN list_del(loop_funcs, "irc_poll_sendq")
                            ELSE loop_funcs
  <2>0. /\ Sent \in 0..Len(sendq)
        /\ Spent(Sent) \in Nat
        /\ \A c \in Cost : (\A d \in Cost : d <= c) /\ ahead < Credit + c => start + Spent(Sent) < Credit + c
    BY <1>2, SentIsBounded
  <2>1. start \in Nat /\ ahead' \in Nat /\ bucket' \in Nat
    BY <1>2, <1>6, <2>0 DEF start, Larger
  <2>2. sendq' \in Seq(Cost) /\ (sendq' # <<>> => sendq # <<>>)
    <3>1. PICK s \in Nat : s = Sent
      BY <2>0
    <3>2. SubSeq(sendq, s + 1, Len(sendq)) \in Seq(Cost)
      BY <1>2
    <3>3. sendq = <<>> => SubSeq(sendq, s + 1, Len(sendq)) = <<>>
      <4>1. SUFFICES ASSUME sendq = <<>> PROVE SubSeq(sendq, s + 1, 0) = <<>>
        OBVIOUS
      <4>2. SubSeq(<<>>, s + 1, 0) = <<>>
        BY DEF SubSeq
      <4> QED
        BY <4>1, <4>2
    <3> QED
      BY <1>6, <3>1, <3>2, <3>3
  <2>3. /\ loop_funcs' \in Seq(LoopFunc)
        /\ \A g \in LoopFunc \ {"irc_poll_sendq"} : /\ None(loop_funcs, g) <=> None(loop_funcs', g)
                                                    /\ Single(loop_funcs, g) => Single(loop_funcs', g)
    BY <1>2, <1>4, <1>6, Deleted
  <2>4. LoopTypeOK'
    BY <1>1, <1>3, <1>6, <2>1, <2>2, <2>3 DEF LoopTypeOK, asked
  <2>5. ListInv'
    <3>1. cfg' \/ sendq' # <<>> => ~None(loop_funcs', "irc_poll_sendq")
      BY <1>3, <1>6, <2>2 DEF LoopInv, ListInv, throttle
    <3>2. new_cfg' # NoConf => ~None(loop_funcs', "conf_activate")
      BY <1>3, <1>4, <2>3 DEF LoopInv, ListInv
    <3>3. Waits(loop_funcs, "check_detached_clients", loaded) /\ Waits(loop_funcs, "module_do_cmd_reload", cmd_reload)
      BY DEF LoopInv, ListInv
    <3>4. Waits(loop_funcs', "check_detached_clients", loaded')
      BY <1>3, <1>4, <2>3, <3>3 DEF Waits
    <3>5. Waits(loop_funcs', "module_do_cmd_reload", cmd_reload')
      BY <1>3, <1>4, <2>3, <3>3 DEF Waits
    <3> QED
      BY <3>1, <3>2, <3>4, <3>5 DEF ListInv
  <2>6. FloodInv'
    <3> SUFFICES ASSUME NEW c \in Cost, \A d \in Cost : d <= c
                 PROVE  /\ ahead' < Credit + c
                        /\ IF server_sock' = "connecting" THEN bucket' <= start' ELSE bucket' < start' + Credit + c
      BY DEF FloodInv
    <3>1. /\ ahead < Credit + c
          /\ IF server_sock = "connecting" THEN bucket <= start ELSE bucket < start + Credit + c
      BY DEF LoopInv, FloodInv
    <3>2. start' = start + Spent(Sent)
      BY <1>6, <2>1 DEF start, Larger
    <3>3. ahead' < Credit + c
      BY <1>6, <2>0, <3>1
    <3> QED
      <4>1. PICK x \in Nat : x = Spent(Sent)
        BY <2>0
      <4>2. bucket' = bucket + x /\ start' = start + x
        BY <1>6, <3>2, <4>1
      <4>3. c \in Nat /\ Credit \in Nat
        BY LoopConstants
      <4>4. bucket <= start => bucket' <= start'
        BY <1>2, <2>1, <4>2
      <4>5. bucket < start + Credit + c => bucket' < start' + Credit + c
        BY <1>2, <2>1, <4>2, <4>3
      <4> QED
        BY <1>3, <3>1, <3>3, <4>4, <4>5
  <2> QED
    BY <2>4, <2>5, <2>6 DEF LoopInv
<1> QED
  BY <1>5, <1>6 DEF irc_poll_sendq

(* A config is made active: throttling goes on or off, a module comes or goes. *)
LEMMA ActivateInv ==
    ASSUME LoopInv, phase = "funcs", conf_activate,
           idx' = idx + 1, UNCHANGED <<outside, phase, back, asked>>
    PROVE  LoopInv'
<1>1. LoopTypeOK /\ ListInv
  BY DEF LoopInv
<1>2. /\ sendq \in Seq(Cost) /\ loop_funcs \in Seq(LoopFunc) /\ cfg \in Throttles /\ cfg \in BOOLEAN
      /\ new_cfg \in Throttles \cup {NoConf} /\ loaded \in BOOLEAN /\ cmd_reload \in BOOLEAN
  BY <1>1, LoopConstants DEF LoopTypeOK
<1>3. UNCHANGED <<server_sock, ahead, bucket, cmd_reload>>
  BY DEF conf_activate
<1>4. "irc_poll_sendq" \in LoopFunc /\ "conf_activate" \in LoopFunc /\ "module_do_cmd_reload" \in LoopFunc
      /\ "check_detached_clients" \in LoopFunc
  BY DEF LoopFunc
<1> DEFINE left == list_del(loop_funcs, "conf_activate")
<1>5. /\ left \in Seq(LoopFunc)
      /\ \A g \in LoopFunc \ {"conf_activate"} : /\ None(loop_funcs, g) <=> None(left, g)
                                                 /\ Single(loop_funcs, g) => Single(left, g)
  BY <1>2, <1>4, Deleted
<1>6. FloodInv'
  BY <1>3 DEF LoopInv, FloodInv, start
<1> HIDE DEF left
<1>7. CASE new_cfg = NoConf /\ loop_funcs' = left /\ UNCHANGED <<config, sendq, loaded>>
  <2>1. UNCHANGED <<cfg, new_cfg>>
    BY <1>7 DEF config
  <2>2. LoopTypeOK'
    BY <1>1, <1>3, <1>5, <1>7, <2>1 DEF LoopTypeOK, asked
  <2>3. ListInv'
    <3>1. cfg' \/ sendq' # <<>> => ~None(loop_funcs', "irc_poll_sendq")
      BY <1>1, <1>4, <1>5, <1>7, <2>1 DEF ListInv
    <3>2. Waits(loop_funcs', "check_detached_clients", loaded')
      BY <1>1, <1>4, <1>5, <1>7 DEF ListInv, Waits
    <3>3. Waits(loop_funcs', "module_do_cmd_reload", cmd_reload')
      BY <1>1, <1>3, <1>4, <1>5, <1>7 DEF ListInv, Waits
    <3> QED
      BY <1>7, <2>1, <3>1, <3>2, <3>3 DEF ListInv
  <2> QED
    BY <1>6, <2>2, <2>3 DEF LoopInv
<1>8. ASSUME new_cfg # NoConf, cfg' = new_cfg, new_cfg' = NoConf,
             NEW load \in BOOLEAN, NEW q, q = sendq \/ q = irc_send_line(ShortCost, new_cfg),
             sendq' = q, loaded' = load,
             loop_funcs' = module_set(irc_conf_reload(left, q, new_cfg, cfg), load)
      PROVE  LoopInv'
  <2>1. new_cfg \in Throttles /\ new_cfg \in BOOLEAN
    BY <1>2, <1>8, LoopConstants
  <2>2. q \in Seq(Cost) /\ (~new_cfg => q = sendq)
    <3>1. ShortCost \in Cost /\ sendq \in Seq(Cost)
      BY <1>2, LoopConstants
    <3>2. q = sendq \/ (new_cfg /\ q = Append(sendq, ShortCost))
      BY <1>8 DEF irc_send_line
    <3> QED
      BY <2>1, <3>1, <3>2
  <2> DEFINE r == irc_conf_reload(left, q, new_cfg, cfg)
  <2>3. /\ r \in Seq(LoopFunc)
        /\ \A g \in LoopFunc \ {"irc_poll_sendq"} : /\ None(left, g) <=> None(r, g)
                                                    /\ Single(left, g) => Single(r, g)
    <3>1. r = Append(left, "irc_poll_sendq") \/ r = list_del(left, "irc_poll_sendq") \/ r = left
      BY DEF irc_conf_reload, list_add
    <3> HIDE DEF r
    <3> QED
      <4>1. CASE r = Append(left, "irc_poll_sendq")
        BY <1>4, <1>5, <4>1, Appended
      <4>2. CASE r = list_del(left, "irc_poll_sendq")
        BY <1>4, <1>5, <4>2, Deleted
      <4>3. CASE r = left
        BY <1>5, <4>3
      <4> QED
        BY <3>1, <4>1, <4>2, <4>3
  <2>4. new_cfg \/ q # <<>> => ~None(r, "irc_poll_sendq")
    <3>1. CASE new_cfg /\ ~cfg
      <4>1. r = Append(left, "irc_poll_sendq")
        BY <3>1 DEF irc_conf_reload, list_add
      <4>2. ~None(Append(left, "irc_poll_sendq"), "irc_poll_sendq")
        BY <1>4, <1>5, Appended
      <4> QED
        BY <4>1, <4>2
    <3>2. CASE cfg \/ (q # <<>> /\ ~new_cfg)
      <4>1. ~None(left, "irc_poll_sendq")
        BY <1>1, <1>4, <1>5, <2>2, <3>2 DEF ListInv
      <4>2. new_cfg \/ q # <<>> => r = left \/ (new_cfg /\ ~cfg)
        BY DEF irc_conf_reload
      <4> QED
        BY <3>1, <4>1, <4>2
    <3> QED
      <4>1. CASE ~new_cfg /\ q = <<>>
        BY <4>1
      <4> QED
        BY <3>1, <3>2, <4>1
  <2>5. Waits(r, "check_detached_clients", loaded) /\ Waits(r, "module_do_cmd_reload", cmd_reload)
    <3> HIDE DEF r
    <3>1. Waits(r, "check_detached_clients", loaded)
      BY <1>1, <1>4, <1>5, <2>3 DEF ListInv, Waits
    <3>2. Waits(r, "module_do_cmd_reload", cmd_reload)
      BY <1>1, <1>4, <1>5, <2>3 DEF ListInv, Waits
    <3> QED
      BY <3>1, <3>2
  <2>6. loop_funcs' = module_set(r, load)
    BY <1>8
  <2> HIDE DEF r
  <2>7. /\ loop_funcs' \in Seq(LoopFunc)
        /\ Waits(loop_funcs', "check_detached_clients", load)
        /\ \A g \in LoopFunc \ {"check_detached_clients"} : /\ None(r, g) <=> None(loop_funcs', g)
                                                            /\ Single(r, g) => Single(loop_funcs', g)
    BY <1>2, <1>8, <2>3, <2>5, <2>6, ModuleSet
  <2>8. LoopTypeOK'
    <3>1. {reload_conf', quit_poll', exits', cmd_reload', loaded'} \subseteq BOOLEAN
      BY <1>1, <1>3, <1>8 DEF LoopTypeOK, asked
    <3> QED
      BY <1>1, <1>3, <1>8, <2>1, <2>2, <2>7, <3>1 DEF LoopTypeOK
  <2>9. ListInv'
    <3>1. cfg' \/ sendq' # <<>> => ~None(loop_funcs', "irc_poll_sendq")
      BY <1>4, <1>8, <2>4, <2>7
    <3>2. Waits(loop_funcs', "module_do_cmd_reload", cmd_reload')
      BY <1>3, <1>4, <2>5, <2>7 DEF Waits
    <3> QED
      BY <1>8, <2>7, <3>1, <3>2 DEF ListInv
  <2> QED
    BY <1>6, <2>8, <2>9 DEF LoopInv
<1> QED
  <2>1. SUFFICES ASSUME new_cfg # NoConf PROVE LoopInv'
    BY <1>7 DEF conf_activate, left
  <2>2. PICK ask \in {FALSE} \cup {"lines" \in outside},
             load \in {loaded} \cup (IF "module" \in outside THEN BOOLEAN ELSE {}) :
           LET q == IF ask THEN irc_send_line(ShortCost, new_cfg) ELSE sendq
           IN  /\ sendq' = q
               /\ loaded' = load
               /\ loop_funcs' = module_set(irc_conf_reload(left, q, new_cfg, cfg), load)
    BY <2>1 DEF conf_activate, left
  <2>3. PICK q : q = IF ask THEN irc_send_line(ShortCost, new_cfg) ELSE sendq
    OBVIOUS
  <2>4. load \in BOOLEAN
    BY <1>2
  <2>5. cfg' = new_cfg /\ new_cfg' = NoConf
    BY <2>1 DEF conf_activate
  <2> QED
    BY <1>8, <2>1, <2>2, <2>3, <2>4, <2>5

(* The module whose reload was asked for is taken out and put back, or not.   *)
LEMMA CmdReloadInv ==
    ASSUME LoopInv, phase = "funcs", module_do_cmd_reload,
           idx' = idx + 1, UNCHANGED <<outside, phase, back, asked>>
    PROVE  LoopInv'
<1>1. LoopTypeOK /\ ListInv
  BY DEF LoopInv
<1>2. loop_funcs \in Seq(LoopFunc) /\ loaded \in BOOLEAN /\ cmd_reload \in BOOLEAN
  BY <1>1, LoopConstants DEF LoopTypeOK
<1>3. UNCHANGED <<cfg, new_cfg, server_sock, sendq, ahead, bucket>>
  BY DEF module_do_cmd_reload, config, queue
<1>4. "irc_poll_sendq" \in LoopFunc /\ "conf_activate" \in LoopFunc /\ "module_do_cmd_reload" \in LoopFunc
      /\ "check_detached_clients" \in LoopFunc
  BY DEF LoopFunc
<1> DEFINE left == list_del(loop_funcs, "module_do_cmd_reload")
           unloaded == list_del(left, "check_detached_clients")
<1>5. /\ left \in Seq(LoopFunc)
      /\ \A g \in LoopFunc \ {"module_do_cmd_reload"} : /\ None(loop_funcs, g) <=> None(left, g)
                                                        /\ Single(loop_funcs, g) => Single(left, g)
      /\ None(left, "module_do_cmd_reload")
  <2>1. None(loop_funcs, "module_do_cmd_reload") \/ Single(loop_funcs, "module_do_cmd_reload")
    BY <1>1, <1>2 DEF ListInv, Waits
  <2> QED
    BY <1>2, <1>4, <2>1, Deleted
<1> HIDE DEF left
<1>6. Waits(left, "check_detached_clients", loaded)
  BY <1>1, <1>4, <1>5 DEF ListInv, Waits
<1>7. loaded => /\ unloaded \in Seq(LoopFunc)
                /\ \A g \in LoopFunc \ {"check_detached_clients"} : None(left, g) <=> None(unloaded, g)
                /\ None(unloaded, "check_detached_clients")
  BY <1>4, <1>5, <1>6, Deleted DEF Waits
<1> HIDE DEF unloaded
<1>8. /\ loaded' \in BOOLEAN /\ cmd_reload' = FALSE
      /\ loop_funcs' \in Seq(LoopFunc)
      /\ \A g \in LoopFunc \ {"check_detached_clients"} : None(left, g) <=> None(loop_funcs', g)
      /\ Waits(loop_funcs', "check_detached_clients", loaded')
  <2>1. CASE ~cmd_reload
    BY <1>2, <1>5, <1>6, <2>1 DEF module_do_cmd_reload, left
  <2>2. CASE cmd_reload
    <3>1. CASE loaded /\ loaded' = TRUE /\ loop_funcs' = list_add(unloaded, "check_detached_clients")
      <4>1. loop_funcs' = Append(unloaded, "check_detached_clients")
        BY <3>1 DEF list_add
      <4>2. /\ Single(loop_funcs', "check_detached_clients")
            /\ loop_funcs' \in Seq(LoopFunc)
            /\ \A g \in LoopFunc \ {"check_detached_clients"} : None(unloaded, g) <=> None(loop_funcs', g)
        <5>1. /\ Single(Append(unloaded, "check_detached_clients"), "check_detached_clients")
              /\ Append(unloaded, "check_detached_clients") \in Seq(LoopFunc)
              /\ \A g \in LoopFunc \ {"check_detached_clients"} :
                    None(unloaded, g) <=> None(Append(unloaded, "check_detached_clients"), g)
          BY <1>4, <1>7, <3>1, Appended
        <5> QED
          BY <4>1, <5>1
      <4> QED
        BY <1>7, <2>2, <3>1, <4>2 DEF Waits, module_do_cmd_reload
    <3>2. CASE loaded /\ loaded' = FALSE /\ loop_funcs' = unloaded
      BY <1>7, <2>2, <3>2 DEF Waits, module_do_cmd_reload
    <3>3. CASE ~loaded /\ loaded' = FALSE /\ loop_funcs' = left
      BY <1>5, <1>6, <2>2, <3>3 DEF Waits, module_do_cmd_reload
    <3> QED
      BY <2>2, <3>1, <3>2, <3>3 DEF module_do_cmd_reload, left, unloaded
  <2> QED
    BY <2>1, <2>2
<1>9. LoopTypeOK'
  <2>1. {reload_conf', quit_poll', exits', cmd_reload', loaded'} \subseteq BOOLEAN
    BY <1>1, <1>8 DEF LoopTypeOK, asked
  <2> QED
    BY <1>1, <1>3, <1>8, <2>1 DEF LoopTypeOK
<1>10. ListInv'
  <2>1. None(loop_funcs', "module_do_cmd_reload")
    BY <1>4, <1>5, <1>8
  <2>2. cfg' \/ sendq' # <<>> => ~None(loop_funcs', "irc_poll_sendq")
    BY <1>1, <1>3, <1>4, <1>5, <1>8 DEF ListInv
  <2>3. new_cfg' # NoConf => ~None(loop_funcs', "conf_activate")
    BY <1>1, <1>3, <1>4, <1>5, <1>8 DEF ListInv
  <2>4. Waits(loop_funcs', "module_do_cmd_reload", cmd_reload')
    BY <1>8, <2>1 DEF Waits
  <2> QED
    BY <1>8, <2>2, <2>3, <2>4 DEF ListInv
<1>11. FloodInv'
  BY <1>3 DEF LoopInv, FloodInv, start
<1> QED
  BY <1>9, <1>10, <1>11 DEF LoopInv

(* What the lists and the clock's bound depend on.                            *)
LEMMA LoopUnchanged ==
    ASSUME LoopInv, LoopTypeOK', UNCHANGED <<loop_funcs, config, cmd_reload, loaded, queue>>
    PROVE  LoopInv'
BY DEF LoopInv, ListInv, FloodInv, start, config, queue

(* The parts of a turn, with the clock that moves at its beginning.           *)
LEMMA TurnInv ==
    ASSUME LoopInv, UNCHANGED outside,
           LeaveLoop \/ StartTurn \/ EndFuncs \/ EndSockPoll \/ EndTimers \/ ClearReload
           \/ sig_rehash \/ sig_exit \/ die
    PROVE  LoopInv'
<1>1. LoopTypeOK
  BY DEF LoopInv
<1>2. {reload_conf, quit_poll, exits, cmd_reload, loaded} \subseteq BOOLEAN
  BY <1>1 DEF LoopTypeOK
<1>3. CASE StartTurn
  <2>1. PICK d \in 0..MaxStep : /\ ahead' = Larger(ahead - d, -MaxIdle)
                                /\ bucket' = Larger(bucket - d, 0)
    BY <1>3 DEF StartTurn
  <2>2. ahead \in Int /\ bucket \in Nat /\ d \in Nat
    BY <1>1, LoopConstants DEF LoopTypeOK
  <2>3. /\ ahead' \in Int /\ bucket' \in Nat /\ bucket' <= bucket
        /\ ahead' <= ahead \/ ahead' <= 0
    BY <2>1, <2>2, LoopConstants DEF Larger
  <2>4. UNCHANGED <<loop_funcs, back, asked, config, cmd_reload, loaded, server_sock, sendq>> /\ idx' = 0 /\ phase' = "funcs"
    BY <1>3 DEF StartTurn
  <2>5. LoopTypeOK'
    <3>1. {reload_conf', quit_poll', exits', cmd_reload', loaded'} \subseteq BOOLEAN
      BY <1>2, <2>4 DEF asked
    <3> QED
      BY <1>1, <2>3, <2>4, <3>1 DEF LoopTypeOK, config
  <2>6. ListInv'
    BY <2>4 DEF LoopInv, ListInv, config
  <2>7. FloodInv'
    <3> SUFFICES ASSUME NEW c \in Cost, \A d2 \in Cost : d2 <= c
                 PROVE  /\ ahead' < Credit + c
                        /\ IF server_sock' = "connecting" THEN bucket' <= start' ELSE bucket' < start' + Credit + c
      BY DEF FloodInv
    <3>1. /\ ahead < Credit + c
          /\ IF server_sock = "connecting" THEN bucket <= start ELSE bucket < start + Credit + c
      BY DEF LoopInv, FloodInv
    <3>2. c \in Nat /\ c > 0 /\ Credit \in Nat /\ Credit > 0 /\ MaxIdle \in Nat /\ server_sock' = server_sock
      BY <2>4, LoopConstants
    <3>3. start = Larger(ahead, 0) /\ start' = Larger(ahead', 0)
      BY DEF start
    <3>4. ahead' < Credit + c
      BY <2>2, <2>3, <3>1, <3>2
    <3>5. bucket <= start => bucket' <= start'
      BY <2>1, <2>2, <3>2, <3>3 DEF Larger
    <3>6. bucket < start + Credit + c => bucket' < start' + Credit + c
      BY <2>1, <2>2, <3>2, <3>3 DEF Larger
    <3> QED
      BY <3>1, <3>2, <3>4, <3>5, <3>6
  <2> QED
    BY <2>5, <2>6, <2>7 DEF LoopInv
<1>4. ASSUME UNCHANGED <<loop_funcs, config, cmd_reload, loaded, queue>>, idx' = idx,
             {reload_conf', quit_poll', exits'} \subseteq BOOLEAN,
             phase' \in {"top", "funcs", "sock", "timers", "reload", "clear", "left"},
             back' \in {"top", "funcs", "timers", "reload", "clear"}
      PROVE  LoopInv'
  <2>1. {reload_conf', quit_poll', exits', cmd_reload', loaded'} \subseteq BOOLEAN
    BY <1>2, <1>4
  <2>2. LoopTypeOK'
    BY <1>1, <1>4, <2>1 DEF LoopTypeOK, config, queue
  <2> QED
    BY <1>4, <2>2, LoopUnchanged
<1>5. /\ phase \in {"top", "funcs", "sock", "timers", "reload", "clear", "left"}
      /\ back \in {"top", "funcs", "timers", "reload", "clear"}
      /\ {reload_conf, quit_poll, exits} \subseteq BOOLEAN
  BY <1>1, <1>2 DEF LoopTypeOK
<1>6. CASE LeaveLoop
  BY <1>4, <1>5, <1>6 DEF LeaveLoop, asked
<1>7. CASE EndFuncs
  BY <1>4, <1>5, <1>7 DEF EndFuncs, asked
<1>8. CASE EndSockPoll
  BY <1>4, <1>5, <1>8 DEF EndSockPoll, asked
<1>9. CASE EndTimers
  BY <1>4, <1>5, <1>9 DEF EndTimers, asked
<1>10. CASE ClearReload
  <2>1. {reload_conf', quit_poll', exits'} \subseteq BOOLEAN
    BY <1>5, <1>10 DEF ClearReload
  <2> QED
    BY <1>4, <1>5, <1>10, <2>1 DEF ClearReload
<1>11. CASE sig_rehash
  <2>1. {reload_conf', quit_poll', exits'} \subseteq BOOLEAN
    BY <1>5, <1>11 DEF sig_rehash
  <2> QED
    BY <1>4, <1>5, <1>11, <2>1 DEF sig_rehash, turn
<1>12. CASE sig_exit
  <2>1. {reload_conf', quit_poll', exits'} \subseteq BOOLEAN
    BY <1>5, <1>12 DEF sig_exit
  <2>2. back' \in {"top", "funcs", "timers", "reload", "clear"}
    BY <1>5, <1>12 DEF sig_exit
  <2> QED
    BY <1>4, <1>5, <1>12, <2>1, <2>2 DEF sig_exit
<1>13. CASE die
  <2>1. {reload_conf', quit_poll', exits'} \subseteq BOOLEAN
    BY <1>5, <1>13 DEF die
  <2> QED
    BY <1>4, <1>5, <1>13, <2>1 DEF die, turn
<1> QED
  BY <1>3, <1>6, <1>7, <1>8, <1>9, <1>10, <1>11, <1>12, <1>13

(* A config is read, in the turn or by the command: its activation waits.     *)
LEMMA ReadConfInv ==
    ASSUME LoopInv, conf_reload, idx' = idx, back' = back,
           phase' \in {"top", "funcs", "sock", "timers", "reload", "clear", "left"},
           UNCHANGED <<outside, asked, cmd_reload, loaded, queue>>
    PROVE  LoopInv'
<1>1. LoopTypeOK /\ ListInv
  BY DEF LoopInv
<1>2. loop_funcs \in Seq(LoopFunc)
  BY <1>1 DEF LoopTypeOK
<1>3. PICK new \in Throttles \cup {NoConf} :
        /\ new_cfg' = new
        /\ loop_funcs' = IF new = NoConf THEN loop_funcs ELSE list_add(loop_funcs, "conf_activate")
        /\ UNCHANGED cfg
  BY DEF conf_reload
<1>4. "irc_poll_sendq" \in LoopFunc /\ "conf_activate" \in LoopFunc /\ "module_do_cmd_reload" \in LoopFunc
      /\ "check_detached_clients" \in LoopFunc
  BY DEF LoopFunc
<1>5. /\ loop_funcs' \in Seq(LoopFunc)
      /\ \A g \in LoopFunc \ {"conf_activate"} : /\ None(loop_funcs, g) <=> None(loop_funcs', g)
                                                 /\ Single(loop_funcs, g) => Single(loop_funcs', g)
      /\ new # NoConf => ~None(loop_funcs', "conf_activate")
  <2>1. CASE new = NoConf
    BY <1>2, <1>3, <2>1
  <2>2. CASE new # NoConf
    <3>1. loop_funcs' = Append(loop_funcs, "conf_activate")
      BY <1>3, <2>2 DEF list_add
    <3>2. /\ Append(loop_funcs, "conf_activate") \in Seq(LoopFunc)
          /\ \A g \in LoopFunc \ {"conf_activate"} :
                /\ None(loop_funcs, g) <=> None(Append(loop_funcs, "conf_activate"), g)
                /\ Single(loop_funcs, g) => Single(Append(loop_funcs, "conf_activate"), g)
          /\ ~None(Append(loop_funcs, "conf_activate"), "conf_activate")
      BY <1>2, <1>4, Appended
    <3> QED
      BY <3>1, <3>2
  <2> QED
    BY <2>1, <2>2
<1>6. LoopTypeOK'
  <2>1. {reload_conf', quit_poll', exits', cmd_reload', loaded'} \subseteq BOOLEAN
    BY <1>1 DEF LoopTypeOK, asked
  <2> QED
    BY <1>1, <1>3, <1>5, <2>1 DEF LoopTypeOK, queue
<1>7. ListInv'
  <2>1. cfg' \/ sendq' # <<>> => ~None(loop_funcs', "irc_poll_sendq")
    BY <1>1, <1>3, <1>4, <1>5 DEF ListInv, queue
  <2>2. Waits(loop_funcs', "check_detached_clients", loaded')
    BY <1>1, <1>4, <1>5 DEF ListInv, Waits
  <2>3. Waits(loop_funcs', "module_do_cmd_reload", cmd_reload')
    BY <1>1, <1>4, <1>5 DEF ListInv, Waits
  <2> QED
    BY <1>3, <1>5, <2>1, <2>2, <2>3 DEF ListInv
<1>8. FloodInv'
  BY DEF LoopInv, FloodInv, start, queue
<1> QED
  BY <1>6, <1>7, <1>8 DEF LoopInv

(* The two commands that change the list.                                     *)
LEMMA ModuleCmdInv ==
    ASSUME LoopInv, UNCHANGED outside, module_reload_cmd \/ cmd_module
    PROVE  LoopInv'
<1>1. LoopTypeOK /\ ListInv
  BY DEF LoopInv
<1>2. loop_funcs \in Seq(LoopFunc) /\ loaded \in BOOLEAN /\ cmd_reload \in BOOLEAN
  BY <1>1 DEF LoopTypeOK
<1>3. UNCHANGED <<cfg, new_cfg, server_sock, sendq, ahead, bucket, idx, phase, back, reload_conf, quit_poll, exits>>
  BY DEF module_reload_cmd, cmd_module, turn, asked, config, queue
<1>4. "irc_poll_sendq" \in LoopFunc /\ "conf_activate" \in LoopFunc /\ "module_do_cmd_reload" \in LoopFunc
      /\ "check_detached_clients" \in LoopFunc
  BY DEF LoopFunc
<1>5. /\ loop_funcs' \in Seq(LoopFunc) /\ cmd_reload' \in BOOLEAN /\ loaded' \in BOOLEAN
      /\ None(loop_funcs, "irc_poll_sendq") <=> None(loop_funcs', "irc_poll_sendq")
      /\ None(loop_funcs, "conf_activate") <=> None(loop_funcs', "conf_activate")
      /\ Waits(loop_funcs', "check_detached_clients", loaded')
      /\ Waits(loop_funcs', "module_do_cmd_reload", cmd_reload')
  <2>1. CASE module_reload_cmd /\ cmd_reload
    BY <1>1, <1>2, <2>1 DEF module_reload_cmd, ListInv
  <2>2. CASE module_reload_cmd /\ ~cmd_reload
    <3>1. /\ loop_funcs' = Append(loop_funcs, "module_do_cmd_reload")
          /\ cmd_reload' = TRUE /\ loaded' = loaded
      BY <2>2 DEF module_reload_cmd, list_add
    <3>2. None(loop_funcs, "module_do_cmd_reload")
      BY <1>1, <2>2 DEF ListInv, Waits
    <3>3. /\ loop_funcs' \in Seq(LoopFunc)
          /\ \A g \in LoopFunc \ {"module_do_cmd_reload"} : /\ None(loop_funcs, g) <=> None(loop_funcs', g)
                                                            /\ Single(loop_funcs, g) => Single(loop_funcs', g)
          /\ Single(loop_funcs', "module_do_cmd_reload")
      BY <1>2, <1>4, <3>1, <3>2, Appended
    <3>4. Waits(loop_funcs', "check_detached_clients", loaded')
      BY <1>1, <1>4, <3>1, <3>3 DEF ListInv, Waits
    <3> QED
      BY <1>2, <1>4, <3>1, <3>3, <3>4 DEF Waits
  <2>3. CASE cmd_module
    <3>1. loop_funcs' = module_set(loop_funcs, ~loaded) /\ loaded' = ~loaded /\ cmd_reload' = cmd_reload
      BY <2>3 DEF cmd_module
    <3>2. PICK load \in BOOLEAN : load = ~loaded
      BY <1>2
    <3>3. /\ module_set(loop_funcs, load) \in Seq(LoopFunc)
          /\ Waits(module_set(loop_funcs, load), "check_detached_clients", load)
          /\ \A g \in LoopFunc \ {"check_detached_clients"} :
                /\ None(loop_funcs, g) <=> None(module_set(loop_funcs, load), g)
                /\ Single(loop_funcs, g) => Single(module_set(loop_funcs, load), g)
      BY <1>1, <1>2, ModuleSet DEF ListInv
    <3>4. loop_funcs' = module_set(loop_funcs, load) /\ loaded' = load
      BY <3>1, <3>2
    <3>5. Waits(loop_funcs', "module_do_cmd_reload", cmd_reload')
      BY <1>1, <1>4, <3>1, <3>3, <3>4 DEF ListInv, Waits
    <3> QED
      BY <1>2, <1>4, <3>1, <3>3, <3>4, <3>5
  <2> QED
    BY <2>1, <2>2, <2>3 DEF module_reload_cmd
<1>6. LoopTypeOK'
  <2>1. {reload_conf', quit_poll', exits', cmd_reload', loaded'} \subseteq BOOLEAN
    BY <1>1, <1>3, <1>5 DEF LoopTypeOK
  <2> QED
    BY <1>1, <1>3, <1>5, <2>1 DEF LoopTypeOK
<1>7. ListInv'
  BY <1>1, <1>3, <1>5 DEF ListInv
<1>8. FloodInv'
  BY <1>3 DEF LoopInv, FloodInv, start
<1> QED
  BY <1>6, <1>7, <1>8 DEF LoopInv

(* Lines and connections: the queue grows only while it is polled.            *)
LEMMA QueueInv ==
    ASSUME LoopInv, UNCHANGED outside, irc_send \/ irc_connected \/ irc_disconnected \/ irc_reconnect
    PROVE  LoopInv'
<1>1. LoopTypeOK /\ ListInv
  BY DEF LoopInv
<1>2. /\ sendq \in Seq(Cost) /\ ahead \in Int /\ bucket \in Nat /\ cfg \in BOOLEAN
  BY <1>1, LoopConstants DEF LoopTypeOK
<1>3. UNCHANGED <<loop_funcs, cfg, new_cfg, cmd_reload, loaded, idx, phase, back, reload_conf, quit_poll, exits>>
  BY DEF irc_send, irc_connected, irc_disconnected, irc_reconnect, turn, asked, config
<1>4. /\ sendq' \in Seq(Cost) /\ ahead' \in Int /\ bucket' \in Nat
      /\ server_sock' \in {"none", "connecting", "open"}
      /\ sendq' # <<>> => cfg \/ sendq # <<>>
  <2>1. CASE irc_send
    <3>1. PICK c \in Cost : sendq' = irc_send_line(c, throttle)
      BY <2>1 DEF irc_send
    <3>2. sendq' \in Seq(Cost) /\ (sendq' # <<>> => cfg \/ sendq # <<>>)
      BY <1>2, <3>1 DEF irc_send_line, throttle
    <3> QED
      BY <1>1, <1>2, <2>1, <3>2 DEF irc_send, LoopTypeOK
  <2>2. CASE irc_connected
    <3>1. <<ShortCost, ShortCost>> \in Seq(Cost)
      BY LoopConstants
    <3>2. sendq' = IF cfg THEN sendq \o <<ShortCost, ShortCost>> ELSE sendq
      BY <2>2 DEF irc_connected, throttle
    <3>3. sendq' \in Seq(Cost)
      BY <1>2, <3>1, <3>2
    <3> QED
      BY <1>1, <1>2, <2>2, <3>2, <3>3 DEF irc_connected, LoopTypeOK
  <2>3. CASE irc_disconnected
    BY <1>1, <1>2, <2>3 DEF irc_disconnected
  <2>4. CASE irc_reconnect
    <3>1. sendq' \in Seq(Cost)
      BY <2>4 DEF irc_reconnect
    <3> QED
      BY <1>1, <1>2, <2>4, <3>1 DEF irc_reconnect
  <2> QED
    BY <2>1, <2>2, <2>3, <2>4
<1>5. LoopTypeOK'
  <2>1. {reload_conf', quit_poll', exits', cmd_reload', loaded'} \subseteq BOOLEAN
    BY <1>1, <1>3 DEF LoopTypeOK
  <2> QED
    BY <1>1, <1>3, <1>4, <2>1 DEF LoopTypeOK
<1>6. ListInv'
  BY <1>1, <1>3, <1>4 DEF ListInv
<1>7. FloodInv'
  <2> SUFFICES ASSUME NEW c \in Cost, \A d \in Cost : d <= c
               PROVE  /\ ahead' < Credit + c
                      /\ IF server_sock' = "connecting" THEN bucket' <= start' ELSE bucket' < start' + Credit + c
    BY DEF FloodInv
  <2>1. /\ ahead < Credit + c
        /\ IF server_sock = "connecting" THEN bucket <= start ELSE bucket < start + Credit + c
    BY DEF LoopInv, FloodInv
  <2>2. c \in Nat /\ c > 0 /\ Credit \in Nat /\ Credit > 0
    BY LoopConstants
  <2>3. start = Larger(ahead, 0) /\ start' = Larger(ahead', 0)
    BY DEF start
  <2>4. CASE irc_send
    BY <2>1, <2>3, <2>4 DEF irc_send
  <2>5. CASE irc_connected
    <3>1. server_sock = "connecting" /\ server_sock' = "open" /\ ahead' = 0 /\ bucket' = bucket
      BY <2>5 DEF irc_connected
    <3>2. bucket <= start
      BY <2>1, <3>1
    <3>3. start < Credit + c /\ start' = 0
      BY <1>2, <2>1, <2>2, <2>3, <3>1 DEF Larger
    <3>4. start \in Int
      BY <1>2, <2>3 DEF Larger
    <3> QED
      BY <1>2, <2>2, <3>1, <3>2, <3>3, <3>4
  <2>6. CASE irc_disconnected
    <3>1. server_sock' = "none" /\ ahead' = ahead /\ bucket' = bucket /\ start' = start
      BY <2>3, <2>6 DEF irc_disconnected
    <3>2. start \in Int
      BY <1>2, <2>3 DEF Larger
    <3>3. bucket < start + Credit + c
      BY <1>2, <2>1, <2>2, <3>2
    <3> QED
      BY <2>1, <3>1, <3>3
  <2>7. CASE irc_reconnect
    <3>1. bucket' = 0 /\ ahead' = ahead /\ start' = start
      BY <2>3, <2>7 DEF irc_reconnect
    <3>2. start \in Nat
      BY <1>2, <2>3 DEF Larger
    <3> QED
      BY <2>1, <2>2, <3>1, <3>2
  <2> QED
    BY <2>4, <2>5, <2>6, <2>7
<1> QED
  BY <1>5, <1>6, <1>7 DEF LoopInv

(* A step of main's turn, a signal or a callback.                             *)
LEMMA LoopNextInv == LoopInv /\ [(loopNext /\ UNCHANGED outside) \/ Stopped]_loopVars => LoopInv'
<1> SUFFICES ASSUME LoopInv, [(loopNext /\ UNCHANGED outside) \/ Stopped]_loopVars PROVE LoopInv'
  OBVIOUS
<1>1. CASE UNCHANGED loopVars
  BY <1>1 DEF loopVars, turn, asked, config, queue, LoopInv, LoopTypeOK, ListInv, FloodInv, start
<1>2. CASE loopNext /\ UNCHANGED outside
  <2>1. CASE LeaveLoop \/ StartTurn \/ EndFuncs \/ EndSockPoll \/ EndTimers \/ ClearReload
             \/ sig_rehash \/ sig_exit \/ die
    BY <1>2, <2>1, TurnInv
  <2>2. CASE CallFunc
    <3>1. phase = "funcs" /\ idx' = idx + 1 /\ UNCHANGED <<phase, back, asked>>
      BY <2>2 DEF CallFunc
    <3>2. CASE loop_funcs[idx + 1] = "irc_poll_sendq"
      BY <1>2, <2>2, <3>1, <3>2, PollInv DEF CallFunc
    <3>3. CASE loop_funcs[idx + 1] = "conf_activate"
      BY <1>2, <2>2, <3>1, <3>3, ActivateInv DEF CallFunc
    <3>4. CASE loop_funcs[idx + 1] = "module_do_cmd_reload"
      BY <1>2, <2>2, <3>1, <3>4, CmdReloadInv DEF CallFunc
    <3>5. CASE loop_funcs[idx + 1] \notin {"irc_poll_sendq", "conf_activate", "module_do_cmd_reload"}
      <4>1. UNCHANGED <<loop_funcs, config, cmd_reload, loaded, queue>>
        BY <2>2, <3>5 DEF CallFunc
      <4>2. LoopTypeOK /\ {reload_conf, quit_poll, exits, cmd_reload, loaded} \subseteq BOOLEAN
        BY DEF LoopInv, LoopTypeOK
      <4>3. {reload_conf', quit_poll', exits', cmd_reload', loaded'} \subseteq BOOLEAN
        BY <3>1, <4>1, <4>2 DEF asked
      <4>4. LoopTypeOK'
        BY <1>2, <3>1, <4>1, <4>2, <4>3 DEF LoopTypeOK, config, queue
      <4> QED
        BY <4>1, <4>4, LoopUnchanged
    <3> QED
      BY <3>2, <3>3, <3>4, <3>5
  <2>3. CASE ReloadConf \/ rehash
    <3>1. LoopTypeOK
      BY DEF LoopInv
    <3>2. CASE ReloadConf
      BY <1>2, <3>2, ReadConfInv DEF ReloadConf, asked
    <3>3. CASE rehash
      BY <1>2, <3>1, <3>3, ReadConfInv DEF rehash, asked, turn, LoopTypeOK
    <3> QED
      BY <2>3, <3>2, <3>3
  <2>4. CASE module_reload_cmd \/ cmd_module
    BY <1>2, <2>4, ModuleCmdInv
  <2>5. CASE irc_send \/ irc_connected \/ irc_disconnected \/ irc_reconnect
    BY <1>2, <2>5, QueueInv
  <2> QED
    BY <1>2, <2>1, <2>2, <2>3, <2>4, <2>5 DEF loopNext, LoopStep, Callback
<1> QED
  BY <1>1, <1>2 DEF Stopped

(* LoopSound: what waits has its function in the list of loop functions, in   *)
(* any number of turns and whatever reloads, configs, signals and lines come  *)
(* in between, and the lines that leave are no flood.                         *)
THEOREM SpecLoopSound == loopSpec => []LoopSound
<1>1. LoopInv => LoopSound
  BY LoopInvImpliesSound
<1> QED
  BY LoopInitInv, LoopNextInv, <1>1, PTL DEF loopSpec

----------------------------------------------------------------------------
(* The sockets (SockPoll).                                                  *)

\* A frame in which a line of its socket is being delivered.
InLine(f) == f.pc = "callback" /\ f.then = "line"

\* What a frame of the stack holds on to: a poll frame is at an index of the list, a callback or a
\* write has a socket that exists, with the line in hand; who is being told the end is told once.
FrameFine(f, fl, bf, hd) ==
    /\ f.kind = "poll" => f.i >= 1
    /\ f.kind = "close" => /\ f.pc = "callback" /\ f.ev = "FLUSH" /\ f.then = "closed"
                           /\ hd[f.sock].end = 1 \/ hd[f.sock].closed # "no"
    /\ f.pc \in {"callback", "write"} => fl[f.sock] # "none"
    /\ f.pc = "callback" => /\ f.ev = "LINE" <=> f.then = "line"
                            /\ f.then = "line" => bf[f.sock].lines >= 1
                            /\ f.then = "close" => hd[f.sock].end = 1
                            /\ f.then = "hangup" => hd[f.sock].end = 0

FramesFine(st, fl, bf, hd) == \A k \in 1..Len(st) : FrameFine(st[k], fl, bf, hd)

\* How frames lie on each other: without nested calls there is one poll, at the bottom; with them
\* a poll lies on nothing but a wait or a line in hand.  No two frames deliver lines of the same
\* socket, and without nested calls no socket is closed by its own read_func.
Shape(st, n, w) ==
    /\ n = 0 => \A k \in 1..Len(st) : k # 1 => st[k].kind = "close"
    /\ \A j, k \in 1..Len(st) : j < k /\ st[k].kind = "poll" => st[j].pc = "wait" \/ InLine(st[j])
    /\ \A j, k \in 1..Len(st) : j # k /\ InLine(st[j]) /\ InLine(st[k]) => st[j].sock # st[k].sock
    /\ ~w => /\ n = 0
             /\ \A j, k \in 1..Len(st) : st[k].kind = "close" /\ InLine(st[j]) => st[j].sock # st[k].sock

\* Every struct sock that exists is in the list, once.
ListFine(l, fl) ==
    /\ \A j, k \in 1..Len(l) : l[j] = l[k] => j = k
    /\ \A s \in Sock : fl[s] # "none" <=> \E k \in 1..Len(l) : l[k] = s

\* The array is as long as the walk goes, the list at least, and they agree where no socket was closed.
ArrayFine(p, m, l, fl, d) ==
    /\ m = Len(p) /\ m <= Len(l)
    /\ \A k \in 1..m : fl[l[k]] = "zombie" \/ d[l[k]] = p[k].fd

\* The owner of s is being told of the connection, of the end.
Connecting(st, s) == \E k \in 1..Len(st) : st[k].pc = "callback" /\ st[k].then = "connected" /\ st[k].sock = s
Ending(st, s) == \E k \in 1..Len(st) : /\ st[k].kind = "close" \/ (st[k].pc = "callback" /\ st[k].then = "close")
                                       /\ st[k].sock = s

\* Who has been told and whose socket is still there has a call on the stack that sees to it.
Told(s, hd, fl, st) ==
    /\ hd[s].connect \in 0..1 /\ hd[s].end \in 0..1
    /\ fl[s] = "none" => hd[s].connect = 0 /\ hd[s].end = 0
    /\ fl[s] = "zombie" => hd[s].end = 1 \/ hd[s].closed # "no"
    /\ hd[s].connect = 1 /\ fl[s] = "connect" => Connecting(st, s)
    /\ hd[s].end = 1 /\ fl[s] # "zombie" => Ending(st, s)

\* Without nested calls and owners that close in their own read_func, the buffers are counted right.
Exact(b) == b.used = b.lines + (IF b.part THEN 1 ELSE 0)
CountedRight(w, bf, fl) == ~w => \A s \in Sock : fl[s] # "none" => Exact(bf[s])

SockTypes ==
    /\ wild \in BOOLEAN
    /\ sock_list \in Seq(Sock)
    /\ pollfds \in Seq([fd : Fds \cup {0}, out : BOOLEAN])
    /\ last_numsocks \in Nat
    /\ flags \in [Sock -> {"none", "connect", "listen", "open", "zombie"}]
    /\ fd \in [Sock -> Fds \cup {0}]
    /\ buf \in [Sock -> [lines : 0..MaxLines, part : BOOLEAN, used : Int]]
    /\ send_queue \in [Sock -> BOOLEAN]
    /\ stack \in Seq(Frame)
    /\ nested \in 0..MaxNested
    /\ heard \in [Sock -> [connect : Nat, end : Nat, closed : {"no", "owner", "SSL"}]]

SockInv ==
    /\ SockTypes
    /\ ListFine(sock_list, flags)
    /\ ArrayFine(pollfds, last_numsocks, sock_list, flags, fd)
    /\ FramesFine(stack, flags, buf, heard)
    /\ Shape(stack, nested, wild)
    /\ \A s \in Sock : Told(s, heard, flags, stack)
    /\ CountedRight(wild, buf, flags)

(* The stack with another top frame, and without its top frame.               *)
LEMMA TopReplaced ==
    ASSUME NEW st \in Seq(Frame), st # <<>>, NEW f \in Frame
    PROVE  /\ SetTop(st, f) \in Seq(Frame)
           /\ Len(st) \in Nat /\ Len(st) >= 1 /\ Len(SetTop(st, f)) = Len(st)
           /\ SetTop(st, f)[Len(st)] = f
           /\ \A k \in 1..Len(st) : k # Len(st) => SetTop(st, f)[k] = st[k]
BY DEF SetTop

LEMMA TopPopped ==
    ASSUME NEW st \in Seq(Frame), st # <<>>
    PROVE  /\ SubSeq(st, 1, Len(st) - 1) \in Seq(Frame)
           /\ Len(st) \in Nat /\ Len(st) >= 1 /\ Len(SubSeq(st, 1, Len(st) - 1)) = Len(st) - 1
           /\ \A k \in 1..(Len(st) - 1) : SubSeq(st, 1, Len(st) - 1)[k] = st[k]
<1>1. Len(st) \in Nat /\ Len(st) >= 1 /\ Len(st) - 1 \in Nat
  OBVIOUS
<1>2. PICK n \in Nat : n = Len(st) - 1
  BY <1>1
<1>3. \A k \in 1..n : k \in 1..Len(st)
  BY <1>1, <1>2
<1>4. SubSeq(st, 1, n) = [k \in 1..n |-> st[k]]
  BY <1>1, <1>2
<1>5. SubSeq(st, 1, n) \in Seq(Frame) /\ Len(SubSeq(st, 1, n)) = n
  BY <1>1, <1>2, <1>3, <1>4
<1> QED
  BY <1>1, <1>2, <1>4, <1>5

LEMMA Pushed ==
    ASSUME NEW st \in Seq(Frame), NEW f \in Frame
    PROVE  /\ Append(st, f) \in Seq(Frame)
           /\ Len(st) \in Nat /\ Len(Append(st, f)) = Len(st) + 1
           /\ Append(st, f)[Len(st) + 1] = f
           /\ \A k \in 1..Len(st) : Append(st, f)[k] = st[k]
OBVIOUS

(* The top frame goes on to another step of its call.                         *)
LEMMA ShapeReplaced ==
    ASSUME NEW st \in Seq(Frame), st # <<>>, NEW f \in Frame, NEW n \in Nat, NEW w \in BOOLEAN,
           Shape(st, n, w), f.kind = "poll", st[Len(st)].kind = "poll",
           InLine(f) => \A k \in 1..Len(st) : k # Len(st) /\ InLine(st[k]) => st[k].sock # f.sock
    PROVE  Shape(SetTop(st, f), n, w)
<1> DEFINE t == SetTop(st, f)
<1>1. /\ t \in Seq(Frame) /\ Len(st) \in Nat /\ Len(st) >= 1 /\ Len(t) = Len(st)
      /\ t[Len(st)] = f
      /\ \A k \in 1..Len(st) : k # Len(st) => t[k] = st[k]
  BY TopReplaced
<1> HIDE DEF t
<1>2. \A k \in 1..Len(st) : t[k].kind = st[k].kind
  BY <1>1
<1>3. n = 0 => \A k \in 1..Len(t) : k # 1 => t[k].kind = "close"
  BY <1>1, <1>2 DEF Shape
<1>4. ASSUME NEW j \in 1..Len(t), NEW k \in 1..Len(t), j < k, t[k].kind = "poll"
      PROVE  t[j].pc = "wait" \/ InLine(t[j])
  <2>1. st[k].kind = "poll" /\ j # Len(st)
    BY <1>1, <1>2, <1>4
  <2>2. st[j].pc = "wait" \/ InLine(st[j])
    BY <1>1, <1>4, <2>1 DEF Shape
  <2> QED
    BY <1>1, <1>4, <2>1, <2>2
<1>5. ASSUME NEW j \in 1..Len(t), NEW k \in 1..Len(t), j # k, InLine(t[j]), InLine(t[k])
      PROVE  t[j].sock # t[k].sock
  <2>1. CASE j = Len(st)
    <3>1. t[j] = f /\ t[k] = st[k] /\ k \in 1..Len(st) /\ k # Len(st)
      BY <1>1, <1>5, <2>1
    <3> QED
      BY <1>5, <3>1
  <2>2. CASE k = Len(st)
    <3>1. t[k] = f /\ t[j] = st[j] /\ j \in 1..Len(st) /\ j # Len(st)
      BY <1>1, <1>5, <2>2
    <3> QED
      BY <1>5, <3>1
  <2>3. CASE j # Len(st) /\ k # Len(st)
    <3>1. t[k] = st[k] /\ t[j] = st[j] /\ j \in 1..Len(st) /\ k \in 1..Len(st)
      BY <1>1, <1>5, <2>3
    <3> QED
      BY <1>5, <3>1 DEF Shape
  <2> QED
    BY <2>1, <2>2, <2>3
<1>6. ASSUME ~w, NEW j \in 1..Len(t), NEW k \in 1..Len(t), t[k].kind = "close", InLine(t[j])
      PROVE  t[j].sock # t[k].sock
  <2>1. n = 0 /\ k # Len(st) /\ Len(st) = 1
    BY <1>1, <1>6 DEF Shape
  <2> QED
    BY <1>1, <1>6, <2>1
<1> QED
  BY <1>3, <1>4, <1>5, <1>6 DEF Shape, t

(* The top call returns.                                                      *)
LEMMA ShapePopped ==
    ASSUME NEW st \in Seq(Frame), st # <<>>, NEW n \in Nat, NEW w \in BOOLEAN, Shape(st, n, w)
    PROVE  Shape(SubSeq(st, 1, Len(st) - 1), n, w)
<1> DEFINE t == SubSeq(st, 1, Len(st) - 1)
<1>1. /\ t \in Seq(Frame) /\ Len(st) \in Nat /\ Len(st) >= 1 /\ Len(t) = Len(st) - 1
      /\ \A k \in 1..(Len(st) - 1) : t[k] = st[k]
  BY TopPopped
<1> HIDE DEF t
<1>2. \A k \in 1..Len(t) : k \in 1..Len(st) /\ t[k] = st[k]
  BY <1>1
<1> HIDE <1>1
<1> QED
  BY <1>2 DEF Shape, t

(* sock_close hands out the rest of the buffer.                               *)
LEMMA ShapeClosing ==
    ASSUME NEW st \in Seq(Frame), NEW f \in Frame, NEW n \in Nat, NEW w \in BOOLEAN, Shape(st, n, w),
           f.kind = "close", ~InLine(f),
           ~w => \A k \in 1..Len(st) : InLine(st[k]) => st[k].sock # f.sock
    PROVE  Shape(Append(st, f), n, w)
<1> DEFINE t == Append(st, f)
<1>1. /\ t \in Seq(Frame) /\ Len(st) \in Nat /\ Len(t) = Len(st) + 1
      /\ t[Len(st) + 1] = f
      /\ \A k \in 1..Len(st) : t[k] = st[k]
  BY Pushed
<1> HIDE DEF t
<1>2. \A k \in 1..Len(t) : \/ k \in 1..Len(st) /\ t[k] = st[k]
                           \/ k = Len(st) + 1 /\ t[k] = f
  BY <1>1
<1>3. n = 0 => \A k \in 1..Len(t) : k # 1 => t[k].kind = "close"
  BY <1>2 DEF Shape
<1>4. ASSUME NEW j \in 1..Len(t), NEW k \in 1..Len(t), j < k, t[k].kind = "poll"
      PROVE  t[j].pc = "wait" \/ InLine(t[j])
  <2>1. k \in 1..Len(st) /\ t[k] = st[k]
    BY <1>2, <1>4
  <2>2. j \in 1..Len(st) /\ t[j] = st[j]
    BY <1>1, <1>2, <1>4, <2>1
  <2> QED
    BY <1>4, <2>1, <2>2 DEF Shape
<1>5. ASSUME NEW j \in 1..Len(t), NEW k \in 1..Len(t), j # k, InLine(t[j]), InLine(t[k])
      PROVE  t[j].sock # t[k].sock
  <2>1. j \in 1..Len(st) /\ t[j] = st[j] /\ k \in 1..Len(st) /\ t[k] = st[k]
    BY <1>2, <1>5
  <2> QED
    BY <1>5, <2>1 DEF Shape
<1>6. ASSUME ~w, NEW j \in 1..Len(t), NEW k \in 1..Len(t), t[k].kind = "close", InLine(t[j])
      PROVE  t[j].sock # t[k].sock
  <2>1. j \in 1..Len(st) /\ t[j] = st[j]
    BY <1>2, <1>6
  <2>2. CASE k \in 1..Len(st) /\ t[k] = st[k]
    BY <1>6, <2>1, <2>2 DEF Shape
  <2>3. CASE t[k] = f
    BY <1>6, <2>1, <2>3
  <2> QED
    BY <1>2, <2>2, <2>3
<1> QED
  BY <1>3, <1>4, <1>5, <1>6 DEF Shape, t

(* sock_poll is entered: from the main loop, or where the outer call waits or *)
(* delivers a line.                                                           *)
LEMMA ShapePolling ==
    ASSUME NEW st \in Seq(Frame), NEW f \in Frame, NEW n \in Nat, NEW w \in BOOLEAN,
           f.kind = "poll", ~InLine(f),
           \/ st = <<>>
           \/ n # 0 /\ w /\ Len(st) = 1 /\ (st[1].pc = "wait" \/ InLine(st[1])),
           ~w => n = 0
    PROVE  Shape(Append(st, f), n, w)
<1> DEFINE t == Append(st, f)
<1>1. /\ t \in Seq(Frame) /\ Len(st) \in Nat /\ Len(t) = Len(st) + 1
      /\ t[Len(st) + 1] = f
      /\ \A k \in 1..Len(st) : t[k] = st[k]
  BY Pushed
<1> HIDE DEF t
<1>2. CASE st = <<>>
  <2>1. \A k \in 1..Len(t) : k = 1 /\ t[k] = f
    BY <1>1, <1>2
  <2> QED
    BY <2>1 DEF Shape, t
<1>3. CASE n # 0 /\ w /\ Len(st) = 1 /\ (st[1].pc = "wait" \/ InLine(st[1]))
  <2>1. \A k \in 1..Len(t) : (k = 1 /\ t[k] = st[1]) \/ (k = 2 /\ t[k] = f)
    BY <1>1, <1>3
  <2>2. \A j, k \in 1..Len(t) : j < k => j = 1
    BY <2>1
  <2> QED
    BY <1>3, <2>1, <2>2 DEF Shape, t
<1> QED
  BY <1>2, <1>3

(* Who has been told: while a walk's call between two callbacks goes on, and  *)
(* when a call is added.                                                      *)
LEMMA ToldReplaced ==
    ASSUME NEW st \in Seq(Frame), st # <<>>, NEW f \in Frame, NEW s, NEW hd, NEW fl,
           Told(s, hd, fl, st),
           \/ st[Len(st)].kind = "poll" /\ st[Len(st)].pc # "callback"
           \/ /\ st[Len(st)].kind = "poll" /\ st[Len(st)].then \notin {"connected", "close"}
           \/ st[Len(st)].kind = "poll" /\ st[Len(st)].sock # s
    PROVE  Told(s, hd, fl, SetTop(st, f))
<1> DEFINE t == SetTop(st, f)
<1>1. /\ Len(st) \in Nat /\ Len(st) >= 1 /\ Len(t) = Len(st)
      /\ \A k \in 1..Len(st) : k # Len(st) => t[k] = st[k]
  BY TopReplaced
<1> HIDE DEF t
<1>2. Connecting(st, s) => Connecting(t, s)
  BY <1>1 DEF Connecting
<1>3. Ending(st, s) => Ending(t, s)
  BY <1>1 DEF Ending
<1> QED
  BY <1>2, <1>3 DEF Told, t

LEMMA ToldPushed ==
    ASSUME NEW st \in Seq(Frame), NEW f \in Frame, NEW s, NEW hd, NEW fl, Told(s, hd, fl, st)
    PROVE  Told(s, hd, fl, Append(st, f))
<1> DEFINE t == Append(st, f)
<1>1. /\ Len(st) \in Nat /\ Len(t) = Len(st) + 1
      /\ \A k \in 1..Len(st) : t[k] = st[k]
  BY Pushed
<1> HIDE DEF t
<1>2. \A k \in 1..Len(st) : k \in 1..Len(t) /\ t[k] = st[k]
  BY <1>1
<1>3. Connecting(st, s) => Connecting(t, s)
  BY <1>2 DEF Connecting
<1>4. Ending(st, s) => Ending(t, s)
  BY <1>2 DEF Ending
<1> QED
  BY <1>3, <1>4 DEF Told, t

(* A call returns that is no business of s.                                   *)
LEMMA ToldPopped ==
    ASSUME NEW st \in Seq(Frame), st # <<>>, NEW s, NEW hd, NEW fl, Told(s, hd, fl, st),
           \/ st[Len(st)].kind = "poll" /\ st[Len(st)].pc # "callback"
           \/ st[Len(st)].sock # s
    PROVE  Told(s, hd, fl, SubSeq(st, 1, Len(st) - 1))
<1> DEFINE t == SubSeq(st, 1, Len(st) - 1)
<1>1. /\ Len(st) \in Nat /\ Len(st) >= 1 /\ Len(t) = Len(st) - 1
      /\ \A k \in 1..(Len(st) - 1) : t[k] = st[k]
  BY TopPopped
<1> HIDE DEF t
<1>2. \A k \in 1..Len(st) : k # Len(st) => k \in 1..Len(t) /\ t[k] = st[k]
  BY <1>1
<1>3. Connecting(st, s) => Connecting(t, s)
  BY <1>2 DEF Connecting
<1>4. Ending(st, s) => Ending(t, s)
  BY <1>2 DEF Ending
<1> QED
  BY <1>3, <1>4 DEF Told, t

(* Frames are records.                                                        *)
LEMMA FrameFields ==
    ASSUME NEW f \in Frame
    PROVE  /\ f.kind \in {"poll", "close"} /\ f.pc \in {"wait", "visit", "write", "callback"}
           /\ f.i \in Nat /\ f.sock \in Sock
           /\ f.ev \in {"", "CONNECT", "ERROR", "HANGUP", "ACCEPT", "LINE", "WRITE", "FLUSH"}
           /\ f.then \in {"", "next", "close", "connected", "hangup", "line", "closed"}
           /\ f.ev_write \in BOOLEAN
BY DEF Frame

LEMMA VisitFrame ==
    ASSUME NEW f \in Frame, NEW i \in Nat
    PROVE  /\ Visit(f, i) \in Frame /\ Visit(f, i).kind = f.kind /\ Visit(f, i).pc = "visit" /\ Visit(f, i).i = i
           /\ Next_(f) \in Frame /\ Next_(f).kind = f.kind /\ Next_(f).pc = "visit" /\ Next_(f).i = f.i + 1
<1>1. /\ Visit(f, i) \in Frame /\ Visit(f, i).kind = f.kind
      /\ Visit(f, i).pc = "visit" /\ Visit(f, i).i = i
  BY DEF Frame, Visit
<1>2. f.i \in Nat
  BY DEF Frame
<1> DEFINE n == f.i + 1
<1>3. n \in Nat
  BY <1>2
<1> HIDE DEF n
<1>4. Visit(f, n) \in Frame /\ Visit(f, n).kind = f.kind /\ Visit(f, n).pc = "visit" /\ Visit(f, n).i = n
  BY <1>3 DEF Frame, Visit
<1> QED
  BY <1>1, <1>4 DEF Next_, n

Events == {"CONNECT", "ERROR", "HANGUP", "ACCEPT", "LINE", "WRITE", "FLUSH"}
Afters == {"next", "close", "connected", "hangup", "line"}

LEMMA CallingFrame ==
    ASSUME NEW f \in Frame, NEW s \in Sock, NEW e \in Events, NEW t \in Afters
    PROVE  /\ Calling(f, s, e, t) \in Frame
           /\ Calling(f, s, e, t).kind = f.kind /\ Calling(f, s, e, t).i = f.i
           /\ Calling(f, s, e, t).pc = "callback" /\ Calling(f, s, e, t).sock = s
           /\ Calling(f, s, e, t).ev = e /\ Calling(f, s, e, t).then = t
BY DEF Frame, Calling, Events, Afters

LEMMA DeliverFrame ==
    ASSUME NEW f \in Frame, NEW b \in BOOLEAN
    PROVE  LET g == [f EXCEPT !.ev_write = b]
           IN  /\ g \in Frame /\ g.kind = f.kind /\ g.pc = f.pc /\ g.i = f.i /\ g.sock = f.sock
               /\ g.ev = f.ev /\ g.then = f.then
BY DEF Frame

(* One step of the sweep, and what it keeps: every socket at most once, only  *)
(* sockets of the list, and all of them that are no zombies.                  *)
SweepStep(s) ==
    IF s.i > Len(s.l) THEN s
    ELSE IF flags[s.l[s.i]] = "zombie" THEN [s EXCEPT !.l = list_del_at(s.l, s.i)]
    ELSE [s EXCEPT !.i = @ + 1]

Keeps(l, m) ==
    /\ \A j, k \in 1..Len(m) : m[j] = m[k] => j = k
    /\ \A k \in 1..Len(m) : \E j \in 1..Len(l) : l[j] = m[k]
    /\ \A j \in 1..Len(l) : flags[l[j]] = "zombie" \/ \E k \in 1..Len(m) : m[k] = l[j]

LEMMA SweepStepKeeps ==
    ASSUME NEW l \in Seq(Sock), NEW s \in [i : Nat, l : Seq(Sock)], s.i >= 1, Keeps(l, s.l)
    PROVE  SweepStep(s).i >= 1 /\ Keeps(l, SweepStep(s).l)
<1>1. s.i \in Nat /\ s.l \in Seq(Sock)
  OBVIOUS
<1>2. CASE s.i > Len(s.l)
  BY <1>2 DEF SweepStep
<1>3. CASE ~(s.i > Len(s.l)) /\ flags[s.l[s.i]] # "zombie"
  <2>1. SweepStep(s) = [s EXCEPT !.i = @ + 1]
    BY <1>3 DEF SweepStep
  <2>2. SweepStep(s).i = s.i + 1 /\ SweepStep(s).l = s.l
    BY <2>1
  <2> QED
    BY <1>1, <2>2
<1>4. CASE ~(s.i > Len(s.l)) /\ flags[s.l[s.i]] = "zombie"
  <2> DEFINE a == s.l
             d == s.i
             b == list_del_at(a, d)
  <2>1. SweepStep(s) = [s EXCEPT !.l = b]
    BY <1>4 DEF SweepStep
  <2>2. SweepStep(s).i = s.i /\ SweepStep(s).l = b
    BY <2>1
  <2>3. a \in Seq(Sock) /\ d \in 1..Len(a) /\ Len(a) \in Nat /\ flags[a[d]] = "zombie" /\ Keeps(l, a)
    BY <1>1, <1>4
  <2>4. b = SwapLast(a, d)
    BY DEF list_del_at, SwapLast
  <2> HIDE DEF a, d, b
  <2>5. /\ Len(b) = Len(a) - 1
        /\ \A j \in 1..(Len(a) - 1) : b[j] = IF j = d THEN a[Len(a)] ELSE a[j]
    BY <2>3, <2>4, SwapLastType
  <2>6. PICK n \in Nat \ {0} : n = Len(a)
    BY <2>3
  <2>7. d \in 1..n /\ Len(b) = n - 1 /\ n \in 1..n
    BY <2>3, <2>5, <2>6
  <2>8. \A k \in 1..(n - 1) : k \in 1..n /\ k # n
    BY <2>6
  <2>9. \A k \in 1..n : k = n \/ k \in 1..(n - 1)
    BY <2>6
  <2>10. \A k \in 1..(n - 1) : b[k] = IF k = d THEN a[n] ELSE a[k]
    BY <2>5, <2>6
  <2>11. \A j, k \in 1..n : a[j] = a[k] => j = k
    BY <2>3, <2>6 DEF Keeps
  <2>12. \A j, k \in 1..(n - 1) : b[j] = b[k] => j = k
    BY <2>7, <2>8, <2>10, <2>11
  <2>13. \A k \in 1..(n - 1) : \E j \in 1..Len(l) : l[j] = b[k]
    <3> TAKE k \in 1..(n - 1)
    <3>1. PICK m \in 1..n : b[k] = a[m]
      BY <2>7, <2>8, <2>10
    <3> QED
      BY <2>3, <2>6, <3>1 DEF Keeps
  <2>14. \A j \in 1..Len(l) : flags[l[j]] = "zombie" \/ \E k \in 1..(n - 1) : b[k] = l[j]
    <3> SUFFICES ASSUME NEW j \in 1..Len(l), flags[l[j]] # "zombie"
                 PROVE  \E k \in 1..(n - 1) : b[k] = l[j]
      OBVIOUS
    <3>1. PICK m \in 1..n : a[m] = l[j]
      BY <2>3, <2>6 DEF Keeps
    <3>2. m # d
      BY <2>3, <3>1
    <3>3. CASE m = n
      <4>1. d \in 1..(n - 1)
        BY <2>7, <2>9, <3>2, <3>3
      <4> QED
        BY <2>10, <3>1, <3>3, <4>1
    <3>4. CASE m # n
      <4>1. m \in 1..(n - 1)
        BY <2>9, <3>4
      <4> QED
        BY <2>10, <3>1, <3>2, <4>1
    <3> QED
      BY <3>3, <3>4
  <2>15. Keeps(l, b)
    BY <2>7, <2>12, <2>13, <2>14 DEF Keeps
  <2> QED
    BY <2>2, <2>15
<1> QED
  BY <1>2, <1>3, <1>4

(* sock_poll's sweep of a list that has every socket once.                    *)
LEMMA SweepKeeps ==
    ASSUME NEW l \in Seq(Sock), \A j, k \in 1..Len(l) : l[j] = l[k] => j = k
    PROVE  Sweep(l) \in Seq(Sock) /\ Keeps(l, Sweep(l))
<1> DEFINE V == [i : Nat, l : Seq(Sock)]
           a == [i |-> 1, l |-> l]
           step == [s \in V |-> SweepStep(s)]
           sweep == CHOOSE h : h = [n \in Nat |-> IF n = 0 THEN a ELSE step[h[n - 1]]]
<1>1. Sweep(l) = sweep[Len(l)].l
  BY DEF Sweep, SweepStep
<1>2. \A s \in V : SweepStep(s) \in V
  <2> TAKE s \in V
  <2>1. CASE s.i \in 1..Len(s.l)
    <3>1. list_del_at(s.l, s.i) = SwapLast(s.l, s.i)
      BY DEF list_del_at, SwapLast
    <3>2. list_del_at(s.l, s.i) \in Seq(Sock)
      BY <2>1, <3>1, SwapLastType
    <3> QED
      BY <2>1, <3>2 DEF SweepStep
  <2>2. CASE s.i = 0
    <3>1. list_del_at(s.l, s.i) \in Seq(Sock)
      BY <2>2 DEF list_del_at
    <3> QED
      BY <2>2, <3>1 DEF SweepStep
  <2>3. CASE s.i > Len(s.l)
    BY <2>3 DEF SweepStep
  <2> QED
    BY <2>1, <2>2, <2>3
<1>3. a \in V /\ step \in [V -> V]
  <2> HIDE DEF V
  <2>1. step \in [V -> V]
    BY <1>2
  <2> QED
    BY <2>1 DEF V
<1>4. sweep \in [Nat -> V] /\ sweep[0] = a /\ \A n \in Nat : sweep[n + 1] = step[sweep[n]]
  <2>1. sweep = Recursive(a, step)
    BY DEF Recursive
  <2>2. a \in V
    BY <1>3
  <2>3. step \in [V -> V]
    BY <1>3
  <2> HIDE DEF V, a, step, sweep
  <2>4. Follows(sweep, V, a, step)
    BY <2>1, <2>2, <2>3, Unfolds
  <2> QED
    BY <2>4 DEF Follows
<1>5. \A n \in Nat : sweep[n + 1] = SweepStep(sweep[n])
  <2> HIDE DEF V, sweep
  <2> QED
    BY <1>4
<1> DEFINE S == {n \in Nat : sweep[n].i >= 1 /\ Keeps(l, sweep[n].l)}
<1>6. 0 \in S
  <2> HIDE DEF sweep
  <2>1. sweep[0].i = 1 /\ sweep[0].l = l
    BY <1>4
  <2> QED
    BY <2>1 DEF Keeps
<1>7. ASSUME NEW n \in S PROVE n + 1 \in S
  <2> HIDE DEF sweep
  <2>1. n \in Nat /\ n + 1 \in Nat /\ sweep[n] \in V /\ sweep[n].i >= 1 /\ Keeps(l, sweep[n].l)
    BY <1>4
  <2>2. SweepStep(sweep[n]).i >= 1 /\ Keeps(l, SweepStep(sweep[n]).l)
    BY <2>1, SweepStepKeeps
  <2> QED
    BY <1>5, <2>1, <2>2
<1> HIDE DEF S, sweep
<1>8. S = Nat
  BY <1>6, <1>7, Induction DEF S
<1>9. Len(l) \in Nat /\ Len(l) \in S
  BY <1>8
<1>10. sweep[Len(l)] \in V
  BY <1>4, <1>9
<1> QED
  BY <1>1, <1>9, <1>10 DEF S

\* What the actions need to know of the state.
LEMMA SockFacts ==
    ASSUME SockInv
    PROVE  /\ wild \in BOOLEAN /\ sock_list \in Seq(Sock) /\ Len(sock_list) \in Nat
           /\ pollfds \in Seq([fd : Fds \cup {0}, out : BOOLEAN])
           /\ last_numsocks \in Nat
           /\ stack \in Seq(Frame) /\ Len(stack) \in Nat /\ nested \in Nat
           /\ stack # <<>> => /\ Len(stack) >= 1 /\ Top = stack[Len(stack)]
                              /\ Top \in Frame /\ Top.sock \in Sock /\ Top.i \in Nat
                              /\ FrameFine(Top, flags, buf, heard)
           /\ nested \in 0..MaxNested
<1>1. SockTypes /\ FramesFine(stack, flags, buf, heard)
  BY DEF SockInv
<1>2. /\ wild \in BOOLEAN /\ sock_list \in Seq(Sock) /\ last_numsocks \in Nat /\ nested \in 0..MaxNested
      /\ pollfds \in Seq([fd : Fds \cup {0}, out : BOOLEAN]) /\ stack \in Seq(Frame)
  BY <1>1 DEF SockTypes
<1>3. Len(sock_list) \in Nat /\ Len(stack) \in Nat /\ nested \in Nat
  BY <1>2, SockAssumption
<1>4. ASSUME stack # <<>>
      PROVE  /\ Len(stack) >= 1 /\ Top = stack[Len(stack)]
             /\ Top \in Frame /\ Top.sock \in Sock /\ Top.i \in Nat
             /\ FrameFine(Top, flags, buf, heard)
  <2>1. Len(stack) >= 1 /\ Len(stack) \in 1..Len(stack)
    BY <1>2, <1>3, <1>4
  <2>2. Top = stack[Len(stack)] /\ Top \in Frame
    BY <1>2, <2>1 DEF Top
  <2>3. Top.sock \in Sock /\ Top.i \in Nat
    BY <2>2, FrameFields
  <2>4. FrameFine(Top, flags, buf, heard)
    BY <1>1, <2>1, <2>2 DEF FramesFine
  <2> QED
    BY <2>1, <2>2, <2>3, <2>4
<1> QED
  BY <1>2, <1>3, <1>4

(* A poll that is not in a callback is alone on the stack but for calls that  *)
(* wait or have a line in hand: nobody is being told of a connection or an end. *)
LEMMA WalkFacts ==
    ASSUME SockInv, InPc("wait") \/ InPc("visit") \/ InPc("write")
    PROVE  /\ stack # <<>> /\ Top.kind = "poll" /\ Top.pc # "callback" /\ Top.i >= 1
           /\ \A k \in 1..Len(stack) : k # Len(stack) => stack[k].pc = "wait" \/ InLine(stack[k])
           /\ \A s \in Sock : /\ ~Connecting(stack, s) /\ ~Ending(stack, s)
                              /\ flags[s] = "connect" => heard[s].connect = 0
                              /\ flags[s] # "zombie" => heard[s].end = 0
<1>1. stack # <<>> /\ Top.pc \in {"wait", "visit", "write"}
  BY DEF InPc
<1>2. /\ Len(stack) \in Nat /\ Len(stack) >= 1 /\ Top = stack[Len(stack)] /\ Top \in Frame
      /\ FrameFine(Top, flags, buf, heard) /\ stack \in Seq(Frame)
  BY <1>1, SockFacts
<1>3. Top.kind = "poll" /\ Top.i >= 1
  BY <1>1, <1>2 DEF FrameFine, Frame
<1>4. ASSUME NEW k \in 1..Len(stack), k # Len(stack)
      PROVE  stack[k].pc = "wait" \/ InLine(stack[k])
  <2>1. Shape(stack, nested, wild)
    BY DEF SockInv
  <2>2. Len(stack) \in 1..Len(stack) /\ k < Len(stack)
    BY <1>2, <1>4
  <2> QED
    BY <1>2, <1>3, <2>1, <2>2 DEF Shape
<1>5. FramesFine(stack, flags, buf, heard)
  BY DEF SockInv
<1>6. \A k \in 1..Len(stack) : /\ stack[k].kind # "close"
                               /\ stack[k].pc = "callback" => stack[k].then = "line"
  <2> TAKE k \in 1..Len(stack)
  <2>1. CASE k = Len(stack)
    BY <1>1, <1>2, <1>3, <2>1
  <2>2. CASE k # Len(stack)
    BY <1>4, <1>5, <2>2 DEF FramesFine, FrameFine, InLine
  <2> QED
    BY <2>1, <2>2
<1>7. \A s \in Sock : ~Connecting(stack, s) /\ ~Ending(stack, s)
  BY <1>6 DEF Connecting, Ending
<1>8. \A s \in Sock : /\ flags[s] = "connect" => heard[s].connect = 0
                      /\ flags[s] # "zombie" => heard[s].end = 0
  <2> TAKE s \in Sock
  <2>1. Told(s, heard, flags, stack)
    BY DEF SockInv
  <2> QED
    BY <1>7, <2>1 DEF Told
<1> QED
  BY <1>1, <1>3, <1>4, <1>7, <1>8

(* The walk stands on a socket of the list and on its entry of the array.     *)
LEMMA HereFacts ==
    ASSUME SockInv, AtSock
    PROVE  /\ Here \in Sock /\ flags[Here] # "none"
           /\ Top.i \in 1..Len(sock_list) /\ Top.i \in 1..Len(pollfds) /\ Top.i \in Nat
           /\ pollfds[Top.i].out \in BOOLEAN
           /\ flags[Here] = "zombie" \/ fd[Here] = pollfds[Top.i].fd
<1>1. InPc("visit") /\ Top.i <= last_numsocks
  BY DEF AtSock
<1>2. stack # <<>> /\ Top.i >= 1
  BY <1>1, WalkFacts
<1>3. /\ Top.i \in Nat /\ sock_list \in Seq(Sock) /\ Len(sock_list) \in Nat /\ last_numsocks \in Nat
      /\ pollfds \in Seq([fd : Fds \cup {0}, out : BOOLEAN])
  BY <1>2, SockFacts
<1>4. ArrayFine(pollfds, last_numsocks, sock_list, flags, fd) /\ ListFine(sock_list, flags)
  BY DEF SockInv
<1>5. last_numsocks = Len(pollfds) /\ last_numsocks <= Len(sock_list)
  BY <1>4 DEF ArrayFine
<1>6. Top.i \in 1..last_numsocks /\ Top.i \in 1..Len(sock_list) /\ Top.i \in 1..Len(pollfds)
  BY <1>1, <1>2, <1>3, <1>5
<1>7. Here \in Sock /\ flags[Here] # "none"
  BY <1>3, <1>4, <1>6 DEF Here, ListFine
<1>8. pollfds[Top.i].out \in BOOLEAN
  <2> DEFINE P == [fd : Fds \cup {0}, out : BOOLEAN]
  <2>1. pollfds \in Seq(P)
    BY <1>3
  <2>2. \A p \in P : p.out \in BOOLEAN
    OBVIOUS
  <2> HIDE DEF P
  <2>3. pollfds[Top.i] \in P
    BY <1>6, <2>1
  <2> QED
    BY <2>2, <2>3
<1>9. flags[Here] = "zombie" \/ fd[Here] = pollfds[Top.i].fd
  BY <1>4, <1>6 DEF ArrayFine, Here
<1> QED
  BY <1>3, <1>6, <1>7, <1>8, <1>9

\* The record sets of the sockets, under a name.
Bufs == [lines : 0..MaxLines, part : BOOLEAN, used : Int]
Hears == [connect : Nat, end : Nat, closed : {"no", "owner", "SSL"}]

(* A poll goes on: its frame is replaced by f.                                *)
LEMMA PollGoesOn ==
    ASSUME SockInv, NEW f \in Frame, stack # <<>>, Top.kind = "poll", f.kind = "poll",
           stack' = SetTop(stack, f),
           UNCHANGED <<wild, sock_list, pollfds, last_numsocks, flags, fd, nested>>,
           send_queue' \in [Sock -> BOOLEAN], buf' \in [Sock -> Bufs], heard' \in [Sock -> Hears],
           InLine(f) => \A k \in 1..Len(stack) : k # Len(stack) /\ InLine(stack[k]) => stack[k].sock # f.sock,
           FrameFine(f, flags, buf', heard'),
           \A k \in 1..Len(stack) : k # Len(stack) => FrameFine(stack[k], flags, buf', heard'),
           \A s \in Sock : Told(s, heard', flags, SetTop(stack, f)),
           CountedRight(wild, buf', flags)
    PROVE  SockInv'
<1>1. /\ wild \in BOOLEAN /\ nested \in Nat /\ stack \in Seq(Frame)
      /\ Top = stack[Len(stack)] /\ Shape(stack, nested, wild)
  BY SockFacts DEF SockInv
<1>2. /\ SetTop(stack, f) \in Seq(Frame)
      /\ Len(stack) \in Nat /\ Len(stack) >= 1 /\ Len(SetTop(stack, f)) = Len(stack)
      /\ SetTop(stack, f)[Len(stack)] = f
      /\ \A k \in 1..Len(stack) : k # Len(stack) => SetTop(stack, f)[k] = stack[k]
  BY <1>1, TopReplaced
<1>3. Shape(SetTop(stack, f), nested, wild)
  BY <1>1, ShapeReplaced
<1>4. FramesFine(SetTop(stack, f), flags, buf', heard')
  BY <1>2 DEF FramesFine
<1>5. SockTypes'
  BY <1>2 DEF SockInv, SockTypes, Bufs, Hears
<1> QED
  BY <1>3, <1>4, <1>5 DEF SockInv

(* What a frame and an owner know does not change with the buffers and with   *)
(* what others hear.                                                          *)
LEMMA StillFine ==
    ASSUME NEW f, NEW fl, NEW bf, NEW hd, FrameFine(f, fl, bf, hd), NEW fl2, NEW bf2, NEW hd2,
           fl[f.sock] # "none" => fl2[f.sock] # "none",
           InLine(f) /\ bf[f.sock].lines >= 1 => bf2[f.sock].lines >= 1,
           \/ hd2[f.sock].end = hd[f.sock].end
           \/ hd2[f.sock].end = 1 /\ ~(f.pc = "callback" /\ f.then = "hangup"),
           hd[f.sock].closed # "no" => hd2[f.sock].closed # "no"
    PROVE  FrameFine(f, fl2, bf2, hd2)
BY DEF FrameFine, InLine

LEMMA StillTold ==
    ASSUME NEW s, NEW fl, NEW st, NEW hd, Told(s, hd, fl, st), NEW hd2, hd2[s] = hd[s]
    PROVE  Told(s, hd2, fl, st)
BY DEF Told

(* A poll goes on without a word to an owner and without touching a buffer.   *)
LEMMA PollGoesOnSilently ==
    ASSUME SockInv, NEW f \in Frame, stack # <<>>, Top.kind = "poll", f.kind = "poll", f.i >= 1,
           stack' = SetTop(stack, f),
           UNCHANGED <<wild, sock_list, pollfds, last_numsocks, flags, fd, buf, nested, heard>>,
           send_queue' \in [Sock -> BOOLEAN],
           ~InLine(f),
           f.pc \in {"callback", "write"} => flags[f.sock] # "none",
           f.pc = "callback" => /\ f.then \notin {"close", "line"} /\ f.ev # "LINE"
                                /\ f.then = "hangup" => heard[f.sock].end = 0,
           Top.pc # "callback" \/ Top.then \notin {"connected", "close"}
    PROVE  SockInv'
<1>1. buf' \in [Sock -> Bufs] /\ heard' \in [Sock -> Hears]
  BY DEF SockInv, SockTypes, Bufs, Hears
<1>2. FrameFine(f, flags, buf', heard')
  BY DEF FrameFine, Frame
<1>3. \A k \in 1..Len(stack) : FrameFine(stack[k], flags, buf', heard')
  BY DEF SockInv, FramesFine
<1>4. \A s \in Sock : Told(s, heard', flags, SetTop(stack, f))
  <2>1. stack \in Seq(Frame) /\ Top = stack[Len(stack)] /\ \A s \in Sock : Told(s, heard, flags, stack)
    BY SockFacts DEF SockInv
  <2>2. heard' = heard
    OBVIOUS
  <2> QED
    BY <2>1, <2>2, ToldReplaced
<1>5. CountedRight(wild, buf', flags)
  BY DEF SockInv
<1> QED
  BY <1>1, <1>2, <1>3, <1>4, <1>5, PollGoesOn

(* The walk goes on with a socket's next part or with the next socket.        *)
LEMMA ProceedInv ==
    ASSUME SockInv, UNCHANGED <<wild, flags, fd, buf>>,
           \/ (InPc("visit") \/ InPc("write")) /\ Proceed("visit", Top.i + 1)
           \/ AtSock /\ Proceed("write", Top.i)
    PROVE  SockInv'
<1>1. InPc("visit") \/ InPc("write")
  BY DEF AtSock
<1>2. stack # <<>> /\ Top.kind = "poll" /\ Top.pc # "callback" /\ Top.i >= 1 /\ Top \in Frame /\ Top.i \in Nat
  BY <1>1, WalkFacts, SockFacts
<1>3. UNCHANGED <<sock_list, pollfds, last_numsocks, send_queue, nested, heard>> /\ send_queue' \in [Sock -> BOOLEAN]
  BY DEF Proceed, SockInv, SockTypes
<1>4. CASE Proceed("visit", Top.i + 1)
  <2>1. PICK f : f = Visit(Top, Top.i + 1)
    OBVIOUS
  <2>2. f \in Frame /\ f.kind = "poll" /\ f.pc = "visit" /\ f.i = Top.i + 1
    BY <1>2, <2>1, VisitFrame
  <2>3. stack' = SetTop(stack, f)
    BY <1>4, <2>1 DEF Proceed
  <2>4. f.i >= 1 /\ ~InLine(f)
    BY <1>2, <2>2 DEF InLine
  <2> HIDE <2>1
  <2> QED
    BY <1>2, <1>3, <2>2, <2>3, <2>4, PollGoesOnSilently
<1>5. CASE AtSock /\ Proceed("write", Top.i)
  <2>1. Here \in Sock /\ flags[Here] # "none" /\ pollfds[Top.i].out \in BOOLEAN
    BY <1>5, HereFacts
  <2>2. PICK f : f = [Top EXCEPT !.pc = "write", !.sock = Here, !.ev_write = pollfds[Top.i].out]
    OBVIOUS
  <2>3. f \in Frame /\ f.kind = Top.kind /\ f.pc = "write" /\ f.i = Top.i /\ f.sock = Here
    BY <1>2, <2>1, <2>2 DEF Frame
  <2>4. stack' = SetTop(stack, f)
    BY <1>5, <2>2 DEF Proceed
  <2>5. ~InLine(f)
    BY <2>3 DEF InLine
  <2> HIDE <2>2
  <2> QED
    BY <1>2, <1>3, <2>1, <2>3, <2>4, <2>5, PollGoesOnSilently
<1> QED
  BY <1>4, <1>5

(* The frame of a callback.                                                   *)
LEMMA DeliveredFrame ==
    ASSUME SockInv, AtSock,
           NEW e \in Events, NEW t \in Afters, Deliver(e, t)
    PROVE  \E f \in Frame : /\ stack' = SetTop(stack, f)
                            /\ f.kind = "poll" /\ f.i >= 1 /\ f.pc = "callback"
                            /\ f.sock = Here /\ f.ev = e /\ f.then = t
<1>1. stack # <<>> /\ Top.kind = "poll" /\ Top.i >= 1 /\ Top \in Frame
  BY WalkFacts, SockFacts DEF AtSock
<1>2. Here \in Sock /\ pollfds[Top.i].out \in BOOLEAN
  BY HereFacts
<1>3. PICK g : g = Calling(Top, Here, e, t)
  OBVIOUS
<1>4. /\ g \in Frame /\ g.kind = Top.kind /\ g.i = Top.i
      /\ g.pc = "callback" /\ g.sock = Here /\ g.ev = e /\ g.then = t
  BY <1>1, <1>2, <1>3, CallingFrame
<1>5. PICK b \in BOOLEAN : b = pollfds[Top.i].out
  BY <1>2
<1>6. PICK f : f = [g EXCEPT !.ev_write = b]
  OBVIOUS
<1>7. f \in Frame /\ f.kind = g.kind /\ f.pc = g.pc /\ f.i = g.i /\ f.sock = g.sock /\ f.ev = g.ev /\ f.then = g.then
  BY <1>4, <1>6, DeliverFrame
<1>8. stack' = SetTop(stack, f)
  BY <1>3, <1>5, <1>6 DEF Deliver
<1> QED
  BY <1>1, <1>4, <1>7, <1>8

(* A connection is accepted, or the rest of a buffer is handed out before the *)
(* hangup is announced.                                                       *)
LEMMA DeliverSilentInv ==
    ASSUME SockInv, AtSock, UNCHANGED <<wild, buf>>,
           Deliver("ACCEPT", "next") \/ (Deliver("FLUSH", "hangup") /\ flags[Here] # "zombie")
    PROVE  SockInv'
<1>1. stack # <<>> /\ Top.kind = "poll" /\ Top.pc # "callback" /\ Here \in Sock /\ flags[Here] # "none"
  BY WalkFacts, HereFacts DEF AtSock
<1>2. flags[Here] # "zombie" => heard[Here].end = 0
  BY <1>1, WalkFacts DEF AtSock
<1>3. UNCHANGED <<sock_list, pollfds, last_numsocks, flags, fd, send_queue, nested, heard>>
  BY DEF Deliver
<1>4. send_queue' \in [Sock -> BOOLEAN]
  BY <1>3 DEF SockInv, SockTypes
<1>5. \E f \in Frame : /\ stack' = SetTop(stack, f)
                       /\ f.kind = "poll" /\ f.i >= 1 /\ f.pc = "callback" /\ f.sock = Here
                       /\ f.ev # "LINE" /\ f.then \in {"next", "hangup"}
                       /\ f.then = "hangup" => flags[Here] # "zombie"
  <2>1. CASE Deliver("ACCEPT", "next")
    BY <2>1, DeliveredFrame DEF Events, Afters
  <2>2. CASE Deliver("FLUSH", "hangup") /\ flags[Here] # "zombie"
    BY <2>2, DeliveredFrame DEF Events, Afters
  <2> QED
    BY <2>1, <2>2
<1>6. PICK f \in Frame : /\ stack' = SetTop(stack, f)
                         /\ f.kind = "poll" /\ f.i >= 1 /\ f.pc = "callback" /\ f.sock = Here
                         /\ f.ev # "LINE" /\ f.then \in {"next", "hangup"}
                         /\ f.then = "hangup" => flags[Here] # "zombie"
  BY <1>5
<1>7. ~InLine(f)
  BY <1>6 DEF InLine
<1> QED
  BY <1>1, <1>2, <1>3, <1>4, <1>6, <1>7, PollGoesOnSilently

(* An owner is told of a connection or of an end.                             *)
LEMMA DeliverToldInv ==
    ASSUME SockInv, AtSock, UNCHANGED <<wild, buf>>,
           NEW e \in {"CONNECT", "ERROR", "HANGUP"}, NEW t \in {"connected", "close"},
           e = "CONNECT" <=> t = "connected",
           e = "CONNECT" => flags[Here] = "connect",
           flags[Here] # "zombie",
           Deliver(e, t)
    PROVE  SockInv'
<1>1. /\ stack # <<>> /\ Top.kind = "poll" /\ Top.pc # "callback" /\ Here \in Sock /\ flags[Here] # "none"
      /\ heard[Here].end = 0
      /\ flags[Here] = "connect" => heard[Here].connect = 0
      /\ \A k \in 1..Len(stack) : k # Len(stack) => stack[k].pc = "wait" \/ InLine(stack[k])
  BY WalkFacts, HereFacts DEF AtSock
<1>2. UNCHANGED <<sock_list, pollfds, last_numsocks, flags, fd, send_queue, nested>>
  BY DEF Deliver
<1>3. PICK f \in Frame : /\ stack' = SetTop(stack, f)
                         /\ f.kind = "poll" /\ f.i >= 1 /\ f.pc = "callback"
                         /\ f.sock = Here /\ f.ev = e /\ f.then = t
  <2>1. e \in Events /\ t \in Afters
    BY DEF Events, Afters
  <2> QED
    BY <2>1, DeliveredFrame
<1>4. heard \in [Sock -> Hears] /\ buf' \in [Sock -> Bufs] /\ send_queue' \in [Sock -> BOOLEAN]
  BY <1>2 DEF SockInv, SockTypes, Bufs, Hears
<1>5. \A s \in Sock : s # Here => heard'[s] = heard[s]
  <2>1. heard' = Tell(Here, "connect") \/ heard' = Tell(Here, "end")
    BY DEF Deliver
  <2> QED
    BY <1>4, <2>1 DEF Tell
<1>6. /\ heard' \in [Sock -> Hears]
      /\ heard'[Here].connect = IF e = "CONNECT" THEN 1 ELSE heard[Here].connect
      /\ heard'[Here].end = IF e = "CONNECT" THEN 0 ELSE 1
      /\ heard'[Here].closed = heard[Here].closed
  <2>1. PICK h \in Hears : h = heard[Here]
    BY <1>1, <1>4
  <2>2. h.connect \in Nat /\ h.end = 0
    BY <1>1, <2>1 DEF Hears
  <2>3. CASE e = "CONNECT"
    <3>1. heard' = [heard EXCEPT ![Here].connect = @ + 1]
      BY <2>3 DEF Deliver, Tell
    <3>2. heard' = [heard EXCEPT ![Here] = [h EXCEPT !.connect = @ + 1]]
      BY <1>1, <1>4, <2>1, <3>1
    <3>3. PICK g : g = [h EXCEPT !.connect = @ + 1]
      OBVIOUS
    <3>4. g \in Hears /\ g.connect = h.connect + 1 /\ g.end = h.end /\ g.closed = h.closed
      BY <3>3 DEF Hears
    <3>5. heard' \in [Sock -> Hears] /\ heard'[Here] = g
      BY <1>1, <1>4, <3>2, <3>3, <3>4
    <3> QED
      BY <1>1, <2>1, <2>2, <2>3, <3>4, <3>5
  <2>4. CASE e # "CONNECT"
    <3>1. heard' = [heard EXCEPT ![Here].end = @ + 1]
      BY <2>4 DEF Deliver, Tell
    <3>2. heard' = [heard EXCEPT ![Here] = [h EXCEPT !.end = @ + 1]]
      BY <1>1, <1>4, <2>1, <3>1
    <3>3. PICK g : g = [h EXCEPT !.end = @ + 1]
      OBVIOUS
    <3>4. g \in Hears /\ g.connect = h.connect /\ g.end = h.end + 1 /\ g.closed = h.closed
      BY <3>3 DEF Hears
    <3>5. heard' \in [Sock -> Hears] /\ heard'[Here] = g
      BY <1>1, <1>4, <3>2, <3>3, <3>4
    <3> QED
      BY <2>1, <2>2, <2>4, <3>4, <3>5
  <2> QED
    BY <2>3, <2>4
<1>7. FrameFine(f, flags, buf', heard')
  BY <1>1, <1>3, <1>6 DEF FrameFine
<1>8. ASSUME NEW k \in 1..Len(stack), k # Len(stack)
      PROVE  FrameFine(stack[k], flags, buf', heard')
  <2>1. FrameFine(stack[k], flags, buf, heard) /\ stack[k] \in Frame
    BY SockFacts DEF SockInv, FramesFine
  <2>2. stack[k].sock \in Sock /\ ~(stack[k].pc = "callback" /\ stack[k].then = "hangup")
    BY <1>1, <1>8, <2>1, FrameFields DEF InLine
  <2>3. \/ heard'[stack[k].sock].end = heard[stack[k].sock].end
        \/ heard'[stack[k].sock].end = 1
    BY <1>1, <1>5, <1>6, <2>2
  <2>4. heard'[stack[k].sock].closed = heard[stack[k].sock].closed
    BY <1>5, <1>6, <2>2
  <2> QED
    BY <2>1, <2>2, <2>3, <2>4, StillFine
<1>9. ASSUME NEW s \in Sock PROVE Told(s, heard', flags, SetTop(stack, f))
  <2>1. stack \in Seq(Frame) /\ Top = stack[Len(stack)] /\ Told(s, heard, flags, stack)
    BY <1>1, SockFacts DEF SockInv
  <2>2. CASE s # Here
    <3>1. Told(s, heard, flags, SetTop(stack, f))
      BY <1>1, <2>1, ToldReplaced
    <3> QED
      BY <1>5, <2>2, <3>1, StillTold
  <2>3. CASE s = Here
    <3>1. /\ Len(stack) \in Nat /\ Len(stack) >= 1 /\ Len(SetTop(stack, f)) = Len(stack)
          /\ SetTop(stack, f)[Len(stack)] = f
      BY <1>1, <2>1, TopReplaced
    <3>2. t = "connected" => Connecting(SetTop(stack, f), s)
      BY <1>3, <2>3, <3>1 DEF Connecting
    <3>3. t = "close" => Ending(SetTop(stack, f), s)
      BY <1>3, <2>3, <3>1 DEF Ending
    <3>4. heard[s].connect \in 0..1 /\ (heard[s].connect = 1 /\ flags[s] = "connect" => FALSE)
      BY <1>1, <2>1, <2>3 DEF Told
    <3> QED
      BY <1>1, <1>6, <2>3, <3>2, <3>3, <3>4 DEF Told
  <2> QED
    BY <2>2, <2>3
<1>10. CountedRight(wild, buf', flags) /\ ~InLine(f)
  BY <1>3 DEF SockInv, InLine
<1> QED
  BY <1>1, <1>2, <1>3, <1>4, <1>6, <1>7, <1>8, <1>9, <1>10, PollGoesOn

\* The flags a struct sock may have.
Flags == {"none", "connect", "listen", "open", "zombie"}

(* Sockets are closed or connected, calls go on or return; none is created or *)
(* destroyed.                                                                 *)
LEMMA SocksStay ==
    ASSUME SockInv, UNCHANGED <<wild, sock_list, pollfds, last_numsocks, nested>>,
           stack' \in Seq(Frame), flags' \in [Sock -> Flags], fd' \in [Sock -> Fds \cup {0}],
           send_queue' \in [Sock -> BOOLEAN], buf' \in [Sock -> Bufs], heard' \in [Sock -> Hears],
           \A s \in Sock : flags'[s] = "none" <=> flags[s] = "none",
           \A s \in Sock : flags'[s] = "zombie" \/ (flags[s] # "zombie" /\ fd'[s] = fd[s]),
           Shape(stack', nested, wild),
           FramesFine(stack', flags', buf', heard'),
           \A s \in Sock : Told(s, heard', flags', stack')
    PROVE  CountedRight(wild, buf', flags') => SockInv'
<1> SUFFICES ASSUME CountedRight(wild, buf', flags') PROVE SockInv'
  OBVIOUS
<1>1. SockTypes'
  <2>1. SockTypes
    BY DEF SockInv
  <2> QED
    BY <2>1 DEF SockTypes, Flags, Bufs, Hears
<1>2. ListFine(sock_list, flags')
  <2>1. ListFine(sock_list, flags)
    BY DEF SockInv
  <2> QED
    BY <2>1 DEF ListFine
<1>3. ArrayFine(pollfds, last_numsocks, sock_list, flags', fd')
  <2>1. ArrayFine(pollfds, last_numsocks, sock_list, flags, fd)
    BY DEF SockInv
  <2>2. sock_list \in Seq(Sock) /\ last_numsocks \in Nat /\ Len(sock_list) \in Nat
    BY SockFacts
  <2>3. last_numsocks = Len(pollfds) /\ last_numsocks <= Len(sock_list)
    BY <2>1 DEF ArrayFine
  <2>4. \A k \in 1..last_numsocks : sock_list[k] \in Sock
    BY <2>2, <2>3
  <2> QED
    BY <2>1, <2>3, <2>4 DEF ArrayFine
<1> QED
  BY <1>1, <1>2, <1>3 DEF SockInv

(* SSL_connect fails: the socket is closed, and the walk goes on.             *)
LEMMA SSLFailsInv ==
    ASSUME SockInv, UNCHANGED wild, ssl_connect_fails
    PROVE  SockInv'
<1>1. AtSock /\ flags[Here] = "connect"
  BY DEF ssl_connect_fails, Serving
<1>2. /\ stack # <<>> /\ Top.kind = "poll" /\ Top.pc # "callback" /\ Here \in Sock
      /\ Top.i >= 1 /\ Top \in Frame /\ Top.i \in Nat /\ stack \in Seq(Frame) /\ Top = stack[Len(stack)]
      /\ heard[Here].end = 0
  BY <1>1, WalkFacts, HereFacts, SockFacts DEF AtSock
<1>3. PICK f : f = Next_(Top)
  OBVIOUS
<1>4. f \in Frame /\ f.kind = "poll" /\ f.pc = "visit" /\ f.i = Top.i + 1 /\ f.i >= 1
  BY <1>2, <1>3, VisitFrame
<1>5. /\ stack' = SetTop(stack, f)
      /\ flags' = [flags EXCEPT ![Here] = "zombie"]
      /\ fd' = [fd EXCEPT ![Here] = 0]
      /\ heard' = [heard EXCEPT ![Here].closed = "SSL"]
      /\ UNCHANGED <<sock_list, pollfds, last_numsocks, buf, send_queue, nested>>
  BY <1>3 DEF ssl_connect_fails
<1>6. /\ flags \in [Sock -> Flags] /\ fd \in [Sock -> Fds \cup {0}] /\ heard \in [Sock -> Hears]
      /\ send_queue' \in [Sock -> BOOLEAN] /\ buf' \in [Sock -> Bufs]
  BY <1>5 DEF SockInv, SockTypes, Flags, Bufs, Hears
<1>7. flags' \in [Sock -> Flags] /\ fd' \in [Sock -> Fds \cup {0}]
  BY <1>2, <1>5, <1>6 DEF Flags
<1>8. /\ heard' \in [Sock -> Hears] /\ heard'[Here].closed = "SSL"
      /\ \A s \in Sock : heard'[s].end = heard[s].end /\ heard'[s].connect = heard[s].connect
      /\ \A s \in Sock : s # Here => heard'[s] = heard[s]
  BY <1>2, <1>5, <1>6 DEF Hears
<1>9. /\ \A s \in Sock : flags'[s] = "none" <=> flags[s] = "none"
      /\ \A s \in Sock : flags'[s] = "zombie" \/ (flags[s] # "zombie" /\ fd'[s] = fd[s])
  <2>1. ASSUME NEW s \in Sock, s # Here
        PROVE  flags'[s] = flags[s] /\ fd'[s] = fd[s]
    BY <1>5, <1>6, <2>1
  <2>2. flags'[Here] = "zombie"
    BY <1>2, <1>5, <1>6
  <2>3. ASSUME NEW s \in Sock, s # Here, flags[s] = "zombie"
        PROVE  flags'[s] = "zombie"
    BY <2>1, <2>3
  <2> QED
    BY <1>1, <2>1, <2>2
<1>10. stack' \in Seq(Frame) /\ Shape(stack', nested, wild)
  <2>1. Shape(stack, nested, wild) /\ nested \in Nat /\ wild \in BOOLEAN /\ ~InLine(f)
    BY <1>4, SockFacts DEF SockInv, InLine
  <2>2. stack' \in Seq(Frame)
    BY <1>2, <1>4, <1>5, TopReplaced
  <2>3. Shape(SetTop(stack, f), nested, wild)
    BY <1>2, <1>4, <2>1, ShapeReplaced
  <2> QED
    BY <1>5, <2>2, <2>3
<1>11. FramesFine(stack', flags', buf', heard')
  <2>1. /\ Len(stack) \in Nat /\ Len(stack) >= 1 /\ Len(stack') = Len(stack)
        /\ stack'[Len(stack)] = f
        /\ \A k \in 1..Len(stack) : k # Len(stack) => stack'[k] = stack[k]
    BY <1>2, <1>4, <1>5, TopReplaced
  <2>2. FrameFine(f, flags', buf', heard')
    BY <1>4 DEF FrameFine
  <2>3. ASSUME NEW k \in 1..Len(stack) PROVE FrameFine(stack[k], flags', buf', heard')
    <3>1. FrameFine(stack[k], flags, buf, heard) /\ stack[k] \in Frame
      BY <1>2 DEF SockInv, FramesFine
    <3>2. stack[k].sock \in Sock
      BY <3>1, FrameFields
    <3>3. heard[stack[k].sock].closed # "no" => heard'[stack[k].sock].closed # "no"
      BY <1>8, <3>2
    <3>4. heard'[stack[k].sock].end = heard[stack[k].sock].end
      BY <1>8, <3>2
    <3>5. flags[stack[k].sock] # "none" => flags'[stack[k].sock] # "none"
      BY <1>9, <3>2
    <3> QED
      BY <1>5, <3>1, <3>3, <3>4, <3>5 DEF FrameFine
  <2> QED
    BY <2>1, <2>2, <2>3 DEF FramesFine
<1>12. ASSUME NEW s \in Sock PROVE Told(s, heard', flags', stack')
  <2>1. Told(s, heard, flags, stack)
    BY DEF SockInv
  <2>2. Told(s, heard, flags, stack')
    BY <1>2, <1>4, <1>5, <2>1, ToldReplaced
  <2>3. CASE s # Here
    BY <1>5, <1>6, <1>8, <2>2, <2>3 DEF Told
  <2>4. CASE s = Here
    <3>1. flags'[s] = "zombie"
      BY <1>2, <1>5, <1>6, <2>4
    <3> QED
      BY <1>8, <2>2, <2>4, <3>1 DEF Told
  <2> QED
    BY <2>3, <2>4
<1>13. CountedRight(wild, buf', flags')
  BY <1>5, <1>9 DEF SockInv, CountedRight
<1> QED
  BY <1>5, <1>6, <1>7, <1>8, <1>9, <1>10, <1>11, <1>12, <1>13, SocksStay

(* The write function, and callbacks after which nothing is left to do.       *)
LEMMA ServeWriteInv == SockInv /\ UNCHANGED wild /\ serve_write => SockInv'
<1> SUFFICES ASSUME SockInv, UNCHANGED wild, serve_write PROVE SockInv'
  OBVIOUS
<1>1. InPc("write") /\ UNCHANGED <<flags, fd, buf>>
  BY DEF serve_write
<1>2. CASE Proceed("visit", Top.i + 1)
  BY <1>1, <1>2, ProceedInv
<1>3. CASE /\ write_ready(Top.sock)
           /\ \E rest \in BOOLEAN : send_queue' = [send_queue EXCEPT ![Top.sock] = rest]
           /\ stack' = SetTop(stack, Calling(Top, Top.sock, "WRITE", "next"))
           /\ UNCHANGED <<sock_list, pollfds, last_numsocks, nested, heard>>
  <2>1. /\ stack # <<>> /\ Top.kind = "poll" /\ Top.pc = "write" /\ Top.i >= 1
        /\ Top \in Frame /\ Top.sock \in Sock
    BY <1>1, WalkFacts, SockFacts DEF InPc
  <2>2. flags[Top.sock] # "none"
    BY <2>1, SockFacts DEF FrameFine
  <2>3. PICK f : f = Calling(Top, Top.sock, "WRITE", "next")
    OBVIOUS
  <2>4. "WRITE" \in Events /\ "next" \in Afters
    BY DEF Events, Afters
  <2>5. /\ f \in Frame /\ f.kind = Top.kind /\ f.i = Top.i
        /\ f.pc = "callback" /\ f.sock = Top.sock /\ f.ev = "WRITE" /\ f.then = "next"
    BY <2>1, <2>3, <2>4, CallingFrame
  <2>6. stack' = SetTop(stack, f)
    BY <1>3, <2>3
  <2>7. send_queue \in [Sock -> BOOLEAN]
    BY DEF SockInv, SockTypes
  <2>8. send_queue' \in [Sock -> BOOLEAN] /\ ~InLine(f)
    BY <1>3, <2>5, <2>7 DEF InLine
  <2> HIDE <2>3
  <2> QED
    BY <1>1, <1>3, <2>1, <2>2, <2>5, <2>6, <2>8, PollGoesOnSilently
<1> QED
  BY <1>2, <1>3 DEF serve_write

LEMMA ReturnNextInv == SockInv /\ UNCHANGED wild /\ return_next => SockInv'
<1> SUFFICES ASSUME SockInv, UNCHANGED wild, return_next PROVE SockInv'
  OBVIOUS
<1>1. stack # <<>> /\ Top.pc = "callback" /\ Top.then = "next"
  BY DEF return_next, Returning, InPc
<1>2. Top \in Frame /\ FrameFine(Top, flags, buf, heard)
  BY <1>1, SockFacts
<1>3. Top.kind = "poll" /\ Top.i >= 1 /\ Top.i \in Nat
  BY <1>1, <1>2, FrameFields DEF FrameFine
<1>4. PICK f : f = Next_(Top)
  OBVIOUS
<1>5. f \in Frame /\ f.kind = "poll" /\ f.pc = "visit" /\ f.i = Top.i + 1
  BY <1>2, <1>3, <1>4, VisitFrame
<1>6. stack' = SetTop(stack, f) /\ UNCHANGED <<sock_list, pollfds, last_numsocks, flags, fd, buf, send_queue, nested, heard>>
  BY <1>4 DEF return_next
<1>7. send_queue' \in [Sock -> BOOLEAN] /\ ~InLine(f) /\ f.i >= 1
  BY <1>3, <1>5, <1>6 DEF SockInv, SockTypes, InLine
<1> HIDE <1>4
<1> QED
  BY <1>1, <1>3, <1>5, <1>6, <1>7, PollGoesOnSilently

(* poll() returns, with events or with an error, or the walk is over.         *)
LEMMA PollEndsInv ==
    ASSUME SockInv, InPc("wait") \/ InPc("visit"), stack' = Pop,
           UNCHANGED <<wild, sock_list, flags, fd, buf, send_queue, nested, heard>>,
           UNCHANGED <<pollfds, last_numsocks>> \/ (pollfds' = <<>> /\ last_numsocks' = 0)
    PROVE  SockInv'
<1>1. /\ stack # <<>> /\ Top.kind = "poll" /\ Top.pc # "callback"
      /\ stack \in Seq(Frame) /\ Top = stack[Len(stack)] /\ nested \in Nat /\ wild \in BOOLEAN
  BY WalkFacts, SockFacts
<1> DEFINE t == SubSeq(stack, 1, Len(stack) - 1)
<1>2. /\ stack' = t /\ t \in Seq(Frame)
      /\ Len(stack) \in Nat /\ Len(stack) >= 1 /\ Len(t) = Len(stack) - 1
      /\ \A k \in 1..(Len(stack) - 1) : t[k] = stack[k]
  BY <1>1, TopPopped DEF Pop
<1>3. Shape(t, nested, wild)
  BY <1>1, ShapePopped DEF SockInv
<1>4. \A s \in Sock : Told(s, heard, flags, t)
  BY <1>1, ToldPopped DEF SockInv
<1> HIDE DEF t
<1>5. FramesFine(t, flags, buf, heard)
  BY <1>2 DEF SockInv, FramesFine
<1>6. SockTypes'
  <2>1. SockTypes
    BY DEF SockInv
  <2>2. pollfds' \in Seq([fd : Fds \cup {0}, out : BOOLEAN]) /\ last_numsocks' \in Nat
    <3> DEFINE P == [fd : Fds \cup {0}, out : BOOLEAN]
    <3>1. pollfds \in Seq(P) /\ last_numsocks \in Nat
      BY <2>1 DEF SockTypes
    <3> HIDE DEF P
    <3>2. <<>> \in Seq(P) /\ 0 \in Nat
      OBVIOUS
    <3>3. CASE UNCHANGED <<pollfds, last_numsocks>>
      BY <3>1, <3>3 DEF P
    <3>4. CASE pollfds' = <<>> /\ last_numsocks' = 0
      BY <3>2, <3>4 DEF P
    <3> QED
      BY <3>3, <3>4
  <2> QED
    BY <1>2, <2>1, <2>2 DEF SockTypes
<1>7. ArrayFine(pollfds', last_numsocks', sock_list, flags, fd)
  <2>1. ArrayFine(pollfds, last_numsocks, sock_list, flags, fd) /\ Len(sock_list) \in Nat
    BY SockFacts DEF SockInv
  <2>2. CASE UNCHANGED <<pollfds, last_numsocks>>
    BY <2>1, <2>2
  <2>3. CASE pollfds' = <<>> /\ last_numsocks' = 0
    <3>1. Len(pollfds') = 0 /\ 0 <= Len(sock_list) /\ 1..0 = {}
      BY <2>1, <2>3
    <3> QED
      BY <2>3, <3>1 DEF ArrayFine
  <2> QED
    BY <2>2, <2>3
<1>8. ListFine(sock_list, flags) /\ CountedRight(wild, buf, flags)
  BY DEF SockInv
<1> QED
  BY <1>2, <1>3, <1>4, <1>5, <1>6, <1>7, <1>8 DEF SockInv

LEMMA PollReturnsInv == SockInv /\ UNCHANGED wild /\ (poll_returns \/ walk_ends) => SockInv'
<1> SUFFICES ASSUME SockInv, UNCHANGED wild, poll_returns \/ walk_ends PROVE SockInv'
  OBVIOUS
<1>1. CASE poll_returns /\ poll_fails
  BY <1>1, PollEndsInv DEF poll_returns, poll_fails
<1>2. CASE walk_ends
  BY <1>2, PollEndsInv DEF walk_ends
<1>3. CASE poll_returns /\ stack' = SetTop(stack, Visit(Top, 1)) /\ UNCHANGED <<pollfds, last_numsocks>>
  <2>1. InPc("wait") /\ UNCHANGED <<sock_list, pollfds, last_numsocks, flags, fd, buf, send_queue, nested, heard>>
    BY <1>3 DEF poll_returns
  <2>2. stack # <<>> /\ Top.kind = "poll" /\ Top.pc # "callback" /\ Top \in Frame
    BY <2>1, WalkFacts, SockFacts
  <2>3. PICK f : f = Visit(Top, 1)
    OBVIOUS
  <2>4. f \in Frame /\ f.kind = "poll" /\ f.pc = "visit" /\ f.i = 1
    BY <2>2, <2>3, VisitFrame
  <2>5. stack' = SetTop(stack, f) /\ send_queue' \in [Sock -> BOOLEAN] /\ ~InLine(f) /\ f.i >= 1
    BY <1>3, <2>1, <2>3, <2>4 DEF SockInv, SockTypes, InLine
  <2> HIDE <2>3
  <2> QED
    BY <2>1, <2>2, <2>4, <2>5, PollGoesOnSilently
<1> QED
  BY <1>1, <1>2, <1>3 DEF poll_returns

(* A call that goes on leaves the others to see to their sockets.             *)
LEMMA OthersSee ==
    ASSUME NEW st \in Seq(Frame), st # <<>>, NEW f \in Frame, NEW s
    PROVE  /\ \/ st[Len(st)].then # "connected" \/ st[Len(st)].sock # s
              => (Connecting(st, s) => Connecting(SetTop(st, f), s))
           /\ \/ st[Len(st)].kind = "poll" /\ st[Len(st)].then # "close"
              \/ st[Len(st)].sock # s
              => (Ending(st, s) => Ending(SetTop(st, f), s))
<1> DEFINE t == SetTop(st, f)
<1>1. /\ Len(st) \in Nat /\ Len(st) >= 1 /\ Len(t) = Len(st)
      /\ \A k \in 1..Len(st) : k # Len(st) => t[k] = st[k]
  BY TopReplaced
<1> HIDE DEF t
<1>2. ASSUME st[Len(st)].then # "connected" \/ st[Len(st)].sock # s, Connecting(st, s)
      PROVE  Connecting(t, s)
  BY <1>1, <1>2 DEF Connecting
<1>3. ASSUME \/ st[Len(st)].kind = "poll" /\ st[Len(st)].then # "close"
             \/ st[Len(st)].sock # s,
             Ending(st, s)
      PROVE  Ending(t, s)
  BY <1>1, <1>3 DEF Ending
<1> QED
  BY <1>2, <1>3 DEF t

(* sock_close, called where the stack is st, for a socket whose owner knows.  *)
LEMMA CloseInInv ==
    ASSUME SockInv, NEW st \in Seq(Frame), NEW x \in Sock, flags[x] # "none",
           Shape(st, nested, wild), FramesFine(st, flags, buf, heard'), heard' \in [Sock -> Hears],
           \A s \in Sock : s # x => Told(s, heard', flags, st),
           heard'[x].connect \in 0..1 /\ heard'[x].end \in 0..1,
           heard'[x].connect = 1 /\ flags[x] = "connect" => Connecting(st, x),
           heard'[x].end = 1 \/ heard'[x].closed # "no",
           ~wild => \A k \in 1..Len(st) : InLine(st[k]) => st[k].sock # x,
           close_in(st, x),
           UNCHANGED <<wild, sock_list, pollfds, last_numsocks, buf, send_queue, nested>>
    PROVE  SockInv'
<1>1. /\ flags \in [Sock -> Flags] /\ fd \in [Sock -> Fds \cup {0}]
      /\ send_queue' \in [Sock -> BOOLEAN] /\ buf' \in [Sock -> Bufs]
  BY DEF SockInv, SockTypes, Flags, Bufs
<1>2. CountedRight(wild, buf, flags) /\ wild \in BOOLEAN /\ nested \in Nat
  BY SockFacts DEF SockInv
<1>3. CASE flags[x] = "zombie"
  <2>1. stack' = st /\ UNCHANGED <<flags, fd>>
    BY <1>3 DEF close_in
  <2>2. \A s \in Sock : Told(s, heard', flags, st)
    BY <1>3 DEF Told
  <2>3. stack' \in Seq(Frame) /\ flags' \in [Sock -> Flags] /\ fd' \in [Sock -> Fds \cup {0}]
    BY <1>1, <2>1
  <2>4. \A s \in Sock : /\ flags'[s] = "none" <=> flags[s] = "none"
                        /\ flags'[s] = "zombie" \/ (flags[s] # "zombie" /\ fd'[s] = fd[s])
    BY <2>1
  <2>5. Shape(stack', nested, wild) /\ FramesFine(stack', flags', buf', heard')
    BY <2>1
  <2>6. \A s \in Sock : Told(s, heard', flags', stack')
    BY <2>1, <2>2
  <2>7. CountedRight(wild, buf', flags')
    BY <1>2, <2>1
  <2> QED
    BY <1>1, <2>3, <2>4, <2>5, <2>6, <2>7, SocksStay
<1>4. CASE flags[x] # "zombie" /\ buf[x].used = 0
  <2>1. /\ stack' = st
        /\ flags' = [flags EXCEPT ![x] = "zombie"]
        /\ fd' = [fd EXCEPT ![x] = 0]
    BY <1>4 DEF close_in
  <2>2. stack' \in Seq(Frame) /\ flags' \in [Sock -> Flags] /\ fd' \in [Sock -> Fds \cup {0}]
    BY <1>1, <2>1 DEF Flags
  <2>3. flags'[x] = "zombie" /\ \A s \in Sock : s # x => flags'[s] = flags[s] /\ fd'[s] = fd[s]
    BY <1>1, <2>1
  <2>4. \A s \in Sock : /\ flags'[s] = "none" <=> flags[s] = "none"
                        /\ flags'[s] = "zombie" \/ (flags[s] # "zombie" /\ fd'[s] = fd[s])
    BY <2>3
  <2>5. FramesFine(stack', flags', buf', heard')
    <3> SUFFICES ASSUME NEW k \in 1..Len(st) PROVE FrameFine(st[k], flags', buf', heard')
      BY <2>1 DEF FramesFine
    <3>1. FrameFine(st[k], flags, buf, heard') /\ st[k] \in Frame
      BY DEF FramesFine
    <3>2. flags[st[k].sock] # "none" => flags'[st[k].sock] # "none"
      BY <2>4, <3>1, FrameFields
    <3> QED
      BY <3>1, <3>2 DEF FrameFine
  <2>6. \A s \in Sock : Told(s, heard', flags', stack')
    BY <2>1, <2>3 DEF Told
  <2>7. CountedRight(wild, buf', flags')
    BY <1>2, <2>4 DEF CountedRight
  <2> QED
    BY <1>1, <2>1, <2>2, <2>4, <2>5, <2>6, <2>7, SocksStay
<1>5. CASE flags[x] # "zombie" /\ buf[x].used # 0
  <2> DEFINE g == [kind |-> "close", pc |-> "callback", i |-> 0, sock |-> x,
                   ev |-> "FLUSH", then |-> "closed", ev_write |-> FALSE]
  <2>1. stack' = Append(st, g) /\ UNCHANGED <<flags, fd>>
    BY <1>5 DEF close_in
  <2>2. /\ g \in Frame /\ g.kind = "close" /\ g.pc = "callback" /\ g.sock = x
        /\ g.ev = "FLUSH" /\ g.then = "closed"
    BY DEF Frame
  <2> HIDE DEF g
  <2>3. /\ Append(st, g) \in Seq(Frame)
        /\ Len(st) \in Nat /\ Len(Append(st, g)) = Len(st) + 1
        /\ Append(st, g)[Len(st) + 1] = g
        /\ \A k \in 1..Len(st) : Append(st, g)[k] = st[k]
    BY <2>2, Pushed
  <2>4. Shape(Append(st, g), nested, wild)
    <3>1. ~InLine(g)
      BY <2>2 DEF InLine
    <3> QED
      BY <1>2, <2>2, <3>1, ShapeClosing
  <2>5. FrameFine(g, flags, buf, heard')
    BY <2>2 DEF FrameFine
  <2>6. FramesFine(Append(st, g), flags, buf, heard')
    BY <2>3, <2>5 DEF FramesFine
  <2>7. ASSUME NEW s \in Sock PROVE Told(s, heard', flags, Append(st, g))
    <3>1. CASE s # x
      BY <2>2, <3>1, ToldPushed
    <3>2. CASE s = x
      <4>1. Ending(Append(st, g), x)
        BY <2>2, <2>3 DEF Ending
      <4>2. Connecting(st, x) => Connecting(Append(st, g), x)
        BY <2>3 DEF Connecting
      <4> QED
        BY <1>5, <3>2, <4>1, <4>2 DEF Told
    <3> QED
      BY <3>1, <3>2
  <2>8. stack' \in Seq(Frame) /\ flags' \in [Sock -> Flags] /\ fd' \in [Sock -> Fds \cup {0}]
    BY <1>1, <2>1, <2>3
  <2>9. \A s \in Sock : /\ flags'[s] = "none" <=> flags[s] = "none"
                        /\ flags'[s] = "zombie" \/ (flags[s] # "zombie" /\ fd'[s] = fd[s])
    <3>1. ASSUME NEW s \in Sock PROVE flags'[s] = flags[s] /\ fd'[s] = fd[s]
      BY <2>1
    <3> QED
      BY <3>1
  <2>10. Shape(stack', nested, wild) /\ FramesFine(stack', flags', buf', heard')
    BY <2>1, <2>4, <2>6
  <2>11. \A s \in Sock : Told(s, heard', flags', stack')
    BY <2>1, <2>7
  <2>12. CountedRight(wild, buf', flags')
    BY <1>2, <2>1
  <2> QED
    BY <1>1, <2>8, <2>9, <2>10, <2>11, <2>12, SocksStay
<1> QED
  BY <1>3, <1>4, <1>5

(* What a callback that returns knows of itself.                              *)
LEMMA ReturningFacts ==
    ASSUME SockInv, NEW t \in {"next", "connected", "close", "hangup", "line"}, Returning(t)
    PROVE  /\ stack # <<>> /\ stack \in Seq(Frame) /\ Top = stack[Len(stack)] /\ Top \in Frame
           /\ Top.kind = "poll" /\ Top.pc = "callback" /\ Top.then = t /\ Top.i >= 1 /\ Top.i \in Nat
           /\ Top.sock \in Sock /\ flags[Top.sock] # "none" /\ Len(stack) \in Nat /\ Len(stack) >= 1
           /\ \A k \in 1..Len(stack) : k # Len(stack) => stack[k].pc = "wait" \/ InLine(stack[k])
           /\ ~wild => Len(stack) = 1
<1>1. stack # <<>> /\ Top.pc = "callback" /\ Top.then = t
  BY DEF Returning, InPc
<1>2. /\ stack \in Seq(Frame) /\ Top = stack[Len(stack)] /\ Top \in Frame /\ FrameFine(Top, flags, buf, heard)
      /\ Len(stack) \in Nat /\ Len(stack) >= 1 /\ Top.sock \in Sock
  BY <1>1, SockFacts
<1>3. Top.kind = "poll" /\ Top.i \in Nat
  BY <1>1, <1>2, FrameFields DEF FrameFine
<1>4. Top.i >= 1 /\ flags[Top.sock] # "none"
  BY <1>1, <1>2, <1>3 DEF FrameFine
<1>5. Shape(stack, nested, wild) /\ Len(stack) \in 1..Len(stack)
  BY <1>2 DEF SockInv
<1>6. ~wild => Len(stack) = 1
  BY <1>2, <1>3, <1>5 DEF Shape
<1>7. ASSUME NEW k \in 1..Len(stack), k # Len(stack)
      PROVE  stack[k].pc = "wait" \/ InLine(stack[k])
  <2>1. k < Len(stack)
    BY <1>2, <1>7
  <2> QED
    BY <1>2, <1>3, <1>5, <2>1 DEF Shape
<1> QED
  BY <1>1, <1>2, <1>3, <1>4, <1>6, <1>7

(* EV_ERROR or EV_HANGUP was announced: the socket is closed.                 *)
LEMMA ReturnCloseInv == SockInv /\ UNCHANGED wild /\ return_close => SockInv'
<1> SUFFICES ASSUME SockInv, UNCHANGED wild, return_close PROVE SockInv'
  OBVIOUS
<1>1. Returning("close")
  BY DEF return_close
<1>2. /\ stack # <<>> /\ stack \in Seq(Frame) /\ Top = stack[Len(stack)] /\ Top \in Frame
      /\ Top.kind = "poll" /\ Top.pc = "callback" /\ Top.then = "close" /\ Top.i >= 1 /\ Top.i \in Nat
      /\ Top.sock \in Sock /\ flags[Top.sock] # "none" /\ Len(stack) \in Nat /\ Len(stack) >= 1
      /\ ~wild => Len(stack) = 1
  BY <1>1, ReturningFacts
<1>3. PICK f : f = Next_(Top)
  OBVIOUS
<1>4. f \in Frame /\ f.kind = "poll" /\ f.pc = "visit" /\ f.i = Top.i + 1 /\ f.i >= 1 /\ ~InLine(f)
  BY <1>2, <1>3, VisitFrame DEF InLine
<1>5. PICK st : st = SetTop(stack, f)
  OBVIOUS
<1>6. PICK x \in Sock : x = Top.sock
  BY <1>2
<1>7. close_in(st, x) /\ UNCHANGED <<sock_list, pollfds, last_numsocks, buf, send_queue, nested, heard>>
  BY <1>3, <1>5, <1>6 DEF return_close
<1>8. /\ st \in Seq(Frame) /\ Len(st) = Len(stack) /\ st[Len(stack)] = f
      /\ \A k \in 1..Len(stack) : k # Len(stack) => st[k] = stack[k]
  BY <1>2, <1>4, <1>5, TopReplaced
<1>9. Shape(st, nested, wild)
  BY <1>2, <1>4, <1>5, ShapeReplaced, SockFacts DEF SockInv
<1>10. FramesFine(st, flags, buf, heard')
  <2>1. FrameFine(f, flags, buf, heard)
    BY <1>4 DEF FrameFine
  <2> QED
    BY <1>7, <1>8, <2>1 DEF SockInv, FramesFine
<1>11. heard' \in [Sock -> Hears]
  BY <1>7 DEF SockInv, SockTypes, Hears
<1>12. \A s \in Sock : s # x => Told(s, heard', flags, st)
  <2>1. \A s \in Sock : s # x => Told(s, heard, flags, st)
    BY <1>2, <1>4, <1>5, <1>6, ToldReplaced DEF SockInv
  <2> QED
    BY <1>7, <2>1
<1>13. /\ heard'[x].connect \in 0..1 /\ heard'[x].end \in 0..1
       /\ heard'[x].connect = 1 /\ flags[x] = "connect" => Connecting(st, x)
  <2>1. Told(x, heard, flags, stack)
    BY DEF SockInv
  <2>2. Connecting(stack, x) => Connecting(st, x)
    BY <1>2, <1>4, <1>5, OthersSee
  <2> QED
    BY <1>7, <2>1, <2>2 DEF Told
<1>14. heard'[x].end = 1
  BY <1>2, <1>6, <1>7, SockFacts DEF FrameFine
<1>15. ~wild => \A k \in 1..Len(st) : InLine(st[k]) => st[k].sock # x
  BY <1>2, <1>4, <1>8
<1> HIDE <1>3, <1>5, <1>6
<1> QED
  BY <1>2, <1>6, <1>7, <1>8, <1>9, <1>10, <1>11, <1>12, <1>13, <1>14, <1>15, CloseInInv

(* SOCK_CONNECT is cleared.                                                   *)
LEMMA ReturnConnectedInv == SockInv /\ UNCHANGED wild /\ return_connected => SockInv'
<1> SUFFICES ASSUME SockInv, UNCHANGED wild, return_connected PROVE SockInv'
  OBVIOUS
<1>1. Returning("connected")
  BY DEF return_connected
<1>2. /\ stack # <<>> /\ stack \in Seq(Frame) /\ Top = stack[Len(stack)] /\ Top \in Frame
      /\ Top.kind = "poll" /\ Top.pc = "callback" /\ Top.then = "connected" /\ Top.i >= 1 /\ Top.i \in Nat
      /\ Top.sock \in Sock /\ flags[Top.sock] # "none" /\ Len(stack) \in Nat /\ Len(stack) >= 1
  BY <1>1, ReturningFacts
<1>3. PICK f : f = Next_(Top)
  OBVIOUS
<1>4. f \in Frame /\ f.kind = "poll" /\ f.pc = "visit" /\ f.i = Top.i + 1 /\ f.i >= 1 /\ ~InLine(f)
  BY <1>2, <1>3, VisitFrame DEF InLine
<1>5. PICK x \in Sock : x = Top.sock
  BY <1>2
<1>6. /\ stack' = SetTop(stack, f) /\ flags' = clear_connect(x)
      /\ UNCHANGED <<sock_list, pollfds, last_numsocks, fd, buf, send_queue, nested, heard>>
  BY <1>3, <1>5 DEF return_connected
<1>7. /\ flags \in [Sock -> Flags] /\ fd' \in [Sock -> Fds \cup {0}] /\ heard' \in [Sock -> Hears]
      /\ send_queue' \in [Sock -> BOOLEAN] /\ buf' \in [Sock -> Bufs]
  BY <1>6 DEF SockInv, SockTypes, Flags, Bufs, Hears
<1>8. /\ flags' \in [Sock -> Flags]
      /\ flags'[x] = IF flags[x] = "connect" THEN "open" ELSE flags[x]
      /\ \A s \in Sock : s # x => flags'[s] = flags[s]
  BY <1>6, <1>7 DEF clear_connect, Flags
<1>9. /\ \A s \in Sock : flags'[s] = "none" <=> flags[s] = "none"
      /\ \A s \in Sock : flags'[s] = "zombie" \/ (flags[s] # "zombie" /\ fd'[s] = fd[s])
      /\ \A s \in Sock : flags'[s] # flags[s] => flags'[s] = "open" /\ flags[s] = "connect"
  BY <1>6, <1>8
<1>10. /\ stack' \in Seq(Frame) /\ Len(stack') = Len(stack) /\ stack'[Len(stack)] = f
       /\ \A k \in 1..Len(stack) : k # Len(stack) => stack'[k] = stack[k]
  BY <1>2, <1>4, <1>6, TopReplaced
<1>11. Shape(stack', nested, wild)
  BY <1>2, <1>4, <1>6, ShapeReplaced, SockFacts DEF SockInv
<1>12. FramesFine(stack', flags', buf', heard')
  <2>1. FrameFine(f, flags', buf', heard')
    BY <1>4 DEF FrameFine
  <2>2. ASSUME NEW k \in 1..Len(stack) PROVE FrameFine(stack[k], flags', buf', heard')
    <3>0. stack[k] \in Frame
      BY <1>2
    <3>1. FrameFine(stack[k], flags, buf, heard) /\ stack[k].sock \in Sock
      BY <3>0, FrameFields DEF SockInv, FramesFine
    <3>2. flags[stack[k].sock] # "none" => flags'[stack[k].sock] # "none"
      BY <1>9, <3>1
    <3> QED
      BY <1>6, <3>1, <3>2 DEF FrameFine
  <2> QED
    BY <1>10, <2>1, <2>2 DEF FramesFine
<1>13. ASSUME NEW s \in Sock PROVE Told(s, heard', flags', stack')
  <2>1. Told(s, heard, flags, stack)
    BY DEF SockInv
  <2>2. CASE s # x
    <3>1. Told(s, heard, flags, stack')
      BY <1>2, <1>4, <1>5, <1>6, <2>1, <2>2, ToldReplaced
    <3> QED
      BY <1>6, <1>8, <2>2, <3>1 DEF Told
  <2>3. CASE s = x
    <3>1. Ending(stack, s) => Ending(stack', s)
      BY <1>2, <1>4, <1>6, OthersSee
    <3> QED
      BY <1>6, <1>8, <2>1, <2>3, <3>1 DEF Told
  <2> QED
    BY <2>2, <2>3
<1>14. CountedRight(wild, buf', flags')
  BY <1>6, <1>9 DEF SockInv, CountedRight
<1> HIDE <1>3
<1> QED
  BY <1>6, <1>7, <1>8, <1>9, <1>10, <1>11, <1>12, <1>13, <1>14, SocksStay

(* What a frame delivers.                                                     *)
LEMMA DeliveringFacts ==
    ASSUME SockInv, NEW x
    PROVE  Delivering(x) <=> \E k \in 1..Len(stack) : InLine(stack[k]) /\ stack[k].sock = x
<1>1. \A k \in 1..Len(stack) : stack[k].pc = "callback" => (stack[k].ev = "LINE" <=> stack[k].then = "line")
  BY DEF SockInv, FramesFine, FrameFine
<1> QED
  BY <1>1 DEF Delivering, InLine

(* sock_flush_readbuf empties a buffer, but for the lines behind a line in hand. *)
LEMMA FlushedFacts ==
    ASSUME SockInv, NEW x \in Sock
    PROVE  /\ flushed(x) \in [Sock -> Bufs]
           /\ \A s \in Sock : s # x => flushed(x)[s] = buf[s]
           /\ Delivering(x) => flushed(x)[x].lines = buf[x].lines
           /\ ~Delivering(x) => Exact(flushed(x)[x])
<1>1. buf \in [Sock -> Bufs] /\ MaxLines \in Nat
  BY SockAssumption DEF SockInv, SockTypes, Bufs
<1>2. PICK b \in Bufs : b = buf[x]
  BY <1>1
<1>3. PICK c : c = IF Delivering(x) THEN [b EXCEPT !.used = 0] ELSE EmptyBuf
  OBVIOUS
<1>4. flushed(x) = [buf EXCEPT ![x] = c]
  BY <1>1, <1>2, <1>3 DEF flushed
<1>5. CASE Delivering(x)
  <2>1. c = [b EXCEPT !.used = 0]
    BY <1>3, <1>5
  <2>2. c \in Bufs /\ c.lines = b.lines
    BY <2>1 DEF Bufs
  <2> QED
    BY <1>1, <1>2, <1>4, <1>5, <2>2
<1>6. CASE ~Delivering(x)
  <2>1. c = EmptyBuf
    BY <1>3, <1>6
  <2>2. c \in Bufs /\ Exact(c)
    BY <1>1, <2>1 DEF Bufs, EmptyBuf, Exact
  <2> QED
    BY <1>1, <1>4, <1>6, <2>2
<1> QED
  BY <1>5, <1>6

(* The rest of the buffer was handed out before the hangup: now it is announced. *)
LEMMA ReturnHangupInv == SockInv /\ UNCHANGED wild /\ return_hangup => SockInv'
<1> SUFFICES ASSUME SockInv, UNCHANGED wild, return_hangup PROVE SockInv'
  OBVIOUS
<1>1. Returning("hangup")
  BY DEF return_hangup
<1>2. /\ stack # <<>> /\ stack \in Seq(Frame) /\ Top = stack[Len(stack)] /\ Top \in Frame
      /\ Top.kind = "poll" /\ Top.pc = "callback" /\ Top.then = "hangup" /\ Top.i >= 1 /\ Top.i \in Nat
      /\ Top.sock \in Sock /\ flags[Top.sock] # "none" /\ Len(stack) \in Nat /\ Len(stack) >= 1
      /\ \A k \in 1..Len(stack) : k # Len(stack) => stack[k].pc = "wait" \/ InLine(stack[k])
      /\ ~wild => Len(stack) = 1
  BY <1>1, ReturningFacts
<1>3. PICK x \in Sock : x = Top.sock
  BY <1>2
<1>4. PICK f : f = Calling(Top, x, "HANGUP", "close")
  OBVIOUS
<1>5. /\ f \in Frame /\ f.kind = "poll" /\ f.i >= 1 /\ f.pc = "callback" /\ f.sock = x
      /\ f.ev = "HANGUP" /\ f.then = "close" /\ ~InLine(f)
  <2>1. "HANGUP" \in Events /\ "close" \in Afters
    BY DEF Events, Afters
  <2> QED
    BY <1>2, <1>4, <2>1, CallingFrame DEF InLine
<1>6. /\ stack' = SetTop(stack, f) /\ buf' = flushed(x) /\ heard' = Tell(x, "end")
      /\ UNCHANGED <<sock_list, pollfds, last_numsocks, flags, fd, send_queue, nested>>
  BY <1>3, <1>4 DEF return_hangup
<1>7. heard[x].end = 0
  BY <1>2, <1>3, SockFacts DEF FrameFine
<1>8. /\ heard \in [Sock -> Hears] /\ send_queue' \in [Sock -> BOOLEAN]
  BY <1>6 DEF SockInv, SockTypes, Hears
<1>9. /\ heard' \in [Sock -> Hears]
      /\ heard'[x].connect = heard[x].connect /\ heard'[x].end = 1 /\ heard'[x].closed = heard[x].closed
      /\ \A s \in Sock : s # x => heard'[s] = heard[s]
  <2>1. PICK h \in Hears : h = heard[x]
    BY <1>8
  <2>2. heard' = [heard EXCEPT ![x].end = @ + 1]
    BY <1>6 DEF Tell
  <2>3. PICK g : g = [h EXCEPT !.end = @ + 1]
    OBVIOUS
  <2>4. g \in Hears /\ g.connect = h.connect /\ g.end = h.end + 1 /\ g.closed = h.closed
    BY <2>3 DEF Hears
  <2>5. heard' = [heard EXCEPT ![x] = g]
    BY <1>8, <2>1, <2>2, <2>3
  <2> QED
    BY <1>7, <1>8, <2>1, <2>4, <2>5
<1>10. /\ buf' \in [Sock -> Bufs]
       /\ \A s \in Sock : s # x => buf'[s] = buf[s]
       /\ Delivering(x) => buf'[x].lines = buf[x].lines
       /\ ~Delivering(x) => Exact(buf'[x])
  BY <1>6, FlushedFacts
<1>11. FrameFine(f, flags, buf', heard')
  BY <1>2, <1>3, <1>5, <1>9 DEF FrameFine
<1>12. ASSUME NEW k \in 1..Len(stack), k # Len(stack)
       PROVE  FrameFine(stack[k], flags, buf', heard')
  <2>1. stack[k] \in Frame
    BY <1>2
  <2>2. FrameFine(stack[k], flags, buf, heard) /\ stack[k].sock \in Sock /\ stack[k].kind # "close"
    BY <1>2, <1>12, <2>1, FrameFields DEF SockInv, FramesFine, FrameFine, InLine
  <2>3. InLine(stack[k]) => buf'[stack[k].sock].lines = buf[stack[k].sock].lines
    BY <1>10, <2>2, DeliveringFacts
  <2>4. stack[k].pc = "callback" => InLine(stack[k])
    BY <1>2, <1>12
  <2> QED
    BY <2>2, <2>3, <2>4 DEF FrameFine, InLine
<1>13. ASSUME NEW s \in Sock PROVE Told(s, heard', flags, SetTop(stack, f))
  <2>1. Told(s, heard, flags, stack)
    BY DEF SockInv
  <2>2. CASE s # x
    <3>1. Told(s, heard, flags, SetTop(stack, f))
      BY <1>2, <1>3, <1>5, <2>1, <2>2, ToldReplaced
    <3> QED
      BY <1>9, <2>2, <3>1, StillTold
  <2>3. CASE s = x
    <3>1. Len(SetTop(stack, f)) = Len(stack) /\ SetTop(stack, f)[Len(stack)] = f
      BY <1>2, <1>5, TopReplaced
    <3>2. Ending(SetTop(stack, f), s)
      BY <1>2, <1>5, <2>3, <3>1 DEF Ending
    <3>3. Connecting(stack, s) => Connecting(SetTop(stack, f), s)
      BY <1>2, <1>5, OthersSee
    <3>4. flags[s] # "none"
      BY <1>2, <1>3, <2>3
    <3> QED
      BY <1>9, <2>1, <2>3, <3>2, <3>3, <3>4 DEF Told
  <2> QED
    BY <2>2, <2>3
<1>14. CountedRight(wild, buf', flags)
  <2> SUFFICES ASSUME ~wild, NEW s \in Sock, flags[s] # "none" PROVE Exact(buf'[s])
    BY DEF CountedRight
  <2>0. \A k \in 1..Len(stack) : stack[k].then = "hangup"
    <3>1. Len(stack) = 1 /\ stack[1].then = "hangup"
      BY <1>2
    <3>2. \A k \in 1..1 : k = 1
      OBVIOUS
    <3> QED
      BY <3>1, <3>2
  <2>1. ~Delivering(x)
    BY <2>0, DeliveringFacts DEF InLine
  <2>2. Exact(buf[s])
    BY DEF SockInv, CountedRight
  <2> QED
    BY <1>10, <2>1, <2>2
<1> HIDE <1>4
<1> QED
  BY <1>2, <1>5, <1>6, <1>8, <1>9, <1>10, <1>11, <1>12, <1>13, <1>14, PollGoesOn

(* sock_close goes on after the flush: the socket is marked.                  *)
LEMMA FlushReturnInv == SockInv /\ UNCHANGED wild /\ flush_return => SockInv'
<1> SUFFICES ASSUME SockInv, UNCHANGED wild, flush_return PROVE SockInv'
  OBVIOUS
<1>1. stack # <<>> /\ Top.pc = "callback" /\ Top.kind = "close"
  BY DEF flush_return, InPc
<1>2. /\ stack \in Seq(Frame) /\ Top = stack[Len(stack)] /\ Top \in Frame /\ FrameFine(Top, flags, buf, heard)
      /\ Len(stack) \in Nat /\ Len(stack) >= 1 /\ Top.sock \in Sock
      /\ nested \in Nat /\ wild \in BOOLEAN
  BY <1>1, SockFacts
<1>3. PICK x \in Sock : x = Top.sock
  BY <1>2
<1>4. /\ Top.then = "closed" /\ flags[x] # "none"
      /\ heard[x].end = 1 \/ heard[x].closed # "no"
  BY <1>1, <1>2, <1>3 DEF FrameFine
<1> DEFINE t == SubSeq(stack, 1, Len(stack) - 1)
<1>5. /\ buf' = flushed(x) /\ stack' = t
      /\ flags' = [flags EXCEPT ![x] = "zombie"]
      /\ fd' = [fd EXCEPT ![x] = 0]
      /\ UNCHANGED <<sock_list, pollfds, last_numsocks, send_queue, nested, heard>>
  BY <1>3 DEF flush_return, Pop
<1>6. /\ t \in Seq(Frame) /\ Len(t) = Len(stack) - 1
      /\ \A k \in 1..(Len(stack) - 1) : t[k] = stack[k]
  BY <1>1, <1>2, TopPopped
<1>7. Shape(t, nested, wild)
  BY <1>1, <1>2, ShapePopped DEF SockInv
<1>8. \A s \in Sock : s # x => Told(s, heard, flags, t)
  BY <1>1, <1>2, <1>3, ToldPopped DEF SockInv
<1> HIDE DEF t
<1>9. /\ flags \in [Sock -> Flags] /\ fd \in [Sock -> Fds \cup {0}] /\ heard' \in [Sock -> Hears]
      /\ send_queue' \in [Sock -> BOOLEAN]
  BY <1>5 DEF SockInv, SockTypes, Flags, Hears
<1>10. flags' \in [Sock -> Flags] /\ fd' \in [Sock -> Fds \cup {0}]
  BY <1>5, <1>9 DEF Flags
<1>11. flags'[x] = "zombie" /\ \A s \in Sock : s # x => flags'[s] = flags[s] /\ fd'[s] = fd[s]
  BY <1>5, <1>9
<1>12. /\ \A s \in Sock : flags'[s] = "none" <=> flags[s] = "none"
       /\ \A s \in Sock : flags'[s] = "zombie" \/ (flags[s] # "zombie" /\ fd'[s] = fd[s])
  BY <1>4, <1>11
<1>13. /\ buf' \in [Sock -> Bufs]
       /\ \A s \in Sock : s # x => buf'[s] = buf[s]
       /\ Delivering(x) => buf'[x].lines = buf[x].lines
       /\ ~Delivering(x) => Exact(buf'[x])
  BY <1>5, FlushedFacts
<1>14. FramesFine(t, flags', buf', heard')
  <2> SUFFICES ASSUME NEW k \in 1..Len(t) PROVE FrameFine(t[k], flags', buf', heard')
    BY DEF FramesFine
  <2>1. k \in 1..Len(stack) /\ t[k] = stack[k] /\ t[k] \in Frame
    BY <1>2, <1>6
  <2>2. FrameFine(stack[k], flags, buf, heard) /\ stack[k].sock \in Sock
    BY <2>1, FrameFields DEF SockInv, FramesFine
  <2>3. InLine(stack[k]) => buf'[stack[k].sock].lines = buf[stack[k].sock].lines
    BY <1>13, <2>1, <2>2, DeliveringFacts
  <2>4. flags[stack[k].sock] # "none" => flags'[stack[k].sock] # "none"
    BY <1>12, <2>2
  <2> QED
    BY <1>5, <2>1, <2>2, <2>3, <2>4 DEF FrameFine, InLine
<1>15. \A s \in Sock : Told(s, heard', flags', t)
  <2> TAKE s \in Sock
  <2>1. CASE s # x
    BY <1>5, <1>8, <1>11, <2>1 DEF Told
  <2>2. CASE s = x
    <3>1. Told(x, heard, flags, stack)
      BY DEF SockInv
    <3> QED
      BY <1>4, <1>5, <1>11, <2>2, <3>1 DEF Told
  <2> QED
    BY <2>1, <2>2
<1>16. CountedRight(wild, buf', flags')
  <2> SUFFICES ASSUME ~wild, NEW s \in Sock, flags'[s] # "none" PROVE Exact(buf'[s])
    BY DEF CountedRight
  <2>1. ~Delivering(x)
    <3>1. Shape(stack, nested, wild) /\ Len(stack) \in 1..Len(stack)
      BY <1>2 DEF SockInv
    <3>2. \A k \in 1..Len(stack) : InLine(stack[k]) => stack[k].sock # x
      BY <1>1, <1>2, <1>3, <3>1 DEF Shape
    <3> QED
      BY <3>2, DeliveringFacts
  <2>2. Exact(buf[s])
    BY <1>12 DEF SockInv, CountedRight
  <2> QED
    BY <1>13, <2>1, <2>2
<1>17. stack' \in Seq(Frame) /\ Shape(stack', nested, wild) /\ FramesFine(stack', flags', buf', heard')
       /\ \A s \in Sock : Told(s, heard', flags', stack')
  BY <1>5, <1>6, <1>7, <1>14, <1>15
<1> QED
  BY <1>5, <1>9, <1>10, <1>12, <1>13, <1>16, <1>17, SocksStay

(* A line was handled: the next one, or on with the walk.                     *)
LEMMA ReturnLineInv == SockInv /\ UNCHANGED wild /\ return_line => SockInv'
<1> SUFFICES ASSUME SockInv, UNCHANGED wild, return_line PROVE SockInv'
  OBVIOUS
<1>1. Returning("line")
  BY DEF return_line
<1>2. /\ stack # <<>> /\ stack \in Seq(Frame) /\ Top = stack[Len(stack)] /\ Top \in Frame
      /\ Top.kind = "poll" /\ Top.pc = "callback" /\ Top.then = "line" /\ Top.i >= 1 /\ Top.i \in Nat
      /\ Top.sock \in Sock /\ flags[Top.sock] # "none" /\ Len(stack) \in Nat /\ Len(stack) >= 1
  BY <1>1, ReturningFacts
<1>3. PICK x \in Sock : x = Top.sock
  BY <1>2
<1>4. buf \in [Sock -> Bufs] /\ MaxLines \in Nat
  BY SockAssumption DEF SockInv, SockTypes, Bufs
<1>5. PICK b \in Bufs : b = buf[x]
  BY <1>4
<1>6. b.lines >= 1 /\ b.lines \in Nat /\ b.lines <= MaxLines /\ b.used \in Int /\ b.part \in BOOLEAN
  <2>1. FrameFine(Top, flags, buf, heard)
    BY <1>2, SockFacts
  <2> QED
    BY <1>2, <1>3, <1>4, <1>5, <2>1 DEF FrameFine, Bufs
<1>7. PICK c : c = [b EXCEPT !.lines = b.lines - 1, !.used = b.used - 1]
  OBVIOUS
<1>8. c \in Bufs /\ c.lines = b.lines - 1 /\ c.part = b.part /\ c.used = b.used - 1
  <2>1. PICK m \in 0..MaxLines : m = b.lines - 1
    BY <1>4, <1>6
  <2>2. PICK u \in Int : u = b.used - 1
    BY <1>6
  <2>3. c = [b EXCEPT !.lines = m, !.used = u]
    BY <1>7, <2>1, <2>2
  <2> HIDE <1>7
  <2>4. c \in Bufs /\ c.lines = m /\ c.part = b.part /\ c.used = u
    BY <2>3 DEF Bufs
  <2> QED
    BY <2>1, <2>2, <2>4
<1>9. /\ buf' = [buf EXCEPT ![x] = c]
      /\ UNCHANGED <<sock_list, pollfds, last_numsocks, flags, fd, send_queue, nested, heard>>
  BY <1>3, <1>4, <1>5, <1>7 DEF return_line, line_done
<1>10. buf' \in [Sock -> Bufs] /\ buf'[x] = c /\ \A s \in Sock : s # x => buf'[s] = buf[s]
  BY <1>4, <1>8, <1>9
<1>11. PICK f \in Frame : /\ stack' = SetTop(stack, f) /\ f.kind = "poll" /\ f.i >= 1 /\ f.sock = x
                          /\ \/ f = Top /\ b.lines > 1
                             \/ f.pc = "write" /\ f.ev = Top.ev /\ f.then = Top.then
  <2>1. CASE b.lines > 1
    <3>1. stack' = stack
      BY <1>3, <1>5, <2>1 DEF return_line
    <3>2. SetTop(stack, Top) = stack
      BY <1>2 DEF SetTop
    <3> QED
      BY <1>2, <1>3, <2>1, <3>1, <3>2
  <2>2. CASE ~(b.lines > 1)
    <3>1. PICK g : g = [Top EXCEPT !.pc = "write"]
      OBVIOUS
    <3>2. stack' = SetTop(stack, g)
      BY <1>3, <1>5, <2>2, <3>1 DEF return_line
    <3>3. /\ g \in Frame /\ g.kind = Top.kind /\ g.i = Top.i /\ g.sock = Top.sock
          /\ g.pc = "write" /\ g.ev = Top.ev /\ g.then = Top.then
      BY <1>2, <3>1 DEF Frame
    <3> QED
      BY <1>2, <1>3, <3>2, <3>3
  <2> QED
    BY <2>1, <2>2
<1>12. heard' \in [Sock -> Hears] /\ send_queue' \in [Sock -> BOOLEAN]
  BY <1>9 DEF SockInv, SockTypes, Hears
<1>13. \A k \in 1..Len(stack) : k # Len(stack) /\ InLine(stack[k]) => stack[k].sock # x
  <2>1. Shape(stack, nested, wild) /\ Len(stack) \in 1..Len(stack) /\ InLine(Top)
    BY <1>2 DEF SockInv, InLine
  <2> QED
    BY <1>2, <1>3, <2>1 DEF Shape
<1>14. FrameFine(f, flags, buf', heard')
  <2>1. FrameFine(Top, flags, buf, heard)
    BY <1>2, SockFacts
  <2>2. CASE f = Top /\ b.lines > 1
    <3>1. buf'[x].lines >= 1
      BY <1>6, <1>8, <1>10, <2>2
    <3> QED
      BY <1>3, <1>9, <2>1, <2>2, <3>1 DEF FrameFine
  <2>3. CASE f.pc = "write"
    BY <1>2, <1>3, <1>11, <2>3 DEF FrameFine
  <2> QED
    BY <1>11, <2>2, <2>3
<1>15. ASSUME NEW k \in 1..Len(stack), k # Len(stack)
       PROVE  FrameFine(stack[k], flags, buf', heard')
  <2>1. stack[k] \in Frame
    BY <1>2
  <2>2. FrameFine(stack[k], flags, buf, heard) /\ stack[k].sock \in Sock
    BY <2>1, FrameFields DEF SockInv, FramesFine
  <2>3. InLine(stack[k]) => buf'[stack[k].sock] = buf[stack[k].sock]
    BY <1>10, <1>13, <1>15, <2>2
  <2> QED
    BY <1>9, <2>2, <2>3 DEF FrameFine, InLine
<1>16. \A s \in Sock : Told(s, heard', flags, SetTop(stack, f))
  <2>1. \A s \in Sock : Told(s, heard, flags, SetTop(stack, f))
    BY <1>2, ToldReplaced DEF SockInv
  <2> QED
    BY <1>9, <2>1
<1>17. CountedRight(wild, buf', flags)
  <2> SUFFICES ASSUME ~wild, NEW s \in Sock, flags[s] # "none" PROVE Exact(buf'[s])
    BY DEF CountedRight
  <2>1. Exact(buf[s])
    BY DEF SockInv, CountedRight
  <2>2. CASE s # x
    BY <1>10, <2>1, <2>2
  <2>3. CASE s = x
    BY <1>5, <1>6, <1>8, <1>10, <2>1, <2>3 DEF Exact
  <2> QED
    BY <2>2, <2>3
<1> HIDE <1>7
<1> QED
  BY <1>2, <1>9, <1>10, <1>11, <1>12, <1>13, <1>14, <1>15, <1>16, <1>17, PollGoesOn

(* Data is read: complete lines are delivered, unless a line of the socket is *)
(* in hand further up.                                                        *)
LEMMA ReadDataInv == SockInv /\ UNCHANGED wild /\ read_data => SockInv'
<1> SUFFICES ASSUME SockInv, UNCHANGED wild, read_data PROVE SockInv'
  OBVIOUS
<1>1. AtSock
  BY DEF read_data, Serving
<1>2. /\ stack # <<>> /\ Top.kind = "poll" /\ Top.pc # "callback" /\ Top.i >= 1 /\ Top \in Frame /\ Top.i \in Nat
      /\ stack \in Seq(Frame) /\ Top = stack[Len(stack)] /\ Len(stack) \in Nat
      /\ Here \in Sock /\ flags[Here] # "none" /\ pollfds[Top.i].out \in BOOLEAN
      /\ \A k \in 1..Len(stack) : k # Len(stack) => stack[k].pc = "wait" \/ InLine(stack[k])
  BY <1>1, WalkFacts, HereFacts, SockFacts DEF AtSock
<1>3. PICK x \in Sock : x = Here
  BY <1>2
<1>4. buf \in [Sock -> Bufs] /\ MaxLines \in Nat
  BY SockAssumption DEF SockInv, SockTypes, Bufs
<1>5. PICK b \in Bufs : b = buf[x]
  BY <1>4
<1>6. b.lines \in 0..MaxLines /\ b.lines \in Nat /\ b.part \in BOOLEAN /\ b.used \in Int
  BY <1>4 DEF Bufs
<1> DEFINE b2(n, p) == [lines |-> b.lines + n, part |-> p, used |-> b.used + n - (IF b.part THEN 1 ELSE 0)
                                                                        + (IF p THEN 1 ELSE 0)]
<1>7. PICK n \in 0..(MaxLines - b.lines), p \in BOOLEAN :
        /\ buf' = [buf EXCEPT ![x] = b2(n, p)]
        /\ IF n > 0 /\ ~Delivering(x)
           THEN Deliver("LINE", "line")
           ELSE Proceed("write", Top.i) /\ UNCHANGED <<flags, fd>>
  BY <1>3, <1>5 DEF read_data
<1> DEFINE c == b2(n, p)
<1>8. /\ c \in Bufs /\ c.lines = b.lines + n /\ c.part = p /\ n \in Nat
      /\ Exact(b) => Exact(c)
  <2>1. PICK m \in 0..MaxLines : m = b.lines + n
    BY <1>4, <1>6
  <2>2. PICK u \in Int : u = b.used + n - (IF b.part THEN 1 ELSE 0) + (IF p THEN 1 ELSE 0)
    BY <1>4, <1>6
  <2>3. c = [lines |-> m, part |-> p, used |-> u]
    BY <2>1, <2>2
  <2> HIDE DEF c
  <2>4. c \in Bufs /\ c.lines = m /\ c.part = p /\ c.used = u
    BY <2>3 DEF Bufs
  <2>5. n \in Nat
    BY <1>4, <1>6
  <2>6. Exact(b) => Exact(c)
    BY <1>6, <2>1, <2>2, <2>4, <2>5 DEF Exact
  <2> QED
    BY <2>1, <2>4, <2>5, <2>6
<1> HIDE DEF c
<1>9. buf' \in [Sock -> Bufs] /\ buf'[x] = c /\ \A s \in Sock : s # x => buf'[s] = buf[s]
  <2>1. buf' = [buf EXCEPT ![x] = c]
    BY <1>7 DEF c
  <2> QED
    BY <1>4, <1>8, <2>1
<1>10. \A s \in Sock : buf[s].lines >= 1 => buf'[s].lines >= 1
  BY <1>5, <1>6, <1>8, <1>9
<1>11. UNCHANGED <<sock_list, pollfds, last_numsocks, flags, fd, send_queue, nested, heard>>
  BY <1>7 DEF Deliver, Proceed
<1>12. PICK f \in Frame : /\ stack' = SetTop(stack, f) /\ f.kind = "poll" /\ f.i >= 1 /\ f.sock = x
                          /\ \/ f.pc = "write"
                             \/ /\ f.pc = "callback" /\ f.ev = "LINE" /\ f.then = "line"
                                /\ n > 0 /\ ~Delivering(x)
  <2>1. CASE n > 0 /\ ~Delivering(x)
    <3>1. Deliver("LINE", "line") /\ "LINE" \in Events /\ "line" \in Afters
      BY <1>7, <2>1 DEF Events, Afters
    <3> QED
      BY <1>1, <1>3, <2>1, <3>1, DeliveredFrame
  <2>2. CASE ~(n > 0 /\ ~Delivering(x))
    <3>1. Proceed("write", Top.i)
      BY <1>7, <2>2
    <3>2. PICK g : g = [Top EXCEPT !.pc = "write", !.sock = x, !.ev_write = pollfds[Top.i].out]
      OBVIOUS
    <3>3. g \in Frame /\ g.kind = Top.kind /\ g.pc = "write" /\ g.i = Top.i /\ g.sock = x
      BY <1>2, <3>2 DEF Frame
    <3>4. stack' = SetTop(stack, g)
      BY <1>3, <3>1, <3>2 DEF Proceed
    <3> QED
      BY <1>2, <3>3, <3>4
  <2> QED
    BY <2>1, <2>2
<1>13. heard' \in [Sock -> Hears] /\ send_queue' \in [Sock -> BOOLEAN]
  BY <1>11 DEF SockInv, SockTypes, Hears
<1>14. InLine(f) => \A k \in 1..Len(stack) : k # Len(stack) /\ InLine(stack[k]) => stack[k].sock # f.sock
  BY <1>12, DeliveringFacts DEF InLine
<1>15. FrameFine(f, flags, buf', heard')
  <2>1. n > 0 => buf'[x].lines >= 1
    BY <1>6, <1>8, <1>9
  <2> QED
    BY <1>2, <1>3, <1>12, <2>1 DEF FrameFine
<1>16. ASSUME NEW k \in 1..Len(stack), k # Len(stack)
       PROVE  FrameFine(stack[k], flags, buf', heard')
  <2>1. stack[k] \in Frame
    BY <1>2
  <2>2. FrameFine(stack[k], flags, buf, heard) /\ stack[k].sock \in Sock
    BY <2>1, FrameFields DEF SockInv, FramesFine
  <2>3. buf[stack[k].sock].lines >= 1 => buf'[stack[k].sock].lines >= 1
    BY <1>10, <2>2
  <2> QED
    BY <1>11, <2>2, <2>3 DEF FrameFine
<1>17. \A s \in Sock : Told(s, heard', flags, SetTop(stack, f))
  <2>1. \A s \in Sock : Told(s, heard, flags, SetTop(stack, f))
    BY <1>2, ToldReplaced DEF SockInv
  <2> QED
    BY <1>11, <2>1
<1>18. CountedRight(wild, buf', flags)
  <2> SUFFICES ASSUME ~wild, NEW s \in Sock, flags[s] # "none" PROVE Exact(buf'[s])
    BY DEF CountedRight
  <2>1. Exact(buf[s])
    BY DEF SockInv, CountedRight
  <2> QED
    BY <1>5, <1>8, <1>9, <2>1
<1> QED
  BY <1>2, <1>9, <1>11, <1>12, <1>13, <1>14, <1>15, <1>16, <1>17, <1>18, PollGoesOn

(* An owner closes its socket.                                                *)
LEMMA SockCloseInv == \A s \in Sock : SockInv /\ UNCHANGED wild /\ sock_close(s) => SockInv'
<1> SUFFICES ASSUME NEW x \in Sock, SockInv, UNCHANGED wild, sock_close(x) PROVE SockInv'
  OBVIOUS
<1>1. /\ flags[x] \notin {"none", "zombie"} /\ heard[x].end = 0
      /\ Delivering(x) => wild
      /\ close_in(stack, x)
      /\ heard' = [heard EXCEPT ![x].closed = "owner"]
      /\ UNCHANGED <<sock_list, pollfds, last_numsocks, buf, send_queue, nested>>
  BY DEF sock_close, close_owned
<1>2. stack \in Seq(Frame) /\ Shape(stack, nested, wild) /\ heard \in [Sock -> Hears]
  BY SockFacts DEF SockInv, SockTypes, Hears
<1>3. /\ heard' \in [Sock -> Hears] /\ heard'[x].closed = "owner"
      /\ \A s \in Sock : heard'[s].end = heard[s].end /\ heard'[s].connect = heard[s].connect
      /\ \A s \in Sock : s # x => heard'[s] = heard[s]
  BY <1>1, <1>2 DEF Hears
<1>4. FramesFine(stack, flags, buf, heard')
  <2> SUFFICES ASSUME NEW k \in 1..Len(stack) PROVE FrameFine(stack[k], flags, buf, heard')
    BY DEF FramesFine
  <2>1. stack[k] \in Frame
    BY <1>2
  <2>2. FrameFine(stack[k], flags, buf, heard) /\ stack[k].sock \in Sock
    BY <2>1, FrameFields DEF SockInv, FramesFine
  <2>3. /\ heard'[stack[k].sock].end = heard[stack[k].sock].end
        /\ heard[stack[k].sock].closed # "no" => heard'[stack[k].sock].closed # "no"
    BY <1>3, <2>2
  <2> QED
    BY <2>2, <2>3 DEF FrameFine
<1>5. \A s \in Sock : s # x => Told(s, heard', flags, stack)
  BY <1>3, StillTold DEF SockInv
<1>6. /\ heard'[x].connect \in 0..1 /\ heard'[x].end \in 0..1
      /\ heard'[x].connect = 1 /\ flags[x] = "connect" => Connecting(stack, x)
  BY <1>3 DEF SockInv, Told
<1>7. ~wild => \A k \in 1..Len(stack) : InLine(stack[k]) => stack[k].sock # x
  BY <1>1, DeliveringFacts
<1>8. flags[x] # "none" /\ heard'[x].closed # "no"
  BY <1>1, <1>3
<1> QED
  BY <1>1, <1>2, <1>3, <1>4, <1>5, <1>6, <1>7, <1>8, CloseInInv

(* A socket is created: at the end of the list.                               *)
LEMMA AddSockInv ==
    \A s \in Sock, flag \in {"connect", "listen", "open"} :
        SockInv /\ UNCHANGED wild /\ add_sock(s, flag) => SockInv'
<1> SUFFICES ASSUME NEW x \in Sock, NEW flag \in {"connect", "listen", "open"},
                    SockInv, UNCHANGED wild, add_sock(x, flag)
             PROVE  SockInv'
  OBVIOUS
<1>1. /\ flags[x] = "none"
      /\ flags' = [flags EXCEPT ![x] = flag]
      /\ sock_list' = Append(sock_list, x)
      /\ buf' = [buf EXCEPT ![x] = EmptyBuf]
      /\ send_queue' = [send_queue EXCEPT ![x] = FALSE]
      /\ UNCHANGED <<pollfds, last_numsocks, stack, nested, heard>>
  BY DEF add_sock
<1>2. PICK d \in Fds : fd' = [fd EXCEPT ![x] = d]
  BY DEF add_sock, FreeFds
<1>3. /\ flags \in [Sock -> Flags] /\ fd \in [Sock -> Fds \cup {0}] /\ buf \in [Sock -> Bufs]
      /\ send_queue \in [Sock -> BOOLEAN] /\ sock_list \in Seq(Sock) /\ Len(sock_list) \in Nat
      /\ last_numsocks \in Nat /\ stack \in Seq(Frame) /\ MaxLines \in Nat
  BY SockFacts, SockAssumption DEF SockInv, SockTypes, Flags, Bufs
<1>4. /\ flags' \in [Sock -> Flags] /\ flags'[x] = flag
      /\ \A s \in Sock : s # x => flags'[s] = flags[s]
  BY <1>1, <1>3 DEF Flags
<1>5. fd' \in [Sock -> Fds \cup {0}] /\ \A s \in Sock : s # x => fd'[s] = fd[s]
  BY <1>2, <1>3
<1>6. /\ buf' \in [Sock -> Bufs] /\ Exact(buf'[x])
      /\ \A s \in Sock : s # x => buf'[s] = buf[s]
  <2>1. EmptyBuf \in Bufs /\ Exact(EmptyBuf)
    BY <1>3 DEF Bufs, EmptyBuf, Exact
  <2> QED
    BY <1>1, <1>3, <2>1
<1>7. send_queue' \in [Sock -> BOOLEAN]
  BY <1>1, <1>3
<1>8. /\ sock_list' \in Seq(Sock) /\ Len(sock_list') = Len(sock_list) + 1
      /\ sock_list'[Len(sock_list) + 1] = x
      /\ \A k \in 1..Len(sock_list) : sock_list'[k] = sock_list[k]
  BY <1>1, <1>3
<1>9. ListFine(sock_list, flags) /\ \A k \in 1..Len(sock_list) : sock_list[k] \in Sock /\ sock_list[k] # x
  BY <1>1, <1>3 DEF SockInv, ListFine
<1>10. SockTypes'
  <2>1. SockTypes
    BY DEF SockInv
  <2> QED
    BY <1>1, <1>4, <1>5, <1>6, <1>7, <1>8, <2>1 DEF SockTypes, Flags, Bufs
<1>11. ListFine(sock_list', flags')
  <2>1. \A k \in 1..Len(sock_list') : \/ k \in 1..Len(sock_list) /\ sock_list'[k] = sock_list[k]
                                      \/ k = Len(sock_list) + 1 /\ sock_list'[k] = x
    BY <1>3, <1>8
  <2>2. \A k \in 1..Len(sock_list) : k \in 1..Len(sock_list')
    BY <1>3, <1>8
  <2>3. \A j, k \in 1..Len(sock_list') : sock_list'[j] = sock_list'[k] => j = k
    BY <1>9, <2>1 DEF ListFine
  <2>4. ASSUME NEW s \in Sock
        PROVE  flags'[s] # "none" <=> \E k \in 1..Len(sock_list') : sock_list'[k] = s
    <3>1. CASE s = x
      <4>1. Len(sock_list) + 1 \in 1..Len(sock_list')
        BY <1>3, <1>8
      <4> QED
        BY <1>4, <1>8, <3>1, <4>1
    <3>2. CASE s # x
      <4>1. flags[s] # "none" <=> \E k \in 1..Len(sock_list) : sock_list[k] = s
        BY <1>9 DEF ListFine
      <4> QED
        BY <1>4, <1>8, <2>1, <2>2, <3>2, <4>1
    <3> QED
      BY <3>1, <3>2
  <2> QED
    BY <2>3, <2>4 DEF ListFine
<1>12. ArrayFine(pollfds, last_numsocks, sock_list', flags', fd')
  <2>1. ArrayFine(pollfds, last_numsocks, sock_list, flags, fd)
    BY DEF SockInv
  <2>2. last_numsocks = Len(pollfds) /\ last_numsocks <= Len(sock_list')
    BY <1>3, <1>8, <2>1 DEF ArrayFine
  <2>3. \A k \in 1..last_numsocks : k \in 1..Len(sock_list)
    BY <1>3, <2>1 DEF ArrayFine
  <2>4. ASSUME NEW k \in 1..last_numsocks
        PROVE  flags'[sock_list'[k]] = "zombie" \/ fd'[sock_list'[k]] = pollfds[k].fd
    <3>1. sock_list'[k] = sock_list[k] /\ sock_list[k] \in Sock /\ sock_list[k] # x
      BY <1>8, <1>9, <2>3
    <3>2. flags'[sock_list[k]] = flags[sock_list[k]] /\ fd'[sock_list[k]] = fd[sock_list[k]]
      BY <1>4, <1>5, <3>1
    <3> QED
      BY <2>1, <3>1, <3>2 DEF ArrayFine
  <2> QED
    BY <2>2, <2>4 DEF ArrayFine
<1>13. FramesFine(stack, flags', buf', heard)
  <2> SUFFICES ASSUME NEW k \in 1..Len(stack) PROVE FrameFine(stack[k], flags', buf', heard)
    BY DEF FramesFine
  <2>1. stack[k] \in Frame
    BY <1>3
  <2>2. FrameFine(stack[k], flags, buf, heard) /\ stack[k].sock \in Sock
    BY <2>1, FrameFields DEF SockInv, FramesFine
  <2>3. CASE stack[k].sock = x
    <3>1. stack[k].pc \notin {"callback", "write"}
      BY <1>1, <2>2, <2>3 DEF FrameFine
    <3> QED
      BY <2>2, <3>1 DEF FrameFine
  <2>4. CASE stack[k].sock # x
    BY <1>4, <1>6, <2>2, <2>4 DEF FrameFine
  <2> QED
    BY <2>3, <2>4
<1>14. ASSUME NEW s \in Sock PROVE Told(s, heard, flags', stack)
  <2>1. Told(s, heard, flags, stack)
    BY DEF SockInv
  <2>2. CASE s = x
    <3>1. heard[s].connect = 0 /\ heard[s].end = 0
      BY <1>1, <2>1, <2>2 DEF Told
    <3> QED
      BY <1>4, <2>2, <3>1 DEF Told
  <2>3. CASE s # x
    BY <1>4, <2>1, <2>3 DEF Told
  <2> QED
    BY <2>2, <2>3
<1>15. CountedRight(wild, buf', flags')
  BY <1>4, <1>6 DEF SockInv, CountedRight
<1>16. Shape(stack, nested, wild)
  BY DEF SockInv
<1> QED
  BY <1>1, <1>10, <1>11, <1>12, <1>13, <1>14, <1>15, <1>16 DEF SockInv

LEMMA SockWriteInv == \A s \in Sock : SockInv /\ UNCHANGED wild /\ sock_write(s) => SockInv'
<1> SUFFICES ASSUME NEW x \in Sock, SockInv, UNCHANGED wild, sock_write(x) PROVE SockInv'
  OBVIOUS
<1>1. /\ send_queue' = [send_queue EXCEPT ![x] = TRUE]
      /\ UNCHANGED <<sock_list, pollfds, last_numsocks, flags, fd, buf, stack, nested, heard>>
  BY DEF sock_write
<1>2. SockTypes'
  <2>1. SockTypes
    BY DEF SockInv
  <2> QED
    BY <1>1, <2>1 DEF SockTypes
<1> QED
  BY <1>1, <1>2 DEF SockInv

(* The array that sock_poll fills for a list.                                 *)
LEMMA FilledFacts ==
    ASSUME SockInv, NEW l \in Seq(Sock)
    PROVE  /\ Filled(l) \in Seq([fd : Fds \cup {0}, out : BOOLEAN]) /\ Len(Filled(l)) = Len(l)
           /\ \A k \in 1..Len(l) : Filled(l)[k].fd = fd[l[k]]
<1> DEFINE P == [fd : Fds \cup {0}, out : BOOLEAN]
           e(k) == [fd |-> fd[l[k]], out |-> WantsOut(l[k])]
<1>1. Len(l) \in Nat /\ \A k \in 1..Len(l) : l[k] \in Sock
  OBVIOUS
<1>2. fd \in [Sock -> Fds \cup {0}] /\ send_queue \in [Sock -> BOOLEAN]
  BY DEF SockInv, SockTypes
<1>3. ASSUME NEW k \in 1..Len(l) PROVE e(k) \in P /\ e(k).fd = fd[l[k]]
  <2>1. PICK s \in Sock : s = l[k]
    BY <1>1
  <2>2. PICK b \in BOOLEAN : b <=> WantsOut(s)
    BY <1>2, Zenon DEF WantsOut
  <2>3. PICK d \in Fds \cup {0} : d = fd[s]
    BY <1>2
  <2>4. WantsOut(s) \in BOOLEAN
    BY <1>2, Zenon DEF WantsOut
  <2>5. PICK w \in BOOLEAN : w = WantsOut(s)
    BY <2>4
  <2>6. e(k) = [fd |-> d, out |-> w]
    BY <2>1, <2>3, <2>5
  <2>7. [fd |-> d, out |-> w] \in P
    OBVIOUS
  <2> HIDE DEF P
  <2> QED
    BY <2>1, <2>3, <2>6, <2>7
<1> HIDE DEF P, e
<1>4. Filled(l) = [k \in 1..Len(l) |-> e(k)]
  BY DEF Filled, e
<1>5. Filled(l) \in Seq(P) /\ Len(Filled(l)) = Len(l)
  BY <1>1, <1>3, <1>4
<1> QED
  BY <1>3, <1>4, <1>5 DEF P

(* sock_poll up to poll(): the zombies go, unless a call holds on to them, and *)
(* the list, the array and their length agree again.                          *)
LEMMA SockBeginInv ==
    ASSUME SockInv, UNCHANGED wild, poll_begin, nested' \in 0..MaxNested,
           \/ stack = <<>> /\ nested' = 0
           \/ /\ nested' # 0 /\ wild /\ Len(stack) = 1
              /\ Top.pc = "wait" \/ (InLine(Top) /\ flags[Top.sock] # "zombie")
    PROVE  SockInv'
<1>1. /\ wild \in BOOLEAN /\ sock_list \in Seq(Sock) /\ Len(sock_list) \in Nat
      /\ stack \in Seq(Frame) /\ Len(stack) \in Nat /\ nested' \in Nat
      /\ flags \in [Sock -> Flags] /\ heard \in [Sock -> Hears]
      /\ ListFine(sock_list, flags)
  BY SockFacts, SockAssumption DEF SockInv, SockTypes, Flags, Hears
<1>2. /\ sock_list' = Sweep(sock_list)
      /\ last_numsocks' = Len(sock_list')
      /\ pollfds' = Filled(sock_list')
      /\ UNCHANGED <<fd, buf, send_queue>>
  BY DEF poll_begin
<1>3. PICK l \in Seq(Sock) : sock_list' = l /\ Keeps(sock_list, l)
  BY <1>1, <1>2, SweepKeeps DEF ListFine
<1>4. /\ flags' \in [Sock -> Flags]
      /\ \A s \in Sock : flags'[s] = IF flags[s] = "zombie" /\ ~\E k \in 1..Len(l) : l[k] = s
                                     THEN "none" ELSE flags[s]
  <2>1. flags' = [s \in Sock |-> IF flags[s] = "zombie" /\ ~\E k \in DOMAIN sock_list' : sock_list'[k] = s
                                 THEN "none" ELSE flags[s]]
    BY DEF poll_begin
  <2>2. DOMAIN sock_list' = 1..Len(l)
    BY <1>3
  <2> QED
    BY <1>1, <1>3, <2>1, <2>2 DEF Flags
<1>5. /\ heard' \in [Sock -> Hears]
      /\ \A s \in Sock : heard'[s] = IF flags'[s] = "none" THEN NothingHeard ELSE heard[s]
  <2>1. heard' = [s \in Sock |-> IF flags'[s] = "none" THEN NothingHeard ELSE heard[s]]
    BY DEF poll_begin
  <2>2. NothingHeard \in Hears
    BY DEF NothingHeard, Hears
  <2> QED
    BY <1>1, <2>1, <2>2
<1>6. \A s \in Sock : /\ flags'[s] # "none" => flags'[s] = flags[s] /\ heard'[s] = heard[s]
                      /\ flags'[s] = "none" => flags[s] \in {"none", "zombie"}
  BY <1>4, <1>5
<1>7. /\ Filled(l) \in Seq([fd : Fds \cup {0}, out : BOOLEAN]) /\ Len(Filled(l)) = Len(l)
      /\ \A k \in 1..Len(l) : Filled(l)[k].fd = fd[l[k]]
  BY FilledFacts
<1>8. ListFine(l, flags')
  <2>1. \A j, k \in 1..Len(l) : l[j] = l[k] => j = k
    BY <1>3 DEF Keeps
  <2>2. ASSUME NEW s \in Sock, flags'[s] # "none" PROVE \E k \in 1..Len(l) : l[k] = s
    <3>1. CASE flags[s] = "zombie"
      BY <1>4, <2>2, <3>1
    <3>2. CASE flags[s] # "zombie"
      <4>1. flags[s] # "none"
        BY <1>6, <2>2
      <4>2. PICK j \in 1..Len(sock_list) : sock_list[j] = s
        BY <1>1, <4>1 DEF ListFine
      <4> QED
        BY <1>3, <3>2, <4>2 DEF Keeps
    <3> QED
      BY <3>1, <3>2
  <2>3. ASSUME NEW s \in Sock, NEW k \in 1..Len(l), l[k] = s PROVE flags'[s] # "none"
    <3>1. PICK j \in 1..Len(sock_list) : sock_list[j] = s
      BY <1>3, <2>3 DEF Keeps
    <3>2. flags[s] # "none"
      BY <1>1, <3>1 DEF ListFine
    <3> QED
      BY <1>4, <2>3, <3>2
  <2> QED
    BY <2>1, <2>2, <2>3 DEF ListFine
<1>9. ArrayFine(pollfds', last_numsocks', l, flags', fd')
  <2>1. pollfds' = Filled(l) /\ last_numsocks' = Len(l) /\ fd' = fd
    BY <1>2, <1>3
  <2> QED
    BY <1>7, <2>1 DEF ArrayFine
<1>10. FramesFine(stack, flags', buf', heard')
  <2> SUFFICES ASSUME NEW k \in 1..Len(stack) PROVE FrameFine(stack[k], flags', buf', heard')
    BY DEF FramesFine
  <2>1. k = 1 /\ Len(stack) = 1 /\ stack[k] = Top /\ Top \in Frame
        /\ (Top.pc = "wait" \/ (InLine(Top) /\ flags[Top.sock] # "zombie"))
    BY <1>1 DEF Top
  <2>2. FrameFine(Top, flags, buf, heard) /\ Top.sock \in Sock
    BY <2>1, FrameFields DEF SockInv, FramesFine
  <2>3. Top.kind # "close"
    BY <2>1, <2>2 DEF FrameFine, InLine
  <2>4. CASE Top.pc = "wait"
    BY <2>1, <2>2, <2>3, <2>4 DEF FrameFine
  <2>5. CASE InLine(Top) /\ flags[Top.sock] # "zombie"
    <3>1. flags[Top.sock] # "none"
      BY <2>2, <2>5 DEF FrameFine, InLine
    <3>2. flags'[Top.sock] = flags[Top.sock]
      BY <1>4, <2>2, <2>5
    <3> QED
      BY <1>2, <2>1, <2>2, <2>3, <2>5, <3>1, <3>2 DEF FrameFine, InLine
  <2> QED
    BY <2>1, <2>4, <2>5
<1>11. \A s \in Sock : Told(s, heard', flags', stack)
  <2> TAKE s \in Sock
  <2>1. Told(s, heard, flags, stack)
    BY DEF SockInv
  <2>2. CASE flags'[s] = "none"
    BY <1>5, <2>2 DEF Told, NothingHeard
  <2>3. CASE flags'[s] # "none"
    BY <1>6, <2>1, <2>3 DEF Told
  <2> QED
    BY <2>2, <2>3
<1>12. CountedRight(wild, buf', flags')
  BY <1>2, <1>6 DEF SockInv, CountedRight
<1>13. ~wild => nested' = 0
  OBVIOUS
<1>14. /\ stack' \in Seq(Frame) /\ Shape(stack', nested', wild)
       /\ FramesFine(stack', flags', buf', heard')
       /\ \A s \in Sock : Told(s, heard', flags', stack')
  <2>1. CASE l = <<>>
    <3>1. stack' = stack
      BY <1>3, <2>1 DEF poll_begin
    <3>2. \A k \in 1..Len(stack) : k = 1 /\ nested' # 0 /\ wild
      <4>1. CASE stack = <<>>
        <5>1. Len(stack) = 0 /\ 1..0 = {}
          BY <4>1
        <5> QED
          BY <5>1
      <4>2. CASE nested' # 0 /\ wild /\ Len(stack) = 1
        <5>1. \A k \in 1..1 : k = 1
          OBVIOUS
        <5> QED
          BY <4>2, <5>1
      <4> QED
        BY <4>1, <4>2
    <3>3. Shape(stack, nested', wild)
      BY <1>13, <3>2 DEF Shape
    <3> QED
      BY <1>1, <1>10, <1>11, <3>1, <3>3
  <2>2. CASE l # <<>>
    <3> DEFINE g == [kind |-> "poll", pc |-> "wait", i |-> 1, sock |-> l[1],
                     ev |-> "", then |-> "", ev_write |-> FALSE]
    <3>1. l[1] \in Sock
      BY <1>3, <2>2
    <3>2. g \in Frame /\ g.kind = "poll" /\ g.pc = "wait" /\ g.i = 1
      BY <3>1 DEF Frame
    <3>3. stack' = Append(stack, g)
      BY <1>3, <2>2 DEF poll_begin
    <3> HIDE DEF g
    <3>4. /\ Append(stack, g) \in Seq(Frame) /\ Len(Append(stack, g)) = Len(stack) + 1
          /\ Append(stack, g)[Len(stack) + 1] = g
          /\ \A k \in 1..Len(stack) : Append(stack, g)[k] = stack[k]
      BY <1>1, <3>2, Pushed
    <3>5. FrameFine(g, flags', buf', heard')
      BY <3>2 DEF FrameFine
    <3>6. FramesFine(Append(stack, g), flags', buf', heard')
      BY <1>1, <1>10, <3>4, <3>5 DEF FramesFine
    <3>7. \A s \in Sock : Told(s, heard', flags', Append(stack, g))
      BY <1>1, <1>11, <3>2, ToldPushed
    <3>8. Shape(Append(stack, g), nested', wild)
      <4>1. ~InLine(g)
        BY <3>2 DEF InLine
      <4>2. \/ stack = <<>>
            \/ nested' # 0 /\ wild /\ Len(stack) = 1 /\ (stack[1].pc = "wait" \/ InLine(stack[1]))
        BY <1>1 DEF Top
      <4> QED
        BY <1>1, <1>13, <3>2, <4>1, <4>2, ShapePolling
    <3> QED
      BY <3>3, <3>4, <3>6, <3>7, <3>8
  <2> QED
    BY <2>1, <2>2
<1>15. SockTypes'
  <2>1. pollfds' \in Seq([fd : Fds \cup {0}, out : BOOLEAN]) /\ last_numsocks' \in Nat
    BY <1>2, <1>3, <1>7
  <2>2. SockTypes
    BY DEF SockInv
  <2> QED
    BY <1>2, <1>3, <1>4, <1>5, <1>14, <2>1, <2>2 DEF SockTypes, Flags, Hears
<1> QED
  BY <1>3, <1>8, <1>9, <1>12, <1>14, <1>15 DEF SockInv

(* sock_poll is called by main's loop, or by `die' or the signal handler in a *)
(* poll of main's loop.                                                       *)
LEMMA PollInvariant ==
    ASSUME MaxNested <= 1
    PROVE  SockInv /\ UNCHANGED wild /\ (main_poll \/ nested_poll) => SockInv'
<1> SUFFICES ASSUME SockInv, UNCHANGED wild, main_poll \/ nested_poll PROVE SockInv'
  OBVIOUS
<1>1. /\ stack \in Seq(Frame) /\ Len(stack) \in Nat /\ nested \in Nat /\ MaxNested \in Nat
      /\ Shape(stack, nested, wild) /\ FramesFine(stack, flags, buf, heard)
  BY SockFacts, SockAssumption DEF SockInv
<1>2. CASE main_poll
  <2>1. stack = <<>> /\ nested' = 0 /\ poll_begin /\ nested' \in 0..MaxNested
    BY <1>1, <1>2 DEF main_poll
  <2> QED
    BY <2>1, SockBeginInv
<1>3. CASE nested_poll
  <2>1. /\ wild /\ nested < MaxNested /\ nested' = nested + 1 /\ poll_begin
        /\ InPc("wait") \/ (InPc("callback") /\ Top.ev = "LINE" /\ flags[Top.sock] # "zombie")
    BY <1>3 DEF nested_poll
  <2>2. nested = 0 /\ nested' \in 0..MaxNested /\ nested' # 0
    BY <1>1, <2>1
  <2>3. stack # <<>> /\ (Top.pc = "wait" \/ (Top.pc = "callback" /\ Top.ev = "LINE" /\ flags[Top.sock] # "zombie"))
    BY <2>1 DEF InPc
  <2>4. Top = stack[Len(stack)] /\ Len(stack) >= 1 /\ FrameFine(Top, flags, buf, heard)
    BY <2>3, SockFacts
  <2>5. Top.pc = "wait" \/ (InLine(Top) /\ flags[Top.sock] # "zombie")
    BY <2>3, <2>4 DEF FrameFine, InLine
  <2>6. Top.kind # "close"
    BY <2>3, <2>4 DEF FrameFine
  <2>7. Len(stack) = 1
    <3>1. Len(stack) \in 1..Len(stack)
      BY <1>1, <2>4
    <3> QED
      BY <1>1, <2>2, <2>4, <2>6, <3>1 DEF Shape
  <2> QED
    BY <2>1, <2>2, <2>5, <2>7, SockBeginInv
<1> QED
  BY <1>2, <1>3

LEMMA SockInitInv == sockInit => SockInv
<1> SUFFICES ASSUME sockInit PROVE SockInv
  OBVIOUS
<1>1. MaxNested \in Nat /\ MaxLines \in Nat
  BY SockAssumption
<1>2. /\ wild \in BOOLEAN /\ sock_list = <<>> /\ pollfds = <<>> /\ last_numsocks = 0 /\ stack = <<>> /\ nested = 0
      /\ flags = [s \in Sock |-> "none"] /\ fd = [s \in Sock |-> 0]
      /\ buf = [s \in Sock |-> EmptyBuf]
      /\ send_queue = [s \in Sock |-> FALSE] /\ heard = [s \in Sock |-> NothingHeard]
  BY DEF sockInit
<1>3. /\ Len(sock_list) = 0 /\ Len(pollfds) = 0 /\ Len(stack) = 0 /\ 1..0 = {}
  BY <1>2
<1>4. SockTypes
  <2>1. EmptyBuf \in Bufs /\ NothingHeard \in Hears
    BY <1>1 DEF EmptyBuf, Bufs, NothingHeard, Hears
  <2>2. buf \in [Sock -> Bufs] /\ heard \in [Sock -> Hears]
    BY <1>2, <2>1
  <2>3. pollfds \in Seq([fd : Fds \cup {0}, out : BOOLEAN]) /\ stack \in Seq(Frame) /\ sock_list \in Seq(Sock)
    BY <1>2
  <2>4. /\ flags \in [Sock -> {"none", "connect", "listen", "open", "zombie"}]
        /\ fd \in [Sock -> Fds \cup {0}] /\ send_queue \in [Sock -> BOOLEAN]
    BY <1>2
  <2>5. last_numsocks \in Nat /\ nested \in 0..MaxNested
    BY <1>1, <1>2
  <2> QED
    BY <1>2, <2>2, <2>3, <2>4, <2>5 DEF SockTypes, Bufs, Hears
<1>5. ListFine(sock_list, flags)
  BY <1>2, <1>3 DEF ListFine
<1>6. ArrayFine(pollfds, last_numsocks, sock_list, flags, fd)
  BY <1>2, <1>3 DEF ArrayFine
<1>7. FramesFine(stack, flags, buf, heard) /\ Shape(stack, nested, wild)
  BY <1>2, <1>3 DEF FramesFine, Shape
<1>8. ASSUME NEW s \in Sock PROVE Told(s, heard, flags, stack)
  <2>1. heard[s].connect = 0 /\ heard[s].end = 0 /\ flags[s] = "none"
    BY <1>2 DEF NothingHeard
  <2> QED
    BY <2>1 DEF Told
<1>9. CountedRight(wild, buf, flags)
  BY <1>2 DEF CountedRight
<1> QED
  BY <1>4, <1>5, <1>6, <1>7, <1>8, <1>9 DEF SockInv

(* A step of a walk.                                                          *)
LEMMA WalkingInv == SockInv /\ UNCHANGED wild /\ Walk => SockInv'
<1> SUFFICES ASSUME SockInv, UNCHANGED wild, Walk PROVE SockInv'
  OBVIOUS
<1>1. CASE poll_returns \/ walk_ends
  BY <1>1, PollReturnsInv
<1>2. CASE skip_zombie
  BY <1>2, ProceedInv DEF skip_zombie, Serving, AtSock
<1>3. CASE so_error
  <2>1. AtSock /\ flags[Here] # "zombie" /\ Deliver("ERROR", "close") /\ UNCHANGED buf
    BY <1>3 DEF so_error
  <2> QED
    BY <2>1, DeliverToldInv
<1>4. CASE serve_connect
  <2>1. AtSock /\ flags[Here] = "connect" /\ UNCHANGED buf
    BY <1>4 DEF serve_connect, Serving
  <2>2. \/ Deliver("CONNECT", "connected") \/ Deliver("ERROR", "close")
        \/ Proceed("visit", Top.i + 1) /\ UNCHANGED <<flags, fd>>
    BY <1>4 DEF serve_connect
  <2>3. CASE Deliver("CONNECT", "connected")
    BY <2>1, <2>3, DeliverToldInv
  <2>4. CASE Deliver("ERROR", "close")
    BY <2>1, <2>4, DeliverToldInv
  <2>5. CASE Proceed("visit", Top.i + 1) /\ UNCHANGED <<flags, fd>>
    BY <2>1, <2>5, ProceedInv DEF AtSock
  <2> QED
    BY <2>2, <2>3, <2>4, <2>5
<1>5. CASE ssl_connect_fails
  BY <1>5, SSLFailsInv
<1>6. CASE serve_listen
  <2>1. AtSock /\ UNCHANGED buf
    BY <1>6 DEF serve_listen, Serving
  <2>2. \/ Deliver("ACCEPT", "next")
        \/ Proceed("visit", Top.i + 1) /\ UNCHANGED <<flags, fd>>
    BY <1>6 DEF serve_listen
  <2>3. CASE Deliver("ACCEPT", "next")
    BY <2>1, <2>3, DeliverSilentInv
  <2>4. CASE Proceed("visit", Top.i + 1) /\ UNCHANGED <<flags, fd>>
    BY <2>1, <2>4, ProceedInv DEF AtSock
  <2> QED
    BY <2>2, <2>3, <2>4
<1>7. CASE read_data
  BY <1>7, ReadDataInv
<1>8. CASE read_nothing
  BY <1>8, ProceedInv DEF read_nothing, Serving
<1>9. CASE read_fails
  <2>1. AtSock /\ flags[Here] = "open" /\ UNCHANGED buf /\ Deliver("ERROR", "close")
    BY <1>9 DEF read_fails, Serving
  <2> QED
    BY <2>1, DeliverToldInv
<1>10. CASE read_hangup
  <2>1. AtSock /\ flags[Here] = "open" /\ UNCHANGED buf
        /\ (Deliver("FLUSH", "hangup") \/ Deliver("HANGUP", "close"))
    BY <1>10 DEF read_hangup, Serving
  <2>2. CASE Deliver("FLUSH", "hangup")
    BY <2>1, <2>2, DeliverSilentInv
  <2>3. CASE Deliver("HANGUP", "close")
    BY <2>1, <2>3, DeliverToldInv
  <2> QED
    BY <2>1, <2>2, <2>3
<1>11. CASE serve_write
  BY <1>11, ServeWriteInv
<1> QED
  BY <1>1, <1>2, <1>3, <1>4, <1>5, <1>6, <1>7, <1>8, <1>9, <1>10, <1>11 DEF Walk

LEMMA SockNextInv ==
    ASSUME MaxNested <= 1
    PROVE  SockInv /\ [sockNext]_sockVars => SockInv'
<1> SUFFICES ASSUME SockInv, [sockNext]_sockVars PROVE SockInv'
  OBVIOUS
<1>1. CASE UNCHANGED sockVars
  BY <1>1 DEF sockVars, SockInv, SockTypes
<1>2. CASE sockNext
  <2>1. UNCHANGED wild
    BY <1>2 DEF sockNext
  <2>2. CASE main_poll \/ nested_poll
    BY <2>1, <2>2, PollInvariant
  <2>3. CASE Walk
    BY <2>1, <2>3, WalkingInv
  <2>4. CASE Return
    BY <2>1, <2>4, ReturnNextInv, ReturnConnectedInv, ReturnCloseInv, ReturnHangupInv, ReturnLineInv,
       FlushReturnInv DEF Return
  <2>5. CASE Owner
    BY <2>1, <2>5, AddSockInv, SockWriteInv, SockCloseInv
       DEF Owner, sock_connect, sock_listen, sock_accept
  <2> QED
    BY <1>2, <2>2, <2>3, <2>4, <2>5 DEF sockNext
<1> QED
  BY <1>1, <1>2

(* A list without repetitions is as long as there are sockets.                *)
LEMMA ListCounts ==
    ASSUME SockInv
    PROVE  /\ Live = {sock_list[k] : k \in DOMAIN sock_list}
           /\ Len(sock_list) = Cardinality(Live) /\ Cardinality(Live) <= Cardinality(Sock)
           /\ Cardinality(Sock) \in Nat
<1>1. sock_list \in Seq(Sock) /\ Len(sock_list) \in Nat /\ ListFine(sock_list, flags)
  BY SockFacts DEF SockInv
<1>2. \A k \in 1..Len(sock_list) : sock_list[k] \in Sock
  BY <1>1
<1>3. Live = {sock_list[k] : k \in 1..Len(sock_list)}
  <2>1. ASSUME NEW s \in Live PROVE \E k \in 1..Len(sock_list) : sock_list[k] = s
    BY <1>1, <2>1 DEF Live, ListFine
  <2>2. ASSUME NEW k \in 1..Len(sock_list) PROVE sock_list[k] \in Live
    BY <1>1, <1>2, <2>2 DEF Live, ListFine
  <2> QED
    BY <2>1, <2>2
<1>4. DOMAIN sock_list = 1..Len(sock_list)
  BY <1>1
<1>5. Live \subseteq Sock /\ IsFiniteSet(Sock)
  BY SockAssumption DEF Live
<1>6. Cardinality(Live) <= Cardinality(Sock) /\ Cardinality(Sock) \in Nat
  BY <1>5, FS_Subset, FS_CardinalityType
<1>7. Len(sock_list) = Cardinality(Live)
  <2> DEFINE n == Len(sock_list)
             f == [k \in 1..n |-> sock_list[k]]
  <2>1. f \in Bijection(1..n, Live)
    <3>1. f \in [1..n -> Live]
      BY <1>3
    <3>2. \A j, k \in 1..n : f[j] = f[k] => j = k
      BY <1>1 DEF ListFine
    <3>3. \A s \in Live : \E k \in 1..n : f[k] = s
      BY <1>3
    <3> HIDE DEF f, n
    <3> QED
      BY <3>1, <3>2, <3>3 DEF Bijection, Injection, Surjection, IsInjective
  <2>2. ExistsBijection(1..n, Live)
    BY <2>1 DEF ExistsBijection
  <2>3. n \in Nat
    BY <1>1
  <2> HIDE DEF n
  <2>4. Cardinality(Live) = n
    BY <2>2, <2>3, FS_CountingElements
  <2> QED
    BY <2>4 DEF n
<1> QED
  BY <1>3, <1>4, <1>6, <1>7

LEMMA SockInvImpliesSound == SockInv => SocksSound
<1> SUFFICES ASSUME SockInv PROVE SocksSound
  OBVIOUS
<1>1. SockTypeOK
  <2>1. last_numsocks \in 0..Cardinality(Sock)
    <3>1. last_numsocks \in Nat /\ last_numsocks <= Len(sock_list) /\ Len(sock_list) \in Nat
      BY SockFacts DEF SockInv, ArrayFine
    <3> QED
      BY <3>1, ListCounts
  <2>2. SockTypes
    BY DEF SockInv
  <2> QED
    BY <2>1, <2>2, ListCounts DEF SockTypeOK, SockTypes
<1>2. FdsMatch
  BY HereFacts DEF FdsMatch
<1>3. NoUseAfterFree
  BY DEF NoUseAfterFree, SockInv, FramesFine, FrameFine
<1>4. InBounds
  <2> SUFFICES ASSUME AtSock PROVE Top.i \in DOMAIN sock_list /\ Top.i \in DOMAIN pollfds
    BY DEF InBounds
  <2>1. Top.i \in 1..Len(sock_list) /\ Top.i \in 1..Len(pollfds)
    BY HereFacts
  <2> DEFINE P == [fd : Fds \cup {0}, out : BOOLEAN]
  <2>2. sock_list \in Seq(Sock) /\ pollfds \in Seq(P)
    BY SockFacts
  <2> HIDE DEF P
  <2> QED
    BY <2>1, <2>2
<1>5. OnceEach
  <2> SUFFICES ASSUME NEW s \in Sock PROVE heard[s].connect <= 1 /\ heard[s].end <= 1
    BY DEF OnceEach
  <2>1. heard[s].connect \in 0..1 /\ heard[s].end \in 0..1
    BY DEF SockInv, Told
  <2> QED
    BY <2>1
<1>6. EndIsTold
  BY DEF EndIsTold, SockInv, Told
<1>7. BufferSane
  BY DEF BufferSane, SockInv, CountedRight, Exact, Live
<1> QED
  BY <1>1, <1>2, <1>3, <1>4, <1>5, <1>6, <1>7 DEF SocksSound

(* SocksSound: list, array, descriptors, stack and buffers agree for any      *)
(* number of sockets and of lines, wherever the callbacks open and close, as  *)
(* long as sock_poll is re-entered once at most: `die' from a line, or        *)
(* SIGTERM during poll().                                                     *)
THEOREM SpecSocksSound ==
    ASSUME MaxNested <= 1
    PROVE  sockSpec => []SocksSound
<1>1. SockInv => SocksSound
  BY SockInvImpliesSound
<1>2. SockInv /\ [sockNext]_sockVars => SockInv'
  BY SockNextInv
<1> QED
  BY SockInitInv, <1>1, <1>2, PTL DEF sockSpec

(* A stack whose callbacks of closed sockets were under way before, or are    *)
(* the EV_HANGUP that follows a flush.                                        *)
Silent(st) ==
    \A k \in 1..Len(st) :
        st[k].pc = "callback" /\ flags[st[k].sock] = "zombie" =>
            \/ k \in 1..Len(stack) /\ st[k] = stack[k]
            \/ k = Len(stack) /\ Returning("hangup") /\ st[k].ev = "HANGUP"

\* A frame that starts no callback of a closed socket.
Mute(f) == f.pc # "callback" \/ flags[f.sock] # "zombie"

LEMMA SilentTop ==
    ASSUME stack \in Seq(Frame), stack # <<>>, NEW f \in Frame, Mute(f)
    PROVE  SetTop(stack, f) \in Seq(Frame) /\ Silent(SetTop(stack, f))
<1> DEFINE t == SetTop(stack, f)
<1>1. /\ t \in Seq(Frame) /\ Len(stack) \in Nat /\ Len(stack) >= 1 /\ Len(t) = Len(stack)
      /\ t[Len(stack)] = f /\ \A k \in 1..Len(stack) : k # Len(stack) => t[k] = stack[k]
  BY TopReplaced
<1> HIDE DEF t
<1>2. Silent(t)
  BY <1>1 DEF Silent, Mute
<1> QED
  BY <1>1, <1>2 DEF t

LEMMA SilentPushed ==
    ASSUME NEW st \in Seq(Frame), Silent(st), NEW f \in Frame, Mute(f)
    PROVE  Silent(Append(st, f))
<1> DEFINE t == Append(st, f)
<1>1. /\ Len(st) \in Nat /\ Len(t) = Len(st) + 1 /\ t[Len(st) + 1] = f
      /\ \A k \in 1..Len(st) : t[k] = st[k]
  BY Pushed
<1> HIDE DEF t
<1>2. ASSUME NEW k \in 1..Len(t), t[k].pc = "callback", flags[t[k].sock] = "zombie"
      PROVE  \/ k \in 1..Len(stack) /\ t[k] = stack[k]
             \/ k = Len(stack) /\ Returning("hangup") /\ t[k].ev = "HANGUP"
  <2>1. k # Len(st) + 1
    BY <1>1, <1>2 DEF Mute
  <2>2. k \in 1..Len(st) /\ t[k] = st[k]
    BY <1>1, <2>1
  <2> QED
    BY <1>2, <2>2 DEF Silent
<1> QED
  BY <1>2 DEF Silent, t

LEMMA SilentPopped ==
    ASSUME stack \in Seq(Frame), stack # <<>>
    PROVE  Silent(Pop)
<1> DEFINE t == SubSeq(stack, 1, Len(stack) - 1)
<1>1. /\ Len(stack) \in Nat /\ Len(stack) >= 1 /\ Len(t) = Len(stack) - 1
      /\ \A k \in 1..(Len(stack) - 1) : t[k] = stack[k]
  BY TopPopped
<1> HIDE DEF t
<1>2. \A k \in 1..Len(t) : k \in 1..Len(stack) /\ t[k] = stack[k]
  BY <1>1
<1>3. Silent(t)
  BY <1>2 DEF Silent
<1> QED
  BY <1>3 DEF Pop, t

(* sock_close flushes only a socket that is open.                             *)
LEMMA SilentClosing ==
    ASSUME NEW st \in Seq(Frame), Silent(st), NEW s \in Sock, close_in(st, s)
    PROVE  Silent(stack')
<1>1. CASE stack' = st
  BY <1>1
<1>2. CASE stack' # st
  <2>1. PICK f : f = [kind |-> "close", pc |-> "callback", i |-> 0, sock |-> s,
                      ev |-> "FLUSH", then |-> "closed", ev_write |-> FALSE]
    OBVIOUS
  <2>2. f \in Frame /\ f.sock = s
    BY <2>1 DEF Frame
  <2>3. stack' = Append(st, f) /\ flags[s] # "zombie"
    BY <1>2, <2>1 DEF close_in
  <2> HIDE <2>1
  <2>4. Mute(f)
    BY <2>2, <2>3 DEF Mute
  <2> QED
    BY <2>2, <2>3, <2>4, SilentPushed
<1> QED
  BY <1>1, <1>2

(* The walk calls back for sockets that are open, or goes on.                 *)
LEMMA SilentDelivery ==
    ASSUME SockInv, AtSock, flags[Here] # "zombie", NEW e \in Events, NEW t \in Afters, Deliver(e, t)
    PROVE  Silent(stack')
<1>1. PICK f \in Frame : stack' = SetTop(stack, f) /\ f.sock = Here
  BY DeliveredFrame
<1>2. Mute(f)
  BY <1>1 DEF Mute
<1>3. stack \in Seq(Frame) /\ stack # <<>>
  BY SockFacts DEF AtSock, InPc
<1> QED
  BY <1>1, <1>2, <1>3, SilentTop

LEMMA SilentProceeding ==
    ASSUME SockInv,
           \/ (InPc("visit") \/ InPc("write")) /\ Proceed("visit", Top.i + 1)
           \/ AtSock /\ Proceed("write", Top.i)
    PROVE  Silent(stack')
<1>1. stack # <<>> /\ stack \in Seq(Frame) /\ Top \in Frame /\ Top.i \in Nat
  <2>1. stack # <<>>
    BY DEF AtSock, InPc
  <2> QED
    BY <2>1, SockFacts
<1>2. CASE Proceed("visit", Top.i + 1)
  <2>1. PICK f : f = Visit(Top, Top.i + 1)
    OBVIOUS
  <2>2. f \in Frame /\ f.pc = "visit"
    BY <1>1, <2>1, VisitFrame
  <2>3. stack' = SetTop(stack, f)
    BY <1>2, <2>1 DEF Proceed
  <2>4. Mute(f)
    BY <2>2 DEF Mute
  <2> QED
    BY <1>1, <2>2, <2>3, <2>4, SilentTop
<1>3. CASE AtSock /\ Proceed("write", Top.i)
  <2>1. Here \in Sock /\ pollfds[Top.i].out \in BOOLEAN
    BY <1>3, HereFacts
  <2>2. PICK f : f = [Top EXCEPT !.pc = "write", !.sock = Here, !.ev_write = pollfds[Top.i].out]
    OBVIOUS
  <2>3. f \in Frame /\ f.pc = "write"
    BY <1>1, <2>1, <2>2 DEF Frame
  <2>4. stack' = SetTop(stack, f)
    BY <1>3, <2>2 DEF Proceed
  <2>5. Mute(f)
    BY <2>3 DEF Mute
  <2> QED
    BY <1>1, <2>3, <2>4, <2>5, SilentTop
<1> QED
  BY <1>2, <1>3

LEMMA SilentWalk == SockInv /\ Walk => Silent(stack')
<1> SUFFICES ASSUME SockInv, Walk PROVE Silent(stack')
  OBVIOUS
<1>1. stack # <<>> => stack \in Seq(Frame) /\ Top \in Frame /\ Top.i \in Nat
  BY SockFacts
<1>2. ASSUME stack # <<>>, NEW i \in Nat PROVE Silent(SetTop(stack, Visit(Top, i)))
  <2>1. Visit(Top, i) \in Frame /\ Visit(Top, i).pc = "visit"
    BY <1>1, <1>2, VisitFrame
  <2>2. Mute(Visit(Top, i))
    BY <2>1 DEF Mute
  <2> QED
    BY <1>1, <1>2, <2>1, <2>2, SilentTop
<1>3. CASE poll_returns \/ walk_ends
  <2>1. stack # <<>> /\ (stack' = SetTop(stack, Visit(Top, 1)) \/ stack' = Pop)
    BY <1>3 DEF poll_returns, walk_ends, poll_fails, InPc
  <2> QED
    BY <1>1, <1>2, <2>1, SilentPopped
<1>4. CASE skip_zombie
  BY <1>4, SilentProceeding DEF skip_zombie, Serving, AtSock
<1>5. CASE so_error \/ read_fails
  <2>1. AtSock /\ flags[Here] # "zombie" /\ Deliver("ERROR", "close")
    BY <1>5 DEF so_error, read_fails, Serving
  <2> QED
    BY <2>1, SilentDelivery DEF Events, Afters
<1>6. CASE serve_connect
  <2>1. AtSock /\ flags[Here] # "zombie"
    BY <1>6 DEF serve_connect, Serving
  <2>2. \/ Deliver("CONNECT", "connected") \/ Deliver("ERROR", "close")
        \/ Proceed("visit", Top.i + 1)
    BY <1>6 DEF serve_connect
  <2>3. CASE Deliver("CONNECT", "connected")
    BY <2>1, <2>3, SilentDelivery DEF Events, Afters
  <2>4. CASE Deliver("ERROR", "close")
    BY <2>1, <2>4, SilentDelivery DEF Events, Afters
  <2>5. CASE Proceed("visit", Top.i + 1)
    BY <2>1, <2>5, SilentProceeding DEF AtSock
  <2> QED
    BY <2>2, <2>3, <2>4, <2>5
<1>7. CASE ssl_connect_fails
  <2>1. stack # <<>> /\ stack' = SetTop(stack, Visit(Top, Top.i + 1))
    BY <1>7 DEF ssl_connect_fails, Serving, AtSock, InPc, Next_
  <2>2. Top.i + 1 \in Nat
    BY <1>1, <2>1
  <2> QED
    BY <1>2, <2>1, <2>2
<1>8. CASE serve_listen
  <2>1. AtSock /\ flags[Here] # "zombie"
    BY <1>8 DEF serve_listen, Serving
  <2>2. Deliver("ACCEPT", "next") \/ Proceed("visit", Top.i + 1)
    BY <1>8 DEF serve_listen
  <2>3. CASE Deliver("ACCEPT", "next")
    BY <2>1, <2>3, SilentDelivery DEF Events, Afters
  <2>4. CASE Proceed("visit", Top.i + 1)
    BY <2>1, <2>4, SilentProceeding DEF AtSock
  <2> QED
    BY <2>2, <2>3, <2>4
<1>9. CASE read_data \/ read_nothing
  <2>1. AtSock /\ flags[Here] # "zombie"
    BY <1>9 DEF read_data, read_nothing, Serving
  <2>2. Deliver("LINE", "line") \/ Proceed("write", Top.i)
    BY <1>9 DEF read_data, read_nothing
  <2>3. CASE Deliver("LINE", "line")
    BY <2>1, <2>3, SilentDelivery DEF Events, Afters
  <2>4. CASE Proceed("write", Top.i)
    BY <2>1, <2>4, SilentProceeding
  <2> QED
    BY <2>2, <2>3, <2>4
<1>10. CASE read_hangup
  <2>1. AtSock /\ flags[Here] # "zombie" /\ (Deliver("FLUSH", "hangup") \/ Deliver("HANGUP", "close"))
    BY <1>10 DEF read_hangup, Serving
  <2>2. CASE Deliver("FLUSH", "hangup")
    BY <2>1, <2>2, SilentDelivery DEF Events, Afters
  <2>3. CASE Deliver("HANGUP", "close")
    BY <2>1, <2>3, SilentDelivery DEF Events, Afters
  <2> QED
    BY <2>1, <2>2, <2>3
<1>11. CASE serve_write
  <2>1. CASE Proceed("visit", Top.i + 1)
    BY <1>11, <2>1, SilentProceeding DEF serve_write
  <2>2. CASE write_ready(Top.sock) /\ stack' = SetTop(stack, Calling(Top, Top.sock, "WRITE", "next"))
    <3>1. stack # <<>> /\ Top.sock \in Sock
      BY <1>11, SockFacts DEF serve_write, InPc
    <3>2. PICK f : f = Calling(Top, Top.sock, "WRITE", "next")
      OBVIOUS
    <3>3. "WRITE" \in Events /\ "next" \in Afters
      BY DEF Events, Afters
    <3>4. f \in Frame /\ f.sock = Top.sock
      BY <1>1, <3>1, <3>2, <3>3, CallingFrame
    <3> HIDE <3>2
    <3>5. Mute(f)
      BY <2>2, <3>4 DEF Mute, write_ready
    <3>6. stack' = SetTop(stack, f)
      BY <2>2, <3>2
    <3> QED
      BY <1>1, <3>1, <3>4, <3>5, <3>6, SilentTop
  <2> QED
    BY <1>11, <2>1, <2>2 DEF serve_write
<1> QED
  BY <1>3, <1>4, <1>5, <1>6, <1>7, <1>8, <1>9, <1>10, <1>11 DEF Walk

(* Where a callback returns, only EV_HANGUP follows for a closed socket.      *)
LEMMA SilentReturn == SockInv /\ Return => Silent(stack')
<1> SUFFICES ASSUME SockInv, Return PROVE Silent(stack')
  OBVIOUS
<1>1. /\ stack # <<>> /\ stack \in Seq(Frame) /\ Top \in Frame /\ Top.sock \in Sock /\ Top.i \in Nat
      /\ Top = stack[Len(stack)] /\ Len(stack) \in Nat /\ Len(stack) >= 1
  <2>1. stack # <<>>
    BY DEF Return, return_next, return_connected, return_close, return_hangup, return_line, flush_return,
       Returning, InPc
  <2> QED
    BY <2>1, SockFacts
<1>2. PICK g : g = Next_(Top)
  OBVIOUS
<1>3. g \in Frame /\ g.pc = "visit"
  BY <1>1, <1>2, VisitFrame
<1>4. SetTop(stack, g) \in Seq(Frame) /\ Silent(SetTop(stack, g))
  <2>1. Mute(g)
    BY <1>3 DEF Mute
  <2> QED
    BY <1>1, <1>3, <2>1, SilentTop
<1>5. CASE return_next \/ return_connected
  BY <1>2, <1>4, <1>5 DEF return_next, return_connected
<1>6. CASE return_close
  <2>1. close_in(SetTop(stack, g), Top.sock)
    BY <1>2, <1>6 DEF return_close
  <2> QED
    BY <1>1, <1>4, <2>1, SilentClosing
<1>7. CASE return_hangup
  <2>1. PICK f : f = Calling(Top, Top.sock, "HANGUP", "close")
    OBVIOUS
  <2>2. "HANGUP" \in Events /\ "close" \in Afters
    BY DEF Events, Afters
  <2>3. f \in Frame /\ f.ev = "HANGUP"
    BY <1>1, <2>1, <2>2, CallingFrame
  <2>4. stack' = SetTop(stack, f) /\ Returning("hangup")
    BY <1>7, <2>1 DEF return_hangup
  <2>5. /\ Len(stack') = Len(stack) /\ stack'[Len(stack)] = f
        /\ \A k \in 1..Len(stack) : k # Len(stack) => stack'[k] = stack[k]
    BY <1>1, <2>3, <2>4, TopReplaced
  <2> QED
    BY <2>3, <2>4, <2>5 DEF Silent
<1>8. CASE return_line
  <2>1. CASE stack' = stack
    BY <2>1 DEF Silent
  <2>2. CASE stack' = SetTop(stack, [Top EXCEPT !.pc = "write"])
    <3>1. PICK f : f = [Top EXCEPT !.pc = "write"]
      OBVIOUS
    <3>2. f \in Frame /\ f.pc = "write"
      BY <1>1, <3>1 DEF Frame
    <3>3. Mute(f)
      BY <3>2 DEF Mute
    <3> QED
      BY <1>1, <2>2, <3>1, <3>2, <3>3, SilentTop
  <2> QED
    BY <1>8, <2>1, <2>2 DEF return_line
<1>9. CASE flush_return
  BY <1>1, <1>9, SilentPopped DEF flush_return
<1> QED
  BY <1>5, <1>6, <1>7, <1>8, <1>9 DEF Return

(* What an owner does, and a call of sock_poll.                               *)
LEMMA SilentOwner ==
    ASSUME SockInv, SockInv', main_poll \/ nested_poll \/ Owner
    PROVE  Silent(stack')
<1>1. stack \in Seq(Frame) /\ Silent(stack)
  BY SockFacts DEF Silent
<1>2. CASE stack' = stack
  BY <1>1, <1>2 DEF Silent
<1>3. CASE main_poll \/ nested_poll
  <2>1. PICK f : f = [kind |-> "poll", pc |-> "wait", i |-> 1, sock |-> sock_list'[1],
                      ev |-> "", then |-> "", ev_write |-> FALSE]
    OBVIOUS
  <2>2. sock_list' # <<>> => stack' = Append(stack, f)
    BY <1>3, <2>1 DEF main_poll, nested_poll, poll_begin
  <2>3. sock_list' = <<>> => stack' = stack
    BY <1>3 DEF main_poll, nested_poll, poll_begin
  <2>4. CASE sock_list' # <<>>
    <3>1. sock_list' \in Seq(Sock)
      BY DEF SockInv, SockTypes
    <3>2. sock_list'[1] \in Sock
      BY <2>4, <3>1
    <3>3. f \in Frame /\ f.pc = "wait"
      BY <2>1, <3>2 DEF Frame
    <3>4. Mute(f)
      BY <3>3 DEF Mute
    <3> QED
      BY <1>1, <2>2, <2>4, <3>3, <3>4, SilentPushed
  <2> QED
    BY <1>2, <2>3, <2>4
<1>4. CASE Owner
  <2>1. PICK s \in Sock :
            sock_connect(s) \/ sock_listen(s) \/ sock_accept(s) \/ sock_write(s) \/ sock_close(s)
    BY <1>4 DEF Owner
  <2>2. CASE sock_close(s)
    <3>1. close_in(stack, s)
      BY <2>2 DEF sock_close, close_owned
    <3> QED
      BY <1>1, <3>1, SilentClosing
  <2>3. CASE ~sock_close(s)
    <3>1. stack' = stack
      BY <2>1, <2>3 DEF sock_connect, sock_listen, sock_accept, sock_write, add_sock
    <3> QED
      BY <1>2, <3>1
  <2> QED
    BY <2>2, <2>3
<1> QED
  BY <1>3, <1>4

LEMMA SilentStep ==
    ASSUME SockInv, SockInv', [sockNext]_sockVars
    PROVE  /\ stack \in Seq(Frame) /\ (stack \in Seq(Frame))'
           /\ Silent(stack')
<1>1. stack \in Seq(Frame) /\ (stack \in Seq(Frame))'
  BY DEF SockInv, SockTypes
<1>2. ASSUME UNCHANGED sockVars PROVE Silent(stack')
  <2>1. stack' = stack
    BY <1>2 DEF sockVars
  <2> QED
    BY <2>1 DEF Silent
<1>3. ASSUME sockNext PROVE Silent(stack')
  <2>1. main_poll \/ nested_poll \/ Walk \/ Return \/ Owner
    BY <1>3 DEF sockNext
  <2>2. CASE Walk
    BY <2>2, SilentWalk
  <2>3. CASE Return
    BY <2>3, SilentReturn
  <2>4. CASE main_poll \/ nested_poll \/ Owner
    BY <2>4, SilentOwner
  <2> QED
    BY <2>1, <2>2, <2>3, <2>4
<1> QED
  BY <1>1, <1>2, <1>3

(* ClosedIsSilent: a closed socket's owner is called for no more events,      *)
(* other than the hangup in whose flush it was closed.                        *)
THEOREM SpecClosedIsSilent ==
    ASSUME MaxNested <= 1
    PROVE  sockSpec => ClosedIsSilent
<1>1. SockInv /\ [sockNext]_sockVars => SockInv'
  BY SockNextInv
<1>2. SockInv /\ [sockNext]_sockVars =>
        [\A k \in DOMAIN stack' :
            stack'[k].pc = "callback" /\ flags[stack'[k].sock] = "zombie" =>
               \/ k \in DOMAIN stack /\ stack'[k] = stack[k]
               \/ k = Len(stack) /\ Returning("hangup") /\ stack'[k].ev = "HANGUP"]_sockVars
  <2> SUFFICES ASSUME SockInv, [sockNext]_sockVars, NEW k \in DOMAIN stack',
                      stack'[k].pc = "callback", flags[stack'[k].sock] = "zombie"
               PROVE  \/ k \in DOMAIN stack /\ stack'[k] = stack[k]
                      \/ k = Len(stack) /\ Returning("hangup") /\ stack'[k].ev = "HANGUP"
    OBVIOUS
  <2>1. SockInv'
    BY <1>1
  <2>2. stack \in Seq(Frame) /\ (stack \in Seq(Frame))' /\ Silent(stack')
    BY <2>1, SilentStep
  <2>3. DOMAIN stack' = 1..Len(stack') /\ DOMAIN stack = 1..Len(stack)
    BY <2>2
  <2> QED
    BY <2>2, <2>3 DEF Silent
<1> QED
  BY SockInitInv, <1>1, <1>2, PTL DEF sockSpec, ClosedIsSilent
=============================================================================
