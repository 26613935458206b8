-------------------------------- MODULE Timer --------------------------------
(* timer.c: one list of timers, walked once per turn of the main loop.  The   *)
(* list is a dict that inserts at its head, and timer ids only grow, so the   *)
(* order of the list is the order of decreasing ids: `timers' is the set of   *)
(* the nodes and the successor of a node is the greatest smaller id.          *)
(* Everything runs on one thread, but a callback started by timer_poll may    *)
(* call timer_add and timer_del while the walk stands on its node.            *)
EXTENDS Integers, FiniteSets

CONSTANTS Tag,       \* classes of <<bound, name, func, data>> that timer_del can tell apart
          Delay,     \* how far ahead of `now' callers set a timer
          MaxTimers, \* bound: timers created in a behaviour
          MaxNow     \* bound: the last second of a behaviour

ASSUME TimerAssumption ==
    /\ Delay \subseteq Nat
    /\ MaxTimers \in Nat
    /\ MaxNow \in Nat

VARIABLES timers,        \* the nodes of the dict
          next_timer_id,
          now,           \* the global second, read once per turn
          pc,            \* "loop": outside timer_poll, "scan": in its walk, "callback": in tmr->func
          node,          \* id of the node the walk stands on
          pollStart      \* next_timer_id when the walk began; history only

vars == <<timers, next_timer_id, now, pc, node, pollStart>>

NULL == -1
Id == 0 .. MaxTimers - 1
Timer == [id : Id, tag : Tag, time : Int, triggered : BOOLEAN]

Current == {t \in timers : t.id = node}

\* Mutant: only timers of this very second are due.
Due_exact(t) == t.time = now

Due(t) == t.time <= now

\* The id that follows `n' in the list, or NULL: the set has one member.
NextNode(n, S) ==
    {m \in {t.id : t \in S} \cup {NULL} :
        /\ m < n
        /\ \A t \in S : ~(m < t.id /\ t.id < n)}

Init ==
    /\ timers = {}
    /\ next_timer_id = 0
    /\ now = 0
    /\ pc = "loop"
    /\ node = NULL
    /\ pollStart = 0

\* main: now = time(NULL) at the top of a turn.
LoopTurn ==
    /\ pc = "loop"
    /\ now' \in now + 1 .. MaxNow
    /\ UNCHANGED <<timers, next_timer_id, pc, node, pollStart>>

\* Called from loop functions and socket handlers, and from timer callbacks.
timer_add(tag, time) ==
    /\ pc \in {"loop", "callback"}
    /\ next_timer_id < MaxTimers
    /\ timers' = timers \cup
           {[id |-> next_timer_id, tag |-> tag, time |-> time, triggered |-> FALSE]}
    /\ next_timer_id' = next_timer_id + 1
    /\ UNCHANGED <<now, pc, node, pollStart>>

\* Mutant: a running timer can be deleted by its own callback.
Matches_triggered(t, tags) == t.tag \in tags

\* The flags of a call select the classes `tags'; no caller matches on the time.
Matches(t, tags) == t.tag \in tags /\ ~t.triggered

timer_exists(tags) == \E t \in timers : Matches(t, tags)

timer_del(tags) ==
    /\ pc \in {"loop", "callback"}
    /\ timer_exists(tags)
    /\ timers' = {t \in timers : ~Matches(t, tags)}
    /\ UNCHANGED <<next_timer_id, now, pc, node, pollStart>>

timer_poll_begin ==
    /\ pc = "loop"
    /\ pc' = "scan"
    /\ node' \in NextNode(next_timer_id, timers)
    /\ pollStart' = next_timer_id
    /\ UNCHANGED <<timers, next_timer_id, now>>

timer_poll_skip ==
    /\ pc = "scan"
    /\ \E t \in Current : ~Due(t)
    /\ node' \in NextNode(node, timers)
    /\ UNCHANGED <<timers, next_timer_id, now, pc, pollStart>>

\* Mutant: the timer is not marked before its callback is called.
timer_poll_trigger_unmarked ==
    /\ pc = "scan"
    /\ \E t \in Current : Due(t)
    /\ pc' = "callback"
    /\ UNCHANGED <<timers, next_timer_id, now, node, pollStart>>

timer_poll_trigger ==
    /\ pc = "scan"
    /\ \E t \in Current :
         /\ Due(t)
         /\ timers' = (timers \ {t}) \cup {[t EXCEPT !.triggered = TRUE]}
    /\ pc' = "callback"
    /\ UNCHANGED <<next_timer_id, now, node, pollStart>>

\* tmr->func has returned: node->next is read only now.
timer_poll_return ==
    /\ pc = "callback"
    /\ timers' = timers \ Current
    /\ node' \in NextNode(node, timers)
    /\ pc' = "scan"
    /\ UNCHANGED <<next_timer_id, now, pollStart>>

timer_poll_end ==
    /\ pc = "scan"
    /\ node = NULL
    /\ pc' = "loop"
    /\ UNCHANGED <<timers, next_timer_id, now, node, pollStart>>

timer_poll ==
    timer_poll_begin \/ timer_poll_skip \/ timer_poll_trigger
        \/ timer_poll_return \/ timer_poll_end

Next ==
    \/ LoopTurn
    \/ \E tag \in Tag, d \in Delay : timer_add(tag, now + d)
    \/ \E tags \in SUBSET Tag : timer_del(tags)
    \/ timer_poll

Spec == Init /\ [][Next]_vars

\* The main loop never stops calling timer_poll, and a callback returns; the
\* clock advances, and the loop reads it again and again.
FairSpec == Spec /\ WF_vars(timer_poll) /\ SF_vars(LoopTurn)
-----------------------------------------------------------------------------
(* Type invariant of timer.c's state; timer ids are handed out once.          *)
TypeOK ==
    /\ timers \subseteq Timer
    /\ \A t, u \in timers : t.id = u.id => t = u
    /\ \A t \in timers : t.id < next_timer_id
    /\ next_timer_id \in 0 .. MaxTimers
    /\ now \in 0 .. MaxNow
    /\ pc \in {"loop", "scan", "callback"}
    /\ node \in Id \cup {NULL}
    /\ pollStart \in 0 .. MaxTimers

(* timer_poll reads node->next and frees the timer after the callback: the    *)
(* node it stands on must still be in the list, and be the triggered one,     *)
(* whatever the callback deleted.                                             *)
CursorInList ==
    /\ pc = "scan" /\ node # NULL => \E t \in timers : t.id = node /\ ~t.triggered
    /\ pc = "callback" => \E t \in timers : t.id = node /\ t.triggered

(* A walk leaves no timer behind: the due timers that remain when it ends     *)
(* were all added while it ran.                                               *)
NoDueTimerSkipped ==
    pc = "scan" /\ node = NULL =>
        \A t \in timers : t.time <= now => t.id >= pollStart

(* A timer added by a callback for "now" (chanjoin, chanreg and chanfw do it) *)
(* waits for the next turn: a callback that re-arms itself cannot keep the    *)
(* walk from ending.                                                          *)
NewTimersWait ==
    \A t \in timers : t.triggered => t.id < pollStart

(* The inductive invariant behind the above: between two turns the cursor is *)
(* NULL, only the timer under the cursor can be triggered, and what the walk   *)
(* has passed of the list it started on is not due.                            *)
WalkInv ==
    /\ pollStart <= next_timer_id
    /\ pc = "loop" => node = NULL
    /\ pc # "loop" => node < pollStart
    /\ \A t \in timers : t.triggered => pc = "callback" /\ t.id = node
    /\ pc # "loop" =>
         \A t \in timers : node < t.id /\ t.id < pollStart => now < t.time

(* timer_poll's walk is sound: its pointers are good, it leaves out no timer   *)
(* that was due, and takes none that was added meanwhile.                     *)
WalkSound == TypeOK /\ CursorInList /\ NoDueTimerSkipped /\ NewTimersWait

(* The list implements the promise of TimerSpec: fire once, not early, never  *)
(* after timer_del, one callback at a time.                                   *)
Promise == INSTANCE TimerSpec WITH
    armed <- {[id |-> t.id, tag |-> t.tag, time |-> t.time] :
                t \in {u \in timers : ~u.triggered}},
    running <- IF pc = "callback"
               THEN LET t == CHOOSE u \in timers : u.id = node
                    IN [id |-> t.id, tag |-> t.tag, time |-> t.time]
               ELSE [id |-> NULL],
    clock <- now,
    Time <- {n + d : n \in 0 .. MaxNow, d \in Delay}

(* timer.c keeps the promise of TimerSpec.                                    *)
ImplementsTimerSpec == Promise!Spec

(* Every armed timer whose time can come fires or is deleted.                 *)
EveryTimerServed ==
    \A i \in Id :
        (\E t \in timers : t.id = i /\ ~t.triggered /\ t.time <= MaxNow)
            ~> (\A t \in timers : t.id # i)
=============================================================================
