------------------------------ MODULE SockPoll ------------------------------
(***************************************************************************)
(* src/sock.c: the socket list and sock_poll, the one place where the      *)
(* program waits.  sock_poll destroys the sockets closed since its last    *)
(* call, fills pollfds in the order of the list, polls, and walks the list *)
(* by index.  Every event is a callback, and a callback may open and close *)
(* any socket, so the list and the walk over it interleave.  sock_close    *)
(* itself calls back: it hands the rest of the read buffer to read_func    *)
(* before it marks the socket.  Two callers re-enter sock_poll: the signal *)
(* handler sig_exit, while the outer call is in poll(), and the command    *)
(* `die', from a line that the outer call is delivering.                   *)
(*                                                                         *)
(* The call stack is a sequence of frames: a sock_poll at some index or a  *)
(* sock_close flushing a buffer.  What poll() reports is chosen when the   *)
(* socket is visited; POLLOUT only if it was asked for.  UDP, config_poll  *)
(* and unbuffered sockets are left out (see the README).                   *)
(***************************************************************************)
EXTENDS Integers, Sequences, FiniteSets

CONSTANTS
    Sock,         \* the addresses a struct sock may have
    MaxLines,     \* complete lines a read buffer may hold
    MaxNested     \* re-entrant calls during one outermost sock_poll

ASSUME SockAssumption ==
    /\ IsFiniteSet(Sock)
    /\ MaxLines \in Nat \ {0}
    /\ MaxNested \in Nat

VARIABLES
    wild,           \* whether there are nested calls, and read_funcs that close their own
                    \* socket (srvx_auth_response); chosen at the start
    sock_list,      \* the sockets, in the order of sock_list->data
    pollfds,        \* the entries sock_poll filled: the fd and whether POLLOUT was asked for
    last_numsocks,  \* the static count the walk goes up to
    flags,          \* "none" (no such struct), "connect", "listen", "open" or "zombie"
    fd,             \* sock->fd, 0 for -1
    buf,            \* the read buffer: complete lines, a partial line, read_buf_used in lines
    send_queue,     \* whether something is queued
    stack,          \* the calls under way
    nested,         \* re-entrant calls since the outermost sock_poll began
    heard           \* what the socket's owner was told: EV_CONNECTs, and EV_ERRORs and EV_HANGUPs, and who
                    \* else closed it; history only

NothingHeard == [connect |-> 0, end |-> 0, closed |-> "no"]

sockVars == <<wild, sock_list, pollfds, last_numsocks, flags, fd, buf, send_queue, stack, nested, heard>>

Fds == 1..Cardinality(Sock)
EmptyBuf == [lines |-> 0, part |-> FALSE, used |-> 0]
Live == {s \in Sock : flags[s] # "none"}

sockInit ==
    /\ wild \in BOOLEAN
    /\ sock_list = <<>>
    /\ pollfds = <<>>
    /\ last_numsocks = 0
    /\ flags = [s \in Sock |-> "none"]
    /\ fd = [s \in Sock |-> 0]
    /\ buf = [s \in Sock |-> EmptyBuf]
    /\ send_queue = [s \in Sock |-> FALSE]
    /\ stack = <<>>
    /\ nested = 0
    /\ heard = [s \in Sock |-> NothingHeard]

----------------------------------------------------------------------------
(* Frames.  A poll frame is at index i; `sock' is the socket it holds a    *)
(* pointer to and ev_write whether it may be written; in pc "callback" it runs the owner's function for event ev  *)
(* and goes on at `then' when that returns.                                *)

Top == stack[Len(stack)]
InPc(pc) == stack # <<>> /\ Top.pc = pc
SetTop(st, f) == [st EXCEPT ![Len(st)] = f]
Pop == SubSeq(stack, 1, Len(stack) - 1)

Visit(f, i) == [f EXCEPT !.pc = "visit", !.i = i]
Next_(f) == Visit(f, f.i + 1)
Calling(f, s, e, t) == [f EXCEPT !.pc = "callback", !.sock = s, !.ev = e, !.then = t]

\* The owner's code runs: between two calls of sock_poll, or inside a callback.
InOwner == stack = <<>> \/ InPc("callback")

\* The lines of s are being delivered: its buffer starts with the line in hand, cut off by a NUL.
Delivering(s) == \E k \in 1..Len(stack) : stack[k].ev = "LINE" /\ stack[k].pc = "callback" /\ stack[k].sock = s
Closing(s) == \E k \in 1..Len(stack) : stack[k].kind = "close" /\ stack[k].sock = s

----------------------------------------------------------------------------
(* sock_create with sock_connect, sock_listen or sock_accept: the socket   *)
(* gets the lowest free descriptor and goes to the end of the list.        *)

FreeFds == Fds \ {fd[s] : s \in {t \in Live : ~Closing(t)}}

add_sock(s, flag) ==
    /\ flags[s] = "none"
    /\ \E f \in FreeFds :
        /\ \A g \in FreeFds : f <= g
        /\ fd' = [fd EXCEPT ![s] = f]
    /\ flags' = [flags EXCEPT ![s] = flag]
    /\ sock_list' = Append(sock_list, s)
    /\ buf' = [buf EXCEPT ![s] = EmptyBuf]
    /\ send_queue' = [send_queue EXCEPT ![s] = FALSE]
    /\ UNCHANGED <<pollfds, last_numsocks, stack, nested, heard>>

sock_connect(s) == InOwner /\ add_sock(s, "connect")
sock_listen(s) == InOwner /\ add_sock(s, "listen")
sock_accept(s) == InPc("callback") /\ Top.ev = "ACCEPT" /\ add_sock(s, "open")

sock_write(s) ==
    /\ InOwner
    /\ flags[s] \in {"connect", "open"}
    /\ heard[s].end = 0
    /\ ~send_queue[s]
    /\ send_queue' = [send_queue EXCEPT ![s] = TRUE]
    /\ UNCHANGED <<sock_list, pollfds, last_numsocks, flags, fd, buf, stack, nested, heard>>

----------------------------------------------------------------------------
(* sock_close, called in stack st: a socket with an empty buffer becomes a *)
(* zombie at once; otherwise the descriptor is closed and read_func gets   *)
(* what is left in the buffer first.                                       *)

close_in(st, s) ==
    IF flags[s] = "zombie"
    THEN stack' = st /\ UNCHANGED <<flags, fd>>
    ELSE IF buf[s].used = 0
         THEN /\ stack' = st
              /\ flags' = [flags EXCEPT ![s] = "zombie"]
              /\ fd' = [fd EXCEPT ![s] = 0]
         ELSE /\ stack' = Append(st, [kind |-> "close", pc |-> "callback", i |-> 0, sock |-> s,
                                      ev |-> "FLUSH", then |-> "closed", ev_write |-> FALSE])
              /\ UNCHANGED <<flags, fd>>

\* Mutant: the socket leaves the list when it is closed, not at the next sweep.
close_unlists(s) ==
    /\ sock_list' = SelectSeq(sock_list, LAMBDA t : t # s)
    /\ flags' = [flags EXCEPT ![s] = "none"]
    /\ fd' = [fd EXCEPT ![s] = 0]
    /\ stack' = stack

close_owned(s) == close_in(stack, s) /\ UNCHANGED sock_list

\* An owner closes a socket it has not been told the end of.
sock_close(s) ==
    /\ InOwner
    /\ flags[s] \notin {"none", "zombie"}
    /\ heard[s].end = 0
    /\ ~Closing(s)
    /\ Delivering(s) => wild
    /\ close_owned(s)
    /\ heard' = [heard EXCEPT ![s].closed = "owner"]
    /\ UNCHANGED <<pollfds, last_numsocks, buf, send_queue, nested>>

\* sock_flush_readbuf after its callback: the buffer is emptied by a NUL at its start, so the
\* lines behind a line in hand are still there when sock_poll moves them to the front.
flushed(s) ==
    [buf EXCEPT ![s] = IF Delivering(s) THEN [@ EXCEPT !.used = 0] ELSE EmptyBuf]

flush_return ==
    /\ InPc("callback") /\ Top.kind = "close"
    /\ buf' = flushed(Top.sock)
    /\ flags' = [flags EXCEPT ![Top.sock] = "zombie"]
    /\ fd' = [fd EXCEPT ![Top.sock] = 0]
    /\ stack' = Pop
    /\ UNCHANGED <<sock_list, pollfds, last_numsocks, send_queue, nested, heard>>

----------------------------------------------------------------------------
(* sock_poll up to poll().  The sweep destroys zombies; list.h replaces a  *)
(* deleted entry by the last one, so the index is looked at again.         *)

list_del_at(l, i) == SubSeq([l EXCEPT ![i] = l[Len(l)]], 1, Len(l) - 1)

\* Mutant: the sweep stops before the last entry.
Sweep_short(l) ==
    LET step[s \in [i : Nat, l : Seq(Sock)]] ==
            IF s.i >= Len(s.l) THEN s
            ELSE IF flags[s.l[s.i]] = "zombie" THEN [s EXCEPT !.l = list_del_at(s.l, s.i)]
            ELSE [s EXCEPT !.i = @ + 1]
        sweep[n \in Nat] == IF n = 0 THEN [i |-> 1, l |-> l] ELSE step[sweep[n - 1]]
    IN  sweep[Len(l)].l

Sweep(l) ==
    LET step[s \in [i : Nat, l : Seq(Sock)]] ==
            IF s.i > Len(s.l) THEN s
            ELSE IF flags[s.l[s.i]] = "zombie" THEN [s EXCEPT !.l = list_del_at(s.l, s.i)]
            ELSE [s EXCEPT !.i = @ + 1]
        sweep[n \in Nat] == IF n = 0 THEN [i |-> 1, l |-> l] ELSE step[sweep[n - 1]]
    IN  sweep[Len(l)].l

WantsOut(s) == flags[s] = "connect" \/ (flags[s] # "listen" /\ send_queue[s])

Filled(l) == [k \in 1..Len(l) |-> [fd |-> fd[l[k]], out |-> WantsOut(l[k])]]

poll_begin ==
    /\ sock_list' = Sweep(sock_list)
    /\ last_numsocks' = Len(sock_list')
    /\ pollfds' = Filled(sock_list')
    /\ flags' = [s \in Sock |-> IF flags[s] = "zombie" /\ ~\E k \in DOMAIN sock_list' : sock_list'[k] = s
                                THEN "none" ELSE flags[s]]
    /\ stack' = IF sock_list' = <<>> THEN stack
                ELSE Append(stack, [kind |-> "poll", pc |-> "wait", i |-> 1, sock |-> sock_list'[1],
                                    ev |-> "", then |-> "", ev_write |-> FALSE])
    /\ heard' = [s \in Sock |-> IF flags'[s] = "none" THEN NothingHeard ELSE heard[s]]
    /\ UNCHANGED <<fd, buf, send_queue>>

\* The main loop's call.
main_poll == stack = <<>> /\ nested' = 0 /\ poll_begin

\* `die' from a line of the IRC connection, which no command closes, or sig_exit while the
\* process is in poll().
nested_poll ==
    /\ wild
    /\ nested < MaxNested
    /\ \/ InPc("wait")
       \/ InPc("callback") /\ Top.ev = "LINE" /\ flags[Top.sock] # "zombie"
    /\ nested' = nested + 1
    /\ poll_begin

poll_fails ==
    /\ pollfds' = <<>>
    /\ last_numsocks' = 0
    /\ stack' = Pop

poll_returns ==
    /\ InPc("wait")
    /\ \/ stack' = SetTop(stack, Visit(Top, 1)) /\ UNCHANGED <<pollfds, last_numsocks>>
       \/ poll_fails
    /\ UNCHANGED <<sock_list, flags, fd, buf, send_queue, nested, heard>>

----------------------------------------------------------------------------
(* The walk.  The assertion that list and pollfds agree is FdsMatch below. *)

AtSock == InPc("visit") /\ Top.i <= last_numsocks
Here == sock_list[Top.i]
Serving(flag) == AtSock /\ flags[Here] = flag

Tell(s, what) == [heard EXCEPT ![s][what] = @ + 1]

\* The event e of the socket in hand is delivered, and t is done when the callback returns.
Deliver(e, t) ==
    /\ stack' = SetTop(stack, [Calling(Top, Here, e, t) EXCEPT !.ev_write = pollfds[Top.i].out])
    /\ heard' = CASE e = "CONNECT" -> Tell(Here, "connect")
                  [] e \in {"ERROR", "HANGUP"} -> Tell(Here, "end")
                  [] OTHER -> heard
    /\ UNCHANGED <<sock_list, pollfds, last_numsocks, flags, fd, send_queue, nested>>

Proceed(pc, i) ==
    /\ stack' = SetTop(stack, IF pc = "visit" THEN Visit(Top, i)
                              ELSE [Top EXCEPT !.pc = pc, !.sock = Here, !.ev_write = pollfds[i].out])
    /\ UNCHANGED <<sock_list, pollfds, last_numsocks, send_queue, nested, heard>>

walk_ends ==
    /\ InPc("visit") /\ Top.i > last_numsocks
    /\ stack' = Pop
    /\ UNCHANGED <<sock_list, pollfds, last_numsocks, flags, fd, buf, send_queue, nested, heard>>

skip_zombie == Serving("zombie") /\ Proceed("visit", Top.i + 1) /\ UNCHANGED <<flags, fd, buf>>

so_error ==
    /\ AtSock /\ flags[Here] # "zombie"
    /\ Deliver("ERROR", "close")
    /\ UNCHANGED buf

\* A connecting socket: writable, readable but not writable, or nothing yet.
serve_connect ==
    /\ Serving("connect")
    /\ \/ pollfds[Top.i].out /\ Deliver("CONNECT", "connected")
       \/ Deliver("ERROR", "close")
       \/ Proceed("visit", Top.i + 1) /\ UNCHANGED <<flags, fd>>
    /\ UNCHANGED buf

\* SSL_connect fails: the socket is closed and its owner is not told.
ssl_connect_fails ==
    /\ Serving("connect") /\ pollfds[Top.i].out
    /\ stack' = SetTop(stack, Next_(Top))
    /\ flags' = [flags EXCEPT ![Here] = "zombie"]
    /\ fd' = [fd EXCEPT ![Here] = 0]
    /\ heard' = [heard EXCEPT ![Here].closed = "SSL"]
    /\ UNCHANGED <<sock_list, pollfds, last_numsocks, buf, send_queue, nested>>

serve_listen ==
    /\ Serving("listen")
    /\ \/ Deliver("ACCEPT", "next")
       \/ Proceed("visit", Top.i + 1) /\ UNCHANGED <<flags, fd>>
    /\ UNCHANGED buf

\* read() delivers n complete lines, and perhaps the start of another one.  While a line of the
\* socket is in hand further up the stack, the NUL behind it hides what is appended.
read_data ==
    /\ Serving("open")
    /\ \E n \in 0..(MaxLines - buf[Here].lines), p \in BOOLEAN :
        LET b == buf[Here]
            b2 == [lines |-> b.lines + n, part |-> p, used |-> b.used + n - (IF b.part THEN 1 ELSE 0)
                                                               + (IF p THEN 1 ELSE 0)]
        IN /\ n = 0 => p
           /\ buf' = [buf EXCEPT ![Here] = b2]
           /\ IF n > 0 /\ ~Delivering(Here)
              THEN Deliver("LINE", "line")
              ELSE Proceed("write", Top.i) /\ UNCHANGED <<flags, fd>>

read_nothing == Serving("open") /\ Proceed("write", Top.i) /\ UNCHANGED <<flags, fd, buf>>

read_fails == Serving("open") /\ Deliver("ERROR", "close") /\ UNCHANGED buf

read_hangup ==
    /\ Serving("open")
    /\ IF buf[Here].used # 0 THEN Deliver("FLUSH", "hangup") ELSE Deliver("HANGUP", "close")
    /\ UNCHANGED buf

\* Mutant: the socket is written to although a read callback has closed it.
write_ready_zombie(s) == Top.ev_write /\ send_queue[s]

write_ready(s) == Top.ev_write /\ send_queue[s] /\ flags[s] # "zombie"

\* The queue is sent, in full or in part, or the write fails and is only logged.
serve_write ==
    /\ InPc("write")
    /\ \/ /\ write_ready(Top.sock)
          /\ \E rest \in BOOLEAN : send_queue' = [send_queue EXCEPT ![Top.sock] = rest]
          /\ stack' = SetTop(stack, Calling(Top, Top.sock, "WRITE", "next"))
          /\ UNCHANGED <<sock_list, pollfds, last_numsocks, nested, heard>>
       \/ Proceed("visit", Top.i + 1)
    /\ UNCHANGED <<flags, fd, buf>>

----------------------------------------------------------------------------
(* A callback returns to the walk.                                         *)

Returning(t) == InPc("callback") /\ Top.then = t

return_next ==
    /\ Returning("next")
    /\ stack' = SetTop(stack, Next_(Top))
    /\ UNCHANGED <<sock_list, pollfds, last_numsocks, flags, fd, buf, send_queue, nested, heard>>

\* SOCK_CONNECT is cleared whether or not the callback closed the socket.
clear_connect(s) == IF flags[s] = "connect" THEN [flags EXCEPT ![s] = "open"] ELSE flags

return_connected ==
    /\ Returning("connected")
    /\ flags' = clear_connect(Top.sock)
    /\ stack' = SetTop(stack, Next_(Top))
    /\ UNCHANGED <<sock_list, pollfds, last_numsocks, fd, buf, send_queue, nested, heard>>

\* EV_ERROR and EV_HANGUP are followed by sock_close.
return_close ==
    /\ Returning("close")
    /\ close_in(SetTop(stack, Next_(Top)), Top.sock)
    /\ UNCHANGED <<sock_list, pollfds, last_numsocks, buf, send_queue, nested, heard>>

\* The flush at a hangup is followed by EV_HANGUP.
return_hangup ==
    /\ Returning("hangup")
    /\ buf' = flushed(Top.sock)
    /\ stack' = SetTop(stack, Calling(Top, Top.sock, "HANGUP", "close"))
    /\ heard' = Tell(Top.sock, "end")
    /\ UNCHANGED <<sock_list, pollfds, last_numsocks, flags, fd, send_queue, nested>>

line_done(b) == [b EXCEPT !.lines = @ - 1, !.used = @ - 1]

\* read_func has had a line; the loop goes on with the next, closed or not.
return_line ==
    /\ Returning("line")
    /\ buf' = [buf EXCEPT ![Top.sock] = line_done(@)]
    /\ stack' = IF buf[Top.sock].lines > 1 THEN stack ELSE SetTop(stack, [Top EXCEPT !.pc = "write"])
    /\ UNCHANGED <<sock_list, pollfds, last_numsocks, flags, fd, send_queue, nested, heard>>

----------------------------------------------------------------------------

Walk ==
    \/ poll_returns \/ walk_ends \/ skip_zombie \/ so_error
    \/ serve_connect \/ ssl_connect_fails \/ serve_listen
    \/ read_data \/ read_nothing \/ read_fails \/ read_hangup \/ serve_write

Return ==
    \/ return_next \/ return_connected \/ return_close
    \/ return_hangup \/ return_line \/ flush_return

Owner == \E s \in Sock :
    sock_connect(s) \/ sock_listen(s) \/ sock_accept(s) \/ sock_write(s) \/ sock_close(s)

sockNext == (main_poll \/ nested_poll \/ Walk \/ Return \/ Owner) /\ UNCHANGED wild

sockSpec == sockInit /\ [][sockNext]_sockVars

\* The main loop calls sock_poll again and again, the walk goes on, and callbacks return.
sockFairSpec == sockSpec /\ WF_sockVars((main_poll \/ Walk \/ Return) /\ UNCHANGED wild)

----------------------------------------------------------------------------
Frame == [kind : {"poll", "close"}, pc : {"wait", "visit", "write", "callback"}, i : Nat, sock : Sock,
          ev : {"", "CONNECT", "ERROR", "HANGUP", "ACCEPT", "LINE", "WRITE", "FLUSH"},
          then : {"", "next", "close", "connected", "hangup", "line", "closed"}, ev_write : BOOLEAN]

\* Types, and the list: every struct sock that exists is in it once, whatever the deletions by
\* swapping with the last entry did.
SockTypeOK ==
    /\ wild \in BOOLEAN
    /\ sock_list \in Seq(Sock) /\ Len(sock_list) = Cardinality(Live)
    /\ Live = {sock_list[k] : k \in DOMAIN sock_list}
    /\ pollfds \in Seq([fd : Fds \cup {0}, out : BOOLEAN])
    /\ last_numsocks \in 0..Cardinality(Sock)
    /\ flags \in [Sock -> {"none", "connect", "listen", "open", "zombie"}]
    /\ fd \in [Sock -> Fds \cup {0}]
    /\ buf \in [Sock -> [lines : 0..MaxLines, part : BOOLEAN, used : Int]]
    /\ send_queue \in [Sock -> BOOLEAN]
    /\ stack \in Seq(Frame)
    /\ nested \in 0..MaxNested
    /\ heard \in [Sock -> [connect : Nat, end : Nat, closed : {"no", "owner", "SSL"}]]

\* sock.c:902, the assertion of the walk: the socket at an index is the one whose descriptor was
\* polled at that index, whatever callbacks and nested calls have opened, closed and destroyed.
FdsMatch == AtSock /\ flags[Here] # "zombie" => fd[Here] = pollfds[Top.i].fd

\* A call that is under way holds a pointer to a struct sock; the struct is still there when the
\* callback returns, also after a nested sock_poll has destroyed the zombies.
NoUseAfterFree == \A k \in 1..Len(stack) : stack[k].pc \in {"callback", "write"} => flags[stack[k].sock] # "none"

\* The walk stays inside the list and inside pollfds (sock.c:890), which a nested call may have
\* refilled for a shorter list or freed after an error.
InBounds ==
    AtSock => Top.i \in DOMAIN sock_list /\ Top.i \in DOMAIN pollfds

\* A socket is announced connected at most once, and its end is announced at most once.
OnceEach == \A s \in Sock : heard[s].connect <= 1 /\ heard[s].end <= 1

\* An owner whose socket is gone has been told of its end, or has closed it himself; only a failing
\* SSL_connect closes a socket behind its owner's back (sock.c:927).
EndIsTold == \A s \in Sock : flags[s] = "zombie" => heard[s].end = 1 \/ heard[s].closed # "no"

\* read_buf_used counts what is in the buffer: the pointer arithmetic of the line loop relies on
\* it.  Stated for owners that do not close a socket from its own read_func and without nested
\* calls: otherwise sock_flush_readbuf resets the count while a line is in hand, and the
\* subtraction after the line wraps.
BufferSane == ~wild => \A s \in Live : buf[s].used = buf[s].lines + (IF buf[s].part THEN 1 ELSE 0)

\* List, array, descriptors, the pointers on the stack and the read buffers agree wherever a call stands.
SocksSound == SockTypeOK /\ FdsMatch /\ NoUseAfterFree /\ InBounds /\ OnceEach /\ EndIsTold /\ BufferSane

\* An owner that called sock_close hears no more events, whoever closed the socket and however
\* deep the calls: no step starts a callback of a closed socket.  Lines read before are handed out
\* within the callback that is under way, and one event does come: EV_HANGUP, when the owner closed
\* the socket in the flush that the same hangup began with (sock.c:994).
ClosedIsSilent ==
    [][\A k \in DOMAIN stack' :
          stack'[k].pc = "callback" /\ flags[stack'[k].sock] = "zombie" =>
             \/ k \in DOMAIN stack /\ stack'[k] = stack[k]
             \/ k = Len(stack) /\ Returning("hangup") /\ stack'[k].ev = "HANGUP"]_sockVars

\* A closed socket is destroyed: the sweep of a later sock_poll frees it.
ClosedIsFreed == \A s \in Sock : flags[s] = "zombie" ~> flags[s] = "none"
=============================================================================
