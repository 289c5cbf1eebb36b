------------------------------ MODULE SocketLoop ------------------------------
(***************************************************************************)
(* The event loop of packages/bun-usockets: us_loop_run_bun_tick with the  *)
(* dispatch of ready polls, the timeout sweep, the low-priority queue and  *)
(* the functions that close sockets and contexts.                          *)
(*                                                                         *)
(* The loop is one thread, but nothing it does is atomic: every function   *)
(* that calls back into the program (on_data, on_close, ...) is left half  *)
(* done on the C stack while the callback calls the same functions again.  *)
(* `stack` is that stack, top first.  A frame is a function that has been  *)
(* entered: its program counter, its locals and nothing else.  A "cb"      *)
(* frame is a callback; while it is on top, or the stack is empty, the     *)
(* program runs and may call any function below under "Calls".             *)
(***************************************************************************)
EXTENDS SocketHeap, Sequences

CONSTANTS
    Calls,           \* the functions the program uses, timeouts and TLS included
    EventSets,       \* what epoll may report for one socket
    LowPrioBudget,   \* MAX_LOW_PRIO_SOCKETS_PER_LOOP_ITERATION
    MaxRepeat,       \* reads of one socket per event, 10 in loop.c
    CallsPerCallback,\* bound: calls the program makes in one callback
    MaxDepth,        \* bound: frames on the stack
    MaxTicks,        \* bound: ticks on the stack; 1 is a loop never re-entered
    MaxReady,        \* bound: sockets reported by one epoll_wait
    MaxRef           \* bound: a reference count at which no socket is queued

ASSUME LoopAssumption ==
    /\ LowPrioBudget \in Nat /\ CallsPerCallback \in Nat /\ MaxDepth \in Nat
    /\ MaxTicks \in Nat /\ MaxReady \in Nat /\ MaxRef \in Nat
    /\ MaxRepeat \in Nat
    /\ EventSets \subseteq SUBSET (Directions \cup Conditions)

VARIABLES
    h,          \* the heap
    stack,      \* the C stack, top first
    owner,      \* the contexts whose creator still holds its reference
    budget,     \* loop_data.low_prio_budget
    wfailed,    \* loop_data.last_write_failed
    timer,      \* the sweep timer is among the ready polls
    nready,     \* num_ready_polls
    owed,       \* contexts whose global_tick the running sweep has not advanced
    unsent      \* sockets with a short write and no on_writable call since

vars == <<h, stack, owner, budget, wfailed, timer, nready, owed, unsent>>

Ops == {"tick", "dispatch", "accept", "sweep", "close", "cclose", "cb"}
Pcs == {"lowprio", "wait", "poll", "dispatch", "writable", "wrote", "readable",
        "recv", "received", "eof", "ended", "error", "accept", "context",
        "seek", "long", "step", "closed", "listening", "closing",
        "pre", "on_open", "on_close", "on_data", "on_end", "on_writable",
        "on_timeout", "on_long_timeout", "on_connect_error"}

Frame == [op : Ops, pc : Pcs, s : SocketPtr, c : ContextPtr,
          ev : SUBSET (Directions \cup Conditions), n : Nat]

Fr(op, pc, s, c, ev) ==
    [op |-> op, pc |-> pc, s |-> s, c |-> c, ev |-> ev, n |-> 0]
Callback(name, s) ==
    [op |-> "cb", pc |-> name, s |-> s, c |-> Null, ev |-> {},
     n |-> CallsPerCallback]

Top  == Head(stack)
Rest == Tail(stack)
At(op, pc) == stack # <<>> /\ Top.op = op /\ Top.pc = pc
Push(f, st) == <<f>> \o st
Goto(pc) == Push([Top EXCEPT !.pc = pc], Rest)

Room(k) == Len(stack) + k <= MaxDepth
Ticks   == Cardinality({i \in 1..Len(stack) : stack[i].op = "tick"})

Init ==
    /\ h = EmptyHeap
    /\ stack = <<>>
    /\ owner = {}
    /\ budget = 0 /\ wfailed = FALSE /\ timer = FALSE
    /\ nready = 0 /\ owed = {} /\ unsent = {}

-----------------------------------------------------------------------------
(* us_socket_close(s), called with `st` as the frames that remain under it.*)

SocketClose(s, st) ==
    \/ /\ IsClosed(h, s)
       /\ h' = h /\ stack' = st
    \/ /\ ~IsClosed(h, s) /\ h.type[s] = "semi"        \* no on_close
       /\ h' = CloseEnd(CloseBegin(h, s), s) /\ stack' = st
    \/ /\ ~IsClosed(h, s) /\ h.type[s] # "semi"
       /\ Len(st) + 2 <= MaxDepth
       /\ h' = CloseBegin(h, s)
       /\ stack' = Push(Callback("on_close", s),
                        Push(Fr("close", "closed", s, Null, {}), st))

\* on_close returned: the tail of us_socket_close.
CloseReturn ==
    /\ At("close", "closed")
    /\ h' = CloseEnd(h, Top.s)
    /\ stack' = Rest
    /\ UNCHANGED <<owner, budget, wfailed, timer, nready, owed, unsent>>

\* us_socket_context_close: the listen sockets, then the regular ones.  The
\* successor is read before each socket is closed.
CCloseListen ==
    /\ At("cclose", "listening")
    /\ \/ /\ Top.s = Null
          /\ stack' = Push([Top EXCEPT !.pc = "closing", !.s = h.head[Top.c]], Rest)
          /\ h' = h
       \/ /\ Top.s # Null
          /\ h' = ListenClose(h, Top.s)
          /\ stack' = Push([Top EXCEPT !.s = h.next[Top.s]], Rest)
    /\ UNCHANGED <<owner, budget, wfailed, timer, nready, owed, unsent>>

CCloseSocket ==
    /\ At("cclose", "closing")
    /\ \/ Top.s = Null /\ stack' = Rest /\ h' = h
       \/ /\ Top.s # Null
          /\ SocketClose(Top.s, Push([Top EXCEPT !.s = h.next[Top.s]], Rest))
    /\ UNCHANGED <<owner, budget, wfailed, timer, nready, owed, unsent>>

-----------------------------------------------------------------------------
(* us_loop_run_bun_tick.                                                   *)

TickStart(st) ==        \* num_polls # 0
    /\ \E s \in Sockets : h.type[s] # "free"
    /\ stack' = Push(Fr("tick", "lowprio", Null, Null, {}), st)
    /\ budget' = LowPrioBudget
    /\ UNCHANGED <<h, owner, wfailed, timer, nready, owed, unsent>>

\* Mutant of HandleLowPrio: the budget is spent by every test of the loop, as
\* with `budget-- > 0`, the last one included.
HandleLowPrioOverspends ==
    /\ At("tick", "lowprio")
    /\ budget' = budget - 1
    /\ \/ h.lowHead # Null /\ budget > 0 /\ h' = ServeQueue(h) /\ UNCHANGED stack
       \/ /\ h.lowHead = Null \/ budget = 0
          /\ stack' = Push(Callback("pre", Null), Goto("wait"))
          /\ UNCHANGED h
    /\ UNCHANGED <<owner, wfailed, timer, nready, owed, unsent>>

\* us_internal_loop_pre: serve the queue within the budget, then pre_cb.
HandleLowPrio ==
    /\ At("tick", "lowprio")
    /\ \/ /\ h.lowHead # Null /\ budget > 0
          /\ h' = ServeQueue(h) /\ budget' = budget - 1
          /\ UNCHANGED stack
       \/ /\ h.lowHead = Null \/ budget = 0
          /\ stack' = Push(Callback("pre", Null), Goto("wait"))
          /\ UNCHANGED <<h, budget>>
    /\ UNCHANGED <<owner, wfailed, timer, nready, owed, unsent>>

\* What epoll may report for s: errors always, a direction only if polled.
Reports(s) ==
    IF Open(h, s)
    THEN {{}} \cup {e \in EventSets : e \cap Directions \subseteq h.poll[s]}
    ELSE {{}}

Wait ==
    /\ At("tick", "wait")
    /\ \E r \in [Sockets -> {{}} \cup EventSets], t \in BOOLEAN :
          /\ t => "timeout" \in Calls
          /\ \A s \in Sockets : r[s] \in Reports(s)
          /\ Cardinality({s \in Sockets : r[s] # {}}) <= MaxReady
          /\ h' = [h EXCEPT !.ready = r]
          /\ timer' = t
          /\ nready' = Cardinality({s \in Sockets : r[s] # {}}) + (IF t THEN 1 ELSE 0)
    /\ stack' = Goto("poll")
    /\ UNCHANGED <<owner, budget, wfailed, owed, unsent>>

\* us_internal_dispatch_ready_poll of the sweep timer.
DispatchTimer ==
    /\ At("tick", "poll") /\ timer /\ Room(1)
    /\ timer' = FALSE
    /\ h' = [h EXCEPT !.liter = h.chead]
    /\ owed' = ContextChain(h, h.chead)
    /\ stack' = Push(Fr("sweep", "context", Null, Null, {}), stack)
    /\ UNCHANGED <<owner, budget, wfailed, nready, unsent>>

\* us_internal_dispatch_ready_poll of a socket: the events it still polls for.
DispatchPoll(s) ==
    /\ At("tick", "poll") /\ h.ready[s] # {} /\ Room(2)
    /\ LET ev == (h.ready[s] \cap h.poll[s]) \cup (h.ready[s] \cap Conditions)
           g  == [h EXCEPT !.ready[s] = {}]
           \* a semi-socket is taken for a connecting one if it polls writable only
           connecting == h.type[s] \in {"listen", "semi"} /\ h.poll[s] = {"W"}
           accepting  == h.type[s] \in {"listen", "semi"} /\ h.poll[s] # {"W"}
       IN  \/ ev = {} /\ h' = g /\ UNCHANGED stack
           \/ /\ ev # {} /\ accepting
              /\ h' = g
              /\ stack' = Push(Fr("accept", "accept", s, Null, {}), stack)
           \/ \* us_internal_socket_after_open without a connect_state
              /\ ev # {} /\ connecting /\ ev \cap Conditions # {}
              /\ h' = g
              /\ stack' = Push(Callback("on_connect_error", s), stack)
           \/ /\ ev # {} /\ connecting /\ ev \cap Conditions = {}
              /\ h' = [PollChange(g, s, {"R"}) EXCEPT !.type[s] = "socket",
                                                      !.due[s] = @ \ {"short"}]
              /\ stack' = Push(Callback("on_open", s), stack)
           \/ /\ ev # {} /\ h.type[s] \in {"socket", "shut"}
              /\ h' = g
              /\ stack' = Push(Fr("dispatch", "writable", s, Null, ev), stack)
    /\ UNCHANGED <<owner, budget, wfailed, timer, nready, owed, unsent>>

\* us_internal_loop_post.
Post ==
    /\ At("tick", "poll") /\ ~timer /\ \A s \in Sockets : h.ready[s] = {}
    /\ h' = FreeClosed(h)
    /\ unsent' = {s \in unsent : h'.type[s] # "free"}
    /\ stack' = Rest
    /\ UNCHANGED <<owner, budget, wfailed, timer, nready, owed>>

-----------------------------------------------------------------------------
(* The accept loop of a listen socket.                                     *)

Accept ==
    /\ At("accept", "accept")
    /\ \/ \* bsd_accept_socket returned a connection
          /\ ~IsClosed(h, Top.s) /\ h.type[Top.s] = "listen" /\ Room(1)
          /\ \E s \in Sockets :
               /\ h.type[s] = "free"
               /\ h' = NewSocket(h, h.ctx[Top.s], s, "socket", {"R"})
               /\ stack' = Push(Callback("on_open", s), stack)
       \/ \* nothing more to accept, or closed by on_open
          stack' = Rest /\ UNCHANGED h
    /\ UNCHANGED <<owner, budget, wfailed, timer, nready, owed, unsent>>

-----------------------------------------------------------------------------
(* The dispatch of a connected socket, from its writable half to its error.*)

DispatchWritable ==
    /\ At("dispatch", "writable")
    /\ \/ /\ "W" \in Top.ev /\ "E" \notin Top.ev /\ Room(1)
          /\ wfailed' = FALSE /\ unsent' = unsent \ {Top.s}
          /\ stack' = Push(Callback("on_writable", Top.s), Goto("wrote"))
       \/ /\ ~("W" \in Top.ev /\ "E" \notin Top.ev)
          /\ stack' = Goto("readable") /\ UNCHANGED <<wfailed, unsent>>
    /\ UNCHANGED <<h, owner, budget, timer, nready, owed>>

\* Mutant of DispatchWrote: a failed write is not remembered.
DispatchWroteForgets ==
    /\ At("dispatch", "wrote")
    /\ \/ IsClosed(h, Top.s) /\ stack' = Rest /\ UNCHANGED h
       \/ /\ ~IsClosed(h, Top.s)
          /\ h' = PollChange(h, Top.s, h.poll[Top.s] \cap {"R"})
          /\ stack' = Goto("readable")
    /\ UNCHANGED <<owner, budget, wfailed, timer, nready, owed, unsent>>

DispatchWrote ==
    /\ At("dispatch", "wrote")
    /\ \/ IsClosed(h, Top.s) /\ stack' = Rest /\ UNCHANGED h
       \/ /\ ~IsClosed(h, Top.s)
          /\ h' = IF ~wfailed \/ h.type[Top.s] = "shut"
                  THEN PollChange(h, Top.s, h.poll[Top.s] \cap {"R"}) ELSE h
          /\ stack' = Goto("readable")
    /\ UNCHANGED <<owner, budget, wfailed, timer, nready, owed, unsent>>

\* is_low_prio is the choice of the context (a TLS handshake in progress).
DispatchReadable ==
    /\ At("dispatch", "readable")
    /\ LET s == Top.s
           lowPrio == "lowprio" \in Calls /\ h.ref[h.ctx[s]] < MaxRef
       IN  \/ "R" \notin Top.ev /\ stack' = Goto("eof") /\ UNCHANGED <<h, budget>>
           \/ "R" \in Top.ev /\ stack' = Goto("recv") /\ UNCHANGED <<h, budget>>
           \/ /\ "R" \in Top.ev /\ lowPrio /\ h.low[s] = 2
              /\ h' = [h EXCEPT !.low[s] = 0]
              /\ stack' = Goto("recv") /\ UNCHANGED budget
           \/ /\ "R" \in Top.ev /\ lowPrio /\ h.low[s] # 2 /\ budget > 0
              /\ budget' = budget - 1
              /\ stack' = Goto("recv") /\ UNCHANGED h
           \/ /\ "R" \in Top.ev /\ lowPrio /\ h.low[s] # 2 /\ budget = 0
              /\ h' = EnterQueue(h, s)
              /\ stack' = Rest /\ UNCHANGED budget
    /\ UNCHANGED <<owner, wfailed, timer, nready, owed, unsent>>

Recv ==
    /\ At("dispatch", "recv")
    /\ \/ /\ Room(1)                                    \* length > 0
          /\ stack' = Push(Callback("on_data", Top.s), Goto("received"))
          /\ UNCHANGED h
       \/ /\ stack' = Push([Top EXCEPT !.pc = "eof", !.ev = @ \cup {"H"}], Rest)
          /\ UNCHANGED h                                \* length = 0
       \/ SocketClose(Top.s, Rest)                      \* a real error
       \/ stack' = Goto("eof") /\ UNCHANGED h           \* would block
    /\ UNCHANGED <<owner, budget, wfailed, timer, nready, owed, unsent>>

\* A full buffer is read again, up to MaxRepeat times or, when nothing else is
\* ready or the peer hung up, without a limit.
ReceivedMore ==
    /\ At("dispatch", "received") /\ ~IsClosed(h, Top.s)
    /\ LET n == IF "E" \in Top.ev \/ Top.n > MaxRepeat THEN Top.n ELSE Top.n + 1
       IN  /\ ~(n > MaxRepeat /\ nready > 2)
           /\ stack' = Push([Top EXCEPT !.pc = "recv", !.n = n], Rest)
    /\ UNCHANGED <<h, owner, budget, wfailed, timer, nready, owed, unsent>>

ReceivedLast ==
    /\ At("dispatch", "received")
    /\ stack' = Goto("eof")
    /\ UNCHANGED <<h, owner, budget, wfailed, timer, nready, owed, unsent>>

\* Mutant of DispatchEof: on_end is called without asking whether on_data
\* closed the socket.
DispatchEofUnchecked ==
    /\ At("dispatch", "eof") /\ Room(1)
    /\ stack' = IF "H" \in Top.ev
                THEN Push(Callback("on_end", Top.s), Goto("ended"))
                ELSE Goto("error")
    /\ UNCHANGED <<h, owner, budget, wfailed, timer, nready, owed, unsent>>

DispatchEof ==
    /\ At("dispatch", "eof")
    /\ LET s == Top.s
       IN  \/ "H" \notin Top.ev /\ stack' = Goto("error") /\ UNCHANGED h
           \/ "H" \in Top.ev /\ IsClosed(h, s) /\ stack' = Rest /\ UNCHANGED h
           \/ /\ "H" \in Top.ev /\ ~IsClosed(h, s) /\ h.type[s] = "shut"
              /\ SocketClose(s, Rest)
           \/ /\ "H" \in Top.ev /\ ~IsClosed(h, s) /\ h.type[s] # "shut" /\ Room(1)
              /\ \E halfOpen \in BOOLEAN :              \* flags.allow_half_open
                   /\ h' = IF halfOpen
                           THEN PollChange(h, s, h.poll[s] \cap {"W"}) ELSE h
                   /\ stack' = Push(Callback("on_end", s),
                                    Goto(IF halfOpen THEN "error" ELSE "ended"))
    /\ UNCHANGED <<owner, budget, wfailed, timer, nready, owed, unsent>>

DispatchEnd ==
    /\ \/ (At("dispatch", "ended") \/ (At("dispatch", "error") /\ "E" \in Top.ev))
          /\ SocketClose(Top.s, Rest)
       \/ At("dispatch", "error") /\ "E" \notin Top.ev /\ stack' = Rest /\ h' = h
    /\ UNCHANGED <<owner, budget, wfailed, timer, nready, owed, unsent>>

-----------------------------------------------------------------------------
(* us_internal_timer_sweep.  Which sockets of a context reach their tick   *)
(* is chosen when the sweep enters the context: a timeout that a callback  *)
(* sets falls on a later tick.                                             *)

SweepContext ==
    /\ At("sweep", "context")
    /\ \/ h.liter = Null /\ stack' = Rest /\ h' = h /\ owed' = {}
       \/ /\ h.liter # Null
          /\ owed' = owed \ {h.liter}                   \* global_tick++
          /\ \E d \in [Sockets -> {{}, {"short"}, {"long"}, {"short", "long"}}] :
               /\ \A s \in Sockets : d[s] # {} => s \in Chain(h, h.head[h.liter])
               /\ h' = [h EXCEPT !.due = d]
          /\ stack' = Push([Top EXCEPT !.pc = "seek", !.c = h.liter,
                                       !.s = h.head[h.liter]], Rest)
    /\ UNCHANGED <<owner, budget, wfailed, timer, nready, unsent>>

\* loop_data.iterator is Null here only after a sweep nested in a callback of this
\* one: the code then reads the successor of a null pointer, and the model stops.
SweepSeek ==
    /\ At("sweep", "seek")
    /\ LET s == Top.s
       IN  \/ /\ s = Null /\ h.liter # Null             \* next_context
              /\ h' = [h EXCEPT !.iter[Top.c] = Null, !.liter = h.cnext[h.liter]]
              /\ stack' = Goto("context")
           \/ /\ s # Null /\ h.due[s] = {}
              /\ stack' = Push([Top EXCEPT !.s = h.next[s]], Rest) /\ h' = h
           \/ /\ s # Null /\ h.due[s] # {} /\ Room(1)
              /\ h' = [h EXCEPT !.iter[Top.c] = s, !.due[s] = @ \ {"short"}]
              /\ stack' = IF "short" \in h.due[s]
                          THEN Push(Callback("on_timeout", s), Goto("long"))
                          ELSE Goto("long")
    /\ UNCHANGED <<owner, budget, wfailed, timer, nready, owed, unsent>>

SweepLong ==
    /\ At("sweep", "long")
    /\ LET s == Top.s
       IN  \/ /\ h.iter[Top.c] = s /\ "long" \in h.due[s] /\ Room(1)
              /\ h' = [h EXCEPT !.due[s] = @ \ {"long"}]
              /\ stack' = Push(Callback("on_long_timeout", s), Goto("step"))
           \/ /\ ~(h.iter[Top.c] = s /\ "long" \in h.due[s])
              /\ stack' = Goto("step") /\ h' = h
    /\ UNCHANGED <<owner, budget, wfailed, timer, nready, owed, unsent>>

SweepStep ==
    /\ At("sweep", "step")
    /\ stack' = Push([Top EXCEPT !.pc = "seek",
                        !.s = IF h.iter[Top.c] = Top.s THEN h.next[Top.s]
                              ELSE h.iter[Top.c]], Rest)
    /\ UNCHANGED <<h, owner, budget, wfailed, timer, nready, owed, unsent>>

-----------------------------------------------------------------------------
(* Calls: what the program does at top level or inside a callback.         *)

\* Mutant of Return: the dispatch goes on with the socket it had.
ReturnIgnored ==
    /\ stack # <<>> /\ Top.op = "cb"
    /\ stack' = Rest
    /\ UNCHANGED <<h, owner, budget, wfailed, timer, nready, owed, unsent>>

\* A callback returns its socket to the function that called it.
Return ==
    /\ stack # <<>> /\ Top.op = "cb"
    /\ stack' = IF Rest # <<>> /\ Head(Rest).op = "dispatch" /\ Top.s # Null
                THEN Push([Head(Rest) EXCEPT !.s = Top.s], Tail(Rest)) ELSE Rest
    /\ UNCHANGED <<h, owner, budget, wfailed, timer, nready, owed, unsent>>

MayCall(f) ==
    /\ f \in Calls
    /\ stack # <<>> => Top.op = "cb" /\ Top.n > 0

\* The stack under the call: in a callback, one call fewer is left.
Caller == IF stack = <<>> THEN stack ELSE Push([Top EXCEPT !.n = @ - 1], Rest)

Create(c) ==
    /\ MayCall("create") /\ h.state[c] = "none"
    /\ h' = CreateContext(h, c) /\ owner' = owner \cup {c}
    /\ stack' = Caller
    /\ UNCHANGED <<budget, wfailed, timer, nready, owed, unsent>>

\* us_socket_context_free by the creator.
Free(c) ==
    /\ MayCall("free") /\ c \in owner
    /\ h' = Unref(h, c) /\ owner' = owner \ {c}
    /\ stack' = Caller
    /\ UNCHANGED <<budget, wfailed, timer, nready, owed, unsent>>

\* us_socket_context_listen and us_socket_context_connect_resolved_dns.
OpenSocket(c, s) ==
    /\ c \in owner /\ h.type[s] = "free"
    /\ \/ MayCall("listen") /\ h' = NewSocket(h, c, s, "listen", {"R"})
       \/ MayCall("connect") /\ h' = NewSocket(h, c, s, "semi", {"W"})
    /\ stack' = Caller
    /\ UNCHANGED <<owner, budget, wfailed, timer, nready, owed, unsent>>

Close(s) ==
    /\ MayCall("close") /\ Open(h, s) /\ h.type[s] # "listen"
    /\ SocketClose(s, Caller)
    /\ UNCHANGED <<owner, budget, wfailed, timer, nready, owed, unsent>>

CloseListen(s) ==
    /\ MayCall("close") /\ Open(h, s) /\ h.type[s] = "listen"
    /\ h' = ListenClose(h, s)
    /\ stack' = Caller
    /\ UNCHANGED <<owner, budget, wfailed, timer, nready, owed, unsent>>

CloseContext(c) ==
    /\ MayCall("cclose") /\ c \in owner /\ Room(1)
    /\ stack' = Push(Fr("cclose", "listening", h.lhead[c], c, {}), Caller)
    /\ UNCHANGED <<h, owner, budget, wfailed, timer, nready, owed, unsent>>

DetachSocket(s) ==
    /\ MayCall("detach") /\ Open(h, s) /\ h.type[s] \in {"socket", "shut"}
    /\ h' = Detach(h, s)
    /\ stack' = Caller
    /\ UNCHANGED <<owner, budget, wfailed, timer, nready, owed, unsent>>

\* us_socket_shutdown, also of a socket that has not connected yet.
Shutdown(s) ==
    /\ MayCall("shutdown") /\ Open(h, s) /\ h.type[s] \in {"socket", "semi"}
    /\ h' = [PollChange(h, s, h.poll[s] \cap {"R"}) EXCEPT !.type[s] = "shut"]
    /\ stack' = Caller
    /\ UNCHANGED <<owner, budget, wfailed, timer, nready, owed, unsent>>

\* us_socket_write that could not send everything, and us_socket_write2, which
\* polls for writable but leaves the flag alone.
WriteFailed(s) ==
    /\ \E f \in {"write", "write2"} :
          MayCall(f) /\ wfailed' = (f = "write" \/ wfailed)
    /\ Open(h, s) /\ h.type[s] = "socket"
    /\ h' = PollChange(h, s, {"R", "W"})
    /\ unsent' = unsent \cup {s}
    /\ stack' = Caller
    /\ UNCHANGED <<owner, budget, timer, nready, owed>>

\* us_socket_pause and us_socket_resume, of any us_socket_t, connected or not.
Pausable(s) == MayCall("pause") /\ h.type[s] \in {"socket", "shut", "semi"}

Pause(s) ==
    /\ Pausable(s) /\ Open(h, s) /\ ~h.paused[s]
    /\ h' = [PollChange(h, s, {"W"}) EXCEPT !.paused[s] = TRUE]
    /\ stack' = Caller
    /\ UNCHANGED <<owner, budget, wfailed, timer, nready, owed, unsent>>

Resume(s) ==
    /\ Pausable(s) /\ h.paused[s]
    /\ LET g == [h EXCEPT !.paused[s] = FALSE]
       IN  h' = IF IsClosed(h, s) THEN g
                ELSE PollChange(g, s, IF h.type[s] = "shut" THEN {"R"} ELSE {"R", "W"})
    /\ stack' = Caller
    /\ UNCHANGED <<owner, budget, wfailed, timer, nready, owed, unsent>>

\* A callback that has an open socket, a timeout included, upgrades it into
\* another context and returns the new socket.  The move of a socket that polls
\* nothing, of which us_poll_resize tells epoll nothing, is left out.
AdoptSocket(c, n) ==
    /\ MayCall("adopt") /\ stack # <<>> /\ c \in owner
    /\ Top.pc \in {"on_open", "on_data", "on_end", "on_writable", "on_timeout",
                   "on_long_timeout"}
    /\ Open(h, Top.s) /\ h.type[Top.s] = "socket"
    /\ n = Top.s \/ (h.type[n] = "free" /\ h.poll[Top.s] # {})
    /\ h' = Adopt(h, c, Top.s, n)
    /\ unsent' = IF Top.s \in unsent THEN (unsent \ {Top.s}) \cup {n} ELSE unsent
    /\ stack' = Push([Head(Caller) EXCEPT !.s = n], Rest)
    /\ UNCHANGED <<owner, budget, wfailed, timer, nready, owed>>

\* The event loop runs a tick; inside a callback when the program waits for
\* a promise there.
Tick ==
    /\ stack # <<>> => MayCall("tick")
    /\ Ticks < MaxTicks /\ Room(2)
    /\ TickStart(Caller)

-----------------------------------------------------------------------------
LoopStep ==
    \/ CloseReturn \/ CCloseListen \/ CCloseSocket
    \/ HandleLowPrio \/ Wait \/ DispatchTimer \/ Post
    \/ \E s \in Sockets : DispatchPoll(s)
    \/ Accept
    \/ DispatchWritable \/ DispatchWrote \/ DispatchReadable
    \/ Recv \/ ReceivedMore \/ ReceivedLast \/ DispatchEof \/ DispatchEnd
    \/ SweepContext \/ SweepSeek \/ SweepLong \/ SweepStep
    \/ Return \/ Tick

Call ==
    \/ \E c \in Contexts : Create(c) \/ Free(c) \/ CloseContext(c)
    \/ \E c \in Contexts, s \in Sockets : OpenSocket(c, s) \/ AdoptSocket(c, s)
    \/ \E s \in Sockets : \/ Close(s) \/ CloseListen(s) \/ DetachSocket(s)
                          \/ Shutdown(s) \/ WriteFailed(s) \/ Pause(s) \/ Resume(s)

\* Nothing is polled: num_polls is 0 and the process ends.
Exit ==
    /\ stack = <<>> /\ \A s \in Sockets : h.type[s] = "free"
    /\ UNCHANGED vars

Next == LoopStep \/ Call \/ Exit

Spec == Init /\ [][Next]_vars

\* The loop thread keeps running, and no peer fills the receive buffer for ever.
FairSpec == Spec /\ WF_vars(LoopStep) /\ SF_vars(ReceivedLast)
-----------------------------------------------------------------------------
(* Properties.                                                             *)

\* Every field of the heap and of the stack holds a value of its C type.
TypeOK ==
    /\ h \in Heap
    /\ stack \in Seq(Frame)
    /\ owner \subseteq Contexts
    /\ budget \in Nat /\ wfailed \in BOOLEAN /\ timer \in BOOLEAN
    /\ nready \in Nat /\ owed \subseteq Contexts
    /\ unsent \subseteq Sockets

\* p is the head of a doubly linked list that ends.
WellLinked(p) ==
    /\ p # Null => h.prev[p] = Null
    /\ \A s \in Chain(h, p) :
          /\ h.next[s] # Null => h.prev[h.next[s]] = s
          /\ s \notin Chain(h, h.next[s])

Members(c)  == {s \in Sockets : Open(h, s) /\ h.ctx[s] = c}
Closing(s)  == \E i \in 1..Len(stack) : stack[i].op = "close" /\ stack[i].s = s
Closings(c) == {s \in Sockets : Closing(s) /\ h.ctx[s] = c}

\* The lists of a context hold exactly its open sockets that are not queued:
\* link, unlink and adopt (context.c:88-179, 766-814) lose and duplicate none,
\* whatever the callbacks call in the middle of a close or of a sweep.
ListsExact ==
    \A c \in Contexts : h.state[c] # "none" =>
        /\ WellLinked(h.head[c]) /\ WellLinked(h.lhead[c])
        /\ Chain(h, h.head[c]) =
              {s \in Members(c) : h.type[s] # "listen" /\ h.low[s] # 1}
        /\ Chain(h, h.lhead[c]) = {s \in Members(c) : h.type[s] = "listen"}

\* The low-priority queue holds exactly the sockets in state 1, each once
\* ("1 = is in low-prio queue", internal.h:171).
QueueExact ==
    /\ WellLinked(h.lowHead)
    /\ Chain(h, h.lowHead) = {s \in Sockets : Open(h, s) /\ h.low[s] = 1}

\* The closed list holds exactly the sockets whose close has finished: none is
\* freed while its on_close callback runs and none leaks (loop.c:209-231).
ClosedExact ==
    Chain(h, h.closed) =
      {s \in Sockets : h.type[s] # "free" /\ IsClosed(h, s) /\ ~Closing(s)}

\* The reference count of a context (context.c:336-349) counts its creator, its
\* sockets and the closes in progress; it reaches the closed list when they end.
RefExact ==
    \A c \in Contexts :
        LET holders == Cardinality({c} \cap owner) + Cardinality(Members(c))
                       + Cardinality(Closings(c))
        IN  /\ h.state[c] # "none" => h.ref[c] = holders
            /\ h.state[c] = "live" <=> holders > 0

\* Whatever the count is, a context outlives its creator's handle, its sockets
\* and the closes in progress.
NoEarlyFree ==
    \A c \in Contexts :
        c \in owner \/ Members(c) # {} \/ Closings(c) # {} => h.state[c] = "live"

\* A dispatch that waits for a callback overwrites its socket with the returned one.
Overwritten(i) == i > 1 /\ stack[i].op = "dispatch" /\ stack[i - 1].op = "cb"

\* A sweep whose iterator has left its socket only compares the two (loop.c:134).
Compared(i) == /\ stack[i].op = "sweep" /\ stack[i].pc \in {"long", "step"}
               /\ h.iter[stack[i].c] # stack[i].s

\* Nothing that will be dereferenced points to freed memory: the frames on the
\* stack, the sweep iterators and the context of a socket (loop.c, context.c).
NoDangling ==
    /\ \A i \in 1..Len(stack) :
          /\ stack[i].s # Null /\ ~Overwritten(i) /\ ~Compared(i)
                => h.type[stack[i].s] # "free"
          /\ stack[i].c # Null => h.state[stack[i].c] # "none"
    /\ \A c \in Contexts : h.iter[c] # Null => h.type[h.iter[c]] # "free"
    /\ h.liter # Null => h.state[h.liter] # "none"
    /\ \A s \in Sockets : h.type[s] # "free" => h.state[h.ctx[s]] # "none"

\* No pending ready poll belongs to a socket that is closed or freed: the event
\* it reports is never dispatched (epoll_kqueue.c:324-345, 454-471).
PendingOpen == \A s \in Sockets : h.ready[s] # {} => Open(h, s)

\* A sweep that reaches the end of a context has delivered every timeout that
\* was due there, to every socket that is still open in it (loop.c:104-140).
NoTimeoutSkipped ==
    At("sweep", "seek") /\ Top.s = Null =>
        \A s \in Chain(h, h.head[Top.c]) : h.due[s] = {}

\* No callback but on_close and the outcome of its own call is made on a socket
\* that is closed, and on_close is made once (socket.c:181-243).
CallbackOnOpen ==
    [][\A s \in Sockets :
         /\ Len(stack') > Len(stack) /\ stack'[1].op = "cb" /\ stack'[1].s = s
         => IF stack'[1].pc = "on_close" THEN Open(h, s)
            ELSE /\ h'.type[s] # "free" /\ ~IsClosed(h', s)]_vars

\* A socket that was closed is given back to the allocator by a later tick
\* (loop.c:209-231, 258-263).
ClosedIsFreed ==
    \A s \in Sockets :
        (h.type[s] # "free" /\ IsClosed(h, s)) ~> (h.type[s] = "free")

\* A socket that could not send everything stays polled for writable until its
\* on_writable is called: last_write_failed is one flag for the whole loop, yet
\* "if we have no failed write or if we shut down, then stop polling for more
\* writable" (loop.c:351) must hold of each socket.
UnsentIsPolled ==
    \A s \in unsent : Open(h, s) /\ h.type[s] = "socket" => "W" \in h.poll[s]

\* "Both connect and listen sockets are semi-sockets but they poll for different
\* events" (loop.c:286): the events are what tells them apart.
SemiSocketsToldApart ==
    \A s \in Sockets : Open(h, s) =>
        /\ h.type[s] = "semi" => h.poll[s] = {"W"}
        /\ h.type[s] = "listen" => h.poll[s] = {"R"}

\* us_socket_context_close "closes all open sockets, including listen sockets"
\* (libusockets.h:307).
CloseContextClosesAll ==
    At("cclose", "closing") /\ Top.s = Null => Members(Top.c) = {}

\* "For all socket contexts in this loop" (loop.c:94): a sweep that ends has
\* advanced the clock of every context it started with that is still there.
SweepVisitsAll ==
    At("sweep", "context") /\ h.liter = Null =>
        \A c \in owed : h.state[c] # "live"

\* "We cannot immediately free a listen socket as we can be inside an accept
\* loop" (context.c:59).
AcceptLoopHoldsSocket ==
    \A i \in 1..Len(stack) :
        stack[i].op = "accept" => h.type[stack[i].s] # "free"
=============================================================================
