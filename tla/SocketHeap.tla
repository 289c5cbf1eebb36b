------------------------------ MODULE SocketHeap ------------------------------
(***************************************************************************)
(* The memory of one uSockets loop as its C code sees it: sockets, socket  *)
(* contexts and the intrusive lists that thread them together, with one    *)
(* operator per helper of packages/bun-usockets/src/{context,socket,loop}.c*)
(* that edits those lists.  A pointer field is reused by the code for more *)
(* than one list (`next` chains the sockets of a context, the low-priority *)
(* queue and the closed list; `prev` doubles as the closed mark), which is *)
(* why the lists are pointers here too and not sets.                       *)
(*                                                                         *)
(* A heap is a record; every operator maps a heap to the heap it leaves.   *)
(***************************************************************************)
EXTENDS Integers, FiniteSets

CONSTANTS
    Contexts,       \* addresses of us_socket_context_t
    Sockets,        \* addresses of us_socket_t and us_listen_socket_t
    Null

ASSUME DistinctAddresses ==
    /\ IsFiniteSet(Sockets) /\ IsFiniteSet(Contexts)
    /\ Sockets \cap Contexts = {}
    /\ Null \notin Sockets \cup Contexts

SocketPtr  == Sockets \cup {Null}
ContextPtr == Contexts \cup {Null}

\* us_internal_poll_type: "listen" and "semi" are the two uses of
\* POLL_TYPE_SEMI_SOCKET, told apart by the direction they poll;
\* "free" is an address that holds no socket.
PollTypes == {"free", "listen", "semi", "socket", "shut"}

Directions == {"R", "W"}                  \* LIBUS_SOCKET_READABLE / WRITABLE
Conditions == {"H", "E"}                  \* EPOLLHUP / EPOLLERR

Heap == [
    \* us_socket_t
    type   : [Sockets -> PollTypes],
    poll   : [Sockets -> SUBSET Directions],
    ctx    : [Sockets -> ContextPtr],
    prev   : [Sockets -> SocketPtr \cup Contexts],
    next   : [Sockets -> SocketPtr],
    low    : [Sockets -> 0..2],           \* flags.low_prio_state
    paused : [Sockets -> BOOLEAN],
    due    : [Sockets -> SUBSET {"short", "long"}],
    \* us_socket_context_t
    state  : [Contexts -> {"none", "live", "closed"}],
    ref    : [Contexts -> Int],
    head   : [Contexts -> SocketPtr],     \* head_sockets
    lhead  : [Contexts -> SocketPtr],     \* head_listen_sockets
    iter   : [Contexts -> SocketPtr],
    cnext  : [Contexts -> ContextPtr],
    cprev  : [Contexts -> ContextPtr],
    \* us_internal_loop_data_t and the ready_polls of us_loop_t
    chead     : ContextPtr,
    liter     : ContextPtr,               \* loop_data.iterator
    closed    : SocketPtr,                \* closed_head
    closedCtx : ContextPtr,               \* closed_context_head
    lowHead   : SocketPtr,
    ready     : [Sockets -> SUBSET (Directions \cup Conditions)]]

EmptyHeap == [
    type   |-> [s \in Sockets |-> "free"],
    poll   |-> [s \in Sockets |-> {}],
    ctx    |-> [s \in Sockets |-> Null],
    prev   |-> [s \in Sockets |-> Null],
    next   |-> [s \in Sockets |-> Null],
    low    |-> [s \in Sockets |-> 0],
    paused |-> [s \in Sockets |-> FALSE],
    due    |-> [s \in Sockets |-> {}],
    state  |-> [c \in Contexts |-> "none"],
    ref    |-> [c \in Contexts |-> 0],
    head   |-> [c \in Contexts |-> Null],
    lhead  |-> [c \in Contexts |-> Null],
    iter   |-> [c \in Contexts |-> Null],
    cnext  |-> [c \in Contexts |-> Null],
    cprev  |-> [c \in Contexts |-> Null],
    chead     |-> Null,
    liter     |-> Null,
    closed    |-> Null,
    closedCtx |-> Null,
    lowHead   |-> Null,
    ready     |-> [s \in Sockets |-> {}]]

-----------------------------------------------------------------------------
(* Pointer writes.  The code tests a pointer before it writes through it.  *)

SetNext(h, p, v) == IF p \in Sockets THEN [h EXCEPT !.next[p] = v] ELSE h
SetPrev(h, p, v) == IF p \in Sockets THEN [h EXCEPT !.prev[p] = v] ELSE h

\* us_socket_is_closed: "Any socket with prev = context is marked as closed".
IsClosed(h, s) == h.prev[s] = h.ctx[s]
Open(h, s)     == h.type[s] # "free" /\ ~IsClosed(h, s)

\* The sockets reached from p along `next`.
Chain(h, p) ==
    LET at[i \in 0..Cardinality(Sockets)] ==
          IF i = 0 THEN p
          ELSE IF at[i - 1] \in Sockets THEN h.next[at[i - 1]] ELSE Null
    IN  {at[i] : i \in 0..Cardinality(Sockets)} \cap Sockets

\* The contexts reached from p along `next`.
ContextChain(h, p) ==
    LET at[i \in 0..Cardinality(Contexts)] ==
          IF i = 0 THEN p
          ELSE IF at[i - 1] \in Contexts THEN h.cnext[at[i - 1]] ELSE Null
    IN  {at[i] : i \in 0..Cardinality(Contexts)} \cap Contexts

\* us_poll_free of the sockets of S.  Freed memory is cleared, so that two free
\* addresses are the same state; nothing reads it (SocketLoop!NoDangling).
Wipe(f, S, v) == [x \in DOMAIN f |-> IF x \in S THEN v ELSE f[x]]
FreeSockets(h, S) ==
    [h EXCEPT !.type = Wipe(@, S, "free"),  !.poll = Wipe(@, S, {}),
              !.ctx  = Wipe(@, S, Null),    !.prev = Wipe(@, S, Null),
              !.next = Wipe(@, S, Null),    !.low  = Wipe(@, S, 0),
              !.paused = Wipe(@, S, FALSE), !.due  = Wipe(@, S, {})]

-----------------------------------------------------------------------------
(* Contexts of the loop.                                                   *)

LoopLink(h, c) ==
    LET g == [h EXCEPT !.cnext[c] = h.chead, !.cprev[c] = Null, !.chead = c]
    IN  IF h.chead = Null THEN g ELSE [g EXCEPT !.cprev[h.chead] = c]

\* Mutant of LoopUnlink: the predecessor keeps pointing to c.
LoopUnlinkKeepsNext(h, c) ==
    LET n == h.cnext[c]
        g == IF h.chead = c THEN [h EXCEPT !.chead = n] ELSE h
    IN  IF n = Null THEN g ELSE [g EXCEPT !.cprev[n] = h.cprev[c]]

LoopUnlink(h, c) ==
    LET n == h.cnext[c]
        p == h.cprev[c]
        g == IF h.chead = c
             THEN [h EXCEPT !.chead = n]
             ELSE IF p = Null THEN h ELSE [h EXCEPT !.cnext[p] = n]
    IN  IF n = Null THEN g
        ELSE [g EXCEPT !.cprev[n] = IF h.chead = c THEN Null ELSE p]

CreateContext(h, c) ==
    LoopLink([h EXCEPT !.state[c] = "live", !.ref[c] = 1, !.head[c] = Null,
                       !.lhead[c] = Null, !.iter[c] = Null], c)

\* The context leaves the list of the loop and goes to the closed list,
\* which threads it through the same `next`.
ContextFree(h, c) ==
    LET g == LoopUnlink(h, c)
    IN  [g EXCEPT !.cnext[c] = h.closedCtx, !.closedCtx = c,
                  !.state[c] = "closed"]

\* The context of a socket is Null only in the memory of a freed socket, which
\* nothing reads (SocketLoop!NoDangling): the helpers then leave the heap alone.
Ref(h, c) == IF c = Null THEN h ELSE [h EXCEPT !.ref[c] = @ + 1]

Unref(h, c) ==
    LET g == [h EXCEPT !.ref[c] = @ - 1]
    IN  IF c = Null THEN h
        ELSE IF h.ref[c] = 1 THEN ContextFree(g, c) ELSE g

-----------------------------------------------------------------------------
(* Sockets of a context.                                                   *)

LinkSocket(h, c, s) ==
    LET f == [h EXCEPT !.ctx[s] = c, !.next[s] = h.head[c], !.prev[s] = Null]
        g == SetPrev(f, h.head[c], s)
    IN  IF c = Null THEN h ELSE Ref([g EXCEPT !.head[c] = s], c)

LinkListenSocket(h, c, s) ==
    LET f == [h EXCEPT !.ctx[s] = c, !.next[s] = h.lhead[c], !.prev[s] = Null]
        g == SetPrev(f, h.lhead[c], s)
    IN  Ref([g EXCEPT !.lhead[c] = s], c)

\* Mutant of StepIterator: the sweep is not told that s leaves the list.
StepIteratorForgets(h, c, s) == h

\* The timeout sweep may be standing on s: its iterator moves on first.
StepIterator(h, c, s) ==
    IF h.iter[c] = s THEN [h EXCEPT !.iter[c] = h.next[s]] ELSE h

\* Mutant of UnlinkSocket: the head of the list is cleared, never advanced.
UnlinkSocketKeepsHead(h, c, s) ==
    LET n == h.next[s]
        p == h.prev[s]
        g == SetNext(StepIterator(h, c, s), p, n)
    IN  Unref(IF p = n THEN [g EXCEPT !.head[c] = Null] ELSE SetPrev(g, n, p), c)

UnlinkSocket(h, c, s) ==
    LET n == h.next[s]
        p == h.prev[s]
        f == StepIterator(h, c, s)
        g == IF p \in Sockets THEN SetNext(f, p, n) ELSE [f EXCEPT !.head[c] = n]
    IN  Unref(IF p = n THEN [f EXCEPT !.head[c] = Null] ELSE SetPrev(g, n, p), c)

UnlinkListenSocket(h, c, s) ==
    LET n == h.next[s]
        p == h.prev[s]
        f == StepIterator(h, c, s)
        g == IF p \in Sockets THEN SetNext(f, p, n) ELSE [f EXCEPT !.lhead[c] = n]
    IN  Unref(IF p = n THEN [f EXCEPT !.lhead[c] = Null] ELSE SetPrev(g, n, p), c)

\* us_poll_stop: leave epoll and blank the entry of s in the pending ready polls.
PollStop(h, s) == [h EXCEPT !.ready[s] = {}]

PollChange(h, s, dirs) == [h EXCEPT !.poll[s] = dirs]

MarkClosed(h, s) == [h EXCEPT !.prev[s] = h.ctx[s]]
LinkClosed(h, s) == [h EXCEPT !.next[s] = h.closed, !.closed = s]

\* A socket is allocated, polled and linked.
NewSocket(h, c, s, type, dirs) ==
    LET l == [h EXCEPT !.low[s] = 0]
        f == [l EXCEPT !.type[s] = type, !.poll[s] = dirs,
                       !.paused[s] = FALSE, !.due[s] = {}]
    IN  IF type = "listen" THEN LinkListenSocket(f, c, s) ELSE LinkSocket(f, c, s)

-----------------------------------------------------------------------------
(* The low-priority queue.                                                 *)

\* Mutant of LeaveQueue: the successor in the queue keeps its back pointer.
LeaveQueueKeepsPrev(h, s) ==
    LET f == IF h.prev[s] \in Sockets
             THEN SetNext(h, h.prev[s], h.next[s])
             ELSE [h EXCEPT !.lowHead = h.next[s]]
    IN  Unref([f EXCEPT !.prev[s] = Null, !.next[s] = Null, !.low[s] = 0],
              h.ctx[s])

\* us_socket_close and us_socket_detach take a socket out of its list or queue.
LeaveQueue(h, s) ==
    LET f == IF h.prev[s] \in Sockets
             THEN SetNext(h, h.prev[s], h.next[s])
             ELSE [h EXCEPT !.lowHead = h.next[s]]
        g == SetPrev(f, h.next[s], h.prev[s])
    IN  Unref([g EXCEPT !.prev[s] = Null, !.next[s] = Null, !.low[s] = 0],
              h.ctx[s])

Unlinked(h, s) ==
    IF h.low[s] = 1 THEN LeaveQueue(h, s) ELSE UnlinkSocket(h, h.ctx[s], s)

\* Mutant of EnterQueue: unlinking drops the reference that the queue needs.
EnterQueueNoRef(h, s) ==
    LET f == UnlinkSocket(PollChange(h, s, h.poll[s] \cap {"W"}), h.ctx[s], s)
        g == [f EXCEPT !.prev[s] = Null, !.next[s] = f.lowHead]
    IN  [SetPrev(g, f.lowHead, s) EXCEPT !.lowHead = s, !.low[s] = 1]

\* dispatch, out of budget: s stops polling readable, keeps its reference on
\* the context and moves from the list of the context to the queue.
EnterQueue(h, s) ==
    LET c == h.ctx[s]
        f == UnlinkSocket(Ref(PollChange(h, s, h.poll[s] \cap {"W"}), c), c, s)
        g == [f EXCEPT !.prev[s] = Null, !.next[s] = f.lowHead]
    IN  [SetPrev(g, f.lowHead, s) EXCEPT !.lowHead = s, !.low[s] = 1]

\* us_internal_handle_low_priority_sockets, one turn of its loop.
ServeQueue(h) ==
    LET s == h.lowHead
        f == SetPrev([h EXCEPT !.lowHead = h.next[s]], h.next[s], Null)
        g == LinkSocket([f EXCEPT !.next[s] = Null], h.ctx[s], s)
    IN  [PollChange(g, s, g.poll[s] \cup {"R"}) EXCEPT !.low[s] = 2]

-----------------------------------------------------------------------------
(* Closing, detaching and adopting.                                        *)

\* Mutants of CloseBegin and CloseEnd: the socket joins the closed list before
\* its callback; its ready poll is left behind; it never joins the closed list.
CloseBeginLinks(h, s) ==
    MarkClosed(LinkClosed(PollStop(Unlinked(Ref(h, h.ctx[s]), s), s), s), s)
CloseBeginPolled(h, s) == MarkClosed(Unlinked(Ref(h, h.ctx[s]), s), s)
CloseEndLeaks(h, s) == Unref(h, h.ctx[s])

\* us_socket_close up to its on_close callback, and after it.
CloseBegin(h, s) ==
    MarkClosed(PollStop(Unlinked(Ref(h, h.ctx[s]), s), s), s)
CloseEnd(h, s) == Unref(LinkClosed(h, s), h.ctx[s])

\* Mutant of ListenClose: the memory is freed at once.
ListenCloseFrees(h, s) ==
    IF IsClosed(h, s) THEN h
    ELSE FreeSockets(PollStop(UnlinkListenSocket(h, h.ctx[s], s), s), {s})

\* us_listen_socket_close.
ListenClose(h, s) ==
    IF IsClosed(h, s) THEN h
    ELSE MarkClosed(LinkClosed(PollStop(UnlinkListenSocket(h, h.ctx[s], s), s), s), s)

\* us_socket_detach.
Detach(h, s) ==
    IF IsClosed(h, s) THEN h
    ELSE MarkClosed(LinkClosed(PollStop(Unlinked(h, s), s), s), s)

\* us_poll_resize: realloc may move the socket from s to n; the pending ready
\* poll follows it, the pointers of the list it was in do not.
Move(h, s, n) ==
    IF s = n THEN h
    ELSE LET e == [h EXCEPT !.type[n] = h.type[s], !.poll[n] = h.poll[s],
                            !.ctx[n] = h.ctx[s], !.prev[n] = h.prev[s],
                            !.next[n] = h.next[s], !.paused[n] = h.paused[s],
                            !.ready = [@ EXCEPT ![n] = h.ready[s], ![s] = {}]]
         IN  FreeSockets([e EXCEPT !.low[n] = h.low[s]], {s})

\* Mutant of Adopt: the reference that protects the context during the move is
\* never released.
AdoptLeaksRef(h, c, s, n) ==
    LET m == Move(UnlinkSocket(Ref(h, c), h.ctx[s], s), s, n)
    IN  LinkSocket([m EXCEPT !.due[s] = {}, !.due[n] = {}], c, n)

\* us_socket_context_adopt_socket of an open socket s into c, resized into n.
Adopt(h, c, s, n) ==
    LET queued == h.low[s] = 1
        f == IF queued THEN h ELSE UnlinkSocket(Ref(h, c), h.ctx[s], s)
        m == [Move(f, s, n) EXCEPT !.due[s] = {}, !.due[n] = {}]
        q == SetPrev(IF m.prev[n] \in Sockets THEN SetNext(m, m.prev[n], n)
                     ELSE [m EXCEPT !.lowHead = n], m.next[n], n)
    IN  IF queued THEN q ELSE Unref(LinkSocket(m, c, n), c)

-----------------------------------------------------------------------------
(* us_internal_free_closed_sockets and us_internal_free_closed_contexts:   *)
(* what the closed lists reach goes back to the allocator.                 *)
FreeClosed(h) ==
    LET dead == ContextChain(h, h.closedCtx)
        g    == [FreeSockets(h, Chain(h, h.closed)) EXCEPT !.closed = Null]
    IN  [g EXCEPT !.state = Wipe(@, dead, "none"), !.closedCtx = Null,
                  !.ref   = Wipe(@, dead, 0),    !.head  = Wipe(@, dead, Null),
                  !.lhead = Wipe(@, dead, Null), !.iter  = Wipe(@, dead, Null),
                  !.cnext = Wipe(@, dead, Null), !.cprev = Wipe(@, dead, Null)]
=============================================================================
