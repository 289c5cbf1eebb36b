---------------------------- MODULE SocketLoopImpl ----------------------------
(* SocketLoop implements SocketRegistry.  The abstract life of a socket is  *)
(* read off the lists and not off the fields of the socket: it is open if   *)
(* a list of its context (or the queue) reaches it, closed if the closed    *)
(* list reaches it, closing while a frame of us_socket_close holds it.      *)
EXTENDS SocketLoop

OpenIn(s, c) ==
    \/ s \in Chain(h, h.head[c]) \cup Chain(h, h.lhead[c])
    \/ s \in Chain(h, h.lowHead) /\ h.ctx[s] = c

OpenContext(s) == CHOOSE c \in Contexts : OpenIn(s, c)

AbstractSocket(s) ==
    IF \E c \in Contexts : OpenIn(s, c) THEN "open"
    ELSE IF Closing(s) THEN "closing"
    ELSE IF s \in Chain(h, h.closed) THEN "closed" ELSE "free"

AbstractContext(s) ==
    IF AbstractSocket(s) = "free" THEN Null
    ELSE IF AbstractSocket(s) = "open" THEN OpenContext(s)
    ELSE h.ctx[s]

AbstractLife(c) ==
    IF c \in ContextChain(h, h.chead) THEN "live"
    ELSE IF c \in ContextChain(h, h.closedCtx) THEN "dead" ELSE "none"

AbstractSockets  == [s \in Sockets |-> AbstractSocket(s)]
AbstractContexts == [s \in Sockets |-> AbstractContext(s)]
AbstractLives    == [c \in Contexts |-> AbstractLife(c)]

Registry == INSTANCE SocketRegistry WITH
    sock <- AbstractSockets, ctx <- AbstractContexts, life <- AbstractLives

\* Every step of the loop is a step of the registry or changes nothing in it.
ImplementsRegistry == Registry!Spec
=============================================================================
