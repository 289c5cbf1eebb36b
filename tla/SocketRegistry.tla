---------------------------- MODULE SocketRegistry ----------------------------
(***************************************************************************)
(* What uSockets promises about the lifetime of sockets and contexts, with *)
(* no list, pointer or reference count: a socket is open in one context    *)
(* until it is closed, its on_close callback runs to the end, and only the *)
(* end of a tick gives its memory back; a context lives exactly as long as *)
(* its creator, an open socket or a running close needs it.  SocketLoop    *)
(* implements this with intrusive lists and ref_count (SocketLoopImpl).    *)
(***************************************************************************)
EXTENDS Naturals

CONSTANTS Contexts, Sockets, Null

VARIABLES
    sock,     \* the life of each socket
    ctx,      \* the context of each socket that is not free
    life,     \* the life of each context
    owner     \* the contexts whose creator has not freed them

vars == <<sock, ctx, life, owner>>

TypeOK ==
    /\ sock \in [Sockets -> {"free", "open", "closing", "closed"}]
    /\ ctx  \in [Sockets -> Contexts \cup {Null}]
    /\ life \in [Contexts -> {"none", "live", "dead"}]
    /\ owner \subseteq Contexts

Needs(c, so, cx, ow) ==
    c \in ow \/ \E s \in Sockets : so[s] \in {"open", "closing"} /\ cx[s] = c

\* A live context that nothing needs any more dies in the same step.
Settle(so, cx, ow) ==
    [c \in Contexts |-> IF life[c] = "live" /\ ~Needs(c, so, cx, ow)
                        THEN "dead" ELSE life[c]]

Init ==
    /\ sock = [s \in Sockets |-> "free"]
    /\ ctx = [s \in Sockets |-> Null]
    /\ life = [c \in Contexts |-> "none"]
    /\ owner = {}

Create(c) ==
    /\ life[c] = "none"
    /\ life' = [life EXCEPT ![c] = "live"]
    /\ owner' = owner \cup {c}
    /\ UNCHANGED <<sock, ctx>>

Disown(c) ==
    /\ c \in owner
    /\ owner' = owner \ {c}
    /\ life' = Settle(sock, ctx, owner')
    /\ UNCHANGED <<sock, ctx>>

Open(s, c) ==
    /\ sock[s] = "free" /\ life[c] = "live"
    /\ sock' = [sock EXCEPT ![s] = "open"]
    /\ ctx' = [ctx EXCEPT ![s] = c]
    /\ UNCHANGED <<life, owner>>

\* The socket is closed and on_close is about to run.
BeginClose(s) ==
    /\ sock[s] = "open"
    /\ sock' = [sock EXCEPT ![s] = "closing"]
    /\ UNCHANGED <<ctx, life, owner>>

\* on_close has returned, or the socket had none.
Close(s) ==
    /\ sock[s] \in {"open", "closing"}
    /\ sock' = [sock EXCEPT ![s] = "closed"]
    /\ life' = Settle(sock', ctx, owner)
    /\ UNCHANGED <<ctx, owner>>

\* An open socket changes context, and address when it is resized.
Adopt(s, n, c) ==
    /\ sock[s] = "open" /\ life[c] = "live"
    /\ n = s \/ sock[n] = "free"
    /\ sock' = [[sock EXCEPT ![s] = "free"] EXCEPT ![n] = "open"]
    /\ ctx'  = [[ctx EXCEPT ![s] = Null] EXCEPT ![n] = c]
    /\ life' = Settle(sock', ctx', owner)
    /\ UNCHANGED owner

\* The end of a tick frees every closed socket and every dead context.
Reap ==
    /\ sock' = [s \in Sockets |-> IF sock[s] = "closed" THEN "free" ELSE sock[s]]
    /\ ctx'  = [s \in Sockets |-> IF sock[s] = "closed" THEN Null ELSE ctx[s]]
    /\ life' = [c \in Contexts |-> IF life[c] = "dead" THEN "none" ELSE life[c]]
    /\ UNCHANGED owner

Next ==
    \/ \E c \in Contexts : Create(c) \/ Disown(c)
    \/ \E s \in Sockets, c \in Contexts : Open(s, c)
    \/ \E s \in Sockets : BeginClose(s) \/ Close(s)
    \/ \E s \in Sockets, n \in Sockets, c \in Contexts : Adopt(s, n, c)
    \/ Reap

Spec == Init /\ [][Next]_vars

-----------------------------------------------------------------------------
\* A context is live exactly while somebody needs it.
LiveIffNeeded ==
    \A c \in Contexts : life[c] = "live" <=> Needs(c, sock, ctx, owner)

\* The context of a socket is not freed before the socket: `s->context` may be
\* read for as long as the socket is allocated.
ContextOutlivesSocket ==
    \A s \in Sockets :
        sock[s] # "free" => ctx[s] \in Contexts /\ life[ctx[s]] # "none"

Inv == TypeOK /\ LiveIffNeeded /\ ContextOutlivesSocket
=============================================================================
