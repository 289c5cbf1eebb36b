------------------------- MODULE SocketHeapInvariant -------------------------
(***************************************************************************)
(* What the heap of SocketHeap looks like between two steps of the loop,   *)
(* whatever functions wait on the stack.  The proofs state it with ranks:  *)
(* a number for each socket that grows along every list, so that a list is *)
(* described without counting how far its links lead.                      *)
(***************************************************************************)
EXTENDS SocketHeap

\* A socket that is allocated has a context; `prev` is a link or the closed
\* mark; a pending ready poll belongs to an open socket.
Sound(h) ==
    /\ h \in Heap
    /\ \A s \in Sockets : h.type[s] # "free" => h.ctx[s] \in Contexts
    /\ \A s \in Sockets : h.prev[s] \in SocketPtr \cup {h.ctx[s]}
    /\ \A s \in Sockets : h.ready[s] # {} => Open(h, s)

-----------------------------------------------------------------------------
(* Lists.                                                                  *)

\* The links nx lead from p through the addresses of S in the order of r.
Ordered(nx, S, p, r) ==
    /\ p \in S \cup {Null} /\ (S # {} => p \in S)
    /\ \A x \in S :
         /\ nx[x] # Null => nx[x] \in S /\ r[x] < r[nx[x]]
         /\ r[p] <= r[x]
         /\ \A y \in S : /\ r[x] < r[y] => nx[x] # Null /\ r[nx[x]] <= r[y]
                         /\ r[x] = r[y] => x = y

\* The links pv lead back.
Backed(nx, pv, S, p) ==
    /\ p # Null => pv[p] = Null
    /\ \A x \in S : /\ pv[x] = Null => x = p
                    /\ pv[x] # Null => pv[x] \in S /\ nx[pv[x]] = x
                    /\ nx[x] # Null => pv[nx[x]] = x

\* A doubly linked list.
Threaded(nx, pv, S, p, r) == Ordered(nx, S, p, r) /\ Backed(nx, pv, S, p)

\* Who belongs where, read off the fields of the sockets.
Regular(g, c) ==
    {s \in Sockets : Open(g, s) /\ g.ctx[s] = c /\ g.type[s] # "listen" /\ g.low[s] # 1}
Listening(g, c) == {s \in Sockets : Open(g, s) /\ g.ctx[s] = c /\ g.type[s] = "listen"}
Queued(g)       == {s \in Sockets : Open(g, s) /\ g.type[s] # "listen" /\ g.low[s] = 1}
Dead(g)         == {s \in Sockets : g.type[s] # "free" /\ IsClosed(g, s)}
ClosedContexts(g) == {c \in Contexts : g.state[c] = "closed"}

\* Every socket outside X is on the list it belongs to and those of X are on
\* none; the sweep of a context stands on one of its sockets.
Lists(g, X, r) ==
    /\ r \in [Sockets -> Int]
    /\ \A c \in Contexts :
          /\ Threaded(g.next, g.prev, Regular(g, c) \ X, g.head[c], r)
          /\ Threaded(g.next, g.prev, Listening(g, c) \ X, g.lhead[c], r)
          /\ g.iter[c] # Null => g.iter[c] \in Regular(g, c) \ X
    /\ Threaded(g.next, g.prev, Queued(g) \ X, g.lowHead, r)
    /\ Ordered(g.next, Dead(g) \ X, g.closed, r)

-----------------------------------------------------------------------------
(* Contexts.                                                               *)

\* The contexts of the loop: the live ones are linked both ways, the closed ones
\* wait in a list of their own, and a context is live while it is referenced.
LiveContexts(g) == {c \in Contexts : g.state[c] = "live"}
LiveList(g) ==
    \E r \in [Contexts -> Int] : Threaded(g.cnext, g.cprev, LiveContexts(g), g.chead, r)
ContextsOK(g) ==
    /\ LiveList(g)
    /\ \E r \in [Contexts -> Int] : Ordered(g.cnext, ClosedContexts(g), g.closedCtx, r)
    /\ \A c \in Contexts : g.ref[c] >= 0 /\ (g.state[c] = "live" <=> g.ref[c] # 0)

\* Who holds a reference of a context: its creator, its open sockets and the
\* sockets of K, whose close has not finished.
Holding(g, K, s) == g.type[s] # "free" /\ (IsClosed(g, s) => s \in K)
Holders(g, K, own, c) ==
    ({c} \cap own) \cup {s \in Sockets : Holding(g, K, s) /\ g.ctx[s] = c}

\* The count covers the holders; it is exact in a program that queues nothing,
\* for ServeQueue takes a reference that the socket has already.
Covered(g, K, own, plain) ==
    \A c \in Contexts :
        /\ g.ref[c] >= Cardinality(Holders(g, K, own, c))
        /\ plain => g.ref[c] = Cardinality(Holders(g, K, own, c))

-----------------------------------------------------------------------------
(* The heap.  K is the set of the sockets whose close has not finished;    *)
(* m.plain says that nothing is ever queued.                              *)

\* What the closed socket s of K still links to is a socket, not a listener.
Stale(g, K) ==
    \A s \in K : /\ s \in Dead(g)
                 /\ g.next[s] # Null => g.type[g.next[s]] \notin {"free", "listen"}

\* The context of a socket that is allocated is there.
Homes(g) == \A s \in Sockets : g.type[s] # "free" => g.state[g.ctx[s]] # "none"

\* The types of the sockets agree with their queue states and their polls.
Modes(g, m) ==
    \A s \in Sockets : Open(g, s) =>
       /\ m.plain => g.low[s] = 0
       /\ g.low[s] = 1 => g.type[s] \in {"socket", "shut"} /\ "R" \notin g.poll[s]
       /\ g.type[s] = "listen" => g.poll[s] = {"R"}

Heaped(g, K, own, r, m) ==
    /\ Sound(g) /\ Lists(g, K, r) /\ Stale(g, K) /\ Homes(g) /\ Modes(g, m)
    /\ ContextsOK(g) /\ Covered(g, K, own, m.plain)

\* A sweep that came to s in the context c has served all that comes before its
\* iterator, s included if the iterator has left it, and has `left` to deliver to s.
Ahead(g, c, p, r) == \A x \in Regular(g, c) : g.due[x] # {} => p # Null /\ r[p] <= r[x]
SweptAt(g, c, s, left, r) ==
    /\ s \in Regular(g, c) /\ g.iter[c] # Null => r[s] <= r[g.iter[c]]
    /\ g.iter[c] = s => g.due[s] \subseteq left
    /\ Ahead(g, c, g.iter[c], r)
=============================================================================
