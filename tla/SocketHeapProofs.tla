--------------------------- MODULE SocketHeapProofs ---------------------------
(***************************************************************************)
(* Lemmas about the heap, for every set of sockets and contexts.  First    *)
(* what each helper of SocketHeap leaves sound; then lists with their      *)
(* ranks; then the functions of socket.c, context.c and loop.c on the      *)
(* whole heap: each takes a heap that is well formed (Heaped) to another,  *)
(* and leaves the functions that wait on the stack what they rely on       *)
(* (Keeps, SweepKept).                                                     *)
(***************************************************************************)
EXTENDS SocketHeapInvariant, FiniteSetTheorems, WellFoundedInduction, TLAPS

\* An address is a socket, a context or Null, never two of them.
LEMMA AddressesDiffer ==
    /\ Null \notin Sockets /\ Null \notin Contexts
    /\ \A s \in Sockets : s \notin Contexts
  BY DistinctAddresses

\* Chains are made of sockets and of contexts.
LEMMA ChainType ==
    ASSUME NEW h, NEW p
    PROVE  Chain(h, p) \subseteq Sockets /\ ContextChain(h, p) \subseteq Contexts
  BY DEF Chain, ContextChain

\* A heap that differs in nothing Sound speaks of is sound too.
LEMMA SameSockets ==
    ASSUME NEW h, Sound(h), NEW g \in Heap,
           g.type = h.type, g.ctx = h.ctx, g.prev = h.prev, g.ready = h.ready
    PROVE  Sound(g)
  BY DEF Sound, Open, IsClosed

\* Writes through a link keep the heap sound.
LEMMA SetNextSound ==
    ASSUME NEW h, Sound(h), NEW p, NEW v \in SocketPtr
    PROVE  Sound(SetNext(h, p, v))
<1>1. CASE p \notin Sockets
  BY <1>1 DEF SetNext
<1>2. CASE p \in Sockets
  <2> DEFINE g == [h EXCEPT !.next[p] = v]
  <2>1. g \in Heap
    BY <1>2 DEF Sound, Heap
  <2>2. g.type = h.type /\ g.ctx = h.ctx /\ g.prev = h.prev /\ g.ready = h.ready
    BY DEF Sound, Heap
  <2> QED BY <1>2, <2>1, <2>2, SameSockets DEF SetNext
<1> QED BY <1>1, <1>2

\* ... and back through `prev`.
LEMMA SetPrevSound ==
    ASSUME NEW h, Sound(h), NEW p, NEW v \in SocketPtr
    PROVE  Sound(SetPrev(h, p, v))
<1>1. CASE p \notin Sockets
  BY <1>1 DEF SetPrev
<1>2. CASE p \in Sockets
  <2> DEFINE g == [h EXCEPT !.prev[p] = v]
  <2>1. g \in Heap
    BY <1>2 DEF Sound, Heap
  <2>2. g.type = h.type /\ g.ctx = h.ctx /\ g.ready = h.ready
    BY DEF Sound, Heap
  <2>3. \A s \in Sockets : g.prev[s] = IF s = p THEN v ELSE h.prev[s]
    BY <1>2 DEF Sound, Heap
  <2>4. \A s \in Sockets : g.ready[s] # {} => Open(g, s)
    BY <1>2, <2>2, <2>3, AddressesDiffer DEF Sound, Open, IsClosed, SocketPtr
  <2> HIDE DEF g
  <2>5. Sound(g)
    BY <2>1, <2>2, <2>3, <2>4 DEF Sound
  <2> QED BY <1>2, <2>5 DEF SetPrev, g
<1> QED BY <1>1, <1>2

-----------------------------------------------------------------------------
(* Contexts.                                                               *)

\* The fields of the sockets that Sound and the lists read.
SameSocketFields(g, h) ==
    g.type = h.type /\ g.ctx = h.ctx /\ g.prev = h.prev /\ g.ready = h.ready
    /\ g.next = h.next /\ g.low = h.low

\* A context that leaves the loop or is freed touches no socket.
LEMMA LoopUnlinkSound ==
    ASSUME NEW h, Sound(h), NEW c \in Contexts
    PROVE  Sound(LoopUnlink(h, c)) /\ SameSocketFields(LoopUnlink(h, c), h)
<1> DEFINE n == h.cnext[c]
           p == h.cprev[c]
           g == IF h.chead = c THEN [h EXCEPT !.chead = n]
                ELSE IF p = Null THEN h ELSE [h EXCEPT !.cnext[p] = n]
           k == IF n = Null THEN g
                ELSE [g EXCEPT !.cprev[n] = IF h.chead = c THEN Null ELSE p]
<1>1. n \in ContextPtr /\ p \in ContextPtr
  BY DEF Sound, Heap
<1>2. g \in Heap /\ SameSocketFields(g, h)
  BY <1>1 DEF Sound, Heap, SameSocketFields
<1>3. k \in Heap /\ SameSocketFields(k, h)
  <2> HIDE DEF g
  <2>1. CASE n = Null
    BY <1>2, <2>1
  <2>2. CASE n # Null
    <3> DEFINE v == IF h.chead = c THEN Null ELSE p
    <3>1. n \in Contexts /\ v \in ContextPtr
      BY <1>1, <2>2 DEF ContextPtr
    <3>2. k = [g EXCEPT !.cprev[n] = v]
      BY <2>2
    <3> HIDE DEF k, v, n
    <3>3. k \in Heap
      BY <1>2, <3>1, <3>2 DEF Heap
    <3>4. SameSocketFields(k, g)
      BY <1>2, <3>2 DEF Heap, SameSocketFields
    <3> QED BY <1>2, <3>3, <3>4 DEF SameSocketFields
  <2> QED BY <2>1, <2>2
<1> QED BY <1>3, SameSockets DEF LoopUnlink, SameSocketFields

\* ... nor does the move to the closed list.
LEMMA ContextFreeSound ==
    ASSUME NEW h, Sound(h), NEW c \in Contexts
    PROVE  Sound(ContextFree(h, c)) /\ SameSocketFields(ContextFree(h, c), h)
<1> DEFINE g == LoopUnlink(h, c)
           k == [g EXCEPT !.cnext[c] = h.closedCtx, !.closedCtx = c,
                          !.state[c] = "closed"]
<1>1. Sound(g) /\ SameSocketFields(g, h)
  BY LoopUnlinkSound
<1>2. h.closedCtx \in ContextPtr
  BY DEF Sound, Heap
<1>3. k \in Heap /\ SameSocketFields(k, h)
  <2> HIDE DEF g
  <2> QED BY <1>1, <1>2 DEF Sound, Heap, SameSocketFields, ContextPtr
<1> QED BY <1>3, SameSockets DEF ContextFree, SameSocketFields

\* A reference count is an integer.
LEMMA SetRefType ==
    ASSUME NEW h \in Heap, NEW c \in Contexts, NEW n \in Int
    PROVE  /\ [h EXCEPT !.ref[c] = n] \in Heap
           /\ SameSocketFields([h EXCEPT !.ref[c] = n], h)
  BY DEF Heap, SameSocketFields

\* References are taken and dropped without touching a socket.
LEMMA RefSound ==
    ASSUME NEW h, Sound(h), NEW c \in ContextPtr
    PROVE  /\ Sound(Ref(h, c)) /\ SameSocketFields(Ref(h, c), h)
           /\ Sound(Unref(h, c)) /\ SameSocketFields(Unref(h, c), h)
<1>1. CASE c = Null
  BY <1>1 DEF Ref, Unref, SameSocketFields
<1>2. CASE c \in Contexts
  <2> DEFINE up   == [h EXCEPT !.ref[c] = @ + 1]
             down == [h EXCEPT !.ref[c] = @ - 1]
  <2>0. h \in Heap /\ h.ref[c] + 1 \in Int /\ h.ref[c] - 1 \in Int
    BY <1>2 DEF Sound, Heap
  <2>1. up \in Heap /\ SameSocketFields(up, h)
    BY <1>2, <2>0, SetRefType
  <2>2. down \in Heap /\ SameSocketFields(down, h)
    BY <1>2, <2>0, SetRefType
  <2>3. Ref(h, c) = up
    BY <1>2, AddressesDiffer DEF Ref
  <2>4. Unref(h, c) = IF h.ref[c] = 1 THEN ContextFree(down, c) ELSE down
    BY <1>2, AddressesDiffer DEF Unref
  <2> HIDE DEF up, down
  <2>5. Sound(up) /\ Sound(down)
    BY <2>1, <2>2, SameSockets DEF SameSocketFields
  <2>6. Sound(ContextFree(down, c)) /\ SameSocketFields(ContextFree(down, c), down)
    BY <1>2, <2>5, ContextFreeSound
  <2>7. SameSocketFields(ContextFree(down, c), h)
    BY <2>2, <2>6 DEF SameSocketFields
  <2> QED BY <2>1, <2>2, <2>3, <2>4, <2>5, <2>6, <2>7
<1> QED BY <1>1, <1>2 DEF ContextPtr

\* A new context touches no socket.
LEMMA CreateContextSound ==
    ASSUME NEW h, Sound(h), NEW c \in Contexts
    PROVE  Sound(CreateContext(h, c))
<1> DEFINE f == [h EXCEPT !.state[c] = "live", !.ref[c] = 1, !.head[c] = Null,
                          !.lhead[c] = Null, !.iter[c] = Null]
           g == [f EXCEPT !.cnext[c] = f.chead, !.cprev[c] = Null, !.chead = c]
           k == IF f.chead = Null THEN g ELSE [g EXCEPT !.cprev[f.chead] = c]
<1>1. f \in Heap /\ SameSocketFields(f, h)
  <2> DEFINE r == [h EXCEPT !.ref[c] = 1]
             e == [r EXCEPT !.state[c] = "live", !.head[c] = Null,
                            !.lhead[c] = Null, !.iter[c] = Null]
  <2>1. r \in Heap /\ SameSocketFields(r, h)
    BY SetRefType DEF Sound
  <2>2. f = e
    BY ZenonT(60) DEF Sound, Heap
  <2> HIDE DEF r
  <2>3. e \in Heap /\ SameSocketFields(e, r)
    BY <2>1 DEF Heap, SameSocketFields, SocketPtr
  <2> QED BY <2>1, <2>2, <2>3 DEF SameSocketFields
<1>2. CreateContext(h, c) = k
  BY DEF CreateContext, LoopLink
<1> HIDE DEF f
<1>3. g \in Heap /\ SameSocketFields(g, f) /\ f.chead \in ContextPtr
  BY <1>1 DEF Heap, SameSocketFields, ContextPtr
<1> HIDE DEF g
<1>4. k \in Heap /\ SameSocketFields(k, f)
  BY <1>3 DEF Heap, SameSocketFields, ContextPtr
<1> HIDE DEF k
<1>5. SameSocketFields(k, h)
  BY <1>1, <1>4 DEF SameSocketFields
<1> QED BY <1>2, <1>4, <1>5, SameSockets DEF SameSocketFields

-----------------------------------------------------------------------------
(* Sockets of a context.                                                   *)

\* Writing a list head changes nothing Sound speaks of.
LEMMA HeadsSound ==
    ASSUME NEW h, Sound(h), NEW c \in ContextPtr, NEW p \in SocketPtr
    PROVE  /\ Sound([h EXCEPT !.head[c] = p])
           /\ Sound([h EXCEPT !.lhead[c] = p])
           /\ Sound([h EXCEPT !.iter[c] = p])
           /\ Sound([h EXCEPT !.lowHead = p])
           /\ SameSocketFields([h EXCEPT !.iter[c] = p], h)
<1>1. h \in Heap
  BY DEF Sound
<1>2. /\ [h EXCEPT !.head[c] = p] \in Heap /\ [h EXCEPT !.lhead[c] = p] \in Heap
      /\ [h EXCEPT !.iter[c] = p] \in Heap /\ [h EXCEPT !.lowHead = p] \in Heap
  BY <1>1 DEF Heap
<1>3. /\ SameSocketFields([h EXCEPT !.head[c] = p], h)
      /\ SameSocketFields([h EXCEPT !.lhead[c] = p], h)
      /\ SameSocketFields([h EXCEPT !.iter[c] = p], h)
      /\ SameSocketFields([h EXCEPT !.lowHead = p], h)
  BY <1>1 DEF Heap, SameSocketFields
<1> QED BY <1>2, <1>3, SameSockets DEF SameSocketFields

\* Sound, but for the context and the links of s.
SoundBut(h, s) ==
    /\ h \in Heap
    /\ \A t \in Sockets \ {s} :
          /\ h.type[t] # "free" => h.ctx[t] \in Contexts
          /\ h.prev[t] \in SocketPtr \cup {h.ctx[t]}
          /\ h.ready[t] # {} => Open(h, t)
    /\ h.ready[s] # {} => h.type[s] # "free"

\* A sound heap is sound but for any of its sockets.
LEMMA SoundIsSoundBut ==
    ASSUME NEW h, Sound(h), NEW s \in Sockets
    PROVE  SoundBut(h, s)
  BY DEF Sound, SoundBut, Open

\* A socket whose links are written again is sound.
LEMMA RelinkSound ==
    ASSUME NEW s \in Sockets, NEW h, SoundBut(h, s),
           NEW c \in Contexts, NEW n \in SocketPtr
    PROVE  Sound([h EXCEPT !.ctx[s] = c, !.next[s] = n, !.prev[s] = Null])
<1> DEFINE g == [h EXCEPT !.ctx[s] = c, !.next[s] = n, !.prev[s] = Null]
<1>1. h \in Heap
  BY DEF SoundBut
<1>2. g \in Heap
  BY <1>1 DEF Heap, ContextPtr, SocketPtr
<1>3. /\ g.type = h.type /\ g.ready = h.ready
      /\ g.ctx[s] = c /\ g.prev[s] = Null
      /\ \A t \in Sockets \ {s} : g.ctx[t] = h.ctx[t] /\ g.prev[t] = h.prev[t]
  BY <1>1 DEF Heap
<1> HIDE DEF g
<1>4. \A t \in Sockets : g.type[t] # "free" => g.ctx[t] \in Contexts
  BY <1>3 DEF SoundBut
<1>5. \A t \in Sockets : g.prev[t] \in SocketPtr \cup {g.ctx[t]}
  BY <1>3 DEF SoundBut, SocketPtr
<1>6. \A t \in Sockets : g.ready[t] # {} => Open(g, t)
  BY <1>3, AddressesDiffer DEF SoundBut, Open, IsClosed
<1>7. Sound(g)
  BY <1>2, <1>4, <1>5, <1>6 DEF Sound
<1> QED BY <1>7 DEF g

\* us_internal_socket_context_link_socket and its twin for listen sockets.
LEMMA LinkSocketSound ==
    ASSUME NEW s \in Sockets, NEW h, SoundBut(h, s), NEW c \in Contexts
    PROVE  Sound(LinkSocket(h, c, s)) /\ Sound(LinkListenSocket(h, c, s))
<1>1. h.head[c] \in SocketPtr /\ h.lhead[c] \in SocketPtr
  BY DEF SoundBut, Heap
<1>2. \A p \in SocketPtr :
        Sound(SetPrev([h EXCEPT !.ctx[s] = c, !.next[s] = p, !.prev[s] = Null], p, s))
  BY RelinkSound, SetPrevSound DEF SocketPtr
<1>3. \A g : Sound(g) => /\ Sound(Ref([g EXCEPT !.head[c] = s], c))
                         /\ Sound(Ref([g EXCEPT !.lhead[c] = s], c))
  BY HeadsSound, RefSound DEF SocketPtr, ContextPtr
<1>4. c # Null
  BY AddressesDiffer
<1>5. Sound(LinkSocket(h, c, s))
  BY <1>1, <1>2, <1>3, <1>4 DEF LinkSocket
<1>6. Sound(LinkListenSocket(h, c, s))
  BY <1>1, <1>2, <1>3 DEF LinkListenSocket
<1> QED BY <1>5, <1>6

\* The iterator of a sweep moves on.
LEMMA StepIteratorSound ==
    ASSUME NEW h, Sound(h), NEW c \in ContextPtr, NEW s \in Sockets
    PROVE  Sound(StepIterator(h, c, s)) /\ SameSocketFields(StepIterator(h, c, s), h)
<1>1. h.next[s] \in SocketPtr
  BY DEF Sound, Heap
<1>2. SameSocketFields(h, h)
  BY DEF SameSocketFields
<1> QED BY <1>1, <1>2, HeadsSound DEF StepIterator

\* The socket to unlink is open: its `prev` is a link, not the closed mark.
LEMMA UnlinkSocketSound ==
    ASSUME NEW h, Sound(h), NEW c \in ContextPtr, NEW s \in Sockets, ~IsClosed(h, s)
    PROVE  Sound(UnlinkSocket(h, c, s)) /\ Sound(UnlinkListenSocket(h, c, s))
<1> DEFINE n == h.next[s]
           p == h.prev[s]
           f == StepIterator(h, c, s)
<1>1. n \in SocketPtr /\ p \in SocketPtr
  BY DEF Sound, Heap, IsClosed
<1>2. Sound(f)
  BY StepIteratorSound
<1>3. Null \in SocketPtr
  BY DEF SocketPtr
<1> HIDE DEF n, p, f
<1>4. Sound(SetNext(f, p, n))
  BY <1>1, <1>2, SetNextSound
<1>5. \A q \in SocketPtr :
        Sound([f EXCEPT !.head[c] = q]) /\ Sound([f EXCEPT !.lhead[c] = q])
  BY <1>2, HeadsSound
<1>6. \A g : Sound(g) => Sound(SetPrev(g, n, p))
  BY <1>1, SetPrevSound
<1>7. \A g : Sound(g) => Sound(Unref(g, c))
  BY RefSound
<1>8. Sound(UnlinkSocket(h, c, s))
  BY <1>1, <1>3, <1>4, <1>5, <1>6, <1>7 DEF UnlinkSocket, n, p, f
<1>9. Sound(UnlinkListenSocket(h, c, s))
  BY <1>1, <1>3, <1>4, <1>5, <1>6, <1>7 DEF UnlinkListenSocket, n, p, f
<1> QED BY <1>8, <1>9

-----------------------------------------------------------------------------
(* Closing.                                                                *)

\* us_poll_stop blanks the pending ready poll of the socket.
LEMMA PollStopSound ==
    ASSUME NEW h, Sound(h), NEW s \in Sockets
    PROVE  Sound(PollStop(h, s)) /\ PollStop(h, s).ready[s] = {}
<1> DEFINE g == PollStop(h, s)
<1>1. /\ g \in Heap
      /\ g.type = h.type /\ g.ctx = h.ctx /\ g.prev = h.prev
      /\ \A t \in Sockets : g.ready[t] = IF t = s THEN {} ELSE h.ready[t]
  BY DEF Sound, Heap, PollStop
<1> HIDE DEF g
<1>2. Sound(g) /\ g.ready[s] = {}
  BY <1>1 DEF Sound, Open, IsClosed
<1> QED BY <1>2 DEF g

\* A poll change touches no link.
LEMMA PollChangeSound ==
    ASSUME NEW h, Sound(h), NEW s \in Sockets, NEW d \in SUBSET Directions
    PROVE  Sound(PollChange(h, s, d)) /\ SameSocketFields(PollChange(h, s, d), h)
<1>1. PollChange(h, s, d) \in Heap
  BY DEF Sound, Heap, PollChange
<1>2. SameSocketFields(PollChange(h, s, d), h)
  BY DEF Sound, Heap, PollChange, SameSocketFields
<1> QED BY <1>1, <1>2, SameSockets DEF SameSocketFields

\* Once its ready poll is blanked a socket may be marked closed.
LEMMA MarkClosedSound ==
    ASSUME NEW h, Sound(h), NEW s \in Sockets, h.ready[s] = {}
    PROVE  Sound(MarkClosed(h, s))
<1> DEFINE g == MarkClosed(h, s)
<1>1. h.ctx[s] \in ContextPtr
  BY DEF Sound, Heap
<1>2. /\ g \in Heap
      /\ g.type = h.type /\ g.ctx = h.ctx /\ g.ready = h.ready
      /\ \A t \in Sockets : g.prev[t] = IF t = s THEN h.ctx[s] ELSE h.prev[t]
  <2>1. h \in Heap
    BY DEF Sound
  <2>2. h.ctx[s] \in SocketPtr \cup Contexts
    BY <1>1 DEF ContextPtr, SocketPtr
  <2>3. /\ g.type = h.type /\ g.ctx = h.ctx /\ g.ready = h.ready
        /\ g.prev = [h.prev EXCEPT ![s] = h.ctx[s]]
    BY <2>1 DEF Heap, MarkClosed
  <2>4. g \in Heap
    BY <2>1, <2>2 DEF Heap, MarkClosed
  <2>5. h.prev \in [Sockets -> SocketPtr \cup Contexts]
    BY <2>1 DEF Heap
  <2> QED BY <2>3, <2>4, <2>5
<1> HIDE DEF g
<1>3. Sound(g)
  BY <1>2 DEF Sound, Open, IsClosed
<1> QED BY <1>3 DEF g

\* The closed list grows.
LEMMA LinkClosedSound ==
    ASSUME NEW h, Sound(h), NEW s \in Sockets
    PROVE  Sound(LinkClosed(h, s)) /\ LinkClosed(h, s).ctx = h.ctx
<1>1. LinkClosed(h, s) \in Heap
  BY DEF Sound, Heap, LinkClosed, SocketPtr
<1>2. LET g == LinkClosed(h, s)
      IN  g.type = h.type /\ g.ctx = h.ctx /\ g.prev = h.prev /\ g.ready = h.ready
  BY DEF Sound, Heap, LinkClosed
<1> QED BY <1>1, <1>2, SameSockets

\* A queue state is written.
LEMMA SetLowSound ==
    ASSUME NEW h, Sound(h), NEW s \in Sockets, NEW v \in 0..2
    PROVE  Sound([h EXCEPT !.low[s] = v])
<1> DEFINE g == [h EXCEPT !.low[s] = v]
<1>1. g \in Heap
  BY DEF Sound, Heap
<1>2. g.type = h.type /\ g.ctx = h.ctx /\ g.prev = h.prev /\ g.ready = h.ready
  BY DEF Sound, Heap
<1> QED BY <1>1, <1>2, SameSockets

\* s leaves the low-priority queue; `low` is not something Sound speaks of.
LEMMA LeaveQueueSound ==
    ASSUME NEW h, Sound(h), NEW s \in Sockets, ~IsClosed(h, s)
    PROVE  Sound(LeaveQueue(h, s))
<1> DEFINE n == h.next[s]
           p == h.prev[s]
           f == IF p \in Sockets THEN SetNext(h, p, n) ELSE [h EXCEPT !.lowHead = n]
           g == SetPrev(f, n, p)
           a == SetPrev(g, s, Null)
           b == SetNext(a, s, Null)
           k == [b EXCEPT !.low[s] = 0]
<1>1. n \in SocketPtr /\ p \in SocketPtr /\ h.ctx[s] \in ContextPtr
      /\ Null \in SocketPtr
  BY DEF Sound, Heap, IsClosed, SocketPtr
<1>2. Sound([h EXCEPT !.lowHead = n])
  BY <1>1 DEF Sound, Heap, Open, IsClosed
<1>3. Sound(f)
  BY <1>1, <1>2, SetNextSound
<1> HIDE DEF f
<1>4. Sound(b)
  BY <1>1, <1>3, SetPrevSound, SetNextSound
<1> HIDE DEF g
<1>5. [g EXCEPT !.prev[s] = Null, !.next[s] = Null, !.low[s] = 0] = k
  BY DEF SetPrev, SetNext
<1> HIDE DEF a, b
<1>6. 0 \in 0..2
  OBVIOUS
<1>7. Sound(k)
  BY <1>4, <1>6, SetLowSound
<1> HIDE DEF k
<1>8. Sound(Unref(k, h.ctx[s]))
  BY <1>1, <1>7, RefSound
<1>9. LeaveQueue(h, s) = Unref([g EXCEPT !.prev[s] = Null, !.next[s] = Null,
                                         !.low[s] = 0], h.ctx[s])
  BY DEF LeaveQueue, g, f
<1> QED BY <1>5, <1>8, <1>9

\* A socket that is closed or detached leaves its list or the queue.
LEMMA UnlinkedSound ==
    ASSUME NEW h, Sound(h), NEW s \in Sockets, ~IsClosed(h, s)
    PROVE  Sound(Unlinked(h, s))
<1>1. h.ctx[s] \in ContextPtr
  BY DEF Sound, Heap
<1> QED BY <1>1, LeaveQueueSound, UnlinkSocketSound DEF Unlinked

\* us_socket_close, us_listen_socket_close and us_socket_detach.
LEMMA CloseSound ==
    ASSUME NEW h, Sound(h), NEW s \in Sockets
    PROVE  /\ ~IsClosed(h, s) => Sound(CloseBegin(h, s))
           /\ Sound(CloseEnd(h, s))
           /\ ~IsClosed(h, s) => Sound(ListenClose(h, s)) /\ Sound(Detach(h, s))
<1>1. ASSUME ~IsClosed(h, s) PROVE Sound(CloseBegin(h, s))
  <2>1. h.ctx[s] \in ContextPtr
    BY DEF Sound, Heap
  <2>2. Sound(Ref(h, h.ctx[s])) /\ ~IsClosed(Ref(h, h.ctx[s]), s)
    BY <1>1, <2>1, RefSound DEF SameSocketFields, IsClosed
  <2> QED BY <2>2, UnlinkedSound, PollStopSound, MarkClosedSound DEF CloseBegin
<1>2. Sound(CloseEnd(h, s))
  <2>1. h.ctx[s] \in ContextPtr
    BY DEF Sound, Heap
  <2> QED BY <2>1, LinkClosedSound, RefSound DEF CloseEnd
<1>3. ASSUME NEW g, Sound(g)
      PROVE  Sound(MarkClosed(LinkClosed(PollStop(g, s), s), s))
  <2>1. Sound(PollStop(g, s)) /\ PollStop(g, s).ready[s] = {}
    BY <1>3, PollStopSound
  <2>2. LinkClosed(PollStop(g, s), s).ready = PollStop(g, s).ready
    BY <2>1 DEF LinkClosed, Sound, Heap
  <2> QED BY <2>1, <2>2, LinkClosedSound, MarkClosedSound
<1>4. ASSUME ~IsClosed(h, s) PROVE Sound(ListenClose(h, s)) /\ Sound(Detach(h, s))
  <2>1. h.ctx[s] \in ContextPtr
    BY DEF Sound, Heap
  <2>2. Sound(UnlinkListenSocket(h, h.ctx[s], s)) /\ Sound(Unlinked(h, s))
    BY <1>4, <2>1, UnlinkSocketSound, UnlinkedSound
  <2> QED BY <1>3, <2>2 DEF ListenClose, Detach
<1> QED BY <1>1, <1>2, <1>4

-----------------------------------------------------------------------------
(* New sockets and the low-priority queue.                                 *)

\* A socket is allocated at a free address.
LEMMA NewSocketSound ==
    ASSUME NEW h, Sound(h), NEW c \in Contexts, NEW s \in Sockets,
           h.type[s] = "free", NEW type \in PollTypes,
           NEW dirs \in SUBSET Directions
    PROVE  Sound(NewSocket(h, c, s, type, dirs))
<1> DEFINE l == [h EXCEPT !.low[s] = 0]
           f == [l EXCEPT !.type[s] = type, !.poll[s] = dirs,
                          !.paused[s] = FALSE, !.due[s] = {}]
<1>1. 0 \in 0..2
  OBVIOUS
<1>2. Sound(l) /\ l.type[s] = "free"
  BY <1>1, SetLowSound DEF Sound, Heap
<1>3. NewSocket(h, c, s, type, dirs) =
        IF type = "listen" THEN LinkListenSocket(f, c, s) ELSE LinkSocket(f, c, s)
  BY DEF NewSocket
<1> HIDE DEF l
<1>4. /\ f \in Heap /\ f.ctx = l.ctx /\ f.prev = l.prev /\ f.ready = l.ready
      /\ \A t \in Sockets \ {s} : f.type[t] = l.type[t]
  BY <1>2 DEF Sound, Heap
<1>5. l.ready[s] = {}
  BY <1>2 DEF Sound, Open
<1> HIDE DEF f
<1>6. SoundBut(f, s)
  BY <1>2, <1>4, <1>5 DEF Sound, SoundBut, Open, IsClosed
<1> QED BY <1>3, <1>6, LinkSocketSound

\* A socket moves to the low-priority queue.
LEMMA EnterQueueSound ==
    ASSUME NEW h, Sound(h), NEW s \in Sockets, ~IsClosed(h, s)
    PROVE  Sound(EnterQueue(h, s))
<1> DEFINE c == h.ctx[s]
           a == Ref(PollChange(h, s, h.poll[s] \cap {"W"}), c)
           f == UnlinkSocket(a, c, s)
           q == f.lowHead
           d == SetNext(SetPrev(f, s, Null), s, q)
           g == SetPrev(d, q, s)
           i == [g EXCEPT !.lowHead = s]
<1>1. c \in ContextPtr
  BY DEF Sound, Heap
<1>2. h.poll[s] \cap {"W"} \in SUBSET Directions
  BY DEF Directions
<1>3. Sound(a) /\ ~IsClosed(a, s)
  BY <1>1, <1>2, PollChangeSound, RefSound DEF SameSocketFields, IsClosed
<1>4. Sound(f)
  BY <1>1, <1>3, UnlinkSocketSound
<1>5. q \in SocketPtr /\ Null \in SocketPtr /\ s \in SocketPtr
  BY <1>4 DEF Sound, Heap, SocketPtr
<1>6. [f EXCEPT !.prev[s] = Null, !.next[s] = q] = d
  BY DEF SetPrev, SetNext
<1> HIDE DEF a, f, q
<1>7. Sound(g)
  BY <1>4, <1>5, SetPrevSound, SetNextSound
<1> HIDE DEF d, g
<1>8. Sound(i)
  BY <1>1, <1>5, <1>7, HeadsSound
<1>9. 1 \in 0..2
  OBVIOUS
<1>10. [g EXCEPT !.lowHead = s, !.low[s] = 1] = [i EXCEPT !.low[s] = 1]
  BY DEF i
<1> HIDE DEF i
<1>11. Sound([i EXCEPT !.low[s] = 1])
  BY <1>8, <1>9, SetLowSound
<1>12. EnterQueue(h, s) = [g EXCEPT !.lowHead = s, !.low[s] = 1]
  BY <1>6 DEF EnterQueue, a, f, q, g, c
<1> QED BY <1>10, <1>11, <1>12

\* ... and back to its context.
LEMMA ServeQueueSound ==
    ASSUME NEW h, Sound(h), h.lowHead # Null
    PROVE  Sound(ServeQueue(h))
<1> DEFINE s == h.lowHead
           i == [h EXCEPT !.lowHead = h.next[s]]
           f == SetPrev(i, h.next[s], Null)
           e == SetNext(f, s, Null)
           c == h.ctx[s]
           g == LinkSocket(e, c, s)
           k == PollChange(g, s, g.poll[s] \cup {"R"})
<1>1. s \in Sockets /\ h.next[s] \in SocketPtr /\ c \in ContextPtr
      /\ Null \in SocketPtr
  BY DEF Sound, Heap, SocketPtr
<1>2. Sound(i)
  BY <1>1 DEF Sound, Heap, Open, IsClosed
<1> HIDE DEF i
<1>3. Sound(f)
  BY <1>1, <1>2, SetPrevSound
<1>4. [f EXCEPT !.next[s] = Null] = e
  BY <1>1 DEF SetNext
<1>5. Sound(e)
  BY <1>1, <1>3, SetNextSound
<1> HIDE DEF e
<1>6. Sound(g)
  <2>1. CASE c = Null
    BY <1>5, <2>1 DEF LinkSocket
  <2>2. CASE c \in Contexts
    BY <1>1, <1>5, <2>2, SoundIsSoundBut, LinkSocketSound
  <2> QED BY <1>1, <2>1, <2>2 DEF ContextPtr
<1> HIDE DEF g
<1>7. g.poll[s] \cup {"R"} \in SUBSET Directions
  BY <1>1, <1>6 DEF Sound, Heap, Directions
<1>8. Sound(k)
  BY <1>1, <1>6, <1>7, PollChangeSound
<1> HIDE DEF k
<1>9. 2 \in 0..2
  OBVIOUS
<1>10. Sound([k EXCEPT !.low[s] = 2])
  BY <1>1, <1>8, <1>9, SetLowSound
<1>11. ServeQueue(h) = [k EXCEPT !.low[s] = 2]
  BY <1>4 DEF ServeQueue, k, g, f, i
<1> QED BY <1>10, <1>11

-----------------------------------------------------------------------------
(* Freeing and adopting.                                                   *)

\* The fields of freed sockets are cleared and those of the others are kept.
LEMMA FreeSocketsFields ==
    ASSUME NEW h \in Heap, NEW S
    PROVE  LET g == FreeSockets(h, S)
           IN  /\ g \in Heap
               /\ g.ready = h.ready
               /\ \A t \in Sockets :
                    /\ t \in S => g.type[t] = "free" /\ g.prev[t] = Null
                    /\ t \notin S => /\ g.type[t] = h.type[t]
                                     /\ g.ctx[t] = h.ctx[t]
                                     /\ g.prev[t] = h.prev[t]
<1> DEFINE low == Wipe(h.low, S, 0)
           g == FreeSockets(h, S)
<1>1. low \in [Sockets -> 0..2]
  <2>1. 0 \in 0..2
    OBVIOUS
  <2> QED BY <2>1 DEF Heap, Wipe
<1>2. /\ Wipe(h.type, S, "free") \in [Sockets -> PollTypes]
      /\ Wipe(h.poll, S, {}) \in [Sockets -> SUBSET Directions]
      /\ Wipe(h.ctx, S, Null) \in [Sockets -> ContextPtr]
      /\ Wipe(h.prev, S, Null) \in [Sockets -> SocketPtr \cup Contexts]
      /\ Wipe(h.next, S, Null) \in [Sockets -> SocketPtr]
      /\ Wipe(h.paused, S, FALSE) \in [Sockets -> BOOLEAN]
      /\ Wipe(h.due, S, {}) \in [Sockets -> SUBSET {"short", "long"}]
  BY DEF Heap, Wipe, PollTypes, ContextPtr, SocketPtr
<1>3. g = [h EXCEPT !.type = Wipe(h.type, S, "free"), !.poll = Wipe(h.poll, S, {}),
                    !.ctx = Wipe(h.ctx, S, Null), !.prev = Wipe(h.prev, S, Null),
                    !.next = Wipe(h.next, S, Null), !.low = low,
                    !.paused = Wipe(h.paused, S, FALSE),
                    !.due = Wipe(h.due, S, {})]
  BY DEF FreeSockets
<1>4. g \in Heap
  <2> HIDE DEF low, g
  <2> QED BY <1>1, <1>2, <1>3 DEF Heap
<1>5. /\ g.ready = h.ready /\ g.type = Wipe(h.type, S, "free")
      /\ g.ctx = Wipe(h.ctx, S, Null) /\ g.prev = Wipe(h.prev, S, Null)
  <2> HIDE DEF low, g
  <2> QED BY <1>3 DEF Heap
<1>6. \A t \in Sockets :
        /\ t \in S => g.type[t] = "free" /\ g.prev[t] = Null
        /\ t \notin S => /\ g.type[t] = h.type[t] /\ g.ctx[t] = h.ctx[t]
                         /\ g.prev[t] = h.prev[t]
  <2> HIDE DEF g
  <2> QED BY <1>5 DEF Heap, Wipe
<1> QED BY <1>4, <1>5, <1>6

\* The closed sockets and contexts are given back.
LEMMA FreeClosedSound ==
    ASSUME NEW h, Sound(h), \A s \in Sockets : h.ready[s] = {}
    PROVE  Sound(FreeClosed(h))
<1> DEFINE S == Chain(h, h.closed)
           D == ContextChain(h, h.closedCtx)
           f == FreeSockets(h, S)
           k == [f EXCEPT !.closed = Null]
           ref == Wipe(k.ref, D, 0)
           g == FreeClosed(h)
<1>1. h \in Heap
  BY DEF Sound
<1>2. /\ f \in Heap /\ f.ready = h.ready
      /\ \A t \in Sockets :
           /\ t \in S => f.type[t] = "free" /\ f.prev[t] = Null
           /\ t \notin S => /\ f.type[t] = h.type[t] /\ f.ctx[t] = h.ctx[t]
                            /\ f.prev[t] = h.prev[t]
  BY <1>1, FreeSocketsFields
<1>3. Sound(f)
  BY <1>2 DEF Sound, SocketPtr
<1>4. g = [k EXCEPT !.state = Wipe(k.state, D, "none"), !.closedCtx = Null,
                    !.ref = ref, !.head = Wipe(k.head, D, Null),
                    !.lhead = Wipe(k.lhead, D, Null), !.iter = Wipe(k.iter, D, Null),
                    !.cnext = Wipe(k.cnext, D, Null), !.cprev = Wipe(k.cprev, D, Null)]
  BY DEF FreeClosed
<1> HIDE DEF f, S, D, g
<1>5. /\ k \in Heap /\ k.type = f.type /\ k.ctx = f.ctx /\ k.prev = f.prev
      /\ k.ready = f.ready
  BY <1>2 DEF Heap, SocketPtr
<1> HIDE DEF k
<1>6. ref \in [Contexts -> Int]
  <2>1. 0 \in Int
    OBVIOUS
  <2> QED BY <1>5, <2>1 DEF Heap, Wipe
<1>7. /\ Wipe(k.state, D, "none") \in [Contexts -> {"none", "live", "closed"}]
      /\ Wipe(k.head, D, Null) \in [Contexts -> SocketPtr]
      /\ Wipe(k.lhead, D, Null) \in [Contexts -> SocketPtr]
      /\ Wipe(k.iter, D, Null) \in [Contexts -> SocketPtr]
      /\ Wipe(k.cnext, D, Null) \in [Contexts -> ContextPtr]
      /\ Wipe(k.cprev, D, Null) \in [Contexts -> ContextPtr]
  BY <1>5 DEF Heap, Wipe, SocketPtr, ContextPtr
<1> HIDE DEF ref
<1>8. g \in Heap /\ g.type = k.type /\ g.ctx = k.ctx /\ g.prev = k.prev
      /\ g.ready = k.ready
  BY <1>4, <1>5, <1>6, <1>7 DEF Heap, ContextPtr
<1>9. Sound(g)
  BY <1>3, <1>5, <1>8, SameSockets
<1> QED BY <1>9 DEF g

\* us_poll_resize moves a socket.
LEMMA MoveSound ==
    ASSUME NEW h, Sound(h), NEW s \in Sockets, NEW n \in Sockets
    PROVE  Sound(Move(h, s, n))
<1>1. CASE s = n
  BY <1>1 DEF Move
<1>2. CASE s # n
  <2> DEFINE e == [h EXCEPT !.type[n] = h.type[s], !.poll[n] = h.poll[s],
                            !.ctx[n] = h.ctx[s], !.prev[n] = h.prev[s],
                            !.next[n] = h.next[s], !.paused[n] = h.paused[s],
                            !.ready = [@ EXCEPT ![n] = h.ready[s], ![s] = {}]]
             k == [e EXCEPT !.low[n] = h.low[s]]
             g == FreeSockets(k, {s})
  <2>1. h \in Heap
    BY DEF Sound
  <2>2. /\ e \in Heap
        /\ \A t \in Sockets \ {n} : /\ e.type[t] = h.type[t] /\ e.ctx[t] = h.ctx[t]
                                    /\ e.prev[t] = h.prev[t]
        /\ e.type[n] = h.type[s] /\ e.ctx[n] = h.ctx[s] /\ e.prev[n] = h.prev[s]
        /\ e.ready = [h.ready EXCEPT ![n] = h.ready[s], ![s] = {}]
    <3>1. /\ e.type = [h.type EXCEPT ![n] = h.type[s]]
          /\ e.ctx = [h.ctx EXCEPT ![n] = h.ctx[s]]
          /\ e.prev = [h.prev EXCEPT ![n] = h.prev[s]]
          /\ e.ready = [h.ready EXCEPT ![n] = h.ready[s], ![s] = {}]
      BY <2>1 DEF Heap
    <3>2. /\ h.type \in [Sockets -> PollTypes]
          /\ h.ctx \in [Sockets -> ContextPtr]
          /\ h.prev \in [Sockets -> SocketPtr \cup Contexts]
      BY <2>1 DEF Heap
    <3>3. e \in Heap
      <4> DEFINE type == [h.type EXCEPT ![n] = h.type[s]]
                 poll == [h.poll EXCEPT ![n] = h.poll[s]]
                 ctx == [h.ctx EXCEPT ![n] = h.ctx[s]]
                 prev == [h.prev EXCEPT ![n] = h.prev[s]]
                 next == [h.next EXCEPT ![n] = h.next[s]]
                 paused == [h.paused EXCEPT ![n] = h.paused[s]]
                 ready == [h.ready EXCEPT ![n] = h.ready[s], ![s] = {}]
      <4>1. /\ type \in [Sockets -> PollTypes]
            /\ poll \in [Sockets -> SUBSET Directions]
            /\ ctx \in [Sockets -> ContextPtr]
            /\ prev \in [Sockets -> SocketPtr \cup Contexts]
        BY <2>1 DEF Heap
      <4>2. /\ next \in [Sockets -> SocketPtr]
            /\ paused \in [Sockets -> BOOLEAN]
            /\ ready \in [Sockets -> SUBSET (Directions \cup Conditions)]
        BY <2>1 DEF Heap
      <4>3. e = [h EXCEPT !.type = type, !.poll = poll, !.ctx = ctx,
                          !.prev = prev, !.next = next, !.paused = paused,
                          !.ready = ready]
        BY Zenon
      <4> HIDE DEF e, type, poll, ctx, prev, next, paused, ready
      <4> QED BY <2>1, <4>1, <4>2, <4>3 DEF Heap
    <3> QED BY <3>1, <3>2, <3>3
  <2>3. h.low[s] \in 0..2
    BY <2>1 DEF Heap
  <2>5. Move(h, s, n) = g
    BY <1>2 DEF Move
  <2> HIDE DEF e
  <2>4. /\ k \in Heap /\ k.type = e.type /\ k.ctx = e.ctx /\ k.prev = e.prev
        /\ k.ready = e.ready
    BY <2>2, <2>3 DEF Heap
  <2> HIDE DEF k
  <2>6. /\ g \in Heap /\ g.ready = k.ready
        /\ g.type[s] = "free" /\ g.prev[s] = Null
        /\ \A t \in Sockets \ {s} : /\ g.type[t] = k.type[t] /\ g.ctx[t] = k.ctx[t]
                                    /\ g.prev[t] = k.prev[t]
    BY <2>4, FreeSocketsFields
  <2> HIDE DEF g
  <2>7. \A t \in Sockets : g.ready[t] = IF t = s THEN {} ELSE
                                        IF t = n THEN h.ready[s] ELSE h.ready[t]
    BY <1>2, <2>1, <2>2, <2>4, <2>6 DEF Heap
  <2>8. Sound(g)
    BY <1>2, <2>2, <2>4, <2>6, <2>7 DEF Sound, Open, IsClosed, SocketPtr
  <2> QED BY <2>5, <2>8
<1> QED BY <1>1, <1>2

\* us_socket_context_adopt_socket.
LEMMA AdoptSound ==
    ASSUME NEW h, Sound(h), NEW c \in Contexts, NEW s \in Sockets,
           NEW n \in Sockets, Open(h, s)
    PROVE  Sound(Adopt(h, c, s, n))
<1> DEFINE queued == h.low[s] = 1
           a == Ref(h, c)
           f == IF queued THEN h ELSE UnlinkSocket(a, h.ctx[s], s)
           v == Move(f, s, n)
           m == [v EXCEPT !.due[s] = {}, !.due[n] = {}]
           i == [m EXCEPT !.lowHead = n]
           p == IF m.prev[n] \in Sockets THEN SetNext(m, m.prev[n], n) ELSE i
           q == SetPrev(p, m.next[n], n)
<1>1. h.ctx[s] \in ContextPtr /\ c \in ContextPtr /\ n \in SocketPtr
  BY DEF Sound, Open, ContextPtr, SocketPtr
<1>2. Sound(a) /\ ~IsClosed(a, s)
  BY <1>1, RefSound DEF SameSocketFields, Open, IsClosed
<1>3. Sound(f)
  BY <1>1, <1>2, UnlinkSocketSound
<1> HIDE DEF f
<1>4. Sound(v)
  BY <1>3, MoveSound
<1> HIDE DEF v
<1>5. /\ m \in Heap /\ m.type = v.type /\ m.ctx = v.ctx /\ m.prev = v.prev
      /\ m.ready = v.ready
  BY <1>4 DEF Sound, Heap
<1>6. Sound(m)
  BY <1>4, <1>5, SameSockets
<1> HIDE DEF m
<1>7. Sound(i)
  BY <1>1, <1>6, HeadsSound
<1> HIDE DEF i
<1>8. Sound(q)
  BY <1>1, <1>6, <1>7, SetNextSound, SetPrevSound
<1>9. Sound(Unref(LinkSocket(m, c, n), c))
  BY <1>1, <1>6, SoundIsSoundBut, LinkSocketSound, RefSound
<1>10. Adopt(h, c, s, n) = IF queued THEN q ELSE Unref(LinkSocket(m, c, n), c)
  BY DEF Adopt, q, p, i, m, v, f, a
<1> QED BY <1>8, <1>9, <1>10

-----------------------------------------------------------------------------
(* Numbers and ranks.                                                      *)

\* A set of numbers that is not empty has a least one.
LEMMA LeastNumber ==
    ASSUME NEW T, T \subseteq Nat, T # {}
    PROVE  \E x \in T : \A y \in T : x <= y
<1> DEFINE R == {ss \in Nat \X Nat : ss[1] < ss[2]}
<1>1. IsWellFoundedOn(R, Nat)
  BY NatLessThanWellFounded DEF OpToRel
<1>2. PICK x \in T : \A y \in T : <<y, x>> \notin R
  <2> HIDE DEF R
  <2> QED BY <1>1, WFMin
<1>3. \A y \in T : ~(y < x)
  BY <1>2
<1> QED BY <1>2, <1>3

\* Induction, over a set of numbers instead of a predicate.
LEMMA SetInduction ==
    ASSUME NEW T, 0 \in T, \A n \in Nat : n \in T => n + 1 \in T
    PROVE  Nat \subseteq T
<1> SUFFICES ASSUME Nat \ T # {} PROVE FALSE
  OBVIOUS
<1>1. PICK x \in Nat \ T : \A y \in Nat \ T : x <= y
  BY LeastNumber, Nat \ T \subseteq Nat
<1>2. x # 0 /\ x - 1 \in Nat /\ x - 1 \in T
  BY <1>1
<1> QED BY <1>1, <1>2

\* A finite set of addresses with ranks leaves a rank below all of them.
LEMMA RankBelow ==
    ASSUME NEW U, IsFiniteSet(U), NEW r \in [U -> Int]
    PROVE  \E m \in Int : \A x \in U : m < r[x]
<1> DEFINE T == {n \in Nat : \A S \in SUBSET U : Cardinality(S) = n =>
                                \E m \in Int : \A x \in S : m < r[x]}
<1>1. 0 \in T
  <2> SUFFICES ASSUME NEW S \in SUBSET U, Cardinality(S) = 0
               PROVE  \E m \in Int : \A x \in S : m < r[x]
    OBVIOUS
  <2>1. S = {}
    BY FS_Subset, FS_EmptySet
  <2> QED BY <2>1, 0 \in Int
<1>2. ASSUME NEW n \in Nat, n \in T PROVE n + 1 \in T
  <2> SUFFICES ASSUME NEW S \in SUBSET U, Cardinality(S) = n + 1
               PROVE  \E m \in Int : \A x \in S : m < r[x]
    OBVIOUS
  <2>1. IsFiniteSet(S)
    BY FS_Subset
  <2>2. PICK y : y \in S
    BY <2>1, FS_EmptySet
  <2>3. S \ {y} \in SUBSET U /\ Cardinality(S \ {y}) = n
    <3>1. Cardinality(S \ {y}) = Cardinality(S) - 1
      BY <2>1, <2>2, FS_RemoveElement
    <3> QED BY <3>1
  <2>4. PICK m \in Int : \A x \in S \ {y} : m < r[x]
    BY <1>2, <2>3
  <2>5. r[y] \in Int
    BY <2>2
  <2>6. PICK k : k = IF m < r[y] THEN m ELSE r[y] - 1
    OBVIOUS
  <2>7. k \in Int /\ k <= m /\ k < r[y]
    BY <2>5, <2>6
  <2>8. \A x \in S : k < r[x]
    BY <2>4, <2>7
  <2> QED BY <2>7, <2>8
<1> HIDE DEF T
<1>3. Nat \subseteq T
  BY <1>1, <1>2, SetInduction
<1>4. Cardinality(U) \in Nat
  BY FS_CardinalityType
<1> QED BY <1>3, <1>4 DEF T

-----------------------------------------------------------------------------
(* Lists.  A list is a set of addresses, its links, its first address and  *)
(* a rank that grows along the links.                                      *)

\* What Chain and ContextChain compute.
Walk(nx, U, p) ==
    LET at[i \in 0..Cardinality(U)] ==
          IF i = 0 THEN p
          ELSE IF at[i - 1] \in U THEN nx[at[i - 1]] ELSE Null
    IN  {at[i] : i \in 0..Cardinality(U)} \cap U

\* g lists the first addresses of the walk.
Walks(g, nx, U, p, n) ==
    /\ g = [i \in 0..n |-> g[i]]
    /\ g[0] = p
    /\ \A i \in 1..n : g[i] = IF g[i - 1] \in U THEN nx[g[i - 1]] ELSE Null

\* Chain and ContextChain are walks along `next`.
LEMMA ChainsAreWalks ==
    ASSUME NEW h, NEW p
    PROVE  Chain(h, p) = Walk(h.next, Sockets, p) /\ ContextChain(h, p) = Walk(h.cnext, Contexts, p)
BY DEF Chain, ContextChain, Walk

\* There is a walk of every length.
LEMMA WalksExist ==
    ASSUME NEW nx, NEW U, NEW p, NEW n \in Nat
    PROVE  \E g : Walks(g, nx, U, p, n)
<1> DEFINE T == {k \in Nat : \E g : Walks(g, nx, U, p, k)}
<1>1. 0 \in T
  <2> DEFINE g == [i \in 0..0 |-> p]
  <2>1. Walks(g, nx, U, p, 0)
    BY DEF Walks
  <2> QED BY <2>1
<1>2. ASSUME NEW k \in Nat, k \in T PROVE k + 1 \in T
  <2>1. PICK g : Walks(g, nx, U, p, k)
    BY <1>2
  <2>2. PICK v : v = IF g[k] \in U THEN nx[g[k]] ELSE Null
    OBVIOUS
  <2> DEFINE e == [i \in 0..k + 1 |-> IF i = k + 1 THEN v ELSE g[i]]
  <2>3. e[0] = p /\ e = [i \in 0..k + 1 |-> e[i]]
    BY <2>1 DEF Walks
  <2>4. ASSUME NEW i \in 1..k + 1 PROVE e[i] = IF e[i - 1] \in U THEN nx[e[i - 1]] ELSE Null
    <3>1. e[i - 1] = g[i - 1]
      OBVIOUS
    <3>2. CASE i = k + 1
      BY <3>1, <3>2, <2>2
    <3>3. CASE i # k + 1
      <4>1. i \in 1..k /\ e[i] = g[i]
        BY <3>3
      <4> QED BY <4>1, <3>1, <2>1 DEF Walks
    <3> QED BY <3>2, <3>3
  <2> HIDE DEF e
  <2>5. Walks(e, nx, U, p, k + 1)
    BY <2>3, <2>4 DEF Walks
  <2> QED BY <2>5
<1> HIDE DEF T
<1>3. Nat \subseteq T
  BY <1>1, <1>2, SetInduction
<1> QED BY <1>3 DEF T

\* ... and only one.
LEMMA WalksAlike ==
    ASSUME NEW nx, NEW U, NEW p, NEW n \in Nat, NEW f, NEW g,
           Walks(f, nx, U, p, n), Walks(g, nx, U, p, n)
    PROVE  \A i \in 0..n : f[i] = g[i]
<1> DEFINE T == {k \in Nat : k <= n => f[k] = g[k]}
<1>1. 0 \in T
  BY DEF Walks
<1>2. ASSUME NEW k \in Nat, k \in T PROVE k + 1 \in T
  <2> SUFFICES ASSUME k + 1 <= n PROVE f[k + 1] = g[k + 1]
    OBVIOUS
  <2>1. f[k] = g[k] /\ k + 1 \in 1..n /\ (k + 1) - 1 = k
    BY <1>2
  <2> QED BY ZenonT(60), <2>1 DEF Walks
<1> HIDE DEF T
<1>3. Nat \subseteq T
  BY <1>1, <1>2, SetInduction
<1> QED BY <1>3 DEF T

\* Any walk that is long enough gives the addresses it reaches.
LEMMA WalkIs ==
    ASSUME NEW nx, NEW U, IsFiniteSet(U), NEW p, NEW f, Walks(f, nx, U, p, Cardinality(U))
    PROVE  Walk(nx, U, p) = {f[i] : i \in 0..Cardinality(U)} \cap U
<1> DEFINE n == Cardinality(U)
           Body(g) == [i \in 0..n |-> IF i = 0 THEN p
                                      ELSE IF g[i - 1] \in U THEN nx[g[i - 1]] ELSE Null]
<1>1. n \in Nat
  BY FS_CardinalityType
<1> HIDE DEF n
<1>2. f = Body(f)
  <2>1. f = [i \in 0..n |-> f[i]]
    BY DEF Walks, n
  <2>2. ASSUME NEW i \in 0..n
        PROVE  f[i] = IF i = 0 THEN p ELSE IF f[i - 1] \in U THEN nx[f[i - 1]] ELSE Null
    <3>1. CASE i = 0
      BY <3>1 DEF Walks
    <3>2. CASE i # 0
      <4>1. i \in 1..n
        BY <3>2
      <4> QED BY <3>2, <4>1 DEF Walks, n
    <3> QED BY <3>1, <3>2
  <2> QED BY <2>1, <2>2
<1>3. PICK g : g = (CHOOSE e : e = Body(e))
  OBVIOUS
<1>4. g = Body(g)
  BY <1>2, <1>3
<1>5. Walks(g, nx, U, p, n)
  <2>1. g = [i \in 0..n |-> g[i]]
    BY <1>4
  <2>2. g[0] = p
    BY <1>1, <1>4
  <2>3. ASSUME NEW i \in 1..n
        PROVE  g[i] = IF g[i - 1] \in U THEN nx[g[i - 1]] ELSE Null
    <3>1. i \in 0..n /\ i # 0
      BY <1>1
    <3> QED BY <1>4, <3>1
  <2> QED BY <2>1, <2>2, <2>3 DEF Walks
<1>6. Walk(nx, U, p) = {g[i] : i \in 0..n} \cap U
  BY <1>3 DEF Walk, n
<1>7. \A i \in 0..n : f[i] = g[i]
  BY <1>1, <1>5, WalksAlike DEF n
<1> QED BY <1>6, <1>7 DEF n

\* A walk that starts on a list stays on it, and goes up.
LEMMA WalkInside ==
    ASSUME NEW U, Null \notin U, NEW S \in SUBSET U, NEW nx, NEW p, NEW r \in [U -> Int],
           Ordered(nx, S, p, r), NEW q \in S, NEW n \in Nat, NEW f, Walks(f, nx, U, q, n)
    PROVE  \A i \in 0..n : f[i] = Null \/ (f[i] \in S /\ r[q] <= r[f[i]])
<1> DEFINE T == {i \in Nat : i <= n => f[i] = Null \/ (f[i] \in S /\ r[q] <= r[f[i]])}
<1>1. 0 \in T
  <2>1. r[q] \in Int
    OBVIOUS
  <2> QED BY <2>1 DEF Walks
<1>2. ASSUME NEW i \in Nat, i \in T PROVE i + 1 \in T
  <2> SUFFICES ASSUME i + 1 <= n
               PROVE  f[i + 1] = Null \/ (f[i + 1] \in S /\ r[q] <= r[f[i + 1]])
    OBVIOUS
  <2>1. i + 1 \in 1..n /\ (i + 1) - 1 = i
    OBVIOUS
  <2>2. f[i + 1] = IF f[i] \in U THEN nx[f[i]] ELSE Null
    BY <2>1 DEF Walks
  <2>3. f[i] = Null \/ (f[i] \in S /\ r[q] <= r[f[i]])
    BY <1>2
  <2>4. PICK x, y : x = f[i] /\ y = nx[x]
    OBVIOUS
  <2>5. CASE x \in S /\ r[q] <= r[x]
    <3>1. x \in U /\ (y # Null => y \in S /\ r[x] < r[y])
      BY <2>4, <2>5 DEF Ordered
    <3>2. y # Null => r[y] \in Int /\ r[x] \in Int /\ r[q] \in Int
      BY <3>1
    <3>3. y # Null => r[q] <= r[y]
      BY <2>5, <3>1, <3>2
    <3> QED BY <2>2, <2>4, <3>1, <3>3
  <2>6. CASE x = Null
    BY <2>2, <2>4, <2>6
  <2> QED BY <2>3, <2>4, <2>5, <2>6
<1> HIDE DEF T
<1>3. Nat \subseteq T
  BY <1>1, <1>2, SetInduction
<1> QED BY <1>3 DEF T

\* The addresses of S from x on and before y.
Between(S, r, x, y) == {z \in S : r[x] <= r[z] /\ r[z] < r[y]}

\* As many steps from f[i] as there are addresses in between lead to y.
Reaches(f, S, r, y, n) ==
    \A k \in Nat : \A i \in 0..n :
             f[i] \in S /\ r[f[i]] <= r[y] /\ Cardinality(Between(S, r, f[i], y)) = k
               /\ i + k <= n => f[i + k] = y

\* A walk as long as there are addresses reaches all of the list above it.
LEMMA WalkReaches ==
    ASSUME NEW U, IsFiniteSet(U), Null \notin U, NEW S \in SUBSET U, NEW nx, NEW p,
           NEW r \in [U -> Int], Ordered(nx, S, p, r), NEW q \in S, NEW n \in Nat,
           NEW f, Walks(f, nx, U, q, n), NEW y \in S
    PROVE  Reaches(f, S, r, y, n)
<1> DEFINE T == {k \in Nat : \A i \in 0..n :
             f[i] \in S /\ r[f[i]] <= r[y] /\ Cardinality(Between(S, r, f[i], y)) = k
               /\ i + k <= n => f[i + k] = y}
<1>0. IsFiniteSet(S)
  BY FS_Subset
<1>1. 0 \in T
  <2> SUFFICES ASSUME NEW i \in 0..n, f[i] \in S, r[f[i]] <= r[y],
                      Cardinality(Between(S, r, f[i], y)) = 0
               PROVE  f[i] = y
    OBVIOUS
  <2>1. PICK x : x = f[i]
    OBVIOUS
  <2>2. IsFiniteSet(Between(S, r, x, y))
    BY <1>0, FS_Subset DEF Between
  <2>3. Between(S, r, x, y) = {}
    BY <2>1, <2>2, FS_EmptySet
  <2>4. r[x] \in Int /\ r[y] \in Int /\ x \in S /\ r[x] <= r[y]
    BY <2>1
  <2>5. ~(r[x] < r[y])
    BY <2>3, <2>4 DEF Between
  <2>6. r[x] = r[y]
    BY <2>4, <2>5
  <2> QED BY <2>1, <2>4, <2>6 DEF Ordered
<1>2. ASSUME NEW k \in Nat, k \in T PROVE k + 1 \in T
  <2> SUFFICES ASSUME NEW i \in 0..n, f[i] \in S, r[f[i]] <= r[y],
                      Cardinality(Between(S, r, f[i], y)) = k + 1, i + (k + 1) <= n
               PROVE  f[i + (k + 1)] = y
    OBVIOUS
  <2>1. PICK x, z : x = f[i] /\ z = nx[x]
    OBVIOUS
  <2>2. x \in S /\ x \in U /\ r[x] \in Int /\ r[y] \in Int /\ r[x] <= r[y]
    BY <2>1
  <2>3. Between(S, r, x, y) # {}
    <3>1. Cardinality(Between(S, r, x, y)) = k + 1
      BY <2>1
    <3> QED BY <3>1, FS_EmptySet
  <2>4. PICK w \in S : r[x] <= r[w] /\ r[w] < r[y]
    BY <2>3 DEF Between
  <2>5. r[x] < r[y]
    <3>1. r[w] \in Int
      BY <2>4
    <3> QED BY <2>2, <2>4, <3>1
  <2>6. z # Null /\ r[z] <= r[y] /\ z \in S /\ r[x] < r[z] /\ r[z] \in Int
    BY <2>1, <2>2, <2>5 DEF Ordered
  <2>7. i + 1 \in 1..n /\ (i + 1) - 1 = i /\ i + 1 \in 0..n
    OBVIOUS
  <2>8. f[i + 1] = z
    BY <2>1, <2>2, <2>7 DEF Walks
  <2>9. Between(S, r, z, y) = Between(S, r, x, y) \ {x}
    <3>1. ASSUME NEW v \in S PROVE (r[z] <= r[v] <=> r[x] <= r[v] /\ v # x)
      <4>1. r[v] \in Int
        OBVIOUS
      <4>2. r[x] < r[v] => r[z] <= r[v]
        BY <2>1, <2>2 DEF Ordered
      <4>3. r[x] = r[v] => x = v
        BY <2>2 DEF Ordered
      <4> QED BY <2>2, <2>6, <4>1, <4>2, <4>3
    <3> QED BY <3>1 DEF Between
  <2>10. x \in Between(S, r, x, y)
    BY <2>2, <2>5 DEF Between
  <2>11. IsFiniteSet(Between(S, r, x, y))
    BY <1>0, FS_Subset DEF Between
  <2>12. Cardinality(Between(S, r, x, y)) = k + 1
    BY <2>1
  <2>13. Cardinality(Between(S, r, z, y)) = k
    <3>1. Cardinality(Between(S, r, x, y) \ {x}) = Cardinality(Between(S, r, x, y)) - 1
      BY <2>10, <2>11, FS_RemoveElement
    <3> QED BY <2>9, <2>12, <3>1
  <2>14. f[(i + 1) + k] = y
    BY <1>2, <2>6, <2>7, <2>8, <2>13
  <2>15. (i + 1) + k = i + (k + 1)
    OBVIOUS
  <2> QED BY <2>14, <2>15
<1> HIDE DEF T
<1>3. Nat \subseteq T
  BY <1>1, <1>2, SetInduction
<1> QED BY <1>3 DEF T, Reaches

\* The walk along a list visits what is left of it.
LEMMA OrderedWalk ==
    ASSUME NEW U, IsFiniteSet(U), Null \notin U, NEW S \in SUBSET U, NEW nx, NEW p,
           NEW r \in [U -> Int], Ordered(nx, S, p, r), NEW q \in S
    PROVE  Walk(nx, U, q) = {x \in S : r[q] <= r[x]}
<1>1. PICK n : n = Cardinality(U)
  OBVIOUS
<1>2. n \in Nat
  BY <1>1, FS_CardinalityType
<1>3. PICK f : Walks(f, nx, U, q, n)
  BY <1>2, WalksExist
<1>4. Walk(nx, U, q) = {f[i] : i \in 0..n} \cap U
  <2>1. Walks(f, nx, U, q, Cardinality(U))
    BY <1>1, <1>3
  <2>2. Walk(nx, U, q) = {f[i] : i \in 0..Cardinality(U)} \cap U
    BY <2>1, WalkIs
  <2> QED BY <1>1, <2>2
<1>5. ASSUME NEW i \in 0..n, f[i] \in U PROVE f[i] \in S /\ r[q] <= r[f[i]]
  BY <1>2, <1>3, <1>5, WalkInside
<1>6. ASSUME NEW y \in S, r[q] <= r[y] PROVE \E i \in 0..n : f[i] = y
  <2>1. PICK B : B = Between(S, r, q, y)
    OBVIOUS
  <2>2. B \subseteq U /\ y \in U /\ y \notin B
    <3>1. r[y] \in Int
      OBVIOUS
    <3> QED BY <2>1, <3>1 DEF Between
  <2>3. IsFiniteSet(B) /\ Cardinality(B) \in Nat
    BY <2>2, FS_Subset, FS_CardinalityType
  <2>4. Cardinality(B) <= n
    BY <1>1, <2>2, FS_Subset
  <2>5. f[0] = q /\ 0 \in 0..n
    BY <1>2, <1>3 DEF Walks
  <2>6. PICK k : k = Cardinality(B)
    OBVIOUS
  <2>7. f[0 + k] = y
    <3>1. k \in Nat /\ 0 + k <= n
      BY <2>3, <2>4, <2>6
    <3>2. Reaches(f, S, r, y, n)
      BY <1>2, <1>3, WalkReaches
    <3>3. f[0] \in S /\ r[f[0]] <= r[y] /\ Cardinality(Between(S, r, f[0], y)) = k
      BY <1>6, <2>1, <2>5, <2>6
    <3> QED BY <2>5, <3>1, <3>2, <3>3 DEF Reaches
  <2>8. 0 + k \in 0..n
    BY <2>3, <2>4, <2>6
  <2> QED BY <2>7, <2>8
<1> QED BY <1>4, <1>5, <1>6

\* A walk from Null reaches nothing.
LEMMA NullWalk ==
    ASSUME NEW U, IsFiniteSet(U), Null \notin U, NEW nx
    PROVE  Walk(nx, U, Null) = {}
<1>1. PICK n : n = Cardinality(U)
  OBVIOUS
<1>2. n \in Nat
  BY <1>1, FS_CardinalityType
<1>3. PICK f : Walks(f, nx, U, Null, n)
  BY <1>2, WalksExist
<1>4. Walk(nx, U, Null) = {f[i] : i \in 0..n} \cap U
  <2>1. Walks(f, nx, U, Null, Cardinality(U))
    BY <1>1, <1>3
  <2>2. Walk(nx, U, Null) = {f[i] : i \in 0..Cardinality(U)} \cap U
    BY SMTT(60), <2>1, WalkIs
  <2> QED BY <1>1, <2>2
<1> DEFINE T == {i \in Nat : i <= n => f[i] = Null}
<1>5. 0 \in T
  BY <1>3 DEF Walks
<1>6. ASSUME NEW i \in Nat, i \in T PROVE i + 1 \in T
  <2> SUFFICES ASSUME i + 1 <= n PROVE f[i + 1] = Null
    OBVIOUS
  <2>1. i + 1 \in 1..n /\ (i + 1) - 1 = i /\ f[i] = Null
    BY <1>2, <1>6
  <2> QED BY <1>3, <2>1 DEF Walks
<1> HIDE DEF T
<1>7. Nat \subseteq T
  BY <1>5, <1>6, SetInduction
<1>8. \A i \in 0..n : f[i] = Null
  BY <1>7 DEF T
<1> QED BY <1>4, <1>8

-----------------------------------------------------------------------------
(* Edits of a list.                                                        *)

\* A list does not see what changes outside it.
LEMMA OrderedFrame ==
    ASSUME NEW S, NEW nx, NEW p, NEW r, NEW mx, NEW q, Ordered(nx, S, p, r),
           \A x \in S : mx[x] = nx[x] /\ q[x] = r[x]
    PROVE  Ordered(mx, S, p, q)
<1>1. p \in S \cup {Null} /\ (S # {} => p \in S)
  BY DEF Ordered
<1>2. ASSUME NEW x \in S
      PROVE  /\ mx[x] # Null => mx[x] \in S /\ q[x] < q[mx[x]]
             /\ q[p] <= q[x]
             /\ \A y \in S : /\ q[x] < q[y] => mx[x] # Null /\ q[mx[x]] <= q[y]
                             /\ q[x] = q[y] => x = y
  <2>1. p \in S /\ q[p] = r[p] /\ q[x] = r[x] /\ mx[x] = nx[x]
    BY <1>1
  <2>2. nx[x] # Null => nx[x] \in S /\ r[x] < r[nx[x]] /\ q[nx[x]] = r[nx[x]]
    BY DEF Ordered
  <2>3. r[p] <= r[x]
    BY DEF Ordered
  <2>4. ASSUME NEW y \in S
        PROVE  /\ q[x] < q[y] => mx[x] # Null /\ q[mx[x]] <= q[y]
               /\ q[x] = q[y] => x = y
    <3>1. /\ r[x] < r[y] => nx[x] # Null /\ r[nx[x]] <= r[y]
          /\ r[x] = r[y] => x = y
      BY DEF Ordered
    <3>2. q[y] = r[y]
      OBVIOUS
    <3> QED BY <2>1, <2>2, <3>1, <3>2
  <2> QED BY <2>1, <2>2, <2>3, <2>4
<1> QED BY <1>1, <1>2 DEF Ordered

\* A list is its links, its back links and its ranks.
LEMMA ThreadedFrame ==
    ASSUME NEW S, NEW nx, NEW pv, NEW p, NEW r, NEW mx, NEW qv, NEW q,
           Threaded(nx, pv, S, p, r),
           \A x \in S : mx[x] = nx[x] /\ qv[x] = pv[x] /\ q[x] = r[x]
    PROVE  Threaded(mx, qv, S, p, q)
<1>1. Ordered(mx, S, p, q)
  BY OrderedFrame DEF Threaded
<1>2. Backed(mx, qv, S, p)
  BY DEF Threaded, Backed, Ordered
<1> QED BY <1>1, <1>2 DEF Threaded

\* Links that lead past s.
Bypassed(mx, qv, nx, pv, S, s) ==
    \A x \in S \ {s} : /\ mx[x] = IF x = pv[s] THEN nx[s] ELSE nx[x]
                       /\ qv[x] = IF x = nx[s] THEN pv[s] ELSE pv[x]

\* Cutting s out of a list.
LEMMA ThreadedCut ==
    ASSUME NEW U, Null \notin U, NEW S \in SUBSET U, NEW nx, NEW pv, NEW p,
           NEW r \in [U -> Int], Threaded(nx, pv, S, p, r), NEW s \in S, NEW mx, NEW qv,
           Bypassed(mx, qv, nx, pv, S, s),
           NEW hd, hd = IF pv[s] = Null THEN nx[s] ELSE p
    PROVE  Threaded(mx, qv, S \ {s}, hd, r)
<1> DEFINE T == S \ {s}
           n == nx[s]
           b == pv[s]
<1>h. hd = IF b = Null THEN n ELSE p
  OBVIOUS
<1>0. \A x \in S : r[x] \in Int /\ x # Null
  OBVIOUS
<1>1. n # Null => n \in T /\ r[s] < r[n] /\ pv[n] = s
  BY <1>0 DEF Threaded, Ordered, Backed
<1>2. b # Null => b \in T /\ nx[b] = s /\ r[b] < r[s]
  BY <1>0 DEF Threaded, Ordered, Backed
<1>3. (b = Null => s = p) /\ p \in S /\ pv[p] = Null
  BY <1>0 DEF Threaded, Ordered, Backed
<1>4. \A x \in T : (x # b => mx[x] = nx[x]) /\ (x = b => mx[x] = n)
  BY DEF Bypassed
<1>5. \A x \in T : (x # n => qv[x] = pv[x]) /\ (x = n => qv[x] = b)
  BY DEF Bypassed
<1>6. /\ \A x \in S : nx[x] # Null => nx[x] \in S /\ r[x] < r[nx[x]] /\ pv[nx[x]] = x
      /\ \A x \in S : pv[x] = Null => x = p
      /\ \A x \in S : pv[x] # Null => pv[x] \in S /\ nx[pv[x]] = x
      /\ \A x \in S : r[p] <= r[x]
      /\ \A x, y \in S : /\ r[x] < r[y] => nx[x] # Null /\ r[nx[x]] <= r[y]
                         /\ r[x] = r[y] => x = y
  BY DEF Threaded, Ordered, Backed
<1> HIDE DEF n, b
<1>7. hd \in T \cup {Null} /\ (T # {} => hd \in T)
  <2>1. CASE b = Null
    <3>1. ASSUME NEW x \in T PROVE n # Null
      <4>1. r[s] < r[x]
        BY <1>0, <1>3, <1>6, <2>1
      <4> QED BY <1>6, <4>1 DEF n
    <3> QED BY <1>h, <1>1, <2>1, <3>1
  <2>2. CASE b # Null
    <3>1. p # s
      BY <1>3, <2>2 DEF b
    <3> QED BY <1>h, <1>3, <2>2, <3>1
  <2> QED BY <2>1, <2>2
<1>8. ASSUME NEW x \in T
      PROVE  /\ mx[x] # Null => mx[x] \in T /\ r[x] < r[mx[x]]
             /\ r[hd] <= r[x]
             /\ \A y \in T : /\ r[x] < r[y] => mx[x] # Null /\ r[mx[x]] <= r[y]
                             /\ r[x] = r[y] => x = y
  <2>1. CASE x = b
    <3>1. mx[x] = n /\ b # Null /\ r[x] < r[s] /\ nx[x] = s /\ hd = p
      BY <1>h, <1>0, <1>2, <1>4, <2>1
    <3>2. n # Null => n \in T /\ r[x] < r[n]
      BY <1>0, <1>1, <3>1
    <3>3. ASSUME NEW y \in T, r[x] < r[y] PROVE n # Null /\ r[n] <= r[y]
      <4>1. r[s] <= r[y]
        BY <1>6, <3>1, <3>3
      <4>2. r[s] < r[y]
        BY <1>0, <1>6, <4>1
      <4> QED BY <1>6, <4>2 DEF n
    <3> QED BY <1>6, <3>1, <3>2, <3>3
  <2>2. CASE x # b
    <3>1. mx[x] = nx[x]
      BY <1>4, <2>2
    <3>2. nx[x] # s
      BY <1>6, <2>2 DEF b
    <3>3. r[hd] <= r[x]
      <4>1. CASE b = Null
        <5>1. r[s] < r[x]
          BY <1>0, <1>3, <1>6, <4>1
        <5>2. n # Null /\ r[n] <= r[x]
          BY <1>6, <5>1 DEF n
        <5> QED BY <1>h, <4>1, <5>2
      <4>2. CASE b # Null
        BY <1>h, <1>6, <4>2
      <4> QED BY <4>1, <4>2
    <3> QED BY <1>6, <3>1, <3>2, <3>3
  <2> QED BY <2>1, <2>2
<1>9. Ordered(mx, T, hd, r)
  <2> HIDE DEF T
  <2> QED BY <1>7, <1>8 DEF Ordered
<1>10. hd # Null => qv[hd] = Null
  <2>1. CASE b = Null
    BY <1>h, <1>1, <1>5, <2>1
  <2>2. CASE b # Null
    <3>1. p \in T /\ p # n /\ hd = p
      <4>1. p # s
        BY <1>3, <2>2 DEF b
      <4>2. n # Null => pv[n] # Null
        BY <1>0, <1>1
      <4>3. p # n
        BY <1>0, <1>3, <4>2
      <4> QED BY <1>h, <1>3, <2>2, <4>1, <4>3
    <3> QED BY <1>3, <1>5, <3>1
  <2> QED BY <2>1, <2>2
<1>11. ASSUME NEW x \in T
       PROVE  /\ qv[x] = Null => x = hd
              /\ qv[x] # Null => qv[x] \in T /\ mx[qv[x]] = x
              /\ mx[x] # Null => qv[mx[x]] = x
  <2>1. CASE x = n
    <3>1. qv[x] = b /\ n # Null
      BY <1>0, <1>5, <2>1
    <3>2. b = Null => hd = x
      BY <1>h, <2>1
    <3>3. b # Null => b \in T /\ mx[b] = x
      BY <1>2, <1>4, <2>1
    <3>4. x # b
      BY <1>0, <1>1, <1>2, <2>1
    <3>5. mx[x] = nx[x] /\ nx[x] # s /\ nx[x] # n
      <4>1. nx[x] = n => nx[x] # Null /\ r[x] < r[x]
        BY <1>6, <2>1, <3>1
      <4>2. nx[x] # s
        BY <1>6, <3>4 DEF b
      <4> QED BY <1>0, <1>4, <3>4, <4>1, <4>2
    <3>6. mx[x] # Null => qv[mx[x]] = x
      <4>1. mx[x] # Null => mx[x] \in T /\ pv[mx[x]] = x
        BY <1>6, <3>5
      <4> QED BY <1>5, <3>5, <4>1
    <3> QED BY <3>1, <3>2, <3>3, <3>6
  <2>2. CASE x # n
    <3>1. qv[x] = pv[x]
      BY <1>5, <2>2
    <3>2. pv[x] # s
      BY <1>0, <1>6, <2>2 DEF n
    <3>3. qv[x] = Null => x = hd
      <4>1. qv[x] = Null => x = p
        BY <1>6, <3>1
      <4>2. x = p => b # Null
        BY <1>3
      <4> QED BY <1>h, <4>1, <4>2
    <3>4. qv[x] # Null => qv[x] \in T /\ mx[qv[x]] = x
      <4>1. qv[x] # Null => qv[x] \in T /\ nx[qv[x]] = x
        BY <1>6, <3>1, <3>2
      <4>2. qv[x] # Null => qv[x] # b
        BY <1>2, <4>1
      <4> QED BY <1>4, <4>1, <4>2
    <3>5. mx[x] # Null => qv[mx[x]] = x
      <4>1. CASE x = b
        <5>1. mx[x] = n
          BY <1>4, <4>1
        <5> QED BY <1>1, <1>5, <4>1, <5>1
      <4>2. CASE x # b
        <5>1. mx[x] = nx[x] /\ nx[x] # s
          BY <1>4, <1>6, <4>2 DEF b
        <5>2. nx[x] # Null => nx[x] \in T /\ pv[nx[x]] = x
          BY <1>6, <5>1
        <5>3. nx[x] # Null => nx[x] # n
          BY <1>1, <5>2
        <5> QED BY <1>5, <5>1, <5>2, <5>3
      <4> QED BY <4>1, <4>2
    <3> QED BY <3>3, <3>4, <3>5
  <2> QED BY <2>1, <2>2
<1>12. Backed(mx, qv, T, hd)
  <2> HIDE DEF T
  <2> QED BY <1>10, <1>11 DEF Backed
<1> QED BY <1>9, <1>12 DEF Threaded, n, b

\* Pushing s on a list: below every rank, so that the rank of s comes first.
LEMMA OrderedPush ==
    ASSUME NEW U, Null \notin U, NEW S \in SUBSET U, NEW nx, NEW p,
           NEW r \in [U -> Int], Ordered(nx, S, p, r), NEW s \in U, s \notin S, NEW mx,
           NEW m \in Int, \A x \in U : m < r[x],
           mx[s] = p, \A x \in S : mx[x] = nx[x]
    PROVE  Ordered(mx, S \cup {s}, s, [r EXCEPT ![s] = m])
<1> DEFINE T == S \cup {s}
           q == [r EXCEPT ![s] = m]
<1>1. q[s] = m /\ (\A x \in S : q[x] = r[x] /\ q[x] \in Int /\ m < q[x] /\ x # Null /\ x # s)
  OBVIOUS
<1>2. p \in S \cup {Null} /\ (S # {} => p \in S)
  BY DEF Ordered
<1>3. /\ \A x \in S : mx[x] # Null => mx[x] \in S /\ q[x] < q[mx[x]]
      /\ \A x \in S : q[p] <= q[x]
      /\ \A x, y \in S : /\ q[x] < q[y] => mx[x] # Null /\ q[mx[x]] <= q[y]
                         /\ q[x] = q[y] => x = y
  <2>1. Ordered(mx, S, p, q)
    BY <1>1, OrderedFrame
  <2> HIDE DEF q
  <2> QED BY <2>1 DEF Ordered
<1> HIDE DEF q
<1>4. s # Null
  OBVIOUS
<1>5. ASSUME NEW x \in T
      PROVE  /\ mx[x] # Null => mx[x] \in T /\ q[x] < q[mx[x]]
             /\ q[s] <= q[x]
             /\ \A y \in T : /\ q[x] < q[y] => mx[x] # Null /\ q[mx[x]] <= q[y]
                             /\ q[x] = q[y] => x = y
  <2>1. CASE x = s
    <3>1. mx[x] = p
      BY <2>1
    <3>2. p # Null => p \in S /\ q[x] < q[p]
      BY <1>1, <1>2, <2>1
    <3>3. ASSUME NEW y \in T
          PROVE  /\ q[x] < q[y] => p # Null /\ q[p] <= q[y]
                 /\ q[x] = q[y] => x = y
      <4>1. CASE y = s
        BY <1>1, <2>1, <4>1
      <4>2. CASE y \in S
        BY <1>1, <1>2, <1>3, <2>1, <4>2
      <4> QED BY <4>1, <4>2
    <3>4. q[s] <= q[x]
      BY <1>1, <2>1
    <3> QED BY <3>1, <3>2, <3>3, <3>4
  <2>2. CASE x \in S
    <3>1. mx[x] # Null => mx[x] \in T /\ q[x] < q[mx[x]]
      BY <1>3, <2>2
    <3>2. q[s] <= q[x]
      BY <1>1, <2>2
    <3>3. ASSUME NEW y \in T
          PROVE  /\ q[x] < q[y] => mx[x] # Null /\ q[mx[x]] <= q[y]
                 /\ q[x] = q[y] => x = y
      <4>1. CASE y = s
        <5>1. m < q[x] /\ q[y] = m /\ q[x] \in Int
          BY <1>1, <2>2, <4>1
        <5> QED BY <5>1
      <4>2. CASE y \in S
        BY <1>3, <2>2, <4>2
      <4> QED BY <4>1, <4>2
    <3> QED BY <3>1, <3>2, <3>3
  <2> QED BY <2>1, <2>2
<1> HIDE DEF T
<1>6. s \in T
  BY DEF T
<1>7. Ordered(mx, T, s, q)
  BY <1>5, <1>6 DEF Ordered
<1> QED BY <1>7 DEF T, q

\* Links that lead from s to the list that starts at p.
Prepended(mx, qv, nx, pv, S, p, s) ==
    /\ mx[s] = p /\ qv[s] = Null
    /\ \A x \in S : mx[x] = nx[x] /\ qv[x] = IF x = p THEN s ELSE pv[x]

\* A list with an address put in front.
LEMMA ThreadedPush ==
    ASSUME NEW U, Null \notin U, NEW S \in SUBSET U, NEW nx, NEW pv, NEW p,
           NEW r \in [U -> Int], Threaded(nx, pv, S, p, r), NEW s \in U, s \notin S,
           NEW mx, NEW qv, NEW m \in Int, \A x \in U : m < r[x],
           Prepended(mx, qv, nx, pv, S, p, s), NEW q, q = [r EXCEPT ![s] = m]
    PROVE  Threaded(mx, qv, S \cup {s}, s, q)
<1>0. /\ mx[s] = p /\ qv[s] = Null
      /\ \A x \in S : mx[x] = nx[x] /\ qv[x] = IF x = p THEN s ELSE pv[x]
  BY DEF Prepended
<1>1. Ordered(mx, S \cup {s}, s, q)
  BY <1>0, OrderedPush DEF Threaded
<1>2. /\ p \in S \cup {Null} /\ (S # {} => p \in S) /\ (p # Null => pv[p] = Null)
      /\ \A x \in S : /\ nx[x] # Null => nx[x] \in S /\ pv[nx[x]] = x
                      /\ pv[x] = Null => x = p
                      /\ pv[x] # Null => pv[x] \in S /\ nx[pv[x]] = x
  BY DEF Threaded, Ordered, Backed
<1>3. s # Null /\ (\A x \in S : x # Null /\ x # s)
  OBVIOUS
<1>4. ASSUME NEW x \in S \cup {s}
      PROVE  /\ qv[x] = Null => x = s
             /\ qv[x] # Null => qv[x] \in S \cup {s} /\ mx[qv[x]] = x
             /\ mx[x] # Null => qv[mx[x]] = x
  <2>1. CASE x = s
    BY <1>0, <1>2, <1>3, <2>1
  <2>2. CASE x \in S
    <3>1. x = p => qv[x] = s /\ mx[s] = x
      BY <1>0, <2>2
    <3>2. x # p => qv[x] = pv[x] /\ pv[x] # Null /\ pv[x] \in S /\ mx[pv[x]] = x
      BY <1>0, <1>2, <2>2
    <3>3. mx[x] = nx[x] /\ (nx[x] # Null => nx[x] \in S /\ nx[x] # p)
      BY <1>0, <1>2, <1>3, <2>2
    <3> QED BY <1>0, <1>2, <1>3, <2>2, <3>1, <3>2, <3>3
  <2> QED BY <2>1, <2>2
<1>5. Backed(mx, qv, S \cup {s}, s)
  BY <1>0, <1>4 DEF Backed
<1> QED BY <1>1, <1>5 DEF Threaded

-----------------------------------------------------------------------------
(* The lists of a heap.                                                    *)

\* Two heaps that differ in the fields of F only.
Fields == {"type", "poll", "ctx", "prev", "next", "low", "paused", "due", "state", "ref",
           "head", "lhead", "iter", "cnext", "cprev", "chead", "liter", "closed",
           "closedCtx", "lowHead", "ready"}

\* The heaps g and h differ in the fields of F only.
SameBut(g, h, F) == \A f \in Fields \ F : g[f] = h[f]

\* The two halves of a heap: what the helpers of sockets edit, and what those of
\* contexts edit.
ContextFields == {"state", "ref", "cnext", "cprev", "chead", "closedCtx"}

\* ... in the fields of the contexts only, or of the sockets only.
SocketsAs(g, h)  == SameBut(g, h, ContextFields)

ContextsAs(g, h) == SameBut(g, h, Fields \ ContextFields)

\* The fields of a heap, as a set.
LEMMA HeapFields ==
    ASSUME NEW h \in Heap
    PROVE  DOMAIN h = Fields
  BY DEF Heap, Fields

\* SocketsAs and ContextsAs field by field.
LEMMA Sides ==
    ASSUME NEW g, NEW h
    PROVE  /\ SocketsAs(g, h) <=>
                /\ g.type = h.type /\ g.poll = h.poll /\ g.ctx = h.ctx /\ g.prev = h.prev
                /\ g.next = h.next /\ g.low = h.low /\ g.paused = h.paused
                /\ g.due = h.due /\ g.head = h.head /\ g.lhead = h.lhead
                /\ g.iter = h.iter /\ g.closed = h.closed /\ g.lowHead = h.lowHead
                /\ g.ready = h.ready /\ g.liter = h.liter
           /\ ContextsAs(g, h) <=>
                /\ g.state = h.state /\ g.ref = h.ref /\ g.cnext = h.cnext
                /\ g.cprev = h.cprev /\ g.chead = h.chead /\ g.closedCtx = h.closedCtx
  BY DEF SocketsAs, ContextsAs, SameBut, Fields, ContextFields

\* Both are transitive.
LEMMA SidesTransitive ==
    ASSUME NEW f, NEW g, NEW h
    PROVE  /\ SocketsAs(f, g) /\ SocketsAs(g, h) => SocketsAs(f, h)
           /\ ContextsAs(f, g) /\ ContextsAs(g, h) => ContextsAs(f, h)
  BY DEF SocketsAs, ContextsAs, SameBut

\* The lists are read off the fields of the sockets.
LEMMA ListsAs ==
    ASSUME NEW g, NEW h, SocketsAs(g, h), NEW X, NEW r
    PROVE  Lists(h, X, r) <=> Lists(g, X, r)
<1>1. /\ g.type = h.type /\ g.ctx = h.ctx /\ g.prev = h.prev /\ g.next = h.next
      /\ g.low = h.low /\ g.head = h.head /\ g.lhead = h.lhead /\ g.iter = h.iter
      /\ g.closed = h.closed /\ g.lowHead = h.lowHead
  BY Sides
<1>2. /\ \A c : Regular(g, c) = Regular(h, c) /\ Listening(g, c) = Listening(h, c)
      /\ Queued(g) = Queued(h) /\ Dead(g) = Dead(h)
  BY <1>1 DEF Regular, Listening, Queued, Dead, Open, IsClosed
<1> QED BY <1>1, <1>2 DEF Lists

\* ... and the list of the contexts off the fields of the contexts.
LEMMA ContextsOKAs ==
    ASSUME NEW g, NEW h, ContextsAs(g, h), ContextsOK(h)
    PROVE  ContextsOK(g)
<1>1. ClosedContexts(g) = ClosedContexts(h) /\ LiveContexts(g) = LiveContexts(h)
  BY Sides DEF ClosedContexts, LiveContexts
<1> QED BY <1>1, Sides DEF ContextsOK, LiveList

\* The contexts of the loop are linked both ways.
LEMMA LiveLinks ==
    ASSUME NEW g, LiveList(g)
    PROVE  /\ g.chead # Null => /\ g.chead \in Contexts /\ g.state[g.chead] = "live"
                                /\ g.cprev[g.chead] = Null
           /\ \A c \in Contexts : g.state[c] = "live" =>
                /\ g.cprev[c] = Null => c = g.chead
                /\ g.cprev[c] # Null => /\ g.cprev[c] \in Contexts /\ g.state[g.cprev[c]] = "live"
                                        /\ g.cnext[g.cprev[c]] = c
                /\ g.cnext[c] # Null => /\ g.cnext[c] \in Contexts /\ g.state[g.cnext[c]] = "live"
                                        /\ g.cprev[g.cnext[c]] = c
  BY DEF LiveList, LiveContexts, Threaded, Ordered, Backed

\* The list of the loop is read off the states and the links of the contexts in it.
LEMMA LiveListAs ==
    ASSUME NEW g, NEW h, LiveList(h), g.chead = h.chead,
           \A c \in Contexts : /\ g.state[c] = "live" <=> h.state[c] = "live"
                               /\ h.state[c] = "live" => g.cnext[c] = h.cnext[c] /\ g.cprev[c] = h.cprev[c]
    PROVE  LiveList(g)
<1>1. PICK r \in [Contexts -> Int] : Threaded(h.cnext, h.cprev, LiveContexts(h), h.chead, r)
  BY DEF LiveList
<1>2. LiveContexts(g) = LiveContexts(h)
  BY DEF LiveContexts
<1>3. \A x \in LiveContexts(h) : g.cnext[x] = h.cnext[x] /\ g.cprev[x] = h.cprev[x] /\ r[x] = r[x]
  BY DEF LiveContexts
<1>4. Threaded(g.cnext, g.cprev, LiveContexts(h), h.chead, r)
  BY <1>1, <1>3, ThreadedFrame
<1> QED BY <1>2, <1>4 DEF LiveList

-----------------------------------------------------------------------------
(* References of contexts.                                                 *)

\* Writes of one field keep the type of the heap.
LEMMA PutContext ==
    ASSUME NEW h \in Heap
    PROVE  /\ \A c \in Contexts, v \in ContextPtr : [h EXCEPT !.cnext[c] = v] \in Heap
           /\ \A c \in Contexts, v \in ContextPtr : [h EXCEPT !.cprev[c] = v] \in Heap
           /\ \A v \in ContextPtr : [h EXCEPT !.chead = v] \in Heap
           /\ \A v \in ContextPtr : [h EXCEPT !.closedCtx = v] \in Heap
           /\ \A c \in Contexts, w \in {"none", "live", "closed"} : [h EXCEPT !.state[c] = w] \in Heap
           /\ \A c \in Contexts, n \in Int : [h EXCEPT !.ref[c] = n] \in Heap
           /\ \A c \in Contexts, p \in SocketPtr : [h EXCEPT !.head[c] = p] \in Heap
           /\ \A c \in Contexts, p \in SocketPtr : [h EXCEPT !.lhead[c] = p] \in Heap
           /\ \A c \in Contexts, p \in SocketPtr : [h EXCEPT !.iter[c] = p] \in Heap
  BY DEF Heap

\* A write of one field of one socket leaves a heap.
LEMMA PutSocket ==
    ASSUME NEW h \in Heap
    PROVE  /\ \A s \in Sockets, p \in SocketPtr : [h EXCEPT !.next[s] = p] \in Heap
           /\ \A s \in Sockets, b \in SocketPtr \cup Contexts : [h EXCEPT !.prev[s] = b] \in Heap
           /\ \A s \in Sockets, c \in ContextPtr : [h EXCEPT !.ctx[s] = c] \in Heap
           /\ \A s \in Sockets, l \in 0..2 : [h EXCEPT !.low[s] = l] \in Heap
           /\ \A s \in Sockets, t \in PollTypes : [h EXCEPT !.type[s] = t] \in Heap
           /\ \A s \in Sockets, d \in SUBSET Directions : [h EXCEPT !.poll[s] = d] \in Heap
           /\ \A s \in Sockets, e \in SUBSET (Directions \cup Conditions) :
                 [h EXCEPT !.ready[s] = e] \in Heap
           /\ \A p \in SocketPtr : [h EXCEPT !.closed = p] \in Heap
           /\ \A p \in SocketPtr : [h EXCEPT !.lowHead = p] \in Heap
  BY DEF Heap

\* The fields that LoopUnlink writes.
LEMMA LoopUnlinkFields ==
    ASSUME NEW h \in Heap, NEW c \in Contexts, NEW g, g = LoopUnlink(h, c)
    PROVE  /\ g \in Heap /\ SocketsAs(g, h)
           /\ g.state = h.state /\ g.ref = h.ref /\ g.closedCtx = h.closedCtx
           /\ g.chead = IF h.chead = c THEN h.cnext[c] ELSE h.chead
           /\ g.cnext = IF h.chead # c /\ h.cprev[c] # Null
                        THEN [h.cnext EXCEPT ![h.cprev[c]] = h.cnext[c]] ELSE h.cnext
           /\ g.cprev = IF h.cnext[c] = Null THEN h.cprev
                        ELSE [h.cprev EXCEPT ![h.cnext[c]] =
                                 IF h.chead = c THEN Null ELSE h.cprev[c]]
<1> DEFINE n == h.cnext[c]
           p == h.cprev[c]
           f == IF h.chead = c THEN [h EXCEPT !.chead = n]
                ELSE IF p = Null THEN h ELSE [h EXCEPT !.cnext[p] = n]
           k == IF n = Null THEN f
                ELSE [f EXCEPT !.cprev[n] = IF h.chead = c THEN Null ELSE p]
<1>1. n \in ContextPtr /\ p \in ContextPtr
  BY DEF Heap
<1>2. /\ f \in Heap /\ SocketsAs(f, h)
      /\ f.state = h.state /\ f.ref = h.ref /\ f.closedCtx = h.closedCtx
      /\ f.cprev = h.cprev
      /\ f.chead = IF h.chead = c THEN n ELSE h.chead
      /\ f.cnext = IF h.chead # c /\ p # Null THEN [h.cnext EXCEPT ![p] = n] ELSE h.cnext
  <2>1. CASE h.chead = c
    BY <1>1, <2>1, Sides DEF Heap, ContextPtr
  <2>2. CASE h.chead # c /\ p = Null
    BY <1>1, <2>2, Sides DEF Heap, ContextPtr
  <2>3. CASE h.chead # c /\ p # Null
    BY <1>1, <2>3, Sides DEF Heap, ContextPtr
  <2> QED BY <2>1, <2>2, <2>3
<1>3. g = k
  BY DEF LoopUnlink
<1> HIDE DEF f
<1>4. CASE n = Null
  BY <1>2, <1>3, <1>4
<1>5. CASE n # Null
  <2> DEFINE v == IF h.chead = c THEN Null ELSE p
  <2>1. n \in Contexts /\ v \in ContextPtr
    BY <1>1, <1>5 DEF ContextPtr
  <2>2. g = [f EXCEPT !.cprev[n] = v]
    BY <1>3, <1>5
  <2> HIDE DEF v, k, n, p
  <2>3. g \in Heap
    BY <1>2, <2>1, <2>2, PutContext
  <2>4. /\ SocketsAs(g, f) /\ g.state = f.state /\ g.ref = f.ref
        /\ g.closedCtx = f.closedCtx /\ g.chead = f.chead /\ g.cnext = f.cnext
        /\ g.cprev = [f.cprev EXCEPT ![n] = v]
    BY SMTT(30), <1>2, <2>1, <2>2, Sides DEF Heap
  <2>5. SocketsAs(g, h)
    BY <1>2, <2>4, SidesTransitive
  <2> QED BY <1>2, <1>5, <2>3, <2>4, <2>5 DEF v, n, p
<1> QED BY <1>4, <1>5

\* Dropping a reference; the last one takes the context from the list of the loop
\* to the closed list.
LEMMA UnrefContexts ==
    ASSUME NEW h \in Heap, ContextsOK(h), NEW c \in Contexts, h.ref[c] # 0,
           NEW g, g = Unref(h, c)
    PROVE  /\ g \in Heap /\ SocketsAs(g, h) /\ ContextsOK(g)
           /\ g.ref = [h.ref EXCEPT ![c] = @ - 1]
           /\ g.state = [h.state EXCEPT ![c] = IF h.ref[c] = 1 THEN "closed" ELSE @]
<1> DEFINE k == [h EXCEPT !.ref[c] = @ - 1]
<1>1. h.ref[c] \in Int /\ h.ref[c] >= 0 /\ h.state[c] = "live" /\ c # Null
  BY AddressesDiffer DEF ContextsOK, Heap
<1>2. /\ k \in Heap /\ SocketsAs(k, h) /\ k.state = h.state /\ k.cnext = h.cnext
      /\ k.cprev = h.cprev /\ k.chead = h.chead /\ k.closedCtx = h.closedCtx
      /\ k.ref = [h.ref EXCEPT ![c] = @ - 1]
  <2>1. h.ref[c] - 1 \in Int
    BY <1>1
  <2> HIDE DEF k
  <2>2. k = [h EXCEPT !.ref[c] = h.ref[c] - 1]
    BY DEF k
  <2>3. k \in Heap
    BY <2>1, <2>2 DEF Heap
  <2>4. /\ SocketsAs(k, h) /\ k.state = h.state /\ k.cnext = h.cnext
        /\ k.cprev = h.cprev /\ k.chead = h.chead /\ k.closedCtx = h.closedCtx
        /\ k.ref = [h.ref EXCEPT ![c] = h.ref[c] - 1]
    BY <2>2, Sides DEF Heap
  <2> QED BY <2>3, <2>4
<1>3. g = IF h.ref[c] = 1 THEN ContextFree(k, c) ELSE k
  BY <1>1 DEF Unref
<1> HIDE DEF k
<1>4. \A d \in Contexts : /\ k.ref[d] = IF d = c THEN h.ref[d] - 1 ELSE h.ref[d]
                          /\ h.ref[d] \in Int /\ h.ref[d] >= 0
                          /\ h.state[d] = "live" <=> h.ref[d] # 0
  BY <1>2 DEF Heap, ContextsOK
<1>5. CASE h.ref[c] # 1
  <2>1. LiveList(k) /\ ClosedContexts(k) = ClosedContexts(h)
    <3>1. LiveList(k)
      BY <1>2, LiveListAs DEF ContextsOK
    <3> QED BY <1>2, <3>1 DEF ClosedContexts
  <2>2. \A d \in Contexts : k.ref[d] >= 0 /\ (k.state[d] = "live" <=> k.ref[d] # 0)
    BY <1>1, <1>2, <1>4, <1>5
  <2>3. ContextsOK(k)
    BY <1>2, <2>1, <2>2 DEF ContextsOK
  <2>4. k.state = [h.state EXCEPT ![c] = @]
    BY <1>2 DEF Heap
  <2> QED BY <1>2, <1>3, <1>5, <2>3, <2>4
<1>6. CASE h.ref[c] = 1
  <2>1. PICK u : u = LoopUnlink(k, c)
    OBVIOUS
  <2>2. /\ u \in Heap /\ SocketsAs(u, k) /\ u.state = h.state /\ u.ref = k.ref
        /\ u.closedCtx = h.closedCtx
        /\ u.chead = IF h.chead = c THEN h.cnext[c] ELSE h.chead
        /\ u.cnext = IF h.chead # c /\ h.cprev[c] # Null
                     THEN [h.cnext EXCEPT ![h.cprev[c]] = h.cnext[c]] ELSE h.cnext
        /\ u.cprev = IF h.cnext[c] = Null THEN h.cprev
                     ELSE [h.cprev EXCEPT ![h.cnext[c]] =
                              IF h.chead = c THEN Null ELSE h.cprev[c]]
    BY <1>2, <2>1, LoopUnlinkFields
  <2>3. g = [u EXCEPT !.cnext[c] = k.closedCtx, !.closedCtx = c, !.state[c] = "closed"]
    BY <1>3, <1>6, <2>1 DEF ContextFree
  <2>4. h.closedCtx \in ContextPtr /\ k.closedCtx = h.closedCtx
    BY <1>2 DEF Heap
  <2>5. g \in Heap
    <3>1. PICK w : w = [u EXCEPT !.cnext[c] = h.closedCtx]
      OBVIOUS
    <3>2. w \in Heap
      BY <2>2, <2>4, <3>1, PutContext
    <3>3. PICK v : v = [w EXCEPT !.closedCtx = c]
      OBVIOUS
    <3>4. c \in ContextPtr
      BY DEF ContextPtr
    <3>5. v \in Heap
      BY <3>2, <3>3, <3>4, PutContext
    <3>6. [v EXCEPT !.state[c] = "closed"] \in Heap
      BY <3>5, PutContext
    <3>7. g = [v EXCEPT !.state[c] = "closed"]
      BY <2>2, <2>3, <2>4, <3>1, <3>3 DEF Heap
    <3> QED BY <3>6, <3>7
  <2>6. /\ SocketsAs(g, u) /\ g.ref = u.ref /\ g.chead = u.chead /\ g.cprev = u.cprev
        /\ g.closedCtx = c
        /\ g.cnext = [u.cnext EXCEPT ![c] = h.closedCtx]
        /\ g.state = [u.state EXCEPT ![c] = "closed"]
    <3>1. SocketsAs(g, u) /\ g.ref = u.ref /\ g.chead = u.chead /\ g.cprev = u.cprev
      BY ZenonT(60), <2>2, <2>3, HeapFields DEF SocketsAs, SameBut, ContextFields, Fields
    <3>2. /\ g.closedCtx = c
          /\ g.cnext = [u.cnext EXCEPT ![c] = h.closedCtx]
          /\ g.state = [u.state EXCEPT ![c] = "closed"]
      BY <2>2, <2>3, <2>4 DEF Heap
    <3> QED BY <3>1, <3>2
  <2>7. SocketsAs(g, h)
    BY <1>2, <2>2, <2>6, SidesTransitive
  <2>8. \A d \in Contexts : g.state[d] = IF d = c THEN "closed" ELSE h.state[d]
    BY <2>2, <2>6 DEF Heap
  <2>9. PICK n, p : n = h.cnext[c] /\ p = h.cprev[c]
    OBVIOUS
  <2>10. n \in ContextPtr /\ p \in ContextPtr
    BY <2>9 DEF Heap
  <2>11. /\ h.chead # Null => h.state[h.chead] = "live" /\ h.cprev[h.chead] = Null
         /\ h.chead = c => p = Null
         /\ p = Null => h.chead = c
         /\ p # Null => h.state[p] = "live" /\ h.cnext[p] = c
         /\ n # Null => h.state[n] = "live" /\ h.cprev[n] = c
    BY <1>1, <2>9, LiveLinks DEF ContextsOK
  <2>12. h.chead # c /\ p # Null <=> p # Null
    BY <2>11
  <2>13. g.chead = IF p = Null THEN n ELSE h.chead
    BY <2>2, <2>6, <2>9, <2>11
  <2>14. ASSUME NEW d \in Contexts, d # c PROVE g.cnext[d] = IF d = p THEN n ELSE h.cnext[d]
    <3>1. g.cnext[d] = u.cnext[d]
      BY <2>2, <2>6, <2>14 DEF Heap
    <3>2. u.cnext = IF p # Null THEN [h.cnext EXCEPT ![p] = n] ELSE h.cnext
      BY <2>2, <2>9, <2>12
    <3>3. h.cnext \in [Contexts -> ContextPtr] /\ d # Null
      BY AddressesDiffer DEF Heap
    <3> QED BY <2>10, <3>1, <3>2, <3>3
  <2>15. ASSUME NEW d \in Contexts PROVE g.cprev[d] = IF d = n THEN p ELSE h.cprev[d]
    <3>1. g.cprev = IF n = Null THEN h.cprev ELSE [h.cprev EXCEPT ![n] = p]
      BY <2>2, <2>6, <2>9, <2>11
    <3>2. h.cprev \in [Contexts -> ContextPtr] /\ d # Null
      BY AddressesDiffer DEF Heap
    <3> QED BY <2>10, <3>1, <3>2
  <2>17. LiveList(g)
    <3>1. PICK r \in [Contexts -> Int] : Threaded(h.cnext, h.cprev, LiveContexts(h), h.chead, r)
      BY DEF ContextsOK, LiveList
    <3>2. LiveContexts(h) \in SUBSET Contexts /\ c \in LiveContexts(h) /\ Null \notin Contexts
      BY <1>1, AddressesDiffer DEF LiveContexts
    <3>3. LiveContexts(g) = LiveContexts(h) \ {c}
      BY <2>8 DEF LiveContexts
    <3>4. Bypassed(g.cnext, g.cprev, h.cnext, h.cprev, LiveContexts(h), c)
      <4>1. \A x \in LiveContexts(h) \ {c} : x \in Contexts /\ x # c
        BY DEF LiveContexts
      <4>2. \A x \in LiveContexts(h) \ {c} : g.cnext[x] = IF x = h.cprev[c] THEN h.cnext[c] ELSE h.cnext[x]
        BY <2>9, <2>14, <4>1
      <4>3. \A x \in LiveContexts(h) \ {c} : g.cprev[x] = IF x = h.cnext[c] THEN h.cprev[c] ELSE h.cprev[x]
        BY <2>9, <2>15, <4>1
      <4> QED BY <4>2, <4>3 DEF Bypassed
    <3>5. g.chead = IF h.cprev[c] = Null THEN h.cnext[c] ELSE h.chead
      BY <2>9, <2>13
    <3>6. Threaded(g.cnext, g.cprev, LiveContexts(h) \ {c}, g.chead, r)
      BY <3>1, <3>2, <3>4, <3>5, ThreadedCut
    <3> QED BY <3>3, <3>6 DEF LiveList
  <2>18. \E r \in [Contexts -> Int] : Ordered(g.cnext, ClosedContexts(g), g.closedCtx, r)
    <3>1. PICK r \in [Contexts -> Int] : Ordered(h.cnext, ClosedContexts(h), h.closedCtx, r)
      BY DEF ContextsOK
    <3>2. PICK m \in Int : \A x \in Contexts : m < r[x]
      BY DistinctAddresses, RankBelow
    <3>3. ClosedContexts(g) = ClosedContexts(h) \cup {c} /\ c \notin ClosedContexts(h)
      BY <1>1, <2>8 DEF ClosedContexts
    <3>4. ASSUME NEW x \in ClosedContexts(h) PROVE g.cnext[x] = h.cnext[x]
      <4>1. x # c /\ x # p /\ x \in Contexts
        BY <1>1, <2>11, AddressesDiffer DEF ClosedContexts
      <4> QED BY <2>14, <4>1
    <3>5. g.cnext[c] = h.closedCtx
      BY <2>2, <2>6 DEF Heap
    <3>6. ClosedContexts(h) \in SUBSET Contexts /\ Null \notin Contexts
      BY AddressesDiffer DEF ClosedContexts
    <3>7. Ordered(g.cnext, ClosedContexts(h) \cup {c}, c, [r EXCEPT ![c] = m])
      BY <3>1, <3>2, <3>3, <3>4, <3>5, <3>6, OrderedPush
    <3>8. [r EXCEPT ![c] = m] \in [Contexts -> Int]
      OBVIOUS
    <3> QED BY <2>6, <3>3, <3>7, <3>8
  <2>19. \A d \in Contexts : g.ref[d] >= 0 /\ (g.state[d] = "live" <=> g.ref[d] # 0)
    BY <1>1, <1>4, <1>6, <2>2, <2>6, <2>8
  <2>20. ContextsOK(g)
    BY <2>17, <2>18, <2>19 DEF ContextsOK
  <2>21. g.state = [h.state EXCEPT ![c] = "closed"] /\ g.ref = [h.ref EXCEPT ![c] = @ - 1]
    BY <1>2, <2>2, <2>6
  <2> QED BY <1>6, <2>5, <2>7, <2>20, <2>21
<1> QED BY <1>5, <1>6

-----------------------------------------------------------------------------
(* Taking a socket out of its list.                                        *)

\* The writes through a pointer that may be null.
LEMMA SetNextFields ==
    ASSUME NEW h \in Heap, NEW p \in SocketPtr, NEW v \in SocketPtr, NEW g, g = SetNext(h, p, v)
    PROVE  /\ g \in Heap /\ SameBut(g, h, {"next"})
           /\ \A t \in Sockets : g.next[t] = IF t = p THEN v ELSE h.next[t]
<1>1. CASE p \in Sockets
  <2>1. g = [h EXCEPT !.next[p] = v]
    BY <1>1 DEF SetNext
  <2>2. g \in Heap
    BY <1>1, <2>1, PutSocket
  <2>3. SameBut(g, h, {"next"})
    BY <2>1, HeapFields DEF SameBut
  <2>4. \A t \in Sockets : g.next[t] = IF t = p THEN v ELSE h.next[t]
    BY <1>1, <2>1 DEF Heap
  <2> QED BY <2>2, <2>3, <2>4
<1>2. CASE p \notin Sockets
  BY <1>2 DEF SetNext, SameBut
<1> QED BY <1>1, <1>2

\* The fields that SetPrev writes.
LEMMA SetPrevFields ==
    ASSUME NEW h \in Heap, NEW p \in SocketPtr, NEW v \in SocketPtr, NEW g, g = SetPrev(h, p, v)
    PROVE  /\ g \in Heap /\ SameBut(g, h, {"prev"})
           /\ \A t \in Sockets : g.prev[t] = IF t = p THEN v ELSE h.prev[t]
<1>1. CASE p \in Sockets
  <2>1. g = [h EXCEPT !.prev[p] = v]
    BY <1>1 DEF SetPrev
  <2>2. g \in Heap
    BY <1>1, <2>1, PutSocket
  <2>3. SameBut(g, h, {"prev"})
    BY <2>1, HeapFields DEF SameBut
  <2>4. \A t \in Sockets : g.prev[t] = IF t = p THEN v ELSE h.prev[t]
    BY <1>1, <2>1 DEF Heap
  <2> QED BY <2>2, <2>3, <2>4
<1>2. CASE p \notin Sockets
  BY <1>2 DEF SetPrev, SameBut
<1> QED BY <1>1, <1>2

\* The fields that StepIterator writes.
LEMMA StepIteratorFields ==
    ASSUME NEW h \in Heap, NEW c \in Contexts, NEW s \in Sockets, NEW g, g = StepIterator(h, c, s)
    PROVE  /\ g \in Heap /\ SameBut(g, h, {"iter"})
           /\ \A d \in Contexts : g.iter[d] = IF d = c /\ h.iter[d] = s THEN h.next[s] ELSE h.iter[d]
<1>1. CASE h.iter[c] = s
  <2>1. g = [h EXCEPT !.iter[c] = h.next[s]] /\ h.next[s] \in SocketPtr
    BY <1>1 DEF StepIterator, Heap
  <2>2. g \in Heap
    BY <2>1, PutContext
  <2>3. SameBut(g, h, {"iter"})
    BY <2>1, HeapFields DEF SameBut
  <2>4. \A d \in Contexts : g.iter[d] = IF d = c THEN h.next[s] ELSE h.iter[d]
    BY <2>1 DEF Heap
  <2> QED BY <1>1, <2>2, <2>3, <2>4
<1>2. CASE h.iter[c] # s
  BY <1>2 DEF StepIterator, SameBut
<1> QED BY <1>1, <1>2

\* What UnlinkSocket, UnlinkListenSocket and LeaveQueue do before they drop the
\* reference of the socket.
CutRegular(h, c, s) ==
    LET n == h.next[s]
        p == h.prev[s]
        f == StepIterator(h, c, s)
        g == IF p \in Sockets THEN SetNext(f, p, n) ELSE [f EXCEPT !.head[c] = n]
    IN  IF p = n THEN [f EXCEPT !.head[c] = Null] ELSE SetPrev(g, n, p)

\* ... of UnlinkListenSocket.
CutListening(h, c, s) ==
    LET n == h.next[s]
        p == h.prev[s]
        f == StepIterator(h, c, s)
        g == IF p \in Sockets THEN SetNext(f, p, n) ELSE [f EXCEPT !.lhead[c] = n]
    IN  IF p = n THEN [f EXCEPT !.lhead[c] = Null] ELSE SetPrev(g, n, p)

\* ... and of LeaveQueue.
CutQueued(h, s) ==
    LET f == IF h.prev[s] \in Sockets
             THEN SetNext(h, h.prev[s], h.next[s])
             ELSE [h EXCEPT !.lowHead = h.next[s]]
        g == SetPrev(f, h.next[s], h.prev[s])
    IN  [g EXCEPT !.prev[s] = Null, !.next[s] = Null, !.low[s] = 0]

\* The three functions that take a socket out cut it and drop a reference.
LEMMA Cuts ==
    ASSUME NEW h, NEW c, NEW s
    PROVE  /\ UnlinkSocket(h, c, s) = Unref(CutRegular(h, c, s), c)
           /\ UnlinkListenSocket(h, c, s) = Unref(CutListening(h, c, s), c)
           /\ LeaveQueue(h, s) = Unref(CutQueued(h, s), h.ctx[s])
  BY DEF UnlinkSocket, UnlinkListenSocket, LeaveQueue, CutRegular, CutListening, CutQueued

\* s is cut out of the list it was in: its neighbours are linked to each other,
\* the head of the list and the sweep step over it.
Removed(g, h, s) ==
    /\ g \in Heap
    /\ SameBut(g, h, ContextFields \cup {"prev", "next", "low", "head", "lhead", "lowHead", "iter"})
    /\ g.next[s] \in {Null, h.next[s]}
    /\ \A t \in Sockets \ {s} : /\ g.next[t] = IF t = h.prev[s] THEN h.next[s] ELSE h.next[t]
                                /\ g.prev[t] = IF t = h.next[s] THEN h.prev[s] ELSE h.prev[t]
                                /\ g.low[t] = h.low[t]
    /\ \A c \in Contexts :
          /\ g.iter[c] = IF h.iter[c] = s THEN h.next[s] ELSE h.iter[c]
          /\ g.head[c] = IF s \in Regular(h, c) /\ h.prev[s] = Null THEN h.next[s] ELSE h.head[c]
          /\ g.lhead[c] = IF s \in Listening(h, c) /\ h.prev[s] = Null
                          THEN h.next[s] ELSE h.lhead[c]
    /\ g.lowHead = IF s \in Queued(h) /\ h.prev[s] = Null THEN h.next[s] ELSE h.lowHead

\* What has been removed stays so when a context is written.
LEMMA RemovedAs ==
    ASSUME NEW f, NEW h, NEW s, Removed(f, h, s), NEW g \in Heap, SocketsAs(g, f)
    PROVE  Removed(g, h, s)
<1>1. SameBut(g, h, ContextFields \cup {"prev", "next", "low", "head", "lhead", "lowHead", "iter"})
  BY DEF Removed, SocketsAs, SameBut
<1>2. /\ g.next = f.next /\ g.prev = f.prev /\ g.low = f.low /\ g.iter = f.iter
      /\ g.head = f.head /\ g.lhead = f.lhead /\ g.lowHead = f.lowHead
  BY Sides
<1> QED BY <1>1, <1>2 DEF Removed

\* The neighbours of a socket on a list.
Beside(nx, pv, S, p, s) ==
    /\ pv[s] \in S \cup {Null} /\ pv[s] # s /\ nx[s] \in S \cup {Null} /\ nx[s] # s
    /\ pv[s] = nx[s] => nx[s] = Null
    /\ pv[s] = Null <=> s = p
    /\ pv[s] # Null => nx[pv[s]] = s
    /\ nx[s] # Null => pv[nx[s]] = s

\* The neighbours of a member of a list.
LEMMA Neighbours ==
    ASSUME NEW U, Null \notin U, NEW S \in SUBSET U, NEW nx, NEW pv, NEW p,
           NEW r \in [U -> Int], Threaded(nx, pv, S, p, r), NEW s \in S
    PROVE  Beside(nx, pv, S, p, s)
<1>1. nx[s] # Null => nx[s] \in S /\ r[s] < r[nx[s]]
  BY DEF Threaded, Ordered
<1>2. pv[s] # Null => pv[s] \in S /\ nx[pv[s]] = s
  BY DEF Threaded, Backed
<1>3. pv[s] # Null => r[pv[s]] < r[s]
  BY <1>2 DEF Threaded, Ordered
<1>4. r[s] \in Int /\ (nx[s] # Null => r[nx[s]] \in Int) /\ (pv[s] # Null => r[pv[s]] \in Int)
  BY <1>1, <1>2
<1>5. pv[s] = Null <=> s = p
  BY DEF Threaded, Backed
<1>6. nx[s] # Null => pv[nx[s]] = s
  BY DEF Threaded, Backed
<1> QED BY <1>1, <1>2, <1>3, <1>4, <1>5, <1>6 DEF Beside

\* us_internal_socket_context_unlink_socket takes the socket out of its list.
LEMMA CutRegularRemoved ==
    ASSUME NEW h \in Heap, NEW X, NEW r, Lists(h, X, r), NEW c \in Contexts,
           NEW s \in Regular(h, c) \ X, NEW k, k = CutRegular(h, c, s)
    PROVE  Removed(k, h, s) /\ ContextsAs(k, h)
<1>1. PICK n, p : n = h.next[s] /\ p = h.prev[s]
  OBVIOUS
<1>2. s \in Sockets /\ Null \notin Sockets /\ s # Null /\ h.ctx[s] = c
  BY AddressesDiffer DEF Regular
<1>3. /\ n \in SocketPtr /\ p \in SocketPtr /\ n # s /\ p # s
      /\ p = n => n = Null
  <2>1. Regular(h, c) \ X \in SUBSET Sockets
    BY DEF Regular
  <2>2. Threaded(h.next, h.prev, Regular(h, c) \ X, h.head[c], r) /\ r \in [Sockets -> Int]
    BY DEF Lists
  <2>3. PICK nx, pv, S, q : nx = h.next /\ pv = h.prev /\ S = Regular(h, c) \ X /\ q = h.head[c]
    OBVIOUS
  <2>4. S \in SUBSET Sockets /\ Threaded(nx, pv, S, q, r) /\ s \in S
    BY <2>1, <2>2, <2>3
  <2>5. r \in [Sockets -> Int] /\ Null \notin Sockets
    BY <1>2, <2>2
  <2>6. Beside(nx, pv, S, q, s)
    BY <2>4, <2>5, Neighbours
  <2> QED BY <1>1, <2>3, <2>4, <2>6 DEF SocketPtr, Beside
<1>4. \A d \in Contexts : h.iter[d] = s => d = c
  BY <1>2 DEF Lists, Regular, Listening
<1>5. PICK f : f = StepIterator(h, c, s)
  OBVIOUS
<1>6. /\ f \in Heap /\ SameBut(f, h, {"iter"})
      /\ \A d \in Contexts : f.iter[d] = IF h.iter[d] = s THEN n ELSE h.iter[d]
  BY <1>1, <1>2, <1>4, <1>5, StepIteratorFields
<1>7. PICK g : g = IF p \in Sockets THEN SetNext(f, p, n) ELSE [f EXCEPT !.head[c] = n]
  OBVIOUS
<1>8. /\ g \in Heap /\ SameBut(g, f, {"next", "head"})
      /\ \A t \in Sockets : g.next[t] = IF t = p THEN n ELSE f.next[t]
      /\ \A d \in Contexts : g.head[d] = IF d = c /\ p = Null THEN n ELSE f.head[d]
  <2>1. CASE p \in Sockets
    <3>1. g = SetNext(f, p, n)
      BY <1>7, <2>1
    <3>2. /\ g \in Heap /\ SameBut(g, f, {"next"})
          /\ \A t \in Sockets : g.next[t] = IF t = p THEN n ELSE f.next[t]
      BY <1>3, <1>6, <3>1, SetNextFields
    <3>3. g.head = f.head
      BY <3>2 DEF SameBut, Fields
    <3>4. SameBut(g, f, {"next", "head"})
      BY <3>2 DEF SameBut
    <3> QED BY <1>2, <2>1, <3>2, <3>3, <3>4
  <2>2. CASE p \notin Sockets
    <3>1. g = [f EXCEPT !.head[c] = n] /\ p = Null
      BY <1>3, <1>7, <2>2 DEF SocketPtr
    <3>2. g \in Heap
      BY <1>3, <1>6, <3>1, PutContext
    <3>3. SameBut(g, f, {"head"})
      BY <1>6, <3>1, HeapFields DEF SameBut
    <3>4. g.next = f.next
      BY <3>3 DEF SameBut, Fields
    <3>5. \A d \in Contexts : g.head[d] = IF d = c THEN n ELSE f.head[d]
      BY <1>6, <3>1 DEF Heap
    <3>6. SameBut(g, f, {"next", "head"})
      BY <3>3 DEF SameBut
    <3> QED BY <1>2, <3>1, <3>2, <3>4, <3>5, <3>6
  <2> QED BY <2>1, <2>2
<1>9. k = IF p = n THEN [f EXCEPT !.head[c] = Null] ELSE SetPrev(g, n, p)
  BY <1>1, <1>5, <1>7 DEF CutRegular
<1>10. /\ k \in Heap /\ SameBut(k, g, {"prev"})
       /\ \A t \in Sockets : k.prev[t] = IF t = n THEN p ELSE g.prev[t]
  <2>1. CASE p = n
    <3>1. n = Null /\ p = Null /\ p \notin Sockets
      BY <1>2, <1>3, <2>1
    <3>2. k = g
      BY <1>7, <1>9, <2>1, <3>1
    <3> QED BY <1>2, <1>8, <3>1, <3>2 DEF SameBut
  <2>2. CASE p # n
    <3>1. k = SetPrev(g, n, p)
      BY <1>9, <2>2
    <3> QED BY <1>3, <1>8, <3>1, SetPrevFields
  <2> QED BY <2>1, <2>2
<1>11. SameBut(k, h, {"prev", "next", "head", "iter"})
  BY <1>6, <1>8, <1>10 DEF SameBut
<1>12. /\ k.next = g.next /\ g.prev = h.prev /\ f.next = h.next /\ k.iter = f.iter
       /\ k.head = g.head /\ f.head = h.head
       /\ k.low = h.low /\ k.lowHead = h.lowHead /\ k.lhead = h.lhead
  BY <1>6, <1>8, <1>10, <1>11 DEF SameBut, Fields
<1>13. \A d \in Contexts : /\ s \in Regular(h, d) <=> d = c
                           /\ s \notin Listening(h, d)
  BY <1>2 DEF Regular, Listening
<1>14. k.next[s] = h.next[s]
  BY <1>2, <1>3, <1>8, <1>12
<1>15. SameBut(k, h, ContextFields \cup {"prev", "next", "low", "head", "lhead", "lowHead", "iter"})
  BY <1>11 DEF SameBut
<1>16. ASSUME NEW t \in Sockets \ {s}
       PROVE  /\ k.next[t] = IF t = h.prev[s] THEN h.next[s] ELSE h.next[t]
              /\ k.prev[t] = IF t = h.next[s] THEN h.prev[s] ELSE h.prev[t]
              /\ k.low[t] = h.low[t]
  <2>1. k.next[t] = IF t = p THEN n ELSE h.next[t]
    BY <1>1, <1>8, <1>10, <1>12
  <2>2. k.prev[t] = IF t = n THEN p ELSE h.prev[t]
    BY <1>1, <1>8, <1>10, <1>12
  <2>3. k.low[t] = h.low[t]
    BY <1>1, <1>8, <1>10, <1>12
  <2> QED BY <1>1, <2>1, <2>2, <2>3
<1>17. \A d \in Contexts :
          /\ k.iter[d] = IF h.iter[d] = s THEN h.next[s] ELSE h.iter[d]
          /\ k.head[d] = IF s \in Regular(h, d) /\ h.prev[s] = Null THEN h.next[s] ELSE h.head[d]
          /\ k.lhead[d] = IF s \in Listening(h, d) /\ h.prev[s] = Null
                          THEN h.next[s] ELSE h.lhead[d]
  BY <1>1, <1>6, <1>8, <1>12, <1>13
<1>18. k.lowHead = IF s \in Queued(h) /\ h.prev[s] = Null THEN h.next[s] ELSE h.lowHead
  <2>1. s \notin Queued(h)
    BY DEF Regular, Listening, Queued
  <2> QED BY <1>12, <2>1
<1>19. Removed(k, h, s)
  BY <1>10, <1>18, <1>14, <1>15, <1>16, <1>17 DEF Removed
<1>20. ContextsAs(k, h)
  BY <1>11 DEF ContextsAs, SameBut, Fields, ContextFields
<1> QED BY <1>19, <1>20

\* ... also a listen socket.
LEMMA CutListeningRemoved ==
    ASSUME NEW h \in Heap, NEW X, NEW r, Lists(h, X, r), NEW c \in Contexts,
           NEW s \in Listening(h, c) \ X, NEW k, k = CutListening(h, c, s)
    PROVE  Removed(k, h, s) /\ ContextsAs(k, h)
<1>1. PICK n, p : n = h.next[s] /\ p = h.prev[s]
  OBVIOUS
<1>2. s \in Sockets /\ Null \notin Sockets /\ s # Null /\ h.ctx[s] = c
  BY AddressesDiffer DEF Listening
<1>3. /\ n \in SocketPtr /\ p \in SocketPtr /\ n # s /\ p # s
      /\ p = n => n = Null
  <2>1. Listening(h, c) \ X \in SUBSET Sockets
    BY DEF Listening
  <2>2. Threaded(h.next, h.prev, Listening(h, c) \ X, h.lhead[c], r) /\ r \in [Sockets -> Int]
    BY DEF Lists
  <2>3. PICK nx, pv, S, q : nx = h.next /\ pv = h.prev /\ S = Listening(h, c) \ X /\ q = h.lhead[c]
    OBVIOUS
  <2>4. S \in SUBSET Sockets /\ Threaded(nx, pv, S, q, r) /\ s \in S
    BY <2>1, <2>2, <2>3
  <2>5. r \in [Sockets -> Int] /\ Null \notin Sockets
    BY <1>2, <2>2
  <2>6. Beside(nx, pv, S, q, s)
    BY <2>4, <2>5, Neighbours
  <2> QED BY <1>1, <2>3, <2>4, <2>6 DEF SocketPtr, Beside
<1>4. \A d \in Contexts : h.iter[d] = s => FALSE
  BY <1>2 DEF Lists, Regular, Listening
<1>5. PICK f : f = StepIterator(h, c, s)
  OBVIOUS
<1>6. /\ f \in Heap /\ SameBut(f, h, {"iter"})
      /\ \A d \in Contexts : f.iter[d] = IF h.iter[d] = s THEN n ELSE h.iter[d]
  BY <1>1, <1>2, <1>4, <1>5, StepIteratorFields
<1>7. PICK g : g = IF p \in Sockets THEN SetNext(f, p, n) ELSE [f EXCEPT !.lhead[c] = n]
  OBVIOUS
<1>8. /\ g \in Heap /\ SameBut(g, f, {"next", "lhead"})
      /\ \A t \in Sockets : g.next[t] = IF t = p THEN n ELSE f.next[t]
      /\ \A d \in Contexts : g.lhead[d] = IF d = c /\ p = Null THEN n ELSE f.lhead[d]
  <2>1. CASE p \in Sockets
    <3>1. g = SetNext(f, p, n)
      BY <1>7, <2>1
    <3>2. /\ g \in Heap /\ SameBut(g, f, {"next"})
          /\ \A t \in Sockets : g.next[t] = IF t = p THEN n ELSE f.next[t]
      BY <1>3, <1>6, <3>1, SetNextFields
    <3>3. g.lhead = f.lhead
      BY <3>2 DEF SameBut, Fields
    <3>4. SameBut(g, f, {"next", "lhead"})
      BY <3>2 DEF SameBut
    <3> QED BY <1>2, <2>1, <3>2, <3>3, <3>4
  <2>2. CASE p \notin Sockets
    <3>1. g = [f EXCEPT !.lhead[c] = n] /\ p = Null
      BY <1>3, <1>7, <2>2 DEF SocketPtr
    <3>2. g \in Heap
      BY <1>3, <1>6, <3>1, PutContext
    <3>3. SameBut(g, f, {"lhead"})
      BY <1>6, <3>1, HeapFields DEF SameBut
    <3>4. g.next = f.next
      BY <3>3 DEF SameBut, Fields
    <3>5. \A d \in Contexts : g.lhead[d] = IF d = c THEN n ELSE f.lhead[d]
      BY <1>6, <3>1 DEF Heap
    <3>6. SameBut(g, f, {"next", "lhead"})
      BY <3>3 DEF SameBut
    <3> QED BY <1>2, <3>1, <3>2, <3>4, <3>5, <3>6
  <2> QED BY <2>1, <2>2
<1>9. k = IF p = n THEN [f EXCEPT !.lhead[c] = Null] ELSE SetPrev(g, n, p)
  BY <1>1, <1>5, <1>7 DEF CutListening
<1>10. /\ k \in Heap /\ SameBut(k, g, {"prev"})
       /\ \A t \in Sockets : k.prev[t] = IF t = n THEN p ELSE g.prev[t]
  <2>1. CASE p = n
    <3>1. n = Null /\ p = Null /\ p \notin Sockets
      BY <1>2, <1>3, <2>1
    <3>2. k = g
      BY <1>7, <1>9, <2>1, <3>1
    <3> QED BY <1>2, <1>8, <3>1, <3>2 DEF SameBut
  <2>2. CASE p # n
    <3>1. k = SetPrev(g, n, p)
      BY <1>9, <2>2
    <3> QED BY <1>3, <1>8, <3>1, SetPrevFields
  <2> QED BY <2>1, <2>2
<1>11. SameBut(k, h, {"prev", "next", "lhead", "iter"})
  BY <1>6, <1>8, <1>10 DEF SameBut
<1>12. /\ k.next = g.next /\ g.prev = h.prev /\ f.next = h.next /\ k.iter = f.iter
       /\ k.lhead = g.lhead /\ f.lhead = h.lhead
       /\ k.low = h.low /\ k.lowHead = h.lowHead /\ k.head = h.head
  BY <1>6, <1>8, <1>10, <1>11 DEF SameBut, Fields
<1>13. \A d \in Contexts : /\ s \in Listening(h, d) <=> d = c
                           /\ s \notin Regular(h, d)
  BY <1>2 DEF Regular, Listening
<1>14. k.next[s] = h.next[s]
  BY <1>2, <1>3, <1>8, <1>12
<1>15. SameBut(k, h, ContextFields \cup {"prev", "next", "low", "head", "lhead", "lowHead", "iter"})
  BY <1>11 DEF SameBut
<1>16. ASSUME NEW t \in Sockets \ {s}
       PROVE  /\ k.next[t] = IF t = h.prev[s] THEN h.next[s] ELSE h.next[t]
              /\ k.prev[t] = IF t = h.next[s] THEN h.prev[s] ELSE h.prev[t]
              /\ k.low[t] = h.low[t]
  <2>1. k.next[t] = IF t = p THEN n ELSE h.next[t]
    BY <1>1, <1>8, <1>10, <1>12
  <2>2. k.prev[t] = IF t = n THEN p ELSE h.prev[t]
    BY <1>1, <1>8, <1>10, <1>12
  <2>3. k.low[t] = h.low[t]
    BY <1>1, <1>8, <1>10, <1>12
  <2> QED BY <1>1, <2>1, <2>2, <2>3
<1>17. \A d \in Contexts :
          /\ k.iter[d] = IF h.iter[d] = s THEN h.next[s] ELSE h.iter[d]
          /\ k.lhead[d] = IF s \in Listening(h, d) /\ h.prev[s] = Null THEN h.next[s] ELSE h.lhead[d]
          /\ k.head[d] = IF s \in Regular(h, d) /\ h.prev[s] = Null
                          THEN h.next[s] ELSE h.head[d]
  BY <1>1, <1>6, <1>8, <1>12, <1>13
<1>18. k.lowHead = IF s \in Queued(h) /\ h.prev[s] = Null THEN h.next[s] ELSE h.lowHead
  <2>1. s \notin Queued(h)
    BY DEF Regular, Listening, Queued
  <2> QED BY <1>12, <2>1
<1>19. Removed(k, h, s)
  BY <1>10, <1>18, <1>14, <1>15, <1>16, <1>17 DEF Removed
<1>20. ContextsAs(k, h)
  BY <1>11 DEF ContextsAs, SameBut, Fields, ContextFields
<1> QED BY <1>19, <1>20

\* ... and a socket that waits in the queue.
LEMMA CutQueuedRemoved ==
    ASSUME NEW h \in Heap, NEW X, NEW r, Lists(h, X, r),
           NEW s \in Queued(h) \ X, NEW k, k = CutQueued(h, s)
    PROVE  Removed(k, h, s) /\ ContextsAs(k, h) /\ k.low[s] = 0
<1>1. PICK n, p : n = h.next[s] /\ p = h.prev[s]
  OBVIOUS
<1>2. s \in Sockets /\ Null \notin Sockets /\ s # Null
  BY AddressesDiffer DEF Queued
<1>3. /\ n \in SocketPtr /\ p \in SocketPtr /\ n # s /\ p # s
      /\ p = n => n = Null
  <2>1. Queued(h) \ X \in SUBSET Sockets
    BY DEF Queued
  <2>2. Threaded(h.next, h.prev, Queued(h) \ X, h.lowHead, r) /\ r \in [Sockets -> Int]
    BY DEF Lists
  <2>3. PICK nx, pv, S, q : nx = h.next /\ pv = h.prev /\ S = Queued(h) \ X /\ q = h.lowHead
    OBVIOUS
  <2>4. S \in SUBSET Sockets /\ Threaded(nx, pv, S, q, r) /\ s \in S
    BY <2>1, <2>2, <2>3
  <2>5. r \in [Sockets -> Int] /\ Null \notin Sockets
    BY <1>2, <2>2
  <2>6. Beside(nx, pv, S, q, s)
    BY <2>4, <2>5, Neighbours
  <2> QED BY <1>1, <2>3, <2>4, <2>6 DEF SocketPtr, Beside
<1>4. \A d \in Contexts : h.iter[d] # s
  BY <1>2 DEF Lists, Regular, Queued
<1>5. PICK f : f = IF p \in Sockets THEN SetNext(h, p, n) ELSE [h EXCEPT !.lowHead = n]
  OBVIOUS
<1>6. /\ f \in Heap /\ SameBut(f, h, {"next", "lowHead"})
      /\ \A t \in Sockets : f.next[t] = IF t = p THEN n ELSE h.next[t]
      /\ f.lowHead = IF p = Null THEN n ELSE h.lowHead
  <2>1. CASE p \in Sockets
    <3>1. f = SetNext(h, p, n)
      BY <1>5, <2>1
    <3>2. /\ f \in Heap /\ SameBut(f, h, {"next"})
          /\ \A t \in Sockets : f.next[t] = IF t = p THEN n ELSE h.next[t]
      BY <1>3, <3>1, SetNextFields
    <3>3. f.lowHead = h.lowHead
      BY <3>2 DEF SameBut, Fields
    <3>4. SameBut(f, h, {"next", "lowHead"})
      BY <3>2 DEF SameBut
    <3> QED BY <1>2, <2>1, <3>2, <3>3, <3>4
  <2>2. CASE p \notin Sockets
    <3>1. f = [h EXCEPT !.lowHead = n] /\ p = Null
      BY <1>3, <1>5, <2>2 DEF SocketPtr
    <3>2. f \in Heap
      BY <1>3, <3>1, PutSocket
    <3>3. SameBut(f, h, {"lowHead"})
      BY <3>1, HeapFields DEF SameBut
    <3>4. f.next = h.next /\ f.lowHead = n
      BY <3>1 DEF Heap
    <3>5. SameBut(f, h, {"next", "lowHead"})
      BY <3>3 DEF SameBut
    <3> QED BY <1>2, <3>1, <3>2, <3>4, <3>5
  <2> QED BY <2>1, <2>2
<1>7. PICK g : g = SetPrev(f, n, p)
  OBVIOUS
<1>8. /\ g \in Heap /\ SameBut(g, f, {"prev"})
      /\ \A t \in Sockets : g.prev[t] = IF t = n THEN p ELSE f.prev[t]
  BY <1>3, <1>6, <1>7, SetPrevFields
<1>9. k = [g EXCEPT !.prev[s] = Null, !.next[s] = Null, !.low[s] = 0]
  BY <1>1, <1>5, <1>7 DEF CutQueued
<1>10. /\ k \in Heap /\ SameBut(k, g, {"prev", "next", "low"})
       /\ \A t \in Sockets : t # s => k.prev[t] = g.prev[t] /\ k.next[t] = g.next[t]
                                                           /\ k.low[t] = g.low[t]
       /\ k.prev[s] = Null /\ k.next[s] = Null /\ k.low[s] = 0
  <2>1. PICK u : u = [g EXCEPT !.prev[s] = Null]
    OBVIOUS
  <2>2. PICK v : v = [u EXCEPT !.next[s] = Null]
    OBVIOUS
  <2>3. k = [v EXCEPT !.low[s] = 0]
    BY <1>8, <1>9, <2>1, <2>2 DEF Heap
  <2>4. u \in Heap
    BY <1>2, <1>8, <2>1, PutSocket DEF SocketPtr
  <2>5. v \in Heap
    BY <1>2, <2>4, <2>2, PutSocket DEF SocketPtr
  <2>6. k \in Heap
    <3>1. 0 \in 0..2
      OBVIOUS
    <3>2. [v EXCEPT !.low[s] = 0] \in Heap
      BY <1>2, <2>5, <3>1, PutSocket
    <3> QED BY <2>3, <3>2
  <2>7. SameBut(k, g, {"prev", "next", "low"})
    BY <1>8, <1>9, HeapFields DEF SameBut
  <2>8. /\ k.prev = [g.prev EXCEPT ![s] = Null] /\ k.next = [g.next EXCEPT ![s] = Null]
        /\ k.low = [g.low EXCEPT ![s] = 0]
    BY <1>8, <1>9 DEF Heap
  <2>9. DOMAIN g.prev = Sockets /\ DOMAIN g.next = Sockets /\ DOMAIN g.low = Sockets
    BY <1>8 DEF Heap
  <2> QED BY <1>2, <2>6, <2>7, <2>8, <2>9
<1>11. SameBut(k, h, {"prev", "next", "low", "lowHead"})
  BY <1>6, <1>8, <1>10 DEF SameBut
<1>12. /\ g.next = f.next /\ f.prev = h.prev /\ g.low = h.low
       /\ k.lowHead = f.lowHead /\ k.iter = h.iter /\ k.head = h.head /\ k.lhead = h.lhead
  BY <1>6, <1>8, <1>10 DEF SameBut, Fields
<1>13. \A d \in Contexts : s \notin Regular(h, d) /\ s \notin Listening(h, d)
  BY DEF Regular, Listening, Queued
<1>14. SameBut(k, h, ContextFields \cup {"prev", "next", "low", "head", "lhead", "lowHead", "iter"})
  BY <1>11 DEF SameBut
<1>15. ASSUME NEW t \in Sockets \ {s}
       PROVE  /\ k.next[t] = IF t = h.prev[s] THEN h.next[s] ELSE h.next[t]
              /\ k.prev[t] = IF t = h.next[s] THEN h.prev[s] ELSE h.prev[t]
              /\ k.low[t] = h.low[t]
  <2>1. k.next[t] = IF t = p THEN n ELSE h.next[t]
    BY <1>1, <1>6, <1>8, <1>10, <1>12
  <2>2. k.prev[t] = IF t = n THEN p ELSE h.prev[t]
    BY <1>1, <1>6, <1>8, <1>10, <1>12
  <2>3. k.low[t] = h.low[t]
    BY <1>1, <1>6, <1>8, <1>10, <1>12
  <2> QED BY <1>1, <2>1, <2>2, <2>3
<1>16. \A d \in Contexts :
          /\ k.iter[d] = IF h.iter[d] = s THEN h.next[s] ELSE h.iter[d]
          /\ k.head[d] = IF s \in Regular(h, d) /\ h.prev[s] = Null THEN h.next[s] ELSE h.head[d]
          /\ k.lhead[d] = IF s \in Listening(h, d) /\ h.prev[s] = Null
                          THEN h.next[s] ELSE h.lhead[d]
  BY <1>4, <1>12, <1>13
<1>17. k.lowHead = IF s \in Queued(h) /\ h.prev[s] = Null THEN h.next[s] ELSE h.lowHead
  BY <1>1, <1>6, <1>12
<1>19. Removed(k, h, s)
  BY <1>10, <1>14, <1>15, <1>16, <1>17 DEF Removed
<1>20. ContextsAs(k, h)
  BY <1>11 DEF ContextsAs, SameBut, Fields, ContextFields
<1> QED BY <1>10, <1>19, <1>20

\* A list that s is not on does not see its neighbours.
LEMMA Apart ==
    ASSUME NEW T, Null \notin T, NEW nx, NEW pv, NEW p, NEW r, Threaded(nx, pv, T, p, r),
           NEW s, s # Null, s \notin T, NEW S, NEW q, Beside(nx, pv, S, q, s)
    PROVE  pv[s] \notin T /\ nx[s] \notin T
<1>1. \A x \in T : (nx[x] # Null => nx[x] \in T) /\ (pv[x] # Null => pv[x] \in T) /\ x # Null
  BY DEF Threaded, Ordered, Backed
<1>2. (pv[s] # Null => nx[pv[s]] = s) /\ (nx[s] # Null => pv[nx[s]] = s)
  BY DEF Beside
<1> QED BY <1>1, <1>2

\* An open socket outside X stands between its neighbours on one list.
LEMMA ListedBeside ==
    ASSUME NEW h \in Heap, NEW X, NEW r, Lists(h, X, r), NEW s \in Sockets, s \notin X, Open(h, s),
           h.ctx[s] \in Contexts
    PROVE  \E S, q : /\ S \in SUBSET Sockets
                     /\ Beside(h.next, h.prev, S, q, s)
                     /\ \A x \in S : Open(h, x)
<1>0. Null \notin Sockets /\ r \in [Sockets -> Int]
  BY AddressesDiffer DEF Lists
<1>1. PICK nx, pv, c : nx = h.next /\ pv = h.prev /\ c = h.ctx[s]
  OBVIOUS
<1>2. ASSUME NEW S \in SUBSET Sockets, NEW q, s \in S, \A x \in S : Open(h, x),
             Threaded(nx, pv, S, q, r)
      PROVE  Beside(h.next, h.prev, S, q, s)
  <2>1. Beside(nx, pv, S, q, s)
    BY <1>0, <1>2, Neighbours
  <2> QED BY <1>1, <2>1
<1>3. CASE h.type[s] = "listen"
  <2>1. PICK S, q : S = Listening(h, c) \ X /\ q = h.lhead[c]
    OBVIOUS
  <2>2. S \in SUBSET Sockets /\ s \in S /\ \A x \in S : Open(h, x)
    BY <1>1, <1>3, <2>1 DEF Listening
  <2>3. Threaded(nx, pv, S, q, r)
    BY <1>1, <2>1 DEF Lists
  <2> QED BY <1>2, <2>2, <2>3
<1>4. CASE h.type[s] # "listen" /\ h.low[s] # 1
  <2>1. PICK S, q : S = Regular(h, c) \ X /\ q = h.head[c]
    OBVIOUS
  <2>2. S \in SUBSET Sockets /\ s \in S /\ \A x \in S : Open(h, x)
    BY <1>1, <1>4, <2>1 DEF Regular
  <2>3. Threaded(nx, pv, S, q, r)
    BY <1>1, <2>1 DEF Lists
  <2> QED BY <1>2, <2>2, <2>3
<1>5. CASE h.type[s] # "listen" /\ h.low[s] = 1
  <2>1. PICK S, q : S = Queued(h) \ X /\ q = h.lowHead
    OBVIOUS
  <2>2. S \in SUBSET Sockets /\ s \in S /\ \A x \in S : Open(h, x)
    BY <1>1, <1>5, <2>1 DEF Queued
  <2>3. Threaded(nx, pv, S, q, r)
    BY <1>1, <2>1 DEF Lists
  <2> QED BY <1>2, <2>2, <2>3
<1> QED BY <1>3, <1>4, <1>5

\* The other sockets stay open or closed.
LEMMA RemovedOthers ==
    ASSUME NEW h, Sound(h), NEW X, NEW r, Lists(h, X, r), NEW s \in Sockets, s \notin X,
           Open(h, s), NEW g, Removed(g, h, s)
    PROVE  /\ g.type = h.type /\ g.ctx = h.ctx
           /\ \A t \in Sockets \ {s} : /\ IsClosed(g, t) <=> IsClosed(h, t)
                                       /\ Open(g, t) <=> Open(h, t)
                                       /\ g.low[t] = h.low[t]
           /\ \A c \in Contexts : /\ Regular(g, c) \ (X \cup {s}) = (Regular(h, c) \ X) \ {s}
                                  /\ Listening(g, c) \ (X \cup {s}) = (Listening(h, c) \ X) \ {s}
           /\ Queued(g) \ (X \cup {s}) = (Queued(h) \ X) \ {s}
           /\ Dead(g) \ (X \cup {s}) = Dead(h) \ X
<1>1. g.type = h.type /\ g.ctx = h.ctx
  BY DEF Removed, SameBut, Fields, ContextFields
<1>2. h \in Heap /\ h.ctx[s] \in Contexts
  BY DEF Sound, Open
<1>3. PICK S, q : /\ S \in SUBSET Sockets
                  /\ Beside(h.next, h.prev, S, q, s)
                  /\ \A x \in S : Open(h, x)
  BY <1>2, ListedBeside
<1>4. /\ h.prev[s] \in SocketPtr /\ h.next[s] \in SocketPtr
      /\ h.next[s] # Null => Open(h, h.next[s]) /\ h.next[s] \in Sockets /\ h.prev[h.next[s]] = s
  BY <1>3 DEF Beside, SocketPtr
<1>5. ASSUME NEW t \in Sockets \ {s}
      PROVE  IsClosed(g, t) <=> IsClosed(h, t)
  <2>1. g.prev[t] = IF t = h.next[s] THEN h.prev[s] ELSE h.prev[t]
    BY DEF Removed
  <2>2. CASE t = h.next[s]
    <3>1. h.ctx[t] \in Contexts /\ ~IsClosed(h, t)
      BY <1>4, <2>2, AddressesDiffer DEF Open, Sound
    <3>2. g.prev[t] \in SocketPtr
      BY <1>4, <2>1, <2>2
    <3>3. g.prev[t] # h.ctx[t]
      BY <3>1, <3>2, AddressesDiffer DEF SocketPtr
    <3> QED BY <1>1, <3>1, <3>3 DEF IsClosed
  <2>3. CASE t # h.next[s]
    BY <1>1, <2>1, <2>3 DEF IsClosed
  <2> QED BY <2>2, <2>3
<1>6. \A t \in Sockets \ {s} : g.low[t] = h.low[t] /\ (Open(g, t) <=> Open(h, t))
  BY <1>1, <1>5 DEF Removed, Open
<1>7. ASSUME NEW c \in Contexts
      PROVE  /\ Regular(g, c) \ (X \cup {s}) = (Regular(h, c) \ X) \ {s}
             /\ Listening(g, c) \ (X \cup {s}) = (Listening(h, c) \ X) \ {s}
  BY <1>1, <1>6 DEF Regular, Listening
<1>8. Queued(g) \ (X \cup {s}) = (Queued(h) \ X) \ {s}
  BY <1>1, <1>6 DEF Queued
<1>9. Dead(g) \ (X \cup {s}) = Dead(h) \ X
  <2>1. s \notin Dead(h)
    BY DEF Dead, Open
  <2> QED BY <1>1, <1>5, <2>1 DEF Dead
<1> QED BY <1>1, <1>5, <1>6, <1>7, <1>8, <1>9

\* A socket taken out leaves every other list as it was, and is on none.
LEMMA RemovedLists ==
    ASSUME NEW h, Sound(h), NEW X, NEW r, Lists(h, X, r), NEW s \in Sockets, s \notin X,
           Open(h, s), NEW g, Removed(g, h, s)
    PROVE  Lists(g, X \cup {s}, r)
<1>0. /\ h \in Heap /\ h.ctx[s] \in Contexts /\ r \in [Sockets -> Int]
      /\ Null \notin Sockets /\ s # Null
  BY AddressesDiffer DEF Sound, Open, Lists
<1>1. PICK S, q : /\ S \in SUBSET Sockets
                  /\ Beside(h.next, h.prev, S, q, s)
                  /\ \A x \in S : Open(h, x)
  BY <1>0, ListedBeside
<1>2. PICK nx, pv, mx, qv : nx = h.next /\ pv = h.prev /\ mx = g.next /\ qv = g.prev
  OBVIOUS
<1>3. \A t \in Sockets \ {s} : /\ mx[t] = IF t = pv[s] THEN nx[s] ELSE nx[t]
                               /\ qv[t] = IF t = nx[s] THEN pv[s] ELSE pv[t]
  BY <1>2 DEF Removed
<1>4. ASSUME NEW T \in SUBSET Sockets, NEW p, Threaded(nx, pv, T, p, r)
      PROVE  /\ s \in T => Threaded(mx, qv, T \ {s}, IF pv[s] = Null THEN nx[s] ELSE p, r)
             /\ s \notin T => Threaded(mx, qv, T \ {s}, p, r)
  <2>1. ASSUME s \in T
        PROVE  Threaded(mx, qv, T \ {s}, IF pv[s] = Null THEN nx[s] ELSE p, r)
    <3>1. Bypassed(mx, qv, nx, pv, T, s)
      BY <1>3 DEF Bypassed
    <3>2. PICK hd : hd = IF pv[s] = Null THEN nx[s] ELSE p
      OBVIOUS
    <3>3. Threaded(mx, qv, T \ {s}, hd, r)
      BY <1>0, <1>4, <2>1, <3>1, <3>2, ThreadedCut
    <3> QED BY <3>2, <3>3
  <2>2. ASSUME s \notin T
        PROVE  Threaded(mx, qv, T \ {s}, p, r)
    <3>1. pv[s] \notin T /\ nx[s] \notin T
      BY <1>0, <1>1, <1>2, <1>4, <2>2, Apart
    <3>2. \A x \in T : mx[x] = nx[x] /\ qv[x] = pv[x] /\ r[x] = r[x]
      BY <1>3, <2>2, <3>1
    <3>3. T \ {s} = T
      BY <2>2
    <3> QED BY <1>4, <3>2, <3>3, ThreadedFrame
  <2> QED BY <2>1, <2>2
<1>5. ASSUME NEW c \in Contexts
      PROVE  /\ Threaded(mx, qv, Regular(g, c) \ (X \cup {s}), g.head[c], r)
             /\ Threaded(mx, qv, Listening(g, c) \ (X \cup {s}), g.lhead[c], r)
             /\ g.iter[c] # Null => g.iter[c] \in Regular(g, c) \ (X \cup {s})
  <2>1. PICK T, V : T = Regular(h, c) \ X /\ V = Listening(h, c) \ X
    OBVIOUS
  <2>2. T \in SUBSET Sockets /\ V \in SUBSET Sockets
    BY <2>1 DEF Regular, Listening
  <2>3. Threaded(nx, pv, T, h.head[c], r) /\ Threaded(nx, pv, V, h.lhead[c], r)
    BY <1>2, <2>1 DEF Lists
  <2>4. /\ Regular(g, c) \ (X \cup {s}) = T \ {s} /\ Listening(g, c) \ (X \cup {s}) = V \ {s}
    BY <2>1, RemovedOthers
  <2>5. /\ g.head[c] = IF s \in T /\ pv[s] = Null THEN nx[s] ELSE h.head[c]
        /\ g.lhead[c] = IF s \in V /\ pv[s] = Null THEN nx[s] ELSE h.lhead[c]
        /\ g.iter[c] = IF h.iter[c] = s THEN nx[s] ELSE h.iter[c]
    BY <1>2, <2>1 DEF Removed
  <2>6. /\ s \in T => Threaded(mx, qv, T \ {s}, IF pv[s] = Null THEN nx[s] ELSE h.head[c], r)
        /\ s \notin T => Threaded(mx, qv, T \ {s}, h.head[c], r)
    BY <1>4, <2>2, <2>3
  <2>7. /\ s \in V => Threaded(mx, qv, V \ {s}, IF pv[s] = Null THEN nx[s] ELSE h.lhead[c], r)
        /\ s \notin V => Threaded(mx, qv, V \ {s}, h.lhead[c], r)
    BY <1>4, <2>2, <2>3
  <2>8. g.iter[c] # Null => g.iter[c] \in T \ {s}
    <3>1. h.iter[c] # Null => h.iter[c] \in T
      BY <2>1 DEF Lists
    <3>2. s \in T => (nx[s] # Null => nx[s] \in T)
      BY <2>3 DEF Threaded, Ordered
    <3>3. nx[s] # s
      BY <1>1, <1>2 DEF Beside
    <3> QED BY <1>0, <2>5, <3>1, <3>2, <3>3
  <2>9. Threaded(mx, qv, T \ {s}, g.head[c], r)
    BY <2>5, <2>6
  <2>10. Threaded(mx, qv, V \ {s}, g.lhead[c], r)
    BY <2>5, <2>7
  <2> QED BY <2>4, <2>8, <2>9, <2>10
<1>6. Threaded(mx, qv, Queued(g) \ (X \cup {s}), g.lowHead, r)
  <2>1. PICK T : T = Queued(h) \ X
    OBVIOUS
  <2>2. T \in SUBSET Sockets
    BY <2>1 DEF Queued
  <2>3. Threaded(nx, pv, T, h.lowHead, r)
    BY <1>2, <2>1 DEF Lists
  <2>4. Queued(g) \ (X \cup {s}) = T \ {s}
    BY <2>1, RemovedOthers
  <2>5. g.lowHead = IF s \in T /\ pv[s] = Null THEN nx[s] ELSE h.lowHead
    BY <1>2, <2>1 DEF Removed
  <2>6. /\ s \in T => Threaded(mx, qv, T \ {s}, IF pv[s] = Null THEN nx[s] ELSE h.lowHead, r)
        /\ s \notin T => Threaded(mx, qv, T \ {s}, h.lowHead, r)
    BY <1>4, <2>2, <2>3
  <2>7. Threaded(mx, qv, T \ {s}, g.lowHead, r)
    BY <2>5, <2>6
  <2> QED BY <2>4, <2>7
<1>7. Ordered(mx, Dead(g) \ (X \cup {s}), g.closed, r)
  <2>1. PICK T : T = Dead(h) \ X
    OBVIOUS
  <2>2. Dead(g) \ (X \cup {s}) = T
    BY <2>1, RemovedOthers
  <2>3. g.closed = h.closed
    BY DEF Removed, SameBut, Fields, ContextFields
  <2>4. Ordered(nx, T, h.closed, r)
    BY <1>2, <2>1 DEF Lists
  <2>5. \A x \in T : x \in Sockets /\ ~Open(h, x) /\ x # s
    BY <2>1 DEF Dead, Open
  <2>6. pv[s] \notin T
    BY <1>0, <1>1, <1>2, <2>5 DEF Beside
  <2>7. \A x \in T : mx[x] = nx[x] /\ r[x] = r[x]
    BY <1>3, <2>5, <2>6
  <2>8. Ordered(mx, T, h.closed, r)
    BY <2>4, <2>7, OrderedFrame
  <2> QED BY <2>2, <2>3, <2>8
<1> QED BY <1>0, <1>2, <1>5, <1>6, <1>7 DEF Lists

-----------------------------------------------------------------------------
(* A socket that is on no list, and linking it again.                      *)

\* The heaps differ in nothing a list is made of but the fields of s.
OffSame(g, h, s) ==
    /\ \A t \in Sockets \ {s} :
          /\ g.type[t] = h.type[t] /\ g.ctx[t] = h.ctx[t] /\ g.prev[t] = h.prev[t]
          /\ g.next[t] = h.next[t] /\ g.low[t] = h.low[t]
    /\ g.head = h.head /\ g.lhead = h.lhead /\ g.lowHead = h.lowHead
    /\ g.closed = h.closed /\ g.iter = h.iter

\* A socket that is on no list may change in any way.
LEMMA ListsOff ==
    ASSUME NEW h, NEW X, NEW r, Lists(h, X, r), NEW s \in X, NEW g, OffSame(g, h, s)
    PROVE  Lists(g, X, r)
<1>1. PICK nx, pv, mx, qv : nx = h.next /\ pv = h.prev /\ mx = g.next /\ qv = g.prev
  OBVIOUS
<1>2. /\ \A c : /\ Regular(g, c) \ X = Regular(h, c) \ X
                /\ Listening(g, c) \ X = Listening(h, c) \ X
      /\ Queued(g) \ X = Queued(h) \ X /\ Dead(g) \ X = Dead(h) \ X
  BY DEF OffSame, Regular, Listening, Queued, Dead, Open, IsClosed
<1>3. ASSUME NEW T \in SUBSET Sockets, s \notin T, NEW p
      PROVE  /\ Threaded(nx, pv, T, p, r) => Threaded(mx, qv, T, p, r)
             /\ Ordered(nx, T, p, r) => Ordered(mx, T, p, r)
  <2>1. \A x \in T : mx[x] = nx[x] /\ qv[x] = pv[x] /\ r[x] = r[x]
    BY <1>1, <1>3 DEF OffSame
  <2> QED BY <2>1, ThreadedFrame, OrderedFrame
<1>4. ASSUME NEW c \in Contexts
      PROVE  /\ Threaded(mx, qv, Regular(g, c) \ X, g.head[c], r)
             /\ Threaded(mx, qv, Listening(g, c) \ X, g.lhead[c], r)
             /\ g.iter[c] # Null => g.iter[c] \in Regular(g, c) \ X
  <2>1. PICK T, V : T = Regular(h, c) \ X /\ V = Listening(h, c) \ X
    OBVIOUS
  <2>2. T \in SUBSET Sockets /\ V \in SUBSET Sockets /\ s \notin T /\ s \notin V
    BY <2>1 DEF Regular, Listening
  <2>3. /\ Threaded(nx, pv, T, h.head[c], r) /\ Threaded(nx, pv, V, h.lhead[c], r)
        /\ h.iter[c] # Null => h.iter[c] \in T
    BY <1>1, <2>1 DEF Lists
  <2>4. Threaded(mx, qv, T, h.head[c], r) /\ Threaded(mx, qv, V, h.lhead[c], r)
    BY <1>3, <2>2, <2>3
  <2>5. g.head = h.head /\ g.lhead = h.lhead /\ g.iter = h.iter
    BY DEF OffSame
  <2>6. Regular(g, c) \ X = T /\ Listening(g, c) \ X = V
    BY <1>2, <2>1
  <2> QED BY <2>3, <2>4, <2>5, <2>6
<1>5. Threaded(mx, qv, Queued(g) \ X, g.lowHead, r) /\ Ordered(mx, Dead(g) \ X, g.closed, r)
  <2>1. PICK T, V : T = Queued(h) \ X /\ V = Dead(h) \ X
    OBVIOUS
  <2>2. T \in SUBSET Sockets /\ V \in SUBSET Sockets /\ s \notin T /\ s \notin V
    BY <2>1 DEF Queued, Dead
  <2>3. Threaded(nx, pv, T, h.lowHead, r) /\ Ordered(nx, V, h.closed, r)
    BY <1>1, <2>1 DEF Lists
  <2>4. Threaded(mx, qv, T, h.lowHead, r) /\ Ordered(mx, V, h.closed, r)
    BY <1>3, <2>2, <2>3
  <2>5. g.lowHead = h.lowHead /\ g.closed = h.closed
    BY DEF OffSame
  <2> QED BY <1>2, <2>1, <2>4, <2>5
<1> QED BY <1>1, <1>4, <1>5 DEF Lists

\* s becomes the head of the list it now belongs to.
Added(g, h, s) ==
    /\ g \in Heap /\ Open(g, s) /\ g.ctx[s] \in Contexts /\ g.prev[s] = Null
    /\ g.closed = h.closed /\ g.iter = h.iter
    /\ \A t \in Sockets \ {s} :
          /\ g.type[t] = h.type[t] /\ g.ctx[t] = h.ctx[t]
          /\ g.next[t] = h.next[t] /\ g.low[t] = h.low[t]
          /\ g.prev[t] = IF t = g.next[s] THEN s ELSE h.prev[t]
    /\ \A c \in Contexts :
          /\ g.head[c]  = IF s \in Regular(g, c) THEN s ELSE h.head[c]
          /\ g.lhead[c] = IF s \in Listening(g, c) THEN s ELSE h.lhead[c]
          /\ s \in Regular(g, c) => g.next[s] = h.head[c]
          /\ s \in Listening(g, c) => g.next[s] = h.lhead[c]
    /\ g.lowHead = IF s \in Queued(g) THEN s ELSE h.lowHead
    /\ s \in Queued(g) => g.next[s] = h.lowHead

\* A rank below all others for s.
Reranked(q, r, s, m) ==
    m \in Int /\ (\A x \in Sockets : m < r[x]) /\ q = [r EXCEPT ![s] = m]

\* The successor of s was the head of a list, or there is none.
LEMMA AddedNext ==
    ASSUME NEW h, NEW X, NEW r, Lists(h, X, r), NEW s \in X, s \in Sockets,
           NEW g, Added(g, h, s)
    PROVE  /\ g.next[s] # s
           /\ g.next[s] # Null => g.next[s] \in Sockets \ X /\ Open(h, g.next[s])
           /\ \A c \in Contexts :
                /\ s \notin Regular(g, c) => g.next[s] \notin Regular(h, c) \ X
                /\ s \notin Listening(g, c) => g.next[s] \notin Listening(h, c) \ X
                /\ s \in Regular(g, c) => g.next[s] \in (Regular(h, c) \ X) \cup {Null}
                /\ s \in Listening(g, c) => g.next[s] \in (Listening(h, c) \ X) \cup {Null}
           /\ s \notin Queued(g) => g.next[s] \notin Queued(h) \ X
           /\ s \in Queued(g) => g.next[s] \in (Queued(h) \ X) \cup {Null}
<1>0. Null \notin Sockets /\ s # Null
  BY AddressesDiffer
<1>1. \A c \in Contexts : /\ h.head[c] \in (Regular(h, c) \ X) \cup {Null}
                          /\ h.lhead[c] \in (Listening(h, c) \ X) \cup {Null}
  BY DEF Lists, Threaded, Ordered
<1>2. h.lowHead \in (Queued(h) \ X) \cup {Null}
  BY DEF Lists, Threaded, Ordered
<1>3. PICK c \in Contexts : c = g.ctx[s]
  BY DEF Added
<1>4. PICK p : p = g.next[s]
  OBVIOUS
<1>5. CASE g.type[s] = "listen"
  <2>1. /\ s \in Listening(g, c) /\ (\A d \in Contexts : s \notin Regular(g, d)) /\ s \notin Queued(g)
        /\ \A d \in Contexts : s \in Listening(g, d) => d = c
    BY <1>3, <1>5 DEF Added, Listening, Regular, Queued
  <2>2. p \in (Listening(h, c) \ X) \cup {Null}
    BY <1>1, <1>4, <2>1 DEF Added
  <2>3. /\ (\A d \in Contexts : p \notin Regular(h, d)) /\ p \notin Queued(h)
        /\ (\A d \in Contexts : p \in Listening(h, d) => d = c)
        /\ p # Null => p \in Sockets \ X /\ Open(h, p)
    BY <1>0, <2>2 DEF Listening, Regular, Queued
  <2> QED BY <1>0, <1>4, <2>1, <2>2, <2>3
<1>6. CASE g.type[s] # "listen" /\ g.low[s] # 1
  <2>1. /\ s \in Regular(g, c) /\ (\A d \in Contexts : s \notin Listening(g, d)) /\ s \notin Queued(g)
        /\ \A d \in Contexts : s \in Regular(g, d) => d = c
    BY <1>3, <1>6 DEF Added, Listening, Regular, Queued
  <2>2. p \in (Regular(h, c) \ X) \cup {Null}
    BY <1>1, <1>4, <2>1 DEF Added
  <2>3. /\ (\A d \in Contexts : p \notin Listening(h, d)) /\ p \notin Queued(h)
        /\ (\A d \in Contexts : p \in Regular(h, d) => d = c)
        /\ p # Null => p \in Sockets \ X /\ Open(h, p)
    BY <1>0, <2>2 DEF Listening, Regular, Queued
  <2> QED BY <1>0, <1>4, <2>1, <2>2, <2>3
<1>7. CASE g.type[s] # "listen" /\ g.low[s] = 1
  <2>1. /\ s \in Queued(g)
        /\ \A d \in Contexts : s \notin Listening(g, d) /\ s \notin Regular(g, d)
    BY <1>3, <1>7 DEF Added, Listening, Regular, Queued
  <2>2. p \in (Queued(h) \ X) \cup {Null}
    BY <1>2, <1>4, <2>1 DEF Added
  <2>3. /\ \A d \in Contexts : p \notin Listening(h, d) /\ p \notin Regular(h, d)
        /\ p # Null => p \in Sockets \ X /\ Open(h, p)
    BY <1>0, <2>2 DEF Listening, Regular, Queued
  <2> QED BY <1>0, <1>4, <2>1, <2>2, <2>3
<1> QED BY <1>5, <1>6, <1>7

\* A socket that joins a list changes no other socket.
LEMMA AddedOthers ==
    ASSUME NEW h, NEW X, NEW r, Lists(h, X, r), NEW s \in X, s \in Sockets,
           \A t \in Sockets : Open(h, t) => h.ctx[t] \in Contexts \/ t = s,
           NEW g, Added(g, h, s)
    PROVE  /\ \A t \in Sockets \ {s} : /\ IsClosed(g, t) <=> IsClosed(h, t)
                                       /\ Open(g, t) <=> Open(h, t)
           /\ \A c \in Contexts :
                /\ Regular(g, c) \ (X \ {s}) =
                     (Regular(h, c) \ X) \cup (IF s \in Regular(g, c) THEN {s} ELSE {})
                /\ Listening(g, c) \ (X \ {s}) =
                     (Listening(h, c) \ X) \cup (IF s \in Listening(g, c) THEN {s} ELSE {})
           /\ Queued(g) \ (X \ {s}) =
                (Queued(h) \ X) \cup (IF s \in Queued(g) THEN {s} ELSE {})
           /\ Dead(g) \ (X \ {s}) = Dead(h) \ X
<1>1. \A t \in Sockets \ {s} : /\ g.type[t] = h.type[t] /\ g.ctx[t] = h.ctx[t] /\ g.low[t] = h.low[t]
                               /\ g.prev[t] = IF t = g.next[s] THEN s ELSE h.prev[t]
  BY DEF Added
<1>2. g.next[s] # Null => g.next[s] \in Sockets \ X /\ Open(h, g.next[s])
  BY AddedNext
<1>3. ASSUME NEW t \in Sockets \ {s}
      PROVE  (IsClosed(g, t) <=> IsClosed(h, t)) /\ (Open(g, t) <=> Open(h, t))
  <2>1. CASE t = g.next[s]
    <3>1. Open(h, t) /\ h.ctx[t] \in Contexts
      BY <1>2, <2>1, AddressesDiffer
    <3>2. g.prev[t] = s /\ g.ctx[t] = h.ctx[t] /\ s \notin Contexts
      BY <1>1, <2>1, AddressesDiffer
    <3>3. ~IsClosed(g, t)
      BY <3>1, <3>2 DEF IsClosed
    <3> QED BY <1>1, <3>1, <3>3 DEF Open
  <2>2. CASE t # g.next[s]
    BY <1>1, <2>2 DEF Open, IsClosed
  <2> QED BY <2>1, <2>2
<1>4. ASSUME NEW c \in Contexts
      PROVE  /\ Regular(g, c) \ (X \ {s}) =
                  (Regular(h, c) \ X) \cup (IF s \in Regular(g, c) THEN {s} ELSE {})
             /\ Listening(g, c) \ (X \ {s}) =
                  (Listening(h, c) \ X) \cup (IF s \in Listening(g, c) THEN {s} ELSE {})
  <2>1. \A t \in Sockets \ {s} : /\ t \in Regular(g, c) <=> t \in Regular(h, c)
                                 /\ t \in Listening(g, c) <=> t \in Listening(h, c)
    BY <1>1, <1>3 DEF Regular, Listening
  <2>2. Regular(g, c) \subseteq Sockets /\ Regular(h, c) \subseteq Sockets
        /\ Listening(g, c) \subseteq Sockets /\ Listening(h, c) \subseteq Sockets
    BY DEF Regular, Listening
  <2> QED BY <2>1, <2>2
<1>5. Queued(g) \ (X \ {s}) = (Queued(h) \ X) \cup (IF s \in Queued(g) THEN {s} ELSE {})
  <2>1. \A t \in Sockets \ {s} : t \in Queued(g) <=> t \in Queued(h)
    BY <1>1, <1>3 DEF Queued
  <2>2. Queued(g) \subseteq Sockets /\ Queued(h) \subseteq Sockets
    BY DEF Queued
  <2> QED BY <2>1, <2>2
<1>6. Dead(g) \ (X \ {s}) = Dead(h) \ X
  <2>1. s \notin Dead(g)
    BY DEF Dead, Open, Added
  <2>2. \A t \in Sockets \ {s} : t \in Dead(g) <=> t \in Dead(h)
    BY <1>1, <1>3 DEF Dead
  <2>3. Dead(g) \subseteq Sockets /\ Dead(h) \subseteq Sockets
    BY DEF Dead
  <2> QED BY <2>1, <2>2, <2>3
<1> QED BY <1>3, <1>4, <1>5, <1>6

\* A socket that is on no list joins the one it belongs to.
LEMMA AddedLists ==
    ASSUME NEW h, NEW X, NEW r, Lists(h, X, r), NEW s \in X, s \in Sockets,
           \A t \in Sockets : Open(h, t) => h.ctx[t] \in Contexts \/ t = s,
           NEW g, Added(g, h, s), NEW q, NEW m, Reranked(q, r, s, m)
    PROVE  Lists(g, X \ {s}, q)
<1>0. r \in [Sockets -> Int] /\ q \in [Sockets -> Int] /\ Null \notin Sockets /\ s # Null
  BY AddressesDiffer DEF Lists, Reranked
<1>1. PICK nx, pv, mx, qv : nx = h.next /\ pv = h.prev /\ mx = g.next /\ qv = g.prev
  OBVIOUS
<1>2. /\ \A t \in Sockets \ {s} : mx[t] = nx[t] /\ qv[t] = IF t = mx[s] THEN s ELSE pv[t]
      /\ qv[s] = Null
  BY <1>1 DEF Added
<1>9. \A x \in Sockets \ {s} : q[x] = r[x]
  BY <1>0 DEF Reranked
<1>3. ASSUME NEW T \in SUBSET Sockets, s \notin T, NEW p, Threaded(nx, pv, T, p, r)
      PROVE  /\ mx[s] \notin T => Threaded(mx, qv, T, p, q)
             /\ mx[s] = p => Threaded(mx, qv, T \cup {s}, s, q)
  <2>1. ASSUME mx[s] \notin T PROVE Threaded(mx, qv, T, p, q)
    <3>1. \A x \in T : x \in Sockets \ {s} /\ x # mx[s]
      BY <1>3, <2>1
    <3>2. \A x \in T : mx[x] = nx[x] /\ qv[x] = pv[x]
      BY <1>2, <3>1
    <3>3. \A x \in T : mx[x] = nx[x] /\ qv[x] = pv[x] /\ q[x] = r[x]
      BY <1>9, <3>1, <3>2
    <3> QED BY <1>3, <3>3, ThreadedFrame
  <2>2. ASSUME mx[s] = p PROVE Threaded(mx, qv, T \cup {s}, s, q)
    <3>1. Prepended(mx, qv, nx, pv, T, p, s)
      BY <1>2, <1>3, <2>2 DEF Prepended
    <3>2. m \in Int /\ (\A x \in Sockets : m < r[x]) /\ q = [r EXCEPT ![s] = m]
      BY DEF Reranked
    <3> QED BY <1>0, <1>3, <3>1, <3>2, ThreadedPush
  <2> QED BY <2>1, <2>2
<1>4. ASSUME NEW c \in Contexts
      PROVE  /\ Threaded(mx, qv, Regular(g, c) \ (X \ {s}), g.head[c], q)
             /\ Threaded(mx, qv, Listening(g, c) \ (X \ {s}), g.lhead[c], q)
             /\ g.iter[c] # Null => g.iter[c] \in Regular(g, c) \ (X \ {s})
  <2>1. PICK T, V : T = Regular(h, c) \ X /\ V = Listening(h, c) \ X
    OBVIOUS
  <2>2. T \in SUBSET Sockets /\ V \in SUBSET Sockets /\ s \notin T /\ s \notin V
    BY <2>1 DEF Regular, Listening
  <2>3. /\ Threaded(nx, pv, T, h.head[c], r) /\ Threaded(nx, pv, V, h.lhead[c], r)
        /\ h.iter[c] # Null => h.iter[c] \in T
    BY <1>1, <2>1 DEF Lists
  <2>4. /\ Regular(g, c) \ (X \ {s}) = T \cup (IF s \in Regular(g, c) THEN {s} ELSE {})
        /\ Listening(g, c) \ (X \ {s}) = V \cup (IF s \in Listening(g, c) THEN {s} ELSE {})
    BY <2>1, AddedOthers
  <2>5. /\ s \notin Regular(g, c) => mx[s] \notin T
        /\ s \notin Listening(g, c) => mx[s] \notin V
    BY <1>1, <2>1, AddedNext
  <2>6. /\ g.head[c]  = IF s \in Regular(g, c) THEN s ELSE h.head[c]
        /\ g.lhead[c] = IF s \in Listening(g, c) THEN s ELSE h.lhead[c]
        /\ s \in Regular(g, c) => mx[s] = h.head[c]
        /\ s \in Listening(g, c) => mx[s] = h.lhead[c]
        /\ g.iter[c] = h.iter[c]
    BY <1>1 DEF Added
  <2>7. Threaded(mx, qv, Regular(g, c) \ (X \ {s}), g.head[c], q)
    <3>1. CASE s \in Regular(g, c)
      <4>1. Threaded(mx, qv, T \cup {s}, s, q)
        BY <1>3, <2>2, <2>3, <2>6, <3>1
      <4> QED BY <2>4, <2>6, <3>1, <4>1
    <3>2. CASE s \notin Regular(g, c)
      <4>1. Threaded(mx, qv, T, h.head[c], q)
        BY <1>3, <2>2, <2>3, <2>5, <3>2
      <4>2. Regular(g, c) \ (X \ {s}) = T
        BY <2>4, <3>2
      <4> QED BY <2>6, <3>2, <4>1, <4>2
    <3> QED BY <3>1, <3>2
  <2>8. Threaded(mx, qv, Listening(g, c) \ (X \ {s}), g.lhead[c], q)
    <3>1. CASE s \in Listening(g, c)
      <4>1. Threaded(mx, qv, V \cup {s}, s, q)
        BY <1>3, <2>2, <2>3, <2>6, <3>1
      <4> QED BY <2>4, <2>6, <3>1, <4>1
    <3>2. CASE s \notin Listening(g, c)
      <4>1. Threaded(mx, qv, V, h.lhead[c], q)
        BY <1>3, <2>2, <2>3, <2>5, <3>2
      <4>2. Listening(g, c) \ (X \ {s}) = V
        BY <2>4, <3>2
      <4> QED BY <2>6, <3>2, <4>1, <4>2
    <3> QED BY <3>1, <3>2
  <2> QED BY <2>3, <2>4, <2>6, <2>7, <2>8
<1>5. Threaded(mx, qv, Queued(g) \ (X \ {s}), g.lowHead, q)
  <2>1. PICK T : T = Queued(h) \ X
    OBVIOUS
  <2>2. T \in SUBSET Sockets /\ s \notin T
    BY <2>1 DEF Queued
  <2>3. Threaded(nx, pv, T, h.lowHead, r)
    BY <1>1, <2>1 DEF Lists
  <2>4. Queued(g) \ (X \ {s}) = T \cup (IF s \in Queued(g) THEN {s} ELSE {})
    BY <2>1, AddedOthers
  <2>5. /\ g.lowHead = IF s \in Queued(g) THEN s ELSE h.lowHead
        /\ s \in Queued(g) => mx[s] = h.lowHead
        /\ s \notin Queued(g) => mx[s] \notin T
    BY <1>1, <2>1, AddedNext DEF Added
  <2>6. CASE s \in Queued(g)
    <3>1. Threaded(mx, qv, T \cup {s}, s, q)
      BY <1>3, <2>2, <2>3, <2>5, <2>6
    <3> QED BY <2>4, <2>5, <2>6, <3>1
  <2>7. CASE s \notin Queued(g)
    <3>1. Threaded(mx, qv, T, h.lowHead, q)
      BY <1>3, <2>2, <2>3, <2>5, <2>7
    <3>2. Queued(g) \ (X \ {s}) = T
      BY <2>4, <2>7
    <3> QED BY <2>5, <2>7, <3>1, <3>2
  <2> QED BY <2>6, <2>7
<1>6. Ordered(mx, Dead(g) \ (X \ {s}), g.closed, q)
  <2>1. PICK T : T = Dead(h) \ X
    OBVIOUS
  <2>2. Dead(g) \ (X \ {s}) = T /\ T \in SUBSET Sockets /\ s \notin T
    BY <2>1, AddedOthers DEF Dead
  <2>3. Ordered(nx, T, h.closed, r)
    BY <1>1, <2>1 DEF Lists
  <2>4. \A x \in T : mx[x] = nx[x] /\ q[x] = r[x]
    <3>1. \A x \in T : x \in Sockets \ {s}
      BY <2>2
    <3> QED BY <1>2, <1>9, <3>1
  <2>5. Ordered(mx, T, h.closed, q)
    BY <2>3, <2>4, OrderedFrame
  <2> QED BY <2>2, <2>5 DEF Added
<1> QED BY <1>0, <1>1, <1>4, <1>5, <1>6 DEF Lists

\* The closed list with a socket put in front.
LEMMA ClosedPush ==
    ASSUME NEW T \in SUBSET Sockets, NEW nx, NEW mx, NEW p, NEW r \in [Sockets -> Int],
           Ordered(nx, T, p, r), NEW s \in Sockets, s \notin T, mx[s] = p,
           \A x \in T : mx[x] = nx[x], NEW q, NEW m, Reranked(q, r, s, m)
    PROVE  Ordered(mx, T \cup {s}, s, q)
<1>1. Null \notin Sockets /\ m \in Int /\ (\A x \in Sockets : m < r[x])
  BY AddressesDiffer DEF Reranked
<1>2. Ordered(mx, T \cup {s}, s, [r EXCEPT ![s] = m])
  BY <1>1, OrderedPush
<1> QED BY <1>2 DEF Reranked

\* A closed socket joins the closed list.
LEMMA ClosedLists ==
    ASSUME NEW h, NEW X, NEW r, Lists(h, X, r), NEW s \in X, s \in Sockets, h.type[s] # "free",
           NEW g, SameBut(g, h, ContextFields \cup {"next", "prev", "closed", "ready"}),
           g.closed = s, g.next[s] = h.closed, IsClosed(g, s),
           \A t \in Sockets \ {s} : g.next[t] = h.next[t] /\ g.prev[t] = h.prev[t],
           NEW q, NEW m, Reranked(q, r, s, m)
    PROVE  Lists(g, X \ {s}, q)
<1>0. r \in [Sockets -> Int] /\ q \in [Sockets -> Int] /\ Null \notin Sockets /\ s # Null
  BY AddressesDiffer DEF Lists, Reranked
<1>1. PICK nx, pv, mx, qv : nx = h.next /\ pv = h.prev /\ mx = g.next /\ qv = g.prev
  OBVIOUS
<1>2. /\ g.type = h.type /\ g.ctx = h.ctx /\ g.low = h.low /\ g.head = h.head
      /\ g.lhead = h.lhead /\ g.lowHead = h.lowHead /\ g.iter = h.iter
  BY DEF SameBut, Fields, ContextFields
<1>3. \A t \in Sockets \ {s} : (IsClosed(g, t) <=> IsClosed(h, t)) /\ (Open(g, t) <=> Open(h, t))
  BY <1>2 DEF Open, IsClosed
<1>4. ~Open(g, s) /\ s \in Dead(g)
  BY <1>2 DEF Open, Dead
<1>5. /\ \A c : /\ Regular(g, c) \ (X \ {s}) = Regular(h, c) \ X
                /\ Listening(g, c) \ (X \ {s}) = Listening(h, c) \ X
      /\ Queued(g) \ (X \ {s}) = Queued(h) \ X
  <2>1. \A c, t : /\ t \in Regular(g, c) \ (X \ {s}) <=> t \in Regular(h, c) \ X
                  /\ t \in Listening(g, c) \ (X \ {s}) <=> t \in Listening(h, c) \ X
                  /\ t \in Queued(g) \ (X \ {s}) <=> t \in Queued(h) \ X
    BY <1>2, <1>3, <1>4 DEF Regular, Listening, Queued
  <2> QED BY <2>1
<1>6. Dead(g) \ (X \ {s}) = (Dead(h) \ X) \cup {s}
  <2>1. \A t : t \in Dead(g) \ (X \ {s}) <=> t \in (Dead(h) \ X) \cup {s}
    BY <1>2, <1>3, <1>4 DEF Dead
  <2> QED BY <2>1
<1>7. ASSUME NEW T \in SUBSET Sockets, s \notin T, NEW p, Threaded(nx, pv, T, p, r)
      PROVE  Threaded(mx, qv, T, p, q)
  <2>1. \A x \in T : mx[x] = nx[x] /\ qv[x] = pv[x] /\ q[x] = r[x]
    <3>1. \A x \in Sockets \ {s} : q[x] = r[x]
      BY <1>0 DEF Reranked
    <3>2. \A x \in T : x \in Sockets \ {s}
      BY <1>7
    <3> QED BY <1>1, <3>1, <3>2
  <2> QED BY <1>7, <2>1, ThreadedFrame
<1>8. ASSUME NEW c \in Contexts
      PROVE  /\ Threaded(mx, qv, Regular(g, c) \ (X \ {s}), g.head[c], q)
             /\ Threaded(mx, qv, Listening(g, c) \ (X \ {s}), g.lhead[c], q)
             /\ g.iter[c] # Null => g.iter[c] \in Regular(g, c) \ (X \ {s})
  <2>1. PICK T, V : T = Regular(h, c) \ X /\ V = Listening(h, c) \ X
    OBVIOUS
  <2>2. T \in SUBSET Sockets /\ V \in SUBSET Sockets /\ s \notin T /\ s \notin V
    BY <2>1 DEF Regular, Listening
  <2>3. /\ Threaded(nx, pv, T, h.head[c], r) /\ Threaded(nx, pv, V, h.lhead[c], r)
        /\ h.iter[c] # Null => h.iter[c] \in T
    BY <1>1, <2>1 DEF Lists
  <2>4. Threaded(mx, qv, T, h.head[c], q) /\ Threaded(mx, qv, V, h.lhead[c], q)
    BY <1>7, <2>2, <2>3
  <2> QED BY <1>2, <1>5, <2>1, <2>3, <2>4
<1>9. Threaded(mx, qv, Queued(g) \ (X \ {s}), g.lowHead, q)
  <2>1. PICK T : T = Queued(h) \ X
    OBVIOUS
  <2>2. T \in SUBSET Sockets /\ s \notin T /\ Threaded(nx, pv, T, h.lowHead, r)
    BY <1>1, <2>1 DEF Queued, Lists
  <2>3. Threaded(mx, qv, T, h.lowHead, q)
    BY <1>7, <2>2
  <2> QED BY <1>2, <1>5, <2>1, <2>3
<1>10. Ordered(mx, Dead(g) \ (X \ {s}), g.closed, q)
  <2>1. PICK T : T = Dead(h) \ X
    OBVIOUS
  <2>2. T \in SUBSET Sockets /\ s \notin T /\ Ordered(nx, T, h.closed, r)
    BY <1>1, <2>1 DEF Dead, Lists
  <2>3. mx[s] = h.closed /\ \A x \in T : mx[x] = nx[x]
    BY <1>1, <2>2
  <2>4. Ordered(mx, T \cup {s}, s, q)
    BY <1>0, <2>2, <2>3, ClosedPush
  <2> QED BY <1>1, <1>6, <2>1, <2>4
<1> QED BY <1>0, <1>1, <1>8, <1>9, <1>10 DEF Lists

-----------------------------------------------------------------------------
(* Who holds a reference of a context: its creator, its open sockets and   *)
(* the sockets of K, whose close has not finished.                         *)

\* s holds in one heap what it holds in the other.
HoldsAs(g, L, h, K, s) ==
    /\ Holding(g, L, s) <=> Holding(h, K, s)
    /\ Holding(h, K, s) => g.ctx[s] = h.ctx[s]

\* The holders of a context are finitely many.
LEMMA HoldersFinite ==
    ASSUME NEW g, NEW K, NEW own, NEW c \in Contexts
    PROVE  /\ IsFiniteSet(Holders(g, K, own, c))
           /\ Cardinality(Holders(g, K, own, c)) \in Nat
<1>1. IsFiniteSet(Sockets) /\ IsFiniteSet({c})
    BY DistinctAddresses, FS_Singleton
<1>2. IsFiniteSet({c} \cup Sockets)
    BY <1>1, FS_Union
<1>3. Holders(g, K, own, c) \subseteq {c} \cup Sockets
    BY DEF Holders
<1> QED  BY <1>2, <1>3, FS_Subset, FS_CardinalityType

\* The holders of the contexts, and their counts, are the same in two heaps.
LEMMA CoveredSame ==
    ASSUME NEW h, NEW K, NEW own, NEW plain, Covered(h, K, own, plain), NEW g, NEW L,
           g.ref = h.ref, \A s \in Sockets : HoldsAs(g, L, h, K, s)
    PROVE  Covered(g, L, own, plain)
<1>1. \A c \in Contexts : Holders(g, L, own, c) = Holders(h, K, own, c)
    BY DEF Holders, HoldsAs
<1> QED  BY <1>1 DEF Covered

\* The socket x, of the context c, stops holding and its reference is dropped.
LEMMA CoveredDrop ==
    ASSUME NEW h, NEW K, NEW own, NEW plain, Covered(h, K, own, plain), NEW g, NEW L,
           NEW c \in Contexts, h.ref \in [Contexts -> Int], g.ref = [h.ref EXCEPT ![c] = @ - 1],
           NEW x \in Sockets, Holding(h, K, x), h.ctx[x] = c, ~Holding(g, L, x),
           \A s \in Sockets \ {x} : HoldsAs(g, L, h, K, s)
    PROVE  Covered(g, L, own, plain)
<1> SUFFICES ASSUME NEW d \in Contexts
             PROVE  /\ g.ref[d] >= Cardinality(Holders(g, L, own, d))
                    /\ plain => g.ref[d] = Cardinality(Holders(g, L, own, d))
    BY DEF Covered
<1>1. h.ref[d] \in Int /\ Cardinality(Holders(h, K, own, d)) \in Nat
    BY HoldersFinite
<1>2. /\ h.ref[d] >= Cardinality(Holders(h, K, own, d))
      /\ plain => h.ref[d] = Cardinality(Holders(h, K, own, d))
    BY DEF Covered
<1>3. CASE d # c
    <2>1. Holders(g, L, own, d) = Holders(h, K, own, d)
        BY <1>3 DEF Holders, HoldsAs
    <2> QED  BY <1>2, <1>3, <2>1
<1>4. CASE d = c
    <2>1. x \in Holders(h, K, own, c)
        BY DEF Holders
    <2>2. x # c
        BY AddressesDiffer
    <2>3. Holders(g, L, own, c) = Holders(h, K, own, c) \ {x}
        BY <2>2 DEF Holders, HoldsAs
    <2>4. IsFiniteSet(Holders(h, K, own, c))
        BY HoldersFinite
    <2>5. Cardinality(Holders(h, K, own, c) \ {x}) = Cardinality(Holders(h, K, own, c)) - 1
        BY <2>1, <2>4, FS_RemoveElement
    <2>6. g.ref[c] = h.ref[c] - 1
        OBVIOUS
    <2> QED  BY <1>1, <1>2, <1>4, <2>3, <2>5, <2>6
<1> QED  BY <1>3, <1>4

\* The socket x starts holding with a reference of its own.
LEMMA CoveredGain ==
    ASSUME NEW h, NEW K, NEW own, NEW plain, Covered(h, K, own, plain), NEW g, NEW L,
           NEW c \in Contexts, h.ref \in [Contexts -> Int], g.ref = [h.ref EXCEPT ![c] = @ + 1],
           NEW x \in Sockets, ~Holding(h, K, x), g.ctx[x] = c, Holding(g, L, x),
           \A s \in Sockets \ {x} : HoldsAs(g, L, h, K, s)
    PROVE  Covered(g, L, own, plain)
<1> SUFFICES ASSUME NEW d \in Contexts
             PROVE  /\ g.ref[d] >= Cardinality(Holders(g, L, own, d))
                    /\ plain => g.ref[d] = Cardinality(Holders(g, L, own, d))
    BY DEF Covered
<1>1. h.ref[d] \in Int /\ Cardinality(Holders(h, K, own, d)) \in Nat
    BY HoldersFinite
<1>2. /\ h.ref[d] >= Cardinality(Holders(h, K, own, d))
      /\ plain => h.ref[d] = Cardinality(Holders(h, K, own, d))
    BY DEF Covered
<1>3. CASE d # c
    <2>1. Holders(g, L, own, d) = Holders(h, K, own, d)
        BY <1>3 DEF Holders, HoldsAs
    <2> QED  BY <1>2, <1>3, <2>1
<1>4. CASE d = c
    <2>2. x # c
        BY AddressesDiffer
    <2>1. x \notin Holders(h, K, own, c)
        BY <2>2 DEF Holders
    <2>3. Holders(g, L, own, c) = Holders(h, K, own, c) \cup {x}
        BY <2>2 DEF Holders, HoldsAs
    <2>4. IsFiniteSet(Holders(h, K, own, c))
        BY HoldersFinite
    <2>5. Cardinality(Holders(h, K, own, c) \cup {x}) = Cardinality(Holders(h, K, own, c)) + 1
        BY <2>1, <2>4, FS_AddElement
    <2>6. g.ref[c] = h.ref[c] + 1
        OBVIOUS
    <2> QED  BY <1>1, <1>2, <1>4, <2>3, <2>5, <2>6
<1> QED  BY <1>3, <1>4

\* The creator of the context c takes or gives back its reference.
LEMMA CoveredOwner ==
    ASSUME NEW h, NEW K, NEW own, NEW plain, Covered(h, K, own, plain), NEW g,
           NEW c \in Contexts, h.ref \in [Contexts -> Int],
           \A s \in Sockets : HoldsAs(g, K, h, K, s)
    PROVE  /\ c \notin own /\ g.ref = [h.ref EXCEPT ![c] = @ + 1] =>
                 Covered(g, K, own \cup {c}, plain)
           /\ c \in own /\ g.ref = [h.ref EXCEPT ![c] = @ - 1] =>
                 Covered(g, K, own \ {c}, plain)
<1>1. \A d \in Contexts : /\ h.ref[d] \in Int
                          /\ IsFiniteSet(Holders(h, K, own, d))
                          /\ Cardinality(Holders(h, K, own, d)) \in Nat
    BY HoldersFinite
<1>2. \A d \in Contexts : /\ h.ref[d] >= Cardinality(Holders(h, K, own, d))
                          /\ plain => h.ref[d] = Cardinality(Holders(h, K, own, d))
    BY DEF Covered
<1>3. \A s \in Sockets : s # c
    BY AddressesDiffer
<1>4. ASSUME c \notin own, g.ref = [h.ref EXCEPT ![c] = @ + 1]
      PROVE  Covered(g, K, own \cup {c}, plain)
    <2>1. \A d \in Contexts \ {c} : Holders(g, K, own \cup {c}, d) = Holders(h, K, own, d)
        BY DEF Holders, HoldsAs
    <2>2. /\ c \notin Holders(h, K, own, c)
          /\ Holders(g, K, own \cup {c}, c) = Holders(h, K, own, c) \cup {c}
        BY <1>3, <1>4 DEF Holders, HoldsAs
    <2>3. Cardinality(Holders(h, K, own, c) \cup {c}) = Cardinality(Holders(h, K, own, c)) + 1
        BY <1>1, <2>2, FS_AddElement
    <2>4. g.ref[c] = h.ref[c] + 1 /\ \A d \in Contexts \ {c} : g.ref[d] = h.ref[d]
        BY <1>4
    <2> QED  BY <1>1, <1>2, <2>1, <2>2, <2>3, <2>4 DEF Covered
<1>5. ASSUME c \in own, g.ref = [h.ref EXCEPT ![c] = @ - 1]
      PROVE  Covered(g, K, own \ {c}, plain)
    <2>1. \A d \in Contexts \ {c} : Holders(g, K, own \ {c}, d) = Holders(h, K, own, d)
        BY DEF Holders, HoldsAs
    <2>2. /\ c \in Holders(h, K, own, c)
          /\ Holders(g, K, own \ {c}, c) = Holders(h, K, own, c) \ {c}
        BY <1>3, <1>5 DEF Holders, HoldsAs
    <2>3. Cardinality(Holders(h, K, own, c) \ {c}) = Cardinality(Holders(h, K, own, c)) - 1
        BY <1>1, <2>2, FS_RemoveElement
    <2>4. g.ref[c] = h.ref[c] - 1 /\ \A d \in Contexts \ {c} : g.ref[d] = h.ref[d]
        BY <1>5
    <2> QED  BY <1>1, <1>2, <2>1, <2>2, <2>3, <2>4 DEF Covered
<1> QED  BY <1>4, <1>5

\* A holder keeps its context referenced.
LEMMA HeldReferenced ==
    ASSUME NEW h, NEW K, NEW own, NEW plain, Covered(h, K, own, plain),
           h.ref \in [Contexts -> Int], NEW c \in Contexts,
           c \in own \/ \E s \in Sockets : Holding(h, K, s) /\ h.ctx[s] = c
    PROVE  h.ref[c] >= 1
<1>1. Holders(h, K, own, c) # {}
    BY DEF Holders
<1>2. IsFiniteSet(Holders(h, K, own, c)) /\ Cardinality(Holders(h, K, own, c)) \in Nat
    BY HoldersFinite
<1>3. Cardinality(Holders(h, K, own, c)) # 0
    BY <1>1, <1>2, FS_EmptySet
<1>4. h.ref[c] >= Cardinality(Holders(h, K, own, c)) /\ h.ref[c] \in Int
    BY DEF Covered
<1> QED  BY <1>2, <1>3, <1>4

-----------------------------------------------------------------------------
(* The heap between two steps of the loop.  K is the set of sockets whose  *)
(* close has not finished; m.plain says that nothing is ever queued.       *)

\* What a step from h to g leaves to the functions that wait on the stack.
SweepKept(h, g, r, q) ==
    \A c \in Contexts, s \in Sockets, left \in SUBSET {"short", "long"} :
        SweptAt(h, c, s, left, r) => SweptAt(g, c, s, left, q)

\* What the other frames may rely on: types and closed marks stay, no socket
\* enters the queue or loses its writable poll, no context goes away.
Keeps(h, g) ==
    /\ \A s \in Sockets :
          /\ h.type[s] # "free" =>
                /\ g.type[s] = h.type[s] \/ (h.type[s] \in {"socket", "semi"} /\ g.type[s] = "shut")
                /\ IsClosed(h, s) => IsClosed(g, s)
          /\ Open(g, s) /\ g.low[s] = 1 => Open(h, s) /\ h.low[s] = 1
          /\ h.type[s] = "socket" /\ g.type[s] = "socket" /\ "W" \in h.poll[s] => "W" \in g.poll[s]
    /\ \A c \in Contexts : h.state[c] # "none" => g.state[c] # "none"
    /\ g.liter = h.liter

\* A step from h to g, from which K and own become L and p.
Moves(h, K, own, r, g, L, p, m) ==
    \E q : Heaped(g, L, p, q, m) /\ SweepKept(h, g, r, q) /\ Keeps(h, g)

\* The sockets outside X are the same ones, each in its context, open or closed.
Spares(h, g, X) ==
    \A s \in Sockets \ X :
        /\ g.type[s] = "free" <=> h.type[s] = "free"
        /\ h.type[s] # "free" => g.ctx[s] = h.ctx[s] /\ (IsClosed(g, s) <=> IsClosed(h, s))

\* Nothing happens to a context but that a live one is closed.
Fades(h, g) ==
    \A c \in Contexts : g.state[c] # h.state[c] => h.state[c] = "live" /\ g.state[c] = "closed"

\* The socket s is closed, and no other.
Shuts(h, g, s) ==
    /\ Spares(h, g, {s}) /\ Fades(h, g)
    /\ g.type[s] # "free" /\ g.ctx[s] = h.ctx[s] /\ IsClosed(g, s)

\* The socket s is opened in c; the socket s becomes n in c; the dead are freed.
Opens(h, g, s, c) == g.ctx[s] = c /\ Spares(h, g, {s}) /\ Fades(h, g)
Becomes(h, g, s, n, c) ==
    /\ g.ctx[n] = c /\ (n # s => g.type[s] = "free")
    /\ Spares(h, g, {s, n}) /\ Fades(h, g)
Frees(h, g) ==
    /\ \A s \in Dead(h) : g.type[s] = "free"
    /\ Spares(h, g, Dead(h))
    /\ \A c \in Contexts : g.state[c] = IF h.state[c] = "closed" THEN "none" ELSE h.state[c]

\* What is not freed keeps its type and its poll.
Remains(h, g) ==
    \A s \in Sockets : g.type[s] = "free" \/ (g.type[s] = h.type[s] /\ g.poll[s] = h.poll[s])

\* A step that touches no timeout, iterator or list keeps a sweep.
LEMMA SweepSame ==
    ASSUME NEW h, NEW g, NEW r, NEW q, g.iter = h.iter, g.due = h.due, NEW K, Lists(h, K, r),
           \A c \in Contexts : Regular(g, c) = Regular(h, c),
           \A c \in Contexts : \A x \in Regular(h, c) : q[x] = r[x]
    PROVE  SweepKept(h, g, r, q)
<1> SUFFICES ASSUME NEW c \in Contexts, NEW s \in Sockets, NEW left \in SUBSET {"short", "long"},
                    SweptAt(h, c, s, left, r)
             PROVE  SweptAt(g, c, s, left, q)
    BY DEF SweepKept
<1>1. h.iter[c] # Null => h.iter[c] \in Regular(h, c)
    BY DEF Lists
<1> QED  BY <1>1 DEF SweptAt, Ahead

\* Two steps in a row, for a sweep ...
LEMMA SweepKeptTransitive ==
    ASSUME NEW f, NEW g, NEW h, NEW r, NEW q, NEW t, SweepKept(f, g, r, q), SweepKept(g, h, q, t)
    PROVE  SweepKept(f, h, r, t)
    BY DEF SweepKept

\* ... and for the other frames.
LEMMA KeepsTransitive ==
    ASSUME NEW f, NEW g, NEW h, Keeps(f, g), Keeps(g, h)
    PROVE  Keeps(f, h)
<1>1. \A s \in Sockets : f.type[s] # "free" =>
          /\ g.type[s] # "free"
          /\ h.type[s] = f.type[s] \/ (f.type[s] \in {"socket", "semi"} /\ h.type[s] = "shut")
          /\ IsClosed(f, s) => IsClosed(h, s)
    BY DEF Keeps
<1>2. \A s \in Sockets : Open(h, s) /\ h.low[s] = 1 => Open(f, s) /\ f.low[s] = 1
    BY DEF Keeps
<1>3. /\ h.liter = f.liter
      /\ \A c \in Contexts : f.state[c] # "none" => h.state[c] # "none"
    BY DEF Keeps
<1>4. \A s \in Sockets : f.type[s] = "socket" /\ h.type[s] = "socket" /\ "W" \in f.poll[s]
                            => "W" \in h.poll[s]
    BY DEF Keeps
<1> QED  BY <1>1, <1>2, <1>3, <1>4 DEF Keeps

\* Where a socket belongs is read off its fields.
LEMMA SameLists ==
    ASSUME NEW h, NEW g,
           \A s \in Sockets : /\ Open(g, s) <=> Open(h, s)
                              /\ g.type[s] # "free" <=> h.type[s] # "free"
                              /\ Open(h, s) => /\ g.ctx[s] = h.ctx[s]
                                               /\ g.type[s] = "listen" <=> h.type[s] = "listen"
                                               /\ g.low[s] = 1 <=> h.low[s] = 1
    PROVE  /\ \A c \in Contexts : Regular(g, c) = Regular(h, c) /\ Listening(g, c) = Listening(h, c)
           /\ Queued(g) = Queued(h)
           /\ Dead(g) = Dead(h)
<1>1. \A s \in Sockets : /\ s \in Dead(g) <=> s \in Dead(h)
                         /\ s \in Queued(g) <=> s \in Queued(h)
    BY DEF Dead, Open, Queued
<1>2. \A c \in Contexts, s \in Sockets : /\ s \in Regular(g, c) <=> s \in Regular(h, c)
                                         /\ s \in Listening(g, c) <=> s \in Listening(h, c)
    BY DEF Regular, Listening
<1>3. /\ Dead(g) \subseteq Sockets /\ Dead(h) \subseteq Sockets
      /\ Queued(g) \subseteq Sockets /\ Queued(h) \subseteq Sockets
    BY DEF Dead, Queued
<1>4. \A c \in Contexts : /\ Regular(g, c) \subseteq Sockets /\ Regular(h, c) \subseteq Sockets
                          /\ Listening(g, c) \subseteq Sockets /\ Listening(h, c) \subseteq Sockets
    BY DEF Regular, Listening
<1> QED  BY <1>1, <1>2, <1>3, <1>4

-----------------------------------------------------------------------------
(* Writes that touch no list.                                              *)

\* The fields that no list is read from.
QuietFields == {"type", "poll", "paused", "ready", "due", "low", "liter"}

\* A step that writes these only, and leaves every socket on its list.
Quiet(g, h) ==
    /\ g \in Heap /\ SameBut(g, h, QuietFields)
    /\ \A s \in Sockets :
          /\ g.type[s] # "free" <=> h.type[s] # "free"
          /\ g.type[s] = "listen" <=> h.type[s] = "listen"
          /\ g.low[s] = 1 <=> h.low[s] = 1

\* It keeps the heap.
LEMMA QuietHeap ==
    ASSUME NEW h, NEW K, NEW own, NEW r, NEW m, Heaped(h, K, own, r, m),
           NEW g, Quiet(g, h), Sound(g), Modes(g, m)
    PROVE  /\ Heaped(g, K, own, r, m)
           /\ \A c \in Contexts : Regular(g, c) = Regular(h, c) /\ Listening(g, c) = Listening(h, c)
           /\ \A s \in Sockets : Open(g, s) <=> Open(h, s)
<1>1. /\ g.ctx = h.ctx /\ g.prev = h.prev /\ g.next = h.next /\ g.head = h.head
      /\ g.lhead = h.lhead /\ g.iter = h.iter /\ g.closed = h.closed /\ g.lowHead = h.lowHead
      /\ g.state = h.state /\ g.ref = h.ref
    BY DEF Quiet, QuietFields, SameBut, Fields
<1>2. ContextsAs(g, h)
    BY DEF Quiet, QuietFields, SameBut, Fields, ContextsAs, ContextFields
<1>3. \A s \in Sockets : /\ g.type[s] # "free" <=> h.type[s] # "free"
                         /\ g.type[s] = "listen" <=> h.type[s] = "listen"
                         /\ g.low[s] = 1 <=> h.low[s] = 1
    BY DEF Quiet
<1>4. \A s \in Sockets : /\ IsClosed(g, s) <=> IsClosed(h, s)
                         /\ Open(g, s) <=> Open(h, s)
    BY <1>1, <1>3 DEF IsClosed, Open
<1>5. /\ \A c \in Contexts : Regular(g, c) = Regular(h, c) /\ Listening(g, c) = Listening(h, c)
      /\ Queued(g) = Queued(h)
      /\ Dead(g) = Dead(h)
    BY <1>1, <1>3, <1>4, SameLists
<1>6. Lists(g, K, r)
    BY <1>1, <1>5 DEF Lists, Heaped
<1>7. Homes(g) /\ ContextsOK(g)
    BY <1>1, <1>2, <1>3, ContextsOKAs DEF Homes, Heaped
<1>8. Stale(g, K)
    <2>1. h \in Heap
        BY DEF Heaped, Sound
    <2>2. \A s \in Sockets : h.next[s] \in Sockets \cup {Null}
        BY <2>1 DEF Heap, SocketPtr
    <2>3. K \subseteq Sockets
        BY DEF Heaped, Stale, Dead
    <2> QED  BY <1>1, <1>3, <1>5, <2>2, <2>3 DEF Stale, Heaped
<1>9. Covered(g, K, own, m.plain)
    <2>1. Covered(h, K, own, m.plain)
        BY DEF Heaped
    <2>2. \A s \in Sockets : HoldsAs(g, K, h, K, s)
        BY <1>1, <1>3, <1>4 DEF HoldsAs, Holding
    <2> QED  BY <1>1, <2>1, <2>2, CoveredSame
<1> QED  BY <1>4, <1>5, <1>6, <1>7, <1>8, <1>9 DEF Heaped

-----------------------------------------------------------------------------
(* An open socket leaves its list and is marked closed.                    *)

\* An open socket s was taken out of its list and marked closed.
Withdrawn(g, h, s) ==
    \E k : /\ Removed(k, h, s)
           /\ g \in Heap /\ SameBut(g, k, ContextFields \cup {"prev", "ready"})
           /\ \A t \in Sockets \ {s} : g.prev[t] = k.prev[t]
           /\ IsClosed(g, s)

\* What is left of the fields, and the lists, when s is withdrawn.
WithdrawnInto(g, h, K, r, s) ==
    /\ g \in Heap /\ IsClosed(g, s) /\ Lists(g, K \cup {s}, r)
    /\ g.type = h.type /\ g.ctx = h.ctx /\ g.poll = h.poll /\ g.due = h.due
    /\ g.liter = h.liter /\ g.closed = h.closed
    /\ g.next[s] \in {Null, h.next[s]}
    /\ \A t \in Sockets \ {s} : /\ IsClosed(g, t) <=> IsClosed(h, t)
                                /\ g.low[t] = h.low[t]
                                /\ g.next[t] = IF t = h.prev[s] THEN h.next[s] ELSE h.next[t]
    /\ \A c \in Contexts : g.iter[c] = IF h.iter[c] = s THEN h.next[s] ELSE h.iter[c]

\* What Withdrawn says field by field.
LEMMA WithdrawnFields ==
    ASSUME NEW h, NEW K, NEW r, Sound(h), Lists(h, K, r), NEW s \in Sockets, s \notin K, Open(h, s),
           NEW g, Withdrawn(g, h, s)
    PROVE  WithdrawnInto(g, h, K, r, s)
<1>1. PICK k : /\ Removed(k, h, s)
               /\ g \in Heap /\ SameBut(g, k, ContextFields \cup {"prev", "ready"})
               /\ \A t \in Sockets \ {s} : g.prev[t] = k.prev[t]
               /\ IsClosed(g, s)
    BY DEF Withdrawn
<1>2. Lists(k, K \cup {s}, r)
    BY <1>1, RemovedLists
<1>3. /\ g.type = k.type /\ g.ctx = k.ctx /\ g.poll = k.poll /\ g.due = k.due /\ g.low = k.low
      /\ g.liter = k.liter /\ g.closed = k.closed /\ g.next = k.next /\ g.iter = k.iter
      /\ g.head = k.head /\ g.lhead = k.lhead /\ g.lowHead = k.lowHead
    BY <1>1 DEF SameBut, Fields, ContextFields
<1>4. OffSame(g, k, s)
    BY <1>1, <1>3 DEF OffSame
<1>5. Lists(g, K \cup {s}, r)
    BY <1>2, <1>4, ListsOff
<1>6. k.type = h.type /\ k.ctx = h.ctx /\ k.poll = h.poll /\ k.due = h.due
      /\ k.liter = h.liter /\ k.closed = h.closed
    BY <1>1 DEF Removed, SameBut, Fields, ContextFields
<1>7. \A t \in Sockets \ {s} : (IsClosed(k, t) <=> IsClosed(h, t)) /\ k.low[t] = h.low[t]
    BY <1>1, RemovedOthers
<1>8. \A t \in Sockets \ {s} : IsClosed(g, t) <=> IsClosed(k, t)
    BY <1>1, <1>3 DEF IsClosed
<1>9. /\ k.next[s] \in {Null, h.next[s]}
      /\ \A t \in Sockets \ {s} : k.next[t] = IF t = h.prev[s] THEN h.next[s] ELSE h.next[t]
      /\ \A c \in Contexts : k.iter[c] = IF h.iter[c] = s THEN h.next[s] ELSE h.iter[c]
    BY <1>1 DEF Removed
<1> QED  BY <1>1, <1>3, <1>5, <1>6, <1>7, <1>8, <1>9 DEF WithdrawnInto

\* The successor of a socket that is listed is on the same list.
LEMMA NextListed ==
    ASSUME NEW h, NEW K, NEW r, Lists(h, K, r), NEW s \in Sockets \ K, Open(h, s),
           h.ctx[s] \in Contexts, h.next[s] # Null
    PROVE  /\ h.next[s] \in Sockets /\ h.next[s] # s /\ Open(h, h.next[s])
           /\ h.type[h.next[s]] = "listen" <=> h.type[s] = "listen"
           /\ \A c \in Contexts : s \in Regular(h, c) =>
                 /\ h.next[s] \in Regular(h, c)
                 /\ \A x \in Regular(h, c) \ K : x # s /\ r[s] <= r[x] => r[h.next[s]] <= r[x]
           /\ \A c \in Contexts : s \in Listening(h, c) => h.next[s] \in Listening(h, c)
<1>1. \A c \in Contexts : /\ Ordered(h.next, Regular(h, c) \ K, h.head[c], r)
                          /\ Ordered(h.next, Listening(h, c) \ K, h.lhead[c], r)
    BY DEF Lists, Threaded
<1>2. Ordered(h.next, Queued(h) \ K, h.lowHead, r) /\ r \in [Sockets -> Int]
    BY DEF Lists, Threaded
<1>3. \A c \in Contexts : s \in Regular(h, c) =>
         /\ h.next[s] \in Regular(h, c) \ K /\ r[s] < r[h.next[s]]
         /\ \A y \in Regular(h, c) \ K : r[s] < r[y] => r[h.next[s]] <= r[y]
         /\ \A y \in Regular(h, c) \ K : r[s] = r[y] => s = y
    BY <1>1 DEF Ordered
<1>4. \A c \in Contexts : s \in Listening(h, c) => h.next[s] \in Listening(h, c) \ K /\ r[s] < r[h.next[s]]
    BY <1>1 DEF Ordered
<1>5. s \in Queued(h) => h.next[s] \in Queued(h) \ K /\ r[s] < r[h.next[s]]
    BY <1>2 DEF Ordered
<1>6. s \in Regular(h, h.ctx[s]) \/ s \in Listening(h, h.ctx[s]) \/ s \in Queued(h)
    BY DEF Regular, Listening, Queued
<1>7. /\ \A c \in Contexts : \A t \in Regular(h, c) : t \in Sockets /\ Open(h, t) /\ h.type[t] # "listen"
      /\ \A c \in Contexts : \A t \in Listening(h, c) : t \in Sockets /\ Open(h, t) /\ h.type[t] = "listen"
      /\ \A t \in Queued(h) : t \in Sockets /\ Open(h, t) /\ h.type[t] # "listen"
    BY DEF Regular, Listening, Queued
<1>8. h.next[s] \in Sockets /\ Open(h, h.next[s]) /\ r[s] < r[h.next[s]]
    BY <1>3, <1>4, <1>5, <1>6, <1>7
<1>9. h.next[s] # s
    BY <1>2, <1>8
<1>10. h.type[h.next[s]] = "listen" <=> h.type[s] = "listen"
    BY <1>3, <1>4, <1>5, <1>6, <1>7
<1>11. \A c \in Contexts : s \in Regular(h, c) =>
         \A x \in Regular(h, c) \ K : x # s /\ r[s] <= r[x] => r[h.next[s]] <= r[x]
    <2> SUFFICES ASSUME NEW c \in Contexts, s \in Regular(h, c), NEW x \in Regular(h, c) \ K,
                        x # s, r[s] <= r[x]
                 PROVE  r[h.next[s]] <= r[x]
        OBVIOUS
    <2>1. x \in Sockets
        BY <1>7
    <2>2. r[s] < r[x]
        BY <1>2, <1>3, <2>1
    <2> QED  BY <1>3, <2>2
<1> QED  BY <1>3, <1>4, <1>8, <1>9, <1>10, <1>11

\* A sweep that stood on s has moved on.
LEMMA WithdrawnSweep ==
    ASSUME NEW h, NEW K, NEW r, Sound(h), Lists(h, K, r), K \subseteq Dead(h),
           NEW s \in Sockets, s \notin K, Open(h, s), NEW g, Withdrawn(g, h, s)
    PROVE  /\ \A c \in Contexts : Regular(g, c) = Regular(h, c) \ {s}
           /\ SweepKept(h, g, r, r)
<1>1. /\ g.type = h.type /\ g.ctx = h.ctx /\ g.due = h.due /\ IsClosed(g, s)
      /\ \A t \in Sockets \ {s} : (IsClosed(g, t) <=> IsClosed(h, t)) /\ g.low[t] = h.low[t]
      /\ \A c \in Contexts : g.iter[c] = IF h.iter[c] = s THEN h.next[s] ELSE h.iter[c]
    <2>1. WithdrawnInto(g, h, K, r, s)
        BY WithdrawnFields
    <2> QED  BY <2>1 DEF WithdrawnInto
<1>2. \A c \in Contexts : Regular(g, c) = Regular(h, c) \ {s}
    <2>1. \A c \in Contexts, t \in Sockets : t \in Regular(g, c) <=> t \in Regular(h, c) \ {s}
        BY <1>1 DEF Regular, Open
    <2>2. \A c \in Contexts : Regular(g, c) \subseteq Sockets /\ Regular(h, c) \subseteq Sockets
        BY DEF Regular
    <2> QED  BY <2>1, <2>2
<1>3. ASSUME NEW c \in Contexts, NEW x \in Sockets, NEW left \in SUBSET {"short", "long"},
             SweptAt(h, c, x, left, r)
      PROVE  SweptAt(g, c, x, left, r)
    <2>1. /\ x \in Regular(h, c) /\ h.iter[c] # Null => r[x] <= r[h.iter[c]]
          /\ h.iter[c] = x => h.due[x] \subseteq left
          /\ \A y \in Regular(h, c) : h.due[y] # {} => h.iter[c] # Null /\ r[h.iter[c]] <= r[y]
        BY <1>3 DEF SweptAt, Ahead
    <2>2. Regular(g, c) = Regular(h, c) \ {s} /\ Regular(h, c) \ K = Regular(h, c)
        BY <1>2 DEF Regular, Dead, Open
    <2>3. CASE h.iter[c] # s
        <3>1. g.iter[c] = h.iter[c]
            BY <1>1, <2>3
        <3> QED  BY <1>1, <2>1, <2>2, <3>1 DEF SweptAt, Ahead
    <2>4. CASE h.iter[c] = s
        <3>1. g.iter[c] = h.next[s]
            BY <1>1, <2>4
        <3>2. s \in Regular(h, c) /\ s \in Sockets \ K
            BY <2>4, AddressesDiffer DEF Lists
        <3>3. h.ctx[s] \in Contexts
            BY DEF Sound, Open
        <3>4. h.next[s] # Null =>
                 /\ h.next[s] \in Regular(h, c) /\ h.next[s] # s
                 /\ \A y \in Regular(h, c) \ K : y # s /\ r[s] <= r[y] => r[h.next[s]] <= r[y]
            BY <3>2, <3>3, NextListed
        <3>5. h.next[s] # Null => r[s] < r[h.next[s]]
            BY <2>2, <3>2 DEF Lists, Threaded, Ordered
        <3>6. \A y \in Regular(h, c) \ {s} : h.due[y] # {} => h.next[s] # Null /\ r[h.next[s]] <= r[y]
            <4> SUFFICES ASSUME NEW y \in Regular(h, c) \ {s}, h.due[y] # {}
                         PROVE  h.next[s] # Null /\ r[h.next[s]] <= r[y]
                OBVIOUS
            <4>1. r[s] <= r[y]
                BY <2>1, <2>4
            <4>2. h.next[s] # Null
                <5>1. Ordered(h.next, Regular(h, c), h.head[c], r) /\ r \in [Sockets -> Int]
                    BY <2>2 DEF Lists, Threaded
                <5>2. s \in Sockets /\ y \in Sockets
                    BY DEF Regular
                <5>3. r[s] # r[y]
                    BY <3>2, <5>1 DEF Ordered
                <5>4. r[s] < r[y]
                    BY <4>1, <5>1, <5>2, <5>3
                <5> QED  BY <3>2, <5>1, <5>4 DEF Ordered
            <4> QED  BY <2>2, <3>4, <4>1, <4>2
        <3>7. r \in [Sockets -> Int] /\ r[x] \in Int /\ r[s] \in Int
            BY DEF Lists
        <3>8. x \in Regular(h, c) => r[x] <= r[s]
            BY <2>1, <2>4, AddressesDiffer
        <3>9. h.next[s] # Null => r[h.next[s]] \in Int
            BY <3>4, <3>7 DEF Regular
        <3>10. x \in Regular(g, c) /\ g.iter[c] # Null => r[x] <= r[g.iter[c]]
            BY <2>2, <3>1, <3>5, <3>7, <3>8, <3>9
        <3>11. g.iter[c] # x
            <4>1. h.next[s] = x => x \in Regular(h, c) /\ r[s] < r[x]
                BY <3>4, <3>5, AddressesDiffer
            <4> QED  BY <3>1, <3>7, <3>8, <4>1
        <3>12. Ahead(g, c, g.iter[c], r)
            BY <1>1, <2>2, <3>1, <3>6 DEF Ahead
        <3> QED  BY <3>10, <3>11, <3>12 DEF SweptAt
    <2> QED  BY <2>3, <2>4
<1> QED  BY <1>2, <1>3 DEF SweepKept

\* All that the sockets' half of a heap keeps when s is withdrawn.
Withdrew(g, h, K, r, m, s) ==
    /\ s \notin K /\ Lists(g, K \cup {s}, r) /\ SweepKept(h, g, r, r) /\ Modes(g, m)
    /\ Stale(g, K) /\ (h.type[s] # "listen" => Stale(g, K \cup {s}))
    /\ \A t \in Sockets : (HoldsAs(g, K, h, K, t) \/ t = s) /\ HoldsAs(g, K \cup {s}, h, K, t)
    /\ g \in Heap /\ g.type = h.type /\ g.ctx = h.ctx /\ g.liter = h.liter /\ IsClosed(g, s)
    /\ g.poll = h.poll
    /\ \A t \in Sockets : IsClosed(h, t) => IsClosed(g, t)
    /\ \A t \in Sockets \ {s} : IsClosed(g, t) => IsClosed(h, t)
    /\ \A t \in Sockets : Open(g, t) /\ g.low[t] = 1 => Open(h, t) /\ h.low[t] = 1

\* The heap without s, but for the reference that s held.
LEMMA Withdraw ==
    ASSUME NEW h, NEW K, NEW own, NEW r, NEW m, Heaped(h, K, own, r, m),
           NEW s \in Sockets, Open(h, s), NEW g, Withdrawn(g, h, s)
    PROVE  Withdrew(g, h, K, r, m, s)
<1>1. /\ Sound(h) /\ Lists(h, K, r) /\ Stale(h, K) /\ Modes(h, m) /\ h \in Heap
    BY DEF Heaped, Sound
<1>2. K \subseteq Dead(h) /\ s \notin K
    BY <1>1 DEF Stale, Dead, Open
<1>3. /\ g \in Heap /\ IsClosed(g, s) /\ Lists(g, K \cup {s}, r)
      /\ g.type = h.type /\ g.ctx = h.ctx /\ g.poll = h.poll /\ g.liter = h.liter
      /\ g.next[s] \in {Null, h.next[s]}
      /\ \A t \in Sockets \ {s} : /\ IsClosed(g, t) <=> IsClosed(h, t)
                                  /\ g.low[t] = h.low[t]
                                  /\ g.next[t] = IF t = h.prev[s] THEN h.next[s] ELSE h.next[t]
    <2>1. WithdrawnInto(g, h, K, r, s)
        BY <1>1, <1>2, WithdrawnFields
    <2> QED  BY <2>1 DEF WithdrawnInto
<1>4. SweepKept(h, g, r, r)
    BY <1>1, <1>2, WithdrawnSweep
<1>5. \A t \in Sockets : Open(g, t) => t # s /\ Open(h, t) /\ g.low[t] = h.low[t]
    BY <1>3 DEF Open
<1>6. Modes(g, m)
    BY <1>1, <1>3, <1>5 DEF Modes
<1>7. h.ctx[s] \in Contexts
    BY <1>1 DEF Sound, Open
<1>8. h.prev[s] \notin K
    <2>1. PICK S, q : S \in SUBSET Sockets /\ Beside(h.next, h.prev, S, q, s) /\ \A x \in S : Open(h, x)
        BY <1>1, <1>2, <1>7, ListedBeside
    <2>2. h.prev[s] = Null \/ Open(h, h.prev[s])
        BY <2>1 DEF Beside
    <2>3. \A t \in K : t \in Sockets /\ ~Open(h, t)
        BY <1>2 DEF Dead, Open
    <2> QED  BY <2>2, <2>3, AddressesDiffer
<1>9. \A t \in K : t \in Sockets /\ t # s /\ h.type[t] # "free" /\ IsClosed(h, t)
    BY <1>2 DEF Dead
<1>10. Stale(g, K)
    <2>1. \A t \in K : g.next[t] = h.next[t]
        BY <1>3, <1>8, <1>9
    <2>2. \A t \in K : t \in Dead(g)
        BY <1>3, <1>9 DEF Dead
    <2> QED  BY <1>1, <1>3, <2>1, <2>2 DEF Stale
<1>11. ASSUME h.type[s] # "listen"
       PROVE  Stale(g, K \cup {s})
    <2>1. s \in Dead(g)
        BY <1>3 DEF Dead, Open
    <2>2. h.next[s] # Null => h.type[h.next[s]] # "listen" /\ Open(h, h.next[s])
        BY <1>1, <1>2, <1>7, <1>11, NextListed
    <2>3. h.next[s] # Null => h.type[h.next[s]] \notin {"listen", "free"}
        BY <2>2 DEF Open
    <2> QED  BY <1>3, <1>10, <2>1, <2>3 DEF Stale
<1>12. \A t \in Sockets : (HoldsAs(g, K, h, K, t) \/ t = s) /\ HoldsAs(g, K \cup {s}, h, K, t)
    BY <1>2, <1>3 DEF HoldsAs, Holding, Open
<1> QED  BY <1>2, <1>3, <1>4, <1>5, <1>6, <1>10, <1>11, <1>12 DEF Withdrew

-----------------------------------------------------------------------------
(* References taken and dropped.                                           *)

\* SameBut is transitive.
LEMMA SameButTransitive ==
    ASSUME NEW f, NEW g, NEW h, NEW F, NEW G, NEW H, SameBut(f, g, F), SameBut(g, h, G),
           F \cup G \subseteq H
    PROVE  SameBut(f, h, H)
    BY DEF SameBut

\* The fields that Ref writes.
LEMMA RefFields ==
    ASSUME NEW h \in Heap, NEW c \in Contexts, NEW g, g = Ref(h, c)
    PROVE  g \in Heap /\ SameBut(g, h, {"ref"}) /\ g.ref = [h.ref EXCEPT ![c] = @ + 1]
<1>1. c # Null
    BY AddressesDiffer
<1>2. h.ref[c] \in Int
    BY DEF Heap
<1>3. g = [h EXCEPT !.ref[c] = h.ref[c] + 1]
    BY <1>1 DEF Ref
<1>4. g \in Heap
    BY <1>2, <1>3, PutContext
<1>5. DOMAIN h = Fields
    BY HeapFields
<1> QED  BY <1>3, <1>4, <1>5 DEF SameBut, Fields

\* A reference that is not the last one is dropped.
LEMMA UnrefFields ==
    ASSUME NEW h \in Heap, NEW c \in Contexts, h.ref[c] # 1, NEW g, g = Unref(h, c)
    PROVE  g \in Heap /\ SameBut(g, h, {"ref"}) /\ g.ref = [h.ref EXCEPT ![c] = @ - 1]
<1>1. c # Null
    BY AddressesDiffer
<1>2. h.ref[c] \in Int
    BY DEF Heap
<1>3. g = [h EXCEPT !.ref[c] = h.ref[c] - 1]
    BY <1>1 DEF Unref
<1>4. g \in Heap
    BY <1>2, <1>3, PutContext
<1>5. DOMAIN h = Fields
    BY HeapFields
<1> QED  BY <1>3, <1>4, <1>5 DEF SameBut, Fields

\* A referenced context may be referenced once more.
LEMMA RefContexts ==
    ASSUME NEW h, NEW g, h.ref \in [Contexts -> Int], ContextsOK(h), NEW c \in Contexts, h.ref[c] >= 1,
           SameBut(g, h, (ContextFields \cap {"ref"}) \cup (Fields \ ContextFields)),
           g.ref = [h.ref EXCEPT ![c] = @ + 1]
    PROVE  ContextsOK(g)
<1>1. /\ g.state = h.state /\ g.cnext = h.cnext /\ g.cprev = h.cprev /\ g.chead = h.chead
      /\ g.closedCtx = h.closedCtx
    BY DEF SameBut, Fields, ContextFields
<1>2. LiveList(g)
    BY <1>1, LiveListAs DEF ContextsOK
<1>3. ClosedContexts(g) = ClosedContexts(h)
    BY <1>1 DEF ClosedContexts
<1>4. \A d \in Contexts : g.ref[d] >= 0 /\ (g.ref[d] # 0 <=> h.ref[d] # 0)
    BY DEF ContextsOK
<1> QED  BY <1>1, <1>2, <1>3, <1>4 DEF ContextsOK

\* What us_socket_close and us_socket_detach do to the lists.
Cut(h, s) == IF h.low[s] = 1 THEN CutQueued(h, s) ELSE CutRegular(h, h.ctx[s], s)

\* Closing cuts the socket out of its list or the queue.
LEMMA UnlinkedCut ==
    ASSUME NEW h, NEW s
    PROVE  Unlinked(h, s) = Unref(Cut(h, s), h.ctx[s])
    BY Cuts DEF Unlinked, Cut

\* ... and so takes it out.
LEMMA CutRemoved ==
    ASSUME NEW h, Sound(h), NEW K, NEW r, Lists(h, K, r), NEW s \in Sockets \ K, Open(h, s),
           h.type[s] # "listen", NEW k, k = Cut(h, s)
    PROVE  Removed(k, h, s) /\ ContextsAs(k, h)
<1>1. h \in Heap /\ h.ctx[s] \in Contexts
    BY DEF Sound, Open
<1>2. CASE h.low[s] = 1
    <2>1. s \in Queued(h) \ K /\ k = CutQueued(h, s)
        BY <1>2 DEF Queued, Cut
    <2> QED  BY <1>1, <2>1, CutQueuedRemoved
<1>3. CASE h.low[s] # 1
    <2>1. PICK c \in Contexts : c = h.ctx[s]
        BY <1>1
    <2>2. s \in Regular(h, c) \ K /\ k = CutRegular(h, c, s)
        BY <1>3, <2>1 DEF Regular, Cut
    <2> QED  BY <1>1, <2>2, CutRegularRemoved
<1> QED  BY <1>2, <1>3

\* What is removed from a heap is removed from one with other contexts.
LEMMA RemovedFrom ==
    ASSUME NEW k, NEW g, NEW s \in Sockets, Removed(k, g, s), NEW h, SocketsAs(g, h)
    PROVE  Removed(k, h, s)
<1>1. /\ g.type = h.type /\ g.ctx = h.ctx /\ g.prev = h.prev /\ g.next = h.next
      /\ g.low = h.low /\ g.head = h.head /\ g.lhead = h.lhead
      /\ g.iter = h.iter /\ g.lowHead = h.lowHead
    BY Sides
<1>2. SameBut(k, g, ContextFields \cup {"prev", "next", "low", "head", "lhead", "lowHead", "iter"})
    BY DEF Removed
<1>3. SameBut(k, h, ContextFields \cup {"prev", "next", "low", "head", "lhead", "lowHead", "iter"})
    BY <1>2 DEF SocketsAs, SameBut
<1>4. \A t \in Sockets : Open(g, t) <=> Open(h, t)
    BY <1>1 DEF Open, IsClosed
<1>5. /\ \A c \in Contexts : /\ s \in Regular(g, c) <=> s \in Regular(h, c)
                             /\ s \in Listening(g, c) <=> s \in Listening(h, c)
      /\ s \in Queued(g) <=> s \in Queued(h)
    BY <1>1, <1>4 DEF Regular, Listening, Queued
<1> QED  BY <1>1, <1>3, <1>5 DEF Removed

\* Dropping a reference leaves the sockets alone and frees no context.
LEMMA UnrefHomes ==
    ASSUME NEW h \in Heap, ContextsOK(h), NEW c \in Contexts, h.ref[c] # 0, Homes(h),
           \A s \in Sockets : h.type[s] # "free" => h.ctx[s] \in Contexts,
           NEW g, g = Unref(h, c)
    PROVE  /\ g \in Heap /\ SocketsAs(g, h) /\ ContextsOK(g) /\ Homes(g)
           /\ g.ref = [h.ref EXCEPT ![c] = @ - 1]
           /\ \A d \in Contexts : h.state[d] # "none" => g.state[d] # "none"
           /\ Fades(h, g)
<1>1. /\ g \in Heap /\ SocketsAs(g, h) /\ ContextsOK(g)
      /\ g.ref = [h.ref EXCEPT ![c] = @ - 1]
      /\ g.state = [h.state EXCEPT ![c] = IF h.ref[c] = 1 THEN "closed" ELSE @]
    BY UnrefContexts
<1>2. h.state \in [Contexts -> {"none", "live", "closed"}]
    BY DEF Heap
<1>3. \A d \in Contexts : h.state[d] # "none" => g.state[d] # "none"
    BY <1>1, <1>2
<1>4. g.type = h.type /\ g.ctx = h.ctx
    BY <1>1, Sides
<1>5. Homes(g)
    BY <1>3, <1>4 DEF Homes
<1>6. Fades(h, g)
    <2>1. h.state[c] = "live"
        BY DEF ContextsOK
    <2>2. \A d \in Contexts : g.state[d] = h.state[d] \/ (d = c /\ g.state[d] = "closed")
        BY <1>1, <1>2
    <2> QED  BY <2>1, <2>2 DEF Fades
<1> QED  BY <1>1, <1>3, <1>5, <1>6

-----------------------------------------------------------------------------
(* Closing.                                                                *)

\* The fields that the closed mark and the closed list are written to.
LEMMA MarkedFields ==
    ASSUME NEW u \in Heap, NEW s \in Sockets, u.ctx[s] \in Contexts,
           NEW w, w = MarkClosed(PollStop(u, s), s),
           NEW g, g = MarkClosed(LinkClosed(PollStop(u, s), s), s)
    PROVE  /\ w \in Heap /\ SameBut(w, u, {"prev", "ready"}) /\ IsClosed(w, s)
           /\ \A t \in Sockets \ {s} : w.prev[t] = u.prev[t]
           /\ g \in Heap /\ SameBut(g, w, {"next", "closed"})
           /\ g.closed = s /\ g.next[s] = w.closed
           /\ \A t \in Sockets \ {s} : g.next[t] = w.next[t]
<1>1. PICK a : a = [u EXCEPT !.ready[s] = {}]
    OBVIOUS
<1>2. a \in Heap
    BY <1>1, PutSocket
<1>3. DOMAIN u = Fields /\ DOMAIN a = Fields
    BY <1>2, HeapFields
<1>4. a.ctx = u.ctx /\ a.prev = u.prev /\ a.next = u.next /\ a.closed = u.closed
    BY <1>1, <1>3 DEF Fields
<1>5. w = [a EXCEPT !.prev[s] = a.ctx[s]]
    BY <1>1 DEF MarkClosed, PollStop
<1>6. w \in Heap
    BY <1>2, <1>4, <1>5, PutSocket
<1>7. PICK b : b = [a EXCEPT !.next[s] = a.closed]
    OBVIOUS
<1>8. b \in Heap
    <2>1. a.closed \in SocketPtr
        BY <1>2 DEF Heap
    <2> QED  BY <1>2, <1>7, <2>1, PutSocket
<1>9. PICK d : d = [b EXCEPT !.closed = s]
    OBVIOUS
<1>10. d \in Heap
    BY <1>8, <1>9, PutSocket DEF SocketPtr
<1>11. DOMAIN b = Fields /\ DOMAIN d = Fields /\ DOMAIN w = Fields
    BY <1>6, <1>8, <1>10, HeapFields
<1>12. LinkClosed(PollStop(u, s), s) = d
    BY <1>1, <1>3, <1>7, <1>9, <1>11 DEF LinkClosed, PollStop, Fields
<1>13. g = [d EXCEPT !.prev[s] = d.ctx[s]]
    BY <1>12 DEF MarkClosed
<1>14. d.ctx = u.ctx
    BY <1>3, <1>4, <1>7, <1>9, <1>11 DEF Fields
<1>15. g \in Heap
    BY <1>10, <1>13, <1>14, PutSocket
<1>16. a.prev \in [Sockets -> SocketPtr \cup Contexts] /\ a.next \in [Sockets -> SocketPtr]
    BY <1>2 DEF Heap
<1>17. SameBut(w, u, {"prev", "ready"})
    BY <1>1, <1>3, <1>5 DEF SameBut, Fields
<1>18. /\ w.prev = [a.prev EXCEPT ![s] = a.ctx[s]] /\ w.ctx = a.ctx /\ w.next = a.next
       /\ w.closed = a.closed
    BY <1>3, <1>5 DEF Fields
<1>19. IsClosed(w, s) /\ \A t \in Sockets \ {s} : w.prev[t] = u.prev[t]
    BY <1>4, <1>16, <1>18 DEF IsClosed
<1>20. /\ g.closed = s /\ g.next = [a.next EXCEPT ![s] = a.closed]
       /\ g.prev = [a.prev EXCEPT ![s] = a.ctx[s]]
    BY <1>3, <1>4, <1>7, <1>9, <1>11, <1>13, <1>14 DEF Fields
<1>21. SameBut(g, w, {"next", "closed"})
    <2>1. SameBut(b, a, {"next"}) /\ SameBut(d, b, {"closed"})
        BY <1>3, <1>7, <1>9, <1>11 DEF SameBut, Fields
    <2>2. SameBut(d, a, {"next", "closed"})
        BY <2>1, SameButTransitive
    <2>3. SameBut(g, d, {"prev"}) /\ SameBut(w, a, {"prev"})
        BY <1>3, <1>5, <1>11, <1>13 DEF SameBut, Fields
    <2> QED  BY <1>18, <1>20, <2>2, <2>3 DEF SameBut
<1> QED  BY <1>6, <1>15, <1>16, <1>17, <1>18, <1>19, <1>20, <1>21

\* us_socket_close up to its callback.
LEMMA CloseBeginMoves ==
    ASSUME NEW h, NEW K, NEW own, NEW r, NEW m, Heaped(h, K, own, r, m),
           NEW s \in Sockets, Open(h, s), h.type[s] # "listen", NEW g, g = CloseBegin(h, s)
    PROVE  Moves(h, K, own, r, g, K \cup {s}, own, m) /\ IsClosed(g, s) /\ g.type = h.type
           /\ Shuts(h, g, s)
<1>1. /\ Sound(h) /\ Lists(h, K, r) /\ Stale(h, K) /\ Homes(h) /\ ContextsOK(h) /\ h \in Heap
      /\ Covered(h, K, own, m.plain)
    BY DEF Heaped, Sound
<1>2. s \notin K /\ ~IsClosed(h, s) /\ h.type[s] # "free"
    BY <1>1 DEF Stale, Dead, Open
<1>3. PICK c \in Contexts : c = h.ctx[s]
    BY <1>1, <1>2 DEF Sound
<1>4. h.ref \in [Contexts -> Int]
    BY <1>1 DEF Heap
<1>5. h.ref[c] >= 1
    <2>1. Holding(h, K, s)
        BY <1>2 DEF Holding
    <2> QED  BY <1>1, <1>3, <1>4, <2>1, HeldReferenced
<1>6. PICK f : f = Ref(h, c)
    OBVIOUS
<1>7. f \in Heap /\ SameBut(f, h, {"ref"}) /\ f.ref = [h.ref EXCEPT ![c] = @ + 1]
    BY <1>1, <1>6, RefFields
<1>8. SocketsAs(f, h)
    BY <1>7 DEF SocketsAs, SameBut, ContextFields
<1>9. Sound(f) /\ Lists(f, K, r) /\ Open(f, s) /\ f.type[s] # "listen" /\ f.ctx[s] = c
    <2>1. Sound(f)
        BY <1>1, <1>6, RefSound DEF ContextPtr
    <2>2. f.type = h.type /\ f.ctx = h.ctx /\ f.prev = h.prev
        BY <1>8, Sides
    <2>3. Lists(f, K, r)
        BY <1>1, <1>8, ListsAs
    <2> QED  BY <1>3, <2>1, <2>2, <2>3 DEF Open, IsClosed
<1>10. PICK k : k = Cut(f, s)
    OBVIOUS
<1>11. Removed(k, f, s) /\ ContextsAs(k, f)
    BY <1>2, <1>9, <1>10, CutRemoved
<1>12. Removed(k, h, s)
    BY <1>8, <1>11, RemovedFrom
<1>13. PICK u : u = Unref(k, c)
    OBVIOUS
<1>14. k \in Heap /\ k.ref = f.ref /\ k.ref[c] = h.ref[c] + 1
    BY <1>4, <1>7, <1>11, Sides DEF Removed
<1>15. u \in Heap /\ SameBut(u, k, {"ref"}) /\ u.ref = [k.ref EXCEPT ![c] = @ - 1]
    <2>1. k.ref[c] # 1
        BY <1>4, <1>5, <1>14
    <2> QED  BY <1>13, <1>14, <2>1, UnrefFields
<1>16. u = Unlinked(f, s)
    BY <1>9, <1>10, <1>13, UnlinkedCut
<1>17. g = MarkClosed(PollStop(u, s), s)
    BY <1>3, <1>6, <1>16 DEF CloseBegin
<1>18. u.ctx = h.ctx
    <2>1. u.ctx = k.ctx
        BY <1>15 DEF SameBut, Fields
    <2>2. k.ctx = h.ctx
        BY <1>12 DEF Removed, SameBut, Fields, ContextFields
    <2> QED  BY <2>1, <2>2
<1>19. g \in Heap /\ SameBut(g, u, {"prev", "ready"}) /\ IsClosed(g, s)
       /\ \A t \in Sockets \ {s} : g.prev[t] = u.prev[t]
    BY <1>3, <1>15, <1>17, <1>18, MarkedFields
<1>20. u.prev = k.prev
    BY <1>15 DEF SameBut, Fields
<1>21. SameBut(g, k, ContextFields \cup {"prev", "ready"})
    BY <1>15, <1>19, SameButTransitive DEF ContextFields
<1>22. Withdrawn(g, h, s)
    BY <1>12, <1>19, <1>20, <1>21 DEF Withdrawn
<1>23. /\ Lists(g, K \cup {s}, r) /\ SweepKept(h, g, r, r) /\ Modes(g, m)
       /\ Stale(g, K \cup {s})
       /\ \A t \in Sockets : HoldsAs(g, K \cup {s}, h, K, t)
       /\ g.type = h.type /\ g.ctx = h.ctx /\ g.liter = h.liter /\ g.poll = h.poll
       /\ \A t \in Sockets : IsClosed(h, t) => IsClosed(g, t)
       /\ \A t \in Sockets \ {s} : IsClosed(g, t) => IsClosed(h, t)
       /\ \A t \in Sockets : Open(g, t) /\ g.low[t] = 1 => Open(h, t) /\ h.low[t] = 1
    <2>1. Withdrew(g, h, K, r, m, s)
        BY <1>22, Withdraw
    <2> QED  BY <2>1 DEF Withdrew
<1>24. g.ref = h.ref
    <2>1. g.ref = u.ref
        BY <1>19 DEF SameBut, Fields
    <2>2. u.ref = [[h.ref EXCEPT ![c] = @ + 1] EXCEPT ![c] = @ - 1]
        BY <1>7, <1>14, <1>15
    <2>3. \A d \in Contexts : u.ref[d] = h.ref[d]
        BY <1>4, <2>2
    <2>4. u.ref \in [Contexts -> Int]
        BY <1>15 DEF Heap
    <2> QED  BY <1>4, <2>1, <2>3, <2>4
<1>25. ContextsAs(g, h)
    <2>1. /\ k.state = h.state /\ k.cnext = h.cnext /\ k.cprev = h.cprev /\ k.chead = h.chead
          /\ k.closedCtx = h.closedCtx
        <3>1. /\ k.state = f.state /\ k.cnext = f.cnext /\ k.cprev = f.cprev /\ k.chead = f.chead
              /\ k.closedCtx = f.closedCtx
            BY <1>11, Sides
        <3> QED  BY <1>7, <3>1 DEF SameBut, Fields
    <2>2. SameBut(g, k, {"ref", "prev", "ready"})
        BY <1>15, <1>19, SameButTransitive
    <2>3. /\ g.state = h.state /\ g.cnext = h.cnext /\ g.cprev = h.cprev /\ g.chead = h.chead
          /\ g.closedCtx = h.closedCtx
        BY <2>1, <2>2 DEF SameBut, Fields
    <2> QED  BY <1>24, <2>3, Sides
<1>26. ContextsOK(g) /\ g.state = h.state
    BY <1>1, <1>25, ContextsOKAs, Sides
<1>27. Covered(g, K \cup {s}, own, m.plain)
    BY <1>1, <1>23, <1>24, CoveredSame
<1>28. Homes(g)
    BY <1>1, <1>23, <1>26 DEF Homes
<1>29. Sound(g)
    BY <1>1, <1>2, CloseSound
<1>30. Keeps(h, g)
    BY <1>23, <1>26 DEF Keeps
<1>31. Heaped(g, K \cup {s}, own, r, m)
    BY <1>23, <1>26, <1>27, <1>28, <1>29 DEF Heaped
<1>32. Shuts(h, g, s)
    BY <1>2, <1>19, <1>23, <1>26 DEF Shuts, Spares, Fades
<1> QED  BY <1>19, <1>23, <1>30, <1>31, <1>32 DEF Moves

\* A closed socket is pushed on the closed list and drops its reference: what
\* keeps holding when s does not.
LEMMA LinkClosedFields ==
    ASSUME NEW h \in Heap, NEW s \in Sockets, NEW l, l = LinkClosed(h, s)
    PROVE  /\ l \in Heap /\ SameBut(l, h, {"next", "closed"})
           /\ l.closed = s /\ l.next[s] = h.closed
           /\ \A t \in Sockets \ {s} : l.next[t] = h.next[t]
<1>1. PICK b : b = [h EXCEPT !.next[s] = h.closed]
    OBVIOUS
<1>2. b \in Heap
    <2>1. h.closed \in SocketPtr
        BY DEF Heap
    <2> QED  BY <1>1, <2>1, PutSocket
<1>3. DOMAIN h = Fields /\ DOMAIN b = Fields
    BY <1>2, HeapFields
<1>4. l = [b EXCEPT !.closed = s]
    BY <1>1 DEF LinkClosed
<1>5. l \in Heap
    BY <1>2, <1>4, PutSocket DEF SocketPtr
<1>6. l.next = [h.next EXCEPT ![s] = h.closed] /\ l.closed = s
    BY <1>1, <1>3, <1>4 DEF Fields
<1>7. h.next \in [Sockets -> SocketPtr]
    BY DEF Heap
<1>8. SameBut(l, h, {"next", "closed"})
    BY <1>1, <1>3, <1>4 DEF SameBut, Fields
<1> QED  BY <1>5, <1>6, <1>7, <1>8

\* There is a rank below all others.
LEMMA LowerRank ==
    ASSUME NEW r \in [Sockets -> Int], NEW s \in Sockets
    PROVE  \E q, m : Reranked(q, r, s, m) /\ \A x \in Sockets \ {s} : q[x] = r[x]
<1>1. PICK m \in Int : \A x \in Sockets : m < r[x]
    BY RankBelow, DistinctAddresses
<1>2. PICK q : q = [r EXCEPT ![s] = m]
    OBVIOUS
<1>3. Reranked(q, r, s, m)
    BY <1>1, <1>2 DEF Reranked
<1> QED  BY <1>2, <1>3

\* Where the sockets are once s is on the closed list.
LEMMA ClosedMoves ==
    ASSUME NEW w, NEW L, NEW r, Lists(w, L, r), NEW s \in Sockets, s \in L, s \in Dead(w),
           NEW g, SameBut(g, w, ContextFields \cup {"next", "closed"}),
           g.closed = s, g.next[s] = w.closed, \A t \in Sockets \ {s} : g.next[t] = w.next[t]
    PROVE  \E q : Lists(g, L \ {s}, q) /\ SweepKept(w, g, r, q)
<1>1. r \in [Sockets -> Int] /\ w.type[s] # "free" /\ IsClosed(w, s)
    BY DEF Lists, Dead
<1>2. PICK q, m : Reranked(q, r, s, m) /\ \A x \in Sockets \ {s} : q[x] = r[x]
    BY <1>1, LowerRank
<1>3. /\ g.type = w.type /\ g.ctx = w.ctx /\ g.prev = w.prev /\ g.low = w.low /\ g.iter = w.iter
      /\ g.due = w.due
    BY DEF SameBut, Fields, ContextFields
<1>4. SameBut(g, w, ContextFields \cup {"next", "prev", "closed", "ready"})
    BY DEF SameBut
<1>5. IsClosed(g, s)
    BY <1>1, <1>3 DEF IsClosed
<1>6. \A t \in Sockets \ {s} : g.next[t] = w.next[t] /\ g.prev[t] = w.prev[t]
    BY <1>3
<1>7. Lists(g, L \ {s}, q)
    <2>1. Reranked(q, r, s, m)
        BY <1>2
    <2>2. w.type[s] # "free"
        BY <1>1
    <2> HIDE DEF Reranked
    <2> QED  BY <1>4, <1>5, <1>6, <2>1, <2>2, ClosedLists
<1>8. \A c \in Contexts : Regular(g, c) = Regular(w, c)
    BY <1>3 DEF Regular, Open, IsClosed
<1>9. \A c \in Contexts : \A x \in Regular(w, c) : q[x] = r[x]
    BY <1>1, <1>2 DEF Regular, Open
<1>10. SweepKept(w, g, r, q)
    BY <1>3, <1>8, <1>9, SweepSame
<1> QED  BY <1>7, <1>10

\* The end of us_socket_close.
LEMMA CloseEndMoves ==
    ASSUME NEW h, NEW K, NEW own, NEW r, NEW m, Heaped(h, K, own, r, m),
           NEW s \in K, NEW g, g = CloseEnd(h, s)
    PROVE  Moves(h, K, own, r, g, K \ {s}, own, m) /\ Spares(h, g, {}) /\ Fades(h, g)
<1>1. /\ Sound(h) /\ Lists(h, K, r) /\ Stale(h, K) /\ Homes(h) /\ ContextsOK(h) /\ h \in Heap
      /\ Covered(h, K, own, m.plain) /\ Modes(h, m)
    BY DEF Heaped, Sound
<1>2. s \in Sockets /\ s \in Dead(h) /\ IsClosed(h, s) /\ h.type[s] # "free"
    BY <1>1 DEF Stale, Dead
<1>3. PICK c \in Contexts : c = h.ctx[s]
    BY <1>1, <1>2 DEF Sound
<1>4. h.ref \in [Contexts -> Int]
    BY <1>1 DEF Heap
<1>5. h.ref[c] >= 1
    <2>1. Holding(h, K, s)
        BY <1>2 DEF Holding
    <2> QED  BY <1>1, <1>2, <1>3, <1>4, <2>1, HeldReferenced
<1>6. PICK l : l = LinkClosed(h, s)
    OBVIOUS
<1>7. /\ l \in Heap /\ SameBut(l, h, {"next", "closed"})
      /\ l.closed = s /\ l.next[s] = h.closed
      /\ \A t \in Sockets \ {s} : l.next[t] = h.next[t]
    BY <1>1, <1>2, <1>6, LinkClosedFields
<1>8. /\ l.type = h.type /\ l.ctx = h.ctx /\ l.prev = h.prev /\ l.low = h.low /\ l.poll = h.poll
      /\ l.liter = h.liter /\ l.state = h.state /\ l.ref = h.ref
    BY <1>7 DEF SameBut, Fields
<1>9. ContextsOK(l) /\ Homes(l)
    <2>1. ContextsAs(l, h)
        BY <1>7 DEF ContextsAs, SameBut, Fields, ContextFields
    <2>2. ContextsOK(l)
        BY <1>1, <2>1, ContextsOKAs
    <2> QED  BY <1>1, <1>8, <2>2 DEF Homes
<1>10. g = Unref(l, c)
    BY <1>3, <1>6 DEF CloseEnd
<1>11. /\ g \in Heap /\ SocketsAs(g, l) /\ ContextsOK(g) /\ Homes(g)
       /\ g.ref = [l.ref EXCEPT ![c] = @ - 1]
       /\ \A d \in Contexts : l.state[d] # "none" => g.state[d] # "none"
       /\ Fades(l, g)
    <2>1. l.ref[c] # 0
        BY <1>4, <1>5, <1>8
    <2>2. \A t \in Sockets : l.type[t] # "free" => l.ctx[t] \in Contexts
        BY <1>1, <1>8 DEF Sound
    <2> QED  BY <1>7, <1>9, <1>10, <2>1, <2>2, UnrefHomes
<1>12. /\ g.type = l.type /\ g.ctx = l.ctx /\ g.prev = l.prev /\ g.low = l.low /\ g.poll = l.poll
       /\ g.liter = l.liter /\ g.next = l.next /\ g.closed = l.closed
    BY <1>11, Sides
<1>13. SameBut(g, h, ContextFields \cup {"next", "closed"})
    BY <1>7, <1>11, SameButTransitive DEF SocketsAs
<1>14. PICK q : Lists(g, K \ {s}, q) /\ SweepKept(h, g, r, q)
    BY <1>1, <1>2, <1>7, <1>12, <1>13, ClosedMoves
<1>15. Stale(g, K \ {s})
    <2>1. \A t \in K : t \in Dead(h) /\ t \in Sockets
        BY <1>1 DEF Stale, Dead
    <2> QED  BY <1>1, <1>7, <1>8, <1>12, <2>1 DEF Stale, Dead, IsClosed
<1>16. Modes(g, m)
    BY <1>1, <1>8, <1>12 DEF Modes, Open, IsClosed
<1>17. Covered(g, K \ {s}, own, m.plain)
    <2>1. Holding(h, K, s) /\ ~Holding(g, K \ {s}, s)
        BY <1>2, <1>8, <1>12 DEF Holding, IsClosed
    <2>2. \A t \in Sockets \ {s} : HoldsAs(g, K \ {s}, h, K, t)
        BY <1>8, <1>12 DEF HoldsAs, Holding, IsClosed
    <2>3. g.ref = [h.ref EXCEPT ![c] = @ - 1]
        BY <1>8, <1>11
    <2> QED  BY <1>1, <1>2, <1>3, <1>4, <2>1, <2>2, <2>3, CoveredDrop
<1>18. Sound(g)
    BY <1>1, <1>2, CloseSound
<1>19. Keeps(h, g)
    BY <1>8, <1>11, <1>12 DEF Keeps, Open, IsClosed
<1>20. Heaped(g, K \ {s}, own, q, m)
    BY <1>11, <1>14, <1>15, <1>16, <1>17, <1>18 DEF Heaped
<1>21. Spares(h, g, {})
    BY <1>8, <1>12 DEF Spares, IsClosed
<1>22. Fades(h, g)
    BY <1>8, <1>11 DEF Fades
<1> QED  BY <1>14, <1>19, <1>20, <1>21, <1>22 DEF Moves

\* An open socket goes from its list straight to the closed list.
LEMMA BuryMoves ==
    ASSUME NEW h, NEW K, NEW own, NEW r, NEW m, Heaped(h, K, own, r, m),
           NEW s \in Sockets, Open(h, s), NEW k, Removed(k, h, s), ContextsAs(k, h),
           NEW u, u = Unref(k, h.ctx[s]),
           NEW g, g = MarkClosed(LinkClosed(PollStop(u, s), s), s), Sound(g)
    PROVE  /\ Moves(h, K, own, r, g, K, own, m) /\ IsClosed(g, s)
           /\ g.type = h.type /\ g.ctx = h.ctx
           /\ \A t \in Sockets \ {s} : IsClosed(g, t) => IsClosed(h, t)
           /\ Shuts(h, g, s)
<1>1. /\ Sound(h) /\ Lists(h, K, r) /\ Stale(h, K) /\ Homes(h) /\ ContextsOK(h) /\ h \in Heap
      /\ Covered(h, K, own, m.plain)
    BY DEF Heaped, Sound
<1>2. s \notin K /\ ~IsClosed(h, s) /\ h.type[s] # "free"
    BY <1>1 DEF Stale, Dead, Open
<1>3. PICK c \in Contexts : c = h.ctx[s]
    BY <1>1, <1>2 DEF Sound
<1>4. h.ref \in [Contexts -> Int]
    BY <1>1 DEF Heap
<1>5. h.ref[c] >= 1
    <2>1. Holding(h, K, s)
        BY <1>2 DEF Holding
    <2> QED  BY <1>1, <1>3, <1>4, <2>1, HeldReferenced
<1>6. k \in Heap /\ k.type = h.type /\ k.ctx = h.ctx
    BY DEF Removed, SameBut, Fields, ContextFields
<1>7. k.ref = h.ref /\ k.state = h.state /\ ContextsOK(k) /\ Homes(k)
    <2>1. k.ref = h.ref /\ k.state = h.state
        BY Sides
    <2>2. ContextsOK(k)
        BY <1>1, ContextsOKAs
    <2> QED  BY <1>1, <1>6, <2>1, <2>2 DEF Homes
<1>8. /\ u \in Heap /\ SocketsAs(u, k) /\ ContextsOK(u) /\ Homes(u)
      /\ u.ref = [k.ref EXCEPT ![c] = @ - 1]
      /\ \A d \in Contexts : k.state[d] # "none" => u.state[d] # "none"
      /\ Fades(k, u)
    <2>1. k.ref[c] # 0
        BY <1>4, <1>5, <1>7
    <2>2. \A t \in Sockets : k.type[t] # "free" => k.ctx[t] \in Contexts
        BY <1>1, <1>6 DEF Sound
    <2> QED  BY <1>3, <1>6, <1>7, <2>1, <2>2, UnrefHomes
<1>9. PICK w : w = MarkClosed(PollStop(u, s), s)
    OBVIOUS
<1>10. u.ctx[s] \in Contexts
    BY <1>3, <1>6, <1>8, Sides
<1>11. /\ w \in Heap /\ SameBut(w, u, {"prev", "ready"}) /\ IsClosed(w, s)
       /\ \A t \in Sockets \ {s} : w.prev[t] = u.prev[t]
       /\ g \in Heap /\ SameBut(g, w, {"next", "closed"})
       /\ g.closed = s /\ g.next[s] = w.closed
       /\ \A t \in Sockets \ {s} : g.next[t] = w.next[t]
    BY <1>8, <1>9, <1>10, MarkedFields
<1>12. Withdrawn(w, h, s)
    <2>1. u.prev = k.prev
        BY <1>8, Sides
    <2>2. SameBut(w, k, ContextFields \cup {"prev", "ready"})
        BY <1>8, <1>11, SameButTransitive DEF SocketsAs
    <2> QED  BY <1>11, <2>1, <2>2 DEF Withdrawn
<1>13. /\ Lists(w, K \cup {s}, r) /\ SweepKept(h, w, r, r) /\ Modes(w, m) /\ Stale(w, K)
       /\ \A t \in Sockets : HoldsAs(w, K, h, K, t) \/ t = s
       /\ w.type = h.type /\ w.ctx = h.ctx /\ w.liter = h.liter /\ w.poll = h.poll
       /\ \A t \in Sockets : IsClosed(h, t) => IsClosed(w, t)
       /\ \A t \in Sockets \ {s} : IsClosed(w, t) => IsClosed(h, t)
       /\ \A t \in Sockets : Open(w, t) /\ w.low[t] = 1 => Open(h, t) /\ h.low[t] = 1
    <2>1. Withdrew(w, h, K, r, m, s)
        BY <1>12, Withdraw
    <2> QED  BY <2>1 DEF Withdrew
<1>14. s \in Dead(w)
    BY <1>2, <1>11, <1>13 DEF Dead
<1>15. PICK q : Lists(g, K, q) /\ SweepKept(w, g, r, q)
    <2>1. SameBut(g, w, ContextFields \cup {"next", "closed"})
        BY <1>11 DEF SameBut
    <2>2. \E q : Lists(g, (K \cup {s}) \ {s}, q) /\ SweepKept(w, g, r, q)
        BY <1>11, <1>13, <1>14, <2>1, ClosedMoves
    <2>3. (K \cup {s}) \ {s} = K
        BY <1>2
    <2> QED  BY <2>2, <2>3
<1>16. /\ g.type = w.type /\ g.ctx = w.ctx /\ g.prev = w.prev /\ g.low = w.low /\ g.poll = w.poll
       /\ g.liter = w.liter /\ g.state = w.state /\ g.ref = w.ref
    BY <1>11 DEF SameBut, Fields
<1>17. w.state = u.state /\ w.ref = u.ref
    BY <1>11 DEF SameBut, Fields
<1>18. Keeps(h, w)
    BY <1>7, <1>8, <1>13, <1>17 DEF Keeps
<1>19. Keeps(h, g)
    BY <1>7, <1>8, <1>13, <1>16, <1>17 DEF Keeps, Open, IsClosed
<1>20. SweepKept(h, g, r, q)
    BY <1>13, <1>15, <1>18, SweepKeptTransitive
<1>21. Stale(g, K)
    <2>1. \A t \in K : t \in Sockets \ {s}
        BY <1>2, <1>13 DEF Stale, Dead
    <2> QED  BY <1>11, <1>13, <1>16, <2>1 DEF Stale, Dead, IsClosed
<1>22. Modes(g, m)
    BY <1>13, <1>16 DEF Modes, Open, IsClosed
<1>23. ContextsOK(g) /\ Homes(g)
    <2>1. ContextsAs(g, u)
        <3>1. SameBut(g, u, {"next", "closed", "prev", "ready"})
            BY <1>11, SameButTransitive
        <3> QED  BY <3>1 DEF ContextsAs, SameBut, Fields, ContextFields
    <2>2. u.type = h.type /\ u.ctx = h.ctx
        BY <1>6, <1>8, Sides
    <2> QED  BY <1>8, <1>13, <1>16, <1>17, <2>1, <2>2, ContextsOKAs DEF Homes
<1>24. Covered(g, K, own, m.plain)
    <2>1. Holding(h, K, s) /\ ~Holding(g, K, s)
        BY <1>2, <1>11, <1>16 DEF Holding, IsClosed
    <2>2. \A t \in Sockets \ {s} : HoldsAs(g, K, h, K, t)
        BY <1>13, <1>16 DEF HoldsAs, Holding, IsClosed
    <2>3. g.ref = [h.ref EXCEPT ![c] = @ - 1]
        BY <1>7, <1>8, <1>16, <1>17
    <2> QED  BY <1>1, <1>3, <1>4, <2>1, <2>2, <2>3, CoveredDrop
<1>25. Heaped(g, K, own, q, m)
    BY <1>15, <1>21, <1>22, <1>23, <1>24 DEF Heaped
<1>26. Fades(h, g)
    BY <1>7, <1>8, <1>16, <1>17 DEF Fades
<1>27. IsClosed(g, s) /\ \A t \in Sockets : IsClosed(g, t) <=> IsClosed(w, t)
    BY <1>11, <1>16 DEF IsClosed
<1>28. Shuts(h, g, s)
    BY <1>2, <1>13, <1>16, <1>26, <1>27 DEF Shuts, Spares
<1> QED  BY <1>11, <1>13, <1>16, <1>19, <1>20, <1>25, <1>28 DEF Moves, IsClosed

\* us_socket_detach and us_listen_socket_close.
LEMMA DetachMoves ==
    ASSUME NEW h, NEW K, NEW own, NEW r, NEW m, Heaped(h, K, own, r, m),
           NEW s \in Sockets, Open(h, s), h.type[s] # "listen", NEW g, g = Detach(h, s)
    PROVE  Moves(h, K, own, r, g, K, own, m) /\ Shuts(h, g, s)
<1>1. Sound(h) /\ Lists(h, K, r) /\ s \notin K /\ ~IsClosed(h, s)
    BY DEF Heaped, Stale, Dead, Open
<1>2. PICK k : k = Cut(h, s)
    OBVIOUS
<1>3. Removed(k, h, s) /\ ContextsAs(k, h)
    BY <1>1, <1>2, CutRemoved
<1>4. PICK u : u = Unref(k, h.ctx[s])
    OBVIOUS
<1>5. g = MarkClosed(LinkClosed(PollStop(u, s), s), s)
    BY <1>1, <1>2, <1>4, UnlinkedCut DEF Detach
<1>6. Sound(g)
    BY <1>1, CloseSound
<1> QED  BY <1>3, <1>4, <1>5, <1>6, BuryMoves

\* us_listen_socket_close leaves a heap and keeps what the frames rely on.
LEMMA ListenCloseMoves ==
    ASSUME NEW h, NEW K, NEW own, NEW r, NEW m, Heaped(h, K, own, r, m),
           NEW s \in Sockets, Open(h, s), h.type[s] = "listen", NEW g, g = ListenClose(h, s)
    PROVE  /\ Moves(h, K, own, r, g, K, own, m) /\ IsClosed(g, s)
           /\ g.type = h.type /\ g.ctx = h.ctx
           /\ \A t \in Sockets \ {s} : IsClosed(g, t) => IsClosed(h, t)
           /\ Shuts(h, g, s)
<1>1. Sound(h) /\ h \in Heap /\ Lists(h, K, r) /\ s \notin K /\ ~IsClosed(h, s)
    BY DEF Heaped, Stale, Dead, Open, Sound
<1>2. PICK c \in Contexts : c = h.ctx[s]
    BY <1>1 DEF Sound, Open
<1>3. PICK k : k = CutListening(h, c, s)
    OBVIOUS
<1>4. Removed(k, h, s) /\ ContextsAs(k, h)
    <2>1. s \in Listening(h, c) \ K
        BY <1>1, <1>2 DEF Listening
    <2> QED  BY <1>1, <1>3, <2>1, CutListeningRemoved
<1>5. PICK u : u = Unref(k, c)
    OBVIOUS
<1>6. g = MarkClosed(LinkClosed(PollStop(u, s), s), s)
    BY <1>1, <1>2, <1>3, <1>5, Cuts DEF ListenClose
<1>7. Sound(g)
    BY <1>1, CloseSound
<1> QED  BY <1>2, <1>4, <1>5, <1>6, <1>7, BuryMoves

-----------------------------------------------------------------------------
(* Linking a socket.                                                       *)

\* s is linked into a list of c; `links` is written around it, c gains a reference.
Linked(g, h, c, s) ==
    /\ g \in Heap /\ SameBut(g, h, {"ctx", "next", "prev", "head", "lhead", "ref"})
    /\ g.ctx[s] = c /\ g.ref = [h.ref EXCEPT ![c] = @ + 1]
    /\ g.next[s] # s => g.prev[s] = Null
    /\ \A t \in Sockets \ {s} : /\ g.ctx[t] = h.ctx[t] /\ g.next[t] = h.next[t]
                                /\ g.prev[t] = IF t = g.next[s] THEN s ELSE h.prev[t]

\* The writes to s and to the socket that becomes its successor.
Links(h, c, s, p) ==
    SetPrev([h EXCEPT !.ctx[s] = c, !.next[s] = p, !.prev[s] = Null], p, s)

\* The fields that linking writes.
LinksInto(g, h, c, s, p) ==
    /\ g \in Heap /\ SameBut(g, h, {"ctx", "next", "prev"})
    /\ g.ctx[s] = c /\ g.next[s] = p /\ (p # s => g.prev[s] = Null)
    /\ \A t \in Sockets \ {s} : /\ g.ctx[t] = h.ctx[t] /\ g.next[t] = h.next[t]
                                /\ g.prev[t] = IF t = p THEN s ELSE h.prev[t]

\* The socket s linked in front of p.
LEMMA LinkFields ==
    ASSUME NEW h \in Heap, NEW c \in Contexts, NEW s \in Sockets, NEW p \in SocketPtr,
           NEW g, g = Links(h, c, s, p)
    PROVE  LinksInto(g, h, c, s, p)
<1>1. PICK a : a = [h EXCEPT !.ctx[s] = c]
    OBVIOUS
<1>2. a \in Heap
    BY <1>1, PutSocket DEF ContextPtr
<1>3. PICK b : b = [a EXCEPT !.next[s] = p]
    OBVIOUS
<1>4. b \in Heap
    BY <1>2, <1>3, PutSocket
<1>5. DOMAIN h = Fields /\ DOMAIN a = Fields /\ DOMAIN b = Fields
    BY <1>2, <1>4, HeapFields
<1>6. PICK f : f = [b EXCEPT !.prev[s] = Null]
    OBVIOUS
<1>7. f \in Heap
    BY <1>4, <1>6, PutSocket DEF SocketPtr
<1>8. SameBut(f, h, {"ctx", "next", "prev"})
    BY <1>1, <1>3, <1>5, <1>6 DEF SameBut, Fields
<1>9. /\ f.ctx = [h.ctx EXCEPT ![s] = c] /\ f.next = [h.next EXCEPT ![s] = p]
      /\ f.prev = [h.prev EXCEPT ![s] = Null]
    BY <1>1, <1>3, <1>5, <1>6 DEF Fields
<1>10. /\ h.ctx \in [Sockets -> ContextPtr] /\ h.next \in [Sockets -> SocketPtr]
       /\ h.prev \in [Sockets -> SocketPtr \cup Contexts]
    BY DEF Heap
<1>11. g = SetPrev(f, p, s)
    <2>1. a = [h EXCEPT !.ctx = [h.ctx EXCEPT ![s] = c]]
        BY <1>1
    <2>2. b = [a EXCEPT !.next = [h.next EXCEPT ![s] = p]]
        BY <1>1, <1>3, <1>5 DEF Fields
    <2>3. f = [b EXCEPT !.prev = [h.prev EXCEPT ![s] = Null]]
        BY <1>1, <1>3, <1>5, <1>6 DEF Fields
    <2>4. [h EXCEPT !.ctx[s] = c, !.next[s] = p, !.prev[s] = Null] = f
        BY <1>5, <2>1, <2>2, <2>3 DEF Fields
    <2> QED  BY <2>4 DEF Links
<1>12. /\ g \in Heap /\ SameBut(g, f, {"prev"})
       /\ \A t \in Sockets : g.prev[t] = IF t = p THEN s ELSE f.prev[t]
    <2>1. s \in SocketPtr
        BY DEF SocketPtr
    <2> QED  BY <1>7, <1>11, <2>1, SetPrevFields
<1>13. g.ctx = f.ctx /\ g.next = f.next
    BY <1>12 DEF SameBut, Fields
<1>14. SameBut(g, h, {"ctx", "next", "prev"})
    BY <1>8, <1>12, SameButTransitive
<1> QED  BY <1>9, <1>10, <1>12, <1>13, <1>14 DEF LinksInto

\* The fields that LinkSocket writes.
LEMMA LinkSocketFields ==
    ASSUME NEW h \in Heap, NEW c \in Contexts, NEW s \in Sockets, NEW g, g = LinkSocket(h, c, s)
    PROVE  /\ Linked(g, h, c, s) /\ g.next[s] = h.head[c]
           /\ g.head = [h.head EXCEPT ![c] = s] /\ g.lhead = h.lhead
<1>1. h.head[c] \in SocketPtr /\ c # Null
    BY AddressesDiffer DEF Heap
<1>2. PICK p \in SocketPtr : p = h.head[c]
    BY <1>1
<1>4. PICK k : k = Links(h, c, s, p)
    OBVIOUS
<1>5. /\ k \in Heap /\ SameBut(k, h, {"ctx", "next", "prev"})
      /\ k.ctx[s] = c /\ k.next[s] = p /\ (p # s => k.prev[s] = Null)
      /\ \A t \in Sockets \ {s} : /\ k.ctx[t] = h.ctx[t] /\ k.next[t] = h.next[t]
                                  /\ k.prev[t] = IF t = p THEN s ELSE h.prev[t]
    <2>1. LinksInto(k, h, c, s, p)
        BY <1>4, LinkFields
    <2> QED  BY <2>1 DEF LinksInto
<1>6. PICK l : l = [k EXCEPT !.head[c] = s]
    OBVIOUS
<1>7. l \in Heap
    BY <1>5, <1>6, PutContext DEF SocketPtr
<1>8. DOMAIN k = Fields
    BY <1>5, HeapFields
<1>9. SameBut(l, k, {"head"}) /\ l.head = [k.head EXCEPT ![c] = s]
    BY <1>6, <1>8 DEF SameBut, Fields
<1>10. g = Ref(l, c)
    BY <1>1, <1>2, <1>4, <1>6 DEF LinkSocket, Links
<1>11. g \in Heap /\ SameBut(g, l, {"ref"}) /\ g.ref = [l.ref EXCEPT ![c] = @ + 1]
    BY <1>7, <1>10, RefFields
<1>12. SameBut(g, k, {"head", "ref"})
    BY <1>9, <1>11, SameButTransitive
<1>13. SameBut(g, h, {"ctx", "next", "prev", "head", "ref"})
    BY <1>5, <1>12, SameButTransitive
<1>14. /\ g.ctx = k.ctx /\ g.next = k.next /\ g.prev = k.prev /\ g.lhead = h.lhead
       /\ l.ref = h.ref /\ k.head = h.head /\ g.head = l.head
    BY <1>5, <1>9, <1>11, <1>12, <1>13 DEF SameBut, Fields
<1>15. SameBut(g, h, {"ctx", "next", "prev", "head", "lhead", "ref"})
    BY <1>13 DEF SameBut
<1> QED  BY <1>2, <1>5, <1>9, <1>11, <1>14, <1>15 DEF Linked

\* The fields that LinkListenSocket writes.
LEMMA LinkListenFields ==
    ASSUME NEW h \in Heap, NEW c \in Contexts, NEW s \in Sockets, NEW g, g = LinkListenSocket(h, c, s)
    PROVE  /\ Linked(g, h, c, s) /\ g.next[s] = h.lhead[c]
           /\ g.lhead = [h.lhead EXCEPT ![c] = s] /\ g.head = h.head
<1>1. h.lhead[c] \in SocketPtr /\ c # Null
    BY AddressesDiffer DEF Heap
<1>2. PICK p \in SocketPtr : p = h.lhead[c]
    BY <1>1
<1>4. PICK k : k = Links(h, c, s, p)
    OBVIOUS
<1>5. /\ k \in Heap /\ SameBut(k, h, {"ctx", "next", "prev"})
      /\ k.ctx[s] = c /\ k.next[s] = p /\ (p # s => k.prev[s] = Null)
      /\ \A t \in Sockets \ {s} : /\ k.ctx[t] = h.ctx[t] /\ k.next[t] = h.next[t]
                                  /\ k.prev[t] = IF t = p THEN s ELSE h.prev[t]
    <2>1. LinksInto(k, h, c, s, p)
        BY <1>4, LinkFields
    <2> QED  BY <2>1 DEF LinksInto
<1>6. PICK l : l = [k EXCEPT !.lhead[c] = s]
    OBVIOUS
<1>7. l \in Heap
    BY <1>5, <1>6, PutContext DEF SocketPtr
<1>8. DOMAIN k = Fields
    BY <1>5, HeapFields
<1>9. SameBut(l, k, {"lhead"}) /\ l.lhead = [k.lhead EXCEPT ![c] = s]
    BY <1>6, <1>8 DEF SameBut, Fields
<1>10. g = Ref(l, c)
    BY <1>1, <1>2, <1>4, <1>6 DEF LinkListenSocket, Links
<1>11. g \in Heap /\ SameBut(g, l, {"ref"}) /\ g.ref = [l.ref EXCEPT ![c] = @ + 1]
    BY <1>7, <1>10, RefFields
<1>12. SameBut(g, k, {"lhead", "ref"})
    BY <1>9, <1>11, SameButTransitive
<1>13. SameBut(g, h, {"ctx", "next", "prev", "lhead", "ref"})
    BY <1>5, <1>12, SameButTransitive
<1>14. /\ g.ctx = k.ctx /\ g.next = k.next /\ g.prev = k.prev /\ g.head = h.head
       /\ l.ref = h.ref /\ k.lhead = h.lhead /\ g.lhead = l.lhead
    BY <1>5, <1>9, <1>11, <1>12, <1>13 DEF SameBut, Fields
<1>15. SameBut(g, h, {"ctx", "next", "prev", "head", "lhead", "ref"})
    BY <1>13 DEF SameBut
<1> QED  BY <1>2, <1>5, <1>9, <1>11, <1>14, <1>15 DEF Linked

\* A free socket is on no list.
LEMMA FreeUnlisted ==
    ASSUME NEW h, NEW X, NEW r, NEW s \in Sockets, h.type[s] = "free"
    PROVE  Lists(h, X \cup {s}, r) <=> Lists(h, X, r)
<1>1. /\ \A c \in Contexts : /\ Regular(h, c) \ (X \cup {s}) = Regular(h, c) \ X
                             /\ Listening(h, c) \ (X \cup {s}) = Listening(h, c) \ X
      /\ Queued(h) \ (X \cup {s}) = Queued(h) \ X
      /\ Dead(h) \ (X \cup {s}) = Dead(h) \ X
    BY DEF Regular, Listening, Queued, Dead, Open
<1> QED  BY <1>1 DEF Lists

\* The fields of a socket that is allocated.
Blank(h, s, type, dirs) ==
    [[h EXCEPT !.low[s] = 0] EXCEPT !.type[s] = type, !.poll[s] = dirs,
                                    !.paused[s] = FALSE, !.due[s] = {}]

\* The fields of a socket that was just allocated.
BlankInto(f, h, s, type, dirs) ==
    /\ f \in Heap /\ SameBut(f, h, {"low", "type", "poll", "paused", "due"})
    /\ f.low[s] = 0 /\ f.type[s] = type /\ f.poll[s] = dirs /\ f.due[s] = {}
    /\ \A t \in Sockets \ {s} : /\ f.low[t] = h.low[t] /\ f.type[t] = h.type[t]
                                /\ f.poll[t] = h.poll[t] /\ f.due[t] = h.due[t]

\* A socket is allocated.
LEMMA BlankFields ==
    ASSUME NEW h \in Heap, NEW s \in Sockets, NEW type \in PollTypes, NEW dirs \in SUBSET Directions,
           NEW f, f = Blank(h, s, type, dirs)
    PROVE  BlankInto(f, h, s, type, dirs)
<1>1. PICK l : l = [h EXCEPT !.low[s] = 0]
    OBVIOUS
<1>2. 0 \in 0..2
    OBVIOUS
<1>3. l \in Heap
    BY <1>1, <1>2, PutSocket
<1>4. DOMAIN h = Fields /\ DOMAIN l = Fields
    BY <1>3, HeapFields
<1>5. l.low = [h.low EXCEPT ![s] = 0] /\ SameBut(l, h, {"low"})
    BY <1>1, <1>4 DEF SameBut, Fields
<1>6. f = [l EXCEPT !.type[s] = type, !.poll[s] = dirs, !.paused[s] = FALSE, !.due[s] = {}]
    BY <1>1 DEF Blank
<1>7. /\ f.type = [l.type EXCEPT ![s] = type] /\ f.poll = [l.poll EXCEPT ![s] = dirs]
      /\ f.paused = [l.paused EXCEPT ![s] = FALSE] /\ f.due = [l.due EXCEPT ![s] = {}]
      /\ SameBut(f, l, {"type", "poll", "paused", "due"})
    BY <1>4, <1>6 DEF SameBut, Fields
<1>8. f \in Heap
    <2>1. [l EXCEPT !.type[s] = type] \in Heap
        BY <1>3, PutSocket
    <2>2. /\ l.type \in [Sockets -> PollTypes] /\ l.poll \in [Sockets -> SUBSET Directions]
          /\ l.paused \in [Sockets -> BOOLEAN] /\ l.due \in [Sockets -> SUBSET {"short", "long"}]
        BY <1>3 DEF Heap
    <2>3. /\ f.type \in [Sockets -> PollTypes] /\ f.poll \in [Sockets -> SUBSET Directions]
          /\ f.paused \in [Sockets -> BOOLEAN] /\ f.due \in [Sockets -> SUBSET {"short", "long"}]
        BY <1>7, <2>2
    <2>4. f = [l EXCEPT !.type = f.type, !.poll = f.poll, !.paused = f.paused, !.due = f.due]
        BY <1>4, <1>6, <1>7 DEF Fields
    <2> QED  BY ZenonT(60), <1>3, <2>3, <2>4 DEF Heap
<1>9. SameBut(f, h, {"low", "type", "poll", "paused", "due"})
    BY <1>5, <1>7, SameButTransitive
<1>10. l.type = h.type /\ l.poll = h.poll /\ l.due = h.due /\ f.low = l.low
    BY <1>5, <1>7 DEF SameBut, Fields
<1>11. /\ h.type \in [Sockets -> PollTypes] /\ h.poll \in [Sockets -> SUBSET Directions]
       /\ h.due \in [Sockets -> SUBSET {"short", "long"}] /\ h.low \in [Sockets -> 0..2]
    BY DEF Heap
<1> QED  BY <1>5, <1>7, <1>8, <1>9, <1>10, <1>11 DEF BlankInto

\* s, of no list before, is the head of the list it belongs to.
LEMMA LinkedAdded ==
    ASSUME NEW f, NEW X, NEW r, Lists(f, X, r), NEW s \in Sockets, s \in X, NEW c \in Contexts,
           f.type[s] # "free", NEW g, Linked(g, f, c, s),
           \/ /\ f.type[s] # "listen" /\ f.low[s] # 1
              /\ g.next[s] = f.head[c] /\ g.head = [f.head EXCEPT ![c] = s] /\ g.lhead = f.lhead
           \/ /\ f.type[s] = "listen"
              /\ g.next[s] = f.lhead[c] /\ g.lhead = [f.lhead EXCEPT ![c] = s] /\ g.head = f.head,
           f.head \in [Contexts -> SocketPtr], f.lhead \in [Contexts -> SocketPtr]
    PROVE  Added(g, f, s)
<1>1. /\ g \in Heap /\ g.ctx[s] = c /\ (g.next[s] # s => g.prev[s] = Null)
      /\ \A t \in Sockets \ {s} : /\ g.ctx[t] = f.ctx[t] /\ g.next[t] = f.next[t]
                                  /\ g.prev[t] = IF t = g.next[s] THEN s ELSE f.prev[t]
      /\ g.type = f.type /\ g.low = f.low /\ g.closed = f.closed /\ g.iter = f.iter
      /\ g.lowHead = f.lowHead
    BY DEF Linked, SameBut, Fields
<1>2. g.next[s] # s
    <2>1. /\ f.head[c] \in (Regular(f, c) \ X) \cup {Null}
          /\ f.lhead[c] \in (Listening(f, c) \ X) \cup {Null}
        BY DEF Lists, Threaded, Ordered
    <2> QED  BY <2>1, AddressesDiffer
<1>3. Open(g, s)
    BY <1>1, <1>2, AddressesDiffer DEF Open, IsClosed
<1>4. /\ \A d \in Contexts : /\ s \in Regular(g, d) <=> d = c /\ f.type[s] # "listen" /\ f.low[s] # 1
                             /\ s \in Listening(g, d) <=> d = c /\ f.type[s] = "listen"
      /\ s \in Queued(g) <=> f.type[s] # "listen" /\ f.low[s] = 1
    BY <1>1, <1>3 DEF Regular, Listening, Queued
<1> QED  BY <1>1, <1>2, <1>3, <1>4 DEF Added

\* A sweep does not see a socket n that joins ahead of it with no timeout due.
LEMMA SweepJoined ==
    ASSUME NEW h, NEW g, NEW r, NEW q, NEW X, Lists(h, X, r), NEW n \in Sockets,
           g.iter = h.iter, g.due[n] = {}, \A t \in Sockets : q[n] <= q[t],
           \A c \in Contexts : /\ n \notin Regular(h, c) \ X
                               /\ \A t \in Regular(h, c) \ X : g.due[t] = h.due[t] /\ q[t] = r[t]
                               /\ Regular(g, c) \subseteq (Regular(h, c) \ X) \cup {n}
    PROVE  SweepKept(h, g, r, q)
<1> SUFFICES ASSUME NEW c \in Contexts, NEW x \in Sockets, NEW left \in SUBSET {"short", "long"},
                    SweptAt(h, c, x, left, r)
             PROVE  SweptAt(g, c, x, left, q)
    BY DEF SweepKept
<1>1. h.iter[c] # Null => h.iter[c] \in Regular(h, c) \ X
    BY DEF Lists
<1>2. \A t \in Regular(h, c) : t \in Sockets
    BY DEF Regular
<1>3. /\ x \in Regular(h, c) /\ h.iter[c] # Null => r[x] <= r[h.iter[c]]
      /\ h.iter[c] = x => h.due[x] \subseteq left
      /\ \A y \in Regular(h, c) : h.due[y] # {} => h.iter[c] # Null /\ r[h.iter[c]] <= r[y]
    BY DEF SweptAt, Ahead
<1>4. \A y \in Regular(g, c) : y = n \/ (y \in Regular(h, c) \ X /\ q[y] = r[y] /\ g.due[y] = h.due[y])
    OBVIOUS
<1>5. h.iter[c] # Null => q[h.iter[c]] = r[h.iter[c]] /\ h.iter[c] \in Sockets
                          /\ g.due[h.iter[c]] = h.due[h.iter[c]]
    BY <1>1, <1>2
<1>6. x \in Regular(g, c) /\ g.iter[c] # Null => q[x] <= q[g.iter[c]]
    BY <1>3, <1>4, <1>5
<1>7. g.iter[c] = x => g.due[x] \subseteq left
    BY <1>3, <1>5, AddressesDiffer
<1>8. \A y \in Regular(g, c) : g.due[y] # {} => g.iter[c] # Null /\ q[g.iter[c]] <= q[y]
    BY <1>3, <1>4, <1>5
<1> QED  BY <1>6, <1>7, <1>8 DEF SweptAt, Ahead

\* A socket is allocated and linked.
LEMMA NewSocketMoves ==
    ASSUME NEW h, NEW K, NEW own, NEW r, NEW m, Heaped(h, K, own, r, m),
           NEW c \in Contexts, h.ref[c] >= 1, NEW s \in Sockets, h.type[s] = "free",
           NEW type \in {"listen", "semi", "socket"}, NEW dirs \in SUBSET Directions,
           type = "listen" => dirs = {"R"}, type = "semi" => dirs = {"W"},
           NEW g, g = NewSocket(h, c, s, type, dirs)
    PROVE  Moves(h, K, own, r, g, K, own, m) /\ Open(g, s) /\ g.type[s] = type
           /\ Opens(h, g, s, c)
<1>1. /\ Sound(h) /\ Lists(h, K, r) /\ Stale(h, K) /\ Homes(h) /\ ContextsOK(h) /\ h \in Heap
      /\ Covered(h, K, own, m.plain) /\ Modes(h, m)
    BY DEF Heaped, Sound
<1>2. s \notin K /\ type # "free" /\ type \in PollTypes
    BY <1>1 DEF Stale, Dead, PollTypes
<1>3. PICK f : f = Blank(h, s, type, dirs)
    OBVIOUS
<1>4. BlankInto(f, h, s, type, dirs)
    BY <1>1, <1>2, <1>3, BlankFields
<1>5. /\ f \in Heap /\ SameBut(f, h, {"low", "type", "poll", "paused", "due"})
      /\ f.low[s] = 0 /\ f.type[s] = type /\ f.poll[s] = dirs /\ f.due[s] = {}
      /\ \A t \in Sockets \ {s} : /\ f.low[t] = h.low[t] /\ f.type[t] = h.type[t]
                                  /\ f.poll[t] = h.poll[t] /\ f.due[t] = h.due[t]
    BY <1>4 DEF BlankInto
<1>6. /\ f.ctx = h.ctx /\ f.prev = h.prev /\ f.next = h.next /\ f.head = h.head /\ f.lhead = h.lhead
      /\ f.lowHead = h.lowHead /\ f.closed = h.closed /\ f.iter = h.iter /\ f.ref = h.ref
      /\ f.state = h.state /\ f.liter = h.liter
    BY <1>5 DEF SameBut, Fields
<1>7. Lists(f, K \cup {s}, r)
    <2>1. Lists(h, K \cup {s}, r)
        BY <1>1, FreeUnlisted
    <2>2. OffSame(f, h, s)
        BY <1>5, <1>6 DEF OffSame
    <2>3. s \in K \cup {s}
        OBVIOUS
    <2> QED  BY <2>1, <2>2, <2>3, ListsOff
<1>8. g = IF type = "listen" THEN LinkListenSocket(f, c, s) ELSE LinkSocket(f, c, s)
    BY <1>3 DEF NewSocket, Blank
<1>9. f.head \in [Contexts -> SocketPtr] /\ f.lhead \in [Contexts -> SocketPtr]
    BY <1>5 DEF Heap
<1>10. /\ Linked(g, f, c, s)
       /\ \/ /\ f.type[s] # "listen" /\ f.low[s] # 1
             /\ g.next[s] = f.head[c] /\ g.head = [f.head EXCEPT ![c] = s] /\ g.lhead = f.lhead
          \/ /\ f.type[s] = "listen"
             /\ g.next[s] = f.lhead[c] /\ g.lhead = [f.lhead EXCEPT ![c] = s] /\ g.head = f.head
    BY <1>5, <1>8, LinkSocketFields, LinkListenFields
<1>11. Added(g, f, s)
    <2>1. s \in K \cup {s} /\ f.type[s] # "free"
        BY <1>2, <1>5
    <2> QED  BY <1>7, <1>9, <1>10, <2>1, LinkedAdded
<1>12. \A t \in Sockets : Open(f, t) => f.ctx[t] \in Contexts \/ t = s
    BY <1>1, <1>5, <1>6 DEF Sound, Open
<1>13. r \in [Sockets -> Int]
    BY <1>1 DEF Lists
<1>14. PICK q, n : Reranked(q, r, s, n) /\ \A x \in Sockets \ {s} : q[x] = r[x]
    BY <1>13, LowerRank
<1>15. Lists(g, K, q)
    <2>1. s \in K \cup {s} /\ (K \cup {s}) \ {s} = K
        BY <1>2
    <2>2. Reranked(q, r, s, n)
        BY <1>14
    <2>3. Lists(g, (K \cup {s}) \ {s}, q)
        BY <1>7, <1>11, <1>12, <2>1, <2>2, AddedLists
    <2> QED  BY <2>1, <2>3
<1>16. /\ g.type = f.type /\ g.poll = f.poll /\ g.low = f.low /\ g.due = f.due /\ g.iter = f.iter
       /\ g.state = h.state /\ g.liter = h.liter /\ g.ref = [h.ref EXCEPT ![c] = @ + 1]
       /\ g.ctx[s] = c
       /\ \A t \in Sockets \ {s} : g.ctx[t] = h.ctx[t] /\ g.next[t] = h.next[t]
    BY <1>6, <1>10 DEF Linked, SameBut, Fields
<1>17. Open(g, s) /\ g.type[s] = type
    BY <1>5, <1>11, <1>16 DEF Added
<1>18. \A t \in Sockets \ {s} : /\ IsClosed(g, t) <=> IsClosed(h, t)
                                /\ Open(g, t) <=> Open(h, t)
    <2>1. s \in K \cup {s}
        OBVIOUS
    <2>2. \A t \in Sockets \ {s} : IsClosed(g, t) <=> IsClosed(f, t)
        BY <1>7, <1>11, <1>12, <2>1, AddedOthers
    <2> QED  BY <1>5, <1>6, <1>16, <2>2 DEF Open, IsClosed
<1>19. SweepKept(h, g, r, q)
    <2>1. \A d \in Contexts : \A t \in Sockets : t # s => (t \in Regular(g, d) <=> t \in Regular(h, d))
        BY <1>5, <1>16, <1>18 DEF Regular
    <2>2. \A d \in Contexts : /\ Regular(h, d) \subseteq Sockets \ {s}
                              /\ Regular(g, d) \subseteq Sockets
                              /\ Regular(h, d) \cap K = {}
        BY <1>1 DEF Regular, Open, Stale, Dead
    <2>3. \A d \in Contexts : Regular(g, d) \subseteq (Regular(h, d) \ K) \cup {s}
        BY <2>1, <2>2
    <2>4. \A d \in Contexts : /\ s \notin Regular(h, d) \ K
                              /\ \A t \in Regular(h, d) \ K : g.due[t] = h.due[t] /\ q[t] = r[t]
        BY <1>5, <1>14, <1>16, <2>2
    <2>5. \A t \in Sockets : q[s] <= q[t]
        BY <1>13, <1>14 DEF Reranked
    <2>6. g.iter = h.iter /\ g.due[s] = {}
        BY <1>5, <1>6, <1>16
    <2> QED  BY <1>1, <2>3, <2>4, <2>5, <2>6, SweepJoined
<1>20. Stale(g, K)
    <2>1. \A t \in K : /\ t \in Sockets \ {s} /\ t \in Dead(h)
                       /\ h.next[t] # Null => h.type[h.next[t]] \notin {"free", "listen"}
        BY <1>1, <1>2 DEF Stale, Dead
    <2>2. \A t \in K : h.next[t] # Null => h.next[t] \in Sockets \ {s}
        BY <1>1, <2>1 DEF Heap, SocketPtr
    <2> QED  BY <1>5, <1>16, <1>18, <2>1, <2>2 DEF Stale, Dead
<1>21. Homes(g)
    <2>1. h.state[c] # "none"
        <3>1. h.ref[c] # 0
            BY <1>1 DEF Heap
        <3> QED  BY <1>1, <3>1 DEF ContextsOK
    <2> QED  BY <1>1, <1>5, <1>16, <2>1 DEF Homes
<1>22. Modes(g, m)
    <2>1. \A t \in Sockets \ {s} : Open(g, t) => Open(h, t) /\ g.type[t] = h.type[t]
                                     /\ g.poll[t] = h.poll[t] /\ g.low[t] = h.low[t]
        BY <1>5, <1>16, <1>18
    <2>2. g.type[s] = type /\ g.poll[s] = dirs /\ g.low[s] = 0
        BY <1>5, <1>16
    <2> QED  BY <1>1, <2>1, <2>2 DEF Modes
<1>23. ContextsOK(g)
    <2>1. SameBut(g, h, {"ctx", "next", "prev", "head", "lhead", "ref", "low", "type", "poll", "paused", "due"})
        BY <1>5, <1>10, SameButTransitive DEF Linked
    <2>2. SameBut(g, h, (ContextFields \cap {"ref"}) \cup (Fields \ ContextFields))
        BY <2>1 DEF SameBut, Fields, ContextFields
    <2>3. h.ref \in [Contexts -> Int]
        BY <1>1 DEF Heap
    <2> QED  BY <1>1, <1>16, <2>2, <2>3, RefContexts
<1>24. Covered(g, K, own, m.plain)
    <2>1. ~Holding(h, K, s) /\ Holding(g, K, s)
        BY <1>17 DEF Holding, Open
    <2>2. \A t \in Sockets \ {s} : HoldsAs(g, K, h, K, t)
        BY <1>5, <1>16, <1>18 DEF HoldsAs, Holding
    <2>3. h.ref \in [Contexts -> Int]
        BY <1>1 DEF Heap
    <2> QED  BY <1>1, <1>16, <2>1, <2>2, <2>3, CoveredGain
<1>25. Sound(g)
    BY <1>1, <1>2, NewSocketSound
<1>26. Keeps(h, g)
    BY <1>5, <1>16, <1>18 DEF Keeps
<1>27. Heaped(g, K, own, q, m)
    BY <1>15, <1>20, <1>21, <1>22, <1>23, <1>24, <1>25 DEF Heaped
<1>28. Opens(h, g, s, c)
    BY <1>5, <1>16, <1>17, <1>18 DEF Opens, Spares, Fades
<1> QED  BY <1>16, <1>17, <1>19, <1>26, <1>27, <1>28 DEF Moves

-----------------------------------------------------------------------------
(* Contexts come and go, and the writes of one field.                      *)

\* The creator of a context frees it.
LEMMA UnrefMoves ==
    ASSUME NEW h, NEW K, NEW own, NEW r, NEW m, Heaped(h, K, own, r, m),
           NEW c \in Contexts, c \in own, NEW g, g = Unref(h, c)
    PROVE  Moves(h, K, own, r, g, K, own \ {c}, m) /\ Spares(h, g, {}) /\ Fades(h, g)
<1>1. /\ Sound(h) /\ Lists(h, K, r) /\ Stale(h, K) /\ Homes(h) /\ ContextsOK(h) /\ h \in Heap
      /\ Covered(h, K, own, m.plain) /\ Modes(h, m)
    BY DEF Heaped, Sound
<1>2. h.ref \in [Contexts -> Int]
    BY <1>1 DEF Heap
<1>3. h.ref[c] # 0
    <2>1. h.ref[c] >= 1
        BY <1>1, <1>2, HeldReferenced
    <2> QED  BY <1>2, <2>1
<1>4. /\ g \in Heap /\ SocketsAs(g, h) /\ ContextsOK(g) /\ Homes(g)
      /\ g.ref = [h.ref EXCEPT ![c] = @ - 1]
      /\ \A d \in Contexts : h.state[d] # "none" => g.state[d] # "none"
      /\ Fades(h, g)
    <2>1. \A s \in Sockets : h.type[s] # "free" => h.ctx[s] \in Contexts
        BY <1>1 DEF Sound
    <2> QED  BY <1>1, <1>3, <2>1, UnrefHomes
<1>5. /\ g.type = h.type /\ g.ctx = h.ctx /\ g.prev = h.prev /\ g.next = h.next /\ g.low = h.low
      /\ g.poll = h.poll /\ g.liter = h.liter /\ g.iter = h.iter /\ g.due = h.due
    BY <1>4, Sides
<1>6. Lists(g, K, r)
    BY <1>1, <1>4, ListsAs
<1>7. Stale(g, K) /\ Modes(g, m)
    BY <1>1, <1>5 DEF Stale, Modes, Dead, Open, IsClosed
<1>8. Covered(g, K, own \ {c}, m.plain)
    <2>1. \A s \in Sockets : HoldsAs(g, K, h, K, s)
        BY <1>5 DEF HoldsAs, Holding, IsClosed
    <2> QED  BY <1>1, <1>2, <1>4, <2>1, CoveredOwner
<1>9. Sound(g)
    BY <1>1, RefSound DEF ContextPtr
<1>10. SweepKept(h, g, r, r)
    <2>1. \A d \in Contexts : Regular(g, d) = Regular(h, d)
        BY <1>5 DEF Regular, Open, IsClosed
    <2> QED  BY <1>1, <1>5, <2>1, SweepSame
<1>11. Keeps(h, g)
    BY <1>4, <1>5 DEF Keeps, Open, IsClosed
<1>12. Heaped(g, K, own \ {c}, r, m)
    BY <1>4, <1>6, <1>7, <1>8, <1>9 DEF Heaped
<1>13. Spares(h, g, {})
    BY <1>5 DEF Spares, IsClosed
<1> QED  BY <1>4, <1>10, <1>11, <1>12, <1>13 DEF Moves

\* The fields that us_create_bun_socket_context writes.
CreatedFields == {"state", "ref", "head", "lhead", "iter", "cnext", "cprev", "chead"}

\* g is h with the new context c.
Created(g, h, c) ==
    /\ g \in Heap /\ SameBut(g, h, CreatedFields)
    /\ g.state = [h.state EXCEPT ![c] = "live"] /\ g.ref = [h.ref EXCEPT ![c] = 1]
    /\ g.head = [h.head EXCEPT ![c] = Null] /\ g.lhead = [h.lhead EXCEPT ![c] = Null]
    /\ g.iter = [h.iter EXCEPT ![c] = Null]
    /\ g.chead = c /\ g.cnext = [h.cnext EXCEPT ![c] = h.chead]
    /\ \A d \in Contexts : g.cprev[d] = IF d = h.chead THEN c
                                        ELSE IF d = c THEN Null ELSE h.cprev[d]

\* CreateContext creates it.
LEMMA CreatedContext ==
    ASSUME NEW h \in Heap, NEW c \in Contexts, NEW g, g = CreateContext(h, c)
    PROVE  Created(g, h, c)
<1>1. PICK e : e = [h EXCEPT !.state[c] = "live", !.ref[c] = 1, !.head[c] = Null,
                             !.lhead[c] = Null, !.iter[c] = Null]
    OBVIOUS
<1>2. DOMAIN h = Fields
    BY HeapFields
<1>3. /\ e.state = [h.state EXCEPT ![c] = "live"] /\ e.ref = [h.ref EXCEPT ![c] = 1]
      /\ e.head = [h.head EXCEPT ![c] = Null] /\ e.lhead = [h.lhead EXCEPT ![c] = Null]
      /\ e.iter = [h.iter EXCEPT ![c] = Null]
      /\ SameBut(e, h, {"state", "ref", "head", "lhead", "iter"})
    BY <1>1, <1>2 DEF SameBut, Fields
<1>4. e \in Heap
    <2>1. 1 \in Int /\ Null \in SocketPtr
        BY DEF SocketPtr
    <2>2. PICK a \in Heap : a = [h EXCEPT !.state[c] = "live"]
        BY PutContext
    <2>3. PICK b \in Heap : b = [a EXCEPT !.ref[c] = 1]
        BY <2>1, PutContext
    <2>4. PICK d \in Heap : d = [b EXCEPT !.head[c] = Null]
        BY <2>1, PutContext
    <2>5. PICK l \in Heap : l = [d EXCEPT !.lhead[c] = Null]
        BY <2>1, PutContext
    <2>6. [l EXCEPT !.iter[c] = Null] \in Heap
        BY <2>1, PutContext
    <2>7. DOMAIN a = Fields /\ DOMAIN b = Fields /\ DOMAIN d = Fields /\ DOMAIN l = Fields
        BY HeapFields
    <2>8. /\ a = [h EXCEPT !.state = e.state] /\ b = [a EXCEPT !.ref = e.ref]
          /\ d = [b EXCEPT !.head = e.head] /\ l = [d EXCEPT !.lhead = e.lhead]
          /\ [l EXCEPT !.iter[c] = Null] = [l EXCEPT !.iter = e.iter]
        BY <1>2, <1>3, <2>2, <2>3, <2>4, <2>5, <2>7 DEF Fields
    <2>9. e = [h EXCEPT !.state = e.state, !.ref = e.ref, !.head = e.head,
                        !.lhead = e.lhead, !.iter = e.iter]
        BY <1>1, <1>2, <1>3 DEF Fields
    <2>10. e = [l EXCEPT !.iter = e.iter]
        BY <1>2, <2>7, <2>8, <2>9 DEF Fields
    <2> QED  BY <2>6, <2>8, <2>10
<1>5. PICK p : p = h.chead /\ p \in ContextPtr
    BY DEF Heap
<1>6. PICK a : a = [e EXCEPT !.cnext[c] = p]
    OBVIOUS
<1>7. PICK b : b = [a EXCEPT !.cprev[c] = Null]
    OBVIOUS
<1>8. PICK d : d = [b EXCEPT !.chead = c]
    OBVIOUS
<1>9. a \in Heap
    BY <1>4, <1>5, <1>6, PutContext
<1>10. b \in Heap
    BY <1>7, <1>9, PutContext DEF ContextPtr
<1>11. d \in Heap
    BY <1>8, <1>10, PutContext DEF ContextPtr
<1>12. DOMAIN e = Fields /\ DOMAIN a = Fields /\ DOMAIN b = Fields /\ DOMAIN d = Fields
    BY <1>4, <1>9, <1>10, <1>11, HeapFields
<1>13. /\ SameBut(d, e, {"cnext", "cprev", "chead"})
       /\ d.cnext = [e.cnext EXCEPT ![c] = p] /\ d.cprev = [e.cprev EXCEPT ![c] = Null]
       /\ d.chead = c
    BY <1>6, <1>7, <1>8, <1>12 DEF SameBut, Fields
<1>14. /\ e.chead = p /\ e.cnext = h.cnext /\ e.cprev = h.cprev
    BY <1>3, <1>5 DEF SameBut, Fields
<1>15. /\ d.state = e.state /\ d.ref = e.ref /\ d.head = e.head /\ d.lhead = e.lhead /\ d.iter = e.iter
    BY <1>13 DEF SameBut, Fields
<1>16. g = IF p = Null THEN d ELSE [d EXCEPT !.cprev[p] = c]
    <2>1. CreateContext(h, c) = LoopLink(e, c)
        BY <1>1 DEF CreateContext
    <2>2. [e EXCEPT !.cnext[c] = p, !.cprev[c] = Null, !.chead = c] = d
        <3>1. /\ a = [e EXCEPT !.cnext = d.cnext] /\ b = [a EXCEPT !.cprev = d.cprev]
              /\ d = [b EXCEPT !.chead = c]
            BY <1>6, <1>7, <1>8, <1>12, <1>13 DEF Fields
        <3>2. [e EXCEPT !.cnext[c] = p, !.cprev[c] = Null, !.chead = c]
                = [e EXCEPT !.cnext = d.cnext, !.cprev = d.cprev, !.chead = c]
            BY <1>12, <1>13 DEF Fields
        <3> QED  BY <1>12, <3>1, <3>2 DEF Fields
    <2> QED  BY <1>14, <2>1, <2>2 DEF LoopLink
<1>17. h.cprev \in [Contexts -> ContextPtr]
    BY DEF Heap
<1>18. SameBut(d, h, CreatedFields)
    BY <1>3, <1>13, SameButTransitive DEF CreatedFields
<1>19. CASE p = Null
    <2>1. g = d
        BY <1>16, <1>19
    <2>2. \A x \in Contexts : d.cprev[x] = IF x = p THEN c ELSE IF x = c THEN Null ELSE h.cprev[x]
        BY <1>13, <1>14, <1>17, <1>19, AddressesDiffer
    <2> QED  BY ZenonT(60), <1>3, <1>5, <1>11, <1>13, <1>14, <1>15, <1>18, <2>1, <2>2 DEF Created
<1>20. CASE p # Null
    <2>1. p \in Contexts /\ g = [d EXCEPT !.cprev[p] = c]
        BY <1>5, <1>16, <1>20 DEF ContextPtr
    <2>2. g \in Heap
        BY <1>11, <2>1, PutContext DEF ContextPtr
    <2>3. SameBut(g, d, {"cprev"}) /\ g.cprev = [d.cprev EXCEPT ![p] = c]
        BY <1>12, <2>1 DEF SameBut, Fields
    <2>4. SameBut(g, h, CreatedFields)
        BY <1>18, <2>3, SameButTransitive DEF CreatedFields
    <2>5. /\ g.state = d.state /\ g.ref = d.ref /\ g.head = d.head /\ g.lhead = d.lhead
          /\ g.iter = d.iter /\ g.chead = d.chead /\ g.cnext = d.cnext
        BY <2>3 DEF SameBut, Fields
    <2>6. \A x \in Contexts : g.cprev[x] = IF x = p THEN c ELSE IF x = c THEN Null ELSE h.cprev[x]
        BY <1>13, <1>14, <1>17, <2>1, <2>3
    <2> QED  BY <1>3, <1>5, <1>13, <1>14, <1>15, <2>2, <2>4, <2>5, <2>6 DEF Created
<1> QED  BY <1>19, <1>20

\* ... and links it in front of the contexts of the loop.
LEMMA CreatedContexts ==
    ASSUME NEW h \in Heap, ContextsOK(h), NEW c \in Contexts, h.state[c] = "none",
           NEW g, Created(g, h, c)
    PROVE  ContextsOK(g)
<1>1. /\ g.state = [h.state EXCEPT ![c] = "live"] /\ g.ref = [h.ref EXCEPT ![c] = 1]
      /\ g.chead = c /\ g.cnext = [h.cnext EXCEPT ![c] = h.chead]
      /\ \A d \in Contexts : g.cprev[d] = IF d = h.chead THEN c
                                          ELSE IF d = c THEN Null ELSE h.cprev[d]
      /\ g.closedCtx = h.closedCtx
    BY DEF Created, CreatedFields, SameBut, Fields
<1>2. /\ h.state \in [Contexts -> {"none", "live", "closed"}] /\ h.ref \in [Contexts -> Int]
      /\ h.cnext \in [Contexts -> ContextPtr] /\ h.cprev \in [Contexts -> ContextPtr]
      /\ h.chead \in ContextPtr
    BY DEF Heap
<1>4. LiveList(g)
    <2>1. PICK r \in [Contexts -> Int] : Threaded(h.cnext, h.cprev, LiveContexts(h), h.chead, r)
        BY DEF ContextsOK, LiveList
    <2>2. PICK m \in Int : \A x \in Contexts : m < r[x]
        BY DistinctAddresses, RankBelow
    <2>3. PICK q : q = [r EXCEPT ![c] = m]
        OBVIOUS
    <2>4. /\ LiveContexts(h) \in SUBSET Contexts /\ c \notin LiveContexts(h)
          /\ LiveContexts(g) = LiveContexts(h) \cup {c} /\ Null \notin Contexts /\ h.chead # c
        <3>1. c # Null /\ (h.chead # Null => h.state[h.chead] = "live")
            BY LiveLinks, AddressesDiffer DEF ContextsOK
        <3>2. h.chead # c
            BY <3>1
        <3> QED  BY <1>1, <1>2, <3>2, AddressesDiffer DEF LiveContexts
    <2>5. Prepended(g.cnext, g.cprev, h.cnext, h.cprev, LiveContexts(h), h.chead, c)
        <3>1. g.cnext[c] = h.chead /\ g.cprev[c] = Null
            BY <1>1, <1>2, <2>4
        <3>2. \A x \in LiveContexts(h) : x \in Contexts /\ x # c
            BY <2>4
        <3>3. \A x \in LiveContexts(h) : /\ g.cnext[x] = h.cnext[x]
                                         /\ g.cprev[x] = IF x = h.chead THEN c ELSE h.cprev[x]
            BY <1>1, <1>2, <3>2
        <3> QED  BY <3>1, <3>3 DEF Prepended
    <2>6. Threaded(g.cnext, g.cprev, LiveContexts(h) \cup {c}, c, q)
        BY <2>1, <2>2, <2>3, <2>4, <2>5, ThreadedPush
    <2>7. q \in [Contexts -> Int]
        BY <2>3
    <2> QED  BY <1>1, <2>4, <2>6, <2>7 DEF LiveList
<1>5. ClosedContexts(g) = ClosedContexts(h) /\ c \notin ClosedContexts(h)
    BY <1>1, <1>2 DEF ClosedContexts
<1>6. PICK r \in [Contexts -> Int] : Ordered(h.cnext, ClosedContexts(h), h.closedCtx, r)
    BY DEF ContextsOK
<1>7. Ordered(g.cnext, ClosedContexts(h), h.closedCtx, r)
    <2>1. \A x \in ClosedContexts(h) : g.cnext[x] = h.cnext[x] /\ r[x] = r[x]
        BY <1>1, <1>2, <1>5 DEF ClosedContexts
    <2> QED  BY <1>6, <2>1, OrderedFrame
<1>8. \A d \in Contexts : g.ref[d] >= 0 /\ (g.state[d] = "live" <=> g.ref[d] # 0)
    BY <1>1, <1>2 DEF ContextsOK
<1> QED  BY <1>1, <1>4, <1>5, <1>7, <1>8 DEF ContextsOK

\* us_create_socket_context.
LEMMA CreateMoves ==
    ASSUME NEW h, NEW K, NEW own, NEW r, NEW m, Heaped(h, K, own, r, m),
           NEW c \in Contexts, h.state[c] = "none", NEW g, g = CreateContext(h, c)
    PROVE  Moves(h, K, own, r, g, K, own \cup {c}, m) /\ Spares(h, g, {})
           /\ g.state = [h.state EXCEPT ![c] = "live"]
<1>1. /\ Sound(h) /\ Lists(h, K, r) /\ Stale(h, K) /\ Homes(h) /\ ContextsOK(h) /\ h \in Heap
      /\ Covered(h, K, own, m.plain) /\ Modes(h, m)
    BY DEF Heaped, Sound
<1>2. Created(g, h, c)
    BY <1>1, CreatedContext
<1>3. /\ g.type = h.type /\ g.ctx = h.ctx /\ g.prev = h.prev /\ g.next = h.next /\ g.low = h.low
      /\ g.poll = h.poll /\ g.liter = h.liter /\ g.due = h.due /\ g.lowHead = h.lowHead
      /\ g.closed = h.closed
    BY <1>2 DEF Created, CreatedFields, SameBut, Fields
<1>4. /\ g.state = [h.state EXCEPT ![c] = "live"] /\ g.ref = [h.ref EXCEPT ![c] = 1]
      /\ g.head = [h.head EXCEPT ![c] = Null] /\ g.lhead = [h.lhead EXCEPT ![c] = Null]
      /\ g.iter = [h.iter EXCEPT ![c] = Null]
    BY <1>2 DEF Created
<1>5. /\ h.state \in [Contexts -> {"none", "live", "closed"}] /\ h.ref \in [Contexts -> Int]
      /\ h.head \in [Contexts -> SocketPtr] /\ h.lhead \in [Contexts -> SocketPtr]
      /\ h.iter \in [Contexts -> SocketPtr]
    BY <1>1 DEF Heap
<1>6. \A s \in Sockets : h.type[s] # "free" => h.ctx[s] # c
    BY <1>1 DEF Homes
<1>7. Regular(h, c) = {} /\ Listening(h, c) = {}
    BY <1>6 DEF Regular, Listening, Open
<1>8. h.head[c] = Null /\ h.lhead[c] = Null /\ h.iter[c] = Null
    BY <1>1, <1>7 DEF Lists, Threaded, Ordered
<1>9. g.head = h.head /\ g.lhead = h.lhead /\ g.iter = h.iter
    BY <1>4, <1>5, <1>8
<1>10. /\ \A d \in Contexts : Regular(g, d) = Regular(h, d) /\ Listening(g, d) = Listening(h, d)
       /\ Queued(g) = Queued(h) /\ Dead(g) = Dead(h)
    BY <1>3, SameLists DEF Open, IsClosed
<1>11. Lists(g, K, r)
    BY <1>1, <1>3, <1>9, <1>10 DEF Lists
<1>12. Stale(g, K) /\ Modes(g, m)
    BY <1>1, <1>3, <1>10 DEF Stale, Modes, Open, IsClosed
<1>13. Homes(g)
    BY <1>1, <1>3, <1>4, <1>5 DEF Homes, Sound
<1>14. ContextsOK(g)
    BY <1>1, <1>2, CreatedContexts
<1>15. Covered(g, K, own \cup {c}, m.plain)
    <2>1. h.ref[c] = 0
        BY <1>1 DEF ContextsOK
    <2>2. c \notin own
        <3>1. c \in own => h.ref[c] >= 1
            BY <1>1, <1>5, HeldReferenced
        <3> QED  BY <2>1, <3>1
    <2>3. \A s \in Sockets : HoldsAs(g, K, h, K, s)
        BY <1>3 DEF HoldsAs, Holding, IsClosed
    <2>4. g.ref = [h.ref EXCEPT ![c] = @ + 1]
        BY <1>4, <1>5, <2>1
    <2> QED  BY <1>1, <1>5, <2>2, <2>3, <2>4, CoveredOwner
<1>16. Sound(g)
    BY <1>1, CreateContextSound
<1>17. SweepKept(h, g, r, r)
    BY <1>1, <1>3, <1>9, <1>10, SweepSame
<1>18. Keeps(h, g)
    BY <1>3, <1>4, <1>5 DEF Keeps, Open, IsClosed
<1>19. Heaped(g, K, own \cup {c}, r, m)
    BY <1>11, <1>12, <1>13, <1>14, <1>15, <1>16 DEF Heaped
<1>20. Spares(h, g, {})
    BY <1>3 DEF Spares, IsClosed
<1> QED  BY <1>4, <1>17, <1>18, <1>19, <1>20 DEF Moves

\* A step that leaves the heap alone, and the writes a sweep does not see.
LEMMA StillMoves ==
    ASSUME NEW h, NEW K, NEW own, NEW r, NEW m, Heaped(h, K, own, r, m)
    PROVE  Moves(h, K, own, r, h, K, own, m)
<1>1. SweepKept(h, h, r, r) /\ Keeps(h, h)
    BY DEF SweepKept, Keeps
<1> QED  BY <1>1 DEF Moves

\* A quiet step that delivers no timeout keeps what the frames rely on.
LEMMA QuietMoves ==
    ASSUME NEW h, NEW K, NEW own, NEW r, NEW m, Heaped(h, K, own, r, m),
           NEW g, Quiet(g, h), Sound(g), Modes(g, m),
           g.due = h.due, g.liter = h.liter, g.low = h.low,
           \A s \in Sockets :
              \/ g.type[s] = h.type[s] /\ (h.type[s] = "socket" /\ "W" \in h.poll[s] => "W" \in g.poll[s])
              \/ h.type[s] \in {"socket", "semi"} /\ g.type[s] = "shut"
    PROVE  Moves(h, K, own, r, g, K, own, m)
<1>1. /\ Heaped(g, K, own, r, m)
      /\ \A c \in Contexts : Regular(g, c) = Regular(h, c) /\ Listening(g, c) = Listening(h, c)
      /\ \A s \in Sockets : Open(g, s) <=> Open(h, s)
    BY QuietHeap
<1>2. g.prev = h.prev /\ g.ctx = h.ctx /\ g.iter = h.iter /\ g.state = h.state
    BY DEF Quiet, QuietFields, SameBut, Fields
<1>3. Lists(h, K, r)
    BY DEF Heaped
<1>4. SweepKept(h, g, r, r)
    BY <1>1, <1>2, <1>3, SweepSame
<1>5. Keeps(h, g)
    BY <1>1, <1>2 DEF Keeps, IsClosed
<1> QED  BY <1>1, <1>4, <1>5 DEF Moves

-----------------------------------------------------------------------------
(* The low-priority queue.                                                 *)

\* The lists are read off these fields.
LEMMA SameFieldsLists ==
    ASSUME NEW h, NEW g, g.type = h.type, g.ctx = h.ctx, g.prev = h.prev, g.next = h.next,
           g.low = h.low, g.head = h.head, g.lhead = h.lhead, g.lowHead = h.lowHead,
           g.closed = h.closed, g.iter = h.iter, NEW X, NEW r, Lists(h, X, r)
    PROVE  Lists(g, X, r)
<1>1. /\ \A d \in Contexts : Regular(g, d) = Regular(h, d) /\ Listening(g, d) = Listening(h, d)
      /\ Queued(g) = Queued(h) /\ Dead(g) = Dead(h)
    BY SameLists DEF Open, IsClosed
<1> QED  BY <1>1 DEF Lists

\* What EnterQueue does once s has left the list of its context.
Enqueue(f, s) ==
    [SetPrev([f EXCEPT !.prev[s] = Null, !.next[s] = f.lowHead], f.lowHead, s)
        EXCEPT !.lowHead = s, !.low[s] = 1]

\* The fields that joining the queue writes.
Enqueued(g, f, s) ==
    /\ g \in Heap /\ SameBut(g, f, {"prev", "next", "lowHead", "low"})
    /\ g.lowHead = s /\ g.low[s] = 1 /\ g.next[s] = f.lowHead
    /\ g.next[s] # s => g.prev[s] = Null
    /\ \A t \in Sockets \ {s} : /\ g.low[t] = f.low[t] /\ g.next[t] = f.next[t]
                                /\ g.prev[t] = IF t = g.next[s] THEN s ELSE f.prev[t]

\* The socket s joins the queue.
LEMMA EnqueueFields ==
    ASSUME NEW f \in Heap, NEW s \in Sockets, NEW g, g = Enqueue(f, s)
    PROVE  Enqueued(g, f, s)
<1>1. PICK p \in SocketPtr : p = f.lowHead
    BY DEF Heap
<1>2. PICK a : a = [f EXCEPT !.prev[s] = Null]
    OBVIOUS
<1>3. PICK b : b = [a EXCEPT !.next[s] = p]
    OBVIOUS
<1>4. PICK d : d = SetPrev(b, p, s)
    OBVIOUS
<1>5. PICK e : e = [d EXCEPT !.lowHead = s]
    OBVIOUS
<1>6. s \in SocketPtr /\ Null \in SocketPtr
    BY DEF SocketPtr
<1>61. s \in SocketPtr
    BY <1>6
<1>7. a \in Heap
    BY <1>2, <1>6, PutSocket
<1>8. b \in Heap
    BY <1>3, <1>7, PutSocket
<1>9. /\ d \in Heap /\ SameBut(d, b, {"prev"})
      /\ \A t \in Sockets : d.prev[t] = IF t = p THEN s ELSE b.prev[t]
    BY <1>4, <1>61, <1>8, SetPrevFields
<1>91. d \in Heap
    BY <1>9
<1>10. e \in Heap
    BY <1>5, <1>61, <1>91, PutSocket
<1>11. DOMAIN f = Fields /\ DOMAIN a = Fields /\ DOMAIN b = Fields /\ DOMAIN d = Fields /\ DOMAIN e = Fields
    BY <1>7, <1>8, <1>9, <1>10, HeapFields
<1>12. b = [f EXCEPT !.prev[s] = Null, !.next[s] = p]
    <2>1. a = [f EXCEPT !.prev = a.prev] /\ b = [a EXCEPT !.next = b.next]
        BY <1>2, <1>3, <1>11 DEF Fields
    <2>2. [f EXCEPT !.prev[s] = Null, !.next[s] = p] = [f EXCEPT !.prev = a.prev, !.next = b.next]
        BY <1>2, <1>3, <1>11 DEF Fields
    <2> QED  BY <1>11, <2>1, <2>2 DEF Fields
<1>13. g = [e EXCEPT !.low[s] = 1]
    <2>1. g = [d EXCEPT !.lowHead = s, !.low[s] = 1]
        BY <1>1, <1>4, <1>12 DEF Enqueue
    <2> QED  BY <1>5, <1>11, <2>1 DEF Fields
<1>14. g \in Heap
    <2>1. PICK v \in 0..2 : v = 1
        OBVIOUS
    <2>2. [e EXCEPT !.low[s] = v] \in Heap
        BY <1>10, PutSocket
    <2> QED  BY <1>13, <2>1, <2>2
<1>15. SameBut(b, f, {"prev", "next"})
    BY <1>2, <1>3, <1>11 DEF SameBut, Fields
<1>16. SameBut(g, d, {"lowHead", "low"})
    BY <1>5, <1>11, <1>13 DEF SameBut, Fields
<1>17. SameBut(g, b, {"prev", "lowHead", "low"})
    BY <1>9, <1>16, SameButTransitive
<1>18. SameBut(g, f, {"prev", "next", "lowHead", "low"})
    BY <1>15, <1>17, SameButTransitive
<1>19. /\ g.lowHead = s /\ g.low = [e.low EXCEPT ![s] = 1] /\ e.low = d.low
       /\ g.next = b.next /\ b.next = [a.next EXCEPT ![s] = p] /\ a.next = f.next
       /\ g.prev = d.prev /\ b.prev = a.prev /\ a.prev = [f.prev EXCEPT ![s] = Null]
       /\ d.low = f.low
    <2>1. g.lowHead = s /\ g.low = [e.low EXCEPT ![s] = 1] /\ e.low = d.low /\ g.prev = d.prev
        BY <1>5, <1>11, <1>13 DEF Fields
    <2>2. /\ b.next = [a.next EXCEPT ![s] = p] /\ a.next = f.next
          /\ b.prev = a.prev /\ a.prev = [f.prev EXCEPT ![s] = Null]
        BY <1>2, <1>3, <1>11 DEF Fields
    <2>3. g.next = b.next /\ d.low = f.low
        BY <1>9, <1>15, <1>17 DEF SameBut, Fields
    <2> QED  BY <2>1, <2>2, <2>3
<1>20. /\ f.low \in [Sockets -> 0..2] /\ f.next \in [Sockets -> SocketPtr]
       /\ f.prev \in [Sockets -> SocketPtr \cup Contexts]
    BY DEF Heap
<1> QED  BY <1>1, <1>9, <1>14, <1>18, <1>19, <1>20 DEF Enqueued

\* A reference that nobody in particular holds.
LEMMA CoveredLeak ==
    ASSUME NEW h, NEW K, NEW own, NEW plain, ~plain, Covered(h, K, own, plain), NEW g,
           NEW c \in Contexts, h.ref \in [Contexts -> Int], g.ref = [h.ref EXCEPT ![c] = @ + 1],
           \A s \in Sockets : HoldsAs(g, K, h, K, s)
    PROVE  Covered(g, K, own, plain)
<1>1. \A d \in Contexts : Holders(g, K, own, d) = Holders(h, K, own, d)
    BY DEF Holders, HoldsAs
<1>2. \A d \in Contexts : /\ h.ref[d] \in Int /\ Cardinality(Holders(h, K, own, d)) \in Nat
                          /\ g.ref[d] = h.ref[d] \/ g.ref[d] = h.ref[d] + 1
    BY HoldersFinite
<1> QED  BY <1>1, <1>2 DEF Covered

\* s leaves the list of its context and is parked in the queue.
EnterInto(g, h, s) ==
    /\ g \in Heap /\ ContextsAs(g, h) /\ g.liter = h.liter
    /\ g.type = h.type /\ g.ctx = h.ctx /\ g.low[s] = 1 /\ "R" \notin g.poll[s]
    /\ "W" \in h.poll[s] => "W" \in g.poll[s]
    /\ \A t \in Sockets \ {s} : /\ g.poll[t] = h.poll[t] /\ g.low[t] = h.low[t]
                                /\ IsClosed(g, t) <=> IsClosed(h, t)
    /\ ~IsClosed(g, s)

\* A socket out of budget leaves its list and is on the queue.
LEMMA EnterQueueLists ==
    ASSUME NEW h, Sound(h), NEW r, Lists(h, {}, r),
           NEW s \in Sockets, Open(h, s), h.type[s] \in {"socket", "shut"}, h.low[s] # 1,
           h.ref[h.ctx[s]] >= 1, NEW g, g = EnterQueue(h, s)
    PROVE  EnterInto(g, h, s) /\ \E q : Lists(g, {}, q)
<1> DEFINE c == h.ctx[s]
<1>1. c \in Contexts /\ h \in Heap
    BY DEF Sound, Open
<1>2. PICK d \in SUBSET Directions : d = h.poll[s] \cap {"W"}
    BY <1>1 DEF Heap, Directions
<1>3. PICK a : a = PollChange(h, s, d)
    OBVIOUS
<1>4. PICK b : b = Ref(a, c)
    OBVIOUS
<1>5. PICK k : k = CutRegular(b, c, s)
    OBVIOUS
<1>6. PICK f : f = Unref(k, c)
    OBVIOUS
<1>7. g = Enqueue(f, s)
    <2>1. UnlinkSocket(b, c, s) = Unref(CutRegular(b, c, s), c)
        BY Cuts
    <2>2. f = UnlinkSocket(Ref(PollChange(h, s, h.poll[s] \cap {"W"}), c), c, s)
        BY <1>2, <1>3, <1>4, <1>5, <1>6, <2>1
    <2> QED  BY <2>2 DEF EnterQueue, Enqueue
<1>8. Sound(a) /\ a \in Heap /\ SameBut(a, h, {"poll"}) /\ a.poll = [h.poll EXCEPT ![s] = d]
    <2>1. Sound(a)
        BY <1>3, PollChangeSound
    <2>2. DOMAIN h = Fields
        BY <1>1, HeapFields
    <2> QED  BY <1>3, <2>1, <2>2 DEF PollChange, SameBut, Fields, Sound
<1>9. Sound(b) /\ b \in Heap /\ SameBut(b, a, {"ref"}) /\ b.ref = [a.ref EXCEPT ![c] = @ + 1]
    <2>1. c \in ContextPtr
        BY <1>1 DEF ContextPtr
    <2>2. Sound(b)
        BY <1>4, <1>8, <2>1, RefSound
    <2> QED  BY SMTT(30), <1>1, <1>4, <1>8, <2>2, RefFields
<1>10. SameBut(b, h, {"poll", "ref"})
    BY <1>8, <1>9, SameButTransitive
<1>11. /\ b.type = h.type /\ b.ctx = h.ctx /\ b.prev = h.prev /\ b.next = h.next
       /\ b.low = h.low /\ b.head = h.head /\ b.lhead = h.lhead /\ b.lowHead = h.lowHead
       /\ b.closed = h.closed /\ b.iter = h.iter /\ b.liter = h.liter /\ b.poll = a.poll
       /\ b.state = h.state /\ b.cnext = h.cnext /\ b.cprev = h.cprev /\ b.chead = h.chead
       /\ b.closedCtx = h.closedCtx /\ a.ref = h.ref
    BY <1>8, <1>9, <1>10 DEF SameBut, Fields
<1>12. Lists(b, {}, r)
    BY <1>11, SameFieldsLists
<1>13. Open(b, s)
    BY <1>11 DEF Open, IsClosed
<1>14. s \in Regular(b, c) \ {}
    BY <1>11, <1>13 DEF Regular
<1>15. Removed(k, b, s) /\ ContextsAs(k, b)
    BY <1>1, <1>5, <1>9, <1>12, <1>14, CutRegularRemoved
<1>16. k \in Heap
    BY <1>15 DEF Removed
<1>17. k.ref = [h.ref EXCEPT ![c] = @ + 1] /\ k.ref[c] # 1 /\ h.ref \in [Contexts -> Int]
    <2>1. h.ref \in [Contexts -> Int]
        BY <1>1 DEF Heap
    <2>2. k.ref = b.ref
        BY <1>15, Sides
    <2> QED  BY <1>1, <1>9, <1>11, <2>1, <2>2
<1>18. f \in Heap /\ SameBut(f, k, {"ref"}) /\ f.ref = [k.ref EXCEPT ![c] = @ - 1]
    BY <1>1, <1>6, <1>16, <1>17, UnrefFields
<1>19. SocketsAs(f, k)
    BY <1>18 DEF SocketsAs, SameBut, Fields, ContextFields
<1>20. f.ref = h.ref
    BY <1>1, <1>17, <1>18
<1>21. ContextsAs(f, h)
    <2>1. k.state = b.state /\ k.cnext = b.cnext /\ k.cprev = b.cprev /\ k.chead = b.chead /\ k.closedCtx = b.closedCtx
        BY <1>15, Sides
    <2>2. f.state = k.state /\ f.cnext = k.cnext /\ f.cprev = k.cprev /\ f.chead = k.chead /\ f.closedCtx = k.closedCtx
        BY <1>18 DEF SameBut, Fields
    <2> QED  BY <1>11, <1>20, <2>1, <2>2, Sides
<1>22. Removed(f, b, s)
    BY <1>15, <1>18, <1>19, RemovedAs
<1>23. Lists(f, {} \cup {s}, r)
    BY <1>9, <1>12, <1>13, <1>22, RemovedLists
<1>24. /\ f.type = b.type /\ f.ctx = b.ctx
       /\ \A t \in Sockets \ {s} : /\ IsClosed(f, t) <=> IsClosed(b, t)
                                   /\ Open(f, t) <=> Open(b, t)
                                   /\ f.low[t] = b.low[t]
    BY <1>9, <1>12, <1>13, <1>22, RemovedOthers
<1>25. f.poll = b.poll /\ f.liter = b.liter
    BY <1>22 DEF Removed, SameBut, Fields, ContextFields
<1>26. Enqueued(g, f, s)
    BY <1>7, <1>18, EnqueueFields
<1>27. f.lowHead # s
    <2>1. f.lowHead \in (Queued(f) \ ({} \cup {s})) \cup {Null}
        BY <1>23 DEF Lists, Threaded, Ordered
    <2> QED  BY <2>1, AddressesDiffer
<1>28. /\ g.type = f.type /\ g.ctx = f.ctx /\ g.poll = f.poll /\ g.liter = f.liter
       /\ g.head = f.head /\ g.lhead = f.lhead /\ g.closed = f.closed /\ g.iter = f.iter
       /\ ContextsAs(g, f)
    BY <1>26 DEF Enqueued, SameBut, Fields, ContextsAs, ContextFields
<1>29. g.prev[s] = Null /\ g.lowHead = s /\ g.low[s] = 1 /\ g.next[s] = f.lowHead /\ g \in Heap
    BY <1>26, <1>27 DEF Enqueued
<1>30. Open(g, s) /\ ~IsClosed(g, s) /\ g.ctx[s] \in Contexts
    BY <1>1, <1>11, <1>24, <1>28, <1>29, AddressesDiffer DEF Open, IsClosed
<1>31. s \in Queued(g) /\ \A e \in Contexts : s \notin Regular(g, e) /\ s \notin Listening(g, e)
    BY <1>11, <1>24, <1>28, <1>29, <1>30 DEF Queued, Regular, Listening
<1>32. Added(g, f, s)
    <2>1. \A t \in Sockets \ {s} : /\ g.low[t] = f.low[t] /\ g.next[t] = f.next[t]
                                   /\ g.prev[t] = IF t = g.next[s] THEN s ELSE f.prev[t]
        BY <1>26 DEF Enqueued
    <2> QED  BY <1>28, <1>29, <1>30, <1>31, <2>1 DEF Added
<1>33. r \in [Sockets -> Int]
    BY DEF Lists
<1>34. PICK q, n : Reranked(q, r, s, n)
    BY <1>33, LowerRank
<1>35. \A t \in Sockets : Open(f, t) => f.ctx[t] \in Contexts \/ t = s
    BY <1>11, <1>24 DEF Sound, Open
<1>36. s \in {} \cup {s}
    OBVIOUS
<1>37. Lists(g, ({} \cup {s}) \ {s}, q)
    BY <1>23, <1>32, <1>34, <1>35, <1>36, AddedLists
<1>38. ({} \cup {s}) \ {s} = {}
    OBVIOUS
<1>39. ContextsAs(g, h)
    BY <1>21, <1>28, SidesTransitive
<1>40. \A t \in Sockets \ {s} : IsClosed(g, t) <=> IsClosed(h, t)
    <2> SUFFICES ASSUME NEW t \in Sockets \ {s}
                 PROVE  IsClosed(g, t) <=> IsClosed(h, t)
        OBVIOUS
    <2>1. g.prev[t] = IF t = g.next[s] THEN s ELSE f.prev[t]
        BY <1>32 DEF Added
    <2>2. t = g.next[s] => Open(f, t)
        <3>1. f.lowHead \in (Queued(f) \ ({} \cup {s})) \cup {Null}
            BY <1>23 DEF Lists, Threaded, Ordered
        <3> QED  BY <1>29, <3>1, AddressesDiffer DEF Queued
    <2>3. IsClosed(f, t) <=> IsClosed(h, t)
        BY <1>11, <1>24 DEF IsClosed
    <2>4. CASE t = g.next[s]
        <3>1. f.ctx[t] \in Contexts
            BY <1>35, <2>2, <2>4
        <3>2. g.prev[t] # g.ctx[t]
            BY <1>28, <2>1, <2>4, <3>1, AddressesDiffer
        <3> QED  BY <2>2, <2>3, <2>4, <3>2 DEF IsClosed, Open
    <2>5. CASE t # g.next[s]
        BY <1>28, <2>1, <2>3, <2>5 DEF IsClosed
    <2> QED  BY <2>4, <2>5
<1>41. g.poll = [h.poll EXCEPT ![s] = d] /\ "R" \notin d /\ ("W" \in h.poll[s] => "W" \in d)
       /\ h.poll \in [Sockets -> SUBSET Directions]
    BY <1>1, <1>2, <1>8, <1>11, <1>25, <1>28 DEF Heap
<1>42. \A t \in Sockets \ {s} : g.low[t] = h.low[t]
    BY <1>11, <1>24, <1>32 DEF Added
<1>43. EnterInto(g, h, s)
    BY <1>11, <1>24, <1>25, <1>28, <1>29, <1>30, <1>39, <1>40, <1>41, <1>42 DEF EnterInto
<1> QED  BY <1>37, <1>38, <1>43

\* A socket that is parked keeps all that a heap promises.
LEMMA EnterQueueHeap ==
    ASSUME NEW h, NEW own, NEW r, NEW m, ~m.plain, Heaped(h, {}, own, r, m),
           NEW s \in Sockets, Open(h, s), h.type[s] \in {"socket", "shut"}, h.low[s] # 1,
           NEW g, g = EnterQueue(h, s)
    PROVE  /\ g.liter = h.liter /\ \E q : Heaped(g, {}, own, q, m)
           /\ g.type = h.type
           /\ \A t \in Sockets : "W" \in h.poll[t] => "W" \in g.poll[t]
<1>1. /\ Sound(h) /\ Lists(h, {}, r) /\ Homes(h) /\ Modes(h, m) /\ ContextsOK(h)
      /\ Covered(h, {}, own, m.plain)
    BY DEF Heaped
<1>2. PICK c \in Contexts : c = h.ctx[s]
    BY <1>1 DEF Sound, Open
<1>3. Holding(h, {}, s) /\ h.ref \in [Contexts -> Int]
    BY <1>1 DEF Holding, Open, Sound, Heap
<1>4. h.ref[c] >= 1
    BY <1>1, <1>2, <1>3, HeldReferenced
<1>5. EnterInto(g, h, s) /\ \E q : Lists(g, {}, q)
    BY <1>1, <1>2, <1>4, EnterQueueLists
<1>6. PICK q : Lists(g, {}, q)
    BY <1>5
<1>7. Sound(g)
    BY <1>1, EnterQueueSound DEF Open
<1>8. Stale(g, {})
    BY DEF Stale
<1>9. g.state = h.state /\ g.ref = h.ref
    BY <1>5, Sides DEF EnterInto
<1>10. Homes(g)
    BY <1>1, <1>5, <1>9 DEF Homes, EnterInto
<1>11. Modes(g, m)
    <2> SUFFICES ASSUME NEW t \in Sockets, Open(g, t)
                 PROVE  /\ g.low[t] = 1 => g.type[t] \in {"socket", "shut"} /\ "R" \notin g.poll[t]
                        /\ g.type[t] = "listen" => g.poll[t] = {"R"}
        BY DEF Modes
    <2>1. CASE t = s
        BY <1>5, <2>1 DEF EnterInto
    <2>2. CASE t # s
        <3>1. Open(h, t) /\ g.low[t] = h.low[t] /\ g.type[t] = h.type[t] /\ g.poll[t] = h.poll[t]
            BY <1>5, <2>2 DEF EnterInto, Open
        <3> QED  BY <1>1, <3>1 DEF Modes
    <2> QED  BY <2>1, <2>2
<1>12. ContextsOK(g)
    BY <1>1, <1>5, ContextsOKAs DEF EnterInto
<1>13. \A t \in Sockets : HoldsAs(g, {}, h, {}, t)
    BY <1>5 DEF HoldsAs, Holding, EnterInto, Open
<1>14. Covered(g, {}, own, m.plain)
    BY <1>1, <1>9, <1>13, CoveredSame
<1>15. Heaped(g, {}, own, q, m)
    BY <1>6, <1>7, <1>8, <1>10, <1>11, <1>12, <1>14 DEF Heaped
<1>16. \A t \in Sockets : "W" \in h.poll[t] => "W" \in g.poll[t]
    BY <1>5 DEF EnterInto
<1> QED  BY <1>5, <1>15, <1>16 DEF EnterInto

\* The head of the queue is taken off it.
Served(h) ==
    LET s == h.lowHead
        f == SetPrev([h EXCEPT !.lowHead = h.next[s]], h.next[s], Null)
    IN  [f EXCEPT !.next[s] = Null]

\* The head of the queue is taken out ...
LEMMA ServedRemoved ==
    ASSUME NEW h, Sound(h), NEW r, Lists(h, {}, r), h.lowHead # Null, NEW f, f = Served(h),
           NEW s, s = h.lowHead
    PROVE  /\ s \in Queued(h) /\ Removed(f, h, s)
           /\ SameBut(f, h, {"prev", "next", "lowHead"})
<1>1. h \in Heap /\ r \in [Sockets -> Int]
    BY DEF Sound, Lists
<1>2. Threaded(h.next, h.prev, Queued(h) \ {}, h.lowHead, r)
    BY DEF Lists
<1>3. s \in Queued(h) \ {}
    BY <1>2 DEF Threaded, Ordered
<1>4. s \in Sockets /\ s \in Queued(h) /\ h.ctx[s] \in Contexts
    BY <1>3 DEF Queued, Sound, Open
<1>5. Beside(h.next, h.prev, Queued(h) \ {}, h.lowHead, s)
    <2>1. Queued(h) \ {} \in SUBSET Sockets
        BY DEF Queued
    <2> QED  BY <1>1, <1>2, <1>3, <2>1, AddressesDiffer, Neighbours
<1>6. PICK n \in SocketPtr : n = h.next[s]
    BY <1>1, <1>4 DEF Heap
<1>7. h.prev[s] = Null /\ n # s
    BY <1>5, <1>6 DEF Beside
<1>8. PICK a : a = [h EXCEPT !.lowHead = n]
    OBVIOUS
<1>9. PICK b : b = SetPrev(a, n, Null)
    OBVIOUS
<1>10. f = [b EXCEPT !.next[s] = Null]
    BY <1>6, <1>8, <1>9 DEF Served
<1>11. Null \in SocketPtr
    BY DEF SocketPtr
<1>12. a \in Heap
    BY <1>1, <1>8, PutSocket
<1>13. /\ b \in Heap /\ SameBut(b, a, {"prev"})
       /\ \A t \in Sockets : b.prev[t] = IF t = n THEN Null ELSE a.prev[t]
    BY <1>9, <1>11, <1>12, SetPrevFields
<1>14. b \in Heap
    BY <1>13
<1>15. f \in Heap
    BY <1>4, <1>10, <1>11, <1>14, PutSocket
<1>16. DOMAIN h = Fields /\ DOMAIN a = Fields /\ DOMAIN b = Fields /\ DOMAIN f = Fields
    BY <1>1, <1>12, <1>14, <1>15, HeapFields
<1>17. SameBut(a, h, {"lowHead"}) /\ a.lowHead = n
    BY <1>8, <1>16 DEF SameBut, Fields
<1>18. SameBut(f, b, {"next"}) /\ f.next = [b.next EXCEPT ![s] = Null]
    BY <1>10, <1>16 DEF SameBut, Fields
<1>19. SameBut(b, h, {"prev", "lowHead"})
    BY <1>13, <1>17, SameButTransitive
<1>20. SameBut(f, h, {"prev", "next", "lowHead"})
    BY <1>18, <1>19, SameButTransitive
<1>21. /\ f.prev = b.prev /\ a.prev = h.prev /\ b.next = h.next /\ f.lowHead = n
    BY <1>13, <1>17, <1>18, <1>19 DEF SameBut, Fields
<1>22. h.next \in [Sockets -> SocketPtr]
    BY <1>1 DEF Heap
<1>23. f.next[s] \in {Null, h.next[s]}
    BY <1>4, <1>18, <1>21, <1>22
<1>24. \A t \in Sockets \ {s} : /\ f.next[t] = IF t = h.prev[s] THEN h.next[s] ELSE h.next[t]
                                /\ f.prev[t] = IF t = h.next[s] THEN h.prev[s] ELSE h.prev[t]
                                /\ f.low[t] = h.low[t]
    <2>1. f.low = h.low
        BY <1>20 DEF SameBut, Fields
    <2>2. \A t \in Sockets : t # Null
        BY AddressesDiffer
    <2> QED  BY <1>6, <1>7, <1>13, <1>18, <1>21, <1>22, <2>1, <2>2
<1>25. \A c \in Contexts : s \notin Regular(h, c) /\ s \notin Listening(h, c)
    BY <1>4 DEF Queued, Regular, Listening
<1>26. \A c \in Contexts : h.iter[c] # s
    BY <1>4, <1>25, AddressesDiffer DEF Lists
<1>27. f.iter = h.iter /\ f.head = h.head /\ f.lhead = h.lhead
    BY <1>20 DEF SameBut, Fields
<1>28. SameBut(f, h, ContextFields \cup {"prev", "next", "low", "head", "lhead", "lowHead", "iter"})
    BY <1>20 DEF SameBut
<1>29. f.lowHead = IF s \in Queued(h) /\ h.prev[s] = Null THEN h.next[s] ELSE h.lowHead
    BY <1>4, <1>6, <1>7, <1>21
<1>30. \A c \in Contexts :
          /\ f.iter[c] = IF h.iter[c] = s THEN h.next[s] ELSE h.iter[c]
          /\ f.head[c] = IF s \in Regular(h, c) /\ h.prev[s] = Null THEN h.next[s] ELSE h.head[c]
          /\ f.lhead[c] = IF s \in Listening(h, c) /\ h.prev[s] = Null
                          THEN h.next[s] ELSE h.lhead[c]
    BY <1>25, <1>26, <1>27
<1> QED  BY <1>4, <1>15, <1>20, <1>23, <1>24, <1>28, <1>29, <1>30 DEF Removed

\* The head of the queue is back in the list of its context.
ServeInto(g, h, s, c) ==
    /\ g \in Heap /\ g.liter = h.liter /\ g.ref = [h.ref EXCEPT ![c] = @ + 1]
    /\ SameBut(g, h, (ContextFields \cap {"ref"}) \cup (Fields \ ContextFields))
    /\ g.type = h.type /\ g.ctx = h.ctx /\ g.low[s] = 2 /\ ~IsClosed(g, s)
    /\ "W" \in h.poll[s] => "W" \in g.poll[s]
    /\ \A t \in Sockets \ {s} : /\ g.poll[t] = h.poll[t] /\ g.low[t] = h.low[t]
                                /\ IsClosed(g, t) <=> IsClosed(h, t)

\* ... and linked into its context again.
LEMMA ServeQueueLists ==
    ASSUME NEW h, Sound(h), NEW r, Lists(h, {}, r), h.lowHead # Null,
           NEW s, s = h.lowHead, NEW c, c = h.ctx[s], NEW g, g = ServeQueue(h)
    PROVE  s \in Queued(h) /\ ServeInto(g, h, s, c) /\ \E q : Lists(g, {}, q)
<1>1. PICK f : f = Served(h)
    OBVIOUS
<1>2. /\ s \in Queued(h) /\ Removed(f, h, s)
      /\ SameBut(f, h, {"prev", "next", "lowHead"})
    BY <1>1, ServedRemoved
<1>3. s \in Sockets /\ Open(h, s) /\ h.type[s] # "listen" /\ h.type[s] # "free"
    BY <1>2 DEF Queued, Open
<1>4. c \in Contexts /\ h \in Heap
    BY <1>3 DEF Sound
<1>5. s \notin {}
    OBVIOUS
<1>6. Lists(f, {} \cup {s}, r)
    BY <1>2, <1>3, <1>5, RemovedLists
<1>7. /\ f.type = h.type /\ f.ctx = h.ctx
      /\ \A t \in Sockets \ {s} : /\ IsClosed(f, t) <=> IsClosed(h, t)
                                  /\ Open(f, t) <=> Open(h, t)
                                  /\ f.low[t] = h.low[t]
    BY <1>2, <1>3, <1>5, RemovedOthers
<1>8. f \in Heap
    BY <1>2 DEF Removed
<1>9. PICK l : l = LinkSocket(f, c, s)
    OBVIOUS
<1>10. /\ Linked(l, f, c, s) /\ l.next[s] = f.head[c]
       /\ l.head = [f.head EXCEPT ![c] = s] /\ l.lhead = f.lhead
    BY <1>3, <1>4, <1>8, <1>9, LinkSocketFields
<1>11. l \in Heap
    BY <1>10 DEF Linked
<1>12. PICK d \in SUBSET Directions : d = l.poll[s] \cup {"R"}
    BY <1>3, <1>11 DEF Heap, Directions
<1>13. PICK p : p = [l EXCEPT !.poll[s] = d]
    OBVIOUS
<1>14. PICK v \in 0..2 : v = 2
    OBVIOUS
<1>15. g = [p EXCEPT !.low[s] = v]
    BY <1>1, <1>9, <1>12, <1>13, <1>14 DEF ServeQueue, Served, PollChange
<1>16. p \in Heap
    BY <1>3, <1>11, <1>13, PutSocket
<1>17. g \in Heap
    <2>1. [p EXCEPT !.low[s] = v] \in Heap
        BY <1>3, <1>16, PutSocket
    <2> QED  BY <1>15, <2>1
<1>18. DOMAIN l = Fields /\ DOMAIN p = Fields /\ DOMAIN g = Fields
    BY <1>11, <1>16, <1>17, HeapFields
<1>19. SameBut(g, l, {"poll", "low"}) /\ g.poll = [l.poll EXCEPT ![s] = d] /\ g.low = [l.low EXCEPT ![s] = 2]
    BY <1>13, <1>14, <1>15, <1>18 DEF SameBut, Fields
<1>20. SameBut(l, f, {"ctx", "next", "prev", "head", "lhead", "ref"})
    BY <1>10 DEF Linked
<1>21. /\ l.low = f.low /\ l.poll = f.poll /\ l.type = f.type /\ l.closed = f.closed
       /\ l.iter = f.iter /\ l.lowHead = f.lowHead /\ l.liter = f.liter
    BY <1>20 DEF SameBut, Fields
<1>22. /\ g.type = l.type /\ g.ctx = l.ctx /\ g.prev = l.prev /\ g.next = l.next
       /\ g.head = l.head /\ g.lhead = l.lhead /\ g.closed = l.closed /\ g.iter = l.iter
       /\ g.lowHead = l.lowHead /\ g.liter = l.liter /\ g.ref = l.ref
    BY <1>19 DEF SameBut, Fields
<1>23. f.head[c] # s /\ f.head[c] \in SocketPtr
    <2>1. f.head[c] \in (Regular(f, c) \ ({} \cup {s})) \cup {Null}
        BY <1>4, <1>6 DEF Lists, Threaded, Ordered
    <2> QED  BY <1>3, <2>1, AddressesDiffer DEF Regular, SocketPtr
<1>24. /\ l.ctx[s] = c /\ l.ref = [f.ref EXCEPT ![c] = @ + 1] /\ l.prev[s] = Null
       /\ \A t \in Sockets \ {s} : /\ l.ctx[t] = f.ctx[t] /\ l.next[t] = f.next[t]
                                   /\ l.prev[t] = IF t = l.next[s] THEN s ELSE f.prev[t]
    BY <1>10, <1>23 DEF Linked
<1>25. /\ f.low \in [Sockets -> 0..2] /\ f.poll \in [Sockets -> SUBSET Directions]
       /\ f.ctx \in [Sockets -> ContextPtr] /\ l.ctx \in [Sockets -> ContextPtr]
       /\ f.head \in [Contexts -> SocketPtr]
    BY <1>8, <1>11 DEF Heap
<1>26. /\ g.low[s] = 2 /\ \A t \in Sockets \ {s} : g.low[t] = f.low[t] /\ g.poll[t] = f.poll[t]
    BY <1>3, <1>19, <1>21, <1>25
<1>27. Open(g, s) /\ ~IsClosed(g, s) /\ g.ctx[s] = c
    BY <1>3, <1>4, <1>7, <1>21, <1>22, <1>24, AddressesDiffer DEF Open, IsClosed
<1>28. /\ s \in Regular(g, c) /\ s \notin Queued(g)
       /\ \A e \in Contexts : s \notin Listening(g, e) /\ (s \in Regular(g, e) <=> e = c)
    BY <1>3, <1>7, <1>21, <1>22, <1>26, <1>27 DEF Regular, Queued, Listening
<1>29. Added(g, f, s)
    <2>1. g.prev[s] = Null /\ g.ctx[s] \in Contexts
        BY <1>4, <1>22, <1>24, <1>27
    <2>2. \A t \in Sockets \ {s} :
              /\ g.type[t] = f.type[t] /\ g.ctx[t] = f.ctx[t]
              /\ g.next[t] = f.next[t] /\ g.low[t] = f.low[t]
              /\ g.prev[t] = IF t = g.next[s] THEN s ELSE f.prev[t]
        BY <1>21, <1>22, <1>24, <1>26
    <2>3. \A e \in Contexts :
              /\ g.head[e]  = IF s \in Regular(g, e) THEN s ELSE f.head[e]
              /\ g.lhead[e] = IF s \in Listening(g, e) THEN s ELSE f.lhead[e]
              /\ s \in Regular(g, e) => g.next[s] = f.head[e]
              /\ s \in Listening(g, e) => g.next[s] = f.lhead[e]
        BY <1>10, <1>22, <1>25, <1>28
    <2> QED  BY <1>17, <1>21, <1>22, <1>27, <1>28, <2>1, <2>2, <2>3 DEF Added
<1>30. r \in [Sockets -> Int]
    BY DEF Lists
<1>31. PICK q, n : Reranked(q, r, s, n)
    BY <1>3, <1>30, LowerRank
<1>32. \A t \in Sockets : Open(f, t) => f.ctx[t] \in Contexts \/ t = s
    BY <1>7 DEF Sound, Open
<1>33. s \in {} \cup {s}
    OBVIOUS
<1>34. Lists(g, ({} \cup {s}) \ {s}, q)
    BY <1>3, <1>6, <1>29, <1>31, <1>32, <1>33, AddedLists
<1>35. ({} \cup {s}) \ {s} = {}
    OBVIOUS
<1>36. g.ref = [h.ref EXCEPT ![c] = @ + 1] /\ g.liter = h.liter
    <2>1. f.ref = h.ref /\ f.liter = h.liter
        BY <1>2 DEF SameBut, Fields
    <2> QED  BY <1>21, <1>22, <1>24, <2>1
<1>37. SameBut(g, h, (ContextFields \cap {"ref"}) \cup (Fields \ ContextFields))
    BY <1>2, <1>19, <1>20 DEF SameBut, Fields, ContextFields
<1>38. f.poll = h.poll /\ f.low = h.low
    BY <1>2 DEF SameBut, Fields
<1>39. g.type = h.type
    BY <1>7, <1>21, <1>22
<1>40. g.ctx = h.ctx
    <2>1. h.ctx \in [Sockets -> ContextPtr]
        BY <1>4 DEF Heap
    <2>2. \A t \in Sockets : g.ctx[t] = h.ctx[t]
        BY <1>7, <1>22, <1>24
    <2> QED  BY <1>22, <1>25, <2>1, <2>2
<1>41. \A t \in Sockets \ {s} : IsClosed(g, t) <=> IsClosed(h, t)
    <2> SUFFICES ASSUME NEW t \in Sockets \ {s}
                 PROVE  IsClosed(g, t) <=> IsClosed(h, t)
        OBVIOUS
    <2>1. g.prev[t] = IF t = g.next[s] THEN s ELSE f.prev[t]
        BY <1>29 DEF Added
    <2>2. t = g.next[s] => Open(f, t)
        <3>1. f.head[c] \in (Regular(f, c) \ ({} \cup {s})) \cup {Null}
            BY <1>4, <1>6 DEF Lists, Threaded, Ordered
        <3>2. g.next[s] = f.head[c]
            BY <1>10, <1>22
        <3> QED  BY <3>1, <3>2, AddressesDiffer DEF Regular
    <2>3. IsClosed(f, t) <=> IsClosed(h, t)
        BY <1>7
    <2>4. CASE t = g.next[s]
        <3>1. f.ctx[t] \in Contexts
            BY <1>32, <2>2, <2>4
        <3>2. g.prev[t] # g.ctx[t]
            BY <1>3, <1>7, <1>40, <2>1, <2>4, <3>1, AddressesDiffer
        <3> QED  BY <2>2, <2>3, <2>4, <3>2 DEF IsClosed, Open
    <2>5. CASE t # g.next[s]
        BY <1>7, <1>40, <2>1, <2>3, <2>5 DEF IsClosed
    <2> QED  BY <2>4, <2>5
<1>42. ServeInto(g, h, s, c)
    <2>1. \A t \in Sockets \ {s} : g.poll[t] = h.poll[t] /\ g.low[t] = h.low[t]
        BY <1>26, <1>38
    <2>2. "W" \in h.poll[s] => "W" \in g.poll[s]
        BY <1>3, <1>12, <1>19, <1>21, <1>25, <1>38
    <2> QED  BY <2>2, <1>17, <1>26, <1>27, <1>36, <1>37, <1>39, <1>40, <1>41, <2>1 DEF ServeInto
<1> QED  BY <1>2, <1>34, <1>35, <1>42

\* Serving the queue keeps all that a heap promises.
LEMMA ServeQueueHeap ==
    ASSUME NEW h, NEW own, NEW r, NEW m, Heaped(h, {}, own, r, m), h.lowHead # Null,
           NEW g, g = ServeQueue(h)
    PROVE  /\ g.liter = h.liter /\ \E q : Heaped(g, {}, own, q, m)
           /\ g.type = h.type
           /\ \A t \in Sockets : "W" \in h.poll[t] => "W" \in g.poll[t]
<1>1. /\ Sound(h) /\ Lists(h, {}, r) /\ Homes(h) /\ Modes(h, m) /\ ContextsOK(h)
      /\ Covered(h, {}, own, m.plain)
    BY DEF Heaped
<1>2. PICK s : s = h.lowHead
    OBVIOUS
<1>3. PICK c : c = h.ctx[s]
    OBVIOUS
<1>4. s \in Queued(h) /\ ServeInto(g, h, s, c) /\ \E q : Lists(g, {}, q)
    BY <1>1, <1>2, <1>3, ServeQueueLists
<1>5. PICK q : Lists(g, {}, q)
    BY <1>4
<1>6. s \in Sockets /\ Open(h, s) /\ h.low[s] = 1 /\ c \in Contexts
    BY <1>1, <1>3, <1>4 DEF Queued, Sound, Open
<1>7. h.type[s] \in {"socket", "shut"} /\ ~m.plain
    BY <1>1, <1>6 DEF Modes
<1>8. Holding(h, {}, s) /\ h.ref \in [Contexts -> Int]
    BY <1>1, <1>6 DEF Holding, Open, Sound, Heap
<1>9. h.ref[c] >= 1
    BY <1>1, <1>3, <1>6, <1>8, HeldReferenced
<1>10. g.ref = [h.ref EXCEPT ![c] = @ + 1] /\ g.liter = h.liter
    BY <1>4 DEF ServeInto
<1>11. ContextsOK(g)
    <2>1. SameBut(g, h, (ContextFields \cap {"ref"}) \cup (Fields \ ContextFields))
        BY <1>4 DEF ServeInto
    <2> QED  BY <1>1, <1>6, <1>8, <1>9, <1>10, <2>1, RefContexts
<1>12. \A t \in Sockets : HoldsAs(g, {}, h, {}, t)
    BY <1>4, <1>6 DEF HoldsAs, Holding, ServeInto, Open
<1>13. Covered(g, {}, own, m.plain)
    BY <1>1, <1>6, <1>7, <1>8, <1>10, <1>12, CoveredLeak
<1>14. Homes(g)
    <2>1. g.state = h.state
        BY <1>4 DEF ServeInto, SameBut, Fields, ContextFields
    <2> QED  BY <1>1, <1>4, <2>1 DEF Homes, ServeInto
<1>15. Modes(g, m)
    <2> SUFFICES ASSUME NEW t \in Sockets, Open(g, t)
                 PROVE  /\ g.low[t] = 1 => g.type[t] \in {"socket", "shut"} /\ "R" \notin g.poll[t]
                        /\ g.type[t] = "listen" => g.poll[t] = {"R"}
        BY <1>7 DEF Modes
    <2>1. CASE t = s
        BY <1>4, <1>7, <2>1 DEF ServeInto
    <2>2. CASE t # s
        <3>1. Open(h, t) /\ g.low[t] = h.low[t] /\ g.type[t] = h.type[t] /\ g.poll[t] = h.poll[t]
            BY <1>4, <2>2 DEF ServeInto, Open
        <3> QED  BY <1>1, <3>1 DEF Modes
    <2> QED  BY <2>1, <2>2
<1>16. Sound(g)
    BY <1>1, <1>4, ServeQueueSound
<1>17. Stale(g, {})
    BY DEF Stale
<1>18. Heaped(g, {}, own, q, m)
    BY <1>5, <1>11, <1>13, <1>14, <1>15, <1>16, <1>17 DEF Heaped
<1>19. \A t \in Sockets : "W" \in h.poll[t] => "W" \in g.poll[t]
    BY <1>4 DEF ServeInto
<1>20. g.type = h.type
    BY <1>4 DEF ServeInto
<1> QED  BY <1>10, <1>18, <1>19, <1>20

-----------------------------------------------------------------------------
(* Memory given back, and sockets that move.                               *)

\* The fields of a socket, which us_poll_free clears.
SocketFields == {"type", "poll", "ctx", "prev", "next", "low", "paused", "due"}

\* The fields of the freed sockets and of the others.
FreedInto(g, h, S) ==
    /\ g \in Heap /\ SameBut(g, h, SocketFields)
    /\ \A t \in Sockets :
          IF t \in S
          THEN /\ g.type[t] = "free" /\ g.ctx[t] = Null /\ g.prev[t] = Null /\ g.next[t] = Null
               /\ g.low[t] = 0 /\ g.poll[t] = {} /\ g.due[t] = {}
          ELSE /\ g.type[t] = h.type[t] /\ g.ctx[t] = h.ctx[t] /\ g.prev[t] = h.prev[t]
               /\ g.next[t] = h.next[t] /\ g.low[t] = h.low[t] /\ g.poll[t] = h.poll[t]
               /\ g.due[t] = h.due[t]

\* FreeSockets frees them.
LEMMA FreedFields ==
    ASSUME NEW h \in Heap, NEW S, NEW g, g = FreeSockets(h, S)
    PROVE  FreedInto(g, h, S)
<1>1. g \in Heap
    BY FreeSocketsFields
<1>2. DOMAIN h = Fields /\ DOMAIN g = Fields
    BY <1>1, HeapFields
<1>3. SameBut(g, h, SocketFields)
    BY <1>2 DEF FreeSockets, SameBut, Fields, SocketFields
<1>4. /\ g.type = Wipe(h.type, S, "free") /\ g.poll = Wipe(h.poll, S, {})
      /\ g.ctx = Wipe(h.ctx, S, Null) /\ g.prev = Wipe(h.prev, S, Null)
      /\ g.next = Wipe(h.next, S, Null) /\ g.low = Wipe(h.low, S, 0) /\ g.due = Wipe(h.due, S, {})
    BY <1>2 DEF FreeSockets, Fields
<1>5. /\ DOMAIN h.type = Sockets /\ DOMAIN h.poll = Sockets /\ DOMAIN h.ctx = Sockets
      /\ DOMAIN h.prev = Sockets /\ DOMAIN h.next = Sockets /\ DOMAIN h.low = Sockets
      /\ DOMAIN h.due = Sockets
    BY DEF Heap
<1>6. \A t \in Sockets :
          IF t \in S
          THEN /\ g.type[t] = "free" /\ g.ctx[t] = Null /\ g.prev[t] = Null /\ g.next[t] = Null
               /\ g.low[t] = 0 /\ g.poll[t] = {} /\ g.due[t] = {}
          ELSE /\ g.type[t] = h.type[t] /\ g.ctx[t] = h.ctx[t] /\ g.prev[t] = h.prev[t]
               /\ g.next[t] = h.next[t] /\ g.low[t] = h.low[t] /\ g.poll[t] = h.poll[t]
               /\ g.due[t] = h.due[t]
    BY <1>4, <1>5 DEF Wipe
<1> QED  BY <1>1, <1>3, <1>6 DEF FreedInto

\* The socket s is now at n.
MovedInto(g, f, s, n) ==
    /\ g \in Heap /\ SameBut(g, f, SocketFields \cup {"ready"})
    /\ g.type[n] = f.type[s] /\ g.low[n] = f.low[s] /\ g.poll[n] = f.poll[s] /\ g.due[n] = {}
    /\ n # s => g.type[s] = "free"
    /\ \A t \in Sockets \ {s, n} :
          /\ g.type[t] = f.type[t] /\ g.ctx[t] = f.ctx[t] /\ g.prev[t] = f.prev[t]
          /\ g.next[t] = f.next[t] /\ g.low[t] = f.low[t] /\ g.poll[t] = f.poll[t]
          /\ g.due[t] = f.due[t]

\* Nothing is due to s and n any more.
Undue(g, v, s, n) ==
    /\ g \in Heap /\ SameBut(g, v, {"due"}) /\ g.due[n] = {}
    /\ \A t \in Sockets \ {s, n} : g.due[t] = v.due[t]

\* A socket that has moved has no timeout due.
LEMMA UndueFields ==
    ASSUME NEW v \in Heap, NEW s \in Sockets, NEW n \in Sockets,
           NEW g, g = [v EXCEPT !.due[s] = {}, !.due[n] = {}]
    PROVE  Undue(g, v, s, n)
<1>1. PICK d : d = [v.due EXCEPT ![s] = {}]
    OBVIOUS
<1>2. PICK e : e = [d EXCEPT ![n] = {}]
    OBVIOUS
<1>3. DOMAIN v = Fields
    BY HeapFields
<1>4. g = [v EXCEPT !.due = e]
    BY <1>1, <1>2, <1>3 DEF Fields
<1>5. v.due \in [Sockets -> SUBSET {"short", "long"}]
    BY DEF Heap
<1>6. d \in [Sockets -> SUBSET {"short", "long"}]
    BY <1>1, <1>5
<1>7. /\ e \in [Sockets -> SUBSET {"short", "long"}] /\ e[n] = {}
      /\ \A t \in Sockets \ {s, n} : e[t] = v.due[t]
    BY <1>1, <1>2, <1>5, <1>6
<1>8. g \in Heap
    BY <1>4, <1>7 DEF Heap
<1>9. SameBut(g, v, {"due"}) /\ g.due = e
    BY <1>3, <1>4 DEF SameBut, Fields
<1> QED  BY <1>7, <1>8, <1>9 DEF Undue

\* The copy of s that us_poll_resize makes at n.
Copy(h, s, n) ==
    [[h EXCEPT !.type[n] = h.type[s], !.poll[n] = h.poll[s],
               !.ctx[n] = h.ctx[s], !.prev[n] = h.prev[s],
               !.next[n] = h.next[s], !.paused[n] = h.paused[s],
               !.ready = [@ EXCEPT ![n] = h.ready[s], ![s] = {}]] EXCEPT !.low[n] = h.low[s]]

\* The fields of a socket that was copied to n.
CopiedInto(k, h, s, n) ==
    /\ k \in Heap /\ SameBut(k, h, SocketFields \cup {"ready"})
    /\ k.type = [h.type EXCEPT ![n] = h.type[s]] /\ k.low = [h.low EXCEPT ![n] = h.low[s]]
    /\ k.ctx = [h.ctx EXCEPT ![n] = h.ctx[s]] /\ k.prev = [h.prev EXCEPT ![n] = h.prev[s]]
    /\ k.next = [h.next EXCEPT ![n] = h.next[s]] /\ k.poll = [h.poll EXCEPT ![n] = h.poll[s]]
    /\ k.due = h.due

\* realloc copies them.
LEMMA CopyFields ==
    ASSUME NEW h \in Heap, NEW s \in Sockets, NEW n \in Sockets, NEW k, k = Copy(h, s, n)
    PROVE  CopiedInto(k, h, s, n)
<1>1. PICK type : type = [h.type EXCEPT ![n] = h.type[s]]
    OBVIOUS
<1>2. PICK poll : poll = [h.poll EXCEPT ![n] = h.poll[s]]
    OBVIOUS
<1>3. PICK ctx : ctx = [h.ctx EXCEPT ![n] = h.ctx[s]]
    OBVIOUS
<1>4. PICK prev : prev = [h.prev EXCEPT ![n] = h.prev[s]]
    OBVIOUS
<1>5. PICK next : next = [h.next EXCEPT ![n] = h.next[s]]
    OBVIOUS
<1>6. PICK paused : paused = [h.paused EXCEPT ![n] = h.paused[s]]
    OBVIOUS
<1>7. PICK ready : ready = [h.ready EXCEPT ![n] = h.ready[s], ![s] = {}]
    OBVIOUS
<1>8. PICK low : low = [h.low EXCEPT ![n] = h.low[s]]
    OBVIOUS
<1>9. DOMAIN h = Fields
    BY HeapFields
<1>10. k = [h EXCEPT !.type = type, !.poll = poll, !.ctx = ctx, !.prev = prev, !.next = next,
                     !.paused = paused, !.ready = ready, !.low = low]
    BY <1>1, <1>2, <1>3, <1>4, <1>5, <1>6, <1>7, <1>8, <1>9 DEF Copy, Fields
<1>11. /\ type \in [Sockets -> PollTypes] /\ poll \in [Sockets -> SUBSET Directions]
       /\ ctx \in [Sockets -> ContextPtr] /\ prev \in [Sockets -> SocketPtr \cup Contexts]
    BY <1>1, <1>2, <1>3, <1>4 DEF Heap
<1>12. /\ next \in [Sockets -> SocketPtr] /\ paused \in [Sockets -> BOOLEAN]
       /\ ready \in [Sockets -> SUBSET (Directions \cup Conditions)]
    BY <1>5, <1>6, <1>7 DEF Heap
<1>13. low \in [Sockets -> 0..2]
    BY <1>8 DEF Heap
<1>14. k \in Heap
    <2>1. PICK j : j = [h EXCEPT !.type = type, !.poll = poll, !.ctx = ctx, !.prev = prev,
                                 !.next = next, !.paused = paused, !.ready = ready]
        OBVIOUS
    <2>2. j \in Heap
        BY <1>11, <1>12, <2>1 DEF Heap
    <2>3. PICK Low : Low = 0..2
        OBVIOUS
    <2>4. k = [j EXCEPT !.low = low]
        BY <1>9, <1>10, <2>1 DEF Fields
    <2> QED  BY <1>13, <2>2, <2>3, <2>4 DEF Heap
<1>15. /\ k.type = type /\ k.poll = poll /\ k.ctx = ctx /\ k.prev = prev /\ k.next = next
       /\ k.low = low /\ k.due = h.due
    BY <1>9, <1>10 DEF Fields
<1>16. SameBut(k, h, SocketFields \cup {"ready"})
    BY <1>9, <1>10 DEF SameBut, Fields, SocketFields
<1> QED  BY <1>1, <1>2, <1>3, <1>4, <1>5, <1>8, <1>14, <1>15, <1>16 DEF CopiedInto

\* The fields that us_poll_resize writes.
LEMMA MovedFields ==
    ASSUME NEW f \in Heap, NEW s \in Sockets, NEW n \in Sockets, NEW v, v = Move(f, s, n),
           NEW g, g = [v EXCEPT !.due[s] = {}, !.due[n] = {}]
    PROVE  MovedInto(g, f, s, n)
<1>1. CASE s = n
    <2>1. v = f
        BY <1>1 DEF Move
    <2>3. Undue(g, f, s, n)
        BY <2>1, UndueFields
    <2>2. /\ g \in Heap /\ SameBut(g, f, {"due"}) /\ g.due[n] = {}
          /\ \A t \in Sockets \ {s, n} : g.due[t] = f.due[t]
        BY <2>3 DEF Undue
    <2> QED  BY <1>1, <2>2 DEF MovedInto, SameBut, Fields, SocketFields
<1>2. CASE s # n
    <2>1. PICK k : k = Copy(f, s, n)
        OBVIOUS
    <2>2. v = FreeSockets(k, {s})
        BY <1>2, <2>1 DEF Move, Copy
    <2>3. /\ k \in Heap /\ SameBut(k, f, SocketFields \cup {"ready"})
          /\ k.type = [f.type EXCEPT ![n] = f.type[s]] /\ k.low = [f.low EXCEPT ![n] = f.low[s]]
          /\ k.ctx = [f.ctx EXCEPT ![n] = f.ctx[s]] /\ k.prev = [f.prev EXCEPT ![n] = f.prev[s]]
          /\ k.next = [f.next EXCEPT ![n] = f.next[s]] /\ k.poll = [f.poll EXCEPT ![n] = f.poll[s]]
          /\ k.due = f.due
        <3>1. CopiedInto(k, f, s, n)
            BY <2>1, CopyFields
        <3> QED  BY <3>1 DEF CopiedInto
    <2>4. FreedInto(v, k, {s})
        BY <2>2, <2>3, FreedFields
    <2>5. v \in Heap
        BY <2>4 DEF FreedInto
    <2>6. /\ g \in Heap /\ SameBut(g, v, {"due"}) /\ g.due[n] = {}
          /\ \A t \in Sockets \ {s, n} : g.due[t] = v.due[t]
        <3>1. Undue(g, v, s, n)
            BY <2>5, UndueFields
        <3> QED  BY <3>1 DEF Undue
    <2>7. SameBut(v, k, SocketFields)
        BY <2>4 DEF FreedInto
    <2>8. SameBut(g, f, SocketFields \cup {"ready"})
        BY <2>3, <2>6, <2>7 DEF SameBut, Fields, SocketFields
    <2>9. /\ g.type = v.type /\ g.ctx = v.ctx /\ g.prev = v.prev /\ g.next = v.next
          /\ g.low = v.low /\ g.poll = v.poll
        BY <2>6 DEF SameBut, Fields
    <2>10. /\ f.type \in [Sockets -> PollTypes] /\ f.poll \in [Sockets -> SUBSET Directions]
           /\ f.ctx \in [Sockets -> ContextPtr] /\ f.prev \in [Sockets -> SocketPtr \cup Contexts]
           /\ f.next \in [Sockets -> SocketPtr] /\ f.low \in [Sockets -> 0..2]
        BY DEF Heap
    <2>11. /\ v.type[s] = "free"
           /\ \A t \in Sockets \ {s} :
                 /\ v.type[t] = k.type[t] /\ v.ctx[t] = k.ctx[t] /\ v.prev[t] = k.prev[t]
                 /\ v.next[t] = k.next[t] /\ v.low[t] = k.low[t] /\ v.poll[t] = k.poll[t]
                 /\ v.due[t] = k.due[t]
        BY <2>4 DEF FreedInto
    <2>12. /\ g.type[n] = f.type[s] /\ g.low[n] = f.low[s] /\ g.poll[n] = f.poll[s]
           /\ \A t \in Sockets \ {s, n} :
                 /\ g.type[t] = f.type[t] /\ g.ctx[t] = f.ctx[t] /\ g.prev[t] = f.prev[t]
                 /\ g.next[t] = f.next[t] /\ g.low[t] = f.low[t] /\ g.poll[t] = f.poll[t]
        BY <1>2, <2>3, <2>9, <2>10, <2>11
    <2>13. \A t \in Sockets \ {s, n} : g.due[t] = f.due[t]
        BY <2>3, <2>6, <2>11
    <2> QED  BY <1>2, <2>6, <2>8, <2>9, <2>11, <2>12, <2>13 DEF MovedInto
<1> QED  BY <1>1, <1>2

\* Unlinking leaves the queue states alone.
LEMMA CutRegularLow ==
    ASSUME NEW h \in Heap, NEW c \in Contexts, NEW s \in Sockets, h.prev[s] \in SocketPtr,
           NEW k, k = CutRegular(h, c, s)
    PROVE  k.low = h.low
<1>1. PICK n \in SocketPtr : n = h.next[s]
    BY DEF Heap
<1>2. PICK p \in SocketPtr : p = h.prev[s]
    OBVIOUS
<1>3. PICK f : f = StepIterator(h, c, s)
    OBVIOUS
<1>4. PICK a : a = SetNext(f, p, n)
    OBVIOUS
<1>5. PICK b : b = [f EXCEPT !.head[c] = n]
    OBVIOUS
<1>6. PICK e : e = IF p \in Sockets THEN a ELSE b
    OBVIOUS
<1>7. k = IF p = n THEN [f EXCEPT !.head[c] = Null] ELSE SetPrev(e, n, p)
    BY <1>1, <1>2, <1>3, <1>4, <1>5, <1>6 DEF CutRegular
<1>8. f \in Heap /\ SameBut(f, h, {"iter"})
    BY <1>3, StepIteratorFields
<1>9. a \in Heap /\ SameBut(a, f, {"next"})
    BY <1>4, <1>8, SetNextFields
<1>10. b \in Heap
    BY <1>5, <1>8, PutContext
<1>11. DOMAIN f = Fields
    BY <1>8, HeapFields
<1>12. b.low = f.low /\ a.low = f.low /\ f.low = h.low /\ [f EXCEPT !.head[c] = Null].low = f.low
    BY <1>5, <1>8, <1>9, <1>11 DEF SameBut, Fields
<1>13. e \in Heap /\ e.low = h.low
    BY <1>6, <1>9, <1>10, <1>12
<1>14. PICK l : l = SetPrev(e, n, p)
    OBVIOUS
<1>15. SameBut(l, e, {"prev"})
    BY <1>13, <1>14, SetPrevFields
<1>16. l.low = e.low
    BY <1>15 DEF SameBut, Fields
<1> QED  BY <1>7, <1>12, <1>13, <1>14, <1>16

\* s leaves its list and its context loses a reference, c having gained one.
DepartInto(f, h, c, s) ==
    /\ f \in Heap /\ ContextsOK(f) /\ f.liter = h.liter
    /\ f.type = h.type /\ f.ctx = h.ctx /\ f.low = h.low /\ f.poll = h.poll /\ f.due = h.due
    /\ \A t \in Sockets \ {s} : Open(f, t) <=> Open(h, t)
    /\ f.ref[c] >= 1
    /\ \A e \in Contexts :
          /\ f.ref[e] = h.ref[e] + (IF e = c THEN 1 ELSE 0) - (IF e = h.ctx[s] THEN 1 ELSE 0)
          /\ h.state[e] # "none" => f.state[e] # "none"
    /\ Fades(h, f)

\* The sweep of the context has moved on, as it would if s were closed at w.
DepartSweep(f, h, r, s) ==
    \E w : /\ SweepKept(h, w, r, r) /\ Lists(w, {s}, r)
           /\ w.iter = f.iter /\ w.due = f.due
           /\ \A c \in Contexts : Regular(w, c) = Regular(h, c) \ {s}

\* A socket that is adopted leaves the list of its context ...
LEMMA DepartLists ==
    ASSUME NEW h, Sound(h), NEW r, Lists(h, {}, r), ContextsOK(h), Homes(h),
           NEW s \in Sockets, Open(h, s), h.type[s] = "socket", h.low[s] # 1,
           NEW c \in Contexts, h.ref[c] >= 1, h.ref[h.ctx[s]] >= 1,
           NEW f, f = UnlinkSocket(Ref(h, c), h.ctx[s], s)
    PROVE  DepartInto(f, h, c, s) /\ Lists(f, {s}, r) /\ DepartSweep(f, h, r, s)
<1>1. PICK d \in Contexts : d = h.ctx[s]
    BY DEF Sound, Open
<1>2. h \in Heap /\ h.ref \in [Contexts -> Int]
    BY DEF Sound, Heap
<1>3. PICK b : b = Ref(h, c)
    OBVIOUS
<1>4. PICK k : k = CutRegular(b, d, s)
    OBVIOUS
<1>5. f = Unref(k, d)
    BY <1>1, <1>3, <1>4, Cuts
<1>6. b \in Heap /\ SameBut(b, h, {"ref"}) /\ b.ref = [h.ref EXCEPT ![c] = @ + 1]
    BY <1>2, <1>3, RefFields
<1>7. Sound(b)
    <2>1. c \in ContextPtr
        BY DEF ContextPtr
    <2> QED  BY <1>3, <2>1, RefSound
<1>8. /\ b.type = h.type /\ b.ctx = h.ctx /\ b.prev = h.prev /\ b.next = h.next
      /\ b.low = h.low /\ b.head = h.head /\ b.lhead = h.lhead /\ b.lowHead = h.lowHead
      /\ b.closed = h.closed /\ b.iter = h.iter /\ b.liter = h.liter /\ b.poll = h.poll
      /\ b.state = h.state /\ b.due = h.due
    BY <1>6 DEF SameBut, Fields
<1>9. Lists(b, {}, r)
    BY <1>8, SameFieldsLists
<1>10. Open(b, s)
    BY <1>8 DEF Open, IsClosed
<1>11. s \in Regular(b, d) \ {}
    BY <1>1, <1>8, <1>10 DEF Regular
<1>12. Removed(k, b, s) /\ ContextsAs(k, b)
    BY <1>4, <1>6, <1>9, <1>11, CutRegularRemoved
<1>13. k \in Heap
    BY <1>12 DEF Removed
<1>14. ContextsOK(b)
    <2>1. SameBut(b, h, (ContextFields \cap {"ref"}) \cup (Fields \ ContextFields))
        BY <1>6 DEF SameBut, ContextFields
    <2> QED  BY <1>2, <1>6, <2>1, RefContexts
<1>15. ContextsOK(k)
    BY <1>12, <1>14, ContextsOKAs
<1>16. k.ref = b.ref /\ k.state = b.state
    BY <1>12, Sides
<1>17. k.ref[d] # 0 /\ k.ref = [h.ref EXCEPT ![c] = @ + 1]
    BY <1>1, <1>2, <1>6, <1>16
<1>18. /\ f \in Heap /\ SocketsAs(f, k) /\ ContextsOK(f)
       /\ f.ref = [k.ref EXCEPT ![d] = @ - 1]
       /\ f.state = [k.state EXCEPT ![d] = IF k.ref[d] = 1 THEN "closed" ELSE @]
    <2>1. k.ref[d] # 0
        BY <1>17
    <2> QED  BY SMTT(60), <1>5, <1>13, <1>15, <2>1, UnrefContexts
<1>19. Removed(f, b, s)
    BY <1>12, <1>18, RemovedAs
<1>20. s \notin {}
    OBVIOUS
<1>21. Lists(f, {} \cup {s}, r)
    BY <1>7, <1>9, <1>10, <1>19, <1>20, RemovedLists
<1>22. /\ f.type = b.type /\ f.ctx = b.ctx
       /\ \A t \in Sockets \ {s} : Open(f, t) <=> Open(b, t)
    BY <1>7, <1>9, <1>10, <1>19, <1>20, RemovedOthers
<1>23. \A t \in Sockets : Open(b, t) <=> Open(h, t)
    BY <1>8 DEF Open, IsClosed
<1>24. k.low = b.low
    <2>1. b.prev[s] \in SocketPtr
        BY <1>7, <1>10 DEF Sound, Open, IsClosed
    <2> QED  BY <1>4, <1>6, <2>1, CutRegularLow
<1>25. f.low = k.low
    BY <1>18, Sides
<1>26. f.poll = b.poll /\ f.liter = b.liter /\ f.due = b.due
    BY <1>19 DEF Removed, SameBut, Fields, ContextFields
<1>27. \A e \in Contexts :
          f.ref[e] = h.ref[e] + (IF e = c THEN 1 ELSE 0) - (IF e = d THEN 1 ELSE 0)
    <2>1. k.ref \in [Contexts -> Int]
        BY <1>2, <1>17
    <2> QED  BY <1>2, <1>17, <1>18, <2>1
<1>28. f.ref[c] >= 1
    BY <1>1, <1>2, <1>27
<1>29. \A e \in Contexts : h.state[e] # "none" => f.state[e] # "none"
    <2>1. h.state \in [Contexts -> {"none", "live", "closed"}]
        BY <1>2 DEF Heap
    <2> QED  BY <1>8, <1>16, <1>18, <2>1
<1>32. Fades(h, f)
    <2>1. h.state \in [Contexts -> {"none", "live", "closed"}]
        BY <1>2 DEF Heap
    <2>2. h.ref[d] # 0
        BY <1>1, <1>2
    <2>3. h.state[d] = "live"
        BY <2>2 DEF ContextsOK
    <2>4. \A e \in Contexts : f.state[e] = h.state[e] \/ (e = d /\ f.state[e] = "closed")
        BY <1>8, <1>16, <1>18, <2>1
    <2> QED  BY <2>3, <2>4 DEF Fades
<1>30. DepartInto(f, h, c, s)
    BY <1>1, <1>8, <1>18, <1>22, <1>23, <1>24, <1>25, <1>26, <1>27, <1>28, <1>29, <1>32 DEF DepartInto
<1>31. {} \cup {s} = {s}
    OBVIOUS
<1>33. DepartSweep(f, h, r, s)
    <2>1. PICK w : w = MarkClosed(PollStop(f, s), s)
        OBVIOUS
    <2>2. f.ctx[s] \in Contexts /\ f \in Heap
        BY <1>1, <1>8, <1>18, <1>22
    <2>3. /\ w \in Heap /\ SameBut(w, f, {"prev", "ready"}) /\ IsClosed(w, s)
          /\ \A t \in Sockets \ {s} : w.prev[t] = f.prev[t]
        BY <2>1, <2>2, MarkedFields
    <2>4. SocketsAs(b, h)
        BY <1>6 DEF SocketsAs, SameBut, Fields, ContextFields
    <2>5. Removed(f, h, s)
        BY <1>19, <2>4, RemovedFrom
    <2>6. SameBut(w, f, ContextFields \cup {"prev", "ready"})
        BY <2>3 DEF SameBut
    <2>7. Withdrawn(w, h, s)
        BY <2>3, <2>5, <2>6 DEF Withdrawn
    <2>8. {} \subseteq Dead(h) /\ s \notin {}
        OBVIOUS
    <2>9. /\ \A e \in Contexts : Regular(w, e) = Regular(h, e) \ {s}
          /\ SweepKept(h, w, r, r)
        BY <2>7, <2>8, WithdrawnSweep
    <2>10. WithdrawnInto(w, h, {}, r, s)
        BY <2>7, <2>8, WithdrawnFields
    <2>11. Lists(w, {s}, r)
        BY <1>31, <2>10 DEF WithdrawnInto
    <2>12. w.iter = f.iter /\ w.due = f.due
        BY <2>3 DEF SameBut, Fields
    <2> QED  BY <2>9, <2>11, <2>12 DEF DepartSweep
<1> QED  BY <1>21, <1>30, <1>31, <1>33

\* The socket that left its list as s joins the list of c as n.
ArriveInto(g, f, c, s, n) ==
    /\ g \in Heap /\ ContextsAs(g, f) /\ g.liter = f.liter /\ g.iter = f.iter
    /\ g.type[n] = f.type[s] /\ g.ctx[n] = c /\ g.low[n] = f.low[s] /\ g.poll[n] = f.poll[s]
    /\ Open(g, n) /\ g.due[n] = {}
    /\ n # s => g.type[s] = "free"
    /\ \A t \in Sockets \ {s, n} :
          /\ g.type[t] = f.type[t] /\ g.ctx[t] = f.ctx[t]
          /\ g.low[t] = f.low[t] /\ g.poll[t] = f.poll[t] /\ g.due[t] = f.due[t]
          /\ Open(g, t) <=> Open(f, t)

\* ... moves from s to n ...
Landed(f, s, n) == [Move(f, s, n) EXCEPT !.due[s] = {}, !.due[n] = {}]

\* ... where it is on no list ...
LEMMA MovedLists ==
    ASSUME NEW f, NEW s \in Sockets, NEW n \in Sockets, NEW r, Lists(f, {s}, r),
           n = s \/ f.type[n] = "free", NEW m, MovedInto(m, f, s, n)
    PROVE  Lists(m, {n}, r)
<1>1. m \in Heap /\ SameBut(m, f, SocketFields \cup {"ready"})
    BY DEF MovedInto
<1>2. m.head = f.head /\ m.lhead = f.lhead /\ m.lowHead = f.lowHead /\ m.closed = f.closed /\ m.iter = f.iter
    BY <1>1 DEF SameBut, Fields, SocketFields
<1>3. \A t \in Sockets \ {s, n} :
          /\ m.type[t] = f.type[t] /\ m.ctx[t] = f.ctx[t] /\ m.prev[t] = f.prev[t]
          /\ m.next[t] = f.next[t] /\ m.low[t] = f.low[t]
    BY DEF MovedInto
<1>4. CASE n = s
    <2>1. OffSame(m, f, s)
        BY <1>2, <1>3, <1>4 DEF OffSame
    <2>2. s \in {s}
        OBVIOUS
    <2> QED  BY <1>4, <2>1, <2>2, ListsOff
<1>5. CASE n # s
    <2>1. f.type[n] = "free"
        BY <1>5
    <2>2. Lists(f, {s} \cup {n}, r)
        BY <2>1, FreeUnlisted
    <2> DEFINE u(v, w) == [t \in Sockets |-> IF t = s THEN w[t] ELSE v[t]]
    <2>3. PICK x : x = [type |-> u(m.type, f.type), ctx |-> u(m.ctx, f.ctx), prev |-> u(m.prev, f.prev),
                        next |-> u(m.next, f.next), low |-> u(m.low, f.low), head |-> f.head,
                        lhead |-> f.lhead, lowHead |-> f.lowHead, closed |-> f.closed, iter |-> f.iter]
        OBVIOUS
    <2>4. OffSame(x, f, n)
        BY <1>3, <2>3 DEF OffSame
    <2>5. OffSame(m, x, s)
        BY <1>2, <2>3 DEF OffSame
    <2> HIDE DEF u
    <2>6. n \in {s} \cup {n} /\ s \in {s} \cup {n}
        OBVIOUS
    <2>7. Lists(x, {s} \cup {n}, r)
        BY <2>2, <2>4, <2>6, ListsOff
    <2>8. Lists(m, {s} \cup {n}, r)
        BY <2>5, <2>6, <2>7, ListsOff
    <2>9. {s} \cup {n} = {n} \cup {s}
        OBVIOUS
    <2>10. m.type[s] = "free"
        BY <1>5 DEF MovedInto
    <2> QED  BY <2>8, <2>9, <2>10, FreeUnlisted
<1> QED  BY <1>4, <1>5

\* ... and joins the list of the new context.
LEMMA ArriveLists ==
    ASSUME NEW f \in Heap, NEW s \in Sockets, NEW n \in Sockets, NEW r, Lists(f, {s}, r),
           n = s \/ f.type[n] = "free", f.type[s] = "socket", f.low[s] # 1,
           \A t \in Sockets : f.type[t] # "free" => f.ctx[t] \in Contexts,
           NEW c \in Contexts, f.ref[c] >= 1, NEW m, m = Landed(f, s, n),
           NEW g, g = Unref(LinkSocket(m, c, n), c)
    PROVE  /\ ArriveInto(g, f, c, s, n)
           /\ \E q, z : Lists(g, {}, q) /\ Reranked(q, r, n, z)
<1>1. MovedInto(m, f, s, n)
    <2>1. PICK v : v = Move(f, s, n)
        OBVIOUS
    <2> QED  BY <2>1, MovedFields DEF Landed
<1>2. Lists(m, {n}, r)
    BY <1>1, MovedLists
<1>3. /\ m \in Heap /\ SameBut(m, f, SocketFields \cup {"ready"})
      /\ m.type[n] = "socket" /\ m.low[n] = f.low[s] /\ m.poll[n] = f.poll[s]
      /\ n # s => m.type[s] = "free"
      /\ m.due[n] = {} /\ \A t \in Sockets \ {s, n} : m.due[t] = f.due[t]
    BY <1>1 DEF MovedInto
<1>4. m.ref = f.ref /\ m.liter = f.liter /\ m.iter = f.iter /\ ContextsAs(m, f)
    BY <1>3 DEF SameBut, Fields, SocketFields, ContextsAs, ContextFields
<1>5. PICK l : l = LinkSocket(m, c, n)
    OBVIOUS
<1>6. /\ Linked(l, m, c, n) /\ l.next[n] = m.head[c]
      /\ l.head = [m.head EXCEPT ![c] = n] /\ l.lhead = m.lhead
    BY <1>3, <1>5, LinkSocketFields
<1>7. n \in {n} /\ m.type[n] # "free" /\ m.type[n] # "listen" /\ m.low[n] # 1
      /\ m.head \in [Contexts -> SocketPtr] /\ m.lhead \in [Contexts -> SocketPtr]
    BY <1>3 DEF Heap
<1>8. Added(l, m, n)
    BY <1>2, <1>6, <1>7, LinkedAdded
<1>9. r \in [Sockets -> Int]
    BY DEF Lists
<1>10. PICK q, z : Reranked(q, r, n, z)
    BY <1>9, LowerRank
<1>11. \A t \in Sockets : Open(m, t) => m.ctx[t] \in Contexts \/ t = n
    BY <1>1, <1>3 DEF MovedInto, Open
<1>12. n \in {n}
    OBVIOUS
<1>13. Lists(l, {n} \ {n}, q)
    BY <1>2, <1>8, <1>10, <1>11, <1>12, AddedLists
<1>14. \A t \in Sockets \ {n} : Open(l, t) <=> Open(m, t)
    BY <1>2, <1>8, <1>11, <1>12, AddedOthers
<1>15. {n} \ {n} = {}
    OBVIOUS
<1>16. l \in Heap /\ l.ref = [m.ref EXCEPT ![c] = @ + 1]
       /\ SameBut(l, m, {"ctx", "next", "prev", "head", "lhead", "ref"}) /\ l.ctx[n] = c
       /\ \A t \in Sockets \ {n} : l.ctx[t] = m.ctx[t]
    BY <1>6 DEF Linked
<1>17. f.ref \in [Contexts -> Int]
    BY DEF Heap
<1>18. l.ref[c] # 1
    BY <1>4, <1>16, <1>17
<1>19. g \in Heap /\ SameBut(g, l, {"ref"}) /\ g.ref = [l.ref EXCEPT ![c] = @ - 1]
    <2>1. l \in Heap
        BY <1>16
    <2> QED  BY <1>5, <1>18, <2>1, UnrefFields
<1>20. SocketsAs(g, l)
    BY <1>19 DEF SocketsAs, SameBut, Fields, ContextFields
<1>21. Lists(g, {}, q)
    BY <1>13, <1>15, <1>20, ListsAs
<1>22. g.ref = f.ref
    BY <1>4, <1>16, <1>17, <1>19
<1>23. ContextsAs(g, f)
    <2>1. l.state = m.state /\ l.cnext = m.cnext /\ l.cprev = m.cprev /\ l.chead = m.chead /\ l.closedCtx = m.closedCtx
        BY <1>16 DEF SameBut, Fields
    <2>2. g.state = l.state /\ g.cnext = l.cnext /\ g.cprev = l.cprev /\ g.chead = l.chead /\ g.closedCtx = l.closedCtx
        BY <1>19 DEF SameBut, Fields
    <2>3. m.state = f.state /\ m.cnext = f.cnext /\ m.cprev = f.cprev /\ m.chead = f.chead /\ m.closedCtx = f.closedCtx
        BY <1>4, Sides
    <2> QED  BY <1>22, <2>1, <2>2, <2>3, Sides
<1>24. /\ g.type = l.type /\ g.ctx = l.ctx /\ g.low = l.low /\ g.poll = l.poll /\ g.prev = l.prev
       /\ g.liter = l.liter /\ g.iter = l.iter /\ g.due = l.due
    BY <1>19 DEF SameBut, Fields
<1>25. /\ l.type = m.type /\ l.low = m.low /\ l.poll = m.poll /\ l.liter = m.liter
       /\ l.iter = m.iter /\ l.due = m.due
    BY <1>16 DEF SameBut, Fields
<1>26. \A t \in Sockets \ {s, n} :
          /\ m.type[t] = f.type[t] /\ m.ctx[t] = f.ctx[t] /\ m.prev[t] = f.prev[t]
          /\ m.low[t] = f.low[t] /\ m.poll[t] = f.poll[t]
    BY <1>1 DEF MovedInto
<1>27. \A t \in Sockets : Open(g, t) <=> Open(l, t)
    BY <1>24 DEF Open, IsClosed
<1>28. \A t \in Sockets \ {s, n} : Open(m, t) <=> Open(f, t)
    BY <1>26 DEF Open, IsClosed
<1>29. \A t \in Sockets \ {s, n} :
          /\ g.type[t] = f.type[t] /\ g.ctx[t] = f.ctx[t]
          /\ g.low[t] = f.low[t] /\ g.poll[t] = f.poll[t] /\ g.due[t] = f.due[t]
          /\ Open(g, t) <=> Open(f, t)
    BY <1>3, <1>14, <1>16, <1>24, <1>25, <1>26, <1>27, <1>28
<1>30. Open(g, n)
    BY <1>8, <1>27 DEF Added
<1>31. ArriveInto(g, f, c, s, n)
    BY <1>3, <1>4, <1>16, <1>19, <1>23, <1>24, <1>25, <1>29, <1>30 DEF ArriveInto
<1> QED  BY <1>10, <1>21, <1>31

\* us_socket_context_adopt_socket of a socket that is not queued.
LEMMA AdoptHeap ==
    ASSUME NEW h, NEW own, NEW r, NEW m, m.plain, Heaped(h, {}, own, r, m),
           NEW s \in Sockets, Open(h, s), h.type[s] = "socket",
           NEW n \in Sockets, n = s \/ h.type[n] = "free", NEW c \in Contexts, c \in own,
           NEW g, g = Adopt(h, c, s, n)
    PROVE  /\ g.liter = h.liter /\ \E q : Heaped(g, {}, own, q, m) /\ SweepKept(h, g, r, q)
           /\ Open(g, n) /\ g.type[n] = "socket" /\ g.poll[n] = h.poll[s]
           /\ \A t \in Sockets \ {s, n} : g.poll[t] = h.poll[t]
           /\ \A t \in Sockets \ {s} : h.type[t] # "free" => g.type[t] = h.type[t]
           /\ \A e \in Contexts : h.state[e] # "none" => g.state[e] # "none"
           /\ Becomes(h, g, s, n, c)
<1>1. /\ Sound(h) /\ Lists(h, {}, r) /\ Homes(h) /\ Modes(h, m) /\ ContextsOK(h)
      /\ Covered(h, {}, own, m.plain) /\ h \in Heap
    BY DEF Heaped, Sound
<1>2. PICK d \in Contexts : d = h.ctx[s]
    BY <1>1 DEF Sound, Open
<1>3. Holding(h, {}, s) /\ h.ref \in [Contexts -> Int] /\ h.low[s] = 0
    BY <1>1 DEF Holding, Open, Heap, Modes
<1>4. h.ref[d] >= 1
    BY <1>1, <1>2, <1>3, HeldReferenced
<1>5. h.ref[c] >= 1
    BY <1>1, <1>3, HeldReferenced
<1>6. PICK f : f = UnlinkSocket(Ref(h, c), h.ctx[s], s)
    OBVIOUS
<1>7. PICK k : k = Landed(f, s, n)
    OBVIOUS
<1>8. g = Unref(LinkSocket(k, c, n), c)
    BY <1>3, <1>6, <1>7 DEF Adopt, Landed
<1>9. h.low[s] # 1 /\ h.ref[h.ctx[s]] >= 1
    BY <1>2, <1>3, <1>4
<1>10. DepartInto(f, h, c, s) /\ Lists(f, {s}, r) /\ DepartSweep(f, h, r, s)
    BY <1>1, <1>5, <1>6, <1>9, DepartLists
<1>11. /\ f \in Heap /\ ContextsOK(f) /\ f.liter = h.liter
       /\ f.type = h.type /\ f.ctx = h.ctx /\ f.low = h.low /\ f.poll = h.poll /\ f.due = h.due
       /\ \A t \in Sockets \ {s} : Open(f, t) <=> Open(h, t)
       /\ f.ref[c] >= 1
    BY <1>10 DEF DepartInto
<1>12. \A e \in Contexts :
          /\ f.ref[e] = h.ref[e] + (IF e = c THEN 1 ELSE 0) - (IF e = d THEN 1 ELSE 0)
          /\ h.state[e] # "none" => f.state[e] # "none"
    BY <1>2, <1>10 DEF DepartInto
<1>13. \A t \in Sockets : f.type[t] # "free" => f.ctx[t] \in Contexts
    BY <1>1, <1>11 DEF Sound
<1>14. (n = s \/ f.type[n] = "free") /\ f.type[s] = "socket" /\ f.low[s] # 1
    BY <1>9, <1>11
<1>15. ArriveInto(g, f, c, s, n) /\ \E q, z : Lists(g, {}, q) /\ Reranked(q, r, n, z)
    <2>1. n = s \/ f.type[n] = "free"
        BY <1>14
    <2>2. f.type[s] = "socket" /\ f.low[s] # 1 /\ f \in Heap /\ f.ref[c] >= 1
        BY <1>11, <1>14
    <2> QED  BY <1>7, <1>8, <1>10, <1>13, <2>1, <2>2, ArriveLists
<1>16. PICK q, z : Lists(g, {}, q) /\ Reranked(q, r, n, z)
    BY <1>15
<1>17. /\ g \in Heap /\ ContextsAs(g, f) /\ g.liter = h.liter /\ g.iter = f.iter /\ g.due[n] = {}
       /\ g.type[n] = "socket" /\ g.ctx[n] = c /\ g.low[n] = 0 /\ Open(g, n)
       /\ g.poll[n] = h.poll[s]
       /\ n # s => g.type[s] = "free"
       /\ \A t \in Sockets \ {s, n} :
             /\ g.type[t] = h.type[t] /\ g.ctx[t] = h.ctx[t]
             /\ g.low[t] = h.low[t] /\ g.poll[t] = h.poll[t] /\ g.due[t] = h.due[t]
             /\ Open(g, t) <=> Open(h, t)
    BY <1>3, <1>11, <1>15 DEF ArriveInto
<1>18. g.state = f.state /\ g.ref = f.ref
    BY <1>17, Sides
<1>19. ContextsOK(g)
    BY <1>11, <1>17, ContextsOKAs
<1>20. Sound(g)
    BY <1>1, AdoptSound
<1>21. g.state[c] = "live"
    BY <1>11, <1>18, <1>19 DEF ContextsOK
<1>22. Homes(g)
    <2> SUFFICES ASSUME NEW t \in Sockets, g.type[t] # "free"
                 PROVE  g.state[g.ctx[t]] # "none"
        BY DEF Homes
    <2>1. CASE t = n
        BY <1>17, <1>21, <2>1
    <2>2. CASE t # n
        <3>1. t \in Sockets \ {s, n}
            BY <1>17, <2>2
        <3>2. h.type[t] # "free" /\ g.ctx[t] = h.ctx[t]
            BY <1>17, <3>1
        <3>3. h.ctx[t] \in Contexts /\ h.state[h.ctx[t]] # "none"
            BY <1>1, <3>2 DEF Sound, Homes
        <3> QED  BY <1>12, <1>18, <3>2, <3>3
    <2> QED  BY <2>1, <2>2
<1>23. Modes(g, m)
    <2> SUFFICES ASSUME NEW t \in Sockets, Open(g, t)
                 PROVE  /\ g.low[t] = 0
                        /\ g.type[t] = "listen" => g.poll[t] = {"R"}
        BY DEF Modes
    <2>1. CASE t = n
        BY <1>17, <2>1
    <2>2. CASE t # n
        <3>1. t \in Sockets \ {s, n}
            BY <1>17, <2>2 DEF Open
        <3>2. Open(h, t)
            BY <1>17, <3>1
        <3> QED  BY <1>1, <1>17, <3>1, <3>2 DEF Modes
    <2> QED  BY <2>1, <2>2
<1>24. Covered(g, {}, own, m.plain)
    <2>1. PICK y : /\ y.ref = [h.ref EXCEPT ![d] = @ - 1] /\ y.type = [h.type EXCEPT ![s] = "free"]
                   /\ y.ctx = h.ctx /\ y.prev = h.prev
        <3>1. PICK zz : zz = [ref |-> [h.ref EXCEPT ![d] = @ - 1], type |-> [h.type EXCEPT ![s] = "free"],
                            ctx |-> h.ctx, prev |-> h.prev]
            OBVIOUS
        <3> QED  BY <3>1
    <2>2. h.type \in [Sockets -> PollTypes]
        BY <1>1 DEF Heap
    <2>3. ~Holding(y, {}, s) /\ \A t \in Sockets \ {s} : HoldsAs(y, {}, h, {}, t)
        BY <2>1, <2>2 DEF Holding, HoldsAs, IsClosed
    <2>4. Covered(y, {}, own, m.plain)
        BY <1>1, <1>2, <1>3, <2>1, <2>3, CoveredDrop
    <2>5. y.ref \in [Contexts -> Int]
        BY <1>3, <2>1
    <2>6. g.ref = [y.ref EXCEPT ![c] = @ + 1]
        <3>1. g.ref \in [Contexts -> Int]
            BY <1>17 DEF Heap
        <3>2. \A e \in Contexts : g.ref[e] = [y.ref EXCEPT ![c] = @ + 1][e]
            BY <1>3, <1>12, <1>18, <2>1
        <3> QED  BY <2>5, <3>1, <3>2
    <2>7. ~Holding(y, {}, n)
        BY <2>1, <2>2 DEF Holding
    <2>8. Holding(g, {}, n) /\ g.ctx[n] = c
        BY <1>17 DEF Holding, Open
    <2>9. \A t \in Sockets \ {n} : HoldsAs(g, {}, y, {}, t)
        <3> SUFFICES ASSUME NEW t \in Sockets \ {n}
                     PROVE  HoldsAs(g, {}, y, {}, t)
            OBVIOUS
        <3>1. CASE t = s
            BY <1>17, <2>3, <3>1 DEF Holding, HoldsAs
        <3>2. CASE t # s
            <4>1. Holding(y, {}, t) <=> Holding(h, {}, t)
                BY <2>3, <3>2 DEF HoldsAs
            <4>2. g.type[t] = h.type[t] /\ g.ctx[t] = h.ctx[t] /\ (Open(g, t) <=> Open(h, t))
                BY <1>17, <3>2
            <4> QED  BY <2>1, <4>1, <4>2 DEF Holding, HoldsAs, Open
        <3> QED  BY <3>1, <3>2
    <2> QED  BY <2>4, <2>5, <2>6, <2>7, <2>8, <2>9, CoveredGain
<1>25. Stale(g, {})
    BY DEF Stale
<1>26. Heaped(g, {}, own, q, m)
    BY <1>16, <1>19, <1>20, <1>22, <1>23, <1>24, <1>25 DEF Heaped
<1>27. \A e \in Contexts : h.state[e] # "none" => g.state[e] # "none"
    BY <1>12, <1>18
<1>28. \A t \in Sockets \ {s} : h.type[t] # "free" => g.type[t] = h.type[t]
    BY <1>17
<1>29. Spares(h, g, {s, n})
    BY <1>17 DEF Spares, Open
<1>30. Fades(h, g)
    BY <1>10, <1>18 DEF DepartInto, Fades
<1>31. Becomes(h, g, s, n, c)
    BY <1>17, <1>29, <1>30 DEF Becomes
<1>32. SweepKept(h, g, r, q)
    <2>1. PICK w : /\ SweepKept(h, w, r, r) /\ Lists(w, {s}, r)
                   /\ w.iter = f.iter /\ w.due = f.due
                   /\ \A e \in Contexts : Regular(w, e) = Regular(h, e) \ {s}
        BY <1>10 DEF DepartSweep
    <2>2. r \in [Sockets -> Int]
        BY <1>1 DEF Lists
    <2>3. (\A t \in Sockets : q[n] <= q[t]) /\ \A t \in Sockets \ {n} : q[t] = r[t]
        BY <1>16, <2>2 DEF Reranked
    <2>4. \A e \in Contexts : n \notin Regular(w, e) \ {s}
        BY <2>1 DEF Regular, Open
    <2>5. \A e \in Contexts : \A t \in Regular(w, e) \ {s} : t \in Sockets \ {s, n}
        BY <2>4 DEF Regular
    <2>6. \A e \in Contexts : \A t \in Regular(w, e) \ {s} : g.due[t] = w.due[t] /\ q[t] = r[t]
        BY <1>11, <1>17, <2>1, <2>3, <2>5
    <2>7. \A e \in Contexts : Regular(g, e) \subseteq (Regular(w, e) \ {s}) \cup {n}
        <3> SUFFICES ASSUME NEW e \in Contexts, NEW t \in Regular(g, e), t # n
                     PROVE  t \in Regular(w, e) \ {s}
            OBVIOUS
        <3>1. t \in Sockets \ {s, n}
            BY <1>17 DEF Regular, Open
        <3>2. t \in Regular(h, e)
            BY <1>17, <3>1 DEF Regular
        <3> QED  BY <2>1, <3>1, <3>2
    <2>8. g.iter = w.iter /\ g.due[n] = {}
        BY <1>17, <2>1
    <2>9. SweepKept(w, g, r, q)
        BY <2>1, <2>3, <2>4, <2>6, <2>7, <2>8, SweepJoined
    <2> QED  BY <2>1, <2>9, SweepKeptTransitive
<1> QED  BY <1>17, <1>26, <1>27, <1>28, <1>31, <1>32

\* The whole of a list is reached from its head.
LEMMA WholeWalk ==
    ASSUME NEW U, IsFiniteSet(U), Null \notin U, NEW S \in SUBSET U, NEW nx, NEW p,
           NEW r \in [U -> Int], Ordered(nx, S, p, r)
    PROVE  Walk(nx, U, p) = S
<1>1. CASE p = Null
    <2>1. S = {}
        BY <1>1 DEF Ordered
    <2> QED  BY <1>1, <2>1, NullWalk
<1>2. CASE p # Null
    <2>1. p \in S
        BY <1>2 DEF Ordered
    <2>2. Walk(nx, U, p) = {x \in S : r[p] <= r[x]}
        BY <2>1, OrderedWalk
    <2>3. \A x \in S : r[p] <= r[x]
        BY DEF Ordered
    <2> QED  BY <2>2, <2>3
<1> QED  BY <1>1, <1>2

\* The closed lists reach all that is closed.
LEMMA ClosedChains ==
    ASSUME NEW h, NEW r, Lists(h, {}, r), ContextsOK(h)
    PROVE  /\ Chain(h, h.closed) = Dead(h)
           /\ ContextChain(h, h.closedCtx) = ClosedContexts(h)
<1>1. IsFiniteSet(Sockets) /\ IsFiniteSet(Contexts) /\ Null \notin Sockets /\ Null \notin Contexts
    BY DistinctAddresses
<1>2. Dead(h) \ {} = Dead(h)
    OBVIOUS
<1>3. Ordered(h.next, Dead(h), h.closed, r) /\ r \in [Sockets -> Int]
    BY <1>2 DEF Lists
<1>4. Dead(h) \in SUBSET Sockets /\ ClosedContexts(h) \in SUBSET Contexts
    BY DEF Dead, ClosedContexts
<1>5. Walk(h.next, Sockets, h.closed) = Dead(h)
    BY <1>1, <1>3, <1>4, WholeWalk
<1>6. PICK q \in [Contexts -> Int] : Ordered(h.cnext, ClosedContexts(h), h.closedCtx, q)
    BY DEF ContextsOK
<1>7. Walk(h.cnext, Contexts, h.closedCtx) = ClosedContexts(h)
    BY <1>1, <1>4, <1>6, WholeWalk
<1> QED  BY <1>5, <1>7, ChainsAreWalks

\* What is left when the sockets of S and the contexts of D are freed.
ReleasedInto(g, h, S, D) ==
    /\ \A t \in Sockets :
          IF t \in S
          THEN /\ g.type[t] = "free" /\ g.ctx[t] = Null /\ g.prev[t] = Null
          ELSE /\ g.type[t] = h.type[t] /\ g.ctx[t] = h.ctx[t] /\ g.prev[t] = h.prev[t]
               /\ g.next[t] = h.next[t] /\ g.low[t] = h.low[t] /\ g.poll[t] = h.poll[t]
    /\ \A c \in Contexts :
          IF c \in D
          THEN /\ g.state[c] = "none" /\ g.ref[c] = 0 /\ g.head[c] = Null
               /\ g.lhead[c] = Null /\ g.iter[c] = Null
          ELSE /\ g.state[c] = h.state[c] /\ g.ref[c] = h.ref[c] /\ g.head[c] = h.head[c]
               /\ g.lhead[c] = h.lhead[c] /\ g.iter[c] = h.iter[c]
               /\ g.cnext[c] = h.cnext[c] /\ g.cprev[c] = h.cprev[c]
    /\ g.closed = Null /\ g.closedCtx = Null /\ g.chead = h.chead
    /\ g.lowHead = h.lowHead /\ g.liter = h.liter

\* The fields that FreeClosed writes.
LEMMA ReleasedFields ==
    ASSUME NEW h \in Heap, NEW S, S = Chain(h, h.closed), NEW D, D = ContextChain(h, h.closedCtx),
           NEW g, g = FreeClosed(h)
    PROVE  ReleasedInto(g, h, S, D)
<1>1. PICK f : f = FreeSockets(h, S)
    OBVIOUS
<1>2. PICK k : k = [f EXCEPT !.closed = Null]
    OBVIOUS
<1>3. g = [k EXCEPT !.state = Wipe(@, D, "none"), !.closedCtx = Null,
                    !.ref   = Wipe(@, D, 0),    !.head  = Wipe(@, D, Null),
                    !.lhead = Wipe(@, D, Null), !.iter  = Wipe(@, D, Null),
                    !.cnext = Wipe(@, D, Null), !.cprev = Wipe(@, D, Null)]
    BY <1>1, <1>2 DEF FreeClosed
<1>4. FreedInto(f, h, S)
    BY <1>1, FreedFields
<1>5. DOMAIN f = Fields
    BY <1>4, HeapFields DEF FreedInto
<1>6. DOMAIN k = Fields /\ k.closed = Null /\ SameBut(k, f, {"closed"})
    BY <1>2, <1>5 DEF SameBut, Fields
<1>7. /\ g.state = Wipe(k.state, D, "none") /\ g.ref = Wipe(k.ref, D, 0)
      /\ g.head = Wipe(k.head, D, Null) /\ g.lhead = Wipe(k.lhead, D, Null)
      /\ g.iter = Wipe(k.iter, D, Null) /\ g.cnext = Wipe(k.cnext, D, Null)
      /\ g.cprev = Wipe(k.cprev, D, Null) /\ g.closedCtx = Null
    BY <1>3, <1>6 DEF Fields
<1>8. SameBut(g, k, {"state", "ref", "head", "lhead", "iter", "cnext", "cprev", "closedCtx"})
    BY <1>3, <1>6 DEF SameBut, Fields
<1>9. /\ g.type = f.type /\ g.ctx = f.ctx /\ g.prev = f.prev /\ g.next = f.next
      /\ g.low = f.low /\ g.poll = f.poll /\ g.closed = Null /\ g.chead = f.chead
      /\ g.lowHead = f.lowHead /\ g.liter = f.liter
    BY <1>6, <1>8 DEF SameBut, Fields
<1>10. /\ k.state = f.state /\ k.ref = f.ref /\ k.head = f.head /\ k.lhead = f.lhead
       /\ k.iter = f.iter /\ k.cnext = f.cnext /\ k.cprev = f.cprev
    BY <1>6 DEF SameBut, Fields
<1>11. SameBut(f, h, SocketFields)
    BY <1>4 DEF FreedInto
<1>12. /\ f.state = h.state /\ f.ref = h.ref /\ f.head = h.head /\ f.lhead = h.lhead
       /\ f.iter = h.iter /\ f.cnext = h.cnext /\ f.cprev = h.cprev /\ f.chead = h.chead
       /\ f.lowHead = h.lowHead /\ f.liter = h.liter
    BY <1>11 DEF SameBut, Fields, SocketFields
<1>13. \A t \in Sockets :
          IF t \in S
          THEN /\ f.type[t] = "free" /\ f.ctx[t] = Null /\ f.prev[t] = Null
          ELSE /\ f.type[t] = h.type[t] /\ f.ctx[t] = h.ctx[t] /\ f.prev[t] = h.prev[t]
               /\ f.next[t] = h.next[t] /\ f.low[t] = h.low[t] /\ f.poll[t] = h.poll[t]
    BY <1>4 DEF FreedInto
<1>14. /\ DOMAIN h.state = Contexts /\ DOMAIN h.ref = Contexts /\ DOMAIN h.head = Contexts
       /\ DOMAIN h.lhead = Contexts /\ DOMAIN h.iter = Contexts /\ DOMAIN h.cnext = Contexts
       /\ DOMAIN h.cprev = Contexts
    BY DEF Heap
<1>15. \A c \in Contexts :
          IF c \in D
          THEN /\ g.state[c] = "none" /\ g.ref[c] = 0 /\ g.head[c] = Null
               /\ g.lhead[c] = Null /\ g.iter[c] = Null
          ELSE /\ g.state[c] = h.state[c] /\ g.ref[c] = h.ref[c] /\ g.head[c] = h.head[c]
               /\ g.lhead[c] = h.lhead[c] /\ g.iter[c] = h.iter[c]
               /\ g.cnext[c] = h.cnext[c] /\ g.cprev[c] = h.cprev[c]
    BY <1>7, <1>10, <1>12, <1>14 DEF Wipe
<1> QED  BY <1>7, <1>9, <1>12, <1>13, <1>15 DEF ReleasedInto

\* A closed context has no socket left.
LEMMA ClosedContextEmpty ==
    ASSUME NEW h, NEW own, NEW plain, Covered(h, {}, own, plain), ContextsOK(h),
           h.ref \in [Contexts -> Int], NEW c \in Contexts, h.state[c] # "live"
    PROVE  h.ref[c] = 0 /\ c \notin own /\ \A s \in Sockets : Open(h, s) => h.ctx[s] # c
<1>1. h.ref[c] = 0
    BY DEF ContextsOK
<1>2. c \notin own
    <2>1. ASSUME c \in own PROVE FALSE
        <3>1. h.ref[c] >= 1
            BY <2>1, HeldReferenced
        <3> QED  BY <1>1, <3>1
    <2> QED  BY <2>1
<1>3. ASSUME NEW s \in Sockets, Open(h, s), h.ctx[s] = c PROVE FALSE
    <2>1. Holding(h, {}, s)
        BY <1>3 DEF Holding, Open
    <2>2. h.ref[c] >= 1
        BY <1>3, <2>1, HeldReferenced
    <2> QED  BY <1>1, <2>2
<1> QED  BY <1>1, <1>2, <1>3

\* What is left is a heap, and no open socket was touched.
LEMMA FreeClosedHeap ==
    ASSUME NEW h, NEW own, NEW r, NEW m, Heaped(h, {}, own, r, m),
           \A s \in Sockets : h.ready[s] = {}, NEW g, g = FreeClosed(h)
    PROVE  /\ g.liter = h.liter /\ Heaped(g, {}, own, r, m)
           /\ Remains(h, g) /\ Frees(h, g)
<1>1. /\ Sound(h) /\ Lists(h, {}, r) /\ Homes(h) /\ Modes(h, m) /\ ContextsOK(h)
      /\ Covered(h, {}, own, m.plain) /\ h \in Heap
    BY DEF Heaped, Sound
<1>2. PICK S : S = Dead(h)
    OBVIOUS
<1>3. PICK D : D = ClosedContexts(h)
    OBVIOUS
<1>4. S = Chain(h, h.closed) /\ D = ContextChain(h, h.closedCtx)
    BY <1>1, <1>2, <1>3, ClosedChains
<1>5. ReleasedInto(g, h, S, D)
    BY <1>1, <1>4, ReleasedFields
<1>6. h.ref \in [Contexts -> Int] /\ h.state \in [Contexts -> {"none", "live", "closed"}]
    BY <1>1 DEF Heap
<1>7. Sound(g)
    BY <1>1, FreeClosedSound
<1>8. \A t \in Sockets : /\ t \in S => g.type[t] = "free"
                         /\ t \notin S => /\ g.type[t] = h.type[t] /\ g.ctx[t] = h.ctx[t]
                                          /\ g.prev[t] = h.prev[t] /\ g.next[t] = h.next[t]
                                          /\ g.low[t] = h.low[t] /\ g.poll[t] = h.poll[t]
    BY <1>5 DEF ReleasedInto
<1>9. \A t \in Sockets : Open(h, t) => t \notin S
    BY <1>2 DEF Dead, Open
<1>10. \A t \in Sockets : (Open(g, t) <=> Open(h, t)) /\ (g.type[t] # "free" <=> Open(g, t))
    BY <1>2, <1>8, <1>9 DEF Open, Dead, IsClosed
<1>11. \A c \in Contexts :
          c \in D => /\ h.ref[c] = 0 /\ c \notin own
                     /\ \A s \in Sockets : Open(h, s) => h.ctx[s] # c
    <2> SUFFICES ASSUME NEW c \in Contexts, c \in D
                 PROVE  /\ h.ref[c] = 0 /\ c \notin own
                        /\ \A s \in Sockets : Open(h, s) => h.ctx[s] # c
        OBVIOUS
    <2>1. h.state[c] # "live"
        BY <1>3 DEF ClosedContexts
    <2> QED  BY <1>1, <1>6, <2>1, ClosedContextEmpty
<1>12. \A c \in Contexts : Regular(g, c) = Regular(h, c) /\ Listening(g, c) = Listening(h, c)
    BY <1>8, <1>9, <1>10 DEF Regular, Listening
<1>13. Queued(g) = Queued(h) /\ Dead(g) = {}
    BY <1>8, <1>9, <1>10 DEF Queued, Dead, Open
<1>14. \A c \in Contexts : c \in D => Regular(h, c) = {} /\ Listening(h, c) = {}
    BY <1>11 DEF Regular, Listening
<1>15. \A c \in Contexts :
          /\ c \in D => /\ g.state[c] = "none" /\ g.ref[c] = 0 /\ g.head[c] = Null
                        /\ g.lhead[c] = Null /\ g.iter[c] = Null
          /\ c \notin D => /\ g.state[c] = h.state[c] /\ g.ref[c] = h.ref[c] /\ g.head[c] = h.head[c]
                           /\ g.lhead[c] = h.lhead[c] /\ g.iter[c] = h.iter[c]
                           /\ g.cnext[c] = h.cnext[c] /\ g.cprev[c] = h.cprev[c]
    BY <1>5 DEF ReleasedInto
<1>16. g.closed = Null /\ g.closedCtx = Null /\ g.chead = h.chead /\ g.lowHead = h.lowHead /\ g.liter = h.liter
    BY <1>5 DEF ReleasedInto
<1>17. r \in [Sockets -> Int]
    BY <1>1 DEF Lists
<1>18. \A X, p, c : Threaded(h.next, h.prev, X, p, r) /\ X \subseteq Sockets /\ (\A x \in X : Open(h, x))
                      => Threaded(g.next, g.prev, X, p, r)
    <2> SUFFICES ASSUME NEW X, NEW p, Threaded(h.next, h.prev, X, p, r), X \subseteq Sockets,
                        \A x \in X : Open(h, x)
                 PROVE  Threaded(g.next, g.prev, X, p, r)
        OBVIOUS
    <2>1. \A x \in X : g.next[x] = h.next[x] /\ g.prev[x] = h.prev[x] /\ r[x] = r[x]
        BY <1>8, <1>9
    <2> QED  BY <2>1, ThreadedFrame
<1>19. Threaded(g.next, g.prev, {}, Null, r) /\ Ordered(g.next, {}, Null, r)
    BY DEF Threaded, Ordered, Backed
<1>20. Lists(g, {}, r)
    <2>1. \A X : X \ {} = X
        OBVIOUS
    <2>2. \A c \in Contexts : /\ Threaded(h.next, h.prev, Regular(h, c), h.head[c], r)
                              /\ Threaded(h.next, h.prev, Listening(h, c), h.lhead[c], r)
                              /\ h.iter[c] # Null => h.iter[c] \in Regular(h, c)
        BY <1>1, <2>1 DEF Lists
    <2>3. Threaded(h.next, h.prev, Queued(h), h.lowHead, r)
        BY <1>1, <2>1 DEF Lists
    <2>4. Threaded(g.next, g.prev, Queued(g), g.lowHead, r)
        <3>1. Queued(h) \subseteq Sockets /\ \A x \in Queued(h) : Open(h, x)
            BY DEF Queued
        <3> QED  BY <1>13, <1>16, <1>18, <2>3, <3>1
    <2>5. ASSUME NEW c \in Contexts
          PROVE  /\ Threaded(g.next, g.prev, Regular(g, c), g.head[c], r)
                 /\ Threaded(g.next, g.prev, Listening(g, c), g.lhead[c], r)
                 /\ g.iter[c] # Null => g.iter[c] \in Regular(g, c)
        <3>1. CASE c \in D
            BY <1>12, <1>14, <1>15, <1>19, <3>1
        <3>2. CASE c \notin D
            <4>1. /\ Regular(h, c) \subseteq Sockets /\ (\A x \in Regular(h, c) : Open(h, x))
                  /\ Listening(h, c) \subseteq Sockets /\ \A x \in Listening(h, c) : Open(h, x)
                BY DEF Regular, Listening
            <4>2. Threaded(g.next, g.prev, Regular(h, c), h.head[c], r)
                BY <1>18, <2>2, <4>1
            <4>3. Threaded(g.next, g.prev, Listening(h, c), h.lhead[c], r)
                BY <1>18, <2>2, <4>1
            <4> QED  BY <1>12, <1>15, <2>2, <3>2, <4>2, <4>3
        <3> QED  BY <3>1, <3>2
    <2>6. Ordered(g.next, Dead(g), g.closed, r)
        BY <1>13, <1>16, <1>19
    <2> QED  BY <1>17, <2>1, <2>4, <2>5, <2>6 DEF Lists
<1>21. g.ref = h.ref
    <2>1. g.ref \in [Contexts -> Int]
        BY <1>7 DEF Sound, Heap
    <2>2. \A c \in Contexts : g.ref[c] = h.ref[c]
        BY <1>11, <1>15
    <2> QED  BY <1>6, <2>1, <2>2
<1>22. \A t \in Sockets : HoldsAs(g, {}, h, {}, t)
    BY <1>8, <1>9, <1>10 DEF HoldsAs, Holding, Open
<1>23. Covered(g, {}, own, m.plain)
    BY <1>1, <1>21, <1>22, CoveredSame
<1>24. Homes(g)
    <2> SUFFICES ASSUME NEW t \in Sockets, g.type[t] # "free"
                 PROVE  g.state[g.ctx[t]] # "none"
        BY DEF Homes
    <2>1. Open(h, t) /\ g.ctx[t] = h.ctx[t] /\ h.type[t] # "free"
        BY <1>8, <1>9, <1>10 DEF Open
    <2>2. h.ctx[t] \in Contexts /\ h.state[h.ctx[t]] # "none"
        BY <1>1, <2>1 DEF Sound, Homes
    <2>3. h.ctx[t] \notin D
        BY <1>11, <2>1, <2>2
    <2> QED  BY <1>15, <2>1, <2>2, <2>3
<1>25. Modes(g, m)
    BY <1>1, <1>8, <1>9, <1>10 DEF Modes
<1>26. \A c \in Contexts : /\ g.state[c] = "live" <=> h.state[c] = "live"
                           /\ h.state[c] = "live" => c \notin D
                           /\ g.state[c] # "closed"
    BY <1>3, <1>6, <1>15 DEF ClosedContexts
<1>27. ContextsOK(g)
    <2>1. LiveList(h)
        BY <1>1 DEF ContextsOK
    <2>3. \A c \in Contexts : h.state[c] = "live" => g.cnext[c] = h.cnext[c] /\ g.cprev[c] = h.cprev[c]
        BY <1>15, <1>26
    <2>4. LiveList(g)
        BY <1>16, <1>26, <2>1, <2>3, LiveListAs
    <2>5. ClosedContexts(g) = {}
        BY <1>26 DEF ClosedContexts
    <2>6. PICK z \in [Contexts -> Int] : TRUE
        BY <1>6, <1>21
    <2>7. Ordered(g.cnext, ClosedContexts(g), g.closedCtx, z)
        BY <1>16, <2>5 DEF Ordered
    <2>8. \A c \in Contexts : g.ref[c] >= 0 /\ (g.state[c] = "live" <=> g.ref[c] # 0)
        BY <1>1, <1>21, <1>26 DEF ContextsOK
    <2> QED  BY <2>4, <2>7, <2>8 DEF ContextsOK
<1>28. Stale(g, {})
    BY DEF Stale
<1>29. Heaped(g, {}, own, r, m)
    BY <1>7, <1>20, <1>23, <1>24, <1>25, <1>27, <1>28 DEF Heaped
<1>30. /\ \A s \in Dead(h) : g.type[s] = "free"
       /\ Spares(h, g, Dead(h))
    BY <1>2, <1>8 DEF Dead, Spares, IsClosed
<1>31. \A c \in Contexts : g.state[c] = IF h.state[c] = "closed" THEN "none" ELSE h.state[c]
    BY <1>3, <1>15 DEF ClosedContexts
<1>32. Frees(h, g)
    BY <1>30, <1>31 DEF Frees
<1>33. Remains(h, g)
    BY <1>8 DEF Remains
<1> QED  BY <1>16, <1>29, <1>32, <1>33

\* The heap of a new loop.
LEMMA EmptyHeapSound == Sound(EmptyHeap)
<1>1. 0 \in 0..2
    OBVIOUS
<1>2. EmptyHeap \in Heap
    BY <1>1 DEF EmptyHeap, Heap, PollTypes, SocketPtr, ContextPtr
<1> QED  BY <1>2 DEF EmptyHeap, Sound, SocketPtr

\* The loop starts with an empty heap.
LEMMA EmptyHeapped ==
    ASSUME NEW m
    PROVE  \E r : Heaped(EmptyHeap, {}, {}, r, m)
<1> DEFINE g == EmptyHeap
<1>1. Sound(g)
    BY EmptyHeapSound
<1>2. /\ \A s \in Sockets : g.type[s] = "free" /\ g.ctx[s] = Null
      /\ \A c \in Contexts : /\ g.head[c] = Null /\ g.lhead[c] = Null /\ g.iter[c] = Null
                             /\ g.ref[c] = 0 /\ g.state[c] = "none"
      /\ g.chead = Null /\ g.closedCtx = Null /\ g.lowHead = Null /\ g.closed = Null
      /\ g.ref = [c \in Contexts |-> 0]
    BY DEF EmptyHeap
<1> HIDE DEF g
<1>3. PICK r \in [Sockets -> Int] : TRUE
    <2>1. 0 \in Int
        OBVIOUS
    <2>2. [s \in Sockets |-> 0] \in [Sockets -> Int]
        BY <2>1
    <2> QED  BY <2>2
<1>4. PICK z \in [Contexts -> Int] : TRUE
    <2>1. g.ref \in [Contexts -> Int]
        BY <1>1 DEF Sound, Heap
    <2> QED  BY <2>1
<1>5. \A s \in Sockets : ~Open(g, s)
    BY <1>2 DEF Open
<1>6. /\ \A c \in Contexts : Regular(g, c) = {} /\ Listening(g, c) = {}
      /\ Queued(g) = {} /\ Dead(g) = {} /\ ClosedContexts(g) = {}
    BY <1>2, <1>5 DEF Regular, Listening, Queued, Dead, ClosedContexts
<1>7. Threaded(g.next, g.prev, {}, Null, r) /\ Ordered(g.next, {}, Null, r) /\ Ordered(g.cnext, {}, Null, z)
    BY DEF Threaded, Ordered, Backed
<1>8. Lists(g, {}, r)
    <2>1. {} \ {} = {}
        OBVIOUS
    <2> QED  BY <1>2, <1>3, <1>6, <1>7, <2>1 DEF Lists
<1>9. ContextsOK(g)
    <2>1. LiveList(g)
        <3>1. LiveContexts(g) = {}
            BY <1>2 DEF LiveContexts
        <3>2. Threaded(g.cnext, g.cprev, {}, Null, z)
            BY DEF Threaded, Ordered, Backed
        <3> QED  BY <1>2, <1>4, <3>1, <3>2 DEF LiveList
    <2>2. \A c \in Contexts : g.ref[c] >= 0 /\ (g.state[c] = "live" <=> g.ref[c] # 0)
        BY <1>2
    <2> QED  BY <1>2, <1>6, <1>7, <2>1, <2>2 DEF ContextsOK
<1>10. Stale(g, {}) /\ Homes(g) /\ Modes(g, m)
    BY <1>2, <1>5 DEF Stale, Homes, Modes
<1>11. Covered(g, {}, {}, m.plain)
    <2>1. \A c \in Contexts : Holders(g, {}, {}, c) = {}
        BY <1>2 DEF Holders, Holding
    <2>2. Cardinality({}) = 0
        BY FS_EmptySet
    <2>3. \A c \in Contexts : g.ref[c] = 0 /\ Cardinality(Holders(g, {}, {}, c)) = 0
        BY <1>2, <2>1, <2>2
    <2> QED  BY <2>3 DEF Covered
<1>12. Heaped(g, {}, {}, r, m)
    BY <1>1, <1>8, <1>9, <1>10, <1>11 DEF Heaped
<1> QED  BY <1>12 DEF g

\* The sweep is put on a socket of a context, or on none.
LEMMA IterHeap ==
    ASSUME NEW h, NEW own, NEW r, NEW m, Heaped(h, {}, own, r, m),
           NEW c \in Contexts, NEW v, v = Null \/ v \in Regular(h, c),
           NEW g \in Heap, SameBut(g, h, {"iter", "liter", "due"}), g.iter = [h.iter EXCEPT ![c] = v]
    PROVE  /\ Heaped(g, {}, own, r, m)
           /\ \A e \in Contexts : Regular(g, e) = Regular(h, e)
<1>1. /\ Sound(h) /\ Lists(h, {}, r) /\ Homes(h) /\ Modes(h, m) /\ ContextsOK(h) /\ h \in Heap
      /\ Covered(h, {}, own, m.plain)
    BY DEF Heaped, Sound
<1>2. /\ g.type = h.type /\ g.poll = h.poll /\ g.ctx = h.ctx /\ g.prev = h.prev /\ g.next = h.next
      /\ g.low = h.low /\ g.head = h.head /\ g.lhead = h.lhead /\ g.closed = h.closed
      /\ g.lowHead = h.lowHead /\ g.ready = h.ready /\ g.ref = h.ref /\ g.state = h.state
    BY DEF SameBut, Fields
<1>3. /\ \A e \in Contexts : Regular(g, e) = Regular(h, e) /\ Listening(g, e) = Listening(h, e)
      /\ Queued(g) = Queued(h) /\ Dead(g) = Dead(h)
    BY <1>2, SameLists DEF Open, IsClosed
<1>4. \A e \in Contexts : g.iter[e] = IF e = c THEN v ELSE h.iter[e]
    <2>1. h.iter \in [Contexts -> SocketPtr]
        BY <1>1 DEF Heap
    <2> QED  BY <2>1
<1>5. Lists(g, {}, r)
    <2>1. \A e \in Contexts : g.iter[e] # Null => g.iter[e] \in Regular(h, e) \ {}
        BY <1>1, <1>4 DEF Lists
    <2> QED  BY <1>1, <1>2, <1>3, <2>1 DEF Lists
<1>6. Sound(g)
    BY <1>1, <1>2, SameSockets
<1>7. Stale(g, {})
    BY DEF Stale
<1>8. Homes(g) /\ Modes(g, m)
    BY <1>1, <1>2 DEF Homes, Modes, Open, IsClosed
<1>9. ContextsOK(g)
    <2>1. ContextsAs(g, h)
        BY DEF ContextsAs, SameBut, Fields, ContextFields
    <2> QED  BY <1>1, <2>1, ContextsOKAs
<1>10. Covered(g, {}, own, m.plain)
    <2>1. \A s \in Sockets : HoldsAs(g, {}, h, {}, s)
        BY <1>2 DEF HoldsAs, Holding, IsClosed
    <2> QED  BY <1>1, <1>2, <2>1, CoveredSame
<1> QED  BY <1>3, <1>5, <1>6, <1>7, <1>8, <1>9, <1>10 DEF Heaped

\* us_socket_close of a semi-socket, which has no callback.
LEMMA SemiCloseMoves ==
    ASSUME NEW h, NEW K, NEW own, NEW r, NEW m, Heaped(h, K, own, r, m),
           NEW s \in Sockets, Open(h, s), h.type[s] # "listen",
           NEW g, g = CloseEnd(CloseBegin(h, s), s)
    PROVE  Moves(h, K, own, r, g, K, own, m) /\ Shuts(h, g, s)
<1>1. PICK f : f = CloseBegin(h, s)
    OBVIOUS
<1>2. Moves(h, K, own, r, f, K \cup {s}, own, m) /\ Shuts(h, f, s)
    BY <1>1, CloseBeginMoves
<1>3. PICK q : Heaped(f, K \cup {s}, own, q, m) /\ SweepKept(h, f, r, q) /\ Keeps(h, f)
    BY <1>2 DEF Moves
<1>4. g = CloseEnd(f, s) /\ s \in K \cup {s}
    BY <1>1
<1>5. /\ Moves(f, K \cup {s}, own, q, g, (K \cup {s}) \ {s}, own, m)
      /\ Spares(f, g, {}) /\ Fades(f, g)
    BY <1>3, <1>4, CloseEndMoves
<1>6. (K \cup {s}) \ {s} = K
    BY DEF Heaped, Stale, Dead, Open
<1>7. PICK t : Heaped(g, K, own, t, m) /\ SweepKept(f, g, q, t) /\ Keeps(f, g)
    BY <1>5, <1>6 DEF Moves
<1>8. SweepKept(h, g, r, t)
    BY <1>3, <1>7, SweepKeptTransitive
<1>9. Keeps(h, g)
    BY <1>3, <1>7, KeepsTransitive
<1>10. Fades(h, g)
    BY <1>2, <1>5 DEF Shuts, Fades
<1>11. Shuts(h, g, s)
    BY <1>2, <1>5, <1>10 DEF Shuts, Spares
<1> QED  BY <1>7, <1>8, <1>9, <1>11 DEF Moves

\* A threaded list is walked to its end, and each socket is met once.
LEMMA ThreadedWalk ==
    ASSUME NEW U, IsFiniteSet(U), Null \notin U, NEW S \in SUBSET U, NEW nx, NEW pv, NEW p,
           NEW r \in [U -> Int], Threaded(nx, pv, S, p, r)
    PROVE  /\ Walk(nx, U, p) = S
           /\ p # Null => pv[p] = Null
           /\ \A x \in S : /\ nx[x] # Null => pv[nx[x]] = x
                           /\ x \notin Walk(nx, U, nx[x])
<1>1. Ordered(nx, S, p, r) /\ Backed(nx, pv, S, p)
    BY DEF Threaded
<1>2. Walk(nx, U, p) = S
    BY <1>1, WholeWalk
<1>3. \A x \in S : x \notin Walk(nx, U, nx[x])
    <2> SUFFICES ASSUME NEW x \in S
                 PROVE  x \notin Walk(nx, U, nx[x])
        OBVIOUS
    <2>1. PICK T : T = {y \in S : r[x] < r[y]}
        OBVIOUS
    <2>2. T \in SUBSET U /\ x \notin T
        BY <2>1
    <2>3. nx[x] = Null \/ (nx[x] \in S /\ r[x] < r[nx[x]])
        BY <1>1 DEF Ordered
    <2>4. Ordered(nx, T, nx[x], r)
        <3>1. nx[x] \in T \cup {Null} /\ (T # {} => nx[x] \in T)
            <4>1. \A y \in S : r[x] < r[y] => nx[x] # Null
                BY <1>1 DEF Ordered
            <4> QED  BY <2>1, <2>3, <4>1
        <3>2. \A y \in T : nx[y] # Null => nx[y] \in T /\ r[y] < r[nx[y]]
            <4> SUFFICES ASSUME NEW y \in T, nx[y] # Null
                         PROVE  nx[y] \in T /\ r[y] < r[nx[y]]
                OBVIOUS
            <4>1. y \in S /\ r[x] < r[y]
                BY <2>1
            <4>2. nx[y] \in S /\ r[y] < r[nx[y]]
                BY <1>1, <4>1 DEF Ordered
            <4>3. r[x] \in Int /\ r[y] \in Int /\ r[nx[y]] \in Int
                BY <4>1, <4>2
            <4> QED  BY <2>1, <4>1, <4>2, <4>3
        <3>3. \A y \in T : r[nx[x]] <= r[y]
            BY <1>1, <2>1 DEF Ordered
        <3>4. \A y, z \in T : /\ r[y] < r[z] => nx[y] # Null /\ r[nx[y]] <= r[z]
                              /\ r[y] = r[z] => y = z
            BY <1>1, <2>1 DEF Ordered
        <3> QED  BY <3>1, <3>2, <3>3, <3>4 DEF Ordered
    <2>5. Walk(nx, U, nx[x]) = T
        BY <2>2, <2>4, WholeWalk
    <2> QED  BY <2>2, <2>5
<1> QED  BY <1>1, <1>2, <1>3 DEF Backed
=============================================================================
