------------------------- MODULE ValkeyClientProofs -------------------------
(***************************************************************************)
(* The Valkey client, for any number of commands, sockets and retries and  *)
(* any options.  Four invariants, each resting on those before it:         *)
(*                                                                         *)
(*   BaseInv     types; the commands that wait are in the order of calls   *)
(*   SoundInv    in the first session: status, flags, timers and sockets   *)
(*               agree                                                     *)
(*   PreciseInv  without a database: the queue in flight is the commands   *)
(*               on the wire and in the write buffer                       *)
(*   CoveredInv  what waits in the queue has somebody to send it           *)
(*                                                                         *)
(* A handler is an operator from a client to a client; the lemmas follow   *)
(* them from the bottom up, and the invariants' steps split on Next.       *)
(***************************************************************************)
EXTENDS ValkeyClient, LinearFifoProofs

-----------------------------------------------------------------------------
(* What the handlers change.                                               *)

SameMode(d, e)   == e.opts = d.opts /\ e.status = d.status /\ e.flags = d.flags
                    /\ e.timers = d.timers
SameLink(d, e)   == e.socket = d.socket /\ e.net = d.net /\ e.wbuf = d.wbuf
SameQueues(d, e) == e.inflight = d.inflight /\ e.queue = d.queue
SameCalls(d, e)  == e.kind = d.kind /\ e.outcome = d.outcome

\* What the kernel took of the current socket and what still waits to be written.
Msgs(d) == d.net[d.socket].wire \o d.wbuf

\* The commands that are not settled, in the order of their replies.
Waiting(d) == d.inflight.items \o d.queue.items

SameStates(d, e) ==
    \A s \in SocketIds :
        /\ e.net[s].state = d.net[s].state
        /\ d.net[s].state # "open" \/ s # d.socket => e.net[s] = d.net[s]

LEMMA Fields ==
    ASSUME NEW d \in Client
    PROVE  /\ d.flags \subseteq Flags /\ d.registered \in BOOLEAN /\ d.attempts \in Nat
           /\ d.timers \subseteq Timers
           /\ d.inflight \in Fifos(Cmds) /\ d.queue \in Fifos(Cmds)
           /\ d.inflight.items \in Seq(Cmds) /\ d.queue.items \in Seq(Cmds)
           /\ d.wbuf \in Seq(Messages)
           /\ d.socket \in SocketIds \cup {Detached}
           /\ d.net \in [SocketIds -> Sockets]
           /\ d.kind \in [Cmds -> AllKinds] /\ d.outcome \in [Cmds -> Outcomes]
<1>1. /\ d.flags \subseteq Flags /\ d.registered \in BOOLEAN /\ d.attempts \in Nat
      /\ d.timers \subseteq Timers
      /\ d.inflight \in Fifos(Cmds) /\ d.queue \in Fifos(Cmds)
      /\ d.wbuf \in Seq(Messages)
      /\ d.socket \in SocketIds \cup {Detached}
      /\ d.net \in [SocketIds -> Sockets]
      /\ d.kind \in [Cmds -> AllKinds] /\ d.outcome \in [Cmds -> Outcomes]
  BY DEF Client
<1>2. d.inflight.items \in Seq(Cmds) /\ d.queue.items \in Seq(Cmds)
  BY <1>1, RingFields
<1> QED BY <1>1, <1>2

LEMMA Wires ==
    ASSUME NEW d \in Client, NEW s \in SocketIds
    PROVE  /\ s # Detached
           /\ d.net[s].wire \in Seq(Messages)
           /\ d.net[s].state \in {"none", "opening", "open"}
<1>1. d.net \in [SocketIds -> Sockets]
  BY Fields
<1>2. d.net[s] \in Sockets
  BY <1>1
<1>3. s # Detached
  BY DEF Detached, SocketIds
<1> QED BY <1>2, <1>3 DEF Sockets

\* The records that the handlers make, each with the fields that it replaces.
WithLink(d, w, n)      == [d EXCEPT !.wbuf = w, !.net = n]
WithQueues(d, f, w, q) == [d EXCEPT !.inflight = f, !.wbuf = w, !.queue = q]
WithInflight(d, f, w)  == [d EXCEPT !.inflight = f, !.wbuf = w]
WithQueue(d, q)        == [d EXCEPT !.queue = q]
WithRegistered(d, b)   == [d EXCEPT !.registered = b]

LEMMA SetLink ==
    ASSUME NEW d \in Client, NEW w \in Seq(Messages), NEW n \in [SocketIds -> Sockets]
    PROVE  LET e == WithLink(d, w, n)
           IN  /\ e \in Client /\ SameMode(d, e) /\ SameQueues(d, e) /\ SameCalls(d, e)
               /\ e.registered = d.registered /\ e.socket = d.socket
               /\ e.wbuf = w /\ e.net = n
BY DEF Client, SameMode, SameQueues, SameCalls, WithLink

LEMMA SetQueues ==
    ASSUME NEW d \in Client, NEW f \in Fifos(Cmds), NEW q \in Fifos(Cmds),
           NEW w \in Seq(Messages)
    PROVE  LET e == WithQueues(d, f, w, q)
           IN  /\ e \in Client /\ SameMode(d, e) /\ SameCalls(d, e)
               /\ e.registered = d.registered /\ e.socket = d.socket /\ e.net = d.net
               /\ e.inflight = f /\ e.wbuf = w /\ e.queue = q
BY DEF Client, SameMode, SameCalls, WithQueues

LEMMA SetInflight ==
    ASSUME NEW d \in Client, NEW f \in Fifos(Cmds), NEW w \in Seq(Messages)
    PROVE  LET e == WithInflight(d, f, w)
           IN  /\ e \in Client /\ SameMode(d, e) /\ SameCalls(d, e)
               /\ e.registered = d.registered /\ e.socket = d.socket /\ e.net = d.net
               /\ e.inflight = f /\ e.wbuf = w /\ e.queue = d.queue
BY DEF Client, SameMode, SameCalls, WithInflight

LEMMA SetQueue ==
    ASSUME NEW d \in Client, NEW q \in Fifos(Cmds)
    PROVE  LET e == WithQueue(d, q)
           IN  /\ e \in Client /\ SameMode(d, e) /\ SameCalls(d, e) /\ SameLink(d, e)
               /\ e.registered = d.registered /\ e.inflight = d.inflight /\ e.queue = q
BY DEF Client, SameMode, SameCalls, SameLink, WithQueue

LEMMA SetRegistered ==
    ASSUME NEW d \in Client, NEW b \in BOOLEAN
    PROVE  LET e == WithRegistered(d, b)
           IN  /\ e \in Client /\ SameMode(d, e) /\ SameCalls(d, e) /\ SameLink(d, e)
               /\ SameQueues(d, e) /\ e.registered = b
BY DEF Client, SameMode, SameCalls, SameLink, SameQueues, WithRegistered

LEMMA CmdsAreMessages == Cmds \subseteq Messages /\ Seq(Cmds) \subseteq Seq(Messages)
<1>1. Cmds \subseteq Messages
  BY DEF Messages
<1> HIDE DEF Cmds, Messages
<1> QED BY <1>1

LEMMA FlushesAre ==
    ASSUME NEW d \in Client, NEW e \in Flushes(d)
    PROVE  /\ e \in Client /\ SameMode(d, e) /\ SameQueues(d, e) /\ SameCalls(d, e)
           /\ e.registered = d.registered /\ e.socket = d.socket
           /\ SameStates(d, e)
           /\ d.socket # Detached => Msgs(e) = Msgs(d)
<1>1. CASE e = d
  BY <1>1, Fields DEF SameMode, SameQueues, SameCalls, SameStates
<1>2. CASE e # d
  <2>1. d.socket # Detached /\ d.net[d.socket].state = "open"
        /\ \E n \in 0..Len(d.wbuf) :
              e = [d EXCEPT !.wbuf = SubSeq(@, n + 1, Len(@)),
                    !.net[d.socket].wire = @ \o SubSeq(d.wbuf, 1, n)]
    BY <1>2 DEF Flushes
  <2>2. PICK n \in 0..Len(d.wbuf) :
              e = [d EXCEPT !.wbuf = SubSeq(@, n + 1, Len(@)),
                    !.net[d.socket].wire = @ \o SubSeq(d.wbuf, 1, n)]
    BY <2>1
  <2>3. PICK a, b, k : a = SubSeq(d.wbuf, 1, n) /\ b = SubSeq(d.wbuf, n + 1, Len(d.wbuf))
                       /\ k = d.socket
    OBVIOUS
  <2>4. k \in SocketIds /\ d.wbuf \in Seq(Messages) /\ d.net \in [SocketIds -> Sockets]
    BY <2>1, <2>3, Fields
  <2>5. a \in Seq(Messages) /\ b \in Seq(Messages)
    BY <2>3, <2>4, Prefix, Suffix
  <2>17. a \o b = d.wbuf
    BY <2>3, <2>4, Split
  <2>6. PICK x : x = d.net[k].wire
    OBVIOUS
  <2>7. x \in Seq(Messages)
    BY <2>4, <2>6, Wires
  <2>8. PICK y : y = x \o a
    OBVIOUS
  <2>9. y \in Seq(Messages)
    BY <2>5, <2>7, <2>8, Concat
  <2>10. PICK N : N = [d.net EXCEPT ![k].wire = y]
    OBVIOUS
  <2>11. /\ N \in [SocketIds -> Sockets] /\ N[k].wire = y
         /\ N[k].state = d.net[k].state
         /\ \A s \in SocketIds : s # k => N[s] = d.net[s]
    BY <2>4, <2>9, <2>10 DEF Sockets
  <2>12. e = WithLink(d, b, N)
    BY <2>2, <2>3, <2>6, <2>8, <2>10 DEF Client, WithLink
  <2>13. /\ e \in Client /\ SameMode(d, e) /\ SameQueues(d, e) /\ SameCalls(d, e)
         /\ e.registered = d.registered /\ e.socket = d.socket
         /\ e.wbuf = b /\ e.net = N
    BY <2>5, <2>11, <2>12, SetLink
  <2>14. SameStates(d, e)
    BY <2>1, <2>3, <2>11, <2>13 DEF SameStates
  <2>15. Msgs(e) = y \o b /\ Msgs(d) = x \o d.wbuf
    <3>1. e.net[e.socket].wire = y /\ d.net[d.socket].wire = x /\ e.wbuf = b
      BY <2>3, <2>6, <2>11, <2>13
    <3> QED BY <3>1 DEF Msgs
  <2>16. (x \o a) \o b = x \o (a \o b)
    BY <2>5, <2>7, ConcatAssoc
  <2> QED BY <2>17, <2>8, <2>13, <2>14, <2>15, <2>16
<1> QED BY <1>1, <1>2

LEMMA SubmitIs ==
    ASSUME NEW d \in Client, NEW x \in Cmds
    PROVE  LET e == Submit(d, x)
           IN  /\ e \in Client /\ SameMode(d, e) /\ SameCalls(d, e)
               /\ e.registered = d.registered /\ e.socket = d.socket /\ e.net = d.net
               /\ e.inflight.items = Append(d.inflight.items, x)
               /\ e.wbuf = Append(d.wbuf, x) /\ e.queue = d.queue
<1>1. PICK f, w : f = Push(d.inflight, x) /\ w = Append(d.wbuf, x)
  OBVIOUS
<1>2. d.inflight \in Fifos(Cmds) /\ d.wbuf \in Seq(Messages) /\ x \in Messages
  BY Fields, CmdsAreMessages
<1>3. f \in Fifos(Cmds) /\ f.items = Append(d.inflight.items, x)
  BY <1>1, <1>2, Pushes
<1>4. w \in Seq(Messages)
  BY <1>1, <1>2, Appended
<1>5. Submit(d, x) = WithInflight(d, f, w)
  BY <1>1 DEF Submit, WithInflight
<1>6. f \in Fifos(Cmds)
  BY <1>3
<1>7. PICK e : e = WithInflight(d, f, w)
  OBVIOUS
<1>8. /\ e \in Client /\ SameMode(d, e) /\ SameCalls(d, e)
      /\ e.registered = d.registered /\ e.socket = d.socket /\ e.net = d.net
      /\ e.inflight = f /\ e.wbuf = w /\ e.queue = d.queue
  BY <1>4, <1>6, <1>7, SetInflight
<1> QED BY <1>1, <1>3, <1>5, <1>7, <1>8

LEMMA DequeueIs ==
    ASSUME NEW d \in Client, d.queue.items # <<>>
    PROVE  LET e == Dequeue(d)
           IN  /\ e \in Client /\ SameMode(d, e) /\ SameCalls(d, e) /\ SameLink(d, e)
               /\ e.registered = d.registered /\ e.inflight = d.inflight
               /\ e.queue.items = Tail(d.queue.items)
<1>1. PICK q : q = Discard(d.queue, 1)
  OBVIOUS
<1>2. d.queue \in Fifos(Cmds)
  BY Fields
<1>3. q \in Fifos(Cmds) /\ q.items = Tail(d.queue.items)
  BY <1>1, <1>2, Discards
<1>4. Dequeue(d) = WithQueue(d, q)
  BY <1>1 DEF Dequeue, WithQueue
<1> QED BY <1>3, <1>4, SetQueue

\* Every number of commands at the head of a queue has a longest part of it that
\* may be batched.
LEMMA BatchIs ==
    ASSUME NEW d \in Client
    PROVE  /\ Batch(d) \in 0..Readable(d.queue)
           /\ \A i \in 1..Batch(d) : Pipelines(d, d.queue.items[i])
           /\ Batch(d) = Readable(d.queue) \/ ~Pipelines(d, d.queue.items[Batch(d) + 1])
<1>1. PICK shown : shown = Readable(d.queue)
  OBVIOUS
<1>2. shown \in Nat
  BY <1>1, Fields, Shows
<1> DEFINE P(n) == Pipelines(d, d.queue.items[n + 1])
           T == {n \in 0..shown : n = shown \/ ~P(n)}
<1> HIDE DEF P
<1>3. T \subseteq Nat /\ T # {}
  <2>1. shown \in T
    BY <1>2
  <2> QED BY <1>2, <2>1
<1>4. PICK n \in T : \A m \in T : n <= m
  <2> HIDE DEF T
  <2> QED BY <1>3, LeastNumber
<1>5. \A i \in 1..n : Pipelines(d, d.queue.items[i])
  <2> SUFFICES ASSUME NEW i \in 1..n PROVE Pipelines(d, d.queue.items[i])
    OBVIOUS
  <2>1. i - 1 \in 0..shown /\ i - 1 < n /\ i - 1 # shown
    BY <1>2, <1>4
  <2>2. P(i - 1)
    BY <1>2, <1>4, <2>1
  <2>3. (i - 1) + 1 = i
    OBVIOUS
  <2> QED BY <2>2, <2>3 DEF P
<1>6. n \in 0..shown /\ (n = shown \/ ~Pipelines(d, d.queue.items[n + 1]))
  BY <1>4 DEF P
<1>7. \E k \in 0..shown :
         /\ \A i \in 1..k : Pipelines(d, d.queue.items[i])
         /\ k = shown \/ ~Pipelines(d, d.queue.items[k + 1])
  BY <1>5, <1>6
<1>8. Batch(d) = CHOOSE k \in 0..shown :
         /\ \A i \in 1..k : Pipelines(d, d.queue.items[i])
         /\ k = shown \/ ~Pipelines(d, d.queue.items[k + 1])
  BY <1>1 DEF Batch
<1> QED BY <1>1, <1>7, <1>8

-----------------------------------------------------------------------------
(* Commands go from the queue to the queue in flight and to the socket.    *)

\* The commands b entered the queue in flight and what goes to the server.
Moves(d, e, b) ==
    /\ e \in Client /\ SameMode(d, e) /\ SameCalls(d, e) /\ SameStates(d, e)
    /\ e.socket = d.socket /\ b \in Seq(Cmds)
    /\ e.inflight.items = d.inflight.items \o b
    /\ d.socket # Detached => Msgs(e) = Msgs(d) \o b

Serially(d, b) ==
    \A i \in DOMAIN b : ~Pipelines(d, b[i]) => d.inflight.items = <<>>

\* The commands that moved are those at the head of the queue.
Advances(d, e) ==
    \E b \in Seq(Cmds) :
        /\ Moves(d, e, b) /\ Serially(d, b) /\ Waiting(e) = Waiting(d)
        /\ b # <<>> => Authenticated(d) \/ d.status = "connected"

LEMMA MovesNone ==
    ASSUME NEW d \in Client, NEW e \in Client, SameMode(d, e), SameCalls(d, e),
           SameLink(d, e), e.inflight = d.inflight
    PROVE  Moves(d, e, <<>>)
<1>1. d.inflight.items \in Seq(Cmds) /\ d.wbuf \in Seq(Messages) /\ <<>> \in Seq(Cmds)
  BY Fields
<1>2. SameStates(d, e) /\ e.socket = d.socket
  BY DEF SameStates, SameLink
<1>3. e.inflight.items = d.inflight.items \o <<>>
  BY <1>1, ConcatEmpty
<1>4. d.socket # Detached => Msgs(e) = Msgs(d) \o <<>>
  <2> SUFFICES ASSUME d.socket # Detached PROVE Msgs(e) = Msgs(d) \o <<>>
    OBVIOUS
  <2>1. d.net[d.socket].wire \in Seq(Messages)
    BY Fields, Wires
  <2>2. Msgs(d) \in Seq(Messages)
    BY <1>1, <2>1, Concat DEF Msgs
  <2>3. Msgs(e) = Msgs(d)
    BY DEF Msgs, SameLink
  <2> QED BY <2>2, <2>3, ConcatEmpty
<1> QED BY <1>1, <1>2, <1>3, <1>4 DEF Moves

\* What is appended to the queue in flight and to the buffer.
LEMMA MovesSome ==
    ASSUME NEW d \in Client, NEW e \in Client, SameMode(d, e), SameCalls(d, e),
           NEW b \in Seq(Cmds), e.socket = d.socket, e.net = d.net,
           e.inflight.items = d.inflight.items \o b, e.wbuf = d.wbuf \o b
    PROVE  Moves(d, e, b)
<1>1. SameStates(d, e)
  BY DEF SameStates
<1>2. d.socket # Detached => Msgs(e) = Msgs(d) \o b
  <2> SUFFICES ASSUME d.socket # Detached PROVE Msgs(e) = Msgs(d) \o b
    OBVIOUS
  <2>1. d.net[d.socket].wire \in Seq(Messages) /\ d.wbuf \in Seq(Messages)
        /\ b \in Seq(Messages)
    BY Fields, Wires, CmdsAreMessages
  <2>2. PICK x, w : x = d.net[d.socket].wire /\ w = d.wbuf
    OBVIOUS
  <2>3. x \in Seq(Messages) /\ w \in Seq(Messages)
    BY <2>1, <2>2
  <2>4. Msgs(e) = x \o (w \o b) /\ Msgs(d) \o b = (x \o w) \o b
    BY <2>2 DEF Msgs
  <2>5. (x \o w) \o b = x \o (w \o b)
    BY SMTT(60), <2>1, <2>3, ConcatAssoc
  <2> QED BY <2>4, <2>5
<1> QED BY <1>1, <1>2 DEF Moves

LEMMA MovesFlushed ==
    ASSUME NEW d \in Client, NEW f, NEW b, Moves(d, f, b), NEW e \in Flushes(f)
    PROVE  /\ Moves(d, e, b) /\ e.queue = f.queue /\ e.inflight = f.inflight
           /\ e.registered = f.registered
<1>1. f \in Client
  BY DEF Moves
<1>2. /\ e \in Client /\ SameMode(f, e) /\ SameQueues(f, e) /\ SameCalls(f, e)
      /\ e.registered = f.registered /\ e.socket = f.socket /\ SameStates(f, e)
      /\ f.socket # Detached => Msgs(e) = Msgs(f)
  BY <1>1, FlushesAre
<1>3. SameMode(d, e) /\ SameCalls(d, e)
  BY <1>2 DEF Moves, SameMode, SameCalls
<1>4. SameStates(d, e)
  BY <1>2 DEF Moves, SameStates
<1> QED BY <1>2, <1>3, <1>4 DEF Moves, SameQueues

LEMMA SubmitBatchIs ==
    ASSUME NEW d \in Client
    PROVE  \E b \in Seq(Cmds) :
              LET e == SubmitBatch(d)
              IN  /\ Moves(d, e, b) /\ e.registered = d.registered
                  /\ b \o e.queue.items = d.queue.items
                  /\ \A i \in DOMAIN b : Pipelines(d, b[i])
                  /\ HeadPipelines(d) => b # <<>>
<1>1. PICK n, q, f, b, w :
         /\ n = Batch(d) /\ q = Discard(d.queue, n)
         /\ b = SubSeq(d.queue.items, 1, n)
         /\ f = [Reserve(d.inflight, n) EXCEPT !.items = d.inflight.items \o b]
         /\ w = d.wbuf \o b
  OBVIOUS
<1>2. /\ d.queue \in Fifos(Cmds) /\ d.queue.items \in Seq(Cmds)
      /\ d.inflight \in Fifos(Cmds) /\ d.wbuf \in Seq(Messages)
  BY Fields
<1>3. Readable(d.queue) \in 0..Len(d.queue.items)
      /\ (d.queue.items # <<>> => Readable(d.queue) > 0)
  BY <1>2, Shows
<1>4. /\ n \in 0..Readable(d.queue)
      /\ \A i \in 1..n : Pipelines(d, d.queue.items[i])
      /\ n = Readable(d.queue) \/ ~Pipelines(d, d.queue.items[n + 1])
  BY <1>1, BatchIs
<1>5. n \in 0..Len(d.queue.items)
  BY <1>2, <1>3, <1>4
<1>6. b \in Seq(Cmds) /\ Len(b) = n /\ \A i \in 1..n : b[i] = d.queue.items[i]
  BY <1>1, <1>2, <1>5, Prefix
<1>7. q \in Fifos(Cmds) /\ q.items = SubSeq(d.queue.items, n + 1, Len(d.queue.items))
  BY <1>1, <1>2, <1>5, DiscardsSome
<1>8. b \o q.items = d.queue.items
  <2>1. d.queue.items \in Seq(Cmds)
    BY <1>2
  <2>2. SubSeq(d.queue.items, 1, n) \o SubSeq(d.queue.items, n + 1, Len(d.queue.items))
          = d.queue.items
    BY <1>5, <2>1, Split
  <2> QED BY <1>1, <1>7, <2>2
<1>9. f \in Fifos(Cmds) /\ f.items = d.inflight.items \o b
  <2>1. f = [Reserve(d.inflight, Len(b)) EXCEPT !.items = d.inflight.items \o b]
    BY <1>1, <1>6
  <2>2. b \in Seq(Cmds)
    BY <1>6
  <2> QED BY <1>2, <2>1, <2>2, Extends
<1>10. w \in Seq(Messages)
  BY <1>1, <1>2, <1>6, CmdsAreMessages, Concat
<1>11. SubmitBatch(d) = WithQueues(d, f, w, q)
  BY <1>1 DEF SubmitBatch, WithQueues
<1>12. PICK e : e = WithQueues(d, f, w, q)
  OBVIOUS
<1>13. f \in Fifos(Cmds) /\ q \in Fifos(Cmds)
  BY <1>7, <1>9
<1>14. /\ e \in Client /\ SameMode(d, e) /\ SameCalls(d, e)
       /\ e.registered = d.registered /\ e.socket = d.socket /\ e.net = d.net
       /\ e.inflight = f /\ e.wbuf = w /\ e.queue = q
  BY <1>10, <1>12, <1>13, SetQueues
<1>15. Moves(d, e, b)
  BY <1>1, <1>6, <1>9, <1>14, MovesSome
<1>16. \A i \in DOMAIN b : Pipelines(d, b[i])
  BY <1>4, <1>6
<1>17. HeadPipelines(d) => b # <<>>
  <2> SUFFICES ASSUME HeadPipelines(d), b = <<>> PROVE FALSE
    OBVIOUS
  <2>1. n = 0
    BY <1>6
  <2>2. Pipelines(d, d.queue.items[1]) /\ d.queue.items # <<>>
    BY <1>2, SeqFacts DEF HeadPipelines
  <2> QED BY <1>3, <1>4, <2>1, <2>2
<1> QED BY <1>6, <1>8, <1>11, <1>12, <1>14, <1>15, <1>16, <1>17

LEMMA MovesOrder ==
    ASSUME NEW d \in Client, NEW e, NEW b, Moves(d, e, b), b \o e.queue.items = d.queue.items
    PROVE  Waiting(e) = Waiting(d)
<1>1. PICK f, q : f = d.inflight.items /\ q = e.queue.items
  OBVIOUS
<1>2. e \in Client /\ b \in Seq(Cmds)
  BY DEF Moves
<1>3. f \in Seq(Cmds) /\ q \in Seq(Cmds)
  BY <1>1, <1>2, Fields
<1>4. Waiting(e) = (f \o b) \o q /\ Waiting(d) = f \o (b \o q)
  BY <1>1 DEF Waiting, Moves
<1> QED BY <1>2, <1>3, <1>4, ConcatAssoc

LEMMA HeadKept ==
    ASSUME NEW d, NEW e, e.queue.items = d.queue.items, e.kind = d.kind
    PROVE  HeadPipelines(e) <=> HeadPipelines(d)
BY DEF HeadPipelines, Pipelines

LEMMA AutoFlushIs ==
    ASSUME NEW d \in Client, NEW e \in AutoFlush(d)
    PROVE  /\ Advances(d, e)
           /\ d.status = "connected" /\ e.queue.items # <<>> =>
                 e.inflight.items # <<>> \/ ~HeadPipelines(d)
<1>1. CASE d.status # "connected"
  <2>1. e = WithRegistered(d, FALSE)
    BY <1>1 DEF AutoFlush, WithRegistered
  <2>2. /\ e \in Client /\ SameMode(d, e) /\ SameCalls(d, e) /\ SameLink(d, e)
        /\ SameQueues(d, e)
    BY <2>1, SetRegistered
  <2>3. Moves(d, e, <<>>) /\ Waiting(e) = Waiting(d)
    BY <2>2, MovesNone DEF SameQueues, Waiting
  <2>4. Serially(d, <<>>) /\ <<>> \in Seq(Cmds)
    BY DEF Serially
  <2> QED BY <1>1, <2>3, <2>4 DEF Advances
<1>2. CASE d.status = "connected"
  <2>1. PICK g \in Flushes(SubmitBatch(d)) : e = WithRegistered(g, g.queue.items # <<>>)
    BY <1>2 DEF AutoFlush, WithRegistered
  <2>2. PICK f : f = SubmitBatch(d)
    OBVIOUS
  <2>3. PICK b \in Seq(Cmds) :
            /\ Moves(d, f, b) /\ b \o f.queue.items = d.queue.items
            /\ \A i \in DOMAIN b : Pipelines(d, b[i])
            /\ HeadPipelines(d) => b # <<>>
    BY <2>2, SubmitBatchIs
  <2>4. /\ Moves(d, g, b) /\ g.queue = f.queue
    BY <2>1, <2>2, <2>3, MovesFlushed
  <2>5. g \in Client
    BY <2>4 DEF Moves
  <2>6. /\ e \in Client /\ SameMode(g, e) /\ SameCalls(g, e) /\ SameLink(g, e)
        /\ SameQueues(g, e)
    BY <2>1, <2>5, SetRegistered
  <2>7. Moves(d, e, b)
    BY <2>4, <2>6 DEF Moves, SameMode, SameCalls, SameLink, SameQueues, SameStates, Msgs
  <2>8. Waiting(e) = Waiting(d)
    BY <2>3, <2>4, <2>6, <2>7, MovesOrder DEF SameQueues
  <2>9. Serially(d, b)
    BY <2>3 DEF Serially
  <2>10. e.inflight.items = d.inflight.items \o b /\ d.inflight.items \in Seq(Cmds)
    BY <2>7, Fields DEF Moves
  <2>11. b # <<>> => e.inflight.items # <<>>
    BY <2>3, <2>10
  <2> QED BY <1>2, <2>3, <2>7, <2>8, <2>9, <2>11 DEF Advances
<1> QED BY <1>1, <1>2

\* The head of the queue moves, where drain lets it.
LEMMA DrainIs ==
    ASSUME NEW d \in Client, d.queue.items # <<>>, d.inflight.items = <<>>
    PROVE  LET e == Drain(d)
           IN  /\ Moves(d, e, <<Head(d.queue.items)>>) /\ Waiting(e) = Waiting(d)
               /\ e.registered = d.registered /\ e.inflight.items # <<>>
               /\ <<Head(d.queue.items)>> \in Seq(Cmds)
<1>1. PICK x, f, e : x = Head(d.queue.items) /\ f = Dequeue(d) /\ e = Submit(f, x)
  OBVIOUS
<1>2. Drain(d) = e
  BY <1>1 DEF Drain
<1>3. d.queue.items \in Seq(Cmds) /\ d.inflight.items \in Seq(Cmds) /\ d.wbuf \in Seq(Messages)
  BY Fields
<1>4. x \in Cmds /\ x \in Messages
  BY <1>1, <1>3, SeqFacts, CmdsAreMessages
<1>5. /\ f \in Client /\ SameMode(d, f) /\ SameCalls(d, f) /\ SameLink(d, f)
      /\ f.registered = d.registered /\ f.inflight = d.inflight
      /\ f.queue.items = Tail(d.queue.items)
  BY <1>1, DequeueIs
<1>6. /\ e \in Client /\ SameMode(f, e) /\ SameCalls(f, e)
      /\ e.registered = f.registered /\ e.socket = f.socket /\ e.net = f.net
      /\ e.inflight.items = Append(f.inflight.items, x)
      /\ e.wbuf = Append(f.wbuf, x) /\ e.queue = f.queue
  BY <1>1, <1>4, <1>5, SubmitIs
<1>7. /\ <<x>> \in Seq(Cmds)
      /\ Append(d.inflight.items, x) = d.inflight.items \o <<x>>
      /\ Append(d.wbuf, x) = d.wbuf \o <<x>>
  BY <1>3, <1>4, AppendIsConcat
<1>8. /\ SameMode(d, e) /\ SameCalls(d, e) /\ e.socket = d.socket /\ e.net = d.net
      /\ e.inflight.items = d.inflight.items \o <<x>> /\ e.wbuf = d.wbuf \o <<x>>
  BY <1>5, <1>6, <1>7 DEF SameMode, SameCalls, SameLink
<1>9. Moves(d, e, <<x>>)
  BY <1>6, <1>7, <1>8, MovesSome
<1>10. <<x>> \o e.queue.items = d.queue.items
  BY ZenonT(60), <1>1, <1>3, <1>5, <1>6, HeadAndTail
<1>11. Waiting(e) = Waiting(d)
  BY <1>9, <1>10, MovesOrder
<1>12. e.inflight.items # <<>>
  BY <1>3, <1>4, <1>5, <1>6, Appended
<1> QED BY <1>1, <1>2, <1>5, <1>6, <1>7, <1>9, <1>11, <1>12

LEMMA SendNextCommandIs ==
    ASSUME NEW d \in Client, NEW e \in SendNextCommand(d)
    PROVE  /\ Advances(d, e)
           /\ Authenticated(d) /\ e.queue.items # <<>> =>
                 \/ d.wbuf # <<>> \/ e.inflight.items # <<>>
                 \/ e.registered /\ HeadPipelines(e)
<1>1. PICK f : /\ f = IF d.wbuf # <<>> \/ ~Authenticated(d) \/ d.queue.items = <<>> THEN d
                      ELSE IF HeadPipelines(d) THEN WithRegistered(d, TRUE)
                      ELSE IF d.inflight.items # <<>> THEN d
                      ELSE WithRegistered(Drain(d), Drain(d).registered \/ HeadPipelines(Drain(d)))
               /\ e \in Flushes(f)
  BY DEF SendNextCommand, WithRegistered
<1>2. Serially(d, <<>>) /\ <<>> \in Seq(Cmds)
  BY DEF Serially
<1>3. ASSUME NEW b \in Seq(Cmds), Moves(d, f, b), Waiting(f) = Waiting(d), Serially(d, b),
             b # <<>> => Authenticated(d)
      PROVE  Advances(d, e) /\ e.queue = f.queue /\ e.registered = f.registered
             /\ e.inflight = f.inflight /\ e.kind = d.kind /\ f.kind = d.kind
  <2>1. /\ Moves(d, e, b) /\ e.queue = f.queue /\ e.inflight = f.inflight
        /\ e.registered = f.registered
    <3>1. e \in Flushes(f)
      BY <1>1
    <3> QED BY <1>3, <3>1, MovesFlushed
  <2>2. Waiting(e) = Waiting(d)
    BY <1>3, <2>1 DEF Waiting
  <2>3. e.kind = d.kind /\ f.kind = d.kind
    BY <1>3, <2>1 DEF Moves, SameCalls
  <2> QED BY <1>3, <2>1, <2>2, <2>3 DEF Advances
<1>4. CASE f = d
  <2>1. Moves(d, f, <<>>) /\ Waiting(f) = Waiting(d)
    BY <1>4, MovesNone DEF SameMode, SameCalls, SameLink
  <2>2. Advances(d, e) /\ e.queue = f.queue /\ e.registered = f.registered
        /\ e.inflight = f.inflight /\ e.kind = d.kind
    BY <1>2, <1>3, <2>1
  <2>3. HeadPipelines(d) /\ d.queue.items # <<>> /\ Authenticated(d) /\ d.wbuf = <<>>
          => f.registered
    <3> SUFFICES ASSUME HeadPipelines(d), d.queue.items # <<>>, Authenticated(d), d.wbuf = <<>>
                 PROVE  f.registered
      OBVIOUS
    <3>1. f = WithRegistered(d, TRUE)
      BY <1>1
    <3> QED BY <3>1, SetRegistered
  <2>4. d.queue.items # <<>> /\ Authenticated(d) /\ d.wbuf = <<>> /\ ~HeadPipelines(d)
          => d.inflight.items # <<>>
    <3> SUFFICES ASSUME d.queue.items # <<>>, Authenticated(d), d.wbuf = <<>>,
                        ~HeadPipelines(d), d.inflight.items = <<>>
                 PROVE  FALSE
      OBVIOUS
    <3>1. PICK g : g = Drain(d)
      OBVIOUS
    <3>2. f = WithRegistered(g, g.registered \/ HeadPipelines(g))
      BY <1>1, <3>1
    <3>3. Moves(d, g, <<Head(d.queue.items)>>) /\ g.inflight.items # <<>>
      BY <3>1, DrainIs
    <3>4. g \in Client
      BY <3>3 DEF Moves
    <3>5. f.inflight = g.inflight
      BY <3>2, <3>4, SetRegistered, Fields DEF SameQueues, HeadPipelines, Pipelines
    <3> QED BY <1>4, <3>3, <3>5
  <2>5. HeadPipelines(e) <=> HeadPipelines(d)
    BY <1>4, <2>2, HeadKept
  <2> QED BY <1>4, <2>2, <2>3, <2>4, <2>5
<1>5. CASE ~(d.wbuf # <<>> \/ ~Authenticated(d) \/ d.queue.items = <<>>) /\ HeadPipelines(d)
  <2>1. f = WithRegistered(d, TRUE)
    BY <1>1, <1>5
  <2>2. /\ f \in Client /\ SameMode(d, f) /\ SameCalls(d, f) /\ SameLink(d, f)
        /\ SameQueues(d, f) /\ f.registered = TRUE
    BY <2>1, SetRegistered
  <2>3. Moves(d, f, <<>>) /\ Waiting(f) = Waiting(d)
    BY <2>2, MovesNone DEF SameQueues, Waiting
  <2>4. Advances(d, e) /\ e.queue = f.queue /\ e.registered = f.registered /\ e.kind = d.kind
    BY <1>2, <1>3, <2>3
  <2>5. HeadPipelines(e)
    BY <1>5, <2>2, <2>4, HeadKept DEF SameQueues
  <2> QED BY <2>2, <2>4, <2>5
<1>6. CASE /\ ~(d.wbuf # <<>> \/ ~Authenticated(d) \/ d.queue.items = <<>>)
           /\ ~HeadPipelines(d) /\ d.inflight.items = <<>>
  <2>1. PICK g, b : g = Drain(d) /\ b = <<Head(d.queue.items)>>
    OBVIOUS
  <2>2. f = WithRegistered(g, g.registered \/ HeadPipelines(g))
    BY <1>1, <1>6, <2>1
  <2>3. /\ Moves(d, g, b) /\ Waiting(g) = Waiting(d) /\ g.inflight.items # <<>>
        /\ b \in Seq(Cmds)
    BY <1>6, <2>1, DrainIs
  <2>4. g \in Client /\ (g.registered \/ HeadPipelines(g)) \in BOOLEAN
    BY <2>3 DEF Moves
  <2>5. /\ f \in Client /\ SameMode(g, f) /\ SameCalls(g, f) /\ SameLink(g, f)
        /\ SameQueues(g, f)
    BY <2>2, <2>4, SetRegistered
  <2>6. Moves(d, f, b)
    BY <2>3, <2>5 DEF Moves, SameMode, SameCalls, SameLink, SameQueues, SameStates, Msgs
  <2>7. Waiting(f) = Waiting(d) /\ Serially(d, b) /\ Authenticated(d)
    BY <1>6, <2>3, <2>5 DEF SameQueues, Waiting, Serially
  <2>8. Advances(d, e) /\ e.inflight = f.inflight
    BY <1>3, <2>3, <2>6, <2>7
  <2> QED BY <2>3, <2>5, <2>8 DEF SameQueues
<1> QED BY <1>1, <1>4, <1>5, <1>6

\* A command that is accepted goes to the end of what waits.
Adds(d, e, x) ==
    \E b \in Seq(Cmds) :
        /\ Moves(d, e, b) /\ Serially(d, b) /\ Waiting(e) = Waiting(d) \o <<x>>
        /\ b # <<>> => Authenticated(d)

\* One that is not gets its outcome at once.
Refuses(d, e, x, why) ==
    /\ e \in Client /\ SameMode(d, e) /\ SameLink(d, e) /\ SameQueues(d, e)
    /\ e.registered = d.registered /\ e.kind = d.kind
    /\ e.outcome = [d.outcome EXCEPT ![x] = why]

WithOutcome(d, x, o) == [d EXCEPT !.outcome[x] = o]

LEMMA SetOutcome ==
    ASSUME NEW d \in Client, NEW x \in Cmds, NEW o \in Outcomes
    PROVE  Refuses(d, WithOutcome(d, x, o), x, o)
<1>1. PICK p : p = [d.outcome EXCEPT ![x] = o]
  OBVIOUS
<1>2. p \in [Cmds -> Outcomes]
  BY <1>1, Fields
<1>3. PICK e : e = [d EXCEPT !.outcome = p]
  OBVIOUS
<1>4. /\ e \in Client /\ SameMode(d, e) /\ SameLink(d, e) /\ SameQueues(d, e)
      /\ e.registered = d.registered /\ e.kind = d.kind /\ e.outcome = p
  BY <1>2, <1>3 DEF Client, SameMode, SameLink, SameQueues
<1>5. WithOutcome(d, x, o) = e
  BY <1>1, <1>3 DEF WithOutcome
<1> QED BY <1>1, <1>4, <1>5 DEF Refuses

WithQueued(d, q, b) == [d EXCEPT !.queue = q, !.registered = b]

LEMMA SetQueued ==
    ASSUME NEW d \in Client, NEW q \in Fifos(Cmds), NEW b \in BOOLEAN
    PROVE  LET e == WithQueued(d, q, b)
           IN  /\ e \in Client /\ SameMode(d, e) /\ SameCalls(d, e) /\ SameLink(d, e)
               /\ e.inflight = d.inflight /\ e.queue = q /\ e.registered = b
BY DEF Client, SameMode, SameCalls, SameLink, WithQueued

\* What keeps a flush coming when x enters the queue of a connected client.
Remembered(d, e, x) ==
    \/ /\ d.queue.items # <<>> /\ (HeadPipelines(d) => HeadPipelines(e))
       /\ d.registered => e.registered
    \/ d.inflight.items # <<>> \/ ~Authenticated(d)
    \/ e.registered /\ (d.kind[x] # "typed" => HeadPipelines(e))

LEMMA EnqueueIs ==
    ASSUME NEW d \in Client, NEW x \in Cmds, NEW e \in Enqueue(d, x)
    PROVE  \/ /\ Adds(d, e, x)
              /\ d.status = "connected" /\ e.queue.items # <<>> => Remembered(d, e, x)
           \/ /\ Refuses(d, e, x, "unreachable") /\ Authenticated(d)
              /\ d.status \notin {"connecting", "connected"}
<1>1. PICK can : can = (d.kind[x] # "serial" /\ d.opts.pipeline)
  OBVIOUS
<1>2. d.queue \in Fifos(Cmds) /\ d.queue.items \in Seq(Cmds) /\ d.inflight.items \in Seq(Cmds)
      /\ d.wbuf \in Seq(Messages) /\ d.kind[x] \in AllKinds
  BY Fields
<1>3. <<x>> \in Seq(Cmds) /\ Append(d.queue.items, x) = d.queue.items \o <<x>>
      /\ Append(d.inflight.items, x) = d.inflight.items \o <<x>>
  BY <1>2, AppendIsConcat
<1>4. x \in Messages /\ Append(d.wbuf, x) = d.wbuf \o <<x>>
  BY <1>2, CmdsAreMessages, AppendIsConcat
<1>5. CASE MustQueue(d, can)
  <2>1. PICK q, b : q = Push(d.queue, x) /\ b = (d.registered \/ (d.status = "connected" /\ can))
    OBVIOUS
  <2>2. e = WithQueued(d, q, b)
    BY <1>1, <1>5, <2>1 DEF Enqueue, WithQueued
  <2>3. q \in Fifos(Cmds) /\ q.items = Append(d.queue.items, x)
    BY <1>2, <2>1, Pushes
  <2>4. b \in BOOLEAN
    BY <1>1, <2>1, Fields
  <2>5. /\ e \in Client /\ SameMode(d, e) /\ SameCalls(d, e) /\ SameLink(d, e)
        /\ e.inflight = d.inflight /\ e.queue = q /\ e.registered = b
    BY <2>2, <2>3, <2>4, SetQueued
  <2>6. Moves(d, e, <<>>) /\ Serially(d, <<>>) /\ <<>> \in Seq(Cmds)
    BY <2>5, MovesNone DEF Serially
  <2>7. Waiting(e) = Waiting(d) \o <<x>>
    <3>1. PICK f, r : f = d.inflight.items /\ r = d.queue.items
      OBVIOUS
    <3>2. f \in Seq(Cmds) /\ r \in Seq(Cmds)
      BY <1>2, <3>1
    <3>3. Waiting(e) = f \o (r \o <<x>>) /\ Waiting(d) \o <<x>> = (f \o r) \o <<x>>
      BY <1>3, <2>3, <2>5, <3>1 DEF Waiting
    <3> QED BY SMTT(60), <1>3, <3>2, <3>3, ConcatAssoc
  <2>8. Adds(d, e, x)
    BY <2>6, <2>7 DEF Adds
  <2>9. e.queue.items[1] = IF d.queue.items = <<>> THEN x ELSE d.queue.items[1]
    <3>1. e.queue.items = Append(d.queue.items, x) /\ d.queue.items \in Seq(Cmds)
      BY <1>2, <2>3, <2>5
    <3>2. CASE d.queue.items = <<>>
      BY <3>1, <3>2
    <3>3. CASE d.queue.items # <<>>
      <4>1. 1 \in 1..Len(d.queue.items)
        BY <3>1, <3>3, SeqFacts
      <4>2. Append(d.queue.items, x)[1] = d.queue.items[1]
        BY <3>1, <4>1, Appended
      <4> QED BY <3>1, <3>3, <4>2
    <3> QED BY <3>2, <3>3
  <2>10. e.queue.items # <<>> /\ Head(e.queue.items) = e.queue.items[1]
    BY <1>2, <2>3, <2>5, Appended, SeqFacts
  <2>11. d.queue.items # <<>> => (HeadPipelines(d) => HeadPipelines(e))
    BY <1>2, <2>5, <2>9, <2>10, SeqFacts DEF HeadPipelines, Pipelines, SameCalls
  <2>12. can /\ d.queue.items = <<>> /\ d.kind[x] # "typed" => HeadPipelines(e)
    BY <1>1, <1>2, <2>5, <2>9, <2>10 DEF HeadPipelines, Pipelines, SameCalls, AllKinds
  <2>13. d.status = "connected" => Remembered(d, e, x)
    BY <1>5, <2>1, <2>5, <2>11, <2>12 DEF MustQueue, Remembered
  <2> QED BY <2>8, <2>13
<1>6. CASE ~MustQueue(d, can) /\ d.status \in {"connecting", "connected"}
  <2>1. PICK f : f = Submit(d, x)
    OBVIOUS
  <2>2. e \in Flushes(f)
    BY <1>1, <1>6, <2>1 DEF Enqueue
  <2>3. /\ f \in Client /\ SameMode(d, f) /\ SameCalls(d, f)
        /\ f.registered = d.registered /\ f.socket = d.socket /\ f.net = d.net
        /\ f.inflight.items = Append(d.inflight.items, x)
        /\ f.wbuf = Append(d.wbuf, x) /\ f.queue = d.queue
    BY <2>1, SubmitIs
  <2>4. Moves(d, f, <<x>>)
    BY <1>3, <1>4, <2>3, MovesSome
  <2>5. Moves(d, e, <<x>>) /\ e.queue = f.queue
    BY <2>2, <2>4, MovesFlushed
  <2>6. d.queue.items = <<>> /\ d.inflight.items = <<>> /\ Authenticated(d)
    BY <1>6 DEF MustQueue
  <2>7. Waiting(e) = Waiting(d) \o <<x>>
    BY <1>2, <1>3, <2>3, <2>5, <2>6, ConcatEmpty DEF Waiting, Moves
  <2>8. Serially(d, <<x>>)
    BY <2>6 DEF Serially
  <2> QED BY <1>3, <2>3, <2>5, <2>6, <2>7, <2>8 DEF Adds
<1>7. CASE ~MustQueue(d, can) /\ d.status \notin {"connecting", "connected"}
  <2>1. e = WithOutcome(d, x, "unreachable")
    BY <1>1, <1>7 DEF Enqueue, WithOutcome
  <2> QED BY <1>7, <2>1, SetOutcome DEF MustQueue, Outcomes
<1> QED BY <1>5, <1>6, <1>7

-----------------------------------------------------------------------------
(* Connections end and are made.                                           *)

\* Every command that waited is rejected, or none is.
Rejects(d, e) ==
    /\ e.kind = d.kind
    /\ \/ SameQueues(d, e) /\ e.outcome = d.outcome
       \/ /\ e.inflight = EmptyFifo /\ e.queue = EmptyFifo
          /\ \A x \in Cmds :
                \/ e.outcome[x] = d.outcome[x]
                \/ e.outcome[x] = "rejected" /\ x \in Items(d.inflight) \cup Items(d.queue)

LEMMA RaiseIs ==
    ASSUME NEW d \in Client, NEW flag \in Flags
    PROVE  LET e == Raise(d, flag)
           IN  /\ e \in Client /\ SameLink(d, e) /\ SameQueues(d, e) /\ SameCalls(d, e)
               /\ e.opts = d.opts /\ e.status = d.status /\ e.timers = d.timers
               /\ e.registered = d.registered
               /\ e.flags = d.flags \cup {flag}
BY DEF Client, Raise, SameLink, SameQueues, SameCalls

WithFailed(d, o) ==
    [d EXCEPT !.outcome = o, !.inflight = EmptyFifo, !.queue = EmptyFifo, !.status = "failed"]

LEMMA SetFailed ==
    ASSUME NEW d \in Client, NEW o \in [Cmds -> Outcomes]
    PROVE  LET e == WithFailed(d, o)
           IN  /\ e \in Client /\ SameLink(d, e)
               /\ e.opts = d.opts /\ e.flags = d.flags /\ e.timers = d.timers
               /\ e.registered = d.registered /\ e.kind = d.kind
               /\ e.status = "failed" /\ e.outcome = o
               /\ e.inflight = EmptyFifo /\ e.queue = EmptyFifo
<1>1. EmptyFifo \in Fifos(Cmds)
  BY RingEmpty
<1> QED BY <1>1 DEF Client, SameLink, WithFailed

LEMMA FailedIs ==
    ASSUME NEW d \in Client
    PROVE  LET e == Failed(d)
           IN  /\ e \in Client /\ SameLink(d, e) /\ Rejects(d, e)
               /\ e.opts = d.opts /\ e.flags = d.flags /\ e.timers = d.timers
               /\ e.status = "failed"
<1>1. PICK o : o = [x \in Cmds |-> IF x \in Shown(d.inflight) \cup Shown(d.queue)
                                   THEN "rejected" ELSE d.outcome[x]]
  OBVIOUS
<1>2. o \in [Cmds -> Outcomes]
  BY <1>1, Fields DEF Outcomes
<1>3. Failed(d) = WithFailed(d, o)
  BY <1>1 DEF Failed, RejectAll, WithFailed, Client
<1>4. \A f \in Fifos(Cmds) : Shown(f) \subseteq Items(f)
  <2> SUFFICES ASSUME NEW f \in Fifos(Cmds) PROVE Shown(f) \subseteq Items(f)
    OBVIOUS
  <2>1. Readable(f) \in 0..Len(f.items) /\ f.items \in Seq(Cmds)
    BY Shows, RingFields
  <2> QED BY <2>1 DEF Shown, Items
<1>5. \A x \in Cmds : \/ o[x] = d.outcome[x]
                      \/ o[x] = "rejected" /\ x \in Items(d.inflight) \cup Items(d.queue)
  BY <1>1, <1>4, Fields
<1> QED BY <1>2, <1>3, <1>5, SetFailed DEF Rejects

LEMMA FailDetachedIs ==
    ASSUME NEW d \in Client
    PROVE  LET e == FailDetached(d)
           IN  /\ e \in Client /\ SameLink(d, e) /\ Rejects(d, e)
               /\ e.opts = d.opts /\ e.timers = d.timers /\ e.status = "failed"
               /\ e.flags = d.flags \/ e.flags = d.flags \cup {"manual"}
<1>1. CASE d.status = "failed"
  BY <1>1 DEF FailDetached, SameLink, Rejects, SameQueues
<1>2. CASE d.status # "failed"
  <2>1. PICK f : f = Failed(d)
    OBVIOUS
  <2>2. /\ f \in Client /\ SameLink(d, f) /\ Rejects(d, f)
        /\ f.opts = d.opts /\ f.flags = d.flags /\ f.timers = d.timers
        /\ f.status = "failed"
    BY <2>1, FailedIs
  <2>3. CASE FailDetached(d) = f
    BY <2>2, <2>3
  <2>4. CASE FailDetached(d) = Raise(f, "manual")
    <3>1. PICK e : e = Raise(f, "manual")
      OBVIOUS
    <3>2. /\ e \in Client /\ SameLink(f, e) /\ SameQueues(f, e) /\ SameCalls(f, e)
          /\ e.opts = f.opts /\ e.status = f.status /\ e.timers = f.timers
          /\ e.flags = f.flags \cup {"manual"}
      BY <2>2, <3>1, RaiseIs DEF Flags
    <3> QED BY <2>2, <2>4, <3>1, <3>2 DEF SameLink, SameQueues, SameCalls, Rejects
  <2> QED BY <1>2, <2>1, <2>3, <2>4 DEF FailDetached
<1> QED BY <1>1, <1>2

WithClosed(d, n) ==
    [d EXCEPT !.net = n, !.socket = Detached, !.registered = FALSE, !.wbuf = <<>>]

LEMMA SetClosed ==
    ASSUME NEW d \in Client, NEW n \in [SocketIds -> Sockets]
    PROVE  LET e == WithClosed(d, n)
           IN  /\ e \in Client /\ SameMode(d, e) /\ SameQueues(d, e) /\ SameCalls(d, e)
               /\ e.net = n /\ e.socket = Detached /\ e.wbuf = <<>>
<1>1. <<>> \in Seq(Messages)
  OBVIOUS
<1> QED BY <1>1 DEF Client, SameMode, SameQueues, SameCalls, WithClosed

WithPromise(d, b)  == [d EXCEPT !.promise = b]
WithAttempts(d, k) == [d EXCEPT !.attempts = k]

LEMMA SetPromise ==
    ASSUME NEW d \in Client, NEW b \in BOOLEAN
    PROVE  LET e == WithPromise(d, b)
           IN  /\ e \in Client /\ SameMode(d, e) /\ SameLink(d, e)
               /\ SameQueues(d, e) /\ SameCalls(d, e) /\ e.registered = d.registered
BY DEF Client, SameMode, SameLink, SameQueues, SameCalls, WithPromise

LEMMA SetAttempts ==
    ASSUME NEW d \in Client, NEW k \in Nat
    PROVE  LET e == WithAttempts(d, k)
           IN  /\ e \in Client /\ SameMode(d, e) /\ SameLink(d, e)
               /\ SameQueues(d, e) /\ SameCalls(d, e)
BY DEF Client, SameMode, SameLink, SameQueues, SameCalls, WithAttempts

WithRetry(d) ==
    [d EXCEPT !.attempts = @ + 1, !.status = "disconnected",
              !.timers = @ \cup {"reconnect"}, !.flags = @ \cup {"reconnecting"}]

LEMMA SetRetry ==
    ASSUME NEW d \in Client
    PROVE  LET e == WithRetry(d)
           IN  /\ e \in Client /\ SameLink(d, e) /\ SameQueues(d, e) /\ SameCalls(d, e)
               /\ e.opts = d.opts /\ e.status = "disconnected"
               /\ e.timers = d.timers \cup {"reconnect"}
               /\ e.flags = d.flags \cup {"reconnecting"}
<1>1. PICK k, t, g : /\ k = d.attempts + 1 /\ t = d.timers \cup {"reconnect"}
                     /\ g = d.flags \cup {"reconnecting"}
  OBVIOUS
<1>2. k \in Nat /\ t \in SUBSET Timers /\ g \in SUBSET Flags
  BY <1>1, Fields DEF Timers, Flags
<1>3. PICK e : e = [d EXCEPT !.attempts = k, !.status = "disconnected",
                             !.timers = t, !.flags = g]
  OBVIOUS
<1>4. /\ e \in Client /\ SameLink(d, e) /\ SameQueues(d, e) /\ SameCalls(d, e)
      /\ e.opts = d.opts /\ e.status = "disconnected" /\ e.timers = t /\ e.flags = g
  BY <1>2, <1>3 DEF Client, SameLink, SameQueues, SameCalls
<1>5. WithRetry(d) = e
  BY <1>1, <1>3 DEF WithRetry
<1> QED BY <1>1, <1>4, <1>5

\* The socket s of the client is gone: it gave up, or it will try again.
Closed(d, e, s) ==
    /\ e \in Client /\ e.opts = d.opts /\ Rejects(d, e)
    /\ e.net = [d.net EXCEPT ![s] = NoSocket] /\ e.socket = Detached /\ e.wbuf = <<>>
    /\ \/ /\ e.status = "failed" /\ e.timers = d.timers
          /\ e.flags = d.flags \/ e.flags = d.flags \cup {"manual"}
       \/ /\ d.opts.reconnect /\ ~Has(d, "manual")
          /\ e.status = "disconnected" /\ e.timers = d.timers \cup {"reconnect"}
          /\ e.flags = d.flags \cup {"reconnecting"}

LEMMA OnCloseIs ==
    ASSUME NEW d \in Client, NEW s \in SocketIds
    PROVE  Closed(d, OnClose(d, s), s)
<1>1. PICK n : n = [d.net EXCEPT ![s] = NoSocket]
  OBVIOUS
<1>2. n \in [SocketIds -> Sockets]
  <2>1. NoSocket \in Sockets
    <3>1. <<>> \in Seq(Messages)
      OBVIOUS
    <3> QED BY <3>1 DEF NoSocket, Sockets
  <2> QED BY <1>1, <2>1, Fields
<1>3. PICK e : e = WithClosed(d, n)
  OBVIOUS
<1>4. /\ e \in Client /\ SameMode(d, e) /\ SameQueues(d, e) /\ SameCalls(d, e)
      /\ e.net = n /\ e.socket = Detached /\ e.wbuf = <<>>
  BY <1>2, <1>3, SetClosed
<1>5. PICK k : k = e.attempts + 1
  OBVIOUS
<1>6. k \in Nat
  BY <1>4, <1>5, Fields
<1>7. ASSUME NEW f \in Client, SameMode(e, f), SameLink(e, f), SameQueues(e, f), SameCalls(e, f)
      PROVE  Closed(d, OnValkeyClose(FailDetached(f)), s)
  <2>1. PICK g : g = FailDetached(f)
    OBVIOUS
  <2>2. /\ g \in Client /\ SameLink(f, g) /\ Rejects(f, g)
        /\ g.opts = f.opts /\ g.timers = f.timers /\ g.status = "failed"
        /\ g.flags = f.flags \/ g.flags = f.flags \cup {"manual"}
    BY <1>7, <2>1, FailDetachedIs
  <2>3. PICK h : h = WithPromise(g, FALSE)
    OBVIOUS
  <2>4. OnValkeyClose(g) = h
    BY <2>3 DEF OnValkeyClose, WithPromise
  <2>5. /\ h \in Client /\ SameMode(g, h) /\ SameLink(g, h)
        /\ SameQueues(g, h) /\ SameCalls(g, h)
    BY <2>2, <2>3, SetPromise
  <2>6. /\ h.opts = d.opts /\ h.timers = d.timers /\ h.status = "failed"
        /\ h.flags = d.flags \/ h.flags = d.flags \cup {"manual"}
        /\ h.net = n /\ h.socket = Detached /\ h.wbuf = <<>>
    BY <1>4, <1>7, <2>2, <2>5 DEF SameMode, SameLink
  <2>7. Rejects(d, h)
    <3>1. f.kind = d.kind /\ f.outcome = d.outcome /\ f.inflight = d.inflight /\ f.queue = d.queue
      BY <1>4, <1>7 DEF SameQueues, SameCalls
    <3>2. h.kind = g.kind /\ h.outcome = g.outcome /\ h.inflight = g.inflight /\ h.queue = g.queue
      BY <2>5 DEF SameQueues, SameCalls
    <3> QED BY <2>2, <3>1, <3>2 DEF Rejects, SameQueues
  <2> QED BY <1>1, <2>1, <2>4, <2>5, <2>6, <2>7 DEF Closed
<1>8. Closed(d, OnValkeyClose(FailDetached(e)), s)
  BY <1>4, <1>7 DEF SameMode, SameLink, SameQueues, SameCalls
<1>9. Closed(d, OnValkeyClose(FailDetached(WithAttempts(e, k))), s)
  <2>1. PICK f : f = WithAttempts(e, k)
    OBVIOUS
  <2>2. /\ f \in Client /\ SameMode(e, f) /\ SameLink(e, f)
        /\ SameQueues(e, f) /\ SameCalls(e, f)
    BY <1>4, <1>6, <2>1, SetAttempts
  <2> QED BY <1>7, <2>1, <2>2
<1>10. ~Has(d, "manual") /\ d.opts.reconnect => Closed(d, WithRetry(e), s)
  <2>1. PICK f : f = WithRetry(e)
    OBVIOUS
  <2>2. /\ f \in Client /\ SameLink(e, f) /\ SameQueues(e, f) /\ SameCalls(e, f)
        /\ f.opts = e.opts /\ f.status = "disconnected"
        /\ f.timers = e.timers \cup {"reconnect"}
        /\ f.flags = e.flags \cup {"reconnecting"}
    BY <1>4, <2>1, SetRetry
  <2>3. Rejects(d, f)
    BY <1>4, <2>2 DEF Rejects, SameQueues, SameCalls
  <2> QED BY <1>1, <1>4, <2>1, <2>2, <2>3 DEF Closed, SameMode, SameLink
<1>11. Has(e, "manual") <=> Has(d, "manual")
  BY <1>4 DEF SameMode, Has
<1>12. e.opts.reconnect <=> d.opts.reconnect
  BY <1>4 DEF SameMode
<1>13. OnClose(d, s) = IF Has(e, "manual") \/ ~e.opts.reconnect THEN OnValkeyClose(FailDetached(e))
                       ELSE IF k > MaxRetries
                       THEN OnValkeyClose(FailDetached(WithAttempts(e, k)))
                       ELSE WithRetry(e)
  <2>1. e = [d EXCEPT !.net[s] = NoSocket, !.socket = Detached, !.registered = FALSE, !.wbuf = <<>>]
    BY <1>1, <1>3 DEF WithClosed
  <2>2. WithAttempts(e, k) = [e EXCEPT !.attempts = @ + 1] /\ [e EXCEPT !.attempts = @ + 1].attempts = k
    BY <1>4, <1>5 DEF WithAttempts, Client
  <2>3. Raise([[e EXCEPT !.attempts = @ + 1] EXCEPT !.status = "disconnected",
                 !.timers = @ \cup {"reconnect"}], "reconnecting") = WithRetry(e)
    BY <1>4 DEF Raise, WithRetry, Client
  <2> QED BY <2>1, <2>2, <2>3 DEF OnClose
<1> QED BY <1>8, <1>9, <1>10, <1>11, <1>12, <1>13

\* The current socket is closed without a callback.
Dropped(d, e) ==
    /\ e \in Client /\ SameMode(d, e) /\ SameQueues(d, e) /\ SameCalls(d, e)
    /\ d.socket # Detached /\ d.net[d.socket].state = "opening"
    /\ e.net = [d.net EXCEPT ![d.socket] = NoSocket] /\ e.socket = Detached

LEMMA CloseSocketIs ==
    ASSUME NEW d \in Client
    PROVE  LET e == CloseSocket(d)
           IN  \/ d.socket = Detached /\ e = d
               \/ Dropped(d, e)
               \/ d.socket # Detached /\ Closed(d, e, d.socket)
<1>1. CASE d.socket = Detached
  BY <1>1 DEF CloseSocket
<1>2. CASE d.socket # Detached /\ d.net[d.socket].state = "opening" /\ ~d.opts.host
  <2>1. PICK n, k : k = d.socket /\ n = [d.net EXCEPT ![k] = NoSocket]
    OBVIOUS
  <2>2. k \in SocketIds
    BY <1>2, <2>1, Fields
  <2>3. n \in [SocketIds -> Sockets]
    <3>1. NoSocket \in Sockets
      <4>1. <<>> \in Seq(Messages)
        OBVIOUS
      <4> QED BY <4>1 DEF NoSocket, Sockets
    <3> QED BY <2>1, <3>1, Fields
  <2>4. PICK e : e = [d EXCEPT !.net = n, !.socket = Detached]
    OBVIOUS
  <2>5. /\ e \in Client /\ SameMode(d, e) /\ SameQueues(d, e) /\ SameCalls(d, e)
        /\ e.net = n /\ e.socket = Detached
    BY <2>3, <2>4 DEF Client, SameMode, SameQueues, SameCalls
  <2>6. CloseSocket(d) = e
    BY <1>2, <2>1, <2>4 DEF CloseSocket
  <2> QED BY <1>2, <2>1, <2>5, <2>6 DEF Dropped
<1>3. CASE d.socket # Detached /\ ~(d.net[d.socket].state = "opening" /\ ~d.opts.host)
  <2>1. d.socket \in SocketIds
    BY <1>3, Fields
  <2>2. CloseSocket(d) = OnClose(d, d.socket)
    BY <1>3 DEF CloseSocket
  <2> QED BY <1>3, <2>1, <2>2, OnCloseIs
<1> QED BY <1>1, <1>2, <1>3

NewSocket == [state |-> "opening", wire |-> <<>>]

\* The client has a new socket, which is not open yet.
Connects(d, e) ==
    /\ e \in Client /\ e.opts = d.opts /\ e.status = d.status
    /\ SameQueues(d, e) /\ SameCalls(d, e) /\ e.wbuf = d.wbuf /\ e.registered = d.registered
    /\ e.flags = d.flags \ {"unopened"} /\ e.timers = d.timers \cup {"connection"}
    /\ e.socket \in SocketIds /\ d.net[e.socket].state = "none"
    /\ e.net = [d.net EXCEPT ![e.socket] = NewSocket]

LEMMA ConnectingIs ==
    ASSUME NEW d \in Client, FreeSockets(d) # {}
    PROVE  Connects(d, Connecting(d))
<1>1. PICK s : s = CHOOSE t \in FreeSockets(d) : TRUE
  OBVIOUS
<1>2. s \in SocketIds /\ d.net[s].state = "none"
  BY <1>1 DEF FreeSockets
<1>3. PICK g, n, t : /\ g = d.flags \ {"unopened"} /\ n = [d.net EXCEPT ![s] = NewSocket]
                     /\ t = d.timers \cup {"connection"}
  OBVIOUS
<1>4. g \in SUBSET Flags /\ t \in SUBSET Timers
  BY <1>3, Fields DEF Flags, Timers
<1>5. n \in [SocketIds -> Sockets]
  <2>1. NewSocket \in Sockets
    <3>1. <<>> \in Seq(Messages)
      OBVIOUS
    <3> QED BY <3>1 DEF NewSocket, Sockets
  <2> QED BY <1>3, <2>1, Fields
<1>6. PICK e : e = [d EXCEPT !.flags = g, !.socket = s, !.net = n, !.timers = t]
  OBVIOUS
<1>7. /\ e \in Client /\ e.opts = d.opts /\ e.status = d.status
      /\ SameQueues(d, e) /\ SameCalls(d, e) /\ e.wbuf = d.wbuf /\ e.registered = d.registered
      /\ e.flags = g /\ e.socket = s /\ e.net = n /\ e.timers = t
  BY <1>2, <1>4, <1>5, <1>6 DEF Client, SameQueues, SameCalls
<1>8. Connecting(d) = e
  BY <1>1, <1>3, <1>6 DEF Connecting, NewSocket
<1> QED BY <1>2, <1>3, <1>7, <1>8 DEF Connects

\* A reconnection starts, with or without a socket.
Restarts(d, e) ==
    /\ e \in Client /\ e.opts = d.opts /\ e.status = "connecting"
    /\ SameLink(d, e) /\ SameQueues(d, e) /\ SameCalls(d, e)
    /\ e.flags = d.flags \ {"unopened"} /\ e.timers = d.timers

LEMMA ReconnectsIs ==
    ASSUME NEW d \in Client, FreeSockets(d) # {}, NEW e \in Reconnects(d), MaxRetries \in Nat
    PROVE  \/ e = d
           \/ Restarts(d, e)
           \/ \E f : Restarts(d, f) /\ Connects(f, e)
<1>1. CASE ~Has(d, "reconnecting")
  BY <1>1 DEF Reconnects
<1>2. CASE Has(d, "reconnecting")
  <2>1. PICK g, k : /\ g = d.flags \ {"unopened"}
                    /\ k = IF d.tries > MaxRetries THEN d.tries ELSE d.tries + 1
    OBVIOUS
  <2>2. g \in SUBSET Flags
    BY <2>1, Fields
  <2>3. k \in 0..MaxRetries + 1
    <3>1. d.tries \in 0..MaxRetries + 1
      BY DEF Client
    <3> QED BY <2>1, <3>1
  <2>4. PICK f : f = [d EXCEPT !.status = "connecting", !.attempts = 0, !.tries = k, !.flags = g]
    OBVIOUS
  <2>5. /\ f \in Client /\ f.opts = d.opts /\ f.status = "connecting"
        /\ SameLink(d, f) /\ SameQueues(d, f) /\ SameCalls(d, f)
        /\ f.flags = g /\ f.timers = d.timers
    BY <2>2, <2>3, <2>4 DEF Client, SameLink, SameQueues, SameCalls
  <2>6. Restarts(d, f)
    BY <2>1, <2>5 DEF Restarts
  <2>7. FreeSockets(f) # {}
    BY <2>5 DEF FreeSockets, SameLink
  <2>8. f = [d EXCEPT !.status = "connecting", !.attempts = 0,
                      !.tries = IF @ > MaxRetries THEN @ ELSE @ + 1,
                      !.flags = @ \ {"unopened"}]
    BY <2>1, <2>4 DEF Client
  <2>9. e = f \/ e = Connecting(f)
    BY <1>2, <2>8 DEF Reconnects
  <2> QED BY <2>5, <2>6, <2>7, <2>9, ConnectingIs
<1> QED BY <1>1, <1>2

WithBuffer(d, w) == [d EXCEPT !.wbuf = w]

LEMMA SetBuffer ==
    ASSUME NEW d \in Client, NEW w \in Seq(Messages)
    PROVE  LET e == WithBuffer(d, w)
           IN  /\ e \in Client /\ SameMode(d, e) /\ SameQueues(d, e) /\ SameCalls(d, e)
               /\ e.socket = d.socket /\ e.net = d.net /\ e.wbuf = w
BY DEF Client, SameMode, SameQueues, SameCalls, WithBuffer

Greeting == IF Database THEN <<Hello, Select>> ELSE <<Hello>>

LEMMA GreetingIs == Greeting \in Seq(Messages)
<1>1. Hello \in Messages /\ Select \in Messages
  BY DEF Messages
<1> QED BY <1>1 DEF Greeting

\* HELLO, and SELECT, are what the client sends first.
LEMMA AuthenticatesIs ==
    ASSUME NEW d \in Client, NEW e \in Authenticates(d)
    PROVE  /\ e \in Client /\ SameMode(d, e) /\ SameQueues(d, e) /\ SameCalls(d, e)
           /\ e.socket = d.socket /\ SameStates(d, e)
           /\ d.socket # Detached => Msgs(e) = d.net[d.socket].wire \o Greeting
<1>1. PICK f : f = WithBuffer(d, Greeting)
  OBVIOUS
<1>2. /\ f \in Client /\ SameMode(d, f) /\ SameQueues(d, f) /\ SameCalls(d, f)
      /\ f.socket = d.socket /\ f.net = d.net /\ f.wbuf = Greeting
  BY <1>1, GreetingIs, SetBuffer
<1>3. e \in Flushes(f)
  BY <1>1 DEF Authenticates, WithBuffer, Greeting
<1>4. /\ e \in Client /\ SameMode(f, e) /\ SameQueues(f, e) /\ SameCalls(f, e)
      /\ e.socket = f.socket /\ SameStates(f, e)
      /\ f.socket # Detached => Msgs(e) = Msgs(f)
  BY <1>2, <1>3, FlushesAre
<1>5. Msgs(f) = d.net[d.socket].wire \o Greeting
  BY <1>2 DEF Msgs
<1>6. SameMode(d, e) /\ SameQueues(d, e) /\ SameCalls(d, e) /\ SameStates(d, e)
  BY <1>2, <1>4 DEF SameMode, SameQueues, SameCalls, SameStates
<1> QED BY <1>2, <1>4, <1>5, <1>6

-----------------------------------------------------------------------------
(* Replies and calls.                                                      *)

Accepted(d, f) ==
    /\ f \in Client /\ f.opts = d.opts /\ f.status = "connected"
    /\ SameLink(d, f) /\ SameQueues(d, f) /\ SameCalls(d, f)
    /\ f.flags = d.flags \cup {"authenticated"} /\ f.timers = d.timers

LEMMA HelloAcceptedIs ==
    ASSUME NEW d \in Client, NEW e \in HelloAccepted(d), MaxRetries \in Nat
    PROVE  \E f : Accepted(d, f) /\ e \in SendNextCommand(f)
<1>1. PICK g : g = d.flags \cup {"authenticated"}
  OBVIOUS
<1>2. g \in SUBSET Flags /\ 0 \in 0..MaxRetries + 1
  BY <1>1, Fields DEF Flags
<1>3. PICK f : f = [d EXCEPT !.status = "connected", !.promise = FALSE, !.tries = 0, !.flags = g]
  OBVIOUS
<1>4. /\ f \in Client /\ f.opts = d.opts /\ f.status = "connected"
      /\ SameLink(d, f) /\ SameQueues(d, f) /\ SameCalls(d, f)
      /\ f.flags = g /\ f.timers = d.timers
  BY <1>2, <1>3 DEF Client, SameLink, SameQueues, SameCalls
<1>5. f = Raise([d EXCEPT !.status = "connected", !.promise = FALSE, !.tries = 0], "authenticated")
  BY <1>1, <1>3 DEF Raise, Client
<1> QED BY <1>1, <1>4, <1>5 DEF HelloAccepted, Accepted

LEMMA SettleIs ==
    ASSUME NEW d \in Client, d.inflight.items # <<>>, NEW m
    PROVE  LET e == Settle(d, m)
               x == Head(d.inflight.items)
           IN  /\ e \in Client /\ SameMode(d, e) /\ SameLink(d, e)
               /\ e.queue = d.queue /\ e.kind = d.kind /\ x \in Cmds
               /\ e.inflight.items = Tail(d.inflight.items)
               /\ e.outcome = [d.outcome EXCEPT ![x] = IF x = m THEN "own" ELSE "wrong"]
<1>1. PICK f, x, o : /\ f = Discard(d.inflight, 1) /\ x = Head(d.inflight.items)
                     /\ o = [d.outcome EXCEPT ![x] = IF x = m THEN "own" ELSE "wrong"]
  OBVIOUS
<1>2. d.inflight \in Fifos(Cmds) /\ d.inflight.items \in Seq(Cmds)
  BY Fields
<1>3. x \in Cmds
  BY <1>1, <1>2, SeqFacts
<1>4. f \in Fifos(Cmds) /\ f.items = Tail(d.inflight.items)
  BY <1>2, <1>1, Discards
<1>5. o \in [Cmds -> Outcomes]
  BY <1>1, Fields DEF Outcomes
<1>6. PICK e : e = [d EXCEPT !.inflight = f, !.outcome = o]
  OBVIOUS
<1>7. /\ e \in Client /\ SameMode(d, e) /\ SameLink(d, e)
      /\ e.queue = d.queue /\ e.kind = d.kind /\ e.inflight = f /\ e.outcome = o
  BY <1>4, <1>5, <1>6 DEF Client, SameMode, SameLink
<1>8. Settle(d, m) = e
  BY <1>1, <1>6 DEF Settle
<1> QED BY <1>1, <1>3, <1>4, <1>7, <1>8

\* One message left the wire of the socket s.
Answered(d, e, s) ==
    /\ e \in Client /\ SameMode(d, e) /\ SameQueues(d, e) /\ SameCalls(d, e)
    /\ e.registered = d.registered /\ e.wbuf = d.wbuf /\ e.socket = s
    /\ e.net[s].state = d.net[s].state /\ e.net[s].wire = Tail(d.net[s].wire)
    /\ \A t \in SocketIds \ {s} : e.net[t] = d.net[t]

WithSocket(d, s, n) == [d EXCEPT !.socket = s, !.net = n]

LEMMA SetSocket ==
    ASSUME NEW d \in Client, NEW s \in SocketIds, NEW n \in [SocketIds -> Sockets]
    PROVE  LET e == WithSocket(d, s, n)
           IN  /\ e \in Client /\ SameMode(d, e) /\ SameQueues(d, e) /\ SameCalls(d, e)
               /\ e.registered = d.registered /\ e.wbuf = d.wbuf /\ e.socket = s /\ e.net = n
BY DEF Client, SameMode, SameQueues, SameCalls, WithSocket

LEMMA ReplyingIs ==
    ASSUME c \in Client, NEW s \in SocketIds, c.net[s].wire # <<>>
    PROVE  Answered(c, Replying(s), s)
<1>1. PICK d, t : d = c /\ t = Tail(d.net[s].wire)
  OBVIOUS
<1>2. d.net \in [SocketIds -> Sockets] /\ d.net[s].wire \in Seq(Messages)
  BY <1>1, Fields, Wires
<1>3. t \in Seq(Messages)
  BY <1>1, <1>2, SeqFacts
<1>4. PICK n : n = [d.net EXCEPT ![s].wire = t]
  OBVIOUS
<1>5. /\ n \in [SocketIds -> Sockets] /\ n[s].wire = t /\ n[s].state = d.net[s].state
      /\ \A r \in SocketIds \ {s} : n[r] = d.net[r]
  BY <1>2, <1>3, <1>4 DEF Sockets
<1>6. PICK e : e = WithSocket(d, s, n)
  OBVIOUS
<1>7. /\ e \in Client /\ SameMode(d, e) /\ SameQueues(d, e) /\ SameCalls(d, e)
      /\ e.registered = d.registered /\ e.wbuf = d.wbuf /\ e.socket = s /\ e.net = n
  BY <1>1, <1>5, <1>6, SetSocket
<1>8. Replying(s) = e
  BY <1>1, <1>4, <1>6 DEF Replying, WithSocket, Client
<1> QED BY <1>1, <1>5, <1>7, <1>8 DEF Answered

Opens(d, e, s) ==
    /\ e \in Client /\ SameMode(d, e) /\ SameQueues(d, e) /\ SameCalls(d, e)
    /\ e.wbuf = d.wbuf /\ e.socket = s
    /\ e.net[s].state = "open" /\ e.net[s].wire = d.net[s].wire
    /\ \A t \in SocketIds \ {s} : e.net[t] = d.net[t]

LEMMA OpensIs ==
    ASSUME NEW d \in Client, NEW s \in SocketIds
    PROVE  Opens(d, [d EXCEPT !.socket = s, !.net[s].state = "open"], s)
<1>1. d.net \in [SocketIds -> Sockets]
  BY Fields
<1>2. PICK n : n = [d.net EXCEPT ![s].state = "open"]
  OBVIOUS
<1>3. /\ n \in [SocketIds -> Sockets] /\ n[s].wire = d.net[s].wire /\ n[s].state = "open"
      /\ \A r \in SocketIds \ {s} : n[r] = d.net[r]
  BY <1>1, <1>2 DEF Sockets
<1>4. PICK e : e = WithSocket(d, s, n)
  OBVIOUS
<1>5. /\ e \in Client /\ SameMode(d, e) /\ SameQueues(d, e) /\ SameCalls(d, e)
      /\ e.registered = d.registered /\ e.wbuf = d.wbuf /\ e.socket = s /\ e.net = n
  BY <1>3, <1>4, SetSocket
<1>6. [d EXCEPT !.socket = s, !.net[s].state = "open"] = e
  BY <1>2, <1>4 DEF WithSocket, Client
<1> QED BY <1>3, <1>5, <1>6 DEF Opens

\* A call: the command x is of some kind and has a promise.
Issues(d, e, x, k) ==
    /\ e \in Client /\ SameMode(d, e) /\ SameLink(d, e) /\ SameQueues(d, e)
    /\ e.registered = d.registered
    /\ e.kind = [d.kind EXCEPT ![x] = k] /\ e.outcome = [d.outcome EXCEPT ![x] = "pending"]

LEMMA IssuesIs ==
    ASSUME NEW d \in Client, NEW x \in Cmds, NEW k \in AllKinds
    PROVE  Issues(d, [d EXCEPT !.kind[x] = k, !.outcome[x] = "pending"], x, k)
<1>1. PICK p, o : p = [d.kind EXCEPT ![x] = k] /\ o = [d.outcome EXCEPT ![x] = "pending"]
  OBVIOUS
<1>2. p \in [Cmds -> AllKinds] /\ o \in [Cmds -> Outcomes]
  BY <1>1, Fields DEF Outcomes
<1>3. PICK e : e = [d EXCEPT !.kind = p, !.outcome = o]
  OBVIOUS
<1>4. /\ e \in Client /\ SameMode(d, e) /\ SameLink(d, e) /\ SameQueues(d, e)
      /\ e.registered = d.registered /\ e.kind = p /\ e.outcome = o
  BY <1>2, <1>3 DEF Client, SameMode, SameLink, SameQueues
<1>5. [d EXCEPT !.kind[x] = k, !.outcome[x] = "pending"] = e
  BY <1>1, <1>3
<1> QED BY <1>1, <1>4, <1>5 DEF Issues

LEMMA DispatchIs ==
    ASSUME NEW d \in Client, NEW x \in Cmds, NEW e \in Dispatch(d, x)
    PROVE  \/ /\ Adds(d, e, x)
              /\ d.status = "connected" /\ e.queue.items # <<>> => Remembered(d, e, x)
           \/ /\ Refuses(d, e, x, "unreachable") /\ Authenticated(d)
              /\ d.status = "disconnected"
           \/ Refuses(d, e, x, "rejected")
<1>1. CASE \/ d.status \in {"connecting", "connected"}
           \/ d.status = "disconnected" /\ d.opts.offline
  <2>1. e \in Enqueue(d, x)
    BY <1>1 DEF Dispatch
  <2> QED BY <1>1, <2>1, EnqueueIs
<1>2. CASE ~(\/ d.status \in {"connecting", "connected"}
             \/ d.status = "disconnected" /\ d.opts.offline)
  <2>1. e = WithOutcome(d, x, "rejected")
    BY <1>2 DEF Dispatch, WithOutcome
  <2> QED BY <2>1, SetOutcome DEF Outcomes
<1> QED BY <1>1, <1>2

-----------------------------------------------------------------------------
(* Types and the order of the commands, for every client.                  *)

\* The commands that wait increase, and they and no later one were issued.
Ordered(d) ==
    /\ \A i, j \in 1..Len(Waiting(d)) : i < j => Waiting(d)[i] < Waiting(d)[j]
    /\ \A i \in 1..Len(Waiting(d)) : d.outcome[Waiting(d)[i]] # "unsent"
    /\ \A x, y \in Cmds : x <= y /\ d.outcome[x] = "unsent" => d.outcome[y] = "unsent"

\* A client that never connected has no socket.
Unopened(d) == Has(d, "unopened") => \A s \in SocketIds : d.net[s].state = "none"

Base(d) == d \in Client /\ Ordered(d) /\ Unopened(d)

\* The property SerialAlone of one step.
Alone(d, e) ==
    \A x \in Items(e.inflight) \ Items(d.inflight) : e.kind[x] # "plain" => d.inflight.items = <<>>

LEMMA WaitingType ==
    ASSUME NEW d \in Client
    PROVE  /\ Waiting(d) \in Seq(Cmds) /\ Len(Waiting(d)) \in Nat
           /\ \A i \in 1..Len(Waiting(d)) : Waiting(d)[i] \in Cmds
<1>1. Waiting(d) \in Seq(Cmds)
  BY Fields, Concat DEF Waiting
<1> QED BY <1>1

LEMMA OrderedSame ==
    ASSUME NEW d, NEW e, Ordered(d), Waiting(e) = Waiting(d), e.outcome = d.outcome
    PROVE  Ordered(e)
BY DEF Ordered

LEMMA OrderedQueues ==
    ASSUME NEW d, NEW e, Ordered(d), SameQueues(d, e), SameCalls(d, e)
    PROVE  Ordered(e)
<1>1. Waiting(e) = Waiting(d) /\ e.outcome = d.outcome
  BY DEF SameQueues, SameCalls, Waiting
<1> QED BY <1>1, OrderedSame

LEMMA OrderedTail ==
    ASSUME NEW d \in Client, NEW e, Ordered(d), Waiting(d) # <<>>, Waiting(e) = Tail(Waiting(d)),
           NEW x \in Cmds, d.outcome[x] # "unsent", NEW o, o # "unsent",
           e.outcome = [d.outcome EXCEPT ![x] = o]
    PROVE  Ordered(e)
<1>1. PICK w : w = Waiting(d)
  OBVIOUS
<1>2. w \in Seq(Cmds) /\ w # <<>> /\ d.outcome \in [Cmds -> Outcomes]
  BY <1>1, WaitingType, Fields
<1>3. PICK v : v = Tail(w)
  OBVIOUS
<1>4. /\ Len(w) \in Nat /\ Len(v) = Len(w) - 1 /\ v \in Seq(Cmds)
      /\ \A i \in 1..Len(w) - 1 : v[i] = w[i + 1]
  BY <1>2, <1>3, SeqFacts
<1>5. \A y \in Cmds : e.outcome[y] = "unsent" <=> d.outcome[y] = "unsent"
  BY <1>2
<1>6. /\ \A i, j \in 1..Len(w) : i < j => w[i] < w[j]
      /\ \A i \in 1..Len(w) : w[i] \in Cmds /\ d.outcome[w[i]] # "unsent"
      /\ \A p, q \in Cmds : p <= q /\ d.outcome[p] = "unsent" => d.outcome[q] = "unsent"
  BY <1>1, WaitingType DEF Ordered
<1>7. /\ \A i, j \in 1..Len(v) : i < j => v[i] < v[j]
      /\ \A i \in 1..Len(v) : v[i] \in Cmds /\ d.outcome[v[i]] # "unsent"
  <2>1. ASSUME NEW i \in 1..Len(v)
        PROVE  i + 1 \in 1..Len(w) /\ v[i] = w[i + 1]
    BY <1>4
  <2>2. \A i \in 1..Len(v) : v[i] \in Cmds /\ d.outcome[v[i]] # "unsent"
    BY <1>6, <2>1
  <2>3. ASSUME NEW i \in 1..Len(v), NEW j \in 1..Len(v), i < j
        PROVE  v[i] < v[j]
    <3>1. i + 1 < j + 1
      BY <1>4, <2>3
    <3>2. w[i + 1] < w[j + 1]
      BY <1>6, <2>1, <3>1
    <3> QED BY <2>1, <3>2
  <2> QED BY <2>2, <2>3
<1>8. Waiting(e) = v
  BY <1>1, <1>3
<1> QED BY <1>5, <1>6, <1>7, <1>8 DEF Ordered

\* All that waits is before x.
Newest(d, x) ==
    /\ d.outcome[x] # "unsent"
    /\ \A i \in 1..Len(Waiting(d)) : Waiting(d)[i] < x

LEMMA OrderedAdd ==
    ASSUME NEW d \in Client, NEW e, NEW x \in Cmds, Ordered(d), Newest(d, x),
           Waiting(e) = Waiting(d) \o <<x>>, e.outcome = d.outcome
    PROVE  Ordered(e)
<1>1. PICK w, v : w = Waiting(d) /\ v = w \o <<x>>
  OBVIOUS
<1>2. w \in Seq(Cmds) /\ Len(w) \in Nat /\ \A i \in 1..Len(w) : w[i] \in Cmds
  BY <1>1, WaitingType
<1>3. v = Append(w, x)
  BY <1>1, <1>2, AppendIsConcat
<1>4. /\ v \in Seq(Cmds) /\ Len(v) = Len(w) + 1 /\ v[Len(w) + 1] = x
      /\ \A i \in 1..Len(w) : v[i] = w[i]
  BY <1>2, <1>3, Appended
<1>5. /\ \A i, j \in 1..Len(w) : i < j => w[i] < w[j]
      /\ \A i \in 1..Len(w) : d.outcome[w[i]] # "unsent" /\ w[i] < x
      /\ \A p, q \in Cmds : p <= q /\ d.outcome[p] = "unsent" => d.outcome[q] = "unsent"
  BY <1>1 DEF Ordered, Newest
<1>6. \A i \in 1..Len(v) : (i \in 1..Len(w) /\ v[i] = w[i]) \/ (i = Len(w) + 1 /\ v[i] = x)
  <2> SUFFICES ASSUME NEW i \in 1..Len(v)
               PROVE  (i \in 1..Len(w) /\ v[i] = w[i]) \/ (i = Len(w) + 1 /\ v[i] = x)
    OBVIOUS
  <2>1. PICK n \in Nat : n = Len(w)
    BY <1>2
  <2>2. i \in 1..n + 1
    BY <1>4, <2>1
  <2>3. i \in 1..n \/ i = n + 1
    BY <2>2
  <2> QED BY <1>4, <2>1, <2>3
<1>7. \A i, j \in 1..Len(v) : i < j => v[i] < v[j]
  BY SMTT(60), <1>2, <1>4, <1>5, <1>6
<1>8. \A i \in 1..Len(v) : d.outcome[v[i]] # "unsent"
  BY <1>5, <1>6 DEF Newest
<1>9. Waiting(e) = v
  BY <1>1
<1> QED BY <1>5, <1>7, <1>8, <1>9 DEF Ordered

LEMMA ItemsWait ==
    ASSUME NEW d \in Client, NEW x \in Items(d.inflight) \cup Items(d.queue)
    PROVE  \E i \in 1..Len(Waiting(d)) : Waiting(d)[i] = x
<1>1. PICK f, q, w : f = d.inflight.items /\ q = d.queue.items /\ w = f \o q
  OBVIOUS
<1>2. f \in Seq(Cmds) /\ q \in Seq(Cmds) /\ Len(f) \in Nat /\ Len(q) \in Nat
  BY <1>1, Fields
<1>3. /\ Len(w) = Len(f) + Len(q)
      /\ \A i \in 1..Len(f) : w[i] = f[i]
      /\ \A i \in 1..Len(q) : w[Len(f) + i] = q[i]
  <2>1. f \in Seq(Cmds) /\ q \in Seq(Cmds) /\ w = f \o q
    BY <1>1, <1>2
  <2> QED BY <2>1, Concat
<1>4. Waiting(d) = w
  BY <1>1 DEF Waiting
<1>5. CASE \E i \in 1..Len(f) : f[i] = x
  BY <1>2, <1>3, <1>4, <1>5
<1>6. CASE \E i \in 1..Len(q) : q[i] = x
  <2>1. PICK i \in 1..Len(q) : q[i] = x
    BY <1>6
  <2>2. Len(f) + i \in 1..Len(w) /\ w[Len(f) + i] = x
    BY <1>2, <1>3, <2>1
  <2> QED BY <1>4, <2>2
<1> QED BY <1>1, <1>2, <1>5, <1>6 DEF Items

LEMMA OrderedRejects ==
    ASSUME NEW d \in Client, NEW e, Ordered(d), Rejects(d, e)
    PROVE  Ordered(e)
<1>1. CASE SameQueues(d, e) /\ e.outcome = d.outcome
  BY <1>1, OrderedSame DEF SameQueues, Waiting
<1>2. CASE /\ e.inflight = EmptyFifo /\ e.queue = EmptyFifo
           /\ \A x \in Cmds :
                \/ e.outcome[x] = d.outcome[x]
                \/ e.outcome[x] = "rejected" /\ x \in Items(d.inflight) \cup Items(d.queue)
  <2>1. Waiting(e) = <<>> /\ Len(Waiting(e)) = 0
    BY <1>2 DEF Waiting, EmptyFifo
  <2>2. \A x \in Items(d.inflight) \cup Items(d.queue) : d.outcome[x] # "unsent"
    BY ItemsWait DEF Ordered
  <2>3. \A x \in Cmds : e.outcome[x] = "unsent" <=> d.outcome[x] = "unsent"
    BY <1>2, <2>2
  <2> QED BY <2>1, <2>3 DEF Ordered
<1> QED BY <1>1, <1>2 DEF Rejects

LEMMA BaseAdvances ==
    ASSUME NEW d, NEW e, Base(d), Advances(d, e)
    PROVE  Base(e)
<1>1. e \in Client /\ SameMode(d, e) /\ SameCalls(d, e) /\ SameStates(d, e) /\ Waiting(e) = Waiting(d)
  BY DEF Advances, Moves
<1>2. Ordered(e)
  BY <1>1, OrderedSame DEF Base, SameCalls
<1> QED BY <1>1, <1>2 DEF Base, Unopened, Has, SameMode, SameStates

LEMMA BaseClosed ==
    ASSUME NEW d, NEW s \in SocketIds, NEW e, Base(d), Closed(d, e, s)
    PROVE  Base(e)
<1>1. e \in Client /\ Rejects(d, e) /\ e.net = [d.net EXCEPT ![s] = NoSocket]
      /\ (Has(e, "unopened") <=> Has(d, "unopened"))
  BY DEF Closed, Has
<1>2. Ordered(e)
  BY <1>1, OrderedRejects DEF Base
<1>3. d.net \in [SocketIds -> Sockets]
  BY Fields DEF Base
<1> QED BY <1>1, <1>2, <1>3 DEF Base, Unopened, NoSocket

LEMMA BaseConnects ==
    ASSUME NEW d, NEW e, Base(d), Connects(d, e)
    PROVE  Base(e)
<1>1. Ordered(e)
  BY OrderedQueues DEF Base, Connects
<1> QED BY <1>1 DEF Base, Unopened, Has, Connects

LEMMA BaseRestarts ==
    ASSUME NEW d, NEW e, Base(d), Restarts(d, e)
    PROVE  Base(e)
<1>1. Ordered(e)
  BY OrderedQueues DEF Base, Restarts
<1> QED BY <1>1 DEF Base, Unopened, Has, Restarts

\* A change of the mode that leaves the client unopened or not, and its sockets.
LEMMA BaseSame ==
    ASSUME NEW d, NEW e \in Client, Base(d), SameQueues(d, e), SameCalls(d, e),
           Has(e, "unopened") => Has(d, "unopened"),
           \A s \in SocketIds : d.net[s].state = "none" => e.net[s].state = "none"
    PROVE  Base(e)
<1>1. Ordered(e)
  BY OrderedQueues DEF Base
<1> QED BY <1>1 DEF Base, Unopened

LEMMA BaseFails ==
    ASSUME NEW d, NEW e \in Client, Base(d), Rejects(d, e), SameLink(d, e),
           e.flags = d.flags \/ e.flags = d.flags \cup {"manual"}
    PROVE  Base(e)
<1>1. Ordered(e)
  BY OrderedRejects DEF Base
<1> QED BY <1>1 DEF Base, Unopened, SameLink, Has

LEMMA BaseDropped ==
    ASSUME NEW d, NEW e, Base(d), Dropped(d, e)
    PROVE  Base(e)
<1>1. d.socket \in SocketIds /\ d.net \in [SocketIds -> Sockets]
  BY Fields DEF Base, Dropped
<1>2. \A s \in SocketIds : d.net[s].state = "none" => e.net[s].state = "none"
  BY <1>1 DEF Dropped, NoSocket
<1> QED BY <1>2, BaseSame DEF Dropped, SameMode, Has

LEMMA BaseCloseSocket ==
    ASSUME NEW d, Base(d)
    PROVE  Base(CloseSocket(d))
<1>1. PICK e : e = CloseSocket(d)
  OBVIOUS
<1>2. d \in Client
  BY DEF Base
<1>3. \/ d.socket = Detached /\ e = d
      \/ Dropped(d, e)
      \/ d.socket # Detached /\ Closed(d, e, d.socket)
  <2>1. LET f == CloseSocket(d)
        IN  \/ d.socket = Detached /\ f = d
            \/ Dropped(d, f)
            \/ d.socket # Detached /\ Closed(d, f, d.socket)
    BY <1>2, CloseSocketIs
  <2> QED BY <1>1, <2>1
<1>4. d.socket # Detached => d.socket \in SocketIds
  BY <1>2, Fields
<1> QED BY <1>1, <1>3, <1>4, BaseDropped, BaseClosed

-----------------------------------------------------------------------------
(* What the actions do, in terms of the handlers.                          *)

\* Marks of a call or of a timer that leave the connection alone.
Marked(d, e) ==
    /\ e \in Client /\ e.opts = d.opts
    /\ SameLink(d, e) /\ SameQueues(d, e) /\ SameCalls(d, e)
    /\ \A flag \in {"unopened", "authenticated"} : Has(e, flag) <=> Has(d, flag)

\* x is the next command that the program sends.
NextUnsent(d, x) ==
    /\ d.outcome[x] = "unsent"
    /\ \A y \in Cmds : d.outcome[y] = "unsent" => x <= y

\* A call that finds the client unopened connects it first.
LEMMA SendDoes ==
    ASSUME c \in Client, Unopened(c), Send, ValkeyAssumption
    PROVE  \E x \in Cmds, k \in AllKinds : \E d :
              /\ k \in Kinds /\ NextUnsent(c, x) /\ Issues(c, d, x, k)
              /\ \/ ~Has(c, "unopened") /\ c' \in Dispatch(d, x)
                 \/ \E f : Has(c, "unopened") /\ Connects(d, f) /\ c' \in Dispatch(f, x)
                 \/ Refuses(d, c', x, "rejected")
<1>1. PICK x : x = CHOOSE y \in Unsent : \A z \in Unsent : y <= z
  OBVIOUS
<1>2. x \in Unsent /\ \A y \in Unsent : x <= y
  <2>1. Unsent \subseteq Nat
    <3>1. Cmds \subseteq Nat
      BY DEF ValkeyAssumption, Cmds
    <3> QED BY <3>1 DEF Unsent
  <2>3. Unsent # {}
    BY DEF Send
  <2>2. \E y \in Unsent : \A z \in Unsent : y <= z
    <3> HIDE DEF Unsent
    <3> QED BY <2>1, <2>3, LeastNumber
  <2> QED BY <1>1, <2>2
<1>3. x \in Cmds /\ NextUnsent(c, x)
  BY <1>2 DEF Unsent, NextUnsent
<1>4. PICK k \in Kinds :
        LET d == [c EXCEPT !.kind[x] = k, !.outcome[x] = "pending"]
        IN  IF ~Has(c, "unopened") THEN c' \in Dispatch(d, x)
            ELSE \E ok \in ConnectSucceeds(c) :
                    IF ok THEN c' \in Dispatch(Connecting(d), x)
                    ELSE c' = [d EXCEPT !.outcome[x] = "rejected"]
  BY <1>1 DEF Send
<1>5. k \in AllKinds
  BY DEF ValkeyAssumption
<1>6. PICK d : d = [c EXCEPT !.kind[x] = k, !.outcome[x] = "pending"]
  OBVIOUS
<1>7. Issues(c, d, x, k)
  BY <1>3, <1>5, <1>6, IssuesIs
<1>8. CASE ~Has(c, "unopened")
  <2>1. c' \in Dispatch(d, x)
    BY <1>4, <1>6, <1>8
  <2> QED BY <1>3, <1>5, <1>7, <1>8, <2>1
<1>9. CASE Has(c, "unopened") /\ c' \in Dispatch(Connecting(d), x)
  <2>1. d \in Client /\ d.net = c.net
    BY <1>7 DEF Issues, SameLink
  <2>2. 1 \in SocketIds
    BY DEF ValkeyAssumption, SocketIds
  <2>3. FreeSockets(d) # {}
    BY <1>9, <2>1, <2>2 DEF FreeSockets, Unopened
  <2>4. Connects(d, Connecting(d))
    BY <2>1, <2>3, ConnectingIs
  <2> QED BY <1>3, <1>5, <1>7, <1>9, <2>4
<1>10. CASE c' = WithOutcome(d, x, "rejected")
  <2>1. d \in Client
    BY <1>7 DEF Issues
  <2>2. Refuses(d, c', x, "rejected")
    BY <1>3, <1>10, <2>1, SetOutcome DEF Outcomes
  <2> QED BY <1>3, <1>5, <1>7, <2>2
<1> QED BY <1>4, <1>6, <1>8, <1>9, <1>10 DEF WithOutcome

WithPromised(d, b, g, k) == [d EXCEPT !.promise = b, !.flags = g, !.attempts = k]

LEMMA SetPromised ==
    ASSUME NEW d \in Client, NEW b \in BOOLEAN, NEW g \in SUBSET Flags, NEW k \in Nat
    PROVE  LET e == WithPromised(d, b, g, k)
           IN  /\ e \in Client /\ SameLink(d, e) /\ SameQueues(d, e) /\ SameCalls(d, e)
               /\ e.opts = d.opts /\ e.status = d.status /\ e.timers = d.timers
               /\ e.flags = g
BY DEF Client, SameLink, SameQueues, SameCalls, WithPromised

LEMMA ConnectDoes ==
    ASSUME c \in Client, Connect, MaxRetries \in Nat
    PROVE  \E d :
              /\ Marked(c, d) /\ d.status = c.status /\ d.timers = c.timers
              /\ \/ c' = d
                 \/ Has(c, "unopened") /\ Connects(d, c')
                 \/ /\ ~Has(c, "unopened") /\ c.status # "connecting"
                    /\ Restarts(d, c') \/ (\E f : Restarts(d, f) /\ Connects(f, c'))
<1>1. PICK g, r : g = c.flags \ {"manual"} /\ r = g \cup {"reconnecting"}
  OBVIOUS
<1>2. g \in SUBSET Flags /\ r \in SUBSET Flags /\ c.attempts \in Nat
  BY <1>1, Fields DEF Flags
<1>3. PICK d, a : d = WithPromised(c, TRUE, g, c.attempts) /\ a = WithPromised(c, TRUE, r, 0)
  OBVIOUS
<1>4. /\ d \in Client /\ SameLink(c, d) /\ SameQueues(c, d) /\ SameCalls(c, d)
      /\ d.opts = c.opts /\ d.status = c.status /\ d.timers = c.timers /\ d.flags = g
  BY ZenonT(60), <1>2, <1>3, SetPromised
<1>5. /\ a \in Client /\ SameLink(c, a) /\ SameQueues(c, a) /\ SameCalls(c, a)
      /\ a.opts = c.opts /\ a.status = c.status /\ a.timers = c.timers /\ a.flags = r
  <2>1. PICK b \in BOOLEAN, k \in Nat : b = TRUE /\ k = 0
    OBVIOUS
  <2>2. a = WithPromised(c, b, r, k)
    BY <1>3, <2>1
  <2> QED BY <1>2, <2>2, SetPromised
<1>6. Marked(c, d) /\ Marked(c, a)
  BY <1>1, <1>4, <1>5 DEF Marked, Has
<1>7. d = [c EXCEPT !.promise = TRUE, !.flags = @ \ {"manual"}]
  BY <1>1, <1>3 DEF WithPromised, Client
<1>8. a = Raise([d EXCEPT !.attempts = 0], "reconnecting")
  BY <1>1, <1>3 DEF WithPromised, Client, Raise
<1>9. FreeSockets(d) # {} /\ FreeSockets(a) # {}
  BY <1>4, <1>5 DEF Connect, FreeSockets, SameLink
<1>10. \/ c' = d
       \/ Has(c, "unopened") /\ c' = Connecting(d)
       \/ ~Has(c, "unopened") /\ c.status # "connecting" /\ c' \in Reconnects(a)
  BY <1>7, <1>8 DEF Connect
<1>11. CASE c' = d
  BY <1>4, <1>6, <1>11
<1>12. CASE Has(c, "unopened") /\ c' = Connecting(d)
  <2>1. Connects(d, Connecting(d))
    BY <1>4, <1>9, ConnectingIs
  <2> QED BY <1>4, <1>6, <1>12, <2>1
<1>13. CASE ~Has(c, "unopened") /\ c.status # "connecting" /\ c' \in Reconnects(a)
  <2>1. c' = a \/ Restarts(a, c') \/ (\E f : Restarts(a, f) /\ Connects(f, c'))
    BY <1>5, <1>9, <1>13, ReconnectsIs
  <2> QED BY <1>5, <1>6, <1>13, <2>1
<1> QED BY <1>10, <1>11, <1>12, <1>13

WithManual(d, g, st) == [d EXCEPT !.registered = FALSE, !.flags = g, !.status = st]

LEMMA CloseDoes ==
    ASSUME c \in Client, Close
    PROVE  \E d :
              /\ Marked(c, d) /\ d.timers = c.timers
              /\ c.status # "disconnected"
              /\ \/ c' = d /\ c.status = "failed" /\ d.status = "failed"
                 \/ /\ c.status # "failed" /\ d.status = "disconnected"
                    /\ Has(d, "manual") /\ c' = CloseSocket(d)
<1>1. PICK g : g = c.flags \cup {"manual"}
  OBVIOUS
<1>2. g \in SUBSET Flags /\ c.status \in {"disconnected", "connecting", "connected", "failed"}
  BY <1>1, Fields DEF Flags, Client
<1>3. ASSUME NEW st \in {"disconnected", "connecting", "connected", "failed"}
      PROVE  /\ Marked(c, WithManual(c, g, st))
             /\ WithManual(c, g, st).timers = c.timers
             /\ WithManual(c, g, st).status = st /\ Has(WithManual(c, g, st), "manual")
  <2>1. PICK e, b : e = WithManual(c, g, st) /\ b = FALSE
    OBVIOUS
  <2>2. /\ e \in Client /\ SameLink(c, e) /\ SameQueues(c, e) /\ SameCalls(c, e)
        /\ e.opts = c.opts /\ e.timers = c.timers /\ e.status = st /\ e.flags = g
    BY <1>2, <2>1 DEF Client, SameLink, SameQueues, SameCalls, WithManual
  <2> QED BY <1>1, <2>1, <2>2 DEF Marked, Has
<1>4. PICK d, f : d = WithManual(c, g, c.status) /\ f = WithManual(c, g, "disconnected")
  OBVIOUS
<1>5. d = Raise([c EXCEPT !.registered = FALSE], "manual")
  BY <1>1, <1>4 DEF WithManual, Raise, Client
<1>6. f = [d EXCEPT !.status = "disconnected"]
  BY <1>4 DEF WithManual, Client
<1>7. c.status # "disconnected" /\ c' = IF c.status = "failed" THEN d ELSE CloseSocket(f)
  BY <1>5, <1>6 DEF Close
<1>8. Marked(c, d) /\ d.timers = c.timers /\ d.status = c.status
  BY <1>2, <1>3, <1>4
<1>9. Marked(c, f) /\ f.timers = c.timers /\ f.status = "disconnected" /\ Has(f, "manual")
  BY <1>3, <1>4
<1> QED BY <1>7, <1>8, <1>9

TimedOut(d, e, timer) ==
    /\ Marked(d, e) /\ e.status = d.status /\ e.flags = d.flags
    /\ e.registered = d.registered /\ e.timers = d.timers \ {timer}

LEMMA FiredIs ==
    ASSUME c \in Client, NEW timer
    PROVE  TimedOut(c, Fired(timer), timer)
<1>1. PICK d, t : d = c /\ t = d.timers \ {timer}
  OBVIOUS
<1>2. t \in SUBSET Timers
  BY <1>1, Fields
<1>3. PICK e : e = [d EXCEPT !.timers = t]
  OBVIOUS
<1>4. /\ e \in Client /\ SameLink(d, e) /\ SameQueues(d, e) /\ SameCalls(d, e)
      /\ e.opts = d.opts /\ e.status = d.status /\ e.flags = d.flags
      /\ e.registered = d.registered /\ e.timers = t
  BY <1>1, <1>2, <1>3 DEF Client, SameLink, SameQueues, SameCalls
<1>5. Fired(timer) = e
  BY <1>1, <1>3 DEF Fired, Client
<1> QED BY <1>1, <1>4, <1>5 DEF TimedOut, Marked, Has

LEMMA ReconnectTimerDoes ==
    ASSUME c \in Client, ReconnectTimer, MaxRetries \in Nat
    PROVE  \E d :
              /\ "reconnect" \in c.timers /\ TimedOut(c, d, "reconnect")
              /\ \/ c' = d
                 \/ Restarts(d, c')
                 \/ \E f : Restarts(d, f) /\ Connects(f, c')
<1>1. PICK d : d = Fired("reconnect")
  OBVIOUS
<1>2. TimedOut(c, d, "reconnect")
  BY <1>1, FiredIs
<1>3. d \in Client /\ d.net = c.net
  BY <1>2 DEF TimedOut, Marked, SameLink
<1>4. c' \in Reconnects(d) /\ FreeSockets(d) # {} /\ "reconnect" \in c.timers
  BY <1>1, <1>3 DEF ReconnectTimer, Fires, FreeSockets
<1>5. c' = d \/ Restarts(d, c') \/ (\E f : Restarts(d, f) /\ Connects(f, c'))
  BY <1>3, <1>4, ReconnectsIs
<1> QED BY <1>2, <1>4, <1>5

LEMMA ConnectionTimeoutDoes ==
    ASSUME c \in Client, ConnectionTimeout
    PROVE  \E d :
              /\ TimedOut(c, d, "connection") /\ "connection" \in c.timers
              /\ \/ c' = d /\ c.status \in {"connected", "failed"}
                 \/ c' = Fail(d) /\ c.status \notin {"connected", "failed"}
<1>1. PICK d : d = Fired("connection")
  OBVIOUS
<1>2. TimedOut(c, d, "connection")
  BY <1>1, FiredIs
<1> QED BY <1>1, <1>2 DEF ConnectionTimeout

LEMMA OpenedDoes ==
    ASSUME c \in Client, NEW s \in SocketIds, Opened(s)
    PROVE  \E d : c.net[s].state = "opening" /\ Opens(c, d, s) /\ c' \in Authenticates(d)
<1>1. PICK d : d = [c EXCEPT !.socket = s, !.net[s].state = "open"]
  OBVIOUS
<1>2. Opens(c, d, s)
  BY <1>1, OpensIs
<1>3. c.net[s].state = "opening" /\ c' \in Authenticates(d)
  BY <1>1 DEF Opened
<1> QED BY <1>2, <1>3

\* The client writes on the socket s from here on.
Uses(d, e, s) ==
    /\ e \in Client /\ SameMode(d, e) /\ SameQueues(d, e) /\ SameCalls(d, e)
    /\ e.registered = d.registered /\ e.wbuf = d.wbuf /\ e.socket = s /\ e.net = d.net

LEMMA BecomesWritableDoes ==
    ASSUME c \in Client, NEW s \in SocketIds, BecomesWritable(s)
    PROVE  \E d : /\ c.net[s].state = "open" /\ c.wbuf # <<>>
                  /\ Uses(c, d, s) /\ c' \in SendNextCommand(d)
<1>1. PICK d, n : n = c.net /\ d = WithSocket(c, s, n)
  OBVIOUS
<1>2. n \in [SocketIds -> Sockets]
  BY <1>1, Fields
<1>3. Uses(c, d, s)
  <2>1. /\ d \in Client /\ SameMode(c, d) /\ SameQueues(c, d) /\ SameCalls(c, d)
        /\ d.registered = c.registered /\ d.wbuf = c.wbuf /\ d.socket = s /\ d.net = n
    BY <1>1, <1>2, SetSocket
  <2> QED BY <1>1, <2>1 DEF Uses
<1>4. d = [c EXCEPT !.socket = s]
  BY <1>1 DEF WithSocket, Client
<1>5. c.net[s].state = "open" /\ c.wbuf # <<>> /\ c' \in SendNextCommand(d)
  BY <1>4 DEF BecomesWritable
<1> QED BY <1>3, <1>5

LEMMA HelloReplyDoes ==
    ASSUME c \in Client, NEW s \in SocketIds, HelloReply(s), MaxRetries \in Nat
    PROVE  \E d : /\ ~Authenticated(c) /\ c.net[s].wire # <<>> /\ Answered(c, d, s)
                  /\ \/ \E f : Accepted(d, f) /\ c' \in SendNextCommand(f) /\ frame' = "data"
                     \/ c' = Fail(d)
<1>1. PICK d : d = Replying(s)
  OBVIOUS
<1>2. Answered(c, d, s)
  BY <1>1, ReplyingIs DEF HelloReply
<1>3. d \in Client
  BY <1>2 DEF Answered
<1>4. /\ ~Authenticated(c) /\ c.net[s].wire # <<>>
      /\ \/ c' \in HelloAccepted(d) /\ frame' = "data"
         \/ c' = Fail(d)
  BY <1>1 DEF HelloReply
<1>5. CASE c' \in HelloAccepted(d) /\ frame' = "data"
  <2>1. \E f : Accepted(d, f) /\ c' \in SendNextCommand(f)
    BY <1>3, <1>5, HelloAcceptedIs
  <2> QED BY <1>2, <1>4, <1>5, <2>1
<1> QED BY <1>2, <1>4, <1>5

\* The reply to m settles the promise of x.
Settled(d, e, x, m) ==
    /\ e \in Client /\ SameMode(d, e) /\ SameLink(d, e)
    /\ e.queue = d.queue /\ e.kind = d.kind /\ x \in Cmds
    /\ d.inflight.items # <<>> /\ x = Head(d.inflight.items)
    /\ e.inflight.items = Tail(d.inflight.items)
    /\ e.outcome = [d.outcome EXCEPT ![x] = IF x = m THEN "own" ELSE "wrong"]

LEMMA ReplyDoes ==
    ASSUME c \in Client, NEW s \in SocketIds, Reply(s)
    PROVE  \E d : /\ Authenticated(c) /\ c.net[s].wire # <<>> /\ Answered(c, d, s)
                  /\ \/ c' = d /\ c.inflight.items = <<>> /\ frame' = "next"
                     \/ \E x : Settled(d, c', x, Head(c.net[s].wire)) /\ frame' = "data"
<1>1. PICK d, m : d = Replying(s) /\ m = Head(c.net[s].wire)
  OBVIOUS
<1>2. Answered(c, d, s)
  BY <1>1, ReplyingIs DEF Reply
<1>3. d \in Client /\ d.inflight = c.inflight
  BY <1>2 DEF Answered, SameQueues
<1>4. /\ Authenticated(c) /\ c.net[s].wire # <<>>
      /\ IF c.inflight.items = <<>> THEN c' = d /\ frame' = "next"
         ELSE c' = Settle(d, m) /\ frame' = "data"
  BY <1>1 DEF Reply
<1>5. CASE c.inflight.items # <<>>
  <2>1. PICK x : x = Head(d.inflight.items)
    OBVIOUS
  <2>2. Settled(d, Settle(d, m), x, m)
    BY <1>3, <1>5, <2>1, SettleIs DEF Settled
  <2> QED BY <1>1, <1>2, <1>4, <1>5, <2>2
<1> QED BY <1>2, <1>4, <1>5

-----------------------------------------------------------------------------
(* Every step keeps the types and the order.                               *)

LEMMA AloneAdvances ==
    ASSUME NEW d \in Client, NEW e, NEW b \in Seq(Cmds), Moves(d, e, b), Serially(d, b)
    PROVE  Alone(d, e)
<1>1. PICK f : f = d.inflight.items
  OBVIOUS
<1>2. f \in Seq(Cmds) /\ Len(f) \in Nat /\ Len(b) \in Nat /\ DOMAIN b = 1..Len(b)
  BY <1>1, Fields
<1>3. e.inflight.items = f \o b /\ e.kind = d.kind
  BY <1>1 DEF Moves, SameCalls
<1>4. /\ DOMAIN (f \o b) = 1..Len(f) + Len(b) /\ DOMAIN f = 1..Len(f)
      /\ \A i \in 1..Len(f) + Len(b) : (f \o b)[i] = IF i <= Len(f) THEN f[i] ELSE b[i - Len(f)]
  BY <1>2, Concat
<1>5. ASSUME NEW x \in Items(e.inflight), x \notin Items(d.inflight)
      PROVE  \E i \in DOMAIN b : x = b[i]
  <2>1. PICK i \in 1..Len(f) + Len(b) : x = (f \o b)[i]
    BY <1>3, <1>4, <1>5 DEF Items
  <2>2. i > Len(f)
    BY SMTT(60), <1>1, <1>2, <1>4, <1>5, <2>1 DEF Items
  <2>3. i - Len(f) \in DOMAIN b /\ x = b[i - Len(f)]
    BY <1>2, <1>4, <2>1, <2>2
  <2> QED BY <2>3
<1> QED BY <1>3, <1>5 DEF Alone, Serially, Pipelines

LEMMA AloneSame ==
    ASSUME NEW d, NEW e, e.inflight = d.inflight
    PROVE  Alone(d, e)
BY DEF Alone

LEMMA AloneRejects ==
    ASSUME NEW d, NEW e, Rejects(d, e)
    PROVE  Alone(d, e)
<1>1. Items(EmptyFifo) = {}
  BY DEF Items, EmptyFifo
<1> QED BY <1>1 DEF Rejects, SameQueues, Alone

LEMMA AloneFrom ==
    ASSUME NEW d, NEW e, NEW f, e.inflight = d.inflight, Alone(e, f)
    PROVE  Alone(d, f)
BY DEF Alone

Steady(d, e) == Base(e) /\ Alone(d, e)

LEMMA SteadySendNext ==
    ASSUME NEW d, Base(d), NEW e \in SendNextCommand(d)
    PROVE  Steady(d, e)
<1>1. d \in Client
  BY DEF Base
<1>2. Advances(d, e)
  BY <1>1, SendNextCommandIs
<1>3. Alone(d, e)
  BY <1>1, <1>2, AloneAdvances DEF Advances
<1> QED BY <1>2, <1>3, BaseAdvances DEF Steady

LEMMA SteadyAutoFlush ==
    ASSUME NEW d, Base(d), NEW e \in AutoFlush(d)
    PROVE  Steady(d, e)
<1>1. d \in Client
  BY DEF Base
<1>2. Advances(d, e)
  BY <1>1, AutoFlushIs
<1>3. Alone(d, e)
  BY <1>1, <1>2, AloneAdvances DEF Advances
<1> QED BY <1>2, <1>3, BaseAdvances DEF Steady

LEMMA SteadyCloseSocket ==
    ASSUME NEW d, Base(d)
    PROVE  Steady(d, CloseSocket(d))
<1>1. d \in Client
  BY DEF Base
<1>2. PICK e : e = CloseSocket(d)
  OBVIOUS
<1>3. e = d \/ Dropped(d, e) \/ Closed(d, e, d.socket)
  BY <1>1, <1>2, CloseSocketIs
<1>4. Alone(d, e)
  BY <1>3, AloneSame, AloneRejects DEF Dropped, SameQueues, Closed
<1>5. Base(e)
  BY <1>2, BaseCloseSocket
<1> QED BY <1>2, <1>4, <1>5 DEF Steady

LEMMA SteadyFail ==
    ASSUME NEW d, Base(d)
    PROVE  Steady(d, Fail(d))
<1>1. d \in Client
  BY DEF Base
<1>2. PICK f, g : f = Failed(d) /\ g = Raise(f, "manual")
  OBVIOUS
<1>3. f \in Client /\ Rejects(d, f) /\ SameLink(d, f) /\ f.flags = d.flags
  BY <1>1, <1>2, FailedIs
<1>4. Base(f)
  BY <1>3, BaseFails
<1>5. g \in Client /\ SameLink(f, g) /\ SameQueues(f, g) /\ SameCalls(f, g)
      /\ g.flags = f.flags \cup {"manual"}
  BY <1>2, <1>3, RaiseIs DEF Flags
<1>6. Base(g)
  BY <1>4, <1>5, BaseSame DEF SameLink, Has
<1>7. Alone(d, f) /\ Alone(d, g)
  BY <1>3, <1>5, AloneRejects DEF Rejects, SameQueues, SameCalls
<1>8. CASE Fail(d) = CloseSocket(g)
  <2>1. PICK e : e = CloseSocket(g)
    OBVIOUS
  <2>2. e = g \/ Dropped(g, e) \/ Closed(g, e, g.socket)
    BY <1>5, <2>1, CloseSocketIs
  <2>3. e.inflight = g.inflight \/ e.inflight = EmptyFifo
    BY <2>2 DEF Dropped, Closed, Rejects, SameQueues
  <2>4. Items(EmptyFifo) = {}
    BY DEF Items, EmptyFifo
  <2>5. Items(g.inflight) \subseteq Items(d.inflight)
    BY <1>3, <1>5, <2>4 DEF Rejects, SameQueues
  <2>6. Alone(d, e)
    BY <2>3, <2>4, <2>5 DEF Alone
  <2> QED BY <1>6, <1>8, <2>1, <2>6, BaseCloseSocket DEF Steady
<1>9. Fail(d) = d \/ Fail(d) = f \/ Fail(d) = CloseSocket(g)
  BY <1>2 DEF Fail
<1> QED BY <1>4, <1>7, <1>8, <1>9, AloneSame DEF Steady

LEMMA BaseIssues ==
    ASSUME NEW d, NEW e, NEW x \in Cmds, NEW k, Base(d), NextUnsent(d, x), Issues(d, e, x, k)
    PROVE  Base(e) /\ Newest(e, x)
<1>1. d \in Client /\ e \in Client /\ d.outcome \in [Cmds -> Outcomes]
  BY Fields DEF Base, Issues
<1>2. PICK w : w = Waiting(d)
  OBVIOUS
<1>3. Waiting(e) = w
  BY <1>2 DEF Issues, SameQueues, Waiting
<1>4. \A i \in 1..Len(w) : w[i] \in Cmds
  BY <1>1, <1>2, WaitingType
<1>5. /\ \A i, j \in 1..Len(w) : i < j => w[i] < w[j]
      /\ \A i \in 1..Len(w) : d.outcome[w[i]] # "unsent"
      /\ \A p, q \in Cmds : p <= q /\ d.outcome[p] = "unsent" => d.outcome[q] = "unsent"
  BY <1>2 DEF Base, Ordered
<1>6. /\ e.outcome[x] = "pending"
      /\ \A y \in Cmds : y # x => e.outcome[y] = d.outcome[y]
  BY <1>1 DEF Issues
<1>7. \A y \in Cmds : y \in Int
  BY DEF Cmds
<1>8. \A i \in 1..Len(w) : w[i] < x
  <2> SUFFICES ASSUME NEW i \in 1..Len(w) PROVE w[i] < x
    OBVIOUS
  <2>1. ~(x <= w[i])
    BY <1>4, <1>5 DEF NextUnsent
  <2> QED BY <1>4, <1>7, <2>1
<1>9. \A i \in 1..Len(w) : e.outcome[w[i]] # "unsent"
  BY <1>4, <1>5, <1>6
<1>10. ASSUME NEW p \in Cmds, NEW q \in Cmds, p <= q, e.outcome[p] = "unsent"
       PROVE  e.outcome[q] = "unsent"
  <2>1. p # x /\ d.outcome[p] = "unsent"
    BY <1>6, <1>10
  <2>2. x <= p
    BY <2>1 DEF NextUnsent
  <2>3. q # x
    BY <1>7, <1>10, <2>1, <2>2
  <2> QED BY <1>5, <1>6, <1>10, <2>1, <2>3
<1>11. Ordered(e)
  BY <1>3, <1>5, <1>9, <1>10 DEF Ordered
<1>12. Unopened(e)
  BY DEF Base, Unopened, Has, Issues, SameMode, SameLink
<1> QED BY <1>1, <1>3, <1>6, <1>8, <1>11, <1>12 DEF Base, Newest

LEMMA SteadyRefuses ==
    ASSUME NEW d, NEW e, NEW x \in Cmds, NEW why, Base(d), Newest(d, x), why # "unsent",
           Refuses(d, e, x, why)
    PROVE  Steady(d, e)
<1>1. e \in Client /\ d.outcome \in [Cmds -> Outcomes]
  BY Fields DEF Base, Refuses
<1>2. Waiting(e) = Waiting(d)
  BY DEF Refuses, SameQueues, Waiting
<1>3. \A y \in Cmds : e.outcome[y] = "unsent" <=> d.outcome[y] = "unsent"
  BY <1>1 DEF Refuses, Newest
<1>4. \A i \in 1..Len(Waiting(d)) : Waiting(d)[i] \in Cmds
  BY WaitingType DEF Base
<1>5. Ordered(e)
  BY <1>2, <1>3, <1>4 DEF Base, Ordered
<1>6. Unopened(e)
  BY DEF Base, Unopened, Has, Refuses, SameMode, SameLink
<1>7. Alone(d, e)
  BY AloneSame DEF Refuses, SameQueues
<1> QED BY <1>1, <1>5, <1>6, <1>7 DEF Base, Steady

LEMMA SteadyDispatch ==
    ASSUME NEW d, NEW x \in Cmds, Base(d), Newest(d, x), NEW e \in Dispatch(d, x)
    PROVE  Steady(d, e)
<1>1. d \in Client
  BY DEF Base
<1>2. CASE Adds(d, e, x)
  <2>1. PICK b \in Seq(Cmds) :
            Moves(d, e, b) /\ Serially(d, b) /\ Waiting(e) = Waiting(d) \o <<x>>
    BY <1>2 DEF Adds
  <2>2. e \in Client /\ SameMode(d, e) /\ SameCalls(d, e) /\ SameStates(d, e)
    BY <2>1 DEF Moves
  <2>3. Ordered(e)
    BY <1>1, <2>1, <2>2, OrderedAdd DEF Base, SameCalls
  <2>4. Unopened(e)
    BY <2>2 DEF Base, Unopened, Has, SameMode, SameStates
  <2>5. Alone(d, e)
    BY <1>1, <2>1, AloneAdvances
  <2> QED BY <2>2, <2>3, <2>4, <2>5 DEF Base, Steady
<1>3. CASE Refuses(d, e, x, "unreachable")
  BY <1>3, SteadyRefuses
<1>4. CASE Refuses(d, e, x, "rejected")
  BY <1>4, SteadyRefuses
<1> QED BY <1>1, <1>2, <1>3, <1>4, DispatchIs

LEMMA BaseMarked ==
    ASSUME NEW d, NEW e, Base(d), Marked(d, e)
    PROVE  Base(e)
<1>1. e \in Client /\ SameLink(d, e) /\ SameQueues(d, e) /\ SameCalls(d, e)
      /\ (Has(e, "unopened") => Has(d, "unopened"))
  BY DEF Marked
<1> QED BY <1>1, BaseSame DEF SameLink

LEMMA SendSteady ==
    ASSUME Base(c), Send, ValkeyAssumption
    PROVE  Steady(c, c')
<1>1. c \in Client /\ Unopened(c)
  BY DEF Base
<1>2. PICK x \in Cmds, k \in AllKinds :
        \E d :
          /\ NextUnsent(c, x) /\ Issues(c, d, x, k)
          /\ \/ ~Has(c, "unopened") /\ c' \in Dispatch(d, x)
             \/ \E f : Has(c, "unopened") /\ Connects(d, f) /\ c' \in Dispatch(f, x)
             \/ Refuses(d, c', x, "rejected")
  BY <1>1, SendDoes
<1>3. PICK d :
        /\ NextUnsent(c, x) /\ Issues(c, d, x, k)
        /\ \/ ~Has(c, "unopened") /\ c' \in Dispatch(d, x)
           \/ \E f : Has(c, "unopened") /\ Connects(d, f) /\ c' \in Dispatch(f, x)
           \/ Refuses(d, c', x, "rejected")
  BY <1>2
<1>4. Base(d) /\ Newest(d, x) /\ d.inflight = c.inflight
  BY <1>3, BaseIssues DEF Issues, SameQueues
<1>5. CASE c' \in Dispatch(d, x)
  BY <1>4, <1>5, SteadyDispatch, AloneFrom DEF Steady
<1>6. CASE \E f : Connects(d, f) /\ c' \in Dispatch(f, x)
  <2>1. PICK f : Connects(d, f) /\ c' \in Dispatch(f, x)
    BY <1>6
  <2>2. Base(f)
    BY <1>4, <2>1, BaseConnects
  <2>3. Newest(f, x) /\ f.inflight = c.inflight
    BY <1>4, <2>1 DEF Newest, Connects, SameQueues, SameCalls, Waiting
  <2>4. Steady(f, c')
    BY <2>1, <2>2, <2>3, SteadyDispatch
  <2> QED BY <2>3, <2>4, AloneFrom DEF Steady
<1>7. CASE Refuses(d, c', x, "rejected")
  <2>1. Steady(d, c')
    BY <1>4, <1>7, SteadyRefuses
  <2> QED BY <1>4, <2>1, AloneFrom DEF Steady
<1> QED BY <1>3, <1>5, <1>6, <1>7

LEMMA ConnectSteady ==
    ASSUME Base(c), Connect, MaxRetries \in Nat
    PROVE  Steady(c, c')
<1>1. c \in Client
  BY DEF Base
<1>2. PICK d :
        /\ Marked(c, d)
        /\ \/ c' = d
           \/ Connects(d, c')
           \/ Restarts(d, c')
           \/ \E f : Restarts(d, f) /\ Connects(f, c')
  BY <1>1, ConnectDoes
<1>3. Base(d) /\ d.inflight = c.inflight
  BY <1>2, BaseMarked DEF Marked, SameQueues
<1>4. CASE c' = d
  BY <1>3, <1>4, AloneSame DEF Steady
<1>5. CASE Connects(d, c')
  BY <1>3, <1>5, BaseConnects, AloneSame DEF Steady, Connects, SameQueues
<1>6. CASE Restarts(d, c')
  BY <1>3, <1>6, BaseRestarts, AloneSame DEF Steady, Restarts, SameQueues
<1>7. CASE \E f : Restarts(d, f) /\ Connects(f, c')
  BY <1>3, <1>7, BaseRestarts, BaseConnects, AloneSame DEF Steady, Restarts, Connects, SameQueues
<1> QED BY <1>2, <1>4, <1>5, <1>6, <1>7

LEMMA CloseSteady ==
    ASSUME Base(c), Close
    PROVE  Steady(c, c')
<1>1. c \in Client
  BY DEF Base
<1>2. PICK d : Marked(c, d) /\ (c' = d \/ c' = CloseSocket(d))
  BY <1>1, CloseDoes
<1>3. Base(d) /\ d.inflight = c.inflight
  BY <1>2, BaseMarked DEF Marked, SameQueues
<1>4. Steady(d, c')
  BY <1>2, <1>3, AloneSame, SteadyCloseSocket DEF Steady
<1> QED BY <1>3, <1>4, AloneFrom DEF Steady

LEMMA TimersSteady ==
    ASSUME Base(c), ReconnectTimer \/ ConnectionTimeout, MaxRetries \in Nat
    PROVE  Steady(c, c')
<1>1. c \in Client
  BY DEF Base
<1>2. PICK d, timer :
        /\ TimedOut(c, d, timer)
        /\ \/ c' = d \/ c' = Fail(d)
           \/ Restarts(d, c')
           \/ \E f : Restarts(d, f) /\ Connects(f, c')
  BY <1>1, ReconnectTimerDoes, ConnectionTimeoutDoes
<1>3. Base(d) /\ d.inflight = c.inflight
  BY <1>2, BaseMarked DEF TimedOut, Marked, SameQueues
<1>4. CASE c' = d
  BY <1>3, <1>4, AloneSame DEF Steady
<1>5. CASE c' = Fail(d)
  <2>1. Steady(d, c')
    BY <1>3, <1>5, SteadyFail
  <2> QED BY <1>3, <2>1, AloneFrom DEF Steady
<1>6. CASE Restarts(d, c')
  BY <1>3, <1>6, BaseRestarts, AloneSame DEF Steady, Restarts, SameQueues
<1>7. CASE \E f : Restarts(d, f) /\ Connects(f, c')
  BY <1>3, <1>7, BaseRestarts, BaseConnects, AloneSame DEF Steady, Restarts, Connects, SameQueues
<1> QED BY <1>2, <1>4, <1>5, <1>6, <1>7

LEMMA SteadySettles ==
    ASSUME NEW d, NEW e, NEW x, NEW m, Base(d), Settled(d, e, x, m)
    PROVE  Steady(d, e)
<1>1. d \in Client /\ e \in Client /\ x \in Cmds
  BY DEF Base, Settled
<1>2. PICK f, q : f = d.inflight.items /\ q = d.queue.items
  OBVIOUS
<1>3. f \in Seq(Cmds) /\ q \in Seq(Cmds) /\ f # <<>> /\ x = Head(f)
  BY <1>1, <1>2, Fields DEF Settled
<1>4. Waiting(d) = f \o q /\ Waiting(e) = Tail(f) \o q
  BY <1>2 DEF Waiting, Settled
<1>5. Tail(f \o q) = Tail(f) \o q
  BY <1>3, TailOfConcat
<1>6. f \o q # <<>> /\ Head(f \o q) = x /\ f \o q \in Seq(Cmds)
  BY <1>3, HeadOfConcat, Concat
<1>7. 1 \in 1..Len(f \o q) /\ (f \o q)[1] = x
  BY <1>6, SeqFacts
<1>8. d.outcome[x] # "unsent"
  BY <1>4, <1>7 DEF Base, Ordered
<1>9. Ordered(e)
  <2>1. PICK o : o = IF x = m THEN "own" ELSE "wrong"
    OBVIOUS
  <2>2. o # "unsent" /\ e.outcome = [d.outcome EXCEPT ![x] = o]
    BY <2>1 DEF Settled
  <2>3. Waiting(d) # <<>> /\ Waiting(e) = Tail(Waiting(d)) /\ Ordered(d)
    BY <1>4, <1>5, <1>6 DEF Base
  <2> QED BY <1>1, <1>8, <2>2, <2>3, OrderedTail
<1>10. Unopened(e)
  BY DEF Base, Unopened, Has, Settled, SameMode, SameLink
<1>11. Alone(d, e)
  <2>1. PICK t : t = Tail(f)
    OBVIOUS
  <2>2. /\ Len(f) \in Nat /\ DOMAIN f = 1..Len(f)
        /\ Len(t) = Len(f) - 1 /\ DOMAIN t = 1..Len(t)
        /\ \A i \in 1..Len(f) - 1 : t[i] = f[i + 1]
    BY <1>3, <2>1, SeqFacts
  <2>3. \A i \in DOMAIN t : i + 1 \in DOMAIN f /\ t[i] = f[i + 1]
    BY <2>2
  <2>4. e.inflight.items = t
    BY <1>2, <2>1 DEF Settled
  <2>5. Items(e.inflight) \subseteq Items(d.inflight)
    BY <1>2, <2>3, <2>4 DEF Items
  <2> QED BY <2>5 DEF Alone
<1> QED BY <1>1, <1>9, <1>10, <1>11 DEF Base, Steady

LEMMA BaseAnswered ==
    ASSUME NEW d, NEW e, NEW s \in SocketIds, Base(d), Answered(d, e, s)
    PROVE  Base(e)
<1>1. \A t \in SocketIds : e.net[t].state = d.net[t].state
  BY DEF Answered
<1> QED BY <1>1, BaseSame DEF Answered, SameMode, Has

LEMMA SocketSteady ==
    ASSUME Base(c), MaxRetries \in Nat, NEW s \in SocketIds,
           \/ Opened(s) \/ Refused(s) \/ Lost(s) \/ BecomesWritable(s)
           \/ HelloReply(s) \/ Reply(s)
    PROVE  Steady(c, c')
<1>1. c \in Client
  BY DEF Base
<1>2. CASE Opened(s)
  <2>1. PICK d : c.net[s].state = "opening" /\ Opens(c, d, s) /\ c' \in Authenticates(d)
    BY <1>1, <1>2, OpenedDoes
  <2>2. Base(d)
    <3>1. \A t \in SocketIds : c.net[t].state = "none" => d.net[t].state = "none"
      BY <2>1 DEF Opens
    <3> QED BY <2>1, <3>1, BaseSame DEF Opens, SameMode, Has
  <2>3. c' \in Client /\ SameMode(d, c') /\ SameQueues(d, c') /\ SameCalls(d, c')
        /\ SameStates(d, c')
    BY <2>1, <2>2, AuthenticatesIs DEF Base
  <2>4. Base(c')
    BY <2>2, <2>3, BaseSame DEF SameMode, SameStates, Has
  <2>5. c'.inflight = c.inflight
    BY <2>1, <2>3 DEF Opens, SameQueues
  <2> QED BY <2>4, <2>5, AloneSame DEF Steady
<1>3. CASE Refused(s) \/ Lost(s)
  <2>1. Closed(c, c', s)
    BY <1>1, <1>3, OnCloseIs DEF Refused, Lost
  <2> QED BY <2>1, BaseClosed, AloneRejects DEF Closed, Steady
<1>4. CASE BecomesWritable(s)
  <2>1. PICK d : Uses(c, d, s) /\ c' \in SendNextCommand(d)
    BY <1>1, <1>4, BecomesWritableDoes
  <2>2. Base(d) /\ d.inflight = c.inflight
    BY <2>1, BaseSame DEF Uses, SameMode, SameQueues, Has
  <2>3. Steady(d, c')
    BY <2>1, <2>2, SteadySendNext
  <2> QED BY <2>2, <2>3, AloneFrom DEF Steady
<1>5. CASE HelloReply(s)
  <2>1. PICK d : /\ Answered(c, d, s)
                 /\ \/ \E f : Accepted(d, f) /\ c' \in SendNextCommand(f)
                    \/ c' = Fail(d)
    BY <1>1, <1>5, HelloReplyDoes
  <2>2. Base(d) /\ d.inflight = c.inflight
    BY <2>1, BaseAnswered DEF Answered, SameQueues
  <2>3. CASE c' = Fail(d)
    <3>1. Steady(d, c')
      BY <2>2, <2>3, SteadyFail
    <3> QED BY <2>2, <3>1, AloneFrom DEF Steady
  <2>4. CASE \E f : Accepted(d, f) /\ c' \in SendNextCommand(f)
    <3>1. PICK f : Accepted(d, f) /\ c' \in SendNextCommand(f)
      BY <2>4
    <3>2. Base(f) /\ f.inflight = c.inflight
      BY <2>2, <3>1, BaseSame DEF Accepted, SameLink, SameQueues, Has
    <3>3. Steady(f, c')
      BY <3>1, <3>2, SteadySendNext
    <3> QED BY <3>2, <3>3, AloneFrom DEF Steady
  <2> QED BY <2>1, <2>3, <2>4
<1>6. CASE Reply(s)
  <2>1. PICK d : /\ Answered(c, d, s)
                 /\ c' = d \/ \E x : Settled(d, c', x, Head(c.net[s].wire))
    BY <1>1, <1>6, ReplyDoes
  <2>2. Base(d) /\ d.inflight = c.inflight
    BY <2>1, BaseAnswered DEF Answered, SameQueues
  <2>3. Steady(d, c')
    BY <2>1, <2>2, AloneSame, SteadySettles DEF Steady
  <2> QED BY <2>2, <2>3, AloneFrom DEF Steady
<1> QED BY <1>2, <1>3, <1>4, <1>5, <1>6

LEMMA InitBase == ASSUME Init, ValkeyAssumption PROVE Base(c) /\ frame = "loop"
<1>1. PICK o \in Options : c = [
        opts |-> o, status |-> "disconnected", flags |-> {"unopened"},
        registered |-> FALSE, attempts |-> 0, timers |-> {}, promise |-> FALSE,
        inflight |-> EmptyFifo, queue |-> EmptyFifo, wbuf |-> <<>>,
        socket |-> Detached, net |-> [s \in SocketIds |-> NoSocket],
        kind |-> [x \in Cmds |-> "plain"], outcome |-> [x \in Cmds |-> "unsent"],
        tries |-> 0]
  BY DEF Init
<1>2. EmptyFifo \in Fifos(Cmds) /\ EmptyFifo.items = <<>>
  BY RingEmpty
<1>3. <<>> \in Seq(Messages)
  OBVIOUS
<1>4. NoSocket \in Sockets /\ NoSocket.state = "none"
  BY <1>3 DEF NoSocket, Sockets
<1>5. 0 \in 0..MaxRetries + 1
  BY DEF ValkeyAssumption
<1>6. c \in Client
  BY <1>1, <1>2, <1>3, <1>4, <1>5 DEF Client, Flags, Timers, AllKinds, Outcomes
<1>7. Waiting(c) = <<>>
  BY <1>1, <1>2 DEF Waiting
<1>8. \A x \in Cmds : c.outcome[x] = "unsent"
  BY <1>1
<1>9. Ordered(c)
  BY <1>7, <1>8 DEF Ordered
<1>10. Unopened(c)
  BY <1>1, <1>4 DEF Unopened
<1> QED BY <1>1, <1>6, <1>9, <1>10 DEF Base, Init

Frames == {"loop", "js", "data", "next"}

\* The end of the first session is final.
LEMMA NextLater ==
    ASSUME Next
    PROVE  (later \in BOOLEAN => later' \in BOOLEAN) /\ (~later' => ~later)
<1>1. CASE Connect
  <2>1. PICK ends \in BOOLEAN : later' = (later \/ ends)
    BY <1>1 DEF Connect, LaterOn
  <2> QED BY <2>1
<1>2. CASE \E s \in SocketIds : Lost(s)
  <2>1. PICK ends \in BOOLEAN : later' = (later \/ ends)
    BY <1>2 DEF Lost, LaterOn
  <2> QED BY <2>1
<1>3. CASE later' = later
  BY <1>3
<1>4. CASE Send \/ Close
  BY <1>3, <1>4 DEF Send, Close
<1>5. CASE RunDeferred \/ AfterReply \/ ReconnectTimer \/ ConnectionTimeout
  BY <1>3, <1>5 DEF RunDeferred, AfterReply, ReconnectTimer, ConnectionTimeout
<1>6. CASE \E s \in SocketIds :
             Opened(s) \/ Refused(s) \/ BecomesWritable(s) \/ HelloReply(s) \/ Reply(s)
  BY <1>3, <1>6 DEF Opened, Refused, BecomesWritable, HelloReply, Reply
<1> QED BY <1>1, <1>2, <1>4, <1>5, <1>6 DEF Next

LEMMA NextBase ==
    ASSUME Base(c), frame \in Frames, Next, ValkeyAssumption
    PROVE  Steady(c, c') /\ frame' \in Frames
<1>1. MaxRetries \in Nat
  BY DEF ValkeyAssumption
<1>2. frame' \in Frames
  BY DEF Next, Send, Connect, Close, RunDeferred, AfterReply, ReconnectTimer,
         ConnectionTimeout, Calling, OnLoop, Opened, Refused, Lost, BecomesWritable,
         HelloReply, Reply, Frames
<1>3. CASE Send
  BY <1>2, <1>3, SendSteady
<1>4. CASE Connect
  BY <1>1, <1>2, <1>4, ConnectSteady
<1>5. CASE Close
  BY <1>2, <1>5, CloseSteady
<1>6. CASE RunDeferred
  <2>1. c' = c \/ c' \in AutoFlush(c)
    BY <1>6 DEF RunDeferred
  <2> QED BY <1>2, <2>1, SteadyAutoFlush, AloneSame DEF Steady
<1>7. CASE AfterReply
  <2>1. c' = c \/ c' \in SendNextCommand(c)
    BY <1>7 DEF AfterReply
  <2> QED BY <1>2, <2>1, SteadySendNext, AloneSame DEF Steady
<1>8. CASE ReconnectTimer \/ ConnectionTimeout
  BY <1>1, <1>2, <1>8, TimersSteady
<1>9. CASE \E s \in SocketIds :
             \/ Opened(s) \/ Refused(s) \/ Lost(s) \/ BecomesWritable(s)
             \/ HelloReply(s) \/ Reply(s)
  BY <1>1, <1>2, <1>9, SocketSteady
<1> QED BY <1>3, <1>4, <1>5, <1>6, <1>7, <1>8, <1>9 DEF Next

\* The types and the order, the inductive invariant of every client.
BaseInv == Base(c) /\ frame \in Frames /\ later \in BOOLEAN

LEMMA BaseAlways == Spec => []BaseInv /\ [][Alone(c, c')]_vars
<1>1. Init => BaseInv
  <2>1. Init => later \in BOOLEAN
    BY DEF Init
  <2> QED BY <2>1, ValkeyAssumption, InitBase DEF BaseInv, Frames
<1>2. BaseInv /\ [Next]_vars => BaseInv' /\ [Alone(c, c')]_vars
  <2> SUFFICES ASSUME BaseInv, [Next]_vars PROVE BaseInv' /\ [Alone(c, c')]_vars
    OBVIOUS
  <2>1. CASE Next
    <3>1. Steady(c, c') /\ frame' \in Frames
      BY <2>1, ValkeyAssumption, NextBase DEF BaseInv
    <3>2. later' \in BOOLEAN
      BY <2>1, NextLater DEF BaseInv
    <3> QED BY <3>1, <3>2 DEF BaseInv, Steady
  <2>2. CASE UNCHANGED vars
    <3>1. c' = c /\ frame' = frame /\ later' = later
      BY <2>2 DEF vars
    <3> QED BY <3>1, <2>2 DEF BaseInv
  <2> QED BY <2>1, <2>2
<1> QED BY <1>1, <1>2, PTL DEF Spec

\* The client keeps its types: its queues are rings of commands that hold what
\* they count, its sockets carry messages of the client.
THEOREM TypeCorrect == Spec => []TypeOK
<1>1. BaseInv => TypeOK
  BY DEF BaseInv, Base, TypeOK, Frames
<1> QED BY <1>1, BaseAlways, PTL

\* The commands that wait stay in the order of the calls, those in flight first,
\* through writes, failures and reconnections (valkey.zig).
THEOREM OrderKeptHolds == Spec => []OrderKept
<1>1. BaseInv => OrderKept
  <2> SUFFICES ASSUME BaseInv PROVE OrderKept
    OBVIOUS
  <2>1. PICK w : w = Waiting(c)
    OBVIOUS
  <2>2. w \in Seq(Cmds) /\ \A i, j \in 1..Len(w) : i < j => w[i] < w[j]
    BY <2>1, WaitingType DEF BaseInv, Base, Ordered
  <2>3. DOMAIN w = 1..Len(w)
    BY <2>2
  <2>4. \A i, j \in DOMAIN w : i < j => w[i] < w[j]
    BY <2>2, <2>3
  <2> QED BY <2>1, <2>4 DEF OrderKept, Waiting
<1> QED BY <1>1, BaseAlways, PTL

\* No step puts a command that may not be pipelined in flight behind another.
THEOREM SerialAloneHolds == Spec => SerialAlone
<1>1. Alone(c, c') =>
        (\A x \in Items(c'.inflight) \ Items(c.inflight) :
            c'.kind[x] # "plain" => c.inflight.items = <<>>)
  BY DEF Alone
<1> QED BY <1>1, BaseAlways, PTL DEF SerialAlone

-----------------------------------------------------------------------------
(* The first session: no client that was authenticated connects again.     *)

\* Only the current socket exists, and it carries nothing before it is open.
Wired(d) ==
    /\ \A s \in SocketIds : d.net[s].state # "none" => s = d.socket
    /\ \A s \in SocketIds : d.net[s].state # "open" => d.net[s].wire = <<>>
    /\ d.socket # Detached => d.net[d.socket].state # "none"

Told(d) == \A x \in Cmds : d.outcome[x] # "unreachable"

\* What the mode says of the socket and of the promises in flight.
Linked(d) ==
    /\ d \in Client /\ Wired(d) /\ Told(d)
    /\ d.status = "failed" => d.socket = Detached
    /\ Has(d, "unopened") => d.status = "disconnected" /\ d.timers = {} /\ d.socket = Detached
    /\ "reconnect" \in d.timers => d.socket = Detached
    /\ Authenticated(d) =>
          /\ "reconnect" \notin d.timers
          /\ \/ d.status = "connected" /\ d.socket # Detached /\ d.net[d.socket].state = "open"
             \/ d.status = "failed" /\ d.socket = Detached
    /\ ~Authenticated(d) => d.status # "connected" /\ d.inflight.items = <<>>

\* Every promise in flight has its bytes on the way.
Backed(d) ==
    Authenticated(d) /\ d.socket # Detached => Len(d.inflight.items) <= Len(Msgs(d))

Sound(d) == Linked(d) /\ Backed(d)

LEMMA MsgsType ==
    ASSUME NEW d \in Client, d.socket # Detached
    PROVE  /\ d.socket \in SocketIds
           /\ d.net[d.socket].wire \in Seq(Messages) /\ d.wbuf \in Seq(Messages)
           /\ Msgs(d) \in Seq(Messages) /\ Len(Msgs(d)) \in Nat
           /\ Msgs(d) # <<>> <=> d.net[d.socket].wire # <<>> \/ d.wbuf # <<>>
<1>1. PICK x, w : x = d.net[d.socket].wire /\ w = d.wbuf
  OBVIOUS
<1>2. d.socket \in SocketIds
  BY Fields
<1>3. x \in Seq(Messages) /\ w \in Seq(Messages)
  BY <1>1, <1>2, Wires, Fields
<1>4. x \o w \in Seq(Messages) /\ (x \o w # <<>> <=> x # <<>> \/ w # <<>>)
  BY <1>3
<1>5. Msgs(d) = x \o w
  BY <1>1 DEF Msgs
<1>6. Len(x \o w) \in Nat
  BY <1>4
<1> QED BY <1>1, <1>2, <1>3, <1>4, <1>5, <1>6

LEMMA LinkedMoves ==
    ASSUME NEW d, NEW e, NEW b, Linked(d), Moves(d, e, b),
           b # <<>> => Authenticated(d) \/ d.status = "connected"
    PROVE  Linked(e)
<1>1. /\ e \in Client /\ SameMode(d, e) /\ SameCalls(d, e) /\ SameStates(d, e)
      /\ e.socket = d.socket /\ b \in Seq(Cmds)
      /\ e.inflight.items = d.inflight.items \o b
  BY DEF Moves
<1>2. Wired(e)
  <2>1. d.socket # Detached => d.socket \in SocketIds
    BY Fields DEF Linked
  <2> QED BY <1>1, <2>1 DEF Linked, Wired, SameStates
<1>3. Told(e)
  BY <1>1 DEF Linked, Told, SameCalls
<1>4. /\ \A flag : Has(e, flag) <=> Has(d, flag)
      /\ Authenticated(e) <=> Authenticated(d)
  BY <1>1 DEF SameMode, Has, Authenticated
<1>5. e.socket # Detached => e.net[e.socket].state = d.net[d.socket].state
  <2>1. e.socket # Detached => e.socket \in SocketIds
    BY <1>1, Fields
  <2> QED BY <1>1, <2>1 DEF SameStates
<1>6. ~Authenticated(d) => b = <<>> /\ d.inflight.items = <<>>
  BY DEF Linked
<1>7. ~Authenticated(e) => e.inflight.items = <<>>
  BY <1>1, <1>4, <1>6
<1> QED BY <1>1, <1>2, <1>3, <1>4, <1>5, <1>7 DEF Linked, SameMode

LEMMA SoundMoves ==
    ASSUME NEW d, NEW e, NEW b, Sound(d), Moves(d, e, b),
           b # <<>> => Authenticated(d) \/ d.status = "connected"
    PROVE  Sound(e)
<1>1. Linked(e) /\ d \in Client
  BY LinkedMoves DEF Sound, Linked
<1>2. ASSUME Authenticated(e), e.socket # Detached
      PROVE  Len(e.inflight.items) <= Len(Msgs(e))
  <2>1. d.socket # Detached /\ Authenticated(d)
    BY <1>2 DEF Moves, SameMode, Authenticated, Has
  <2>2. PICK f, m : f = d.inflight.items /\ m = Msgs(d)
    OBVIOUS
  <2>3. f \in Seq(Cmds) /\ m \in Seq(Messages)
    BY <1>1, <2>1, <2>2, Fields, MsgsType
  <2>4. b \in Seq(Cmds)
    BY DEF Moves
  <2>5. Len(f) <= Len(m)
    BY <2>1, <2>2 DEF Sound, Backed
  <2>6. e.inflight.items = f \o b /\ Msgs(e) = m \o b
    BY <2>1, <2>2 DEF Moves
  <2>7. Len(f \o b) = Len(f) + Len(b) /\ Len(m \o b) = Len(m) + Len(b)
    BY <2>3, <2>4
  <2>8. Len(f) \in Nat /\ Len(m) \in Nat /\ Len(b) \in Nat
    BY <2>3, <2>4
  <2> QED BY <2>5, <2>6, <2>7, <2>8
<1> QED BY <1>1, <1>2 DEF Sound, Backed

\* No connection, or no greeting yet: nothing to back.
LEMMA SoundAlone ==
    ASSUME NEW d, Linked(d), d.socket = Detached \/ ~Authenticated(d)
    PROVE  Sound(d)
BY DEF Sound, Backed

LEMMA LinkedMarked ==
    ASSUME NEW d, NEW e, Linked(d), Marked(d, e), e.status = d.status, e.timers \subseteq d.timers
    PROVE  Linked(e)
<1>1. e \in Client /\ SameLink(d, e) /\ SameQueues(d, e) /\ SameCalls(d, e)
  BY DEF Marked
<1>2. /\ Has(e, "unopened") <=> Has(d, "unopened")
      /\ Authenticated(e) <=> Authenticated(d)
  BY DEF Marked, Authenticated
<1>3. Wired(e) /\ Told(e)
  BY <1>1 DEF Linked, Wired, Told, SameLink, SameCalls
<1> QED BY <1>1, <1>2, <1>3 DEF Linked, SameLink, SameQueues

LEMMA SoundMarked ==
    ASSUME NEW d, NEW e, Sound(d), Marked(d, e), e.status = d.status, e.timers \subseteq d.timers
    PROVE  Sound(e)
<1>1. Linked(e)
  BY LinkedMarked DEF Sound
<1> QED BY <1>1 DEF Sound, Backed, Marked, SameLink, SameQueues, Msgs, Authenticated

\* A client whose socket may be closed.
Closing(d) ==
    /\ d \in Client /\ Wired(d) /\ Told(d) /\ ~Has(d, "unopened")
    /\ "reconnect" \in d.timers => d.socket = Detached
    /\ Authenticated(d) =>
          /\ ~d.opts.reconnect \/ Has(d, "manual")
          /\ d.socket # Detached /\ d.net[d.socket].state = "open"
    /\ ~Authenticated(d) => d.status # "connected" /\ d.inflight.items = <<>>

LEMMA WiredClosed ==
    ASSUME NEW d \in Client, NEW e, NEW s \in SocketIds, Wired(d), s = d.socket,
           e.net = [d.net EXCEPT ![s] = NoSocket], e.socket = Detached
    PROVE  Wired(e)
<1>1. d.net \in [SocketIds -> Sockets]
  BY Fields
<1>2. /\ e.net[s] = NoSocket
      /\ \A t \in SocketIds \ {s} : e.net[t] = d.net[t]
  BY <1>1
<1>3. NoSocket.state = "none" /\ NoSocket.wire = <<>>
  BY DEF NoSocket
<1> QED BY <1>2, <1>3 DEF Wired

LEMMA ToldRejects ==
    ASSUME NEW d, NEW e, Told(d), Rejects(d, e)
    PROVE  Told(e)
BY DEF Told, Rejects

LEMMA LinkedClosed ==
    ASSUME NEW d, NEW e, NEW s \in SocketIds, Closing(d), s = d.socket, Closed(d, e, s)
    PROVE  Sound(e) /\ e.socket = Detached /\ e.status # "connected"
<1>1. e \in Client /\ e.socket = Detached /\ Rejects(d, e)
  BY DEF Closed
<1>2. Wired(e) /\ Told(e)
  BY <1>1, WiredClosed, ToldRejects DEF Closing, Closed
<1>3. /\ Has(e, "unopened") <=> Has(d, "unopened")
      /\ Authenticated(e) <=> Authenticated(d)
  BY DEF Closed, Has, Authenticated
<1>4. s # Detached
  BY Wires DEF Closing
<1>5. Authenticated(e) => "reconnect" \notin e.timers /\ e.status = "failed"
  BY <1>3, <1>4 DEF Closing, Closed
<1>6. ~Authenticated(e) => e.inflight.items = <<>>
  BY <1>1, <1>3 DEF Closing, Rejects, SameQueues, EmptyFifo
<1>7. e.status # "connected"
  BY DEF Closed
<1>8. Linked(e)
  BY <1>1, <1>2, <1>3, <1>5, <1>6, <1>7 DEF Linked, Closing
<1> QED BY <1>1, <1>7, <1>8, SoundAlone

LEMMA LinkedCloseSocket ==
    ASSUME NEW d, Closing(d), d.status # "connected"
    PROVE  LET e == CloseSocket(d)
           IN  Sound(e) /\ e.socket = Detached /\ e.status # "connected"
<1>1. PICK e : e = CloseSocket(d)
  OBVIOUS
<1>2. d \in Client
  BY DEF Closing
<1>3. \/ d.socket = Detached /\ e = d
      \/ Dropped(d, e)
      \/ d.socket # Detached /\ Closed(d, e, d.socket)
  <2>1. LET f == CloseSocket(d)
        IN  \/ d.socket = Detached /\ f = d
            \/ Dropped(d, f)
            \/ d.socket # Detached /\ Closed(d, f, d.socket)
    BY <1>2, CloseSocketIs
  <2> QED BY <1>1, <2>1
<1>4. CASE d.socket = Detached /\ e = d
  <2>1. Linked(e)
    BY <1>4 DEF Linked, Closing
  <2> QED BY <1>1, <1>4, <2>1, SoundAlone
<1>5. CASE Dropped(d, e)
  <2>1. e \in Client /\ d.socket \in SocketIds /\ e.socket = Detached
    BY <1>2, <1>5, Fields DEF Dropped
  <2>2. Wired(e)
    BY <1>2, <1>5, <2>1, WiredClosed DEF Closing, Dropped
  <2>3. Told(e)
    BY <1>5 DEF Closing, Told, Dropped, SameCalls
  <2>4. /\ Has(e, "unopened") <=> Has(d, "unopened")
        /\ Authenticated(e) <=> Authenticated(d)
    BY <1>5 DEF Dropped, SameMode, Has, Authenticated
  <2>5. ~Authenticated(d)
    BY <1>5 DEF Closing, Dropped
  <2>6. e.status = d.status /\ e.inflight = d.inflight
    BY <1>5 DEF Dropped, SameMode, SameQueues
  <2>7. Linked(e)
    BY <2>1, <2>2, <2>3, <2>4, <2>5, <2>6 DEF Linked, Closing
  <2> QED BY <1>1, <2>1, <2>6, <2>7, SoundAlone
<1>6. CASE d.socket # Detached /\ Closed(d, e, d.socket)
  <2>1. d.socket \in SocketIds
    BY <1>2, <1>6, Fields
  <2> QED BY <1>1, <1>6, <2>1, LinkedClosed
<1> QED BY <1>3, <1>4, <1>5, <1>6

LEMMA LinkedFail ==
    ASSUME NEW d, Linked(d), ~Authenticated(d), ~Has(d, "unopened")
    PROVE  LET e == Fail(d)
           IN  Sound(e) /\ e.socket = Detached /\ e.status # "connected"
<1>1. d \in Client
  BY DEF Linked
<1>2. CASE d.status = "failed"
  BY <1>2, SoundAlone DEF Linked, Fail
<1>3. CASE d.status # "failed"
  <2>1. PICK f, g : f = Failed(d) /\ g = Raise(f, "manual")
    OBVIOUS
  <2>2. /\ f \in Client /\ Rejects(d, f) /\ SameLink(d, f) /\ f.flags = d.flags
        /\ f.opts = d.opts /\ f.timers = d.timers /\ f.status = "failed"
    BY <1>1, <2>1, FailedIs
  <2>3. /\ g \in Client /\ SameLink(f, g) /\ SameQueues(f, g) /\ SameCalls(f, g)
        /\ g.opts = f.opts /\ g.timers = f.timers /\ g.status = f.status
        /\ g.flags = f.flags \cup {"manual"}
    BY <2>1, <2>2, RaiseIs DEF Flags
  <2>4. ~Has(g, "unopened") /\ ~Authenticated(g)
    BY <2>2, <2>3 DEF Has, Authenticated
  <2>5. Wired(g)
    BY <2>2, <2>3 DEF Linked, Wired, SameLink
  <2>6. Told(f)
    BY <2>2, ToldRejects DEF Linked
  <2>7. Told(g)
    BY <2>3, <2>6 DEF Told, SameCalls
  <2>8. g.inflight.items = <<>>
    BY <2>2, <2>3 DEF Linked, Rejects, SameQueues, EmptyFifo
  <2>9. Closing(g) /\ g.status # "connected"
    BY <2>2, <2>3, <2>4, <2>5, <2>7, <2>8 DEF Closing, Linked, SameLink
  <2>10. Fail(d) = CloseSocket(g)
    BY <1>3, <2>1 DEF Fail
  <2> QED BY <2>9, <2>10, LinkedCloseSocket
<1> QED BY <1>2, <1>3

LEMMA LinkedConnects ==
    ASSUME NEW d, NEW e, Linked(d), Connects(d, e), d.socket = Detached, ~Authenticated(d),
           "reconnect" \notin d.timers, d.status # "failed"
    PROVE  Sound(e) /\ ~Authenticated(e)
<1>1. e \in Client /\ e.socket \in SocketIds /\ d.net \in [SocketIds -> Sockets]
  BY Fields DEF Connects, Linked
<1>2. PICK s : s = e.socket
  OBVIOUS
<1>3. /\ e.net[s] = NewSocket /\ s \in SocketIds /\ s # Detached
      /\ \A t \in SocketIds \ {s} : e.net[t] = d.net[t]
  <2>1. e.net = [d.net EXCEPT ![s] = NewSocket]
    BY <1>2 DEF Connects
  <2>2. s # Detached
    BY <1>1, <1>2, Wires
  <2> QED BY <1>1, <1>2, <2>1, <2>2
<1>4. NewSocket.state = "opening" /\ NewSocket.wire = <<>>
  BY DEF NewSocket
<1>5. \A t \in SocketIds : d.net[t].state = "none"
  <2>1. \A t \in SocketIds : t # Detached
    BY DEF SocketIds, Detached
  <2> QED BY <2>1 DEF Linked, Wired
<1>6. Wired(e)
  BY <1>2, <1>3, <1>4, <1>5 DEF Linked, Wired
<1>7. Told(e)
  BY DEF Linked, Told, Connects, SameCalls
<1>8. ~Has(e, "unopened") /\ ~Authenticated(e)
  BY DEF Connects, Has, Authenticated
<1>9. Linked(e)
  BY <1>1, <1>6, <1>7, <1>8 DEF Linked, Connects, SameQueues
<1> QED BY <1>8, <1>9, SoundAlone

LEMMA LinkedRestarts ==
    ASSUME NEW d, NEW e, Linked(d), Restarts(d, e), ~Authenticated(d)
    PROVE  Sound(e) /\ ~Authenticated(e)
<1>1. Wired(e) /\ Told(e)
  BY DEF Linked, Wired, Told, Restarts, SameLink, SameCalls
<1>2. ~Has(e, "unopened") /\ ~Authenticated(e)
  BY DEF Restarts, Has, Authenticated
<1>3. Linked(e)
  BY <1>1, <1>2 DEF Linked, Restarts, SameLink, SameQueues
<1> QED BY <1>2, <1>3, SoundAlone

LEMMA SoundCalls ==
    ASSUME NEW d, NEW e \in Client, Sound(d), SameMode(d, e), SameLink(d, e), SameQueues(d, e),
           Told(e)
    PROVE  Sound(e)
<1>1. Wired(e)
  BY DEF Sound, Linked, Wired, SameLink
<1>2. /\ Has(e, "unopened") <=> Has(d, "unopened")
      /\ Authenticated(e) <=> Authenticated(d)
  BY DEF SameMode, Has, Authenticated
<1>3. Linked(e)
  BY <1>1, <1>2 DEF Sound, Linked, SameMode, SameLink, SameQueues
<1> QED BY <1>2, <1>3 DEF Sound, Backed, SameLink, SameQueues, Msgs

LEMMA SoundIssues ==
    ASSUME NEW d, NEW e, NEW x \in Cmds, NEW k, Sound(d), Issues(d, e, x, k)
    PROVE  Sound(e)
<1>1. d.outcome \in [Cmds -> Outcomes]
  BY Fields DEF Sound, Linked
<1>2. Told(e)
  BY <1>1 DEF Issues, Told, Sound, Linked
<1> QED BY <1>2, SoundCalls DEF Issues

LEMMA SoundRefuses ==
    ASSUME NEW d, NEW e, NEW x \in Cmds, NEW why, Sound(d), Refuses(d, e, x, why),
           why # "unreachable"
    PROVE  Sound(e)
<1>1. d.outcome \in [Cmds -> Outcomes]
  BY Fields DEF Sound, Linked
<1>2. Told(e)
  BY <1>1 DEF Refuses, Told, Sound, Linked
<1> QED BY <1>2, SoundCalls DEF Refuses

LEMMA SoundDispatch ==
    ASSUME NEW d, NEW x \in Cmds, Sound(d), NEW e \in Dispatch(d, x)
    PROVE  Sound(e)
<1>1. d \in Client
  BY DEF Sound, Linked
<1>2. ~(Authenticated(d) /\ d.status = "disconnected")
  BY DEF Sound, Linked
<1>3. Adds(d, e, x) \/ Refuses(d, e, x, "rejected")
  BY <1>1, <1>2, DispatchIs
<1>4. CASE Adds(d, e, x)
  <2>1. PICK b \in Seq(Cmds) : Moves(d, e, b) /\ (b # <<>> => Authenticated(d))
    BY <1>4 DEF Adds
  <2> QED BY <2>1, SoundMoves
<1> QED BY <1>3, <1>4, SoundRefuses

LEMMA SoundAdvances ==
    ASSUME NEW d, NEW e, Sound(d), Advances(d, e)
    PROVE  Sound(e)
<1>1. PICK b \in Seq(Cmds) :
        Moves(d, e, b) /\ (b # <<>> => Authenticated(d) \/ d.status = "connected")
  BY DEF Advances
<1> QED BY <1>1, SoundMoves

LEMMA SendSound ==
    ASSUME Base(c), Sound(c), Send, ValkeyAssumption
    PROVE  Sound(c')
<1>1. c \in Client /\ Unopened(c)
  BY DEF Base
<1>2. PICK x \in Cmds, k \in AllKinds :
        \E d :
          /\ Issues(c, d, x, k)
          /\ \/ ~Has(c, "unopened") /\ c' \in Dispatch(d, x)
             \/ \E f : Has(c, "unopened") /\ Connects(d, f) /\ c' \in Dispatch(f, x)
             \/ Refuses(d, c', x, "rejected")
  BY <1>1, SendDoes
<1>3. PICK d :
          /\ Issues(c, d, x, k)
          /\ \/ ~Has(c, "unopened") /\ c' \in Dispatch(d, x)
             \/ \E f : Has(c, "unopened") /\ Connects(d, f) /\ c' \in Dispatch(f, x)
             \/ Refuses(d, c', x, "rejected")
  BY <1>2
<1>4. Sound(d)
  BY <1>3, SoundIssues
<1>5. CASE \E f : Has(c, "unopened") /\ Connects(d, f) /\ c' \in Dispatch(f, x)
  <2>1. PICK f : Connects(d, f) /\ c' \in Dispatch(f, x)
    BY <1>5
  <2>2. Has(d, "unopened") /\ Linked(d)
    BY <1>3, <1>4, <1>5 DEF Sound, Issues, SameMode, Has
  <2>3. /\ d.socket = Detached /\ ~Authenticated(d) /\ "reconnect" \notin d.timers
        /\ d.status # "failed"
    BY <2>2 DEF Linked
  <2>4. Sound(f)
    BY <2>1, <2>2, <2>3, LinkedConnects
  <2> QED BY <2>1, <2>4, SoundDispatch
<1> QED BY <1>3, <1>4, <1>5, SoundDispatch, SoundRefuses

\* doConnect of a client that has no connection and waits for none.
LEMMA ConnectSound ==
    ASSUME Base(c), Sound(c), Connect, ValkeyAssumption, ~later'
    PROVE  Sound(c') /\ c'.status # "connected"
<1>1. c \in Client /\ MaxRetries \in Nat
  BY DEF Base, ValkeyAssumption
<1>2. PICK d :
        /\ Marked(c, d) /\ d.status = c.status /\ d.timers = c.timers
        /\ \/ c' = d
           \/ Has(c, "unopened") /\ Connects(d, c')
           \/ /\ ~Has(c, "unopened") /\ c.status # "connecting"
              /\ Restarts(d, c') \/ (\E f : Restarts(d, f) /\ Connects(f, c'))
  BY <1>1, ConnectDoes
<1>3. Sound(d) /\ Linked(d)
  BY <1>2, SoundMarked DEF Sound
<1>4. /\ ~Authenticated(c) /\ (HasConnection(c) => c.status = "connecting")
      /\ c.status # "connected"
  BY DEF Connect, LaterOn
<1>5. ~Authenticated(d) /\ d.status # "connected"
  BY <1>2, <1>4 DEF Marked, Authenticated
<1>6. CASE Has(c, "unopened") /\ Connects(d, c')
  <2>1. /\ d.socket = Detached /\ "reconnect" \notin d.timers
        /\ d.status # "failed"
    BY <1>2, <1>3, <1>6 DEF Linked, Marked
  <2> QED BY <1>3, <1>5, <1>6, <2>1, LinkedConnects DEF Connects
<1>7. CASE Restarts(d, c')
  BY <1>3, <1>5, <1>7, LinkedRestarts DEF Restarts
<1>8. CASE c.status # "connecting" /\ \E f : Restarts(d, f) /\ Connects(f, c')
  <2>1. PICK f : Restarts(d, f) /\ Connects(f, c')
    BY <1>8
  <2>2. Sound(f) /\ ~Authenticated(f)
    BY <1>3, <1>5, <2>1, LinkedRestarts
  <2>3. FreeSockets(c) = SocketIds /\ "reconnect" \notin c.timers
    BY <1>4, <1>8 DEF HasConnection
  <2>4. f.socket = Detached
    <3>1. f.net = c.net
      BY <1>2, <2>1 DEF Marked, Restarts, SameLink
    <3>2. f.socket # Detached => f.socket \in SocketIds
      BY <2>2, Fields DEF Sound, Linked
    <3> QED BY <2>2, <2>3, <3>1, <3>2 DEF FreeSockets, Sound, Linked, Wired
  <2>5. "reconnect" \notin f.timers /\ f.status = "connecting"
    BY <1>2, <2>1, <2>3 DEF Restarts
  <2> QED BY <2>1, <2>2, <2>4, <2>5, LinkedConnects DEF Sound, Connects
<1> QED BY <1>2, <1>3, <1>5, <1>6, <1>7, <1>8

LEMMA CloseSound ==
    ASSUME Base(c), Sound(c), Close
    PROVE  Sound(c') /\ c'.status # "connected" /\ c'.socket = Detached
<1>1. c \in Client
  BY DEF Base
<1>2. PICK d :
        /\ Marked(c, d) /\ d.timers = c.timers
        /\ c.status # "disconnected"
        /\ \/ c' = d /\ c.status = "failed" /\ d.status = "failed"
           \/ /\ c.status # "failed" /\ d.status = "disconnected"
              /\ Has(d, "manual") /\ c' = CloseSocket(d)
  BY <1>1, CloseDoes
<1>3. CASE c' = d /\ c.status = "failed" /\ d.status = "failed"
  <2>1. Sound(c')
    BY <1>2, <1>3, SoundMarked
  <2> QED BY <1>3, <2>1 DEF Sound, Linked
<1>4. CASE /\ c.status # "failed" /\ d.status = "disconnected"
           /\ Has(d, "manual") /\ c' = CloseSocket(d)
  <2>1. d \in Client /\ SameLink(c, d) /\ SameQueues(c, d) /\ SameCalls(c, d)
        /\ (Has(d, "unopened") <=> Has(c, "unopened"))
        /\ (Authenticated(d) <=> Authenticated(c))
    BY <1>2 DEF Marked, Authenticated
  <2>2. Wired(d) /\ Told(d)
    BY <2>1 DEF Sound, Linked, Wired, Told, SameLink, SameCalls
  <2>3. Closing(d)
    BY <1>2, <1>4, <2>1, <2>2 DEF Closing, Sound, Linked, SameLink, SameQueues
  <2>4. d.status # "connected"
    BY <1>4
  <2> QED BY <1>4, <2>3, <2>4, LinkedCloseSocket
<1> QED BY <1>2, <1>3, <1>4

LEMMA ReconnectTimerSound ==
    ASSUME Base(c), Sound(c), ReconnectTimer, MaxRetries \in Nat
    PROVE  Sound(c') /\ ~Authenticated(c')
<1>1. c \in Client
  BY DEF Base
<1>2. PICK d :
        /\ "reconnect" \in c.timers /\ TimedOut(c, d, "reconnect")
        /\ \/ c' = d
           \/ Restarts(d, c')
           \/ \E f : Restarts(d, f) /\ Connects(f, c')
  BY <1>1, ReconnectTimerDoes
<1>3. Sound(d) /\ Linked(d)
  BY <1>2, SoundMarked DEF TimedOut, Sound
<1>4. ~Authenticated(c) /\ c.socket = Detached
  BY <1>2 DEF Sound, Linked
<1>5. ~Authenticated(d) /\ d.socket = Detached /\ "reconnect" \notin d.timers
  BY <1>2, <1>4 DEF TimedOut, Marked, SameLink, Authenticated
<1>6. CASE Restarts(d, c')
  BY <1>3, <1>5, <1>6, LinkedRestarts
<1>7. CASE \E f : Restarts(d, f) /\ Connects(f, c')
  <2>1. PICK f : Restarts(d, f) /\ Connects(f, c')
    BY <1>7
  <2>2. Sound(f) /\ ~Authenticated(f)
    BY <1>3, <1>5, <2>1, LinkedRestarts
  <2>3. f.socket = Detached /\ "reconnect" \notin f.timers /\ f.status # "failed"
    BY <1>5, <2>1 DEF Restarts, SameLink
  <2> QED BY <2>1, <2>2, <2>3, LinkedConnects DEF Sound
<1> QED BY <1>2, <1>3, <1>5, <1>6, <1>7

LEMMA ConnectionTimeoutSound ==
    ASSUME Base(c), Sound(c), ConnectionTimeout
    PROVE  /\ Sound(c')
           /\ \/ TimedOut(c, c', "connection")
              \/ c'.socket = Detached /\ c'.status # "connected"
<1>1. c \in Client
  BY DEF Base
<1>2. PICK d :
        /\ TimedOut(c, d, "connection") /\ "connection" \in c.timers
        /\ \/ c' = d /\ c.status \in {"connected", "failed"}
           \/ c' = Fail(d) /\ c.status \notin {"connected", "failed"}
  BY <1>1, ConnectionTimeoutDoes
<1>3. Sound(d) /\ Linked(d)
  BY <1>2, SoundMarked DEF TimedOut, Sound
<1>4. CASE c' = Fail(d) /\ c.status \notin {"connected", "failed"}
  <2>1. ~Authenticated(c) /\ ~Has(c, "unopened")
    BY <1>2, <1>4 DEF Sound, Linked
  <2>2. ~Authenticated(d) /\ ~Has(d, "unopened")
    BY <1>2, <2>1 DEF TimedOut, Has, Authenticated
  <2> QED BY <1>3, <1>4, <2>2, LinkedFail
<1> QED BY <1>2, <1>3, <1>4

\* A socket that exists is the current one.
LEMMA OneSocket ==
    ASSUME NEW d, NEW s \in SocketIds, Linked(d), d.net[s].state # "none"
    PROVE  s = d.socket /\ s # Detached /\ ~Has(d, "unopened") /\ "reconnect" \notin d.timers
           /\ d.status # "failed"
<1>1. s = d.socket
  BY DEF Linked, Wired
<1>2. s # Detached
  BY DEF SocketIds, Detached
<1> QED BY <1>1, <1>2 DEF Linked

LEMMA OpenedSound ==
    ASSUME Base(c), Sound(c), NEW s \in SocketIds, Opened(s)
    PROVE  /\ Sound(c') /\ ~Authenticated(c') /\ SameCalls(c, c')
           /\ c'.socket = s /\ Msgs(c') = Greeting
<1>1. c \in Client
  BY DEF Base
<1>2. PICK d : c.net[s].state = "opening" /\ Opens(c, d, s) /\ c' \in Authenticates(d)
  BY <1>1, OpenedDoes
<1>3. /\ s = c.socket /\ s # Detached /\ ~Has(c, "unopened") /\ "reconnect" \notin c.timers
      /\ c.status # "failed"
  BY <1>2, OneSocket DEF Sound
<1>4. ~Authenticated(c)
  BY <1>2, <1>3 DEF Sound, Linked
<1>5. PICK e : e = c'
  OBVIOUS
<1>6. d \in Client /\ e \in Authenticates(d)
  BY <1>2, <1>5 DEF Opens
<1>7. /\ e \in Client /\ SameMode(d, e) /\ SameQueues(d, e) /\ SameCalls(d, e)
      /\ e.socket = d.socket /\ SameStates(d, e)
      /\ d.socket # Detached => Msgs(e) = d.net[d.socket].wire \o Greeting
  BY <1>6, AuthenticatesIs
<1>8. /\ SameMode(c, e) /\ SameQueues(c, e) /\ SameCalls(c, e) /\ e.socket = s
  BY <1>2, <1>7 DEF Opens, SameMode, SameQueues, SameCalls
<1>9. /\ e.net[s].state = "open"
      /\ \A t \in SocketIds \ {s} : e.net[t] = c.net[t]
  BY <1>2, <1>7 DEF Opens, SameStates
<1>10. Wired(e)
  BY <1>3, <1>8, <1>9 DEF Sound, Linked, Wired
<1>11. Told(e)
  BY <1>8 DEF Sound, Linked, Told, SameCalls
<1>12. ~Has(e, "unopened") /\ ~Authenticated(e)
  BY <1>3, <1>4, <1>8 DEF SameMode, Has, Authenticated
<1>13. Linked(e)
  BY <1>3, <1>4, <1>7, <1>8, <1>10, <1>11, <1>12 DEF Sound, Linked, SameMode, SameQueues
<1>14. Msgs(e) = Greeting
  <2>1. d.net[s].wire = <<>>
    BY <1>2 DEF Opens, Sound, Linked, Wired
  <2>2. Msgs(e) = <<>> \o Greeting
    BY <1>2, <1>3, <1>7, <2>1 DEF Opens
  <2> QED BY <2>2, GreetingIs, ConcatEmpty
<1> QED BY <1>5, <1>8, <1>12, <1>13, <1>14, SoundAlone

LEMMA ClosedSound ==
    ASSUME Base(c), Sound(c), NEW s \in SocketIds, Refused(s) \/ Lost(s), ~later'
    PROVE  Sound(c') /\ c'.socket = Detached /\ c'.status # "connected" /\ Rejects(c, c')
<1>1. c \in Client
  BY DEF Base
<1>2. Closed(c, c', s)
  BY <1>1, OnCloseIs DEF Refused, Lost
<1>3. c.net[s].state # "none"
  BY DEF Refused, Lost
<1>4. s = c.socket /\ s # Detached /\ ~Has(c, "unopened")
  BY <1>3, OneSocket DEF Sound
<1>5. Authenticated(c) => ~c.opts.reconnect /\ c.net[s].state = "open"
  BY <1>4 DEF Sound, Linked, Refused, Lost, LaterOn
<1>6. Closing(c)
  BY <1>1, <1>4, <1>5 DEF Closing, Sound, Linked
<1>7. Rejects(c, c')
  BY <1>2 DEF Closed
<1> QED BY <1>2, <1>4, <1>6, <1>7, LinkedClosed

LEMMA SoundUses ==
    ASSUME NEW d, NEW e, NEW s \in SocketIds, Sound(d), Uses(d, e, s), d.net[s].state # "none"
    PROVE  Sound(e) /\ SameLink(d, e)
<1>1. s = d.socket
  BY OneSocket DEF Sound
<1>2. SameLink(d, e) /\ Told(e)
  BY <1>1 DEF Uses, SameLink, Sound, Linked, Told, SameCalls
<1> QED BY <1>2, SoundCalls DEF Uses

\* A message was answered: what is on the way lost its first message.
LEMMA LinkedAnswered ==
    ASSUME NEW d, NEW e, NEW s \in SocketIds, Linked(d), Answered(d, e, s), d.net[s].wire # <<>>
    PROVE  /\ Linked(e) /\ ~Has(d, "unopened") /\ ~Has(e, "unopened")
           /\ s = d.socket /\ e.socket = s /\ s # Detached
           /\ d.net[s].state = "open" /\ e.net[s].state = "open" /\ "reconnect" \notin d.timers
           /\ Msgs(d) # <<>> /\ Msgs(e) = Tail(Msgs(d)) /\ Head(Msgs(d)) = Head(d.net[s].wire)
<1>1. d.net[s].state = "open"
  BY DEF Linked, Wired
<1>2. s = d.socket /\ s # Detached /\ ~Has(d, "unopened") /\ "reconnect" \notin d.timers
  BY <1>1, OneSocket
<1>3. /\ e \in Client /\ SameMode(d, e) /\ SameQueues(d, e) /\ SameCalls(d, e)
      /\ e.wbuf = d.wbuf /\ e.socket = s
      /\ e.net[s].state = d.net[s].state /\ e.net[s].wire = Tail(d.net[s].wire)
      /\ \A t \in SocketIds \ {s} : e.net[t] = d.net[t]
  BY DEF Answered
<1>4. Wired(e)
  BY <1>1, <1>2, <1>3 DEF Linked, Wired
<1>5. Told(e)
  BY <1>3 DEF Linked, Told, SameCalls
<1>6. /\ \A flag : Has(e, flag) <=> Has(d, flag)
      /\ Authenticated(e) <=> Authenticated(d)
  BY <1>3 DEF SameMode, Has, Authenticated
<1>7. Linked(e)
  BY <1>1, <1>2, <1>3, <1>4, <1>5, <1>6 DEF Linked, SameMode, SameQueues
<1>8. Msgs(d) # <<>> /\ Msgs(e) = Tail(Msgs(d)) /\ Head(Msgs(d)) = Head(d.net[s].wire)
  <2>1. PICK x, w : x = d.net[s].wire /\ w = d.wbuf
    OBVIOUS
  <2>2. x \in Seq(Messages) /\ w \in Seq(Messages) /\ x # <<>>
    BY <2>1, Wires, Fields DEF Linked
  <2>3. Msgs(d) = x \o w /\ Msgs(e) = Tail(x) \o w
    BY <1>2, <1>3, <2>1 DEF Msgs
  <2>4. Tail(x \o w) = Tail(x) \o w
    BY <2>2, TailOfConcat
  <2>5. x \o w # <<>> /\ Head(x \o w) = Head(x)
    BY <2>2, HeadOfConcat
  <2> QED BY <2>1, <2>3, <2>4, <2>5
<1> QED BY <1>1, <1>2, <1>3, <1>6, <1>7, <1>8

LEMMA SoundAccepted ==
    ASSUME NEW d, NEW f, Linked(d), ~Authenticated(d), Accepted(d, f), ~Has(d, "unopened"),
           d.socket # Detached, d.net[d.socket].state = "open"
    PROVE  Sound(f) /\ Authenticated(f) /\ f.inflight.items = <<>>
<1>1. Wired(f) /\ Told(f)
  BY DEF Linked, Wired, Told, Accepted, SameLink, SameCalls
<1>2. Authenticated(f) /\ ~Has(f, "unopened")
  BY DEF Accepted, Authenticated, Has
<1>3. f.inflight.items = <<>>
  BY DEF Linked, Accepted, SameQueues
<1>4. Linked(f)
  BY <1>1, <1>2, <1>3 DEF Linked, Accepted, SameLink
<1>5. Len(f.inflight.items) = 0
  BY <1>3
<1>6. f.socket # Detached => Len(Msgs(f)) \in Nat
  BY <1>4, MsgsType DEF Linked
<1>7. f.socket # Detached => 0 <= Len(Msgs(f))
  BY <1>6
<1> QED BY <1>2, <1>3, <1>4, <1>5, <1>7 DEF Sound, Backed

LEMMA SoundSettles ==
    ASSUME NEW b, NEW d, NEW e, NEW s \in SocketIds, NEW x, NEW m, Sound(b), Authenticated(b),
           Answered(b, d, s), b.net[s].wire # <<>>, Settled(d, e, x, m)
    PROVE  /\ Sound(e) /\ Msgs(e) = Tail(Msgs(b)) /\ e.socket = s
           /\ e.inflight.items = Tail(b.inflight.items) /\ x = Head(b.inflight.items)
<1>1. /\ Linked(d) /\ ~Has(d, "unopened")
      /\ s = b.socket /\ d.socket = s /\ s # Detached /\ d.net[s].state = "open"
      /\ Msgs(b) # <<>> /\ Msgs(d) = Tail(Msgs(b))
  BY LinkedAnswered DEF Sound
<1>2. d.inflight = b.inflight /\ Authenticated(d)
  BY DEF Answered, SameQueues, SameMode, Authenticated, Has
<1>3. /\ e \in Client /\ SameMode(d, e) /\ SameLink(d, e) /\ x \in Cmds
      /\ d.inflight.items # <<>> /\ x = Head(d.inflight.items)
      /\ e.inflight.items = Tail(d.inflight.items)
      /\ e.outcome = [d.outcome EXCEPT ![x] = IF x = m THEN "own" ELSE "wrong"]
  BY DEF Settled
<1>4. Wired(e)
  BY <1>1, <1>3 DEF Linked, Wired, SameLink
<1>5. Told(e)
  <2>1. d.outcome \in [Cmds -> Outcomes]
    BY <1>1, Fields DEF Linked
  <2> QED BY <1>1, <1>3, <2>1 DEF Linked, Told
<1>6. Authenticated(e) /\ ~Has(e, "unopened")
  BY <1>1, <1>2, <1>3 DEF SameMode, Authenticated, Has
<1>7. Linked(e)
  BY <1>1, <1>2, <1>3, <1>4, <1>5, <1>6 DEF Linked, SameMode, SameLink
<1>8. Msgs(e) = Msgs(d)
  BY <1>3 DEF SameLink, Msgs
<1>9. Len(e.inflight.items) <= Len(Msgs(e))
  <2>1. PICK f, n : f = b.inflight.items /\ n = Msgs(b)
    OBVIOUS
  <2>2. f \in Seq(Cmds) /\ n \in Seq(Messages) /\ f # <<>> /\ n # <<>>
    BY <1>1, <1>2, <1>3, <2>1, Fields, MsgsType DEF Sound, Linked
  <2>3. /\ Len(f) \in Nat /\ Len(Tail(f)) = Len(f) - 1
        /\ Len(n) \in Nat /\ Len(Tail(n)) = Len(n) - 1
    BY <2>2, SeqFacts
  <2>4. Len(f) <= Len(n)
    BY <1>1, <2>1 DEF Sound, Backed
  <2>5. Len(Tail(f)) <= Len(Tail(n))
    BY <2>3, <2>4
  <2> QED BY <1>1, <1>2, <1>3, <1>8, <2>1, <2>5
<1> QED BY <1>1, <1>2, <1>3, <1>7, <1>8, <1>9 DEF Sound, Backed, SameLink

LEMMA SocketSound ==
    ASSUME Base(c), Sound(c), ~later', MaxRetries \in Nat, NEW s \in SocketIds,
           \/ Opened(s) \/ Refused(s) \/ Lost(s) \/ BecomesWritable(s)
           \/ HelloReply(s) \/ Reply(s)
    PROVE  Sound(c')
<1>1. c \in Client /\ Linked(c)
  BY DEF Base, Sound
<1>2. CASE BecomesWritable(s)
  <2>1. PICK d : c.net[s].state = "open" /\ Uses(c, d, s) /\ c' \in SendNextCommand(d)
    BY <1>1, <1>2, BecomesWritableDoes
  <2>2. Sound(d) /\ d \in Client
    BY <2>1, SoundUses DEF Uses
  <2>3. Advances(d, c')
    BY <2>1, <2>2, SendNextCommandIs
  <2> QED BY <2>2, <2>3, SoundAdvances
<1>3. CASE HelloReply(s)
  <2>1. PICK d : /\ ~Authenticated(c) /\ c.net[s].wire # <<>> /\ Answered(c, d, s)
                 /\ \/ \E f : Accepted(d, f) /\ c' \in SendNextCommand(f)
                    \/ c' = Fail(d)
    BY <1>1, <1>3, HelloReplyDoes
  <2>2. /\ Linked(d) /\ ~Has(d, "unopened") /\ ~Authenticated(d)
        /\ d.socket # Detached /\ d.net[d.socket].state = "open"
    BY <1>1, <2>1, LinkedAnswered DEF Answered, SameMode, Authenticated, Has
  <2>3. CASE c' = Fail(d)
    BY <2>2, <2>3, LinkedFail
  <2>4. CASE \E f : Accepted(d, f) /\ c' \in SendNextCommand(f)
    <3>1. PICK f : Accepted(d, f) /\ c' \in SendNextCommand(f)
      BY <2>4
    <3>2. Sound(f) /\ f \in Client
      BY <2>2, <3>1, SoundAccepted DEF Accepted
    <3>3. Advances(f, c')
      BY <3>1, <3>2, SendNextCommandIs
    <3> QED BY <3>2, <3>3, SoundAdvances
  <2> QED BY <2>1, <2>3, <2>4
<1>4. CASE Reply(s)
  <2>1. PICK d : /\ Authenticated(c) /\ c.net[s].wire # <<>> /\ Answered(c, d, s)
                 /\ \/ c' = d /\ c.inflight.items = <<>>
                    \/ \E x : Settled(d, c', x, Head(c.net[s].wire))
    BY <1>1, <1>4, ReplyDoes
  <2>2. CASE c' = d /\ c.inflight.items = <<>>
    <3>1. Linked(d) /\ d.socket # Detached /\ d.inflight.items = <<>>
      BY <1>1, <2>1, <2>2, LinkedAnswered DEF Answered, SameQueues
    <3>2. Len(Msgs(d)) \in Nat /\ Len(d.inflight.items) = 0
      BY <3>1, MsgsType DEF Linked
    <3> QED BY <2>2, <3>1, <3>2 DEF Sound, Backed
  <2> QED BY <2>1, <2>2, SoundSettles
<1> QED BY <1>2, <1>3, <1>4, OpenedSound, ClosedSound

LEMMA NextSound ==
    ASSUME Base(c), Sound(c), Next, ValkeyAssumption, ~later'
    PROVE  Sound(c')
<1>1. MaxRetries \in Nat /\ c \in Client
  BY DEF ValkeyAssumption, Base
<1>2. CASE RunDeferred
  <2>1. c' = c \/ c' \in AutoFlush(c)
    BY <1>2 DEF RunDeferred
  <2> QED BY <1>1, <2>1, AutoFlushIs, SoundAdvances
<1>3. CASE AfterReply
  <2>1. c' = c \/ c' \in SendNextCommand(c)
    BY <1>3 DEF AfterReply
  <2> QED BY <1>1, <2>1, SendNextCommandIs, SoundAdvances
<1>4. CASE \E s \in SocketIds :
             \/ Opened(s) \/ Refused(s) \/ Lost(s) \/ BecomesWritable(s)
             \/ HelloReply(s) \/ Reply(s)
  BY <1>1, <1>4, SocketSound
<1>5. CASE Send
  BY <1>5, SendSound
<1>6. CASE Connect
  BY <1>6, ConnectSound
<1>7. CASE Close
  BY <1>7, CloseSound
<1>8. CASE ReconnectTimer
  BY <1>1, <1>8, ReconnectTimerSound
<1>9. CASE ConnectionTimeout
  BY <1>9, ConnectionTimeoutSound
<1> QED BY <1>2, <1>3, <1>4, <1>5, <1>6, <1>7, <1>8, <1>9 DEF Next

LEMMA InitSound == ASSUME Init, ValkeyAssumption PROVE Sound(c)
<1>1. c \in Client
  BY InitBase DEF Base
<1>2. /\ c.status = "disconnected" /\ c.flags = {"unopened"} /\ c.timers = {}
      /\ c.socket = Detached /\ c.net = [s \in SocketIds |-> NoSocket]
      /\ c.outcome = [x \in Cmds |-> "unsent"] /\ c.inflight = EmptyFifo
  BY DEF Init
<1>3. NoSocket.state = "none" /\ NoSocket.wire = <<>> /\ EmptyFifo.items = <<>>
  BY DEF NoSocket, EmptyFifo
<1>4. Wired(c) /\ Told(c)
  BY <1>2, <1>3 DEF Wired, Told
<1>5. ~Authenticated(c)
  BY <1>2 DEF Authenticated, Has
<1>6. Linked(c)
  BY <1>1, <1>2, <1>3, <1>4, <1>5 DEF Linked
<1> QED BY <1>5, <1>6, SoundAlone

\* The inductive invariant of the first session.
SoundInv == BaseInv /\ (~later => Sound(c))

LEMMA SoundAlways == Spec => []SoundInv
<1>1. Init => SoundInv
  <2>1. Init => later \in BOOLEAN
    BY DEF Init
  <2> QED BY <2>1, ValkeyAssumption, InitBase, InitSound DEF SoundInv, BaseInv, Frames
<1>2. BaseInv /\ BaseInv' /\ SoundInv /\ [Next]_vars => SoundInv'
  <2> SUFFICES ASSUME BaseInv', SoundInv, [Next]_vars PROVE SoundInv'
    OBVIOUS
  <2>1. CASE Next
    <3>1. ~later' => Sound(c')
      BY <2>1, ValkeyAssumption, NextLater, NextSound DEF SoundInv, BaseInv
    <3> QED BY <3>1 DEF SoundInv
  <2>2. CASE UNCHANGED vars
    <3>1. c' = c /\ later' = later
      BY <2>2 DEF vars
    <3> QED BY <3>1, <2>2 DEF SoundInv
  <2> QED BY <2>1, <2>2
<1> QED BY <1>1, <1>2, BaseAlways, PTL DEF Spec

-----------------------------------------------------------------------------
(* Replies find their promises: no SELECT, whose reply finds none.         *)

\* What is on the way is what is in flight, or the greeting.
Exact(d) ==
    d.socket # Detached /\ d.net[d.socket].state = "open" =>
        Msgs(d) = IF Authenticated(d) THEN d.inflight.items ELSE <<Hello>>

NoneWrong(d) == \A x \in Cmds : d.outcome[x] # "wrong"

Precise(d) == Exact(d) /\ NoneWrong(d)

LEMMA PreciseSame ==
    ASSUME NEW d, NEW e, Precise(d), SameLink(d, e), SameQueues(d, e), NoneWrong(e),
           Authenticated(e) <=> Authenticated(d)
    PROVE  Precise(e)
BY DEF Precise, Exact, SameLink, SameQueues, Msgs

LEMMA PreciseMoves ==
    ASSUME NEW d, NEW e, NEW b, Sound(d), Precise(d), Moves(d, e, b),
           b # <<>> => Authenticated(d) \/ d.status = "connected"
    PROVE  Precise(e)
<1>1. /\ SameMode(d, e) /\ SameCalls(d, e) /\ SameStates(d, e) /\ e.socket = d.socket
      /\ b \in Seq(Cmds) /\ e.inflight.items = d.inflight.items \o b
      /\ d.socket # Detached => Msgs(e) = Msgs(d) \o b
  BY DEF Moves
<1>2. Authenticated(e) <=> Authenticated(d)
  BY <1>1 DEF SameMode, Authenticated, Has
<1>3. NoneWrong(e)
  BY <1>1 DEF Precise, NoneWrong, SameCalls
<1>4. ASSUME e.socket # Detached, e.net[e.socket].state = "open"
      PROVE  Msgs(e) = IF Authenticated(e) THEN e.inflight.items ELSE <<Hello>>
  <2>1. d \in Client
    BY DEF Sound, Linked
  <2>2. d.socket # Detached /\ d.net[d.socket].state = "open"
    BY <1>1, <1>4, <2>1, Fields DEF SameStates
  <2>3. Msgs(d) = IF Authenticated(d) THEN d.inflight.items ELSE <<Hello>>
    BY <2>2 DEF Precise, Exact
  <2>4. CASE Authenticated(d)
    BY <1>1, <1>2, <2>2, <2>3, <2>4
  <2>5. CASE ~Authenticated(d)
    <3>1. b = <<>>
      BY <2>5 DEF Sound, Linked
    <3>2. Msgs(d) \in Seq(Messages)
      BY <2>1, <2>2, MsgsType
    <3>3. Msgs(d) \o b = Msgs(d)
      BY <3>1, <3>2, ConcatEmpty
    <3> QED BY <1>1, <1>2, <2>2, <2>3, <2>5, <3>3
  <2> QED BY <2>4, <2>5
<1> QED BY <1>3, <1>4 DEF Precise, Exact

LEMMA PreciseAdvances ==
    ASSUME NEW d, NEW e, Sound(d), Precise(d), Advances(d, e)
    PROVE  Precise(e)
<1>1. PICK b \in Seq(Cmds) :
        Moves(d, e, b) /\ (b # <<>> => Authenticated(d) \/ d.status = "connected")
  BY DEF Advances
<1> QED BY <1>1, PreciseMoves

LEMMA PreciseDispatch ==
    ASSUME NEW d, NEW x \in Cmds, Sound(d), Precise(d), NEW e \in Dispatch(d, x)
    PROVE  Precise(e)
<1>1. d \in Client /\ d.outcome \in [Cmds -> Outcomes]
  BY Fields DEF Sound, Linked
<1>2. CASE Adds(d, e, x)
  <2>1. PICK b \in Seq(Cmds) : Moves(d, e, b) /\ (b # <<>> => Authenticated(d))
    BY <1>2 DEF Adds
  <2> QED BY <2>1, PreciseMoves
<1>3. ASSUME NEW why, why # "wrong", Refuses(d, e, x, why)
      PROVE  Precise(e)
  <2>1. NoneWrong(e)
    BY <1>1, <1>3 DEF Refuses, Precise, NoneWrong
  <2>2. Authenticated(e) <=> Authenticated(d)
    BY <1>3 DEF Refuses, SameMode, Authenticated, Has
  <2>3. SameLink(d, e) /\ SameQueues(d, e)
    BY <1>3 DEF Refuses
  <2> QED BY <2>1, <2>2, <2>3, PreciseSame
<1>4. Adds(d, e, x) \/ Refuses(d, e, x, "unreachable") \/ Refuses(d, e, x, "rejected")
  BY <1>1, DispatchIs
<1>5. Refuses(d, e, x, "unreachable") => Precise(e)
  BY <1>3
<1>6. Refuses(d, e, x, "rejected") => Precise(e)
  BY <1>3
<1> QED BY <1>2, <1>4, <1>5, <1>6

LEMMA PreciseMarked ==
    ASSUME NEW d, NEW e, Precise(d), Marked(d, e)
    PROVE  Precise(e)
<1>1. NoneWrong(e) /\ (Authenticated(e) <=> Authenticated(d))
  BY DEF Precise, NoneWrong, Marked, SameCalls, Authenticated
<1> QED BY <1>1, PreciseSame DEF Marked

LEMMA PreciseDetached ==
    ASSUME NEW d, NEW e, e.socket = Detached, NoneWrong(d), Rejects(d, e)
    PROVE  Precise(e)
BY DEF Precise, Exact, NoneWrong, Rejects

LEMMA NoneWrongCloseSocket ==
    ASSUME NEW d \in Client, NoneWrong(d)
    PROVE  NoneWrong(CloseSocket(d))
<1>1. PICK e : e = CloseSocket(d)
  OBVIOUS
<1>2. e = d \/ Dropped(d, e) \/ Closed(d, e, d.socket)
  BY <1>1, CloseSocketIs
<1>3. e.outcome = d.outcome \/ Rejects(d, e)
  BY <1>2 DEF Dropped, Closed, SameCalls
<1> QED BY <1>1, <1>3 DEF NoneWrong, Rejects

LEMMA NoneWrongFail ==
    ASSUME NEW d \in Client, NoneWrong(d)
    PROVE  NoneWrong(Fail(d))
<1>1. PICK f, g : f = Failed(d) /\ g = Raise(f, "manual")
  OBVIOUS
<1>2. f \in Client /\ Rejects(d, f)
  BY <1>1, FailedIs
<1>3. g \in Client /\ SameCalls(f, g)
  BY <1>1, <1>2, RaiseIs DEF Flags
<1>4. NoneWrong(f) /\ NoneWrong(g)
  BY <1>2, <1>3 DEF NoneWrong, Rejects, SameCalls
<1>5. Fail(d) = d \/ Fail(d) = f \/ Fail(d) = CloseSocket(g)
  BY <1>1 DEF Fail
<1> QED BY <1>3, <1>4, <1>5, NoneWrongCloseSocket

LEMMA PreciseConnects ==
    ASSUME NEW d, NEW e, Precise(d), Connects(d, e), d \in Client
    PROVE  Precise(e)
<1>1. d.net \in [SocketIds -> Sockets] /\ NewSocket.state = "opening"
  BY Fields DEF NewSocket
<1>2. e.net[e.socket].state = "opening"
  BY <1>1 DEF Connects
<1> QED BY <1>2 DEF Precise, Exact, NoneWrong, Connects, SameCalls

LEMMA PreciseRestarts ==
    ASSUME NEW d, NEW e, Precise(d), Restarts(d, e)
    PROVE  Precise(e)
<1>1. NoneWrong(e) /\ (Authenticated(e) <=> Authenticated(d))
  BY DEF Precise, NoneWrong, Restarts, SameCalls, Authenticated, Has
<1> QED BY <1>1, PreciseSame DEF Restarts

LEMMA SendPrecise ==
    ASSUME Base(c), Sound(c), Precise(c), Send, ValkeyAssumption
    PROVE  Precise(c')
<1>1. c \in Client /\ Unopened(c) /\ c.outcome \in [Cmds -> Outcomes]
  BY Fields DEF Base
<1>2. PICK x \in Cmds, k \in AllKinds :
        \E d :
          /\ Issues(c, d, x, k)
          /\ \/ ~Has(c, "unopened") /\ c' \in Dispatch(d, x)
             \/ \E f : Has(c, "unopened") /\ Connects(d, f) /\ c' \in Dispatch(f, x)
             \/ Refuses(d, c', x, "rejected")
  BY <1>1, SendDoes
<1>3. PICK d :
          /\ Issues(c, d, x, k)
          /\ \/ ~Has(c, "unopened") /\ c' \in Dispatch(d, x)
             \/ \E f : Has(c, "unopened") /\ Connects(d, f) /\ c' \in Dispatch(f, x)
             \/ Refuses(d, c', x, "rejected")
  BY <1>2
<1>4. Sound(d) /\ d \in Client
  BY <1>3, SoundIssues DEF Issues
<1>5. Precise(d)
  <2>1. NoneWrong(d)
    BY <1>1, <1>3 DEF Issues, Precise, NoneWrong
  <2>2. Authenticated(d) <=> Authenticated(c)
    BY <1>3 DEF Issues, SameMode, Authenticated, Has
  <2> QED BY <1>3, <2>1, <2>2, PreciseSame DEF Issues
<1>6. CASE \E f : Has(c, "unopened") /\ Connects(d, f) /\ c' \in Dispatch(f, x)
  <2>1. PICK f : Connects(d, f) /\ c' \in Dispatch(f, x)
    BY <1>6
  <2>2. Has(d, "unopened") /\ Linked(d)
    BY <1>3, <1>4, <1>6 DEF Sound, Issues, SameMode, Has
  <2>3. /\ d.socket = Detached /\ ~Authenticated(d) /\ "reconnect" \notin d.timers
        /\ d.status # "failed"
    BY <2>2 DEF Linked
  <2>4. Sound(f) /\ Precise(f)
    BY <1>4, <1>5, <2>1, <2>2, <2>3, LinkedConnects, PreciseConnects
  <2> QED BY <2>1, <2>4, PreciseDispatch
<1>7. CASE Refuses(d, c', x, "rejected")
  <2>1. d.outcome \in [Cmds -> Outcomes]
    BY <1>4, Fields
  <2>2. NoneWrong(c')
    BY <1>5, <1>7, <2>1 DEF Refuses, Precise, NoneWrong
  <2>3. Authenticated(c') <=> Authenticated(d)
    BY <1>7 DEF Refuses, SameMode, Authenticated, Has
  <2> QED BY <1>5, <1>7, <2>2, <2>3, PreciseSame DEF Refuses
<1> QED BY <1>3, <1>4, <1>5, <1>6, <1>7, PreciseDispatch

LEMMA ConnectPrecise ==
    ASSUME c \in Client, Precise(c), Connect, MaxRetries \in Nat
    PROVE  Precise(c')
<1>1. PICK d :
        /\ Marked(c, d)
        /\ \/ c' = d
           \/ Connects(d, c')
           \/ Restarts(d, c')
           \/ \E f : Restarts(d, f) /\ Connects(f, c')
  BY ConnectDoes
<1>2. Precise(d) /\ d \in Client
  BY <1>1, PreciseMarked DEF Marked
<1>3. CASE \E f : Restarts(d, f) /\ Connects(f, c')
  BY <1>2, <1>3, PreciseRestarts, PreciseConnects DEF Restarts
<1> QED BY <1>1, <1>2, <1>3, PreciseConnects, PreciseRestarts

LEMMA ReconnectTimerPrecise ==
    ASSUME c \in Client, Precise(c), ReconnectTimer, MaxRetries \in Nat
    PROVE  Precise(c')
<1>1. PICK d :
        /\ TimedOut(c, d, "reconnect")
        /\ \/ c' = d
           \/ Restarts(d, c')
           \/ \E f : Restarts(d, f) /\ Connects(f, c')
  BY ReconnectTimerDoes
<1>2. Precise(d) /\ d \in Client
  BY <1>1, PreciseMarked DEF TimedOut, Marked
<1>3. CASE \E f : Restarts(d, f) /\ Connects(f, c')
  BY <1>2, <1>3, PreciseRestarts, PreciseConnects DEF Restarts
<1> QED BY <1>1, <1>2, <1>3, PreciseRestarts

LEMMA ConnectionTimeoutPrecise ==
    ASSUME Base(c), Sound(c), Precise(c), ConnectionTimeout
    PROVE  Precise(c')
<1>1. c \in Client
  BY DEF Base
<1>2. PICK d : TimedOut(c, d, "connection") /\ (c' = d \/ c' = Fail(d))
  BY <1>1, ConnectionTimeoutDoes
<1>3. Precise(d) /\ d \in Client
  BY <1>2, PreciseMarked DEF TimedOut, Marked
<1>4. NoneWrong(c')
  BY <1>2, <1>3, NoneWrongFail DEF Precise
<1>5. TimedOut(c, c', "connection") \/ c'.socket = Detached
  BY ConnectionTimeoutSound
<1>6. TimedOut(c, c', "connection") => Precise(c')
  BY PreciseMarked DEF TimedOut
<1> QED BY <1>4, <1>5, <1>6 DEF Precise, Exact

LEMMA ClosePrecise ==
    ASSUME Base(c), Sound(c), Precise(c), Close
    PROVE  Precise(c')
<1>1. c \in Client
  BY DEF Base
<1>2. PICK d : Marked(c, d) /\ (c' = d \/ c' = CloseSocket(d))
  BY <1>1, CloseDoes
<1>3. NoneWrong(d) /\ d \in Client
  BY <1>2 DEF Precise, NoneWrong, Marked, SameCalls
<1>4. NoneWrong(c')
  BY <1>2, <1>3, NoneWrongCloseSocket
<1>5. c'.socket = Detached
  BY CloseSound
<1> QED BY <1>4, <1>5 DEF Precise, Exact

LEMMA HelloReplyPrecise ==
    ASSUME Base(c), Sound(c), Precise(c), NEW s \in SocketIds, HelloReply(s), MaxRetries \in Nat
    PROVE  Precise(c')
<1>1. c \in Client /\ Linked(c)
  BY DEF Base, Sound
<1>2. PICK d : /\ ~Authenticated(c) /\ c.net[s].wire # <<>> /\ Answered(c, d, s)
               /\ \/ \E f : Accepted(d, f) /\ c' \in SendNextCommand(f)
                  \/ c' = Fail(d)
  BY <1>1, HelloReplyDoes
<1>3. /\ Linked(d) /\ ~Has(d, "unopened")
      /\ s = c.socket /\ d.socket = s /\ s # Detached
      /\ c.net[s].state = "open" /\ d.net[s].state = "open"
      /\ Msgs(d) = Tail(Msgs(c))
  BY <1>1, <1>2, LinkedAnswered
<1>4. ~Authenticated(d) /\ NoneWrong(d) /\ d \in Client
  BY <1>2 DEF Answered, SameMode, SameCalls, Authenticated, Has, Precise, NoneWrong
<1>5. CASE c' = Fail(d)
  <2>1. NoneWrong(c') /\ c'.socket = Detached
    BY <1>3, <1>4, <1>5, NoneWrongFail, LinkedFail
  <2> QED BY <2>1 DEF Precise, Exact
<1>6. CASE \E f : Accepted(d, f) /\ c' \in SendNextCommand(f)
  <2>1. PICK f : Accepted(d, f) /\ c' \in SendNextCommand(f)
    BY <1>6
  <2>2. Sound(f) /\ Authenticated(f) /\ f.inflight.items = <<>> /\ f \in Client
    BY <1>3, <1>4, <2>1, SoundAccepted DEF Accepted
  <2>3. Msgs(f) = <<>>
    <3>1. Msgs(c) = <<Hello>>
      BY <1>2, <1>3 DEF Precise, Exact
    <3>2. Tail(<<Hello>>) = <<>>
      OBVIOUS
    <3>3. Msgs(f) = Msgs(d)
      BY <2>1 DEF Accepted, SameLink, Msgs
    <3> QED BY <1>3, <3>1, <3>2, <3>3
  <2>4. Precise(f)
    BY <1>4, <2>1, <2>2, <2>3 DEF Precise, Exact, NoneWrong, Accepted, SameCalls
  <2>5. Advances(f, c')
    BY <2>1, <2>2, SendNextCommandIs
  <2> QED BY <2>2, <2>4, <2>5, PreciseAdvances
<1> QED BY <1>2, <1>5, <1>6

\* The first message on the way is the first command in flight.
LEMMA ReplyPrecise ==
    ASSUME Base(c), Sound(c), Precise(c), NEW s \in SocketIds, Reply(s)
    PROVE  Precise(c')
<1>1. c \in Client /\ Linked(c) /\ c.outcome \in [Cmds -> Outcomes]
  BY Fields DEF Base, Sound
<1>2. PICK d : /\ Authenticated(c) /\ c.net[s].wire # <<>> /\ Answered(c, d, s)
               /\ \/ c' = d /\ c.inflight.items = <<>>
                  \/ \E x : Settled(d, c', x, Head(c.net[s].wire))
  BY <1>1, ReplyDoes
<1>3. /\ s = c.socket /\ s # Detached /\ c.net[s].state = "open"
      /\ Msgs(c) # <<>> /\ Head(Msgs(c)) = Head(c.net[s].wire)
  BY <1>1, <1>2, LinkedAnswered
<1>4. Msgs(c) = c.inflight.items
  BY <1>2, <1>3 DEF Precise, Exact
<1>5. PICK x : Settled(d, c', x, Head(c.net[s].wire))
  BY <1>2, <1>3, <1>4
<1>6. /\ Sound(c') /\ Msgs(c') = Tail(Msgs(c)) /\ c'.socket = s
      /\ c'.inflight.items = Tail(c.inflight.items) /\ x = Head(c.inflight.items)
  BY <1>2, <1>5, SoundSettles
<1>7. c'.outcome = [d.outcome EXCEPT ![x] = "own"] /\ d.outcome = c.outcome
  BY <1>2, <1>3, <1>4, <1>5, <1>6 DEF Settled, Answered, SameCalls
<1>8. NoneWrong(c')
  BY <1>1, <1>7 DEF Precise, NoneWrong
<1>9. Authenticated(c')
  BY <1>2, <1>5 DEF Settled, Answered, SameMode, Authenticated, Has
<1> QED BY <1>4, <1>6, <1>8, <1>9 DEF Precise, Exact

LEMMA NextPrecise ==
    ASSUME Base(c), Sound(c), Precise(c), Next, ValkeyAssumption, ~later', ~Database
    PROVE  Precise(c')
<1>1. MaxRetries \in Nat /\ c \in Client
  BY DEF ValkeyAssumption, Base
<1>2. CASE RunDeferred
  <2>1. c' = c \/ c' \in AutoFlush(c)
    BY <1>2 DEF RunDeferred
  <2> QED BY <1>1, <2>1, AutoFlushIs, PreciseAdvances
<1>3. CASE AfterReply
  <2>1. c' = c \/ c' \in SendNextCommand(c)
    BY <1>3 DEF AfterReply
  <2> QED BY <1>1, <2>1, SendNextCommandIs, PreciseAdvances
<1>4. CASE \E s \in SocketIds : Opened(s)
  <2>1. PICK s \in SocketIds : Opened(s)
    BY <1>4
  <2>2. ~Authenticated(c') /\ SameCalls(c, c') /\ Msgs(c') = Greeting
    BY <2>1, OpenedSound
  <2>3. NoneWrong(c') /\ Greeting = <<Hello>>
    BY <2>2 DEF Precise, NoneWrong, SameCalls, Greeting
  <2> QED BY <2>2, <2>3 DEF Precise, Exact
<1>5. CASE \E s \in SocketIds : Refused(s) \/ Lost(s)
  BY <1>5, ClosedSound, PreciseDetached DEF Precise
<1>6. CASE \E s \in SocketIds : BecomesWritable(s)
  <2>1. PICK s \in SocketIds : BecomesWritable(s)
    BY <1>6
  <2>2. PICK d : c.net[s].state = "open" /\ Uses(c, d, s) /\ c' \in SendNextCommand(d)
    BY <1>1, <2>1, BecomesWritableDoes
  <2>3. Sound(d) /\ SameLink(c, d) /\ d \in Client
    BY <2>2, SoundUses DEF Uses
  <2>4. Precise(d)
    <3>1. NoneWrong(d) /\ (Authenticated(d) <=> Authenticated(c)) /\ SameQueues(c, d)
      BY <2>2 DEF Uses, SameCalls, SameMode, Precise, NoneWrong, Authenticated, Has
    <3> QED BY <2>3, <3>1, PreciseSame
  <2>5. Advances(d, c')
    BY <2>2, <2>3, SendNextCommandIs
  <2> QED BY <2>3, <2>4, <2>5, PreciseAdvances
<1>7. CASE \E s \in SocketIds : HelloReply(s)
  BY <1>1, <1>7, HelloReplyPrecise
<1>8. CASE \E s \in SocketIds : Reply(s)
  BY <1>8, ReplyPrecise
<1>9. CASE Send
  BY <1>9, SendPrecise
<1>10. CASE Connect
  BY <1>1, <1>10, ConnectPrecise
<1>11. CASE Close
  BY <1>11, ClosePrecise
<1>12. CASE ReconnectTimer
  BY <1>1, <1>12, ReconnectTimerPrecise
<1>13. CASE ConnectionTimeout
  BY <1>13, ConnectionTimeoutPrecise
<1> QED BY <1>2, <1>3, <1>4, <1>5, <1>6, <1>7, <1>8, <1>9, <1>10, <1>11, <1>12, <1>13 DEF Next

LEMMA InitPrecise == ASSUME Init PROVE Precise(c)
<1>1. c.socket = Detached /\ c.outcome = [x \in Cmds |-> "unsent"]
  BY DEF Init
<1> QED BY <1>1 DEF Precise, Exact, NoneWrong

\* The inductive invariant of the first session without a database in the URL.
PreciseInv == ~later /\ ~Database => Precise(c)

LEMMA PreciseAlways == Spec => []PreciseInv
<1>1. Init => PreciseInv
  BY InitPrecise DEF PreciseInv
<1>2. SoundInv /\ PreciseInv /\ [Next]_vars => PreciseInv'
  <2> SUFFICES ASSUME SoundInv, PreciseInv, [Next]_vars PROVE PreciseInv'
    OBVIOUS
  <2>1. CASE Next
    <3>1. ~later' /\ ~Database => Precise(c')
      BY <2>1, ValkeyAssumption, NextLater, NextPrecise DEF SoundInv, BaseInv, PreciseInv
    <3> QED BY <3>1 DEF PreciseInv
  <2>2. CASE UNCHANGED vars
    <3>1. c' = c /\ later' = later
      BY <2>2 DEF vars
    <3> QED BY <3>1 DEF PreciseInv
  <2> QED BY <2>1, <2>2
<1> QED BY <1>1, <1>2, SoundAlways, PTL DEF Spec

\* Until a client that was authenticated has to connect again, every reply settles the
\* promise of the command it answers, if the URL names no database: no short write,
\* failed attempt, failure or close puts the promises and the replies out of step.
THEOREM FirstRepliesMatchHolds == ~Database => (Spec => []FirstRepliesMatch)
<1> SUFFICES ASSUME ~Database PROVE Spec => []FirstRepliesMatch
  OBVIOUS
<1>1. PreciseInv => FirstRepliesMatch
  BY DEF PreciseInv, Precise, NoneWrong, FirstRepliesMatch, RepliesMatch
<1> QED BY <1>1, PreciseAlways, PTL

\* Until then the promises in flight are those of the bytes on the way, in their order.
THEOREM InFlightExactHolds == ~Database => (Spec => []InFlightExact)
<1> SUFFICES ASSUME ~Database PROVE Spec => []InFlightExact
  OBVIOUS
<1>1. SoundInv /\ PreciseInv => InFlightExact
  <2> SUFFICES ASSUME SoundInv, PreciseInv, ~later, NEW s \in SocketIds,
                      c.net[s].state = "open", c.socket = s
               PROVE  LET msgs == c.net[s].wire \o c.wbuf
                      IN  \E k \in 0..Len(msgs) :
                            /\ \A i \in 1..k : msgs[i] \notin Cmds
                            /\ c.inflight.items = SubSeq(msgs, k + 1, Len(msgs))
    BY DEF InFlightExact
  <2>1. Linked(c) /\ Precise(c) /\ c \in Client /\ s # Detached
    BY Wires DEF SoundInv, Sound, Linked, PreciseInv
  <2>2. PICK m : m = c.net[s].wire \o c.wbuf
    OBVIOUS
  <2>3. m = IF Authenticated(c) THEN c.inflight.items ELSE <<Hello>>
    BY <2>1, <2>2 DEF Precise, Exact, Msgs
  <2>4. CASE Authenticated(c)
    <3>1. m \in Seq(Cmds) /\ c.inflight.items = m
      BY <2>1, <2>3, <2>4, Fields
    <3>2. m = SubSeq(m, 1, Len(m)) /\ 0 \in 0..Len(m) /\ 0 + 1 = 1
      BY <3>1
    <3>3. /\ \A i \in 1..0 : m[i] \notin Cmds
          /\ c.inflight.items = SubSeq(m, 0 + 1, Len(m))
      BY <3>1, <3>2
    <3> QED BY <2>2, <3>2, <3>3
  <2>5. CASE ~Authenticated(c)
    <3>1. m = <<Hello>> /\ c.inflight.items = <<>>
      BY <2>1, <2>3, <2>5 DEF Linked
    <3>2. Len(m) = 1 /\ m[1] = Hello /\ SubSeq(m, 1 + 1, Len(m)) = <<>>
      BY <3>1
    <3>3. Hello \notin Cmds
      BY DEF Hello, Cmds
    <3>4. 1 \in 0..Len(m) /\ \A i \in 1..1 : m[i] \notin Cmds
      BY <3>2, <3>3
    <3> QED BY <2>2, <3>1, <3>2, <3>4
  <2> QED BY <2>4, <2>5
<1> QED BY <1>1, SoundAlways, PreciseAlways, PTL

-----------------------------------------------------------------------------
(* Something looks at the queue again: no command sent by its own method.  *)

\* What waits while the client is connected has a reply, a write or a flush to
\* come.
Covered(d) ==
    d.status = "connected" /\ d.queue.items # <<>> =>
        Msgs(d) # <<>> \/ (d.registered /\ HeadPipelines(d))

LEMMA StillOnTheWay ==
    ASSUME NEW d, NEW e, NEW b, Sound(d), Moves(d, e, b), d.socket # Detached,
           Msgs(d) # <<>> \/ e.inflight.items # <<>>, Sound(e), Authenticated(e)
    PROVE  Msgs(e) # <<>>
<1>1. d \in Client /\ e \in Client /\ e.socket = d.socket /\ b \in Seq(Cmds)
      /\ Msgs(e) = Msgs(d) \o b
  BY DEF Sound, Linked, Moves
<1>2. CASE Msgs(d) # <<>>
  <2>1. PICK m : m = Msgs(d)
    OBVIOUS
  <2>2. m \in Seq(Messages) /\ b \in Seq(Messages) /\ m # <<>>
    BY <1>1, <1>2, <2>1, MsgsType, CmdsAreMessages
  <2>3. m \o b # <<>>
    BY <2>2, HeadOfConcat
  <2> QED BY <1>1, <2>1, <2>3
<1>3. CASE e.inflight.items # <<>>
  <2>1. PICK f, m : f = e.inflight.items /\ m = Msgs(e)
    OBVIOUS
  <2>2. f \in Seq(Cmds) /\ m \in Seq(Messages) /\ f # <<>>
    BY <1>1, <1>3, <2>1, Fields, MsgsType
  <2>3. Len(f) <= Len(m)
    BY <1>1, <2>1 DEF Sound, Backed
  <2>4. Len(f) > 0 /\ Len(f) \in Nat
    BY <2>2
  <2>5. m # <<>>
    BY <2>2, <2>3, <2>4
  <2> QED BY <2>1, <2>5
<1> QED BY <1>2, <1>3

\* A connected client is authenticated and has its socket.
LEMMA ConnectedIs ==
    ASSUME NEW d, Sound(d), d.status = "connected"
    PROVE  Authenticated(d) /\ d.socket # Detached
BY DEF Sound, Linked

LEMMA CoveredSendNext ==
    ASSUME NEW d, NEW e \in SendNextCommand(d), Sound(d)
    PROVE  Covered(e)
<1>1. d \in Client
  BY DEF Sound, Linked
<1>2. /\ Advances(d, e)
      /\ Authenticated(d) /\ e.queue.items # <<>> =>
            \/ d.wbuf # <<>> \/ e.inflight.items # <<>>
            \/ e.registered /\ HeadPipelines(e)
  BY <1>1, SendNextCommandIs
<1>3. PICK b \in Seq(Cmds) : Moves(d, e, b)
  BY <1>2 DEF Advances
<1>4. SUFFICES ASSUME e.status = "connected", e.queue.items # <<>>
               PROVE  Msgs(e) # <<>> \/ (e.registered /\ HeadPipelines(e))
  BY DEF Covered
<1>5. Sound(e) /\ Authenticated(e)
  BY <1>2, <1>4, SoundAdvances, ConnectedIs
<1>6. Authenticated(d) /\ d.socket # Detached
  BY <1>3, <1>4, ConnectedIs DEF Moves, SameMode
<1>7. d.wbuf # <<>> => Msgs(d) # <<>>
  BY <1>1, <1>6, MsgsType
<1> QED BY <1>2, <1>3, <1>4, <1>5, <1>6, <1>7, StillOnTheWay

LEMMA CoveredAutoFlush ==
    ASSUME NEW d, NEW e \in AutoFlush(d), Sound(d), Covered(d)
    PROVE  Covered(e)
<1>1. d \in Client
  BY DEF Sound, Linked
<1>2. /\ Advances(d, e)
      /\ d.status = "connected" /\ e.queue.items # <<>> =>
            e.inflight.items # <<>> \/ ~HeadPipelines(d)
  BY <1>1, AutoFlushIs
<1>3. PICK b \in Seq(Cmds) : Moves(d, e, b) /\ Waiting(e) = Waiting(d)
  BY <1>2 DEF Advances
<1>4. SUFFICES ASSUME e.status = "connected", e.queue.items # <<>>
               PROVE  Msgs(e) # <<>>
  BY DEF Covered
<1>5. Sound(e) /\ Authenticated(e)
  BY <1>2, <1>4, SoundAdvances, ConnectedIs
<1>6. d.status = "connected" /\ d.socket # Detached
  BY <1>3, <1>4, ConnectedIs DEF Moves, SameMode
<1>7. d.queue.items # <<>>
  <2> SUFFICES ASSUME d.queue.items = <<>> PROVE FALSE
    OBVIOUS
  <2>1. PICK f, q : f = d.inflight.items /\ q = e.queue.items
    OBVIOUS
  <2>2. f \in Seq(Cmds) /\ q \in Seq(Cmds) /\ b \in Seq(Cmds) /\ q # <<>>
    BY <1>1, <1>3, <1>4, <2>1, Fields DEF Moves
  <2>3. (f \o b) \o q = f \o <<>>
    BY <1>3, <2>1 DEF Waiting, Moves
  <2>4. Len((f \o b) \o q) = Len(f) + Len(b) + Len(q) /\ Len(f \o <<>>) = Len(f)
    BY <2>2
  <2>5. Len(f) \in Nat /\ Len(b) \in Nat /\ Len(q) \in Nat /\ Len(q) > 0
    BY <2>2
  <2> QED BY <2>3, <2>4, <2>5
<1>8. Msgs(d) # <<>> \/ HeadPipelines(d)
  BY <1>6, <1>7 DEF Covered
<1> QED BY <1>2, <1>3, <1>4, <1>5, <1>6, <1>8, StillOnTheWay

LEMMA CoveredSame ==
    ASSUME NEW d, NEW e, Covered(d), e.status = d.status, SameLink(d, e), SameQueues(d, e),
           e.registered = d.registered, e.kind = d.kind
    PROVE  Covered(e)
<1>1. HeadPipelines(e) <=> HeadPipelines(d)
  BY HeadKept DEF SameQueues
<1> QED BY <1>1 DEF Covered, SameLink, SameQueues, Msgs

LEMMA CoveredDispatch ==
    ASSUME NEW d, NEW x \in Cmds, NEW e \in Dispatch(d, x), Sound(d), Covered(d),
           d.kind[x] # "typed"
    PROVE  Covered(e)
<1>1. d \in Client /\ Sound(e)
  BY SoundDispatch DEF Sound, Linked
<1>2. CASE \/ Refuses(d, e, x, "unreachable") \/ Refuses(d, e, x, "rejected")
  BY <1>2, CoveredSame DEF Refuses, SameMode
<1>3. CASE /\ Adds(d, e, x)
           /\ d.status = "connected" /\ e.queue.items # <<>> => Remembered(d, e, x)
  <2>1. PICK b \in Seq(Cmds) : Moves(d, e, b)
    BY <1>3 DEF Adds
  <2>2. SUFFICES ASSUME e.status = "connected", e.queue.items # <<>>
                 PROVE  Msgs(e) # <<>> \/ (e.registered /\ HeadPipelines(e))
    BY DEF Covered
  <2>3. d.status = "connected" /\ d.socket # Detached /\ Authenticated(d) /\ Authenticated(e)
    BY <1>1, <2>1, <2>2, ConnectedIs DEF Moves, SameMode
  <2>4. CASE /\ d.queue.items # <<>> /\ (HeadPipelines(d) => HeadPipelines(e))
             /\ d.registered => e.registered
    <3>1. Msgs(d) # <<>> \/ (d.registered /\ HeadPipelines(d))
      BY <2>3, <2>4 DEF Covered
    <3> QED BY <1>1, <2>1, <2>3, <2>4, <3>1, StillOnTheWay
  <2>5. CASE d.inflight.items # <<>>
    <3>1. d.inflight.items \in Seq(Cmds) /\ b \in Seq(Cmds)
          /\ e.inflight.items = d.inflight.items \o b
      BY <1>1, <2>1, Fields DEF Moves
    <3>2. e.inflight.items # <<>>
      BY <2>5, <3>1, HeadOfConcat
    <3> QED BY <1>1, <2>1, <2>3, <3>2, StillOnTheWay
  <2>6. CASE e.registered /\ (d.kind[x] # "typed" => HeadPipelines(e))
    BY <2>6
  <2> QED BY <1>3, <2>2, <2>3, <2>4, <2>5, <2>6 DEF Remembered
<1> QED BY <1>1, <1>2, <1>3, DispatchIs

\* The command that is sent is none of those that wait.
LEMMA CoveredIssues ==
    ASSUME NEW d, NEW e, NEW x \in Cmds, NEW k, Base(d), Covered(d), NextUnsent(d, x),
           Issues(d, e, x, k)
    PROVE  Covered(e)
<1>1. d \in Client /\ d.queue.items \in Seq(Cmds) /\ d.kind \in [Cmds -> AllKinds]
  BY Fields DEF Base
<1>2. CASE d.queue.items = <<>>
  BY <1>2 DEF Covered, Issues, SameQueues
<1>3. CASE d.queue.items # <<>>
  <2>1. PICK y : y = Head(d.queue.items)
    OBVIOUS
  <2>2. y \in Cmds /\ y \in Items(d.queue)
    BY <1>1, <1>3, <2>1, SeqFacts DEF Items
  <2>3. PICK i \in 1..Len(Waiting(d)) : Waiting(d)[i] = y
    BY <1>1, <2>2, ItemsWait
  <2>4. d.outcome[y] # "unsent"
    BY <2>3 DEF Base, Ordered
  <2>5. y # x
    BY <2>4 DEF NextUnsent
  <2>6. e.kind[y] = d.kind[y]
    BY <1>1, <2>2, <2>5 DEF Issues
  <2>7. HeadPipelines(e) <=> HeadPipelines(d)
    BY <2>1, <2>6 DEF HeadPipelines, Pipelines, Issues, SameQueues
  <2> QED BY <2>7 DEF Covered, Issues, SameMode, SameLink, SameQueues, Msgs
<1> QED BY <1>2, <1>3

Untyped(d) == \A x \in Cmds : d.kind[x] # "typed"

LEMMA DispatchKinds ==
    ASSUME NEW d \in Client, NEW x \in Cmds, NEW e \in Dispatch(d, x)
    PROVE  e.kind = d.kind
BY DispatchIs DEF Adds, Moves, SameCalls, Refuses

LEMMA SendNextKinds ==
    ASSUME NEW d \in Client, NEW e \in SendNextCommand(d)
    PROVE  e.kind = d.kind
BY SendNextCommandIs DEF Advances, Moves, SameCalls

LEMMA CloseSocketKinds ==
    ASSUME NEW d \in Client
    PROVE  CloseSocket(d).kind = d.kind
<1>1. PICK e : e = CloseSocket(d)
  OBVIOUS
<1>2. e = d \/ Dropped(d, e) \/ Closed(d, e, d.socket)
  BY <1>1, CloseSocketIs
<1> QED BY <1>1, <1>2 DEF Dropped, Closed, Rejects, SameCalls

LEMMA FailKinds ==
    ASSUME NEW d \in Client
    PROVE  Fail(d).kind = d.kind
<1>1. PICK f, g : f = Failed(d) /\ g = Raise(f, "manual")
  OBVIOUS
<1>2. f \in Client /\ f.kind = d.kind
  BY <1>1, FailedIs DEF Rejects
<1>3. g \in Client /\ g.kind = d.kind
  BY <1>1, <1>2, RaiseIs DEF Flags, SameCalls
<1>4. Fail(d) = d \/ Fail(d) = f \/ Fail(d) = CloseSocket(g)
  BY <1>1 DEF Fail
<1> QED BY <1>2, <1>3, <1>4, CloseSocketKinds

\* Only a call gives a command its kind.
LEMMA SocketKinds ==
    ASSUME c \in Client, MaxRetries \in Nat, NEW s \in SocketIds,
           \/ Opened(s) \/ Refused(s) \/ Lost(s) \/ BecomesWritable(s)
           \/ HelloReply(s) \/ Reply(s)
    PROVE  c'.kind = c.kind
<1>1. CASE Opened(s)
  <2>1. PICK d : Opens(c, d, s) /\ c' \in Authenticates(d)
    BY <1>1, OpenedDoes
  <2>2. SameCalls(d, c')
    BY <2>1, AuthenticatesIs DEF Opens
  <2> QED BY <2>1, <2>2 DEF Opens, SameCalls
<1>2. CASE Refused(s) \/ Lost(s)
  <2>1. Closed(c, c', s)
    BY <1>2, OnCloseIs DEF Refused, Lost
  <2> QED BY <2>1 DEF Closed, Rejects
<1>3. CASE BecomesWritable(s)
  <2>1. PICK d : Uses(c, d, s) /\ c' \in SendNextCommand(d)
    BY <1>3, BecomesWritableDoes
  <2> QED BY <2>1, SendNextKinds DEF Uses, SameCalls
<1>4. CASE HelloReply(s)
  <2>1. PICK d : /\ Answered(c, d, s)
                 /\ \/ \E f : Accepted(d, f) /\ c' \in SendNextCommand(f)
                    \/ c' = Fail(d)
    BY <1>4, HelloReplyDoes
  <2> QED BY <2>1, SendNextKinds, FailKinds DEF Answered, Accepted, SameCalls
<1>5. CASE Reply(s)
  <2>1. PICK d : /\ Answered(c, d, s)
                 /\ c' = d \/ \E x : Settled(d, c', x, Head(c.net[s].wire))
    BY <1>5, ReplyDoes
  <2> QED BY <2>1 DEF Answered, Settled, SameCalls
<1> QED BY <1>1, <1>2, <1>3, <1>4, <1>5

LEMMA NextUntyped ==
    ASSUME Base(c), Untyped(c), Next, ValkeyAssumption, "typed" \notin Kinds
    PROVE  Untyped(c')
<1>1. MaxRetries \in Nat /\ c \in Client /\ Unopened(c)
  BY DEF ValkeyAssumption, Base
<1>2. CASE Send
  <2>1. PICK x \in Cmds, k \in AllKinds :
          \E d :
            /\ k \in Kinds /\ Issues(c, d, x, k)
            /\ \/ ~Has(c, "unopened") /\ c' \in Dispatch(d, x)
               \/ \E f : Has(c, "unopened") /\ Connects(d, f) /\ c' \in Dispatch(f, x)
               \/ Refuses(d, c', x, "rejected")
    BY <1>1, <1>2, SendDoes
  <2>2. PICK d :
            /\ k \in Kinds /\ Issues(c, d, x, k)
            /\ \/ ~Has(c, "unopened") /\ c' \in Dispatch(d, x)
               \/ \E f : Has(c, "unopened") /\ Connects(d, f) /\ c' \in Dispatch(f, x)
               \/ Refuses(d, c', x, "rejected")
    BY <2>1
  <2>3. d \in Client /\ d.kind = [c.kind EXCEPT ![x] = k]
    BY <2>2 DEF Issues
  <2>4. c'.kind = d.kind
    <3>1. CASE c' \in Dispatch(d, x)
      BY <2>3, <3>1, DispatchKinds
    <3>2. CASE \E f : Connects(d, f) /\ c' \in Dispatch(f, x)
      <4>1. PICK f : Connects(d, f) /\ c' \in Dispatch(f, x)
        BY <3>2
      <4>2. f \in Client /\ f.kind = d.kind
        BY <4>1 DEF Connects, SameCalls
      <4> QED BY <4>1, <4>2, DispatchKinds
    <3>3. CASE Refuses(d, c', x, "rejected")
      BY <3>3 DEF Refuses
    <3> QED BY <2>2, <3>1, <3>2, <3>3
  <2>5. c.kind \in [Cmds -> AllKinds] /\ k # "typed"
    BY <1>1, <2>2, Fields
  <2> QED BY <2>3, <2>4, <2>5 DEF Untyped
<1>3. CASE RunDeferred
  <2>1. c' = c \/ c' \in AutoFlush(c)
    BY <1>3 DEF RunDeferred
  <2>2. c'.kind = c.kind
    <3>1. CASE c' \in AutoFlush(c)
      <4>1. Advances(c, c')
        BY <1>1, <3>1, AutoFlushIs
      <4> QED BY <4>1 DEF Advances, Moves, SameCalls
    <3> QED BY <2>1, <3>1
  <2> QED BY <2>2 DEF Untyped
<1>4. CASE AfterReply
  <2>1. c' = c \/ c' \in SendNextCommand(c)
    BY <1>4 DEF AfterReply
  <2>2. c'.kind = c.kind
    BY <1>1, <2>1, SendNextKinds
  <2> QED BY <2>2 DEF Untyped
<1>5. CASE Connect
  <2>1. PICK d :
          /\ Marked(c, d)
          /\ \/ c' = d
             \/ Connects(d, c')
             \/ Restarts(d, c')
             \/ \E f : Restarts(d, f) /\ Connects(f, c')
    BY <1>1, <1>5, ConnectDoes
  <2>2. d \in Client /\ d.kind = c.kind
    BY <2>1 DEF Marked, SameCalls
  <2>3. c'.kind = d.kind
    <3>1. CASE c' = d
      BY <3>1
    <3>2. CASE Connects(d, c')
      BY <3>2 DEF Connects, SameCalls
    <3>3. CASE Restarts(d, c')
      BY <3>3 DEF Restarts, SameCalls
    <3>4. CASE \E f : Restarts(d, f) /\ Connects(f, c')
      <4>1. PICK f : Restarts(d, f) /\ Connects(f, c')
        BY <3>4
      <4>2. f.kind = d.kind
        BY <4>1 DEF Restarts, SameCalls
      <4>3. c'.kind = f.kind
        BY <4>1 DEF Connects, SameCalls
      <4> QED BY <4>2, <4>3
    <3> QED BY <2>1, <3>1, <3>2, <3>3, <3>4
  <2> QED BY <2>2, <2>3 DEF Untyped
<1>6. CASE Close
  <2>1. PICK d : Marked(c, d) /\ (c' = d \/ c' = CloseSocket(d))
    BY <1>1, <1>6, CloseDoes
  <2>2. d \in Client /\ d.kind = c.kind
    BY <2>1 DEF Marked, SameCalls
  <2>3. c'.kind = d.kind
    <3>1. CASE c' = d
      BY <3>1
    <3>2. CASE c' = CloseSocket(d)
      BY <2>2, <3>2, CloseSocketKinds
    <3> QED BY <2>1, <3>1, <3>2
  <2> QED BY <2>2, <2>3 DEF Untyped
<1>7. CASE ReconnectTimer \/ ConnectionTimeout
  <2>1. PICK d, timer :
          /\ TimedOut(c, d, timer)
          /\ \/ c' = d \/ c' = Fail(d)
             \/ Restarts(d, c')
             \/ \E f : Restarts(d, f) /\ Connects(f, c')
    BY <1>1, <1>7, ReconnectTimerDoes, ConnectionTimeoutDoes
  <2>2. d \in Client /\ d.kind = c.kind
    BY <2>1 DEF TimedOut, Marked, SameCalls
  <2>3. c'.kind = d.kind
    <3>1. CASE c' = Fail(d)
      BY <2>2, <3>1, FailKinds
    <3>2. CASE \E f : Restarts(d, f) /\ Connects(f, c')
      BY <3>2 DEF Connects, Restarts, SameCalls
    <3>3. CASE c' = d \/ Restarts(d, c')
      BY <3>3 DEF Restarts, SameCalls
    <3> QED BY <2>1, <3>1, <3>2, <3>3
  <2> QED BY <2>2, <2>3 DEF Untyped
<1>8. CASE \E s \in SocketIds :
             \/ Opened(s) \/ Refused(s) \/ Lost(s) \/ BecomesWritable(s)
             \/ HelloReply(s) \/ Reply(s)
  BY <1>1, <1>8, SocketKinds DEF Untyped
<1> QED BY <1>2, <1>3, <1>4, <1>5, <1>6, <1>7, <1>8 DEF Next

\* Where the microtasks of a reply run, and right after, the claim rests.
CoveredNow(d, fr) == fr \in {"loop", "js"} => Covered(d)

LEMMA SendCovered ==
    ASSUME Base(c), Sound(c), Covered(c), Send, ValkeyAssumption, "typed" \notin Kinds
    PROVE  Covered(c')
<1>1. c \in Client /\ Unopened(c) /\ c.kind \in [Cmds -> AllKinds]
  BY Fields DEF Base
<1>2. PICK x \in Cmds, k \in AllKinds :
        \E d :
          /\ k \in Kinds /\ NextUnsent(c, x) /\ Issues(c, d, x, k)
          /\ \/ ~Has(c, "unopened") /\ c' \in Dispatch(d, x)
             \/ \E f : Has(c, "unopened") /\ Connects(d, f) /\ c' \in Dispatch(f, x)
             \/ Refuses(d, c', x, "rejected")
  BY <1>1, SendDoes
<1>3. PICK d :
          /\ k \in Kinds /\ NextUnsent(c, x) /\ Issues(c, d, x, k)
          /\ \/ ~Has(c, "unopened") /\ c' \in Dispatch(d, x)
             \/ \E f : Has(c, "unopened") /\ Connects(d, f) /\ c' \in Dispatch(f, x)
             \/ Refuses(d, c', x, "rejected")
  BY <1>2
<1>4. Sound(d) /\ Covered(d)
  BY <1>3, SoundIssues, CoveredIssues
<1>5. d.kind[x] # "typed"
  BY <1>1, <1>3 DEF Issues
<1>6. CASE \E f : Has(c, "unopened") /\ Connects(d, f) /\ c' \in Dispatch(f, x)
  <2>1. PICK f : Connects(d, f) /\ c' \in Dispatch(f, x)
    BY <1>6
  <2>2. Has(d, "unopened") /\ Linked(d)
    BY <1>3, <1>4, <1>6 DEF Sound, Issues, SameMode, Has
  <2>3. /\ d.socket = Detached /\ ~Authenticated(d) /\ "reconnect" \notin d.timers
        /\ d.status = "disconnected"
    BY <2>2 DEF Linked
  <2>4. Sound(f)
    BY <2>1, <2>2, <2>3, LinkedConnects
  <2>5. Covered(f) /\ f.kind = d.kind
    BY <2>1, <2>3 DEF Connects, SameCalls, Covered
  <2> QED BY <1>5, <2>1, <2>4, <2>5, CoveredDispatch
<1>7. CASE Refuses(d, c', x, "rejected")
  BY <1>4, <1>7, CoveredSame DEF Refuses, SameMode
<1> QED BY <1>3, <1>4, <1>5, <1>6, <1>7, CoveredDispatch

LEMMA NextCovered ==
    ASSUME Base(c), Sound(c), CoveredNow(c, frame), Next, ValkeyAssumption, ~later',
           "typed" \notin Kinds
    PROVE  CoveredNow(c', frame')
<1>1. MaxRetries \in Nat /\ c \in Client /\ Sound(c')
  BY NextSound DEF ValkeyAssumption, Base
<1>2. SUFFICES ASSUME frame' \in {"loop", "js"} PROVE Covered(c')
  BY DEF CoveredNow
<1>3. c'.status # "connected" => Covered(c')
  BY DEF Covered
<1>4. CASE Send
  <2>1. Covered(c)
    BY <1>2, <1>4 DEF CoveredNow, Send, Calling
  <2> QED BY <1>4, <2>1, SendCovered
<1>5. CASE Connect
  BY <1>3, <1>5, ConnectSound
<1>6. CASE Close
  BY <1>3, <1>6, CloseSound
<1>7. CASE RunDeferred
  <2>1. Covered(c) /\ (c' = c \/ c' \in AutoFlush(c))
    BY <1>2, <1>7 DEF RunDeferred, CoveredNow
  <2> QED BY <2>1, CoveredAutoFlush
<1>8. CASE AfterReply
  <2>1. (c' = c /\ c.status # "connected") \/ c' \in SendNextCommand(c)
    BY <1>8 DEF AfterReply
  <2> QED BY <1>3, <2>1, CoveredSendNext
<1>9. CASE ReconnectTimer
  <2>1. ~Authenticated(c')
    BY <1>1, <1>9, ReconnectTimerSound
  <2> QED BY <1>1, <1>3, <2>1, ConnectedIs
<1>10. CASE ConnectionTimeout
  <2>1. Covered(c)
    BY <1>10 DEF ConnectionTimeout, OnLoop, CoveredNow
  <2>2. TimedOut(c, c', "connection") => Covered(c')
    BY <2>1, CoveredSame DEF TimedOut, Marked, SameCalls
  <2> QED BY <1>3, <1>10, <2>2, ConnectionTimeoutSound
<1>11. ASSUME NEW s \in SocketIds,
              \/ Opened(s) \/ Refused(s) \/ Lost(s) \/ BecomesWritable(s)
              \/ HelloReply(s) \/ Reply(s)
       PROVE  Covered(c')
  <2>1. CASE Opened(s)
    <3>1. ~Authenticated(c')
      BY <2>1, OpenedSound
    <3> QED BY <1>1, <1>3, <3>1, ConnectedIs
  <2>2. CASE Refused(s) \/ Lost(s)
    BY <1>3, <2>2, ClosedSound
  <2>3. CASE BecomesWritable(s)
    <3>1. PICK d : c.net[s].state = "open" /\ Uses(c, d, s) /\ c' \in SendNextCommand(d)
      BY <1>1, <2>3, BecomesWritableDoes
    <3>2. Sound(d)
      BY <3>1, SoundUses
    <3> QED BY <3>1, <3>2, CoveredSendNext
  <2>4. CASE HelloReply(s)
    <3>1. PICK d : /\ ~Authenticated(c) /\ c.net[s].wire # <<>> /\ Answered(c, d, s)
                   /\ \/ \E f : Accepted(d, f) /\ c' \in SendNextCommand(f) /\ frame' = "data"
                      \/ c' = Fail(d)
      BY <1>1, <2>4, HelloReplyDoes
    <3>2. c' = Fail(d)
      BY <1>2, <3>1
    <3>3. Linked(d) /\ ~Has(d, "unopened") /\ ~Authenticated(d)
      BY <3>1, LinkedAnswered DEF Sound, Answered, SameMode, Authenticated, Has
    <3> QED BY <1>3, <3>2, <3>3, LinkedFail
  <2>5. ~Reply(s)
    BY <1>2 DEF Reply
  <2> QED BY <1>11, <2>1, <2>2, <2>3, <2>4, <2>5
<1> QED BY <1>4, <1>5, <1>6, <1>7, <1>8, <1>9, <1>10, <1>11 DEF Next

LEMMA InitCovered == ASSUME Init PROVE Untyped(c) /\ Covered(c)
<1>1. c.status = "disconnected" /\ c.kind = [x \in Cmds |-> "plain"]
  BY DEF Init
<1> QED BY <1>1 DEF Untyped, Covered

\* The inductive invariant of such a client that sends no command by its own
\* method.
CoveredInv ==
    /\ "typed" \notin Kinds => Untyped(c)
    /\ ~later /\ "typed" \notin Kinds => CoveredNow(c, frame)

LEMMA CoveredAlways == Spec => []CoveredInv
<1>1. Init => CoveredInv
  BY InitCovered DEF CoveredInv, CoveredNow
<1>2. SoundInv /\ CoveredInv /\ [Next]_vars => CoveredInv'
  <2> SUFFICES ASSUME SoundInv, CoveredInv, [Next]_vars PROVE CoveredInv'
    OBVIOUS
  <2>1. CASE Next
    <3>1. "typed" \notin Kinds => Untyped(c')
      BY <2>1, ValkeyAssumption, NextUntyped DEF SoundInv, BaseInv, CoveredInv
    <3>2. ~later' /\ "typed" \notin Kinds => CoveredNow(c', frame')
      BY <2>1, ValkeyAssumption, NextLater, NextCovered DEF SoundInv, BaseInv, CoveredInv
    <3> QED BY <3>1, <3>2 DEF CoveredInv
  <2>2. CASE UNCHANGED vars
    <3>1. c' = c /\ frame' = frame /\ later' = later
      BY <2>2 DEF vars
    <3> QED BY <3>1 DEF CoveredInv
  <2> QED BY <2>1, <2>2
<1> QED BY <1>1, <1>2, SoundAlways, PTL DEF Spec

\* Until then a connected client whose queue is not empty has something to come that
\* looks at the queue again, if no command is sent by a method of its own that says
\* wrongly that it may be pipelined.
THEOREM NoStallHolds == "typed" \notin Kinds => (Spec => [](~later => NoStall))
<1> SUFFICES ASSUME "typed" \notin Kinds PROVE Spec => [](~later => NoStall)
  OBVIOUS
<1>1. SoundInv /\ CoveredInv => (~later => NoStall)
  <2> SUFFICES ASSUME SoundInv, CoveredInv, ~later, frame = "loop", c.status = "connected",
                      c.queue.items # <<>>
               PROVE  \/ \E s \in SocketIds : c.net[s].wire # <<>>
                      \/ c.wbuf # <<>>
                      \/ c.registered /\ HeadPipelines(c)
    BY DEF NoStall
  <2>1. Sound(c) /\ c \in Client /\ c.socket # Detached
    BY ConnectedIs DEF SoundInv, Sound, Linked
  <2>2. Msgs(c) # <<>> \/ (c.registered /\ HeadPipelines(c))
    BY DEF CoveredInv, CoveredNow, Covered
  <2> QED BY <2>1, <2>2, MsgsType
<1> QED BY <1>1, SoundAlways, CoveredAlways, PTL
=============================================================================
